-------------------------- MODULE IncomingPayments --------------------------
(***************************************************************************)
(* IncomingPaymentPollerService and UnmatchedPaymentsService beside the    *)
(* engagements: payments to the contract that Horizon lists are matched by *)
(* their memo or kept for an admin, who settles each of them.              *)
(*                                                                         *)
(* Horizon's list and its cursor are external.  The gauge is left out; the *)
(* alert threshold is kept, as the memory of one poller process.           *)
(***************************************************************************)
EXTENDS Engagements

CONSTANTS
    Pollers,      \* instances that run the cron job
    Admins,       \* requests of admins in flight
    TxHashes,     \* transactions that pay the contract
    PageSize,     \* the limit of one Horizon request (50 in the code)
    Threshold,    \* UNMATCHED_PAYMENT_ALERT_THRESHOLD
    MaxPayments   \* bound: payments on Horizon

ASSUME PaymentsAssumption ==
    /\ PageSize \in Nat \ {0} /\ Threshold \in Nat \ {0} /\ MaxPayments \in Nat

Verdicts == {"MATCHED", "REFUNDED", "IGNORED"}

VARIABLES
    payments,   \* Horizon's list; a position is a paging token
    matched,    \* history: the positions whose memo named an open engagement
    unmatched,  \* UnmatchedPayment.status by transaction hash
    cursor,     \* SystemConfig horizon_payments_cursor
    key,        \* holder of the Redis key of the job
    alerted,    \* lastAlertedCount > 0, in each process
    poller,     \* what each instance is doing
    admin       \* what each admin request is doing

payVars == <<payments, matched, unmatched, cursor, key, alerted, poller, admin>>
NoPoll == [pc |-> "idle", last |-> 0, todo |-> <<>>]
NoAdmin == [pc |-> "idle", tx |-> "", as |-> "IGNORED"]

PayTypeOK ==
    /\ TypeOK
    /\ payments \in Seq([tx : TxHashes, memo : Ids \cup {0}])
    /\ matched \subseteq 1..MaxPayments /\ cursor \in 0..MaxPayments
    /\ unmatched \in [TxHashes -> Verdicts \cup {"NONE", "PENDING"}]
    /\ key \in Pollers \cup {""} /\ alerted \in [Pollers -> BOOLEAN]
    /\ \A p \in Pollers : /\ poller[p].pc \in {"idle", "fetch", "match", "find", "create", "save"}
                          /\ poller[p].last \in 0..MaxPayments
    /\ \A a \in Admins : admin[a].pc \in {"idle", "write"}

PayInit ==
    /\ Init
    /\ payments = <<>> /\ matched = {} /\ unmatched = [x \in TxHashes |-> "NONE"]
    /\ cursor = 0 /\ key = "" /\ alerted = [p \in Pollers |-> FALSE]
    /\ poller = [p \in Pollers |-> NoPoll] /\ admin = [a \in Admins |-> NoAdmin]

Polling(p, pc) == poller[p].pc = pc
Poll(p, r) == poller' = [poller EXCEPT ![p] = r]

\* A payment to the contract, with the id of an engagement or another text as
\* memo; those of one transaction are listed together and share its memo.
PaymentArrives(x, memo) ==
    /\ "payments" \in scope.ops /\ Len(payments) < MaxPayments
    /\ \/ \A n \in DOMAIN payments : payments[n].tx # x
       \/ payments # <<>> /\ Last(payments) = [tx |-> x, memo |-> memo]
    /\ payments' = Append(payments, [tx |-> x, memo |-> memo])
    /\ UNCHANGED <<vars, matched, unmatched, cursor, key, alerted, poller, admin>>

\* pollIncomingPayments takes the key and loads the cursor.
PollIncomingPayments(p) ==
    /\ "payments" \in scope.ops /\ cursor < Len(payments)
    /\ Polling(p, "idle") /\ key = ""
    /\ key' = p
    /\ Poll(p, [NoPoll EXCEPT !.pc = "fetch", !.last = cursor])
    /\ UNCHANGED <<vars, payments, matched, unmatched, cursor, alerted, admin>>

\* The next page, in ascending order.
FetchPayments(p) ==
    LET from == poller[p].last + 1
        to == Min({Len(payments), poller[p].last + PageSize})
    IN  /\ Polling(p, "fetch")
        /\ Poll(p, [poller[p] EXCEPT !.pc = "match", !.todo = [i \in 1..(to - from + 1) |-> from + i - 1]])
        /\ UNCHANGED <<vars, payments, matched, unmatched, cursor, key, alerted, admin>>

Open(e) == eng[e].status \in Live \cup {"PENDING_ACCEPTANCE"}

LastTokenBug(p) == Len(payments)
LastToken(p) == Head(poller[p].todo)

\* matchMemoToEngagement: a payment of an open engagement is skipped.
MatchMemo(p) ==
    LET n == Head(poller[p].todo)
        hit == payments[n].memo # 0 /\ Open(payments[n].memo)
    IN  /\ Polling(p, "match")
        /\ IF poller[p].todo = <<>>
           THEN Poll(p, [poller[p] EXCEPT !.pc = "save"]) /\ UNCHANGED matched
           ELSE /\ Poll(p, [poller[p] EXCEPT !.last = LastToken(p),
                              !.pc = IF hit THEN "match" ELSE "find",
                              !.todo = IF hit THEN Tail(@) ELSE @])
                /\ matched' = IF hit THEN matched \cup {n} ELSE matched
        /\ UNCHANGED <<vars, payments, unmatched, cursor, key, alerted, admin>>

\* The others are kept for an admin, unless the hash is known: one payment of a
\* transaction, whatever others it makes.
FindUnmatched(p) ==
    /\ Polling(p, "find")
    /\ Poll(p, IF unmatched[payments[Head(poller[p].todo)].tx] = "NONE"
               THEN [poller[p] EXCEPT !.pc = "create"]
               ELSE [poller[p] EXCEPT !.pc = "match", !.todo = Tail(@)])
    /\ UNCHANGED <<vars, payments, matched, unmatched, cursor, key, alerted, admin>>

\* The hash is unique: if another run was faster the insert raises, and the run
\* ends without saving its cursor.
StoreUnmatched(p) ==
    LET x == payments[Head(poller[p].todo)].tx
    IN  /\ Polling(p, "create")
        /\ IF unmatched[x] = "NONE"
           THEN /\ unmatched' = [unmatched EXCEPT ![x] = "PENDING"]
                /\ Poll(p, [poller[p] EXCEPT !.pc = "match", !.todo = Tail(@)])
                /\ UNCHANGED key
           ELSE Poll(p, NoPoll) /\ key' = (IF key = p THEN "" ELSE key) /\ UNCHANGED unmatched
        /\ UNCHANGED <<vars, payments, matched, cursor, alerted, admin>>

Pending == Cardinality({x \in TxHashes : unmatched[x] = "PENDING"})

\* saveCursor, then maybeAlertAdmins, then the key is given back.
SaveCursor(p) ==
    /\ Polling(p, "save")
    /\ cursor' = poller[p].last
    /\ alerted' = [alerted EXCEPT ![p] = Pending >= Threshold]
    /\ key' = IF key = p THEN "" ELSE key
    /\ Poll(p, NoPoll)
    /\ UNCHANGED <<vars, payments, matched, unmatched, admin>>

\* The process stops: its memory is lost and its key expires by itself.
PollerCrash(p) ==
    /\ ~Polling(p, "idle") /\ Fault("crash")
    /\ Poll(p, NoPoll)
    /\ alerted' = [alerted EXCEPT ![p] = FALSE]
    /\ UNCHANGED <<rows, ledger, report, req, now, calls, scope, upset, payments, matched,
                   unmatched, cursor, key, admin>>

\* The key of a crashed run expires, or that of a run slower than a minute.
KeyExpires ==
    /\ key # "" /\ key' = ""
    /\ \/ Polling(key, "idle") /\ UNCHANGED faults
       \/ ~Polling(key, "idle") /\ Fault("timeout")
    /\ UNCHANGED <<rows, ledger, report, req, now, calls, scope, upset, payments, matched,
                   unmatched, cursor, alerted, poller, admin>>

\* match, refund and ignore: the row is checked, then written.
Resolve(a, x, as) ==
    /\ "resolve" \in scope.ops /\ calls < scope.calls /\ calls' = calls + 1
    /\ admin[a].pc = "idle" /\ unmatched[x] = "PENDING"
    /\ admin' = [admin EXCEPT ![a] = [pc |-> "write", tx |-> x, as |-> as]]
    /\ UNCHANGED <<rows, ledger, report, req, now, faults, scope, upset, payments, matched,
                   unmatched, cursor, key, alerted, poller>>

WriteVerdict(a) ==
    /\ admin[a].pc = "write"
    /\ unmatched' = [unmatched EXCEPT ![admin[a].tx] = admin[a].as]
    /\ admin' = [admin EXCEPT ![a] = NoAdmin]
    /\ UNCHANGED <<vars, payments, matched, cursor, key, alerted, poller>>

PayNext ==
    \/ Next /\ UNCHANGED payVars
    \/ \E x \in TxHashes, memo \in Ids \cup {0} : PaymentArrives(x, memo)
    \/ \E p \in Pollers : \/ PollIncomingPayments(p) \/ FetchPayments(p) \/ MatchMemo(p)
                          \/ FindUnmatched(p) \/ StoreUnmatched(p) \/ SaveCursor(p) \/ PollerCrash(p)
    \/ KeyExpires
    \/ \E a \in Admins, x \in TxHashes, as \in Verdicts : Resolve(a, x, as)
    \/ \E a \in Admins : WriteVerdict(a)

PaySpec == PayInit /\ [][PayNext]_<<vars, payVars>>

\* Of every payment before the saved cursor, either its memo named an open
\* engagement or its transaction is kept for an admin, whatever runs crashed or
\* overlapped on the way.  The row of a transaction holds one payment: those that
\* follow it in the same transaction are passed over, amount and sender included.
NoTransactionLost ==
    \A n \in 1..cursor : n \in matched \/ unmatched[payments[n].tx] # "NONE"
=============================================================================
