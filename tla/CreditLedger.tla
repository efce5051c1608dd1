---------------------------- MODULE CreditLedger ----------------------------
(***************************************************************************)
(* The prepaid credit ledger of companies: an append-only table, each row  *)
(* with the signed amount and the balance after it.  An append reads the   *)
(* latest row and inserts the next sequence number; of two that race for   *)
(* it, a unique index lets one through and the other starts again.         *)
(***************************************************************************)
EXTENDS Handlers

CONSTANTS
    Payers,       \* companies with a ledger
    EntryKeys,    \* idempotency keys, positive; a fee's is made of its reference
    EntryAmounts, \* bound: amounts of the entries of an administrator
    Fees,         \* bound: amounts of platform fees
    MaxAppends    \* MAX_APPEND_ATTEMPTS

ASSUME CreditLedgerAssumption ==
    /\ EntryKeys \subseteq Nat \ {0} /\ EntryAmounts \subseteq Int \ {0}
    /\ Fees \subseteq Nat \ {0} /\ MaxAppends \in Nat \ {0}

VARIABLE ledger  \* the rows of each company, in the order of insertion

Row == [sequence : Nat, amount : Int, balanceAfter : Int, key : EntryKeys \cup {0}]
\* The program points of its handlers.
CreditPoints == {"read", "append"}

CreditOK == ledger \in [Payers -> Seq(Row)]
CreditInit == ledger = [c \in Payers |-> <<>>]

Latest(rows) ==
    IF rows = <<>> THEN [sequence |-> 0, balanceAfter |-> 0]
    ELSE CHOOSE r \in Range(rows) : \A x \in Range(rows) : x.sequence <= r.sequence

\* append rejects what the balance cannot absorb, applyToFee takes what there
\* is; 0 stands for no row.
Computed(op, amount, balance) ==
    IF op = "fee" THEN -Min({amount, balance})
    ELSE IF balance + amount < 0 THEN 0 ELSE amount

\* Two operations, one append loop.
StartAppend(w, op, c, amount, key) ==
    /\ Call(w, op, "read", [c |-> c, amount |-> amount, key |-> key, attempt |-> 1, row |-> <<>>])
    /\ UNCHANGED ledger

AppendEntry(w, c, amount, key) == StartAppend(w, "entry", c, amount, key)
ApplyToFee(w, c, fee, ref) == StartAppend(w, "fee", c, fee, ref)

\* A row under the same key is the answer; otherwise the row is computed.
ReadLedger(w) ==
    LET v == Local(w)
        last == Latest(ledger[v.c])
        amount == Computed(req[w].op, v.amount, last.balanceAfter)
        known == v.key # 0 /\ \E r \in Range(ledger[v.c]) : r.key = v.key
    IN  /\ At(w, "read")
        /\ IF known \/ amount = 0 THEN End(w, "read")
           ELSE GotoWith(w, "read", "append", [v EXCEPT !.row =
                  [sequence |-> last.sequence + 1, amount |-> amount,
                   balanceAfter |-> last.balanceAfter + amount, key |-> v.key]])
        /\ UNCHANGED ledger

UniqueViolationBug(rows, row) == row.key # 0 /\ \E r \in Range(rows) : r.key = row.key
UniqueViolation(rows, row) ==
    \E r \in Range(rows) : r.sequence = row.sequence \/ (row.key # 0 /\ r.key = row.key)

\* A conflict starts the append again, a number of times.
InsertEntry(w) ==
    LET v == Local(w)
    IN  /\ At(w, "append")
        /\ \/ /\ UniqueViolation(ledger[v.c], v.row)
              /\ IF v.attempt < MaxAppends THEN GotoWith(w, "append", "read", [v EXCEPT !.attempt = @ + 1])
                 ELSE End(w, "append")
              /\ UNCHANGED ledger
           \/ /\ ~UniqueViolation(ledger[v.c], v.row)
              /\ End(w, "append") /\ ledger' = [ledger EXCEPT ![v.c] = Append(@, v.row)]

CreditNext ==
    \E w \in Workers :
      \/ \E c \in Payers :
           \/ \E amount \in EntryAmounts, k \in EntryKeys \cup {0} : AppendEntry(w, c, amount, k)
           \/ \E fee \in Fees, ref \in EntryKeys : ApplyToFee(w, c, fee, ref)
      \/ ReadLedger(w) \/ InsertEntry(w)

-----------------------------------------------------------------------------

\* An entry changes the balance by its amount, a fee by at most itself.
Charges == UNION {(-fee)..(-1) : fee \in Fees}

Prepaid == INSTANCE PrepaidCredit WITH
    Accounts <- Payers, Keys <- EntryKeys, Amounts <- EntryAmounts \cup Charges,
    balance <- [c \in Payers |-> Latest(ledger[c]).balanceAfter],
    used <- [c \in Payers |-> {r.key : r \in Range(ledger[c])} \ {0}]

\* The ledger implements prepaid credit: whatever appends and fees race for a
\* sequence number, each row that gets in changes the balance by its own amount,
\* leaves it at or above zero, and no key is applied twice.
ImplementsPrepaidCredit == Prepaid!PrepaidSpec
=============================================================================
