---------------------------- MODULE Engagements ----------------------------
(***************************************************************************)
(* An engagement between the database and the escrow contract:             *)
(* EngagementsService, the percentages and due dates that MilestonesService *)
(* keeps for it, the placement reminder job, the nightly reconciliation,   *)
(* and the handlers of EventsService that write engagement rows.           *)
(*                                                                         *)
(* One action of a worker is one database statement or one contract call.  *)
(* The contract, its events and its token balance are external.  Reads     *)
(* that change nothing, notifications, tags and notes are left out.        *)
(*                                                                         *)
(* An operator whose name ends in Bug is a wrong variant of the definition *)
(* that follows it; no specification uses it.                              *)
(***************************************************************************)
EXTENDS Integers, FiniteSets, Sequences, FiniteSetsExt, SequencesExt

CONSTANTS
    Workers,      \* in-flight requests, cron ticks and event handlers
    Ids,          \* engagement ids, positive
    Total,        \* totalAmount
    Splits,       \* the lists of paymentPercent that requests carry
    Changes,      \* the adjustments that requests carry: index to paymentPercent
    DueDates,     \* the placement due dates in use; 0 stands for none
    ReminderDays, \* milestones.placementReminderDays
    MaxFaults,    \* bound: number of failures
    Scopes        \* bound: the operations, failures, calls and instants of a behaviour

Live == {"ACTIVE", "REPLACEMENT_REQUESTED"}
Statuses == Live \cup {"NONE", "PENDING_ACCEPTANCE", "COMPLETED", "CANCELLED"}
Running == {"Active", "ReplacementRequested"}
OnChain == Running \cup {"None", "Completed", "Cancelled"}
Operations == {"create", "preview", "accept", "decline", "cancel", "replace", "admin",
               "archive", "percents", "bulk", "due", "reminder", "reconcile", "payments",
               "resolve", "release"}
FaultKinds == {"rpc", "timeout", "crash"}

ASSUME EngagementsAssumption ==
    /\ Workers \subseteq (Nat \ {0}) /\ Ids \subseteq (Nat \ {0})
    /\ Total \in Nat \ {0} /\ Splits \subseteq Seq(Nat)
    /\ \A c \in Changes : DOMAIN c \subseteq Nat /\ \A n \in DOMAIN c : c[n] \in Nat
    /\ DueDates \subseteq Nat /\ 0 \in DueDates /\ ReminderDays \in Nat
    /\ MaxFaults \in Nat
    /\ \A s \in Scopes : /\ s.ops \subseteq Operations /\ s.calls \in Nat
                         /\ s.faults \subseteq FaultKinds /\ s.times \subseteq Nat

VARIABLES
    eng,      \* the Engagement table
    split,    \* Milestone.paymentPercent of each engagement, by index
    due,      \* placementDueAt and reminderSent of its placement milestone
    chain,    \* the contract's view of each engagement
    events,   \* chain events not yet marked processed, oldest first
    net,      \* transactions in the network
    report,   \* ReconciliationService.lastReport: the ids with a mismatch
    req,      \* what each worker is doing
    now, calls, faults,
    scope,    \* the scope of this behaviour
    upset     \* history: the irregularities that happened so far

rows == <<eng, split, due>>
ledger == <<chain, events, net>>
counters == <<now, calls, faults, scope>>
vars == <<rows, ledger, report, req, counters, upset>>

Row == [status : Statuses, tx : BOOLEAN, released : Nat, shortfall : BOOLEAN,
        archived : BOOLEAN]
NoRow == [status |-> "NONE", tx |-> FALSE, released |-> 0, shortfall |-> FALSE,
          archived |-> FALSE]
Contract == [st : OnChain, released : Nat]
EventKinds == {"engagement_created", "milestone_confirmed", "replacement_requested",
               "engagement_cancelled"}
Tx == [by : Workers \cup {0}, call : {"create", "cancel"}, e : Ids]

\* What a job reads of an engagement at the start of its run.
Item == [e : Ids, row : Row, at : Nat]
Read(e) == [e |-> e, row |-> eng[e], at |-> due[e].at]

\* e, ps, at, row, view and todo are the handler's locals: engagement, list of
\* percentages, due date, the row and the contract view it read, its batch.
Request ==
    [pc : {"idle", "find", "insert", "submit", "wait", "activate", "setCancelled",
           "setStatus", "setArchived", "append", "rewrite", "setDue", "remind",
           "remindBatch", "syncChain", "syncRow", "syncWrite", "check", "ack"},
     op : Operations \cup EventKinds \cup {"none"}, e : Ids \cup {0},
     ps : Splits \cup Changes \cup {<<>>},
     at : Nat, row : Row, view : Contract, todo : SUBSET Item, found : SUBSET Ids]
Idle == [pc |-> "idle", op |-> "none", e |-> 0, ps |-> <<>>, at |-> 0, row |-> NoRow,
         view |-> [st |-> "None", released |-> 0], todo |-> {}, found |-> {}]

TypeOK ==
    /\ eng \in [Ids -> Row]
    /\ split \in [Ids -> Seq(Nat)]
    /\ due \in [Ids -> [at : Nat, sent : BOOLEAN]]
    /\ chain \in [Ids -> Contract]
    /\ events \in Seq([kind : EventKinds, e : Ids]) /\ net \subseteq Tx
    /\ report \subseteq Ids
    /\ req \in [Workers -> Request]
    /\ now \in Nat /\ calls \in Nat /\ faults \in Nat /\ scope \in Scopes
    /\ upset \subseteq {"overlap", "override", "offchain", "bulk", "late", "crash"}

Init ==
    /\ scope \in Scopes
    /\ eng = [e \in Ids |-> NoRow] /\ split = [e \in Ids |-> <<>>]
    /\ due = [e \in Ids |-> [at |-> 0, sent |-> FALSE]]
    /\ chain = [e \in Ids |-> [st |-> "None", released |-> 0]]
    /\ events = <<>> /\ net = {} /\ report = {}
    /\ req = [w \in Workers |-> Idle]
    /\ now = 0 /\ calls = 0 /\ faults = 0 /\ upset = {}

-----------------------------------------------------------------------------
(* Control of a worker *)

At(w, pc) == req[w].pc = pc
Become(w, r) == req' = [req EXCEPT ![w] = r]
Goto(w, pc) == Become(w, [req[w] EXCEPT !.pc = pc])
Done(w) == Become(w, Idle)
Fault(kind) == kind \in scope.faults /\ faults < MaxFaults /\ faults' = faults + 1
Busy(w) == \E o \in Workers \ {w} : ~At(o, "idle")

Begin(w, r, what) ==
    /\ At(w, "idle") /\ Become(w, r)
    /\ upset' = upset \cup what \cup (IF Busy(w) THEN {"overlap"} ELSE {})

\* A request of a user, within the operations and the number of the scope.
Call(w, op, r, what) ==
    /\ op \in scope.ops /\ calls < scope.calls /\ calls' = calls + 1
    /\ Begin(w, [r EXCEPT !.op = op], what)
    /\ UNCHANGED <<rows, ledger, report, now, faults, scope>>

SetStatus(e, s) == eng' = [eng EXCEPT ![e].status = s]
Exists(e) == eng[e].status # "NONE"
SumOf(ps) == FoldLeft(LAMBDA a, b : a + b, 0, ps)

-----------------------------------------------------------------------------
(* Creation *)

\* create, and one row of importFromCsv, which brings no milestones.
CreateEngagement(w, e, ps) ==
    Call(w, "create", [Idle EXCEPT !.pc = "find", !.e = e, !.ps = ps], {})
Preview(w, e, ps) ==
    Call(w, "preview", [Idle EXCEPT !.pc = "find", !.e = e, !.ps = ps], {})

ValidSplit(ps) == SumOf(ps) = 100

\* prepareEngagement: the id is free and the percentages add up.
PrepareEngagement(w) ==
    /\ At(w, "find")
    /\ IF ~Exists(req[w].e) /\ ValidSplit(req[w].ps) THEN Goto(w, "insert") ELSE Done(w)
    /\ UNCHANGED <<rows, ledger, report, counters, upset>>

\* It persists the engagement and returns the serialized row, in which create
\* and preview then look for what they expect, and raise.
InsertEngagement(w) ==
    LET e == req[w].e
    IN  /\ At(w, "insert")
        /\ IF Exists(e) THEN UNCHANGED <<eng, split>>
           ELSE /\ SetStatus(e, "PENDING_ACCEPTANCE")
                /\ split' = [split EXCEPT ![e] = req[w].ps]
        /\ Done(w)
        /\ UNCHANGED <<due, ledger, report, counters, upset>>

-----------------------------------------------------------------------------
(* The invitation *)

AcceptInvite(w, e) ==
    /\ eng[e].status = "PENDING_ACCEPTANCE"
    /\ Call(w, "accept", [Idle EXCEPT !.pc = "submit", !.e = e], {})

DeclineInvite(w, e) ==
    /\ eng[e].status = "PENDING_ACCEPTANCE"
    /\ Call(w, "decline", [Idle EXCEPT !.pc = "setCancelled", !.e = e], {})

CancelEngagement(w, e) ==
    /\ Exists(e) /\ eng[e].status \notin {"CANCELLED", "COMPLETED"}
    /\ Call(w, "cancel", [Idle EXCEPT !.pc = "submit", !.e = e], {})

\* A create needs a free id, a cancellation an engagement under way.
Accepts(call, e) == IF call = "create" THEN chain[e].st = "None" ELSE chain[e].st \in Running

\* The contract call; a balance that does not suffice and a refused simulation raise.
Submit(w) ==
    LET e == req[w].e
        call == IF req[w].op = "accept" THEN "create" ELSE "cancel"
    IN  /\ At(w, "submit")
        /\ \/ /\ Accepts(call, e)
              /\ net' = net \cup {[by |-> w, call |-> call, e |-> e]}
              /\ Goto(w, "wait") /\ UNCHANGED faults
           \/ /\ Fault("rpc") \/ (~Accepts(call, e) /\ UNCHANGED faults)
              /\ Done(w) /\ UNCHANGED net
        /\ UNCHANGED <<rows, chain, events, report, now, calls, scope, upset>>

Emit(kind, e) == events' = Append(events, [kind |-> kind, e |-> e])

\* A transaction is included; it fails if another was faster.
Land(t) ==
    LET ok == Accepts(t.call, t.e)
        next == IF t.call = "create" THEN "activate" ELSE "setCancelled"
    IN  /\ net' = net \ {t}
        /\ IF ~ok THEN UNCHANGED <<chain, events>>
           ELSE IF t.call = "create"
           THEN chain' = [chain EXCEPT ![t.e].st = "Active"] /\ Emit("engagement_created", t.e)
           ELSE /\ chain' = [chain EXCEPT ![t.e].st = "Cancelled"]
                /\ Emit("engagement_cancelled", t.e)
        /\ IF t.by = 0 THEN UNCHANGED req ELSE IF ok THEN Goto(t.by, next) ELSE Done(t.by)
        /\ UNCHANGED <<rows, report, counters, upset>>

\* The caller stops waiting for a transaction that will be included.
GiveUp(t) ==
    /\ t.by # 0 /\ Fault("timeout")
    /\ net' = (net \ {t}) \cup {[t EXCEPT !.by = 0]}
    /\ Done(t.by)
    /\ upset' = upset \cup {"late"}
    /\ UNCHANGED <<rows, chain, events, report, now, calls, scope>>

\* The transaction of acceptInvite: hash, ledger, status and schedules at once.
\* The request for the current ledger that comes before it may fail.
Activate(w) ==
    /\ At(w, "activate")
    /\ \/ /\ eng' = [eng EXCEPT ![req[w].e].status = "ACTIVE", ![req[w].e].tx = TRUE]
          /\ UNCHANGED <<faults, upset>>
       \/ Fault("rpc") /\ upset' = upset \cup {"crash"} /\ UNCHANGED eng
    /\ Done(w)
    /\ UNCHANGED <<split, due, ledger, report, now, calls, scope>>

\* declineInvite and the end of cancelEngagement.
SetCancelled(w) ==
    /\ At(w, "setCancelled")
    /\ SetStatus(req[w].e, "CANCELLED")
    /\ Done(w)
    /\ UNCHANGED <<split, due, ledger, report, counters, upset>>

-----------------------------------------------------------------------------
(* Requests that read the row and then write it, without the contract *)

RequestReplacement(w, e) ==
    /\ Exists(e) /\ eng[e].status \notin {"CANCELLED", "COMPLETED", "REPLACEMENT_REQUESTED"}
    /\ Call(w, "replace", [Idle EXCEPT !.pc = "setStatus", !.e = e,
                             !.row = [NoRow EXCEPT !.status = "REPLACEMENT_REQUESTED"]],
            {"offchain"})

\* updateStatus and updateEngagementStatusByAdmin: any status to any other.
UpdateStatusByAdmin(w, e, s) ==
    /\ Exists(e)
    /\ Call(w, "admin", [Idle EXCEPT !.pc = "setStatus", !.e = e,
                                     !.row = [NoRow EXCEPT !.status = s]], {"override"})

WriteStatus(w) ==
    /\ At(w, "setStatus")
    /\ SetStatus(req[w].e, req[w].row.status)
    /\ Done(w)
    /\ UNCHANGED <<split, due, ledger, report, counters, upset>>

\* archive takes a row that is not archived, restore one that is.
Archive(w, e) ==
    /\ Exists(e)
    /\ Call(w, "archive", [Idle EXCEPT !.pc = "setArchived", !.e = e,
                             !.row = [NoRow EXCEPT !.archived = ~eng[e].archived]], {})

WriteArchived(w) ==
    /\ At(w, "setArchived")
    /\ eng' = [eng EXCEPT ![req[w].e].archived = req[w].row.archived]
    /\ Done(w)
    /\ UNCHANGED <<split, due, ledger, report, counters, upset>>

-----------------------------------------------------------------------------
(* Milestone percentages and due dates *)

\* bulkCreate reads the last index, then appends a batch that adds up to 100 by
\* itself; the unique index refuses a batch that starts where another one did.
BulkCreate(w, e, ps) ==
    /\ Exists(e) /\ ValidSplit(ps)
    /\ Call(w, "bulk", [Idle EXCEPT !.pc = "append", !.e = e, !.ps = ps,
                                    !.at = Len(split[e])], {"bulk"})

AppendMilestones(w) ==
    LET e == req[w].e
    IN  /\ At(w, "append")
        /\ split' = [split EXCEPT ![e] = IF Len(@) = req[w].at THEN @ \o req[w].ps ELSE @]
        /\ Done(w)
        /\ UNCHANGED <<eng, due, ledger, report, counters, upset>>

Adjusted(ps, change) == [n \in DOMAIN ps |-> IF n \in DOMAIN change THEN change[n] ELSE ps[n]]

\* The whole list must add up again, with the milestones that stay as they are.
Totals(ps, change) == SumOf(Adjusted(ps, change)) = 100

\* adjustMilestonePercents: checked on the list that was read, then the
\* milestones named in the request are written, in one transaction.
AdjustPercents(w, e, change) ==
    /\ Exists(e) /\ DOMAIN change \subseteq DOMAIN split[e]
    /\ Totals(split[e], change)
    /\ Call(w, "percents", [Idle EXCEPT !.pc = "rewrite", !.e = e, !.ps = change], {})

RewritePercents(w) ==
    /\ At(w, "rewrite")
    /\ split' = [split EXCEPT ![req[w].e] = Adjusted(@, req[w].ps)]
    /\ Done(w)
    /\ UNCHANGED <<eng, due, ledger, report, counters, upset>>

\* setPlacementDueDate: the read decides nothing; a new date is to be reminded of again.
SetPlacementDueDate(w, e, at) ==
    /\ Exists(e)
    /\ Call(w, "due", [Idle EXCEPT !.pc = "setDue", !.e = e, !.at = at], {})

WriteDueDate(w) ==
    /\ At(w, "setDue")
    /\ due' = [due EXCEPT ![req[w].e] = [at |-> req[w].at, sent |-> FALSE]]
    /\ Done(w)
    /\ UNCHANGED <<eng, split, ledger, report, counters, upset>>

\* sendPlacementReminders: the batch is read once.
DueSoon == {e \in Ids : /\ now < due[e].at /\ due[e].at <= now + ReminderDays
                        /\ ~due[e].sent}
SendPlacementReminders(w) ==
    /\ DueSoon # {} /\ \A o \in Workers : req[o].op # "reminder"
    /\ Call(w, "reminder", [Idle EXCEPT !.pc = "remindBatch", !.todo = {Read(e) : e \in DueSoon}], {})

\* The notification of one milestone, with the date that was read, is left out.
Remind(w) ==
    /\ At(w, "remindBatch")
    /\ IF req[w].todo = {} THEN Done(w)
       ELSE \E i \in req[w].todo : Become(w, [req[w] EXCEPT !.pc = "remind", !.e = i.e, !.todo = @ \ {i}])
    /\ UNCHANGED <<eng, split, due, ledger, report, counters, upset>>

MarkReminded(w) ==
    /\ At(w, "remind")
    /\ due' = [due EXCEPT ![req[w].e].sent = TRUE]
    /\ Goto(w, "remindBatch")
    /\ UNCHANGED <<eng, split, ledger, report, counters, upset>>

-----------------------------------------------------------------------------
(* syncFromChain *)

\* What the contract holds for all its engagements together.
Escrow == MapThenSumSet(LAMBDA e : IF chain[e].st \in Running THEN Total - chain[e].released ELSE 0, Ids)

\* get_engagement; nothing happens for an id the contract does not know.
SyncFromChain(w) ==
    LET view == chain[req[w].e]
    IN  /\ At(w, "syncChain")
        /\ IF view.st = "None" THEN Goto(w, "ack")
           ELSE Become(w, [req[w] EXCEPT !.pc = "syncRow", !.view = view])
        /\ UNCHANGED <<rows, ledger, report, counters, upset>>

\* The row and the balance; an error ends the sync quietly.  Of a funded row the
\* exchange rate is missing, since nothing ever writes it, and fetchUsdRate, which
\* is to fetch it, is defined nowhere: the sync of such a row always ends here.
SyncRow(w) ==
    /\ At(w, "syncRow")
    /\ \/ /\ Goto(w, IF eng[req[w].e].tx THEN "ack" ELSE "syncWrite")
          /\ UNCHANGED faults
       \/ Fault("rpc") /\ Goto(w, "ack")
    /\ UNCHANGED <<rows, ledger, report, now, calls, scope, upset>>

StatusMapBug(st) == st

\* The names the contract and the database give to a status.
StatusMap(st) == CASE st = "Active" -> "ACTIVE" [] st = "Completed" -> "COMPLETED"
                   [] st = "Cancelled" -> "CANCELLED"
                   [] st = "ReplacementRequested" -> "REPLACEMENT_REQUESTED"

Synced(r, view) == [r EXCEPT !.status = StatusMap(view.st), !.released = view.released,
                             !.shortfall = Escrow # Total - view.released]

SyncWrite(w) ==
    /\ At(w, "syncWrite")
    /\ eng' = [eng EXCEPT ![req[w].e] = Synced(@, req[w].view)]
    /\ Goto(w, "ack")
    /\ UNCHANGED <<split, due, ledger, report, counters, upset>>

EventStatusBug(kind, old) == IF kind = "engagement_cancelled" THEN "CANCELLED" ELSE old

\* The status the handler of an event writes by itself.
EventStatus(kind, old) == CASE kind = "engagement_cancelled" -> "CANCELLED"
                            [] kind = "replacement_requested" -> "REPLACEMENT_REQUESTED"
                            [] OTHER -> old

\* The handler of the oldest event: two of them write the status, the others read
\* the contract.
HandleEvent(w) ==
    LET e == Head(events).e
        kind == Head(events).kind
    IN  /\ events # <<>> /\ \A o \in Workers : req[o].op \notin EventKinds
        /\ Begin(w, [Idle EXCEPT !.op = kind, !.e = e, !.pc =
              IF kind \in {"engagement_created", "milestone_confirmed"} THEN "syncChain"
                                                                        ELSE "ack"], {})
        /\ SetStatus(e, EventStatus(kind, eng[e].status))
        /\ UNCHANGED <<split, due, ledger, report, counters>>

Acknowledge(w) ==
    /\ At(w, "ack")
    /\ events' = IF req[w].op \in EventKinds THEN Tail(events) ELSE events
    /\ Done(w)
    /\ UNCHANGED <<rows, chain, net, report, counters, upset>>

-----------------------------------------------------------------------------
(* ReconciliationService *)

DriftsBug(r, view) == Escrow # Total - r.released \/ view.released # r.released

\* A difference of the balance, of the payments or of the status.
Drifts(r, view) ==
    Escrow # Total - r.released \/ view.released # r.released \/ StatusMap(view.st) # r.status

RunReconciliation(w) ==
    /\ \A o \in Workers : req[o].op # "reconcile"
    /\ Call(w, "reconcile", [Idle EXCEPT !.pc = "check",
              !.todo = {Read(e) : e \in {i \in Ids : eng[i].status \in Live /\ eng[i].tx}}], {})

\* checkEngagement compares the contract with the row that the run read; what it
\* cannot read counts as a mismatch.
CheckEngagement(w) ==
    /\ At(w, "check")
    /\ \/ /\ req[w].todo = {}
          /\ report' = req[w].found /\ Done(w) /\ UNCHANGED faults
       \/ \E i \in req[w].todo :
            /\ (Drifts(i.row, chain[i.e]) /\ UNCHANGED faults) \/ Fault("rpc")
            /\ Become(w, [req[w] EXCEPT !.todo = @ \ {i}, !.found = @ \cup {i.e}])
            /\ UNCHANGED report
       \/ \E i \in req[w].todo :
            /\ ~Drifts(i.row, chain[i.e])
            /\ Become(w, [req[w] EXCEPT !.todo = @ \ {i}])
            /\ UNCHANGED <<report, faults>>
    /\ UNCHANGED <<rows, ledger, now, calls, scope, upset>>

-----------------------------------------------------------------------------
(* What happens to the contract without this service, failures and time *)

ContractMove == IF \A w \in Workers : At(w, "idle") THEN {} ELSE {"overlap"}

\* A payment of a milestone; the last one completes the engagement.
ReleaseOnChain(e) ==
    /\ "release" \in scope.ops /\ chain[e].st \in Running
    /\ calls < scope.calls /\ calls' = calls + 1
    /\ chain' = [chain EXCEPT ![e] = [st |-> IF @.released + 1 = Total THEN "Completed" ELSE @.st,
                                      released |-> @.released + 1]]
    /\ Emit("milestone_confirmed", e)
    /\ upset' = upset \cup ContractMove
    /\ UNCHANGED <<rows, net, report, req, now, faults, scope>>

ReplaceOnChain(e) ==
    /\ "release" \in scope.ops /\ chain[e].st = "Active"
    /\ calls < scope.calls /\ calls' = calls + 1
    /\ chain' = [chain EXCEPT ![e].st = "ReplacementRequested"]
    /\ Emit("replacement_requested", e)
    /\ upset' = upset \cup ContractMove
    /\ UNCHANGED <<rows, net, report, req, now, faults, scope>>

Crash(w) ==
    /\ ~At(w, "idle") /\ Fault("crash")
    /\ Done(w)
    /\ net' = {[t EXCEPT !.by = IF @ = w THEN 0 ELSE @] : t \in net}
    /\ upset' = upset \cup {"crash"}
    /\ UNCHANGED <<rows, chain, events, report, now, calls, scope>>

Later(t) ==
    /\ t > now /\ now' = t
    /\ UNCHANGED <<rows, ledger, report, req, calls, faults, scope, upset>>

Take(w) ==
    \/ \E e \in Ids :
         \/ \E ps \in Splits \cup {<<>>} : CreateEngagement(w, e, ps)
         \/ \E ps \in Splits : Preview(w, e, ps) \/ BulkCreate(w, e, ps)
         \/ AcceptInvite(w, e) \/ DeclineInvite(w, e) \/ CancelEngagement(w, e)
         \/ RequestReplacement(w, e) \/ Archive(w, e)
         \/ \E s \in Statuses \ {"NONE"} : UpdateStatusByAdmin(w, e, s)
         \/ \E c \in Changes : AdjustPercents(w, e, c)
         \/ \E at \in DueDates : SetPlacementDueDate(w, e, at)
    \/ SendPlacementReminders(w) \/ RunReconciliation(w) \/ HandleEvent(w)

Step(w) ==
    \/ PrepareEngagement(w) \/ InsertEngagement(w) \/ Submit(w) \/ Activate(w)
    \/ SetCancelled(w) \/ WriteStatus(w) \/ WriteArchived(w) \/ AppendMilestones(w)
    \/ RewritePercents(w) \/ WriteDueDate(w) \/ Remind(w) \/ MarkReminded(w)
    \/ SyncFromChain(w) \/ SyncRow(w) \/ SyncWrite(w) \/ Acknowledge(w)
    \/ CheckEngagement(w)

Next ==
    \/ \E w \in Workers : Take(w) \/ Step(w) \/ Crash(w)
    \/ \E t \in net : Land(t) \/ GiveUp(t)
    \/ \E e \in Ids : ReleaseOnChain(e) \/ ReplaceOnChain(e)
    \/ \E t \in scope.times : Later(t)

Spec == Init /\ [][Next]_vars

-----------------------------------------------------------------------------
(* Properties *)

Quiet == (\A w \in Workers : At(w, "idle")) /\ events = <<>> /\ net = {}

\* Once its events are handled, and unless something irregular happened, a row
\* says of its engagement what the contract says: an invitation that was declined
\* or not yet accepted is unknown to it, and an engagement under way, with a
\* replacement requested, or cancelled has that status.  Of completion a row
\* learns nothing, nor of payments: syncFromChain never writes a funded row.
RowAgrees ==
    (Quiet /\ upset = {}) =>
        \A e \in Ids :
            /\ eng[e].tx <=> chain[e].st # "None"
            /\ eng[e].tx => IF chain[e].st = "Completed" THEN eng[e].status \in Live
                            ELSE eng[e].status = StatusMap(chain[e].st)

\* A reconciliation that no other request, no answer the caller had given up on and
\* no crash disturbed reports every funded engagement whose status or payments
\* differ from the contract's.
ReportMissesNothing ==
    \A w \in Workers :
        (At(w, "check") /\ upset \cap {"overlap", "late", "crash"} = {}) =>
            \A e \in Ids \ {i.e : i \in req[w].todo} :
                (eng[e].status \in Live /\ eng[e].tx /\ e \notin req[w].found)
                    => eng[e].status = StatusMap(chain[e].st) /\ eng[e].released = chain[e].released
=============================================================================
