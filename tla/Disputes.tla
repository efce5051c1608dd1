------------------------------ MODULE Disputes ------------------------------
(***************************************************************************)
(* The dispute workflow: DisputesService, AppealService and                *)
(* ArbiterAssignmentService, with the part of MilestonesService and        *)
(* EventsService that drives them.                                         *)
(*                                                                         *)
(* A dispute is a database row.  Every request, cron tick and chain event  *)
(* is handled by a worker (an in-flight async call chain of some replica); *)
(* one action of a worker is one database statement, one transaction or    *)
(* one blockchain call, so whatever the code reads before an `await` and   *)
(* uses after it can be stale in the model as well.                        *)
(*                                                                         *)
(* The escrow contract, Stellar transactions and the order in which chain  *)
(* events arrive are external; they are modelled from how the services use *)
(* them.  The columns of the SLA clock and of the evidence window are read *)
(* by no action of this module and are left out of it.                     *)
(*                                                                         *)
(* An operator whose name ends in Bug is a wrong variant of the definition *)
(* that follows it; no specification uses it.                              *)
(***************************************************************************)
EXTENDS Integers, FiniteSets

CONSTANTS
    Workers,        \* in-flight handlers: requests, cron ticks, event handlers
    Milestones,     \* milestone ids, positive numbers
    Arbiters,       \* ids of ARBITER users, positive
    Eligible,       \* Eligible[m]: those that may be active and free of conflicts on m
    MaxDisputes,    \* bound: rows of the dispute table
    MaxRounds,      \* bound: disputes raised on chain per milestone
    MaxTime,        \* bound: the clock
    AppealWindow,   \* DISPUTE_APPEAL_WINDOW_HOURS, in clock units; 0 = no appeals
    ArbiterFee,     \* computeArbiterFee of a milestone's amount
    ExternalResolve,\* may the on-chain arbiter resolve without this backend?
    Faults,         \* the kinds of failure that may happen
    MaxFaults       \* bound: number of failures

Admin == -1         \* an ADMIN user, or the bulk route that passes no actor
NoOne == 0          \* a null arbiterId
NoDispute == 0
Never == -1         \* a null appealDeadline

DisputeIds == 1..MaxDisputes
Actors == Arbiters \cup {Admin}
Outcomes == {"RELEASE", "REFUND"}
Active == {"OPEN", "UNDER_REVIEW"}
FaultKinds == {"rpc", "timeout", "expire", "handler", "reorder", "crash"}

ASSUME MilestonesAssumption == Milestones \subseteq (Nat \ {0})
ASSUME ArbitersAssumption == Arbiters \subseteq (Nat \ {0})
ASSUME EligibleAssumption == Eligible \in [Milestones -> SUBSET Arbiters]
ASSUME BoundsAssumption ==
    /\ MaxDisputes \in Nat /\ MaxRounds \in Nat /\ MaxTime \in Nat
    /\ AppealWindow \in Nat /\ ArbiterFee \in Nat /\ MaxFaults \in Nat
    /\ ExternalResolve \in BOOLEAN /\ Faults \subseteq FaultKinds

VARIABLES
    dispute,    \* the Dispute table
    appeal,     \* DisputeAppeal.status of each dispute (unique per dispute)
    payout,     \* ArbiterPayout.arbiterId of each dispute (unique per dispute)
    msStatus,   \* Milestone.status
    refund,     \* does the milestone have a Refund row
    chain,      \* the escrow contract's view of each milestone
    verdict,    \* history: how the contract settled each round of a milestone
    tx,         \* the transaction each worker has in the network
    events,     \* chain events not yet marked processed
    req,        \* what each worker is doing
    now,        \* wall clock
    faults      \* failures so far

rows == <<dispute, appeal, payout, msStatus, refund>>
onChain == <<chain, verdict, tx, events>>
vars == <<rows, onChain, req, now, faults>>

-----------------------------------------------------------------------------
(* Types *)

\* History: `round', the on-chain dispute the row was opened for; `decider', who
\* recorded its latest first-tier decision, and `assigned', the arbiter the row named
\* then, both until the row is final or released; `owed', whether settle released it
\* with an arbiter to pay.
DisputeRow ==
    [milestone : Milestones \cup {0}, round : 0..MaxRounds,
     status : {"NONE", "OPEN", "UNDER_REVIEW", "RESOLVED", "CLOSED"},
     stage : {"ASSIGNMENT", "ARBITER_REVIEW", "APPEAL_REVIEW"},
     arbiter : Arbiters \cup {NoOne}, decider : Actors \cup {NoOne},
     assigned : Arbiters \cup {NoOne}, owed : BOOLEAN,
     outcome : Outcomes \cup {"NONE"}, isFinal : BOOLEAN,
     appealDeadline : Int, fundsLocked : BOOLEAN, released : BOOLEAN]

NoRow ==
    [milestone |-> 0, round |-> 0, status |-> "NONE", stage |-> "ASSIGNMENT",
     arbiter |-> NoOne, decider |-> NoOne, assigned |-> NoOne, owed |-> FALSE,
     outcome |-> "NONE",
     isFinal |-> FALSE, appealDeadline |-> Never,
     fundsLocked |-> TRUE, released |-> FALSE]

Event == [kind : {"dispute_raised", "dispute_resolved"}, m : Milestones,
          o : Outcomes \cup {"NONE"}, round : 1..MaxRounds]

Labels == {"idle", "open", "create", "assign", "assignWrite", "ack",
           "record", "decide", "appeal", "decideAppeal", "finalize",
           "claim", "load", "submit", "confirm", "rollback", "mark",
           "release", "payout", "markSettled"}

\* d, m, o, a, t are the locals of the handler: dispute, milestone, outcome,
\* user (actor or selected arbiter) and captured time; kind and round name the
\* chain event it handles.
Request ==
    [pc : Labels, d : DisputeIds \cup {NoDispute}, m : Milestones \cup {0},
     o : Outcomes \cup {"NONE"}, a : Actors \cup {NoOne}, t : Nat,
     kind : {"none", "dispute_raised", "dispute_resolved"}, round : 0..MaxRounds]

Idle == [pc |-> "idle", d |-> NoDispute, m |-> 0, o |-> "NONE", a |-> NoOne,
         t |-> 0, kind |-> "none", round |-> 0]

Transaction == [st : {"none", "flying", "ok", "failed"},
                m : Milestones \cup {0}, o : Outcomes \cup {"NONE"}]
NoTx == [st |-> "none", m |-> 0, o |-> "NONE"]

\* Every variable keeps its type.
TypeOK ==
    /\ dispute \in [DisputeIds -> DisputeRow]
    /\ appeal \in [DisputeIds -> {"NONE", "OPEN", "DECIDED"}]
    /\ payout \in [DisputeIds -> Arbiters \cup {NoOne}]
    /\ msStatus \in [Milestones ->
                       {"PROOF_SUBMITTED", "DISPUTED", "RESOLVED", "PENDING"}]
    /\ refund \in [Milestones -> BOOLEAN]
    /\ chain \in [Milestones -> [st : {"OPEN", "DISPUTED", "PAID"},
                                 round : 0..MaxRounds]]
    /\ verdict \in [Milestones -> [1..MaxRounds -> Outcomes \cup {"NONE"}]]
    /\ tx \in [Workers -> Transaction]
    /\ events \subseteq Event
    /\ req \in [Workers -> Request]
    /\ now \in Nat
    /\ faults \in Nat

Init ==
    /\ dispute = [d \in DisputeIds |-> NoRow]
    /\ appeal = [d \in DisputeIds |-> "NONE"]
    /\ payout = [d \in DisputeIds |-> NoOne]
    /\ msStatus = [m \in Milestones |-> "PROOF_SUBMITTED"]
    /\ refund = [m \in Milestones |-> FALSE]
    /\ chain = [m \in Milestones |-> [st |-> "OPEN", round |-> 0]]
    /\ verdict = [m \in Milestones |-> [r \in 1..MaxRounds |-> "NONE"]]
    /\ tx = [w \in Workers |-> NoTx]
    /\ events = {}
    /\ req = [w \in Workers |-> Idle]
    /\ now = 0
    /\ faults = 0

-----------------------------------------------------------------------------
(* Control of a worker *)

At(w, label) == req[w].pc = label
Become(w, r) == req' = [req EXCEPT ![w] = r]
Begin(w, r) == req[w].pc = "idle" /\ Become(w, r)
Goto(w, label) == Become(w, [req[w] EXCEPT !.pc = label])
Done(w) == Become(w, Idle)
Fault(kind) == kind \in Faults /\ faults < MaxFaults /\ faults' = faults + 1

\* One statement on the row of dispute d: `row` is its new value.
Write(d, row) == dispute' = [dispute EXCEPT ![d] = row]

Exists(d) == dispute[d].status # "NONE"

NotClosedBug(m) == {d \in DisputeIds : Exists(d) /\ dispute[d].milestone = m}

\* The rows of a milestone with status other than CLOSED.
NotClosed(m) == {d \in DisputeIds : Exists(d) /\ dispute[d].milestone = m
                                    /\ dispute[d].status # "CLOSED"}

-----------------------------------------------------------------------------
(* ArbiterAssignmentService *)

SelectArbiterBug(m, exclude) == Eligible[m] \cup {NoOne}

\* The possible answers.  The users, recusals and workloads are read anew on every
\* call and change between calls, so that any candidate may be the least loaded of
\* those that are active just then, and there may be none.
SelectArbiter(m, exclude) == (Eligible[m] \ exclude) \cup {NoOne}

\* autoAssign up to its conditional update: read the row, pick an arbiter.  It
\* returns when the row is assigned or not open, or nobody is eligible.
AutoAssignRead(w) ==
    LET row == dispute[req[w].d]
    IN  /\ At(w, "assign")
        /\ \/ /\ row.status = "OPEN" /\ row.arbiter = NoOne
              /\ \E arbiter \in SelectArbiter(req[w].m, {}) \ {NoOne} :
                   Become(w, [req[w] EXCEPT !.pc = "assignWrite", !.a = arbiter])
           \/ Goto(w, "ack")
        /\ UNCHANGED <<rows, onChain, now, faults>>

\* The conditional update of autoAssign: it compares arbiterId, not status.
AutoAssignWrite(w) ==
    LET d == req[w].d
    IN  /\ At(w, "assignWrite")
        /\ IF dispute[d].arbiter = NoOne
           THEN Write(d, [dispute[d] EXCEPT !.arbiter = req[w].a,
                                            !.status = "UNDER_REVIEW",
                                            !.stage = "ARBITER_REVIEW"])
           ELSE UNCHANGED dispute
        /\ Goto(w, "ack")
        /\ UNCHANGED <<appeal, payout, msStatus, refund, onChain, now, faults>>

-----------------------------------------------------------------------------
(* Opening: EventsService.handleDisputeRaised -> MilestonesService.markDisputed
   -> DisputesService.openForMilestone *)

HandleDisputeRaised(w, e) ==
    /\ e.kind = "dispute_raised"
    /\ Begin(w, [Idle EXCEPT !.pc = "open", !.m = e.m, !.kind = e.kind,
                             !.round = e.round])
    /\ msStatus' = [msStatus EXCEPT ![e.m] = "DISPUTED"]
    /\ UNCHANGED <<dispute, appeal, payout, refund, onChain, now>>

OpenFind(w) ==
    /\ At(w, "open")
    /\ Goto(w, IF NotClosed(req[w].m) # {} THEN "ack" ELSE "create")
    /\ UNCHANGED <<rows, onChain, now, faults>>

OpenCreate(w) ==
    /\ At(w, "create")
    /\ \E d \in DisputeIds :
          /\ ~Exists(d) /\ \A c \in DisputeIds : c < d => Exists(c)
          /\ Write(d, [NoRow EXCEPT !.milestone = req[w].m,
                                    !.round = req[w].round, !.status = "OPEN"])
          /\ Become(w, [req[w] EXCEPT !.pc = "assign", !.d = d])
    /\ UNCHANGED <<appeal, payout, msStatus, refund, onChain, now, faults>>

-----------------------------------------------------------------------------
(* First-tier decisions: the dispute route (by id) and the milestone route *)

\* The checks decide makes on the row its caller read.
MayDecide(row, actor) ==
    /\ row.status # "RESOLVED"
    /\ row.stage # "APPEAL_REVIEW"
    /\ actor = Admin \/ row.arbiter \in {NoOne, actor}

\* POST /disputes/:id/decision, up to the update.
DecideRead(w, d, actor, o) ==
    /\ Exists(d)
    /\ MayDecide(dispute[d], actor)
    /\ Begin(w, [Idle EXCEPT !.pc = "decide", !.d = d, !.o = o, !.a = actor,
                             !.m = dispute[d].milestone])
    /\ UNCHANGED <<rows, onChain, now, faults>>

\* resolveDisputeFlow: the milestone must be DISPUTED in the database.
ResolveDisputeFlow(w, m, actor, o) ==
    /\ msStatus[m] = "DISPUTED"
    /\ Begin(w, [Idle EXCEPT !.pc = "record", !.m = m, !.o = o, !.a = actor])
    /\ UNCHANGED <<rows, onChain, now, faults>>

RefundDueBug(o) == TRUE

\* A Refund row is recorded, before the on-chain call, when the company wins.
RefundDue(o) == o # "RELEASE"

\* recordDecision: decide the newest dispute that is not CLOSED; when there is
\* none the caller settles on chain at once (a request with no dispute).
RecordDecision(w) ==
    LET m == req[w].m
        found == NotClosed(m)
    IN  /\ At(w, "record")
        /\ \/ /\ found = {}
              /\ refund' = [refund EXCEPT ![m] = @ \/ RefundDue(req[w].o)]
              /\ Goto(w, "submit")
           \/ \E d \in found :
              /\ \A c \in found : c <= d
              /\ IF MayDecide(dispute[d], req[w].a)
                 THEN Become(w, [req[w] EXCEPT !.pc = "decide", !.d = d])
                 ELSE Done(w)
              /\ UNCHANGED refund
        /\ UNCHANGED <<dispute, appeal, payout, msStatus, onChain, now, faults>>

AwaitsDecisionBug(row) == row.status # "NONE"

\* The where clause of decide's update: it compares status, not stage.
AwaitsDecision(row) == row.status \in Active

DecideWrite(w) ==
    LET d == req[w].d
    IN  /\ At(w, "decide")
        /\ IF AwaitsDecision(dispute[d])
           THEN /\ Write(d, [dispute[d] EXCEPT
                                !.status = "RESOLVED", !.outcome = req[w].o,
                                !.decider = req[w].a, !.assigned = dispute[d].arbiter,
                                !.appealDeadline = now + AppealWindow,
                                !.fundsLocked = TRUE,
                                !.isFinal = (AppealWindow = 0)])
                /\ IF AppealWindow = 0 THEN Goto(w, "claim") ELSE Done(w)
           ELSE Done(w) /\ UNCHANGED dispute
        /\ UNCHANGED <<appeal, payout, msStatus, refund, onChain, now, faults>>

-----------------------------------------------------------------------------
(* AppealService *)

\* openAppeal up to its transaction: checks, then the choice of a second arbiter.
OpenAppealRead(w, d) ==
    LET row == dispute[d]
    IN  /\ appeal[d] = "NONE"
        /\ ~row.isFinal /\ row.status = "RESOLVED" /\ row.outcome # "NONE"
        /\ row.appealDeadline # Never /\ now <= row.appealDeadline
        /\ \E arbiter \in SelectArbiter(row.milestone, {row.arbiter}) :
              Begin(w, [Idle EXCEPT !.pc = "appeal", !.d = d, !.m = row.milestone,
                                    !.a = arbiter, !.t = now])
        /\ UNCHANGED <<rows, onChain, now, faults>>

AppealedRowBug(row, arbiter) ==
    [row EXCEPT !.arbiter = arbiter, !.fundsLocked = TRUE, !.stage = "APPEAL_REVIEW"]

\* The dispute row of an appealed decision, back with an arbiter (or waiting
\* for one).
AppealedRow(row, arbiter) ==
    [row EXCEPT !.status = IF arbiter = NoOne THEN "OPEN" ELSE "UNDER_REVIEW",
                !.arbiter = arbiter, !.fundsLocked = TRUE,
                !.stage = "APPEAL_REVIEW"]

\* The transaction of openAppeal; an existing appeal row aborts all of it.
OpenAppealWrite(w) ==
    LET d == req[w].d
        row == dispute[d]
    IN  /\ At(w, "appeal")
        /\ IF /\ row.status = "RESOLVED" /\ ~row.isFinal
              /\ row.appealDeadline >= req[w].t /\ appeal[d] = "NONE"
           THEN /\ Write(d, AppealedRow(row, req[w].a))
                /\ appeal' = [appeal EXCEPT ![d] = "OPEN"]
           ELSE UNCHANGED <<dispute, appeal>>
        /\ Done(w)
        /\ UNCHANGED <<payout, msStatus, refund, onChain, now, faults>>

DecideAppealRead(w, d, actor, o) ==
    /\ Exists(d) /\ dispute[d].stage = "APPEAL_REVIEW" /\ appeal[d] = "OPEN"
    /\ actor = Admin \/ dispute[d].arbiter = actor
    /\ Begin(w, [Idle EXCEPT !.pc = "decideAppeal", !.d = d, !.o = o,
                             !.m = dispute[d].milestone])
    /\ UNCHANGED <<rows, onChain, now, faults>>

\* The transaction of decideAppeal: the appeal row is claimed conditionally,
\* the dispute row is then overwritten whatever its status.
DecideAppealWrite(w) ==
    LET d == req[w].d
    IN  /\ At(w, "decideAppeal")
        /\ IF appeal[d] = "OPEN"
           THEN /\ appeal' = [appeal EXCEPT ![d] = "DECIDED"]
                /\ Write(d, [dispute[d] EXCEPT
                                !.status = "RESOLVED", !.outcome = req[w].o,
                                !.appealDeadline = now, !.isFinal = TRUE,
                                !.decider = NoOne, !.assigned = NoOne])
                /\ Goto(w, "claim")
           ELSE Done(w) /\ UNCHANGED <<dispute, appeal>>
        /\ UNCHANGED <<payout, msStatus, refund, onChain, now, faults>>

LapsedBug(row, t) ==
    row.status = "RESOLVED" /\ row.appealDeadline # Never /\ row.appealDeadline <= t

\* A decided dispute whose appeal window ended before t.
Lapsed(row, t) ==
    row.status = "RESOLVED" /\ row.appealDeadline # Never /\ row.appealDeadline < t

\* finalizeExpiredAppealWindows, one lapsed dispute of the batch per worker.
\* The job's lock expires and fails open, so it excludes nobody here.
FinalizeRead(w, d) ==
    /\ Lapsed(dispute[d], now)
    /\ Begin(w, [Idle EXCEPT !.d = d, !.m = dispute[d].milestone, !.t = now,
                    !.pc = IF dispute[d].isFinal THEN "claim" ELSE "finalize"])
    /\ UNCHANGED <<rows, onChain, now, faults>>

FinalizeWrite(w) ==
    LET d == req[w].d
    IN  /\ At(w, "finalize")
        /\ IF Lapsed(dispute[d], req[w].t) /\ ~dispute[d].isFinal
           THEN /\ Write(d, [dispute[d] EXCEPT !.isFinal = TRUE, !.decider = NoOne, !.assigned = NoOne])
                /\ Goto(w, "claim")
           ELSE Done(w) /\ UNCHANGED dispute
        /\ UNCHANGED <<appeal, payout, msStatus, refund, onChain, now, faults>>

-----------------------------------------------------------------------------
(* DisputesService.settle, and the on-chain call it shares with the direct
   settlement of resolveDisputeFlow (a request whose d is NoDispute) *)

ClaimedRowBug(row) ==
    [row EXCEPT !.status = "CLOSED", !.fundsLocked = FALSE, !.released = TRUE]

\* The claim takes a final, unpaid dispute from RESOLVED to CLOSED.
ClaimedRow(row) == [row EXCEPT !.status = "CLOSED"]

SettleClaim(w) ==
    LET d == req[w].d
        row == dispute[d]
    IN  /\ At(w, "claim")
        /\ IF row.status = "RESOLVED" /\ row.isFinal /\ ~row.released
           THEN Write(d, ClaimedRow(row)) /\ Goto(w, "load")
           ELSE Done(w) /\ UNCHANGED dispute
        /\ UNCHANGED <<appeal, payout, msStatus, refund, onChain, now, faults>>

RulingBug(row) == "RELEASE"

\* What the contract is told: approved for RELEASE, else not.
Ruling(row) == IF row.outcome = "RELEASE" THEN "RELEASE" ELSE "REFUND"

\* The row is read again after the claim; a refund is recorded before paying.
SettleLoad(w) ==
    LET row == dispute[req[w].d]
    IN  /\ At(w, "load")
        /\ Become(w, [req[w] EXCEPT !.pc = "submit", !.o = Ruling(row),
                                     !.a = row.arbiter])
        /\ refund' = [refund EXCEPT ![req[w].m] = @ \/ RefundDue(row.outcome)]
        /\ UNCHANGED <<dispute, appeal, payout, msStatus, onChain, now, faults>>

\* Simulation succeeds only on a disputed milestone; the signed transaction is
\* then in the network for as long as it is valid.
ResolveMilestoneDispute(w) ==
    LET m == req[w].m
    IN  /\ At(w, "submit") /\ tx[w].st = "none"
        /\ chain[m].st = "DISPUTED"
        /\ tx' = [tx EXCEPT ![w] = [st |-> "flying", m |-> m, o |-> req[w].o]]
        /\ Goto(w, "confirm")
        /\ UNCHANGED <<rows, chain, verdict, events, now, faults>>

CatchBug(w) == Done(w)

\* The catch clause: settle undoes its claim, the direct path just throws.
Catch(w) == IF req[w].d = NoDispute THEN Done(w) ELSE Goto(w, "rollback")

SubmitFails(w) ==
    /\ At(w, "submit")
    /\ \/ chain[req[w].m].st # "DISPUTED" /\ UNCHANGED faults
       \/ Fault("rpc")
    /\ Catch(w)
    /\ UNCHANGED <<rows, onChain, now>>

ConfirmOk(w) ==
    /\ At(w, "confirm") /\ tx[w].st = "ok"
    /\ tx' = [tx EXCEPT ![w] = NoTx]
    /\ Goto(w, "mark")
    /\ UNCHANGED <<rows, chain, verdict, events, now, faults>>

ConfirmFailed(w) ==
    /\ At(w, "confirm") /\ tx[w].st = "failed"
    /\ tx' = [tx EXCEPT ![w] = NoTx]
    /\ Catch(w)
    /\ UNCHANGED <<rows, chain, verdict, events, now, faults>>

\* CONFIRMATION_TIMEOUT after 30 s; the transaction stays valid for 60 s.
ConfirmTimeout(w) ==
    /\ At(w, "confirm") /\ tx[w].st = "flying"
    /\ Fault("timeout")
    /\ Catch(w)
    /\ UNCHANGED <<rows, onChain, now>>

\* The rollback compares nothing.
SettleRollback(w) ==
    LET d == req[w].d
    IN  /\ At(w, "rollback")
        /\ Write(d, [dispute[d] EXCEPT !.status = "RESOLVED"])
        /\ Done(w)
        /\ UNCHANGED <<appeal, payout, msStatus, refund, onChain, now, faults>>

ResolvedBug(o) == IF o = "RELEASE" THEN "CONFIRMED" ELSE "PENDING"

\* The milestone's status after the verdict (settle and markResolved agree).
Resolved(o) == IF o = "RELEASE" THEN "RESOLVED" ELSE "PENDING"

MarkMilestone(w) ==
    /\ At(w, "mark")
    /\ msStatus' = [msStatus EXCEPT ![req[w].m] = Resolved(req[w].o)]
    /\ Goto(w, IF req[w].d = NoDispute THEN "markSettled" ELSE "release")
    /\ UNCHANGED <<dispute, appeal, payout, refund, onChain, now, faults>>

SettleRelease(w) ==
    LET d == req[w].d
    IN  /\ At(w, "release")
        /\ Write(d, [dispute[d] EXCEPT !.fundsLocked = FALSE, !.released = TRUE,
                                       !.owed = @ \/ req[w].a # NoOne,
                                       !.decider = NoOne, !.assigned = NoOne])
        /\ Goto(w, "payout")
        /\ UNCHANGED <<appeal, payout, msStatus, refund, onChain, now, faults>>

PayoutDueBug(r) == r.a # NoOne /\ ArbiterFee > 0 /\ r.o = "RELEASE"

\* A fee is owed when the settled row named an arbiter and the fee is positive.
PayoutDue(r) == r.a # NoOne /\ ArbiterFee > 0

\* recordArbiterPayout: at most one row per dispute.
RecordArbiterPayout(w) ==
    LET d == req[w].d
    IN  /\ At(w, "payout")
        /\ payout' = IF PayoutDue(req[w]) /\ payout[d] = NoOne
                     THEN [payout EXCEPT ![d] = req[w].a] ELSE payout
        /\ Done(w)
        /\ UNCHANGED <<dispute, appeal, msStatus, refund, onChain, now, faults>>

-----------------------------------------------------------------------------
(* Settlement reported by the chain: handleDisputeResolved -> markResolved
   -> markSettledOnChain *)

HandleDisputeResolved(w, e) ==
    /\ e.kind = "dispute_resolved"
    /\ Begin(w, [Idle EXCEPT !.pc = "markSettled", !.m = e.m, !.o = e.o,
                             !.kind = e.kind, !.round = e.round])
    /\ msStatus' = [msStatus EXCEPT ![e.m] = Resolved(e.o)]
    /\ UNCHANGED <<dispute, appeal, payout, refund, onChain, now>>

MarkSettledOnChain(w) ==
    /\ At(w, "markSettled")
    /\ dispute' = [d \in DisputeIds |->
          IF Exists(d) /\ dispute[d].milestone = req[w].m /\ ~dispute[d].released
          THEN [dispute[d] EXCEPT !.status = "CLOSED", !.isFinal = TRUE,
                                  !.fundsLocked = FALSE, !.released = TRUE,
                                  !.decider = NoOne, !.assigned = NoOne]
          ELSE dispute[d]]
    /\ IF req[w].kind = "none" THEN Done(w) ELSE Goto(w, "ack")
    /\ UNCHANGED <<appeal, payout, msStatus, refund, onChain, now, faults>>

EventOf(w) == [kind |-> req[w].kind, m |-> req[w].m, o |-> req[w].o,
               round |-> req[w].round]

\* The end of processEvent: the row is marked processed, or a later part of the
\* handler throws and the retry job runs the whole handler again.
AckEvent(w) ==
    /\ At(w, "ack")
    /\ \/ events' = events \ {EventOf(w)} /\ UNCHANGED faults
       \/ Fault("handler") /\ UNCHANGED events
    /\ Done(w)
    /\ UNCHANGED <<rows, chain, verdict, tx, now>>

\* The poller hands out a milestone's events in ledger order, except when an
\* event that failed is left to the retry job and later ones overtake it.
InOrder(e) ==
    \A f \in events : f.m = e.m =>
        \/ e.round < f.round
        \/ e.round = f.round /\ (e.kind = f.kind \/ e.kind = "dispute_raised")

HandleEvent(w, e) ==
    /\ e \in events
    /\ IF InOrder(e) THEN UNCHANGED faults ELSE Fault("reorder")
    /\ HandleDisputeRaised(w, e) \/ HandleDisputeResolved(w, e)

-----------------------------------------------------------------------------
(* The environment *)

\* A party disputes the milestone on chain.
RaiseOnChain(m) ==
    /\ chain[m].st = "OPEN" /\ chain[m].round < MaxRounds
    /\ chain' = [chain EXCEPT ![m] = [st |-> "DISPUTED",
                                      round |-> chain[m].round + 1]]
    /\ events' = events \cup {[kind |-> "dispute_raised", m |-> m, o |-> "NONE",
                               round |-> chain[m].round + 1]}
    /\ UNCHANGED <<rows, verdict, tx, req, now, faults>>

\* The contract resolves a disputed milestone and emits an event.
ContractResolves(m, o) ==
    /\ chain[m].st = "DISPUTED"
    /\ chain' = [chain EXCEPT ![m].st = IF o = "RELEASE" THEN "PAID" ELSE "OPEN"]
    /\ verdict' = [verdict EXCEPT ![m][chain[m].round] = o]
    /\ events' = events \cup {[kind |-> "dispute_resolved", m |-> m, o |-> o,
                               round |-> chain[m].round]}

ResolveOnChain(m, o) ==
    /\ ExternalResolve
    /\ ContractResolves(m, o)
    /\ UNCHANGED <<rows, tx, req, now, faults>>

\* What a transaction leaves behind: its result if its worker still waits for it.
Reported(w, st) == IF At(w, "confirm") THEN [tx[w] EXCEPT !.st = st] ELSE NoTx

\* All transactions use the backend account, so those built before one of them
\* lands carry the same sequence number and fail with it.
LandTx(w) ==
    /\ tx[w].st = "flying"
    /\ ContractResolves(tx[w].m, tx[w].o)
    /\ tx' = [v \in Workers |-> IF v = w THEN Reported(v, "ok")
                                ELSE IF tx[v].st = "flying" THEN Reported(v, "failed")
                                ELSE tx[v]]
    /\ UNCHANGED <<rows, req, now, faults>>

FailTx(w) ==
    /\ tx[w].st = "flying"
    /\ \/ chain[tx[w].m].st # "DISPUTED" /\ UNCHANGED faults
       \/ Fault("expire")
    /\ tx' = [tx EXCEPT ![w] = Reported(w, "failed")]
    /\ UNCHANGED <<rows, chain, verdict, events, req, now>>

\* The replica running w dies; a transaction it sent does not.
Crash(w) ==
    /\ ~At(w, "idle") /\ Fault("crash")
    /\ Done(w)
    /\ tx' = IF tx[w].st = "flying" THEN tx ELSE [tx EXCEPT ![w] = NoTx]
    /\ UNCHANGED <<rows, chain, verdict, events, now>>

Tick == /\ now < MaxTime /\ now' = now + 1
        /\ UNCHANGED <<rows, onChain, req, faults>>

-----------------------------------------------------------------------------
\* The requests a user may send.
Call(w) ==
    \/ \E d \in DisputeIds, actor \in Actors, o \in Outcomes :
          DecideRead(w, d, actor, o) \/ DecideAppealRead(w, d, actor, o)
    \/ \E m \in Milestones, actor \in Actors, o \in Outcomes :
          ResolveDisputeFlow(w, m, actor, o)
    \/ \E d \in DisputeIds : OpenAppealRead(w, d)

\* The next statement of a handler that has begun.
Continue(w) ==
    \/ OpenFind(w) \/ OpenCreate(w) \/ AutoAssignRead(w) \/ AutoAssignWrite(w)
    \/ RecordDecision(w) \/ DecideWrite(w) \/ OpenAppealWrite(w)
    \/ DecideAppealWrite(w) \/ FinalizeWrite(w)
    \/ SettleClaim(w) \/ SettleLoad(w) \/ ResolveMilestoneDispute(w)
    \/ SubmitFails(w) \/ ConfirmOk(w) \/ ConfirmFailed(w) \/ ConfirmTimeout(w)
    \/ SettleRollback(w) \/ MarkMilestone(w) \/ SettleRelease(w)
    \/ RecordArbiterPayout(w) \/ MarkSettledOnChain(w) \/ AckEvent(w)

Network(w) == LandTx(w) \/ FailTx(w)

Next ==
    \/ \E w \in Workers :
          \/ \E e \in events : HandleEvent(w, e)
          \/ \E d \in DisputeIds : FinalizeRead(w, d)
          \/ Call(w) \/ Continue(w) \/ Network(w) \/ Crash(w)
    \/ \E m \in Milestones : RaiseOnChain(m) \/ \E o \in Outcomes : ResolveOnChain(m, o)
    \/ Tick

Spec == Init /\ [][Next]_vars

\* Handlers run to their end, the network decides every transaction, the clock
\* runs.  The poll, retry and appeal-window timers keep firing whatever requests
\* are in flight, hence strong fairness for what they start.  Nobody is obliged
\* to raise, decide or appeal a dispute.
Fairness ==
    /\ WF_vars(Tick)
    /\ \A w \in Workers : WF_vars(Continue(w)) /\ WF_vars(Network(w))
    /\ SF_vars(\E w \in Workers, e \in events : HandleEvent(w, e))
    /\ \A d \in DisputeIds : SF_vars(\E w \in Workers : FinalizeRead(w, d))

FairSpec == Spec /\ Fairness

-----------------------------------------------------------------------------
(* Properties *)

\* Worker w holds the settlement claim of dispute d.
Settling(w, d) == req[w].d = d /\ req[w].pc \in {"load", "submit", "confirm",
                                                "rollback", "mark", "release"}

\* How the contract settled the on-chain dispute the row was opened for.
VerdictOf(d) == verdict[dispute[d].milestone][dispute[d].round]

\* The time to appeal d is over: nothing to wait for, decided, or lapsed.
AppealOver(d) == \/ AppealWindow = 0
                 \/ appeal[d] = "DECIDED"
                 \/ dispute[d].appealDeadline < now

\* The appeal window is honoured: whatever decide, openAppeal, decideAppeal, the
\* appeal-window job and settle do to each other's rows, an unpaid dispute is
\* final (so that settle may execute it) only when its appeal was decided or its
\* window lapsed unused.
FinalityJustified ==
    \A d \in DisputeIds :
        dispute[d].isFinal /\ ~dispute[d].released => AppealOver(d)

\* The appeal decision is final: once decideAppeal committed, no statement of any
\* handler reopens the appeal, and none changes the outcome or makes it appealable
\* while the row is under appeal review.  Where the appeal has an arbiter nothing takes
\* the row out of that review; an appeal nobody was assigned to can be, by a late
\* autoAssign, and be decided anew.
AppealVerdictFinal ==
    [][\A d \in DisputeIds : appeal[d] = "DECIDED" =>
          /\ appeal'[d] = "DECIDED"
          /\ dispute[d].stage = "APPEAL_REVIEW" =>
               /\ dispute'[d].outcome = dispute[d].outcome /\ dispute'[d].isFinal
               /\ dispute[d].arbiter # NoOne =>
                    dispute'[d].stage = "APPEAL_REVIEW" /\ dispute'[d].arbiter = dispute[d].arbiter]_vars

\* The contract has resolved a dispute of the milestone.
Paid(m) == \E r \in 1..MaxRounds : verdict[m][r] # "NONE"

\* settle and markSettledOnChain, whatever times out, lands late, crashes or is
\* retried: a dispute is marked settled or unlocked only after the contract resolved a
\* dispute of its milestone.  (Not always that one: markSettledOnChain matches the
\* milestone, so that a late event of one round closes the row of the next.)
MilestoneSettledFirst ==
    \A d \in DisputeIds :
        Exists(d) /\ (dispute[d].released \/ ~dispute[d].fundsLocked) => Paid(dispute[d].milestone)

\* Funds stay locked while an appeal is pending: settle is not under way on a
\* dispute whose openAppeal has not been answered by decideAppeal.
AppealHoldsFunds ==
    \A d \in DisputeIds, w \in Workers : appeal[d] = "OPEN" => ~Settling(w, d)

\* Tracked disputes go through the appeal window before funds move: when the
\* contract has settled a dispute that has a row, the row was decided and its
\* time to appeal was over (resolveDisputeFlow, decide, settle).
TrackedFundsWait ==
    \A d \in DisputeIds :
        Exists(d) /\ VerdictOf(d) # "NONE"
        => dispute[d].outcome # "NONE" /\ AppealOver(d)

\* settle executes on chain what the row says was decided, after any number of
\* failed attempts and whichever of decide and decideAppeal came last.
OutcomeAgrees ==
    \A d \in DisputeIds :
        dispute[d].released => dispute[d].outcome \in {"NONE", VerdictOf(d)}

\* openForMilestone gives every dispute raised on chain a row of its own: none is
\* swallowed by the leftovers of an earlier dispute of the milestone.
EveryRoundTracked ==
    \A m \in Milestones : \A r \in 1..chain[m].round :
        \/ [kind |-> "dispute_raised", m |-> m, o |-> "NONE", round |-> r] \in events
        \/ \E d \in DisputeIds : dispute[d].milestone = m /\ dispute[d].round = r

\* openAppeal routes an appeal to a different arbiter than the one who decided.
AppealIndependence ==
    \A d \in DisputeIds :
        appeal[d] = "OPEN" /\ dispute[d].stage = "APPEAL_REVIEW"
        => dispute[d].arbiter = NoOne \/ dispute[d].arbiter # dispute[d].decider

\* It does so when the dispute had an arbiter: an appeal of what the assigned arbiter
\* or an administrator decided is heard by neither, however the candidates change
\* between decision and appeal.
AssignedNeverHears ==
    \A d \in DisputeIds :
        /\ appeal[d] = "OPEN" /\ dispute[d].stage = "APPEAL_REVIEW"
        /\ dispute[d].assigned # NoOne
        => dispute[d].arbiter = NoOne \/ dispute[d].arbiter \notin {dispute[d].assigned, dispute[d].decider}

\* No Refund row is left behind for a milestone that was never refunded but paid.
RefundOnlyIfRefunded ==
    \A m \in Milestones :
        chain[m].st = "PAID" /\ refund[m]
        => \E r \in 1..chain[m].round : verdict[m][r] = "REFUND"

\* Disputes that settle released with an arbiter to pay, who has no ArbiterPayout row
\* and whose payout no handler is about to record any more.
Unpaid ==
    {d \in DisputeIds :
        /\ dispute[d].owed /\ ArbiterFee > 0 /\ payout[d] = NoOne
        /\ \A w \in Workers : ~(At(w, "payout") /\ req[w].d = d /\ req[w].a # NoOne)}

\* recordArbiterPayout: an arbiter goes unpaid only through a failure, a crash between
\* release and payout, and each failure costs one fee at most; settlements that are
\* retried, overlap or are overtaken by the chain event lose none.
FeesLostToFailures == Cardinality(Unpaid) <= faults

\* Every decision whose window lapses within the clock bound is settled or
\* appealed, and every decided appeal is settled: the appeal-window job retries
\* what failed until the contract has it.
DecisionsSettle ==
    \A d \in DisputeIds :
        /\ (dispute[d].status = "RESOLVED" /\ dispute[d].appealDeadline < MaxTime)
           ~> (dispute[d].released \/ appeal[d] = "OPEN")
        /\ (appeal[d] = "DECIDED" /\ dispute[d].appealDeadline < MaxTime)
           ~> dispute[d].released
=============================================================================
