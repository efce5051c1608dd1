----------------------------- MODULE Milestones -----------------------------
(***************************************************************************)
(* The life of a milestone between the database and the escrow contract:   *)
(* MilestonesService, ProofVersionsService, MilestoneProofSlaService,      *)
(* PartialReleaseService and the retention job, with the part of           *)
(* EventsService that writes milestone rows.                               *)
(*                                                                         *)
(* One action of a worker is one database statement or one contract call,  *)
(* so whatever a handler reads before an `await` may be stale when it is   *)
(* used.  The contract and the arrival of its events are external.         *)
(* Disputes are opened and settled in module Disputes; here they only      *)
(* change the status of the milestone.  Evidence files, comments, audit    *)
(* rows and notifications are read by no action and are left out.          *)
(*                                                                         *)
(* `proofVersions` of MilestonesService is taken for the                   *)
(* ProofVersionsService its import names, and the partial payment for a    *)
(* contract call like the others.                                          *)
(*                                                                         *)
(* An operator whose name ends in Bug is a wrong variant of the definition *)
(* that follows it; no specification uses it.                              *)
(***************************************************************************)
EXTENDS Integers, FiniteSets, Sequences

CONSTANTS
    Workers,      \* in-flight requests, cron ticks and event handlers
    Milestones,   \* milestone ids, positive
    Approvers,    \* users who may approve
    Required,     \* Engagement.requiredApprovals
    Amount,       \* Milestone.amount, in units of escrow
    SlaWindow,    \* proofSlaDays of the company
    AutoApprove,  \* is its proofSlaAction AUTO_APPROVE?
    Retention,    \* retentionDays, in the same unit
    WarnBefore,   \* THREE_DAYS_IN_LEDGERS, in the same unit
    MaxVersions,  \* bound: proof versions of a milestone
    MaxReleases,  \* bound: rows of milestone_partial_releases
    MaxFaults,    \* bound: number of failures
    Scopes        \* bound: what one behaviour may contain

Nobody == 0
Dead == -1          \* the token of a run that crashed
Statuses == {"LOCKED", "PENDING", "PROOF_SUBMITTED", "CONFIRMED", "DISPUTED",
             "RESOLVED"}
Parties == {"COMPANY", "RECRUITER"}
Jobs == {"sla", "retention"}
FaultKinds == {"rpc", "timeout", "expire", "crash", "slow", "reorder"}
ReleaseIds == 1..MaxReleases

\* A behaviour stays within one scope: the operations in use, the kind of its
\* milestones, the instants at which the clock is read, the failures that may
\* happen and the number of requests and contract calls.
Operations == {"submit", "reject", "approve", "admin", "sla", "retention", "release",
               "chain", "dispute", "replace"}
Scope == [ops : SUBSET Operations, kind : {"PLACEMENT", "RETENTION"},
          times : SUBSET Nat, faults : SUBSET FaultKinds, calls : Nat]

ASSUME MilestonesAssumption ==
    /\ Milestones \subseteq (Nat \ {0})
    /\ Workers \subseteq (Nat \ {0}) /\ Approvers \subseteq (Nat \ {0})
ASSUME AmountsAssumption ==
    /\ Required \in Nat \ {0} /\ Amount \in Nat \ {0}
    /\ SlaWindow \in Nat \ {0} /\ Retention \in Nat /\ WarnBefore \in Nat
    /\ AutoApprove \in BOOLEAN
ASSUME BoundsAssumption ==
    /\ MaxVersions \in Nat \ {0} /\ MaxReleases \in Nat /\ MaxFaults \in Nat
    /\ \A s \in Scopes :
         /\ s.ops \subseteq Operations /\ s.kind \in {"PLACEMENT", "RETENTION"}
         /\ s.times \subseteq Nat /\ s.faults \subseteq FaultKinds
         /\ s.calls \in Nat /\ DOMAIN s = {"ops", "kind", "times", "faults", "calls"}

VARIABLES
    row,        \* the Milestone table
    approvals,  \* MilestoneApproval: the users of each milestone's rows
    given,      \* history: the proof version each approval was given for
    versions,   \* MilestoneProofVersion rows of each milestone, in order
    release,    \* the MilestonePartialRelease table
    refund,     \* Refund.amount of each milestone (COMPLETED)
    chain,      \* the contract's view of each milestone
    sent,       \* history: reminders sent for each version, at 50% and at 90%
    events,     \* chain events not yet marked processed; ids in chain order
    emitted,    \* how many events the contract has emitted
    net,        \* transactions in the network
    locks,      \* the Redis key of each cron job
    req,        \* what each worker is doing
    now, calls, faults,
    scope,      \* the scope of this behaviour
    upset       \* history: the irregularities that happened so far

tables == <<row, approvals, given, versions, release, refund, sent>>
ledger == <<chain, events, emitted, net>>
clocks == <<now, calls, faults, scope>>
vars == <<tables, ledger, locks, req, clocks, upset>>

-----------------------------------------------------------------------------
(* Types *)

VersionStatus == {"SUBMITTED", "APPROVED", "REJECTED"}
Version == [status : VersionStatus, at : Nat, r50 : BOOLEAN, r90 : BOOLEAN,
            expired : BOOLEAN]
Release ==
    [m : Milestones \cup {0}, amount : Nat, rest : Nat, back : BOOLEAN,
     signed : SUBSET Parties, claimed : BOOLEAN,
     status : {"NONE", "PROPOSED", "EXECUTED", "REJECTED", "FAILED"},
     paid : Nat]     \* history: what the contract paid for it
NoRelease == [m |-> 0, amount |-> 0, rest |-> 0, back |-> FALSE, signed |-> {},
              claimed |-> FALSE, status |-> "NONE", paid |-> 0]

Item == [m : Milestones, n : Nat, v : Version]
Calls == {"approve", "auto", "partial", "unlock"}
Tx == [by : Workers \cup {Nobody}, call : Calls, m : Milestones,
       r : ReleaseIds \cup {0}]
EventKinds == {"milestone_unlocked", "proof_submitted", "milestone_confirmed",
               "dispute_raised", "dispute_approved", "dispute_rejected",
               "replacement_requested"}
Event == [id : Nat, kind : EventKinds, m : Milestones, amount : Nat]

Labels == {"idle", "supersede", "latest", "create", "setSubmitted", "review",
           "rejectVersion", "reopen", "forget", "approve", "count", "submit",
           "wait", "confirm", "markRead", "markApproved", "sla", "autoConfirm",
           "autoApprove", "unclaim", "scan", "unlocked", "propose", "insert",
           "find", "sign", "signed", "decline", "claim", "book", "finish", "fail",
           "override", "clear", "ack"}

\* m, n, u, r, s, p, t are the handler's locals: milestone, proof version,
\* user, partial release, the status and the payment of the row it read, and
\* the time it captured.  `then` is where it goes on, `todo` a job's batch.
Request ==
    [pc : Labels, then : Labels \cup Calls, m : Milestones \cup {0}, n : Nat,
     v : Nat, u : Approvers \cup {Nobody}, r : ReleaseIds \cup {0},
     party : Parties, s : Statuses, p : Nat, t : Nat, again : BOOLEAN,
     terms : [amount : Nat, back : BOOLEAN], todo : SUBSET Item, e : Nat]

NoTerms == [amount |-> 0, back |-> FALSE]
Idle == [pc |-> "idle", then |-> "idle", m |-> 0, n |-> 0, v |-> 0,
         u |-> Nobody, r |-> 0, party |-> "COMPANY", s |-> "PENDING", p |-> 0,
         t |-> 0, again |-> FALSE, terms |-> NoTerms, todo |-> {}, e |-> 0]

\* Every variable keeps its type.
TypeOK ==
    /\ row \in [Milestones -> [status : Statuses, kind : {"PLACEMENT", "RETENTION"}, paid : Nat,
                               until : Nat, warned : BOOLEAN]]
    /\ approvals \in [Milestones -> SUBSET Approvers]
    /\ given \in [Milestones -> [Approvers -> Nat]]
    /\ versions \in [Milestones -> Seq(Version)]
    /\ release \in [ReleaseIds -> Release]
    /\ refund \in [Milestones -> Nat]
    /\ chain \in [Milestones ->
                    [st : {"LOCKED", "PENDING", "PROOF", "DISPUTED", "DONE"},
                     left : Nat, got : Nat, until : Nat]]
    /\ sent \in [Milestones -> [{50, 90} -> [1..MaxVersions -> Nat]]]
    /\ events \subseteq Event /\ emitted \in Nat
    /\ net \subseteq Tx
    /\ locks \in [Jobs -> Workers \cup {Nobody, Dead}]
    /\ req \in [Workers -> Request]
    /\ now \in Nat /\ calls \in Nat /\ faults \in Nat /\ scope \in Scopes
    /\ upset \subseteq {"overlap", "override", "late", "crash", "disputed",
                        "replaced", "outdated"}

Init ==
    /\ scope \in Scopes
    /\ row = [m \in Milestones |->
                [status |-> IF scope.kind = "RETENTION" THEN "LOCKED" ELSE "PENDING",
                 kind |-> scope.kind, paid |-> 0, until |-> Retention, warned |-> FALSE]]
    /\ chain = [m \in Milestones |->
                [st |-> IF scope.kind = "RETENTION" THEN "LOCKED" ELSE "PENDING",
                 left |-> Amount, got |-> 0, until |-> Retention]]
    /\ approvals = [m \in Milestones |-> {}]
    /\ given = [m \in Milestones |-> [u \in Approvers |-> 0]]
    /\ versions = [m \in Milestones |-> <<>>]
    /\ release = [r \in ReleaseIds |-> NoRelease]
    /\ refund = [m \in Milestones |-> 0]
    /\ sent = [m \in Milestones |-> [p \in {50, 90} |-> [n \in 1..MaxVersions |-> 0]]]
    /\ events = {} /\ emitted = 0 /\ net = {}
    /\ locks = [j \in Jobs |-> Nobody]
    /\ req = [w \in Workers |-> Idle]
    /\ now = 0 /\ calls = 0 /\ faults = 0 /\ upset = {}

-----------------------------------------------------------------------------
(* Control of a worker *)

At(w, label) == req[w].pc = label
Become(w, r) == req' = [req EXCEPT ![w] = r]
Goto(w, label) == Become(w, [req[w] EXCEPT !.pc = label])
Done(w) == Become(w, Idle)
Uses(op) == op \in scope.ops
Fault(kind) == kind \in scope.faults /\ faults < MaxFaults /\ faults' = faults + 1

\* A free worker takes up something; `what` is noted in the history when it is
\* not empty, and so is that other work is in flight.
Begin(w, r, what) ==
    /\ At(w, "idle")
    /\ Become(w, r)
    /\ upset' = upset \cup what \cup
                (IF \E o \in Workers \ {w} : ~At(o, "idle") THEN {"overlap"} ELSE {})

\* A request of a user; the requests are counted.
Call(w, r, what) ==
    /\ calls < scope.calls /\ calls' = calls + 1
    /\ Begin(w, r, what)

SetStatus(m, s) == row' = [row EXCEPT ![m].status = s]
Latest(m) == Len(versions[m])
Awaiting(m) == Latest(m) > 0 /\ versions[m][Latest(m)].status = "SUBMITTED"
SetVersion(m, n, v) == versions' = [versions EXCEPT ![m][n] = v]

\* The next event of the contract; emitted counts them.
Emit(kind, m, amount) ==
    /\ events' = events \cup {[id |-> emitted + 1, kind |-> kind, m |-> m,
                               amount |-> amount]}
    /\ emitted' = emitted + 1

-----------------------------------------------------------------------------
(* ProofVersionsService *)

\* submitProof up to its first write; the same request is sent again after a
\* rejection.
SubmitProof(w, m) ==
    /\ row[m].status = "PENDING"
    /\ Call(w, [Idle EXCEPT !.pc = "supersede", !.then = "setSubmitted", !.m = m], {})
    /\ UNCHANGED <<tables, ledger, locks, now, faults, scope>>

\* Every version still awaiting review is superseded.
Superseded(v) == IF v.status = "SUBMITTED" THEN [v EXCEPT !.status = "REJECTED"] ELSE v

Supersede(w) ==
    LET m == req[w].m
    IN  /\ At(w, "supersede")
        /\ versions' = [versions EXCEPT ![m] =
                [n \in DOMAIN versions[m] |-> Superseded(versions[m][n])]]
        /\ Goto(w, "latest")
        /\ UNCHANGED <<row, approvals, given, release, refund, sent, ledger,
                       locks, clocks, upset>>

MayAppendBug(m) == TRUE

\* recordVersion appends nothing while the latest version awaits review.
MayAppend(m) == ~Awaiting(m)

RecordVersionFind(w) ==
    LET m == req[w].m
    IN  /\ At(w, "latest")
        /\ Become(w, IF MayAppend(m)
                     THEN [req[w] EXCEPT !.pc = "create", !.n = Latest(m)]
                     ELSE [req[w] EXCEPT !.pc = req[w].then, !.then = "idle"])
        /\ UNCHANGED <<tables, ledger, locks, clocks, upset>>

NewVersion == [status |-> "SUBMITTED", at |-> now, r50 |-> FALSE, r90 |-> FALSE,
               expired |-> FALSE]

\* The insert: (milestoneId, versionNumber) is unique, so of two inserts of one
\* number the second reads again, once.  A table that is full is a failing insert.
RecordVersionCreate(w) ==
    LET m == req[w].m
        taken == Latest(m) # req[w].n
    IN  /\ At(w, "create")
        /\ IF taken \/ req[w].n = MaxVersions
           THEN /\ IF taken /\ ~req[w].again
                   THEN Become(w, [req[w] EXCEPT !.pc = "latest", !.again = TRUE])
                   ELSE Done(w)
                /\ UNCHANGED versions
           ELSE /\ versions' = [versions EXCEPT ![m] = Append(@, NewVersion)]
                /\ Become(w, [req[w] EXCEPT !.pc = req[w].then, !.then = "idle"])
        /\ UNCHANGED <<row, approvals, given, release, refund, sent, ledger,
                       locks, clocks, upset>>

SetProofSubmitted(w) ==
    /\ At(w, "setSubmitted")
    /\ SetStatus(req[w].m, "PROOF_SUBMITTED")
    /\ Done(w)
    /\ UNCHANGED <<approvals, given, versions, release, refund, sent, ledger,
                   locks, clocks, upset>>

\* rejectProof and approveMilestone first check the status of the row they read.
\* The caller may name the version it reviewed (v, or 0).
RejectProof(w, m, v) ==
    /\ row[m].status = "PROOF_SUBMITTED"
    /\ v \in {0, Latest(m)}
    /\ Call(w, [Idle EXCEPT !.pc = "review", !.then = "rejectVersion",
                            !.m = m, !.v = v], {})
    /\ UNCHANGED <<tables, ledger, locks, now, faults, scope>>

ApproveMilestone(w, m, u, v) ==
    /\ row[m].status = "PROOF_SUBMITTED"
    /\ v \in {0, Latest(m)}
    /\ Call(w, [Idle EXCEPT !.pc = "review", !.then = "approve",
                            !.m = m, !.u = u, !.v = v], {})
    /\ UNCHANGED <<tables, ledger, locks, now, faults, scope>>

\* assertReviewable: the latest version, and the named one if any, awaits review.
\* A milestone without versions can be approved but not rejected.
AssertReviewable(w) ==
    LET m == req[w].m
        legacy == Latest(m) = 0 /\ req[w].v = 0 /\ req[w].then = "approve"
    IN  /\ At(w, "review")
        /\ IF legacy \/ (Awaiting(m) /\ req[w].v \in {0, Latest(m)})
           THEN Become(w, [req[w] EXCEPT !.pc = req[w].then, !.then = "idle",
                                         !.n = Latest(m)])
           ELSE Done(w)
        /\ UNCHANGED <<tables, ledger, locks, clocks, upset>>

\* The conditional update of rejectProof, then the row, then the approvals.
RejectVersion(w) ==
    LET m == req[w].m
        version == versions[m][req[w].n]
    IN  /\ At(w, "rejectVersion")
        /\ IF version.status = "SUBMITTED"
           THEN /\ SetVersion(m, req[w].n, [version EXCEPT !.status = "REJECTED"])
                /\ Goto(w, "reopen")
           ELSE Done(w) /\ UNCHANGED versions
        /\ UNCHANGED <<row, approvals, given, release, refund, sent, ledger,
                       locks, clocks, upset>>

Reopen(w) ==
    /\ At(w, "reopen")
    /\ SetStatus(req[w].m, "PENDING")
    /\ Goto(w, "forget")
    /\ UNCHANGED <<approvals, given, versions, release, refund, sent, ledger,
                   locks, clocks, upset>>

KeptApprovalsBug(m) == approvals[m]

\* Approvals were given for the rejected proof; the next version starts fresh.
KeptApprovals(m) == {}

ForgetApprovals(w) ==
    LET m == req[w].m
    IN  /\ At(w, "forget")
        /\ approvals' = [approvals EXCEPT ![m] = KeptApprovals(m)]
        /\ Done(w)
        /\ UNCHANGED <<row, given, versions, release, refund, sent, ledger,
                       locks, clocks, upset>>

-----------------------------------------------------------------------------
(* MilestonesService.approveMilestone *)

\* One approval per user; the check and the unique index both end in an error.
CreateApproval(w) ==
    LET m == req[w].m
        u == req[w].u
    IN  /\ At(w, "approve")
        /\ IF u \in approvals[m]
           THEN Done(w) /\ UNCHANGED <<approvals, given>>
           ELSE /\ approvals' = [approvals EXCEPT ![m] = @ \cup {u}]
                /\ given' = [given EXCEPT ![m][u] = req[w].n]
                /\ Goto(w, "count")
        /\ UNCHANGED <<row, versions, release, refund, sent, ledger, locks,
                       clocks, upset>>

Enough(m) == Cardinality(approvals[m]) >= Required

CountApprovals(w) ==
    LET m == req[w].m
    IN  /\ At(w, "count")
        /\ IF Enough(m)
           THEN Become(w, [req[w] EXCEPT !.pc = "submit", !.then = "approve"])
           ELSE Done(w)
        /\ UNCHANGED <<tables, ledger, locks, clocks, upset>>

\* markConfirmed, by an approval or by the SLA job.
MarkConfirmed(w) ==
    LET m == req[w].m
    IN  /\ At(w, "confirm") \/ At(w, "autoConfirm")
        /\ row' = [row EXCEPT ![m].status = "CONFIRMED", ![m].paid = Amount]
        /\ Goto(w, IF At(w, "confirm") THEN "markRead" ELSE "autoApprove")
        /\ UNCHANGED <<approvals, given, versions, release, refund, sent, ledger,
                       locks, clocks, upset>>

\* markApproved: find the latest version, then update it by id.
MarkApprovedFind(w) ==
    LET m == req[w].m
    IN  /\ At(w, "markRead")
        /\ IF Awaiting(m)
           THEN Become(w, [req[w] EXCEPT !.pc = "markApproved", !.n = Latest(m)])
           ELSE Done(w)
        /\ UNCHANGED <<tables, ledger, locks, clocks, upset>>

ApproveVersion(w) ==
    LET m == req[w].m
        n == req[w].n
    IN  /\ At(w, "markApproved") \/ At(w, "autoApprove")
        /\ SetVersion(m, n, [versions[m][n] EXCEPT !.status = "APPROVED"])
        /\ IF At(w, "markApproved") THEN Done(w) ELSE Goto(w, "sla")
        /\ UNCHANGED <<row, approvals, given, release, refund, sent, ledger,
                       locks, clocks, upset>>

\* updateMilestoneStatusByAdmin, and its bulk form, which allows only the
\* transitions of VALID_STATUS_TRANSITIONS: read, then write.
AdminOverride(w, m, s) ==
    /\ Call(w, [Idle EXCEPT !.pc = "override", !.m = m, !.s = s], {"override"})
    /\ UNCHANGED <<tables, ledger, locks, now, faults, scope>>

OverrideStatus(w) ==
    /\ At(w, "override")
    /\ SetStatus(req[w].m, req[w].s)
    /\ Done(w)
    /\ UNCHANGED <<approvals, given, versions, release, refund, sent, ledger,
                   locks, clocks, upset>>

ValidTransitions ==
    [LOCKED |-> {"PENDING"}, PENDING |-> {"PROOF_SUBMITTED"},
     PROOF_SUBMITTED |-> {"CONFIRMED", "DISPUTED"}, DISPUTED |-> {"RESOLVED"},
     CONFIRMED |-> {}, RESOLVED |-> {}]

BulkUpdateStatus(w, m, s) ==
    /\ s \in ValidTransitions[row[m].status]
    /\ AdminOverride(w, m, s)

-----------------------------------------------------------------------------
(* The cron jobs: MilestoneProofSlaService and RetentionSchedulerService *)

Tick(w, job, pc, batch) ==
    /\ locks[job] = Nobody
    /\ Begin(w, [Idle EXCEPT !.pc = pc, !.t = now, !.todo = batch], {})
    /\ locks' = [locks EXCEPT ![job] = w]
    /\ UNCHANGED <<tables, ledger, clocks>>

\* The end of a job: the key is deleted if it is still this run's.
EndJob(w, job) ==
    /\ Done(w)
    /\ locks' = [locks EXCEPT ![job] = IF @ = w THEN Nobody ELSE @]

\* runProofSlaChecks reads its batch once.
RunProofSlaChecks(w) ==
    LET pending == {i \in Milestones \X (1..MaxVersions) :
                      /\ i[2] <= Latest(i[1])
                      /\ versions[i[1]][i[2]].status = "SUBMITTED"
                      /\ ~versions[i[1]][i[2]].expired
                      /\ row[i[1]].status = "PROOF_SUBMITTED"}
    IN  /\ pending # {}
        /\ Tick(w, "sla", "sla", {[m |-> i[1], n |-> i[2],
                                   v |-> versions[i[1]][i[2]]] : i \in pending})

\* The share of the review window that has passed, in percent.
Elapsed(v, t) == (100 * (t - v.at)) \div SlaWindow

ClaimStepBug(v, done) == v.status = "SUBMITTED"

\* The where clause of a claim, on the row as it is now.
ClaimStep(v, done) == v.status = "SUBMITTED" /\ ~done

\* evaluate: at most one step per version and run, the most urgent one.
EvaluateVersion(w) ==
    /\ At(w, "sla")
    /\ \E i \in req[w].todo :
         LET v == versions[i.m][i.n]
             share == Elapsed(i.v, req[w].t)
             rest == [req[w] EXCEPT !.todo = @ \ {i}]
             Expire == share >= 100
             Remind90 == ~Expire /\ share >= 90 /\ ~i.v.r90
             Remind50 == ~Expire /\ ~Remind90 /\ share >= 50 /\ ~i.v.r50
         IN  \/ /\ Expire /\ ClaimStep(v, v.expired)
                /\ SetVersion(i.m, i.n, [v EXCEPT !.expired = TRUE])
                /\ Become(w, IF AutoApprove
                             THEN [rest EXCEPT !.pc = "submit", !.then = "auto",
                                               !.m = i.m, !.n = i.n]
                             ELSE rest)
                /\ UNCHANGED sent
             \/ /\ Remind90 /\ ClaimStep(v, v.r90)
                /\ SetVersion(i.m, i.n, [v EXCEPT !.r90 = TRUE, !.r50 = TRUE])
                /\ sent' = [sent EXCEPT ![i.m][90][i.n] = @ + 1]
                /\ Become(w, rest)
             \/ /\ Remind50 /\ ClaimStep(v, v.r50)
                /\ SetVersion(i.m, i.n, [v EXCEPT !.r50 = TRUE])
                /\ sent' = [sent EXCEPT ![i.m][50][i.n] = @ + 1]
                /\ Become(w, rest)
             \/ /\ ~(Expire /\ ClaimStep(v, v.expired))
                /\ ~(Remind90 /\ ClaimStep(v, v.r90))
                /\ ~(Remind50 /\ ClaimStep(v, v.r50))
                /\ Become(w, rest) /\ UNCHANGED <<versions, sent>>
    /\ UNCHANGED <<row, approvals, given, release, refund, ledger, locks,
                   clocks, upset>>

EndSlaChecks(w) ==
    /\ At(w, "sla") /\ req[w].todo = {}
    /\ EndJob(w, "sla")
    /\ UNCHANGED <<tables, ledger, clocks, upset>>

AfterFailureBug(v) == v
AfterFailure(v) == [v EXCEPT !.expired = FALSE]

\* A failed payout gives the claim back, so that the next run tries again.
Unclaim(w) ==
    LET m == req[w].m
        n == req[w].n
    IN  /\ At(w, "unclaim")
        /\ SetVersion(m, n, AfterFailure(versions[m][n]))
        /\ Goto(w, "sla")
        /\ UNCHANGED <<row, approvals, given, release, refund, sent, ledger,
                       locks, clocks, upset>>

\* handleRetentionMilestones, for one LOCKED milestone a run: unlock it on the
\* contract when its ledger has come, warn when it is near.
RetentionTick(w, m) ==
    /\ row[m].status = "LOCKED" /\ row[m].kind = "RETENTION"
    /\ now >= row[m].until \/ (~row[m].warned /\ row[m].until - now <= WarnBefore)
    /\ locks["retention"] = Nobody
    /\ Begin(w, [Idle EXCEPT !.pc = IF now >= row[m].until THEN "submit" ELSE "scan",
                             !.then = "unlock", !.m = m, !.t = now], {})
    /\ locks' = [locks EXCEPT !["retention"] = w]
    /\ UNCHANGED <<tables, ledger, clocks>>

SendRetentionWarning(w) ==
    /\ At(w, "scan")
    /\ row' = [row EXCEPT ![req[w].m].warned = TRUE]
    /\ EndJob(w, "retention")
    /\ UNCHANGED <<approvals, given, versions, release, refund, sent, ledger,
                   clocks, upset>>

\* unlockRetentionOnChain after its transaction; a failure ends the run.
MarkUnlockedByJob(w) ==
    /\ At(w, "unlocked")
    /\ SetStatus(req[w].m, "PENDING")
    /\ EndJob(w, "retention")
    /\ UNCHANGED <<approvals, given, versions, release, refund, sent, ledger,
                   clocks, upset>>

-----------------------------------------------------------------------------
(* PartialReleaseService *)

Open(m) == {r \in ReleaseIds : release[r].m = m /\ release[r].status = "PROPOSED"}
SetRelease(r, x) == release' = [release EXCEPT ![r] = x]

ProposeRelease(w, m, party, terms) ==
    /\ row[m].status \in {"PROOF_SUBMITTED", "DISPUTED"}
    /\ Call(w, [Idle EXCEPT !.pc = "propose", !.m = m, !.party = party,
                            !.p = row[m].paid, !.terms = terms], {})
    /\ UNCHANGED <<tables, ledger, locks, now, faults, scope>>

MayPayBug(amount, left) == amount >= 1

\* computeSplit: what is paid must leave something in escrow.
MayPay(amount, left) == amount \in 1..(left - 1)

\* No other open proposal, and a split of what the row that was read leaves.
ProposeCheck(w) ==
    LET q == req[w]
    IN  /\ At(w, "propose")
        /\ IF Open(q.m) = {} /\ MayPay(q.terms.amount, Amount - q.p)
           THEN Goto(w, "insert") ELSE Done(w)
        /\ UNCHANGED <<tables, ledger, locks, clocks, upset>>

\* The insert; at most one row of a milestone is PROPOSED (a partial index).
InsertRelease(w) ==
    LET q == req[w]
        free == {r \in ReleaseIds : release[r].status = "NONE"}
    IN  /\ At(w, "insert")
        /\ IF Open(q.m) # {} \/ free = {}
           THEN UNCHANGED release
           ELSE LET r == CHOOSE i \in free : \A j \in free : i <= j
                IN  SetRelease(r, [NoRelease EXCEPT !.m = q.m,
                          !.amount = q.terms.amount, !.back = q.terms.back,
                          !.rest = Amount - q.p - q.terms.amount,
                          !.signed = {q.party}, !.status = "PROPOSED"])
        /\ Done(w)
        /\ UNCHANGED <<row, approvals, given, versions, refund, sent, ledger,
                       locks, clocks, upset>>

\* approve and reject load the milestone, then find the proposal.
AnswerRelease(w, m, r, party, then) ==
    /\ release[r].m = m
    /\ Call(w, [Idle EXCEPT !.pc = "find", !.then = then, !.m = m, !.r = r,
                            !.party = party, !.p = row[m].paid], {})
    /\ UNCHANGED <<tables, ledger, locks, now, faults, scope>>

ApproveRelease(w, m, r, party) == AnswerRelease(w, m, r, party, "sign")
RejectRelease(w, m, r, party) == AnswerRelease(w, m, r, party, "decline")

FindOpen(w) ==
    /\ At(w, "find")
    /\ IF release[req[w].r].status = "PROPOSED"
       THEN Become(w, [req[w] EXCEPT !.pc = req[w].then, !.then = "idle"])
       ELSE Done(w)
    /\ UNCHANGED <<tables, ledger, locks, clocks, upset>>

\* The caller's side signs once, while the proposal is open.
SignRelease(w) ==
    LET q == req[w]
        x == release[q.r]
    IN  /\ At(w, "sign")
        /\ IF x.status = "PROPOSED" /\ q.party \notin x.signed
           THEN /\ SetRelease(q.r, [x EXCEPT !.signed = @ \cup {q.party}])
                /\ Goto(w, "signed")
           ELSE Done(w) /\ UNCHANGED release
        /\ UNCHANGED <<row, approvals, given, versions, refund, sent, ledger,
                       locks, clocks, upset>>

\* The row read back: with both signatures it is executed.
HasDualApproval(w) ==
    /\ At(w, "signed")
    /\ IF release[req[w].r].signed = Parties THEN Goto(w, "claim") ELSE Done(w)
    /\ UNCHANGED <<tables, ledger, locks, clocks, upset>>

Executable(x) == x.status = "PROPOSED" /\ ~x.claimed

RejectableBug(x) == x.status = "PROPOSED"
Rejectable(x) == x.status = "PROPOSED" /\ ~x.claimed

DeclineRelease(w) ==
    LET x == release[req[w].r]
    IN  /\ At(w, "decline")
        /\ IF Rejectable(x) THEN SetRelease(req[w].r, [x EXCEPT !.status = "REJECTED"])
                            ELSE UNCHANGED release
        /\ Done(w)
        /\ UNCHANGED <<row, approvals, given, versions, refund, sent, ledger,
                       locks, clocks, upset>>

\* execute claims the row before the payment.
ClaimRelease(w) ==
    LET x == release[req[w].r]
    IN  /\ At(w, "claim")
        /\ IF Executable(x)
           THEN /\ SetRelease(req[w].r, [x EXCEPT !.claimed = TRUE])
                /\ Become(w, [req[w] EXCEPT !.pc = "submit", !.then = "partial"])
           ELSE Done(w) /\ UNCHANGED release
        /\ UNCHANGED <<row, approvals, given, versions, refund, sent, ledger,
                       locks, clocks, upset>>

PaidBug(q, x) == q.p + x.rest

\* What the milestone was paid, from the row read at the start of the request.
Paid(q, x) == q.p + x.amount

\* After the payment: the milestone, then the refund and the proposal.
\* (Engagement.releasedAmount belongs to the engagement.)
BookRelease(w) ==
    LET q == req[w]
        x == release[q.r]
    IN  /\ At(w, "book")
        /\ row' = [row EXCEPT ![q.m].paid = Paid(q, x),
                              ![q.m].status = IF x.back THEN "CONFIRMED" ELSE @]
        /\ Goto(w, "finish")
        /\ UNCHANGED <<approvals, given, versions, release, refund, sent, ledger,
                       locks, clocks, upset>>

FinishRelease(w) ==
    LET q == req[w]
        x == release[q.r]
    IN  /\ At(w, "finish")
        /\ refund' = [refund EXCEPT ![q.m] = IF x.back THEN x.rest ELSE @]
        /\ SetRelease(q.r, [x EXCEPT !.status = "EXECUTED"])
        /\ Done(w)
        /\ UNCHANGED <<row, approvals, given, versions, sent, ledger, locks,
                       clocks, upset>>

\* An exception of the payment: the claim is given back, the proposal is over.
FailRelease(w) ==
    LET x == release[req[w].r]
    IN  /\ At(w, "fail")
        /\ SetRelease(req[w].r, [x EXCEPT !.status = "FAILED", !.claimed = FALSE])
        /\ Done(w)
        /\ UNCHANGED <<row, approvals, given, versions, refund, sent, ledger,
                       locks, clocks, upset>>

-----------------------------------------------------------------------------
(* Contract calls: StellarService.submitAndConfirm, the contract and its events *)

PayCalls == {"approve", "auto"}

\* The contract's own guards.
Accepts(call, m, r) ==
    LET c == chain[m]
    IN  CASE call \in PayCalls -> c.st = "PROOF" /\ c.left > 0
          [] call = "partial" -> c.st \in {"PROOF", "DISPUTED"}
                                 /\ release[r].amount < c.left
          [] call = "unlock" -> c.st = "LOCKED" /\ now >= c.until

\* Where a handler goes on after its call: approveMilestone and the partial
\* release book the payment, a failed retention run ends.
OnSuccess(call) == CASE call = "approve" -> "confirm" [] call = "auto" -> "autoConfirm"
                     [] call = "partial" -> "book" [] call = "unlock" -> "unlocked"
Raise(w) ==
    LET call == req[w].then
    IN  IF call = "unlock" THEN EndJob(w, "retention")
        ELSE /\ UNCHANGED locks
             /\ CASE call = "approve" -> Done(w)
                  [] call = "auto" -> Goto(w, "unclaim")
                  [] call = "partial" -> Goto(w, "fail")

\* Build, simulate and send; a refused simulation and an unreachable node raise.
Submit(w) ==
    LET q == req[w]
        ok == Accepts(q.then, q.m, q.r)
    IN  /\ At(w, "submit")
        /\ \/ /\ ok
              /\ net' = net \cup {[by |-> w, call |-> q.then, m |-> q.m, r |-> q.r]}
              /\ Goto(w, "wait")
              /\ UNCHANGED <<locks, faults>>
           \/ /\ \/ ~ok /\ UNCHANGED faults
                 \/ ok /\ Fault("rpc")
              /\ Raise(w)
              /\ UNCHANGED net
        /\ UNCHANGED <<tables, chain, events, emitted, now, calls, scope, upset>>

\* A transaction is included: it applies, or fails because of one before it.
Land(t) ==
    LET m == t.m
        c == chain[m]
        amount == IF t.r = 0 THEN 0 ELSE release[t.r].amount
        ok == Accepts(t.call, m, t.r)
    IN  /\ net' = net \ {t}
        /\ IF ~ok THEN UNCHANGED <<chain, events, emitted, release>>
           ELSE CASE t.call \in PayCalls ->
                       /\ chain' = [chain EXCEPT ![m].st = "DONE",
                                      ![m].got = c.got + c.left, ![m].left = 0]
                       /\ Emit("milestone_confirmed", m, c.got + c.left)
                       /\ UNCHANGED release
                  [] t.call = "partial" ->
                       /\ chain' = [chain EXCEPT
                              ![m].st = IF release[t.r].back THEN "DONE" ELSE @,
                              ![m].got = @ + amount,
                              ![m].left = IF release[t.r].back THEN 0 ELSE @ - amount]
                       /\ release' = [release EXCEPT ![t.r].paid = @ + amount]
                       /\ UNCHANGED <<events, emitted>>
                  [] t.call = "unlock" ->
                       /\ chain' = [chain EXCEPT ![m].st = "PENDING"]
                       /\ Emit("milestone_unlocked", m, 0)
                       /\ UNCHANGED release
        /\ IF t.by = Nobody THEN UNCHANGED <<req, locks>>
           ELSE IF ok THEN Goto(t.by, OnSuccess(t.call)) /\ UNCHANGED locks
           ELSE Raise(t.by)
        /\ UNCHANGED <<row, approvals, given, versions, refund, sent, clocks, upset>>

\* A transaction that is never included: the poll runs out and raises.
Expire(t) ==
    /\ t.by # Nobody /\ Fault("expire")
    /\ net' = net \ {t}
    /\ Raise(t.by)
    /\ UNCHANGED <<tables, chain, events, emitted, now, calls, scope, upset>>

\* The poll runs out although the transaction will be included.
GiveUp(t) ==
    /\ t.by # Nobody /\ Fault("timeout")
    /\ net' = (net \ {t}) \cup {[t EXCEPT !.by = Nobody]}
    /\ Raise(t.by)
    /\ upset' = upset \cup {"late"}
    /\ UNCHANGED <<tables, chain, events, emitted, now, calls, scope>>

\* What the parties do to the contract without the backend.
ContractStep(m, from, to, kind, what) ==
    /\ chain[m].st = from
    /\ calls < scope.calls /\ calls' = calls + 1
    /\ chain' = [chain EXCEPT ![m].st = to]
    /\ Emit(kind, m, 0)
    /\ upset' = upset \cup what
    /\ UNCHANGED <<tables, net, locks, req, now, faults, scope>>

SubmitProofOnChain(m) == ContractStep(m, "PENDING", "PROOF", "proof_submitted", {})
RaiseDispute(m) == ContractStep(m, "PROOF", "DISPUTED", "dispute_raised", {"disputed"})
RejectDispute(m) ==
    ContractStep(m, "DISPUTED", "PENDING", "dispute_rejected", {"disputed"})

\* An approved dispute and a replacement also move money or dates.
ApproveDispute(m) ==
    /\ chain[m].st = "DISPUTED" /\ calls < scope.calls /\ calls' = calls + 1
    /\ chain' = [chain EXCEPT ![m].st = "DONE", ![m].got = @ + chain[m].left,
                              ![m].left = 0]
    /\ Emit("dispute_approved", m, 0)
    /\ upset' = upset \cup {"disputed"}
    /\ UNCHANGED <<tables, net, locks, req, now, faults, scope>>

RequestReplacement(m) ==
    /\ calls < scope.calls /\ calls' = calls + 1
    /\ chain' = [chain EXCEPT ![m] =
          IF row[m].kind = "PLACEMENT" THEN [chain[m] EXCEPT !.st = "PENDING"]
          ELSE IF chain[m].st = "DONE" THEN chain[m]
          ELSE [chain[m] EXCEPT !.st = "LOCKED", !.until = now + Retention]]
    /\ Emit("replacement_requested", m, 0)
    /\ upset' = upset \cup {"replaced"}
    /\ UNCHANGED <<tables, net, locks, req, now, faults, scope>>

-----------------------------------------------------------------------------
(* EventsService: the handlers that write milestone rows *)

\* markUnlocked, markProofSubmitted, markDisputed, markResolved: the status is
\* written whatever it was.
EventStatus(kind) ==
    CASE kind \in {"milestone_unlocked", "dispute_rejected"} -> "PENDING"
      [] kind = "proof_submitted" -> "PROOF_SUBMITTED"
      [] kind = "milestone_confirmed" -> "CONFIRMED"
      [] kind = "dispute_raised" -> "DISPUTED"
      [] kind = "dispute_approved" -> "RESOLVED"

\* resetForReplacement of one milestone.
Settled(m) == row[m].kind = "RETENTION" /\ row[m].status \in {"CONFIRMED", "RESOLVED"}
ResetForReplacement(m) ==
    CASE row[m].kind = "PLACEMENT" -> [row[m] EXCEPT !.status = "PENDING", !.paid = 0]
      [] Settled(m) -> row[m]
      [] OTHER -> [row[m] EXCEPT !.status = "LOCKED", !.until = now + Retention]

\* The row has moved past what an event says, and no payout is left to be read
\* that would set it right.
Outdated(e) ==
    /\ \/ e.kind = "milestone_unlocked" /\ row[e.m].status \notin {"LOCKED", "PENDING"}
       \/ e.kind = "proof_submitted" /\ row[e.m].status = "CONFIRMED"
    /\ \A d \in events : d.m = e.m => d.kind # "milestone_confirmed"

\* Events are handled oldest first, one at a time; after a failure the poller
\* and the retry job may each take one.
HandleEvent(w, e) ==
    LET busy == {req[o].e : o \in Workers}
        next == IF e.kind = "proof_submitted" THEN "latest"
                ELSE IF e.kind = "replacement_requested" /\ ~Settled(e.m) THEN "clear"
                ELSE "ack"
    IN  /\ \/ busy = {0} /\ (\A d \in events : e.id <= d.id) /\ UNCHANGED faults
           \/ e.id \notin busy /\ Fault("reorder")
        /\ Begin(w, [Idle EXCEPT !.pc = next, !.then = "ack", !.m = e.m, !.e = e.id],
                 IF Outdated(e) THEN {"outdated"} ELSE {})
        /\ row' = [row EXCEPT ![e.m] =
              IF e.kind = "replacement_requested" THEN ResetForReplacement(e.m)
              ELSE [row[e.m] EXCEPT
                      !.status = EventStatus(e.kind),
                      !.paid = IF e.kind = "milestone_confirmed" THEN e.amount
                                                                ELSE row[e.m].paid]]
        /\ UNCHANGED <<approvals, given, versions, release, refund, sent, ledger,
                       locks, now, calls, scope>>

ClearApprovals(w) ==
    /\ At(w, "clear")
    /\ approvals' = [approvals EXCEPT ![req[w].m] = {}]
    /\ Goto(w, "ack")
    /\ UNCHANGED <<row, given, versions, release, refund, sent, ledger, locks,
                   clocks, upset>>

Acknowledge(w) ==
    /\ At(w, "ack")
    /\ events' = {e \in events : e.id # req[w].e}
    /\ Done(w)
    /\ UNCHANGED <<tables, chain, emitted, net, locks, clocks, upset>>

-----------------------------------------------------------------------------
(* Failures and time *)

\* The process of a worker stops: its keys stay until they expire, its
\* transactions stay in the network.
Crash(w) ==
    /\ ~At(w, "idle") /\ Fault("crash")
    /\ Done(w)
    /\ locks' = [j \in Jobs |-> IF locks[j] = w THEN Dead ELSE locks[j]]
    /\ net' = {[t EXCEPT !.by = IF @ = w THEN Nobody ELSE @] : t \in net}
    /\ upset' = upset \cup {"crash"}
    /\ UNCHANGED <<tables, chain, events, emitted, now, calls, scope>>

\* A key expires by itself, under a live run only if that run is slow.
ExpireLock(j) ==
    /\ locks[j] # Nobody
    /\ \/ locks[j] = Dead /\ UNCHANGED faults
       \/ locks[j] # Dead /\ Fault("slow")
    /\ locks' = [locks EXCEPT ![j] = Nobody]
    /\ UNCHANGED <<tables, ledger, req, now, calls, scope, upset>>

Later(t) ==
    /\ t > now /\ now' = t
    /\ UNCHANGED <<tables, ledger, locks, req, calls, faults, scope, upset>>

Take(w) ==
    \/ \E m \in Milestones :
         \/ Uses("submit") /\ SubmitProof(w, m)
         \/ \E v \in 0..MaxVersions :
              \/ Uses("reject") /\ RejectProof(w, m, v)
              \/ Uses("approve") /\ \E u \in Approvers : ApproveMilestone(w, m, u, v)
         \/ Uses("admin") /\ \E s \in {"PENDING", "CONFIRMED"} : AdminOverride(w, m, s)
         \/ Uses("admin") /\ \E s \in Statuses : BulkUpdateStatus(w, m, s)
         \/ Uses("retention") /\ RetentionTick(w, m)
         \/ /\ Uses("release")
            /\ \E party \in Parties :
                 \/ \E amount \in 1..(Amount + 1), back \in BOOLEAN :
                      ProposeRelease(w, m, party, [amount |-> amount, back |-> back])
                 \/ \E r \in ReleaseIds :
                      ApproveRelease(w, m, r, party) \/ RejectRelease(w, m, r, party)
    \/ Uses("sla") /\ RunProofSlaChecks(w)
    \/ \E e \in events : HandleEvent(w, e)

Step(w) ==
    \/ Supersede(w) \/ RecordVersionFind(w) \/ RecordVersionCreate(w)
    \/ SetProofSubmitted(w) \/ AssertReviewable(w) \/ RejectVersion(w) \/ Reopen(w)
    \/ ForgetApprovals(w) \/ CreateApproval(w) \/ CountApprovals(w) \/ Submit(w)
    \/ MarkConfirmed(w) \/ MarkApprovedFind(w) \/ ApproveVersion(w)
    \/ OverrideStatus(w) \/ EvaluateVersion(w) \/ EndSlaChecks(w) \/ Unclaim(w)
    \/ SendRetentionWarning(w) \/ MarkUnlockedByJob(w)
    \/ ProposeCheck(w) \/ InsertRelease(w) \/ FindOpen(w) \/ SignRelease(w)
    \/ HasDualApproval(w) \/ DeclineRelease(w) \/ ClaimRelease(w) \/ BookRelease(w)
    \/ FinishRelease(w) \/ FailRelease(w) \/ ClearApprovals(w) \/ Acknowledge(w)

Contract(m) ==
    \/ Uses("chain") /\ SubmitProofOnChain(m)
    \/ Uses("dispute") /\ (RaiseDispute(m) \/ RejectDispute(m) \/ ApproveDispute(m))
    \/ Uses("replace") /\ RequestReplacement(m)

Next ==
    \/ \E w \in Workers : Take(w) \/ Step(w) \/ Crash(w)
    \/ \E m \in Milestones : Contract(m)
    \/ \E t \in net : Land(t) \/ Expire(t) \/ GiveUp(t)
    \/ \E j \in Jobs : ExpireLock(j)
    \/ \E t \in scope.times : Later(t)

Spec == Init /\ [][Next]_vars

-----------------------------------------------------------------------------
(* Properties *)

Resting == \A w \in Workers : At(w, "idle")
Quiet == Resting /\ events = {} /\ net = {}

\* However API submissions, their retries and proof_submitted events interleave,
\* only the latest proof version of a milestone awaits review.
OnlyLatestOpen ==
    \A m \in Milestones : \A n \in 1..(Latest(m) - 1) :
        versions[m][n].status # "SUBMITTED"

\* A reminder of a version goes out once, even when the key of a slow run of the
\* job has expired and another run works on the same batch.
RemindedOnce ==
    \A m \in Milestones, p \in {50, 90}, n \in 1..MaxVersions : sent[m][p][n] <= 1

\* A claim of the SLA job ends in a payout or is given back, unless the process
\* died: no expired proof is left behind that no later run looks at.
ClaimsEnd ==
    (Quiet /\ AutoApprove /\ "crash" \notin upset) =>
        \A m \in Milestones : \A n \in 1..Latest(m) :
            versions[m][n].status = "SUBMITTED" => ~versions[m][n].expired

\* A proposal that was rejected is not paid, however the rejection races with
\* the second signature.
RejectedNeverPaid ==
    \A r \in ReleaseIds : release[r].status = "REJECTED" =>
        release[r].paid = 0 /\ \A t \in net : t.r # r

\* While requests come one at a time and nothing irregular happened, approvals of
\* a proof under review were given for that proof, not for an earlier version.
ApprovalsFresh ==
    (Quiet /\ upset = {}) =>
        \A m \in Milestones : row[m].status = "PROOF_SUBMITTED" =>
            \A u \in approvals[m] : given[m][u] = Latest(m)

\* ... and the database agrees with the contract on what was paid, and a milestone
\* is confirmed exactly when its escrow is empty.
BooksAgree ==
    (Quiet /\ upset = {}) =>
        \A m \in Milestones :
            /\ row[m].paid = chain[m].got
            /\ (row[m].status = "CONFIRMED") <=> (chain[m].left = 0)

=============================================================================
