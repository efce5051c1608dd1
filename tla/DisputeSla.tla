----------------------------- MODULE DisputeSla -----------------------------
(***************************************************************************)
(* The response deadlines of disputes: each stage sets a new one, a job    *)
(* flags the disputes that missed theirs and tells the administrators, and *)
(* another warns the parties before the evidence window closes.  Who opens,*)
(* decides and appeals is the subject of module Disputes; here these are   *)
(* the writes that touch the clock.                                        *)
(***************************************************************************)
EXTENDS Handlers

CONSTANTS
    Cases,         \* disputes
    StageTime,     \* hoursFor a stage
    EvidenceTime,  \* DISPUTE_EVIDENCE_WINDOW_HOURS
    WarningTime    \* DISPUTE_EVIDENCE_WARNING_HOURS

ASSUME DisputeSlaAssumption == {StageTime, EvidenceTime, WarningTime} \subseteq Nat

VARIABLES
    clock,      \* the fields of each dispute that concern its deadlines; `starts' is
                \* history: how often its clock was started
    escalated,  \* history: the clocks whose end was escalated to the administrators
    warned      \* history: how often the parties of each dispute were warned

slaVars == <<clock, escalated, warned>>

NoCase == [status |-> "none", stage |-> 1, assigned |-> FALSE, appeal |-> "none",
           deadline |-> 0, sla |-> "ON_TRACK", starts |-> 0, evidence |-> 0, warnedAt |-> 0]

\* The program points of its handlers.
SlaPoints == {"assign", "assigned", "decided", "appeal", "flag", "tell", "warn", "warnParties"}

DisputeSlaOK ==
    /\ \A d \in Cases : /\ DOMAIN clock[d] = DOMAIN NoCase
                        /\ clock[d].status \in {"none", "active", "resolved"} /\ clock[d].stage \in 1..3
                        /\ clock[d].appeal \in {"none", "open", "decided"}
                        /\ clock[d].sla \in {"ON_TRACK", "OVERDUE", "MET"}
    /\ escalated \in Seq(Cases \X Nat) /\ warned \in [Cases -> Nat]

DisputeSlaInit ==
    clock = [d \in Cases |-> NoCase] /\ escalated = <<>> /\ warned = [d \in Cases |-> 0]

\* stageFields of a stage (1 is the assignment, 2 the review, 3 the appeal), and
\* what a decision writes for the dispute it has read.
StageFields(r, stage) ==
    [r EXCEPT !.status = "active", !.stage = stage, !.deadline = now + StageTime, !.sla = "ON_TRACK", !.starts = @ + 1]
CompletionStatus(r) == IF r.sla = "OVERDUE" \/ now > r.deadline THEN "OVERDUE" ELSE "MET"

\* A step of w on the dispute d: the row becomes r.
Writes(d, r) == clock' = [clock EXCEPT ![d] = r] /\ UNCHANGED <<escalated, warned>>

OpenForMilestone(w, d) ==
    /\ clock[d].status = "none"
    /\ Call(w, "open", "assign", [d |-> d])
    /\ Writes(d, [StageFields(clock[d], 1) EXCEPT !.evidence = now + EvidenceTime])

\* A dispute without an arbiter is given one, if one is eligible.  The update
\* looks again only at the arbiter, not at the status.
AutoAssign(w) ==
    LET r == clock[Local(w).d]
    IN  /\ At(w, "assign")
        /\ IF r.status = "active" /\ ~r.assigned
           THEN End(w, "assign") \/ Goto(w, "assign", "assigned")
           ELSE End(w, "assign")
        /\ UNCHANGED slaVars

WriteArbiter(w) ==
    LET r == clock[Local(w).d]
    IN  /\ End(w, "assigned")
        /\ IF r.assigned THEN UNCHANGED slaVars
           ELSE Writes(Local(w).d, [StageFields(r, 2) EXCEPT !.assigned = TRUE])

\* decide and decideAppeal.
Decide(w, d) ==
    LET r == clock[d]
    IN  /\ IF r.stage = 3 THEN r.appeal = "open" ELSE r.status = "active"
        /\ Call(w, "decide", "decided", [d |-> d, appeal |-> r.stage = 3, sla |-> CompletionStatus(r)])
        /\ UNCHANGED slaVars

\* The status of the deadline is that of the row as it was read.
WriteDecision(w) ==
    LET v == Local(w)
        r == clock[v.d]
        still == IF v.appeal THEN r.appeal = "open" ELSE r.status = "active"
    IN  /\ End(w, "decided")
        /\ IF ~still THEN UNCHANGED slaVars
           ELSE Writes(v.d, [r EXCEPT !.status = "resolved", !.sla = v.sla,
                                      !.appeal = IF v.appeal THEN "decided" ELSE @])

OpenAppeal(w, d) ==
    /\ clock[d].status = "resolved" /\ clock[d].appeal = "none"
    /\ Call(w, "appeal", "appeal", [d |-> d])
    /\ UNCHANGED slaVars

\* The appeal arbiter was chosen before the guarded transition, or none was found.
WriteAppeal(w) ==
    LET r == clock[Local(w).d]
    IN  /\ End(w, "appeal")
        /\ IF r.status # "resolved" \/ r.appeal # "none" THEN UNCHANGED slaVars
           ELSE \E found \in BOOLEAN :
                  Writes(Local(w).d, [StageFields(r, 3) EXCEPT !.assigned = found, !.appeal = "open"])

-----------------------------------------------------------------------------
(* The jobs; their lock lapses after ten minutes, so that two runs may overlap *)

Overdue == {d \in Cases : clock[d].status = "active" /\ clock[d].sla = "ON_TRACK" /\ clock[d].deadline <= now}

FlagOverdueDisputes(w) ==
    /\ Overdue # {}
    /\ Call(w, "sla", "flag", [todo |-> Overdue])
    /\ UNCHANGED slaVars

FlagBug(d) == clock[d].status = "active"
Flag(d) == clock[d].status = "active" /\ clock[d].sla = "ON_TRACK"

\* The conditional update of one dispute; who wins it tells the administrators.
\* It does not look at the deadline again, which a new stage may have moved.
FlagOne(w) ==
    LET v == Local(w)
    IN  /\ At(w, "flag")
        /\ \E d \in v.todo :
             IF Flag(d)
             THEN /\ GotoWith(w, "flag", "tell", [todo |-> v.todo \ {d}, told |-> <<d, clock[d].starts>>])
                  /\ clock' = [clock EXCEPT ![d].sla = "OVERDUE"]
             ELSE GotoWith(w, "flag", "flag", [todo |-> v.todo \ {d}]) /\ UNCHANGED clock
        /\ UNCHANGED <<escalated, warned>>

TellAdmins(w) ==
    LET v == Local(w)
    IN  /\ GotoWith(w, "tell", "flag", [todo |-> v.todo])
        /\ escalated' = Append(escalated, v.told)
        /\ UNCHANGED <<clock, warned>>

FlaggedAll(w) == At(w, "flag") /\ Local(w).todo = {} /\ End(w, "flag") /\ UNCHANGED slaVars

ClosingSoon == {d \in Cases : /\ clock[d].status = "active" /\ clock[d].warnedAt = 0
                              /\ clock[d].evidence > now /\ clock[d].evidence <= now + WarningTime}

NotifyEvidenceDeadlinesClosing(w) ==
    /\ ClosingSoon # {}
    /\ Call(w, "evidence", "warn", [todo |-> ClosingSoon])
    /\ UNCHANGED slaVars

\* Here too one run wins the update, and warns; an unwarned dispute stays so if
\* the run dies between the two.
WarnOne(w) ==
    LET v == Local(w)
    IN  /\ At(w, "warn")
        /\ \E d \in v.todo :
             IF clock[d].warnedAt = 0
             THEN /\ GotoWith(w, "warn", "warnParties", [todo |-> v.todo \ {d}, d |-> d])
                  /\ clock' = [clock EXCEPT ![d].warnedAt = now]
             ELSE GotoWith(w, "warn", "warn", [todo |-> v.todo \ {d}]) /\ UNCHANGED clock
        /\ UNCHANGED <<escalated, warned>>

WarnParties(w) ==
    LET v == Local(w)
    IN  /\ GotoWith(w, "warnParties", "warn", [todo |-> v.todo])
        /\ warned' = [warned EXCEPT ![v.d] = @ + 1]
        /\ UNCHANGED <<clock, escalated>>

WarnedAll(w) == At(w, "warn") /\ Local(w).todo = {} /\ End(w, "warn") /\ UNCHANGED slaVars

DisputeSlaNext ==
    \E w \in Workers :
      \/ \E d \in Cases : OpenForMilestone(w, d) \/ Decide(w, d) \/ OpenAppeal(w, d)
      \/ AutoAssign(w) \/ WriteArbiter(w) \/ WriteDecision(w) \/ WriteAppeal(w)
      \/ FlagOverdueDisputes(w) \/ FlagOne(w) \/ TellAdmins(w) \/ FlaggedAll(w)
      \/ NotifyEvidenceDeadlinesClosing(w) \/ WarnOne(w) \/ WarnParties(w) \/ WarnedAll(w)

-----------------------------------------------------------------------------

\* However often a dispute's clock is started - by its opening, an arbiter or an
\* appeal, some of them on a row that was read before another's write - the end
\* of each clock is escalated at most once, and the parties are warned
\* at most once, even by two runs of a job that overlap.
EscalatedOnce ==
    IsInjective(escalated) /\ \A d \in Cases : warned[d] <= 1
=============================================================================
