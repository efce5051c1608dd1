---------------------------- MODULE JobsProofs ----------------------------
(***************************************************************************)
(* Proofs about what runs beside the requests: the end of a dispute's      *)
(* clock is escalated once, a repeated POST runs its handler once, no      *)
(* webhook event drops out between the queue, its receiver and the log,    *)
(* the cleanup beside uploads, scans and other runs never deletes an       *)
(* object that a row refers to, and the sweep leaves no overdue upload     *)
(* without a job.                                                          *)
(***************************************************************************)
EXTENDS AccountsProofs

(***************************************************************************)
(* The deadlines of disputes                                               *)
(***************************************************************************)

\* A step of the dispute clocks, or one elsewhere.
LEMMA SlaMoves ==
    ASSUME Control, [Next]_serviceVars
    PROVE  DisputeSlaNext \/ (Elsewhere(SlaPoints) /\ UNCHANGED slaVars)
<1>1. CASE UNCHANGED serviceVars
  BY <1>1, ElsewhereSame DEF serviceVars
<1>2. CASE (\E t \in scope.times : Later(t)) /\ UNCHANGED slaVars
  BY <1>2, LaterElsewhere
<1>3. ASSUME NEW M, M \in {AccountsPoints, CompaniesPoints, IdempotencyPoints, DeliveriesPoints, CreditPoints,
                          FilesPoints, SponsorPoints, {}}, Steps(M)
      PROVE  Elsewhere(SlaPoints)
  <2>1. SlaPoints \cap (M \cup {"idle"}) = {}
    BY <1>3 DEF CreditPoints, AccountsPoints, CompaniesPoints, IdempotencyPoints, DeliveriesPoints, SlaPoints,
                FilesPoints, SponsorPoints
  <2> QED BY <1>3, <2>1, StepsElsewhere
<1>4. CASE (\E w \in Workers : Crash(w)) /\ UNCHANGED slaVars
  BY <1>3, <1>4, CrashSteps DEF Control
<1> QED BY <1>1, <1>2, <1>3, <1>4, NextSteps

Case == [status : {"none", "active", "resolved"}, stage : 1..3, assigned : BOOLEAN,
         appeal : {"none", "open", "decided"}, deadline : Nat, sla : {"ON_TRACK", "OVERDUE", "MET"},
         starts : Nat, evidence : Nat, warnedAt : Nat]

\* A clock only starts anew as another one, and a warning is never taken back.
Advances(r, s) ==
    /\ s.starts >= r.starts
    /\ (s.starts = r.starts /\ r.sla # "ON_TRACK") => s.sla # "ON_TRACK"
    /\ r.warnedAt # 0 => s.warnedAt # 0

\* An escalated clock was started, and if it is the present one its end was noted.
Past(t) ==
    /\ t \in Cases \X Nat /\ t[2] <= clock[t[1]].starts
    /\ t[2] = clock[t[1]].starts => clock[t[1]].sla # "ON_TRACK"

\* The locals of a worker.
SlaLocal(w) ==
    LET v == req[w].v
    IN  /\ req[w].pc \in {"assign", "assigned", "decided", "appeal", "warnParties"} => v.d \in Cases
        /\ req[w].pc = "decided" => v.sla \in {"OVERDUE", "MET"}
        /\ req[w].pc \in {"flag", "tell", "warn", "warnParties"} => v.todo \subseteq Cases

\* What a worker is about to tell has not been told, and no other is about to.
Telling(w) ==
    req[w].pc = "tell" =>
        /\ Past(req[w].v.told) /\ \A i \in 1..Len(escalated) : escalated[i] # req[w].v.told
        /\ \A x \in Workers : (x # w /\ req[x].pc = "tell") => req[x].v.told # req[w].v.told
Warning(w) ==
    req[w].pc = "warnParties" =>
        /\ clock[req[w].v.d].warnedAt # 0 /\ warned[req[w].v.d] = 0
        /\ \A x \in Workers : (x # w /\ req[x].pc = "warnParties") => req[x].v.d # req[w].v.d

SlaTypes == clock \in [Cases -> Case] /\ escalated \in Seq(Cases \X Nat) /\ warned \in [Cases -> Nat]

EscalatedOK ==
    /\ \A i \in 1..Len(escalated) : Past(escalated[i])
    /\ \A i, j \in 1..Len(escalated) : escalated[i] = escalated[j] => i = j
WarnedOK == \A d \in Cases : warned[d] <= 1 /\ (clock[d].warnedAt = 0 => warned[d] = 0)

SlaInv ==
    /\ SlaTypes /\ EscalatedOK /\ WarnedOK
    /\ \A w \in Workers : SlaLocal(w) /\ Telling(w) /\ Warning(w)

\* A clock's end that was escalated stays in the past.
LEMMA PastKept ==
    ASSUME SlaTypes, SlaTypes', \A d \in Cases : Advances(clock[d], clock'[d]), NEW t, Past(t)
    PROVE  Past(t)'
<1>1. PICK d \in Cases, n \in Nat : t = <<d, n>>
  BY DEF Past
<1>2. clock[d] \in Case /\ clock'[d] \in Case /\ Advances(clock[d], clock'[d])
  BY DEF SlaTypes
<1>3. clock[d].starts \in Nat /\ clock'[d].starts \in Nat
  BY <1>2 DEF Case
<1> QED BY <1>1, <1>2, <1>3 DEF Past, Advances

\* A step after which nobody new is about to tell or to warn.
LEMMA SlaQuietStep ==
    ASSUME SlaInv, SlaTypes', NEW w \in Workers, \A x \in Workers \ {w} : req'[x] = req[x],
           \A d \in Cases : Advances(clock[d], clock'[d]), escalated' = escalated, warned' = warned,
           SlaLocal(w)', req'[w].pc \notin {"tell", "warnParties"}
    PROVE  SlaInv'
<1>1. EscalatedOK'
  BY PastKept DEF SlaInv, EscalatedOK
<1>2. WarnedOK'
  <2>1. \A d \in Cases : clock[d].warnedAt # 0 => clock'[d].warnedAt # 0
    BY DEF Advances
  <2> QED BY <2>1 DEF SlaInv, WarnedOK
<1>3. ASSUME NEW x \in Workers PROVE SlaLocal(x)' /\ Telling(x)' /\ Warning(x)'
  <2>1. CASE x = w
    BY <2>1 DEF Telling, Warning
  <2>2. CASE x # w
    <3>1. req'[x] = req[x] /\ SlaLocal(x) /\ Telling(x) /\ Warning(x)
      BY <2>2 DEF SlaInv
    <3>2. SlaLocal(x)'
      BY <3>1 DEF SlaLocal
    <3>3. Telling(x)'
      <4>1. SUFFICES ASSUME req[x].pc = "tell" PROVE Telling(x)'
        BY <3>1 DEF Telling
      <4>2. PICK told : told = req[x].v.told
        OBVIOUS
      <4>3. Past(told)'
        BY <3>1, <4>1, <4>2, PastKept DEF Telling, SlaInv
      <4>4. Past(req[x].v.told)'
        BY <3>1, <4>2, <4>3 DEF Past
      <4> QED BY <3>1, <4>1, <4>2, <4>4 DEF Telling
    <3>4. Warning(x)'
      <4>1. SUFFICES ASSUME req[x].pc = "warnParties" PROVE Warning(x)'
        BY <3>1 DEF Warning
      <4>2. req[x].v.d \in Cases
        BY <3>1, <4>1 DEF SlaLocal
      <4>3. clock'[req[x].v.d].warnedAt # 0
        BY <3>1, <4>1, <4>2 DEF Warning, Advances
      <4> QED BY <3>1, <4>1, <4>3 DEF Warning
    <3> QED BY <3>2, <3>3, <3>4
  <2> QED BY <2>1, <2>2
<1> QED BY <1>1, <1>2, <1>3 DEF SlaInv

\* A new stage starts the clock anew.
LEMMA StageStarts ==
    ASSUME Control, NEW r \in Case, NEW stage \in 1..3
    PROVE  /\ StageFields(r, stage) \in Case
           /\ StageFields(r, stage).starts = r.starts + 1 /\ StageFields(r, stage).warnedAt = r.warnedAt
<1>1. StageTime \in Nat /\ now \in Nat /\ now + StageTime \in Nat
  BY DisputeSlaAssumption DEF Control
<1>2. r.starts + 1 \in Nat /\ r.starts \in Nat
  BY DEF Case
<1> QED BY <1>1, <1>2 DEF Case, StageFields

\* A new stage is a new clock.
LEMMA StageAdvances ==
    ASSUME NEW r \in Case, NEW s \in Case, s.starts = r.starts + 1, s.warnedAt = r.warnedAt
    PROVE  Advances(r, s)
<1>1. r.starts \in Nat
  BY DEF Case
<1> QED BY <1>1 DEF Advances

\* A clock that stays does not go back.
LEMMA SameAdvances == ASSUME NEW r \in Case PROVE Advances(r, r)
<1>1. r.starts \in Nat
  BY DEF Case
<1> QED BY <1>1 DEF Advances

\* A write of one row that advances it.
LEMMA WriteAdvances ==
    ASSUME SlaTypes, NEW d \in Cases, NEW r \in Case, Advances(clock[d], r), clock' = [clock EXCEPT ![d] = r],
           UNCHANGED <<escalated, warned>>
    PROVE  SlaTypes' /\ (\A e \in Cases : Advances(clock[e], clock'[e])) /\ escalated' = escalated /\ warned' = warned
<1>1. clock' \in [Cases -> Case] /\ \A e \in Cases : clock'[e] = IF e = d THEN r ELSE clock[e]
  BY DEF SlaTypes
<1>2. \A e \in Cases : Advances(clock[e], clock'[e])
  BY <1>1, SameAdvances DEF SlaTypes
<1> QED BY <1>1, <1>2 DEF SlaTypes

\* A step of one worker leaves the others' entries alone.
LEMMA SlaOthers ==
    ASSUME ReqOK, NEW w \in Workers
    PROVE  /\ \A op, pc, v, what : CallNoting(w, op, pc, v, what) => \A x \in Workers \ {w} : req'[x] = req[x]
           /\ \A from, r : Become(w, from, r) => \A x \in Workers \ {w} : req'[x] = req[x]
           /\ \A from, kind, r : FailTo(w, from, kind, r) => \A x \in Workers \ {w} : req'[x] = req[x]
  BY DEF ReqOK, CallNoting, Become, FailTo

\* Taking up an operation touches no clock.
LEMMA SlaTakes ==
    ASSUME Control, SlaInv, NEW w \in Workers,
           \/ \E d \in Cases : OpenForMilestone(w, d) \/ Decide(w, d) \/ OpenAppeal(w, d)
           \/ FlagOverdueDisputes(w) \/ NotifyEvidenceDeadlinesClosing(w)
    PROVE  SlaInv'
<1>1. ReqOK /\ SlaTypes
  BY DEF Control, SlaInv
<1>2. ASSUME NEW op, NEW pc, NEW v, Call(w, op, pc, v), pc \in SlaPoints
      PROVE  req'[w].pc = pc /\ req'[w].v = v /\ \A x \in Workers \ {w} : req'[x] = req[x]
  <2>1. CallNoting(w, op, pc, v, {})
    BY <1>2 DEF Call
  <2>2. Steps(SlaPoints) /\ req'[w] = [pc |-> pc, op |-> op, v |-> v]
    BY <1>1, <1>2, <2>1, CallSteps
  <2> QED BY <1>1, <2>1, <2>2, SlaOthers
<1>3. ASSUME NEW d \in Cases, OpenForMilestone(w, d) PROVE SlaInv'
  <2>0. PICK s : s = StageFields(clock[d], 1)
    OBVIOUS
  <2>1. PICK r : r = [s EXCEPT !.evidence = now + EvidenceTime]
    OBVIOUS
  <2>2. Call(w, "open", "assign", [d |-> d]) /\ Writes(d, r)
    BY <1>3, <2>0, <2>1 DEF OpenForMilestone
  <2>3. clock[d] \in Case
    BY <1>1 DEF SlaTypes
  <2>4. s \in Case /\ s.starts = clock[d].starts + 1 /\ s.warnedAt = clock[d].warnedAt
    BY <2>0, <2>3, StageStarts
  <2>a. now + EvidenceTime \in Nat
    BY DisputeSlaAssumption DEF Control
  <2>5. r \in Case /\ r.starts = clock[d].starts + 1 /\ r.warnedAt = clock[d].warnedAt
    BY <2>1, <2>4, <2>a DEF Case
  <2>6. Advances(clock[d], r)
    BY <2>3, <2>5, StageAdvances
  <2>7. req'[w].pc = "assign" /\ req'[w].v = [d |-> d] /\ \A x \in Workers \ {w} : req'[x] = req[x]
    BY <1>2, <2>2 DEF SlaPoints
  <2>8. SlaLocal(w)'
    BY <2>7 DEF SlaLocal
  <2>9. SlaTypes' /\ (\A e \in Cases : Advances(clock[e], clock'[e])) /\ escalated' = escalated /\ warned' = warned
    BY <1>1, <2>2, <2>5, <2>6, WriteAdvances DEF Writes
  <2> QED BY <2>7, <2>8, <2>9, SlaQuietStep
<1>4. ASSUME UNCHANGED slaVars, NEW op, NEW pc, NEW v, Call(w, op, pc, v),
             \/ pc \in {"decided", "appeal"} /\ v.d \in Cases /\ (pc = "decided" => v.sla \in {"OVERDUE", "MET"})
             \/ pc \in {"flag", "warn"} /\ v.todo \subseteq Cases
      PROVE  SlaInv'
  <2>1. req'[w].pc = pc /\ req'[w].v = v /\ \A x \in Workers \ {w} : req'[x] = req[x]
    BY <1>2, <1>4 DEF SlaPoints
  <2>2. SlaLocal(w)'
    BY <1>4, <2>1 DEF SlaLocal
  <2>3. SlaTypes' /\ \A e \in Cases : Advances(clock[e], clock'[e])
    BY <1>1, <1>4, SameAdvances DEF slaVars, SlaTypes
  <2> QED BY <1>4, <2>1, <2>2, <2>3, SlaQuietStep DEF slaVars
<1>5. ASSUME NEW d \in Cases, Decide(w, d) PROVE SlaInv'
  <2>1. PICK v : v = [d |-> d, appeal |-> clock[d].stage = 3, sla |-> CompletionStatus(clock[d])]
    OBVIOUS
  <2>2. v.d \in Cases /\ v.sla \in {"OVERDUE", "MET"}
    BY <2>1 DEF CompletionStatus
  <2>3. Call(w, "decide", "decided", v) /\ UNCHANGED slaVars
    BY <1>5, <2>1 DEF Decide
  <2> QED BY <1>4, <2>2, <2>3
<1>6. ASSUME NEW d \in Cases, OpenAppeal(w, d) PROVE SlaInv'
  <2>1. Call(w, "appeal", "appeal", [d |-> d]) /\ UNCHANGED slaVars
    BY <1>6 DEF OpenAppeal
  <2> QED BY <1>4, <2>1
<1>7. CASE FlagOverdueDisputes(w)
  <2>1. Call(w, "sla", "flag", [todo |-> Overdue]) /\ UNCHANGED slaVars /\ Overdue \subseteq Cases
    BY <1>7 DEF FlagOverdueDisputes, Overdue
  <2> QED BY <1>4, <2>1
<1>8. CASE NotifyEvidenceDeadlinesClosing(w)
  <2>1. Call(w, "evidence", "warn", [todo |-> ClosingSoon]) /\ UNCHANGED slaVars /\ ClosingSoon \subseteq Cases
    BY <1>8 DEF NotifyEvidenceDeadlinesClosing, ClosingSoon
  <2> QED BY <1>4, <2>1
<1> QED BY <1>3, <1>5, <1>6, <1>7, <1>8

\* The steps of requests after the first.
LEMMA SlaRequests ==
    ASSUME Control, SlaInv, NEW w \in Workers,
           AutoAssign(w) \/ WriteArbiter(w) \/ WriteDecision(w) \/ WriteAppeal(w) \/ FlaggedAll(w) \/ WarnedAll(w)
    PROVE  SlaInv'
<1>1. ReqOK /\ SlaTypes /\ SlaLocal(w)
  BY DEF Control, SlaInv
<1>2. \A x \in Workers \ {w} : req'[x] = req[x]
  BY <1>1, SlaOthers DEF AutoAssign, WriteArbiter, WriteDecision, WriteAppeal, FlaggedAll, WarnedAll, End, Goto
<1>3. ASSUME UNCHANGED slaVars, SlaLocal(w)', req'[w].pc \notin {"tell", "warnParties"} PROVE SlaInv'
  <2>1. SlaTypes' /\ \A e \in Cases : Advances(clock[e], clock'[e])
    BY <1>1, <1>3, SameAdvances DEF slaVars, SlaTypes
  <2> QED BY <1>2, <1>3, <2>1, SlaQuietStep DEF slaVars
<1>4. ASSUME NEW from, End(w, from), from \in SlaPoints PROVE SlaLocal(w)' /\ req'[w].pc \notin {"tell", "warnParties"}
  <2>a. from # "idle"
    BY <1>4 DEF SlaPoints
  <2>1. Steps(SlaPoints) /\ req'[w] = Idle
    BY <1>1, <1>4, <2>a, EndSteps
  <2> QED BY <2>1, IdleEntry DEF SlaLocal
<1>5. ASSUME NEW d \in Cases, NEW r \in Case, Advances(clock[d], r), Writes(d, r), NEW from, End(w, from), from \in SlaPoints
      PROVE  SlaInv'
  <2>1. SlaTypes' /\ (\A e \in Cases : Advances(clock[e], clock'[e])) /\ escalated' = escalated /\ warned' = warned
    BY <1>1, <1>5, WriteAdvances DEF Writes
  <2>2. SlaLocal(w)' /\ req'[w].pc \notin {"tell", "warnParties"}
    BY <1>4, <1>5
  <2> QED BY <1>2, <2>1, <2>2, SlaQuietStep
<1>a. {"assign", "assigned", "decided", "appeal", "flag", "warn"} \subseteq SlaPoints
  BY DEF SlaPoints
<1>6. CASE AutoAssign(w)
  <2>1. UNCHANGED slaVars
    BY <1>6 DEF AutoAssign
  <2>2. CASE End(w, "assign")
    BY <1>3, <1>4, <1>a, <2>1, <2>2
  <2>3. CASE Goto(w, "assign", "assigned")
    <3>1. Steps(SlaPoints) /\ req[w].pc = "assign" /\ req'[w].pc = "assigned" /\ req'[w].v = req[w].v
      BY <1>1, <2>3, GotoSteps DEF SlaPoints
    <3>2. SlaLocal(w)' /\ req'[w].pc \notin {"tell", "warnParties"}
      BY <1>1, <3>1 DEF SlaLocal
    <3> QED BY <1>3, <2>1, <3>2
  <2> QED BY <1>6, <2>2, <2>3 DEF AutoAssign
<1>7. CASE WriteArbiter(w)
  <2>1. PICK d : d = req[w].v.d
    OBVIOUS
  <2>2. d \in Cases /\ End(w, "assigned")
    BY <1>1, <1>7, <2>1 DEF WriteArbiter, SlaLocal, End, Become, At
  <2>3. clock[d] \in Case
    BY <1>1, <2>2 DEF SlaTypes
  <2>4. CASE UNCHANGED slaVars
    BY <1>3, <1>4, <1>a, <2>2, <2>4
  <2>5. CASE ~UNCHANGED slaVars
    <3>0. PICK s : s = StageFields(clock[d], 2)
      OBVIOUS
    <3>1. PICK r : r = [s EXCEPT !.assigned = TRUE]
      OBVIOUS
    <3>2. Writes(d, r)
      BY <1>7, <2>1, <2>5, <3>0, <3>1 DEF WriteArbiter, Local
    <3>3. s \in Case /\ s.starts = clock[d].starts + 1 /\ s.warnedAt = clock[d].warnedAt
      BY <2>3, <3>0, StageStarts
    <3>4. r \in Case /\ r.starts = clock[d].starts + 1 /\ r.warnedAt = clock[d].warnedAt
      BY <3>1, <3>3 DEF Case
    <3> QED BY <1>5, <1>a, <2>2, <2>3, <3>2, <3>4, StageAdvances
  <2> QED BY <2>4, <2>5
<1>8. CASE WriteAppeal(w)
  <2>1. PICK d : d = req[w].v.d
    OBVIOUS
  <2>2. d \in Cases /\ End(w, "appeal")
    BY <1>1, <1>8, <2>1 DEF WriteAppeal, SlaLocal, End, Become, At
  <2>3. clock[d] \in Case
    BY <1>1, <2>2 DEF SlaTypes
  <2>4. CASE UNCHANGED slaVars
    BY <1>3, <1>4, <1>a, <2>2, <2>4
  <2>5. CASE ~UNCHANGED slaVars
    <3>1. PICK found \in BOOLEAN : Writes(d, [StageFields(clock[d], 3) EXCEPT !.assigned = found, !.appeal = "open"])
      BY <1>8, <2>1, <2>5 DEF WriteAppeal, Local
    <3>0. PICK s : s = StageFields(clock[d], 3)
      OBVIOUS
    <3>2. PICK r : r = [s EXCEPT !.assigned = found, !.appeal = "open"]
      OBVIOUS
    <3>3. s \in Case /\ s.starts = clock[d].starts + 1 /\ s.warnedAt = clock[d].warnedAt
      BY <2>3, <3>0, StageStarts
    <3>4. r \in Case /\ r.starts = clock[d].starts + 1 /\ r.warnedAt = clock[d].warnedAt
      BY <3>2, <3>3 DEF Case
    <3> QED BY <1>5, <1>a, <2>2, <2>3, <3>0, <3>1, <3>2, <3>4, StageAdvances
  <2> QED BY <2>4, <2>5
<1>9. CASE WriteDecision(w)
  <2>1. PICK v : v = req[w].v
    OBVIOUS
  <2>2. v.d \in Cases /\ v.sla \in {"OVERDUE", "MET"} /\ End(w, "decided")
    BY <1>1, <1>9, <2>1 DEF WriteDecision, SlaLocal, End, Become, At
  <2>3. clock[v.d] \in Case
    BY <1>1, <2>2 DEF SlaTypes
  <2>4. CASE UNCHANGED slaVars
    BY <1>3, <1>4, <1>a, <2>2, <2>4
  <2>5. CASE ~UNCHANGED slaVars
    <3>0. PICK o : o = clock[v.d]
      OBVIOUS
    <3>1. PICK r : r = [o EXCEPT !.status = "resolved", !.sla = v.sla, !.appeal = IF v.appeal THEN "decided" ELSE @]
      OBVIOUS
    <3>2. Writes(v.d, r)
      BY <1>9, <2>1, <2>5, <3>0, <3>1 DEF WriteDecision, Local
    <3>3. r \in Case /\ r.starts = o.starts /\ r.warnedAt = o.warnedAt /\ r.sla # "ON_TRACK"
      BY <2>2, <2>3, <3>0, <3>1 DEF Case
    <3>4. o.starts \in Nat
      BY <2>3, <3>0 DEF Case
    <3>5. Advances(o, r)
      BY <3>3, <3>4 DEF Advances
    <3> QED BY <1>5, <1>a, <2>2, <3>0, <3>2, <3>3, <3>5
  <2> QED BY <2>4, <2>5
<1>10. CASE FlaggedAll(w) \/ WarnedAll(w)
  <2>1. UNCHANGED slaVars /\ (End(w, "flag") \/ End(w, "warn"))
    BY <1>10 DEF FlaggedAll, WarnedAll
  <2> QED BY <1>3, <1>4, <1>a, <2>1
<1> QED BY <1>6, <1>7, <1>8, <1>9, <1>10

\* Going on to the next statement.
LEMMA SlaGoes ==
    ASSUME ReqOK, NEW w \in Workers, NEW from, NEW to, NEW v, GotoWith(w, from, to, v),
           from \in SlaPoints, to \in SlaPoints
    PROVE  /\ req[w].pc = from /\ req'[w].pc = to /\ req'[w].v = v
           /\ \A x \in Workers \ {w} : req'[x] = req[x]
<1>1. from # "idle"
  BY DEF SlaPoints
<1>2. Steps(SlaPoints) /\ req[w].pc = from /\ req'[w].pc = to /\ req'[w].v = v
  BY <1>1, GotoWithSteps
<1> QED BY <1>2, SlaOthers DEF GotoWith

\* Who wins the conditional update is about to tell of a clock nobody told of.
LEMMA FlagOneKeeps ==
    ASSUME Control, SlaInv, NEW w \in Workers, FlagOne(w)
    PROVE  SlaInv'
<1>1. ReqOK /\ SlaTypes /\ SlaLocal(w) /\ req[w].pc = "flag" /\ escalated' = escalated /\ warned' = warned
  BY DEF Control, SlaInv, FlagOne, At
<1>2. PICK v : v = req[w].v
  OBVIOUS
<1>3. PICK d \in v.todo :
        IF Flag(d)
        THEN /\ GotoWith(w, "flag", "tell", [todo |-> v.todo \ {d}, told |-> <<d, clock[d].starts>>])
             /\ clock' = [clock EXCEPT ![d].sla = "OVERDUE"]
        ELSE GotoWith(w, "flag", "flag", [todo |-> v.todo \ {d}]) /\ UNCHANGED clock
  BY <1>2 DEF FlagOne, Local
<1>4. v.todo \subseteq Cases /\ d \in Cases /\ clock[d] \in Case
  BY <1>1, <1>2, <1>3 DEF SlaLocal, SlaTypes
<1>5. CASE ~Flag(d)
  <2>1. req'[w].pc = "flag" /\ req'[w].v = [todo |-> v.todo \ {d}] /\ \A x \in Workers \ {w} : req'[x] = req[x]
    BY <1>1, <1>3, <1>5, SlaGoes DEF SlaPoints
  <2>2. SlaLocal(w)'
    BY <1>4, <2>1 DEF SlaLocal
  <2>3. SlaTypes' /\ \A e \in Cases : Advances(clock[e], clock'[e])
    BY <1>1, <1>3, <1>5, SameAdvances DEF SlaTypes
  <2> QED BY <1>1, <2>1, <2>2, <2>3, SlaQuietStep
<1>6. CASE Flag(d)
  <2>1. PICK told : told = <<d, clock[d].starts>>
    OBVIOUS
  <2>2. PICK u : u = [todo |-> v.todo \ {d}, told |-> told]
    OBVIOUS
  <2>3. GotoWith(w, "flag", "tell", u) /\ clock' = [clock EXCEPT ![d].sla = "OVERDUE"]
    BY <1>3, <1>6, <2>1, <2>2
  <2>4. req'[w].pc = "tell" /\ req'[w].v = u /\ \A x \in Workers \ {w} : req'[x] = req[x]
    BY <1>1, <2>3, SlaGoes DEF SlaPoints
  <2>5. PICK r : r = [clock[d] EXCEPT !.sla = "OVERDUE"]
    OBVIOUS
  <2>6. clock' = [clock EXCEPT ![d] = r]
    BY <2>3, <2>5
  <2>7. r \in Case /\ r.starts = clock[d].starts /\ r.warnedAt = clock[d].warnedAt /\ r.sla = "OVERDUE"
    BY <1>4, <2>5 DEF Case
  <2>8. clock[d].starts \in Nat /\ clock[d].sla = "ON_TRACK"
    BY <1>4, <1>6 DEF Case, Flag
  <2>9. Advances(clock[d], r)
    BY <2>7, <2>8 DEF Advances
  <2>10. SlaTypes' /\ \A e \in Cases : Advances(clock[e], clock'[e])
    BY <1>1, <1>4, <2>6, <2>7, <2>9, WriteAdvances
  <2>11. clock'[d] = r
    BY <1>1, <1>4, <2>6 DEF SlaTypes
  <2>12. Past(told)'
    BY <1>4, <2>1, <2>7, <2>8, <2>11 DEF Past
  <2>13. ASSUME NEW t, Past(t) PROVE t # told
    BY <2>1, <2>8, <2>13 DEF Past
  <2>14. EscalatedOK'
    BY <1>1, <2>10, PastKept DEF SlaInv, EscalatedOK
  <2>15. \A c \in Cases : clock[c].warnedAt # 0 => clock'[c].warnedAt # 0
    BY <2>10 DEF Advances
  <2>16. WarnedOK'
    BY <1>1, <2>15 DEF SlaInv, WarnedOK
  <2>17. \A i \in 1..Len(escalated) : escalated[i] # told
    BY <2>13 DEF SlaInv, EscalatedOK
  <2>18. \A x \in Workers : req[x].pc = "tell" => req[x].v.told # told
    BY <2>13 DEF SlaInv, Telling
  <2>19. ASSUME NEW x \in Workers PROVE SlaLocal(x)' /\ Telling(x)' /\ Warning(x)'
    <3>1. CASE x = w
      <4>1. SlaLocal(x)'
        BY <1>4, <2>2, <2>4, <3>1 DEF SlaLocal
      <4>2. u.told = told
        BY <2>2
      <4>3. Past(req[x].v.told)'
        BY <2>4, <2>12, <3>1, <4>2 DEF Past
      <4>4. Telling(x)'
        BY <1>1, <2>4, <2>17, <2>18, <3>1, <4>2, <4>3 DEF Telling
      <4> QED BY <2>4, <3>1, <4>1, <4>4 DEF Warning
    <3>2. CASE x # w
      <4>1. req'[x] = req[x] /\ SlaLocal(x) /\ Telling(x) /\ Warning(x)
        BY <2>4, <3>2 DEF SlaInv
      <4>2. SlaLocal(x)'
        BY <4>1 DEF SlaLocal
      <4>3. Telling(x)'
        <5>1. SUFFICES ASSUME req[x].pc = "tell" PROVE Telling(x)'
          BY <4>1 DEF Telling
        <5>2. PICK t : t = req[x].v.told
          OBVIOUS
        <5>3. Past(t)' /\ t # told
          BY <1>1, <2>10, <2>18, <4>1, <5>1, <5>2, PastKept DEF Telling
        <5>4. Past(req[x].v.told)'
          BY <4>1, <5>2, <5>3 DEF Past
        <5>5. req'[w].v.told = told
          BY <2>2, <2>4
        <5> QED BY <1>1, <2>4, <4>1, <5>1, <5>2, <5>3, <5>4, <5>5 DEF Telling
      <4>4. Warning(x)'
        <5>1. SUFFICES ASSUME req[x].pc = "warnParties" PROVE Warning(x)'
          BY <4>1 DEF Warning
        <5>2. req[x].v.d \in Cases
          BY <4>1, <5>1 DEF SlaLocal
        <5>3. clock'[req[x].v.d].warnedAt # 0
          BY <2>15, <4>1, <5>1, <5>2 DEF Warning
        <5> QED BY <1>1, <2>4, <4>1, <5>1, <5>3 DEF Warning
      <4> QED BY <4>2, <4>3, <4>4
    <3> QED BY <3>1, <3>2
  <2> QED BY <2>10, <2>14, <2>16, <2>19 DEF SlaInv
<1> QED BY <1>5, <1>6

\* The administrators are told of an end that is flagged already.
LEMMA TellAdminsKeeps ==
    ASSUME Control, SlaInv, NEW w \in Workers, TellAdmins(w)
    PROVE  SlaInv'
<1>1. ReqOK /\ SlaTypes /\ SlaLocal(w) /\ clock' = clock /\ warned' = warned
  BY DEF Control, SlaInv, TellAdmins
<1>2. PICK v : v = req[w].v
  OBVIOUS
<1>3. GotoWith(w, "tell", "flag", [todo |-> v.todo]) /\ escalated' = Append(escalated, v.told)
  BY <1>2 DEF TellAdmins, Local
<1>4. req[w].pc = "tell" /\ req'[w].pc = "flag" /\ req'[w].v = [todo |-> v.todo] /\ \A x \in Workers \ {w} : req'[x] = req[x]
  BY <1>1, <1>3, SlaGoes DEF SlaPoints
<1>5. Past(v.told) /\ \A i \in 1..Len(escalated) : escalated[i] # v.told
  BY <1>2, <1>4 DEF SlaInv, Telling
<1>6. PICK n \in Nat : n = Len(escalated)
  BY <1>1 DEF SlaTypes
<1>7. PICK longer : longer = escalated'
  OBVIOUS
<1>8. /\ longer \in Seq(Cases \X Nat) /\ Len(longer) = n + 1 /\ longer[n + 1] = v.told
      /\ \A i \in 1..n : longer[i] = escalated[i]
  BY <1>1, <1>3, <1>5, <1>6, <1>7 DEF SlaTypes, Past
<1>9. SlaTypes'
  BY <1>1, <1>7, <1>8 DEF SlaTypes
<1>10. ASSUME NEW t PROVE Past(t)' <=> Past(t)
  BY <1>1 DEF Past
<1>11. EscalatedOK'
  <2>1. ASSUME NEW i \in 1..(n + 1) PROVE Past(longer[i])
    BY <1>5, <1>6, <1>8 DEF SlaInv, EscalatedOK
  <2>2. ASSUME NEW i \in 1..(n + 1), NEW j \in 1..(n + 1), longer[i] = longer[j] PROVE i = j
    <3>1. ASSUME NEW a \in 1..n, NEW b \in 1..n, longer[a] = longer[b] PROVE a = b
      BY <1>6, <1>8, <3>1 DEF SlaInv, EscalatedOK
    <3>2. ASSUME NEW a \in 1..n PROVE longer[a] # longer[n + 1]
      BY <1>5, <1>6, <1>8
    <3> QED BY <2>2, <3>1, <3>2
  <2>3. \A i \in 1..Len(escalated') : Past(escalated'[i])
    BY <1>7, <1>8, <2>1
  <2>4. \A i, j \in 1..Len(escalated') : escalated'[i] = escalated'[j] => i = j
    BY <1>7, <1>8, <2>2
  <2>5. \A i \in 1..Len(escalated') : Past(escalated[i])'
    BY <1>1, <2>3 DEF Past
  <2> QED BY <2>4, <2>5 DEF EscalatedOK
<1>12. WarnedOK'
  BY <1>1 DEF SlaInv, WarnedOK
<1>13. ASSUME NEW x \in Workers PROVE SlaLocal(x)' /\ Telling(x)' /\ Warning(x)'
  <2>1. CASE x = w
    BY <1>1, <1>2, <1>4, <2>1 DEF SlaLocal, Telling, Warning
  <2>2. CASE x # w
    <3>1. req'[x] = req[x] /\ SlaLocal(x) /\ Telling(x) /\ Warning(x)
      BY <1>4, <2>2 DEF SlaInv
    <3>2. SlaLocal(x)' /\ Warning(x)'
      BY <1>1, <1>4, <3>1 DEF SlaLocal, Warning
    <3>3. Telling(x)'
      <4>1. SUFFICES ASSUME req[x].pc = "tell" PROVE Telling(x)'
        BY <3>1 DEF Telling
      <4>2. PICK t : t = req[x].v.told
        OBVIOUS
      <4>3. Past(t) /\ (\A i \in 1..n : escalated[i] # t) /\ t # v.told
        BY <1>2, <1>4, <1>6, <2>2, <3>1, <4>1, <4>2 DEF Telling
      <4>4. \A i \in 1..Len(longer) : longer[i] # t
        BY <1>8, <4>3
      <4>5. Past(req[x].v.told)'
        BY <1>1, <3>1, <4>2, <4>3 DEF Past
      <4> QED BY <1>4, <1>7, <3>1, <4>1, <4>2, <4>4, <4>5 DEF Telling
    <3> QED BY <3>2, <3>3
  <2> QED BY <2>1, <2>2
<1> QED BY <1>9, <1>11, <1>12, <1>13 DEF SlaInv

\* Who wins the warning's update finds parties that nobody warned.
LEMMA WarnOneKeeps ==
    ASSUME Control, SlaInv, NEW w \in Workers, WarnOne(w)
    PROVE  SlaInv'
<1>1. ReqOK /\ SlaTypes /\ SlaLocal(w) /\ req[w].pc = "warn" /\ escalated' = escalated /\ warned' = warned
  BY DEF Control, SlaInv, WarnOne, At
<1>2. PICK v : v = req[w].v
  OBVIOUS
<1>3. PICK d \in v.todo :
        IF clock[d].warnedAt = 0
        THEN /\ GotoWith(w, "warn", "warnParties", [todo |-> v.todo \ {d}, d |-> d])
             /\ clock' = [clock EXCEPT ![d].warnedAt = now]
        ELSE GotoWith(w, "warn", "warn", [todo |-> v.todo \ {d}]) /\ UNCHANGED clock
  BY <1>2 DEF WarnOne, Local
<1>4. v.todo \subseteq Cases /\ d \in Cases /\ clock[d] \in Case
  BY <1>1, <1>2, <1>3 DEF SlaLocal, SlaTypes
<1>5. CASE clock[d].warnedAt # 0
  <2>1. req'[w].pc = "warn" /\ req'[w].v = [todo |-> v.todo \ {d}] /\ \A x \in Workers \ {w} : req'[x] = req[x]
    BY <1>1, <1>3, <1>5, SlaGoes DEF SlaPoints
  <2>2. SlaLocal(w)'
    BY <1>4, <2>1 DEF SlaLocal
  <2>3. SlaTypes' /\ \A e \in Cases : Advances(clock[e], clock'[e])
    BY <1>1, <1>3, <1>5, SameAdvances DEF SlaTypes
  <2> QED BY <1>1, <2>1, <2>2, <2>3, SlaQuietStep
<1>6. CASE clock[d].warnedAt = 0
  <2>1. PICK u : u = [todo |-> v.todo \ {d}, d |-> d]
    OBVIOUS
  <2>3. GotoWith(w, "warn", "warnParties", u) /\ clock' = [clock EXCEPT ![d].warnedAt = now]
    BY <1>3, <1>6, <2>1
  <2>4. req'[w].pc = "warnParties" /\ req'[w].v = u /\ \A x \in Workers \ {w} : req'[x] = req[x]
    BY <1>1, <2>3, SlaGoes DEF SlaPoints
  <2>5. PICK r : r = [clock[d] EXCEPT !.warnedAt = now]
    OBVIOUS
  <2>6. clock' = [clock EXCEPT ![d] = r]
    BY <2>3, <2>5
  <2>7. now \in Nat \ {0}
    BY DEF Control
  <2>8. r \in Case /\ r.starts = clock[d].starts /\ r.warnedAt # 0 /\ r.sla = clock[d].sla
    BY <1>4, <2>5, <2>7 DEF Case
  <2>9. clock[d].starts \in Nat
    BY <1>4 DEF Case
  <2>10. Advances(clock[d], r)
    BY <2>8, <2>9 DEF Advances
  <2>11. SlaTypes' /\ \A e \in Cases : Advances(clock[e], clock'[e])
    BY <1>1, <1>4, <2>6, <2>8, <2>10, WriteAdvances
  <2>12. clock'[d] = r /\ warned[d] = 0
    BY <1>1, <1>4, <1>6, <2>6 DEF SlaTypes, SlaInv, WarnedOK
  <2>13. ASSUME NEW x \in Workers, req[x].pc = "warnParties" PROVE req[x].v.d # d /\ req[x].v.d \in Cases
    BY <1>6, <2>13 DEF SlaInv, Warning, SlaLocal
  <2>14. EscalatedOK'
    BY <1>1, <2>11, PastKept DEF SlaInv, EscalatedOK
  <2>15. \A c \in Cases : clock[c].warnedAt # 0 => clock'[c].warnedAt # 0
    BY <2>11 DEF Advances
  <2>16. WarnedOK'
    BY <1>1, <2>15 DEF SlaInv, WarnedOK
  <2>17. ASSUME NEW x \in Workers PROVE SlaLocal(x)' /\ Telling(x)' /\ Warning(x)'
    <3>1. CASE x = w
      <4>1. u.d = d /\ u.todo \subseteq Cases
        BY <1>4, <2>1
      <4>2. SlaLocal(x)' /\ Telling(x)'
        BY <1>4, <2>4, <3>1, <4>1 DEF SlaLocal, Telling
      <4>3. Warning(x)'
        BY <1>1, <2>4, <2>8, <2>12, <2>13, <3>1, <4>1 DEF Warning
      <4> QED BY <4>2, <4>3
    <3>2. CASE x # w
      <4>1. req'[x] = req[x] /\ SlaLocal(x) /\ Telling(x) /\ Warning(x)
        BY <2>4, <3>2 DEF SlaInv
      <4>2. SlaLocal(x)'
        BY <4>1 DEF SlaLocal
      <4>3. Telling(x)'
        <5>1. SUFFICES ASSUME req[x].pc = "tell" PROVE Telling(x)'
          BY <4>1 DEF Telling
        <5>2. PICK t : t = req[x].v.told
          OBVIOUS
        <5>3. Past(t)'
          BY <1>1, <2>11, <4>1, <5>1, <5>2, PastKept DEF Telling
        <5>4. Past(req[x].v.told)'
          BY <4>1, <5>2, <5>3 DEF Past
        <5> QED BY <1>1, <2>4, <4>1, <5>1, <5>4 DEF Telling
      <4>4. Warning(x)'
        <5>1. SUFFICES ASSUME req[x].pc = "warnParties" PROVE Warning(x)'
          BY <4>1 DEF Warning
        <5>2. req[x].v.d \in Cases /\ req[x].v.d # d
          BY <2>13, <5>1
        <5>3. clock'[req[x].v.d].warnedAt # 0
          BY <2>15, <4>1, <5>1, <5>2 DEF Warning
        <5>4. req'[w].v.d = d
          BY <2>1, <2>4
        <5> QED BY <1>1, <2>4, <4>1, <5>1, <5>2, <5>3, <5>4 DEF Warning
      <4> QED BY <4>2, <4>3, <4>4
    <3> QED BY <3>1, <3>2
  <2> QED BY <2>11, <2>14, <2>16, <2>17 DEF SlaInv
<1> QED BY <1>5, <1>6

\* The parties are warned after the row says so.
LEMMA WarnPartiesKeeps ==
    ASSUME Control, SlaInv, NEW w \in Workers, WarnParties(w)
    PROVE  SlaInv'
<1>1. ReqOK /\ SlaTypes /\ SlaLocal(w) /\ clock' = clock /\ escalated' = escalated
  BY DEF Control, SlaInv, WarnParties
<1>2. PICK v : v = req[w].v
  OBVIOUS
<1>3. GotoWith(w, "warnParties", "warn", [todo |-> v.todo]) /\ warned' = [warned EXCEPT ![v.d] = @ + 1]
  BY <1>2 DEF WarnParties, Local
<1>4. req[w].pc = "warnParties" /\ req'[w].pc = "warn" /\ req'[w].v = [todo |-> v.todo] /\ \A x \in Workers \ {w} : req'[x] = req[x]
  BY <1>1, <1>3, SlaGoes DEF SlaPoints
<1>5. v.d \in Cases /\ v.todo \subseteq Cases /\ clock[v.d].warnedAt # 0 /\ warned[v.d] = 0
  BY <1>1, <1>2, <1>4 DEF SlaInv, Warning, SlaLocal
<1>6. /\ warned' \in [Cases -> Nat] /\ warned'[v.d] = 1
      /\ \A d \in Cases : d # v.d => warned'[d] = warned[d]
  BY <1>1, <1>3, <1>5 DEF SlaTypes
<1>7. SlaTypes'
  BY <1>1, <1>6 DEF SlaTypes
<1>8. ASSUME NEW t PROVE Past(t)' <=> Past(t)
  BY <1>1 DEF Past
<1>9. EscalatedOK'
  BY <1>1, <1>8 DEF SlaInv, EscalatedOK
<1>10. WarnedOK'
  <2>1. ASSUME NEW d \in Cases PROVE warned'[d] <= 1 /\ (clock[d].warnedAt = 0 => warned'[d] = 0)
    <3>1. CASE d = v.d
      BY <1>5, <1>6, <3>1
    <3>2. CASE d # v.d
      BY <1>6, <3>2 DEF SlaInv, WarnedOK
    <3> QED BY <3>1, <3>2
  <2> QED BY <1>1, <2>1 DEF WarnedOK
<1>11. ASSUME NEW x \in Workers PROVE SlaLocal(x)' /\ Telling(x)' /\ Warning(x)'
  <2>1. CASE x = w
    BY <1>4, <1>5, <2>1 DEF SlaLocal, Telling, Warning
  <2>2. CASE x # w
    <3>1. req'[x] = req[x] /\ SlaLocal(x) /\ Telling(x) /\ Warning(x)
      BY <1>4, <2>2 DEF SlaInv
    <3>2. SlaLocal(x)'
      BY <3>1 DEF SlaLocal
    <3>3. Telling(x)'
      <4>1. SUFFICES ASSUME req[x].pc = "tell" PROVE Telling(x)'
        BY <3>1 DEF Telling
      <4>2. Past(req[x].v.told)'
        BY <1>1, <3>1, <4>1 DEF Telling, Past
      <4> QED BY <1>1, <1>4, <3>1, <4>1, <4>2 DEF Telling
    <3>4. Warning(x)'
      <4>1. SUFFICES ASSUME req[x].pc = "warnParties" PROVE Warning(x)'
        BY <3>1 DEF Warning
      <4>2. req[x].v.d \in Cases /\ req[x].v.d # v.d
        BY <1>2, <1>4, <2>2, <3>1, <4>1 DEF SlaLocal, Warning
      <4>3. warned'[req[x].v.d] = 0
        BY <1>6, <3>1, <4>1, <4>2 DEF Warning
      <4> QED BY <1>1, <1>4, <3>1, <4>1, <4>3 DEF Warning
    <3> QED BY <3>2, <3>3, <3>4
  <2> QED BY <2>1, <2>2
<1> QED BY <1>7, <1>9, <1>10, <1>11 DEF SlaInv

\* Every step keeps the invariant of the clocks.
LEMMA SlaNextInv ==
    ASSUME Control, SlaInv, [Next]_serviceVars
    PROVE  SlaInv'
<1>1. CASE Elsewhere(SlaPoints) /\ UNCHANGED slaVars
  <2>1. UNCHANGED <<clock, escalated, warned>> /\ \A w \in Workers : req'[w] = req[w] \/ req'[w].pc \notin SlaPoints
    BY <1>1 DEF Elsewhere, slaVars
  <2>2. SlaTypes' /\ WarnedOK'
    BY <2>1 DEF SlaInv, SlaTypes, WarnedOK
  <2>3. ASSUME NEW t PROVE Past(t)' <=> Past(t)
    BY <2>1 DEF Past
  <2>4. EscalatedOK'
    BY <2>1, <2>3 DEF SlaInv, EscalatedOK
  <2>5. ASSUME NEW w \in Workers PROVE SlaLocal(w)' /\ Telling(w)' /\ Warning(w)'
    <3>1. CASE req'[w].pc \notin SlaPoints
      BY <3>1 DEF SlaLocal, Telling, Warning, SlaPoints
    <3>2. CASE req'[w] = req[w]
      <4>1. SlaLocal(w) /\ Telling(w) /\ Warning(w)
        BY DEF SlaInv
      <4>2. SlaLocal(w)'
        BY <3>2, <4>1 DEF SlaLocal
      <4>3. req[w].pc = "tell" => Past(req[w].v.told)'
        BY <2>1, <3>2, <4>1 DEF Telling, Past
      <4>4. Telling(w)'
        BY <2>1, <3>2, <4>1, <4>3 DEF Telling, SlaPoints
      <4>5. Warning(w)'
        BY <2>1, <3>2, <4>1 DEF Warning, SlaPoints
      <4> QED BY <4>2, <4>4, <4>5
    <3> QED BY <2>1, <3>1, <3>2
  <2> QED BY <2>2, <2>4, <2>5 DEF SlaInv
<1>2. CASE DisputeSlaNext
  BY <1>2, SlaTakes, SlaRequests, FlagOneKeeps, TellAdminsKeeps, WarnOneKeeps, WarnPartiesKeeps DEF DisputeSlaNext
<1> QED BY <1>1, <1>2, SlaMoves

\* At the start no clock runs.
LEMMA SlaStart == ASSUME Init PROVE SlaInv
<1>1. clock = [d \in Cases |-> NoCase] /\ escalated = <<>> /\ warned = [d \in Cases |-> 0]
      /\ \A w \in Workers : req[w].pc = "idle"
  BY IdleEntry DEF Init, DisputeSlaInit, ControlInit
<1>2. NoCase \in Case
  BY DEF NoCase, Case
<1>3. SlaTypes
  BY <1>1, <1>2 DEF SlaTypes
<1>4. EscalatedOK /\ WarnedOK
  BY <1>1 DEF EscalatedOK, WarnedOK
<1> QED BY <1>1, <1>3, <1>4 DEF SlaInv, SlaLocal, Telling, Warning

\* The end of each clock of a dispute is escalated to the administrators at most
\* once, and its parties are warned at most once, for any number of overlapping
\* runs of the two jobs (DisputeSlaService.flagOverdueDisputes,
\* notifyEvidenceDeadlinesClosing), and of requests that write from stale reads.
THEOREM EscalatesOnce == Spec => []EscalatedOnce
<1> DEFINE Inv == Control /\ SlaInv
<1>1. Init => Inv
  BY ControlStart, SlaStart
<1>2. Inv /\ [Next]_serviceVars => Inv'
  BY ControlNext, SlaNextInv
<1>3. Inv => EscalatedOnce
  <2>1. SUFFICES ASSUME SlaInv PROVE EscalatedOnce
    OBVIOUS
  <2>2. DOMAIN escalated = 1..Len(escalated)
    BY <2>1 DEF SlaInv, SlaTypes
  <2> QED BY <2>1, <2>2 DEF SlaInv, EscalatedOK, WarnedOK, EscalatedOnce, IsInjective
<1> QED BY <1>1, <1>2, <1>3, PTL DEF Spec

(***************************************************************************)
(* The keys of repeated POSTs                                              *)
(***************************************************************************)

\* A step of the idempotency keys, or one elsewhere.
LEMMA IdempotencyMoves ==
    ASSUME Control, [Next]_serviceVars
    PROVE  \/ IdempotencyNext /\ Steps(IdempotencyPoints)
           \/ Elsewhere(IdempotencyPoints) /\ UNCHANGED idempotencyVars
<1>1. CASE UNCHANGED serviceVars
  BY <1>1, ElsewhereSame DEF serviceVars
<1>2. CASE (\E t \in scope.times : Later(t)) /\ UNCHANGED idempotencyVars
  BY <1>2, LaterElsewhere
<1>3. ASSUME NEW M, M \in {AccountsPoints, CompaniesPoints, SlaPoints, DeliveriesPoints, CreditPoints,
                          FilesPoints, SponsorPoints, {}}, Steps(M)
      PROVE  Elsewhere(IdempotencyPoints)
  <2>1. IdempotencyPoints \cap (M \cup {"idle"}) = {}
    BY <1>3 DEF CreditPoints, AccountsPoints, CompaniesPoints, IdempotencyPoints, DeliveriesPoints, SlaPoints,
                FilesPoints, SponsorPoints
  <2> QED BY <1>3, <2>1, StepsElsewhere
<1>4. CASE (\E w \in Workers : Crash(w)) /\ UNCHANGED idempotencyVars
  BY <1>3, <1>4, CrashSteps DEF Control
<1> QED BY <1>1, <1>2, <1>3, <1>4, NextSteps

IdempotencyTypes == expiry \in [PostKeys -> Nat] /\ ran \in [PostKeys -> Seq(Nat)]

\* A worker's locals: the key whose handler it runs, and whose answer it stores.
KeyLocal(w) == req[w].pc \in {"handle", "store"} => req[w].v.k \in PostKeys

CalmPosts == {"overlap", "raised", "crash", "rpc"} \cap upset = {}

\* Every run of the key's handler is older than the life of an answer.
LongAgo(k) == \A i \in DOMAIN ran[k] : ran[k][i] + KeyTime <= now

\* The runs of a key's handler keep their distance, and every run that is not
\* long ago has its answer stored for the rest of that life, or about to be.
Spaced(k) == \A i, j \in DOMAIN ran[k] : i < j => ran[k][j] - ran[k][i] >= KeyTime
Answered(k) ==
    \A i \in DOMAIN ran[k] :
        /\ ran[k][i] <= now
        /\ \/ ran[k][i] + KeyTime <= now
           \/ ran[k][i] + KeyTime <= expiry[k]
           \/ \E w \in Workers : req[w].pc = "store" /\ req[w].v.k = k

IdempotencyInv ==
    /\ IdempotencyTypes /\ \A w \in Workers : KeyLocal(w)
    /\ CalmPosts => /\ \A k \in PostKeys : Spaced(k) /\ Answered(k)
                    /\ \A w \in Workers : req[w].pc = "handle" => LongAgo(req[w].v.k)

\* The steps of the other parts.
LEMMA PostsElsewhere ==
    ASSUME Control, IdempotencyInv, Elsewhere(IdempotencyPoints), UNCHANGED idempotencyVars
    PROVE  IdempotencyInv'
<1>1. expiry' = expiry /\ ran' = ran /\ IdempotencyTypes'
  BY DEF idempotencyVars, IdempotencyInv, IdempotencyTypes
<1>2. now \in Nat /\ now' \in Nat /\ now' >= now /\ KeyTime \in Nat /\ upset \subseteq upset'
  BY IdempotencyAssumption DEF Control, Elsewhere
<1>3. \A w \in Workers : req'[w].pc \in {"handle", "store"} => req'[w] = req[w]
  BY DEF Elsewhere, IdempotencyPoints
<1>4. \A w \in Workers : KeyLocal(w)'
  BY <1>3 DEF IdempotencyInv, KeyLocal
<1>5. ASSUME CalmPosts' PROVE CalmPosts /\ \A w \in Workers : req[w].pc = "store" => req'[w] = req[w]
  BY <1>2, <1>5 DEF CalmPosts, Elsewhere, IdempotencyPoints
<1>6. ASSUME CalmPosts', NEW k \in PostKeys PROVE (Spaced(k) /\ Answered(k))'
  <2>1. Spaced(k) /\ Answered(k)
    BY <1>5, <1>6 DEF IdempotencyInv
  <2>2. ran[k] \in Seq(Nat) /\ expiry[k] \in Nat
    BY <1>6 DEF IdempotencyInv, IdempotencyTypes
  <2>3. Spaced(k)'
    BY <1>1, <2>1 DEF Spaced
  <2>4. ASSUME NEW i \in DOMAIN ran[k]
        PROVE  ran[k][i] <= now' /\ (\/ ran[k][i] + KeyTime <= now'
                                     \/ ran[k][i] + KeyTime <= expiry[k]
                                     \/ \E w \in Workers : req'[w].pc = "store" /\ req'[w].v.k = k)
    <3>1. ran[k][i] \in Nat
      BY <2>2, <2>4
    <3>2. ran[k][i] <= now /\ (\/ ran[k][i] + KeyTime <= now
                               \/ ran[k][i] + KeyTime <= expiry[k]
                               \/ \E w \in Workers : req[w].pc = "store" /\ req[w].v.k = k)
      BY <2>1, <2>4 DEF Answered
    <3>3. (\E w \in Workers : req[w].pc = "store" /\ req[w].v.k = k) =>
              (\E w \in Workers : req'[w].pc = "store" /\ req'[w].v.k = k)
      BY <1>5, <1>6
    <3> QED BY <1>2, <3>1, <3>2, <3>3
  <2> QED BY <1>1, <2>3, <2>4 DEF Answered
<1>7. ASSUME CalmPosts', NEW w \in Workers, req'[w].pc = "handle" PROVE LongAgo(req[w].v.k)'
  <2>1. LongAgo(req[w].v.k) /\ req[w].v.k \in PostKeys
    BY <1>3, <1>5, <1>7 DEF IdempotencyInv, KeyLocal
  <2>2. ran[req[w].v.k] \in Seq(Nat)
    BY <2>1 DEF IdempotencyInv, IdempotencyTypes
  <2>3. PICK s : s = ran[req[w].v.k]
    OBVIOUS
  <2>4. s \in Seq(Nat) /\ \A i \in DOMAIN s : s[i] + KeyTime <= now
    BY <2>1, <2>2, <2>3 DEF LongAgo
  <2>5. \A i \in DOMAIN s : s[i] + KeyTime <= now'
    BY <1>2, <2>4
  <2>6. \A k \in PostKeys : (ran[k] = s => LongAgo(k)')
    BY <1>1, <2>5 DEF LongAgo
  <2>7. req'[w] = req[w] /\ req'[w].v.k \in PostKeys /\ ran[req'[w].v.k] = s
    BY <1>3, <1>7, <2>1, <2>3
  <2> QED BY <1>1, <2>5, <2>7 DEF LongAgo
<1> QED BY <1>1, <1>3, <1>4, <1>6, <1>7 DEF IdempotencyInv

\* Steps of this part leave the workers at handlers as they are, but the one that moves.
LEMMA PostsMove ==
    ASSUME Control, IdempotencyInv, NEW w \in Workers, now' = now, upset \subseteq upset',
           \A x \in Workers \ {w} : req'[x] = req[x],
           IdempotencyTypes', KeyLocal(w)',
           CalmPosts' => /\ \A k \in PostKeys : Spaced(k)' /\ Answered(k)'
                         /\ req'[w].pc = "handle" => LongAgo(req[w].v.k)'
                         /\ \A k \in PostKeys : ran'[k] = ran[k] \/ \A x \in Workers \ {w} : req[x].pc = "idle"
    PROVE  IdempotencyInv'
<1>1. \A x \in Workers : KeyLocal(x)'
  BY DEF IdempotencyInv, KeyLocal
<1>2. CalmPosts' => CalmPosts
  BY DEF CalmPosts
<1>3. ASSUME CalmPosts', NEW x \in Workers, req'[x].pc = "handle" PROVE LongAgo(req[x].v.k)'
  <2>1. CASE x = w
    BY <1>3, <2>1
  <2>2. CASE x # w
    <3>1. req'[x] = req[x] /\ req[x].v.k \in PostKeys /\ LongAgo(req[x].v.k)
      BY <1>2, <1>3, <2>2 DEF IdempotencyInv, KeyLocal
    <3>2. ran'[req[x].v.k] = ran[req[x].v.k]
      BY <1>3, <2>2, <3>1
    <3> QED BY <3>1, <3>2 DEF LongAgo
  <2> QED BY <2>1, <2>2
<1> QED BY <1>1, <1>3 DEF IdempotencyInv

\* A POST is taken up if its key has no live answer.
LEMMA PostKeeps ==
    ASSUME Control, IdempotencyInv, NEW w \in Workers, NEW k \in PostKeys, Post(w, k)
    PROVE  IdempotencyInv'
<1>1. CallNoting(w, "post", "handle", [k |-> k], {}) /\ expiry[k] <= now /\ expiry' = expiry /\ ran' = ran
  BY DEF Post, Call, idempotencyVars
<1>2. Steps(IdempotencyPoints) /\ req'[w] = [pc |-> "handle", op |-> "post", v |-> [k |-> k]] /\ req[w].pc = "idle"
  BY <1>1, CallSteps DEF Control, IdempotencyPoints
<1>3. now' = now /\ upset \subseteq upset' /\ IdempotencyTypes' /\ KeyLocal(w)'
      /\ \A x \in Workers \ {w} : req'[x] = req[x]
  BY <1>1, <1>2 DEF CallNoting, IdempotencyInv, IdempotencyTypes, KeyLocal, Control, ReqOK
<1>4. ASSUME CalmPosts' PROVE CalmPosts /\ Quiet
  BY <1>1, <1>4 DEF CallNoting, CalmPosts
<1>5. ASSUME CalmPosts', NEW c \in PostKeys PROVE Spaced(c)' /\ Answered(c)'
  <2>1. Spaced(c) /\ Answered(c)
    BY <1>4, <1>5 DEF IdempotencyInv
  <2>2. \A x \in Workers : req[x].pc = "idle"
    BY <1>4, <1>5 DEF Quiet, At
  <2> QED BY <1>1, <1>3, <2>1, <2>2 DEF Spaced, Answered
<1>6. ASSUME CalmPosts' PROVE LongAgo(k)'
  <2>1. Answered(k) /\ \A x \in Workers : req[x].pc = "idle"
    BY <1>4, <1>6 DEF IdempotencyInv, Quiet, At
  <2>2. ran[k] \in Seq(Nat) /\ expiry[k] \in Nat /\ now \in Nat /\ KeyTime \in Nat
    BY IdempotencyAssumption DEF IdempotencyInv, IdempotencyTypes, Control
  <2>3. ASSUME NEW i \in DOMAIN ran[k] PROVE ran[k][i] + KeyTime <= now
    <3>1. ran[k][i] \in Nat
      BY <2>2
    <3>2. ran[k][i] + KeyTime <= now \/ ran[k][i] + KeyTime <= expiry[k]
      BY <2>1 DEF Answered
    <3> QED BY <1>1, <2>2, <3>1, <3>2
  <2> QED BY <1>1, <1>3, <2>3 DEF LongAgo
<1>7. req'[w].v.k = k
  BY <1>2
<1> QED BY <1>1, <1>3, <1>5, <1>6, <1>7, PostsMove

\* The handler runs once more.
LEMMA HandleKeeps ==
    ASSUME Control, IdempotencyInv, NEW w \in Workers, Handle(w)
    PROVE  IdempotencyInv'
<1>1. PICK k : k = req[w].v.k
  OBVIOUS
<1>2. req[w].pc = "handle" /\ ran' = [ran EXCEPT ![k] = Append(@, now)] /\ expiry' = expiry /\ now' = now
      /\ upset \subseteq upset'
  BY <1>1 DEF Handle, Local, Goto, Become, FailTo, At
<1>3. k \in PostKeys /\ ran[k] \in Seq(Nat) /\ now \in Nat /\ KeyTime \in Nat /\ expiry[k] \in Nat
  BY <1>1, <1>2, IdempotencyAssumption DEF IdempotencyInv, KeyLocal, IdempotencyTypes, Control
<1>4. IdempotencyTypes' /\ ran'[k] = Append(ran[k], now) /\ \A c \in PostKeys \ {k} : ran'[c] = ran[c]
  BY <1>2, <1>3 DEF IdempotencyInv, IdempotencyTypes
<1>5. Goto(w, "handle", "store") \/ FailTo(w, "handle", "raised", Idle)
  BY DEF Handle
<1>6. \A x \in Workers \ {w} : req'[x] = req[x]
  BY <1>5 DEF Goto, Become, FailTo, Control, ReqOK
<1>7. \/ req'[w].pc = "store" /\ req'[w].v = req[w].v
      \/ req'[w].pc = "idle" /\ "raised" \in upset'
  <2>1. ReqOK /\ {"handle", "store"} \subseteq IdempotencyPoints
    BY DEF Control, IdempotencyPoints
  <2>2. CASE Goto(w, "handle", "store")
    BY <2>1, <2>2, GotoSteps
  <2>3. CASE FailTo(w, "handle", "raised", Idle)
    BY <2>1, <2>3, FailSteps, IdleEntry
  <2> QED BY <1>5, <2>2, <2>3
<1>8. KeyLocal(w)' /\ req'[w].pc # "handle"
  BY <1>1, <1>3, <1>7 DEF KeyLocal
<1>9. ASSUME CalmPosts'
      PROVE  CalmPosts /\ LongAgo(k) /\ req'[w].pc = "store" /\ req'[w].v.k = k
             /\ \A x \in Workers \ {w} : req[x].pc = "idle"
  <2>1. CalmPosts /\ req'[w].pc = "store" /\ req'[w].v.k = k
    BY <1>1, <1>2, <1>7, <1>9 DEF CalmPosts
  <2> QED BY <1>1, <1>2, <2>1 DEF IdempotencyInv, CalmPosts, Control
<1>10. ASSUME CalmPosts' PROVE Spaced(k)' /\ Answered(k)'
  <2>1. Spaced(k) /\ Answered(k) /\ LongAgo(k)
    BY <1>3, <1>9, <1>10 DEF IdempotencyInv
  <2>2. PICK s : s = ran[k]
    OBVIOUS
  <2>3. PICK t : t = Append(s, now)
    OBVIOUS
  <2>4. s \in Seq(Nat) /\ t \in Seq(Nat) /\ Len(t) = Len(s) + 1 /\ DOMAIN s = 1..Len(s) /\ DOMAIN t = 1..Len(t)
        /\ t[Len(t)] = now /\ \A i \in DOMAIN s : t[i] = s[i] /\ s[i] \in Nat
    BY <1>3, <2>2, <2>3
  <2>5. /\ \A i, j \in DOMAIN s : i < j => s[j] - s[i] >= KeyTime
        /\ \A i \in DOMAIN s : s[i] + KeyTime <= now /\ s[i] <= now
    BY <2>1, <2>2 DEF Spaced, Answered, LongAgo
  <2>6. ASSUME NEW i \in DOMAIN t, NEW j \in DOMAIN t, i < j PROVE t[j] - t[i] >= KeyTime
    <3>1. i \in DOMAIN s /\ (j \in DOMAIN s \/ j = Len(t))
      BY <2>4, <2>6
    <3> QED BY <1>3, <2>4, <2>5, <2>6, <3>1
  <2>7. \A i \in DOMAIN t : t[i] <= now
    BY <1>3, <2>4, <2>5
  <2>8. ran'[k] = t
    BY <1>4, <2>2, <2>3
  <2> QED BY <1>2, <1>9, <1>10, <2>6, <2>7, <2>8 DEF Spaced, Answered
<1>11. ASSUME CalmPosts', NEW c \in PostKeys \ {k} PROVE Spaced(c)' /\ Answered(c)'
  <2>1. Spaced(c) /\ Answered(c)
    BY <1>9, <1>11 DEF IdempotencyInv
  <2>2. \A x \in Workers : req[x].pc # "store"
    BY <1>2, <1>9, <1>11
  <2> QED BY <1>2, <1>4, <2>1, <2>2 DEF Spaced, Answered
<1>12. ASSUME CalmPosts', NEW c \in PostKeys PROVE Spaced(c)' /\ Answered(c)'
  BY <1>10, <1>11, <1>12
<1> QED BY <1>2, <1>4, <1>6, <1>8, <1>9, <1>12, PostsMove

\* The answer is stored until it expires.
LEMMA StoreKeeps ==
    ASSUME Control, IdempotencyInv, NEW w \in Workers, StoreAnswer(w)
    PROVE  IdempotencyInv'
<1>1. PICK k : k = req[w].v.k
  OBVIOUS
<1>2. req[w].pc = "store" /\ ran' = ran /\ now' = now /\ upset \subseteq upset'
      /\ (expiry' = [expiry EXCEPT ![k] = now + KeyTime] \/ (expiry' = expiry /\ "rpc" \in upset'))
  BY <1>1 DEF StoreAnswer, Local, End, Become, FailTo, At, Stored
<1>3. k \in PostKeys /\ now \in Nat /\ KeyTime \in Nat
  BY <1>1, <1>2, IdempotencyAssumption DEF IdempotencyInv, KeyLocal, Control
<1>4. IdempotencyTypes' /\ \A c \in PostKeys \ {k} : expiry'[c] = expiry[c]
  BY <1>2, <1>3 DEF IdempotencyInv, IdempotencyTypes
<1>5. \A x \in Workers \ {w} : req'[x] = req[x]
  BY DEF StoreAnswer, End, Become, FailTo, Control, ReqOK
<1>6. req'[w].pc = "idle"
  <2>1. ReqOK /\ "store" \in IdempotencyPoints
    BY DEF Control, IdempotencyPoints
  <2>2. End(w, "store") \/ FailTo(w, "store", "rpc", Idle)
    BY DEF StoreAnswer
  <2> QED BY <2>1, <2>2, EndSteps, FailSteps, IdleEntry
<1>7. KeyLocal(w)'
  BY <1>6 DEF KeyLocal
<1>8. ASSUME CalmPosts', NEW c \in PostKeys PROVE Spaced(c)' /\ Answered(c)'
  <2>1. Spaced(c) /\ Answered(c)
    BY <1>2, <1>8 DEF IdempotencyInv, CalmPosts
  <2>2. expiry'[k] = now + KeyTime
    BY <1>2, <1>3, <1>8 DEF CalmPosts, IdempotencyInv, IdempotencyTypes
  <2>3. Spaced(c)'
    BY <1>2, <2>1 DEF Spaced
  <2>4. CASE c = k
    <3>1. \A i \in DOMAIN ran[c] : ran[c][i] \in Nat /\ ran[c][i] <= now
      BY <1>8, <2>1 DEF IdempotencyInv, IdempotencyTypes, Answered
    <3>2. \A i \in DOMAIN ran[c] : ran[c][i] + KeyTime <= expiry'[c]
      BY <1>3, <2>2, <2>4, <3>1
    <3> QED BY <1>2, <2>3, <3>1, <3>2 DEF Answered
  <2>5. CASE c # k
    <3>1. expiry'[c] = expiry[c] /\ ran' = ran /\ now' = now
      BY <1>2, <1>4, <1>8, <2>5
    <3>2. (\E x \in Workers : req[x].pc = "store" /\ req[x].v.k = c) =>
              (\E x \in Workers : req'[x].pc = "store" /\ req'[x].v.k = c)
      BY <1>1, <1>5, <2>5
    <3> QED BY <2>1, <2>3, <3>1, <3>2 DEF Answered
  <2> QED BY <2>4, <2>5
<1> QED BY <1>2, <1>4, <1>5, <1>6, <1>7, <1>8, PostsMove

\* The purge deletes keys that expired.
LEMMA PurgeKeeps ==
    ASSUME Control, IdempotencyInv, NEW w \in Workers, PurgeKeys(w) \/ DeleteKeys(w)
    PROVE  IdempotencyInv'
<1>1. ran' = ran /\ now' = now /\ upset \subseteq upset' /\ (\A x \in Workers \ {w} : req'[x] = req[x])
      /\ req[w].pc \notin {"store", "handle"}
  BY DEF PurgeKeys, DeleteKeys, Call, CallNoting, End, Become, At, idempotencyVars, Control, ReqOK
<1>2. req'[w].pc \notin {"handle", "store"}
  <2>1. ReqOK /\ "purgeKeys" \in IdempotencyPoints
    BY DEF Control, IdempotencyPoints
  <2>2. CASE PurgeKeys(w)
    <3>1. PICK v : CallNoting(w, "purgeKeys", "purgeKeys", v, {})
      BY <2>2 DEF PurgeKeys, Call
    <3>2. Steps(IdempotencyPoints) /\ req'[w] = [pc |-> "purgeKeys", op |-> "purgeKeys", v |-> v]
      BY <2>1, <3>1, CallSteps
    <3> QED BY <3>2
  <2>3. CASE DeleteKeys(w)
    BY <2>1, <2>3, EndSteps, IdleEntry DEF DeleteKeys
  <2> QED BY <2>2, <2>3
<1>3. KeyLocal(w)'
  BY <1>2 DEF KeyLocal
<1>4. expiry' = expiry \/ expiry' = [k \in PostKeys |-> IF expiry[k] < now THEN 0 ELSE expiry[k]]
  BY DEF PurgeKeys, DeleteKeys, idempotencyVars
<1>5. IdempotencyTypes'
  <2>1. expiry \in [PostKeys -> Nat] /\ ran' \in [PostKeys -> Seq(Nat)]
    BY <1>1 DEF IdempotencyInv, IdempotencyTypes
  <2>2. expiry' \in [PostKeys -> Nat]
    BY <1>4, <2>1
  <2> QED BY <2>1, <2>2 DEF IdempotencyTypes
<1>6. ASSUME CalmPosts', NEW c \in PostKeys PROVE Spaced(c)' /\ Answered(c)'
  <2>1. Spaced(c) /\ Answered(c)
    BY <1>1, <1>6 DEF IdempotencyInv, CalmPosts
  <2>2. (\E x \in Workers : req[x].pc = "store" /\ req[x].v.k = c) =>
            (\E x \in Workers : req'[x].pc = "store" /\ req'[x].v.k = c)
    BY <1>1
  <2>3. expiry'[c] = expiry[c] \/ expiry[c] < now
    BY <1>4, <1>6
  <2>4. ran[c] \in Seq(Nat) /\ expiry[c] \in Nat /\ now \in Nat /\ KeyTime \in Nat
    BY <1>6, IdempotencyAssumption DEF IdempotencyInv, IdempotencyTypes, Control
  <2>5. ASSUME NEW i \in DOMAIN ran[c]
        PROVE  ran[c][i] <= now /\ (\/ ran[c][i] + KeyTime <= now
                                    \/ ran[c][i] + KeyTime <= expiry'[c]
                                    \/ \E x \in Workers : req'[x].pc = "store" /\ req'[x].v.k = c)
    <3>1. ran[c][i] \in Nat
      BY <2>4
    <3>2. ran[c][i] <= now /\ (\/ ran[c][i] + KeyTime <= now
                               \/ ran[c][i] + KeyTime <= expiry[c]
                               \/ \E x \in Workers : req[x].pc = "store" /\ req[x].v.k = c)
      BY <2>1 DEF Answered
    <3> QED BY <2>2, <2>3, <2>4, <3>1, <3>2
  <2> QED BY <1>1, <2>1, <2>5 DEF Spaced, Answered
<1> QED BY <1>1, <1>2, <1>3, <1>5, <1>6, PostsMove

\* Every step keeps the invariant of the keys.
LEMMA IdempotencyNextInv ==
    ASSUME Control, IdempotencyInv, [Next]_serviceVars
    PROVE  IdempotencyInv'
<1>1. CASE Elsewhere(IdempotencyPoints) /\ UNCHANGED idempotencyVars
  BY <1>1, PostsElsewhere
<1>2. CASE IdempotencyNext
  BY <1>2, PostKeeps, HandleKeeps, StoreKeeps, PurgeKeeps DEF IdempotencyNext
<1> QED BY <1>1, <1>2, IdempotencyMoves

\* At the start no key has an answer.
LEMMA IdempotencyStart == ASSUME Init PROVE IdempotencyInv
<1>1. IdempotencyTypes /\ \A k \in PostKeys : ran[k] = <<>>
  BY DEF Init, IdempotencyInit, IdempotencyTypes
<1>2. \A w \in Workers : req[w].pc = "idle"
  BY IdleEntry DEF Init, ControlInit
<1>3. \A k \in PostKeys : Spaced(k) /\ Answered(k)
  BY <1>1 DEF Spaced, Answered
<1> QED BY <1>1, <1>2, <1>3 DEF IdempotencyInv, KeyLocal

\* A key's handler does not run twice within the life of an answer, whatever
\* other requests and jobs there are, as long as requests come one at a time,
\* the handler answers, and its answers are stored.
THEOREM HandledOnce == Spec => []OncePerKey
<1>1. IdempotencyInv => OncePerKey
  BY DEF IdempotencyInv, OncePerKey, CalmPosts, Spaced
<1> QED BY <1>1, ControlStart, ControlNext, IdempotencyStart, IdempotencyNextInv, PTL DEF Spec

(***************************************************************************)
(* The deliveries of webhook events                                        *)
(***************************************************************************)

\* A step of notifications and webhooks, or one elsewhere.
LEMMA DeliveryMoves ==
    ASSUME Control, [Next]_serviceVars
    PROVE  \/ DeliveriesNext /\ Steps(DeliveriesPoints)
           \/ Elsewhere(DeliveriesPoints) /\ UNCHANGED deliveryVars
<1>1. CASE UNCHANGED serviceVars
  BY <1>1, ElsewhereSame DEF serviceVars
<1>2. CASE (\E t \in scope.times : Later(t)) /\ UNCHANGED deliveryVars
  BY <1>2, LaterElsewhere
<1>3. ASSUME NEW M, M \in {AccountsPoints, CompaniesPoints, SlaPoints, IdempotencyPoints, CreditPoints,
                          FilesPoints, SponsorPoints, {}}, Steps(M)
      PROVE  Elsewhere(DeliveriesPoints)
  <2>1. DeliveriesPoints \cap (M \cup {"idle"}) = {}
    BY <1>3 DEF CreditPoints, AccountsPoints, CompaniesPoints, IdempotencyPoints, DeliveriesPoints, SlaPoints,
                FilesPoints, SponsorPoints
  <2> QED BY <1>3, <2>1, StepsElsewhere
<1>4. CASE (\E w \in Workers : Crash(w)) /\ UNCHANGED deliveryVars
  BY <1>3, <1>4, CrashSteps DEF Control
<1> QED BY <1>1, <1>2, <1>3, <1>4, NextSteps

\* A job of the queue, a row of the log.
JobOK(j) ==
    /\ j = [id |-> j.id, kind |-> j.kind, ref |-> j.ref, tries |-> j.tries, started |-> j.started]
    /\ j.kind = "hook" => j.ref \in Events
LogRow == [event : Events, status : {"FAILED", "RESENT"}]

\* EveryEventAccounted, which tells the jobs that stalled from the others, in short.
InQueue(e) ==
    \/ \E j \in queue : j.kind = "hook" /\ j.ref = e
    \/ \E w \in Workers : At(w, "log") /\ Local(w).j.ref = e
Accounted ==
    {"removed", "db", "log"} \cap upset = {} =>
        \A e \in sent :
            \/ InQueue(e)
            \/ [kind |-> "hook", ref |-> e] \in reached
            \/ \E i \in DOMAIN log : log[i].event = e

DeliveryTypes == (\A j \in queue : JobOK(j)) /\ log \in Seq(LogRow)

\* The locals of a worker: the job it has, the rows it resends.
DeliveryLocal(w) ==
    LET pc == req[w].pc
        v == req[w].v
    IN  /\ pc = "enqueue" => v.e \in Events
        /\ pc = "post" => v = [j |-> v.j] /\ JobOK(v.j)
        /\ pc = "mailed" => v.j.kind = "mail"
        /\ pc = "log" => v.j.ref \in Events
        /\ pc \in {"resend", "mark"} =>
             /\ v = [todo |-> v.todo, id |-> v.id]
             /\ v.todo \in Seq(1..Len(log)) /\ v.todo # <<>>
        /\ pc = "remove" => "removed" \in upset

DeliveryInv == DeliveryTypes /\ (\A w \in Workers : DeliveryLocal(w)) /\ Accounted

\* The log only grows, and a row's event stays.
LogGrows == \A i \in DOMAIN log : i \in DOMAIN log' /\ log'[i].event = log[i].event

\* An event that was accounted for stays so, if what was under way stays under
\* way, reaches its receiver or is logged.
LEMMA AccountedKept ==
    ASSUME Accounted, upset \subseteq upset', sent' = sent, reached \subseteq reached', LogGrows,
           \A e \in sent : {"removed", "db", "log"} \cap upset' = {} /\ InQueue(e) =>
               \/ InQueue(e)'
               \/ [kind |-> "hook", ref |-> e] \in reached'
               \/ \E i \in DOMAIN log' : log'[i].event = e
    PROVE  Accounted'
<1> SUFFICES ASSUME {"removed", "db", "log"} \cap upset' = {}, NEW e \in sent
             PROVE  \/ InQueue(e)'
                    \/ [kind |-> "hook", ref |-> e] \in reached'
                    \/ \E i \in DOMAIN log' : log'[i].event = e
  BY DEF Accounted
<1>1. \/ InQueue(e) \/ [kind |-> "hook", ref |-> e] \in reached
      \/ \E i \in DOMAIN log : log[i].event = e
  BY DEF Accounted
<1>2. CASE InQueue(e)
  BY <1>2
<1>3. CASE [kind |-> "hook", ref |-> e] \in reached
  BY <1>3
<1>4. CASE \E i \in DOMAIN log : log[i].event = e
  BY <1>4 DEF LogGrows
<1> QED BY <1>1, <1>2, <1>3, <1>4

\* The workers that do not move keep what they know.
LEMMA DeliveryOthers ==
    ASSUME DeliveryInv, NEW w \in Workers, \A x \in Workers \ {w} : req'[x] = req[x],
           upset \subseteq upset', DeliveryTypes', Len(log') >= Len(log), DeliveryLocal(w)'
    PROVE  \A x \in Workers : DeliveryLocal(x)'
<1>1. 1..Len(log) \subseteq 1..Len(log') /\ Len(log) \in Nat
  BY DEF DeliveryInv, DeliveryTypes
<1>2. ASSUME NEW x \in Workers \ {w} PROVE DeliveryLocal(x)'
  <2>1. DeliveryLocal(x) /\ req'[x] = req[x]
    BY <1>2 DEF DeliveryInv
  <2>2. ASSUME NEW s, s \in Seq(1..Len(log)) PROVE s \in Seq(1..Len(log'))
    BY <1>1, <2>2
  <2> QED BY <2>1, <2>2 DEF DeliveryLocal
<1> QED BY <1>2

\* The steps of the other parts leave the deliveries alone.
LEMMA DeliveriesElsewhere ==
    ASSUME DeliveryInv, Elsewhere(DeliveriesPoints), UNCHANGED deliveryVars
    PROVE  DeliveryInv'
<1>1. queue' = queue /\ log' = log /\ sent' = sent /\ reached' = reached /\ DeliveryTypes'
  BY DEF deliveryVars, DeliveryInv, DeliveryTypes
<1>2. upset \subseteq upset'
  BY DEF Elsewhere
<1>3. ASSUME NEW w \in Workers PROVE DeliveryLocal(w)'
  <2>1. DeliveryLocal(w)
    BY <1>3 DEF DeliveryInv
  <2>2. CASE req'[w] = req[w]
    BY <1>1, <1>2, <2>1, <2>2 DEF DeliveryLocal
  <2>3. CASE req'[w].pc \notin DeliveriesPoints
    BY <2>3 DEF DeliveryLocal, DeliveriesPoints
  <2> QED BY <2>2, <2>3 DEF Elsewhere
<1>4. Accounted'
  <2>1. Accounted
    BY DEF DeliveryInv
  <2>2. ASSUME {"removed", "db", "log"} \cap upset' = {}, NEW w \in Workers, req[w].pc = "log"
        PROVE  req'[w] = req[w]
    BY <2>2 DEF Elsewhere, DeliveriesPoints
  <2>3. \A e \in sent : {"removed", "db", "log"} \cap upset' = {} /\ InQueue(e) => InQueue(e)'
    BY <1>1, <2>2 DEF InQueue, At, Local
  <2> QED BY <1>1, <1>2, <2>1, <2>3, AccountedKept DEF LogGrows
<1> QED BY <1>1, <1>3, <1>4 DEF DeliveryInv

\* A step that at most puts jobs in the queue.
LEMMA DeliveryPlain ==
    ASSUME DeliveryInv, NEW w \in Workers, \A x \in Workers \ {w} : req'[x] = req[x], upset \subseteq upset',
           queue \subseteq queue', \A j \in queue' \ queue : JobOK(j),
           log' = log, sent' = sent, reached' = reached, req[w].pc # "log", DeliveryLocal(w)'
    PROVE  DeliveryInv'
<1>1. DeliveryTypes'
  BY DEF DeliveryInv, DeliveryTypes
<1>2. Len(log') >= Len(log)
  BY DEF DeliveryInv, DeliveryTypes
<1>3. \A x \in Workers : DeliveryLocal(x)'
  BY <1>1, <1>2, DeliveryOthers
<1>4. Accounted'
  <2>1. \A e \in sent : InQueue(e) => InQueue(e)'
    BY DEF InQueue, At, Local
  <2> QED BY <2>1, AccountedKept DEF DeliveryInv, LogGrows
<1> QED BY <1>1, <1>3, <1>4 DEF DeliveryInv

\* A job for a webhook carries an event.
LEMMA NewJobOK ==
    ASSUME NEW id, NEW kind, NEW ref, kind = "hook" => ref \in Events
    PROVE  JobOK(NewJob(id, kind, ref))
  BY DEF JobOK, NewJob

\* The steps of a notification.
LEMMA NotesKeep ==
    ASSUME Control, DeliveryInv, NEW w \in Workers,
           CreateNote(w) \/ MailNote(w) \/ FindBatch(w) \/ CountBatch(w) \/ OpenBatch(w) \/ PostToChat(w)
    PROVE  DeliveryInv'
<1>1. ReqOK
  BY DEF Control
<1>2. PICK from, to : /\ from # "idle" /\ from # "log" /\ from \in DeliveriesPoints
                      /\ to \in {"mail", "findBatch", "countBatch", "openBatch", "chat"}
                      /\ End(w, from) \/ Goto(w, from, to) \/ \E v : GotoWith(w, from, to, v)
  <2> DEFINE P_(from, to) == End(w, from) \/ Goto(w, from, to) \/ \E v : GotoWith(w, from, to, v)
  <2>1. CASE CreateNote(w)
    <3>1. P_("note", "mail")
      BY <2>1 DEF CreateNote
    <3> QED BY <3>1 DEF DeliveriesPoints
  <2>2. CASE MailNote(w)
    <3>1. P_("mail", "findBatch")
      BY <2>2 DEF MailNote
    <3> QED BY <3>1 DEF DeliveriesPoints
  <2>3. CASE FindBatch(w)
    <3>1. P_("findBatch", "countBatch") \/ P_("findBatch", "openBatch")
      BY <2>3 DEF FindBatch
    <3> QED BY <3>1 DEF DeliveriesPoints
  <2>4. CASE CountBatch(w)
    <3>1. P_("countBatch", "chat")
      BY <2>4 DEF CountBatch
    <3> QED BY <3>1 DEF DeliveriesPoints
  <2>5. CASE OpenBatch(w)
    <3>1. P_("openBatch", "chat")
      BY <2>5 DEF OpenBatch
    <3> QED BY <3>1 DEF DeliveriesPoints
  <2>6. CASE PostToChat(w)
    <3>1. P_("chat", "mail")
      BY <2>6 DEF PostToChat
    <3> QED BY <3>1 DEF DeliveriesPoints
  <2> QED BY <2>1, <2>2, <2>3, <2>4, <2>5, <2>6
<1>3. req[w].pc = from /\ req'[w].pc \in {"idle", to}
  <2>1. CASE End(w, from)
    BY <1>1, <1>2, <2>1, EndSteps, IdleEntry
  <2>2. CASE Goto(w, from, to) \/ \E v : GotoWith(w, from, to, v)
    <3>1. to \in DeliveriesPoints
      BY <1>2 DEF DeliveriesPoints
    <3> QED BY <1>1, <1>2, <2>2, <3>1, GotoSteps, GotoWithSteps
  <2> QED BY <1>2, <2>1, <2>2
<1>4. upset' = upset /\ \A x \in Workers \ {w} : req'[x] = req[x]
  BY <1>1, <1>2 DEF End, Goto, GotoWith, Become, ReqOK
<1>5. DeliveryLocal(w)'
  BY <1>2, <1>3 DEF DeliveryLocal
<1>6. log' = log /\ sent' = sent /\ reached' = reached
  BY DEF CreateNote, MailNote, FindBatch, CountBatch, OpenBatch, PostToChat, deliveryVars
<1>7. queue \subseteq queue' /\ \A j \in queue' \ queue : JobOK(j)
  <2>1. queue' = queue \/ \E id, kind, ref : kind # "hook" /\ queue' = queue \cup {NewJob(id, kind, ref)}
    BY DEF CreateNote, MailNote, FindBatch, CountBatch, OpenBatch, PostToChat, deliveryVars, Enqueue
  <2> QED BY <2>1, NewJobOK
<1> QED BY <1>2, <1>3, <1>4, <1>5, <1>6, <1>7, DeliveryPlain

\* A subscription leaves the events alone.
LEMMA SubscribeKeeps ==
    ASSUME DeliveryInv, Subscribe
    PROVE  DeliveryInv'
  BY DEF Subscribe, control, DeliveryInv, DeliveryTypes, DeliveryLocal, Accounted, InQueue, At, Local

\* A delivery is sent again.
LEMMA SendAgainKeeps ==
    ASSUME Control, DeliveryInv, NEW w \in Workers, SendAgain(w)
    PROVE  DeliveryInv'
<1>1. ReqOK /\ DeliveryTypes /\ DeliveryLocal(w) /\ {"resend", "mark"} \subseteq DeliveriesPoints
  BY DEF Control, DeliveryInv, DeliveriesPoints
<1>2. Goto(w, "resend", "mark")
  BY DEF SendAgain
<1>3. req[w].pc = "resend" /\ req'[w].pc = "mark" /\ req'[w].v = req[w].v
  BY <1>1, <1>2, GotoSteps
<1>4. upset' = upset /\ \A x \in Workers \ {w} : req'[x] = req[x]
  BY <1>1, <1>2 DEF Goto, Become, ReqOK
<1>5. log' = log /\ sent' = sent /\ reached' = reached
  BY DEF SendAgain
<1>6. DeliveryLocal(w)'
  BY <1>1, <1>3, <1>5 DEF DeliveryLocal
<1>7. PICK todo : todo = req[w].v.todo
  OBVIOUS
<1>8. todo \in Seq(1..Len(log)) /\ todo # <<>>
  BY <1>1, <1>3, <1>7 DEF DeliveryLocal
<1>9. PICK i : i = Head(todo)
  OBVIOUS
<1>10. log \in Seq(LogRow) /\ i \in 1..Len(log)
  BY <1>1, <1>8, <1>9 DEF DeliveryTypes
<1>11. log[i] \in LogRow
  BY <1>10
<1>12. PICK id : queue' = queue \cup {NewJob(id, "hook", log[i].event)}
  BY <1>7, <1>9 DEF SendAgain, Local, Enqueue
<1>13. JobOK(NewJob(id, "hook", log[i].event))
  BY <1>11, NewJobOK DEF LogRow
<1> QED BY <1>3, <1>4, <1>5, <1>6, <1>12, <1>13, DeliveryPlain

\* An event sent is in the queue.
LEMMA SendWebhookKeeps ==
    ASSUME Control, DeliveryInv, NEW w \in Workers, SendWebhook(w)
    PROVE  DeliveryInv'
<1>1. ReqOK /\ DeliveryTypes /\ DeliveryLocal(w) /\ "enqueue" \in DeliveriesPoints
  BY DEF Control, DeliveryInv, DeliveriesPoints
<1>2. End(w, "enqueue")
  BY DEF SendWebhook
<1>3. req[w].pc = "enqueue" /\ req'[w].pc = "idle"
  BY <1>1, <1>2, EndSteps, IdleEntry
<1>4. upset' = upset /\ \A x \in Workers \ {w} : req'[x] = req[x]
  BY <1>1, <1>2 DEF End, Become, ReqOK
<1>5. PICK e, id : e = req[w].v.e /\ queue' = queue \cup {NewJob(id, "hook", e)} /\ sent' = sent \cup {e}
  BY DEF SendWebhook, Local, Enqueue
<1>6. log' = log /\ reached' = reached /\ e \in Events
  BY <1>1, <1>3, <1>5 DEF SendWebhook, DeliveryLocal
<1>7. JobOK(NewJob(id, "hook", e)) /\ NewJob(id, "hook", e).kind = "hook"
      /\ NewJob(id, "hook", e).ref = e
  BY <1>6, NewJobOK DEF NewJob
<1>8. DeliveryTypes' /\ Len(log') >= Len(log)
  <2>1. \A j \in queue' : JobOK(j)
    BY <1>1, <1>5, <1>7 DEF DeliveryTypes
  <2> QED BY <1>1, <1>6, <2>1 DEF DeliveryTypes
<1>9. DeliveryLocal(w)'
  BY <1>3 DEF DeliveryLocal
<1>10. \A x \in Workers : DeliveryLocal(x)'
  BY <1>4, <1>8, <1>9, DeliveryOthers
<1>11. InQueue(e)'
  BY <1>5, <1>7 DEF InQueue
<1>12. \A f \in sent : InQueue(f) => InQueue(f)'
  BY <1>3, <1>4, <1>5 DEF InQueue, At, Local
<1>13. Accounted'
  BY <1>4, <1>5, <1>6, <1>11, <1>12 DEF DeliveryInv, Accounted
<1> QED BY <1>8, <1>10, <1>13 DEF DeliveryInv

\* Its row is marked.
LEMMA MarkResentKeeps ==
    ASSUME Control, DeliveryInv, NEW w \in Workers, MarkResent(w)
    PROVE  DeliveryInv'
<1>1. ReqOK /\ DeliveryTypes /\ DeliveryLocal(w) /\ {"resend", "mark"} \subseteq DeliveriesPoints
  BY DEF Control, DeliveryInv, DeliveriesPoints
<1>2. PICK v : v = req[w].v
  OBVIOUS
<1>3. PICK todo : todo = v.todo
  OBVIOUS
<1>4. PICK rest, i : rest = Tail(todo) /\ i = Head(todo)
  OBVIOUS
<1>5. PICK u : u = [v EXCEPT !.todo = rest]
  OBVIOUS
<1>6. req[w].pc = "mark" /\ (IF rest = <<>> THEN End(w, "mark") ELSE GotoWith(w, "mark", "resend", u))
  BY <1>2, <1>3, <1>4, <1>5 DEF MarkResent, Local, At
<1>7. v = [todo |-> todo, id |-> v.id] /\ todo \in Seq(1..Len(log)) /\ todo # <<>>
  BY <1>1, <1>2, <1>3, <1>6 DEF DeliveryLocal
<1>8. log \in Seq(LogRow) /\ i \in 1..Len(log) /\ rest \in Seq(1..Len(log))
  BY <1>1, <1>4, <1>7 DEF DeliveryTypes
<1>9. u = [todo |-> rest, id |-> v.id]
  BY <1>5, <1>7
<1>10. PICK row : row = [log[i] EXCEPT !.status = "RESENT"]
  OBVIOUS
<1>11. log' = [log EXCEPT ![i] = row]
  BY <1>2, <1>3, <1>4, <1>10 DEF MarkResent, Local
<1>12. log[i] \in LogRow
  BY <1>8
<1>13. row \in LogRow /\ row.event = log[i].event
  BY <1>10, <1>12 DEF LogRow
<1>14. log' \in Seq(LogRow) /\ Len(log') = Len(log)
  BY <1>8, <1>11, <1>13
<1>15. LogGrows
  BY <1>8, <1>11, <1>13 DEF LogGrows
<1>16. \/ req'[w].pc = "idle"
       \/ req'[w].pc = "resend" /\ req'[w].v = u /\ rest # <<>>
  <2>1. CASE rest = <<>>
    BY <1>1, <1>6, <2>1, EndSteps, IdleEntry
  <2>2. CASE rest # <<>>
    BY <1>1, <1>6, <2>2, GotoWithSteps
  <2> QED BY <2>1, <2>2
<1>17. DeliveryLocal(w)'
  <2>1. u.todo = rest /\ u.id = v.id
    BY <1>9
  <2> QED BY <1>8, <1>9, <1>14, <1>16, <2>1 DEF DeliveryLocal
<1>18. upset' = upset /\ \A x \in Workers \ {w} : req'[x] = req[x]
  <2>1. \E r : Become(w, "mark", r)
    BY <1>6 DEF End, GotoWith
  <2> QED BY <1>1, <2>1 DEF Become, ReqOK
<1>19. queue' = queue /\ sent' = sent /\ reached' = reached
  BY DEF MarkResent
<1>20. DeliveryTypes'
  BY <1>1, <1>14, <1>19 DEF DeliveryTypes
<1>21. Len(log') >= Len(log)
  BY <1>8, <1>14
<1>22. \A x \in Workers : DeliveryLocal(x)'
  BY <1>17, <1>18, <1>20, <1>21, DeliveryOthers
<1>23. \A e \in sent : InQueue(e) => InQueue(e)'
  BY <1>6, <1>18, <1>19 DEF InQueue, At, Local
<1>24. Accounted'
  BY <1>15, <1>18, <1>19, <1>23, AccountedKept DEF DeliveryInv
<1> QED BY <1>20, <1>22, <1>24 DEF DeliveryInv

\* The events of jobs that leave the queue, and of a delivery that was to be
\* logged, are accounted for otherwise.
NeedNoMore(w, gone) ==
    {"removed", "db", "log"} \cap upset' = {} =>
        /\ \A j \in gone : j.kind = "hook" =>
               \/ InQueue(j.ref)'
               \/ [kind |-> "hook", ref |-> j.ref] \in reached'
               \/ \E i \in DOMAIN log' : log'[i].event = j.ref
        /\ req[w].pc = "log" => \E i \in DOMAIN log' : log'[i].event = req[w].v.j.ref

\* A step that takes jobs out of the queue, and may put others in, when their
\* events, if they have one, no longer need them.
LEMMA HookJobsDone ==
    ASSUME DeliveryInv, NEW w \in Workers, \A x \in Workers \ {w} : req'[x] = req[x], upset \subseteq upset',
           NEW gone, NEW new, queue' = (queue \ gone) \cup new, \A j \in new : JobOK(j),
           log' \in Seq(LogRow), Len(log') >= Len(log), LogGrows,
           sent' = sent, reached \subseteq reached', DeliveryLocal(w)', NeedNoMore(w, gone)
    PROVE  DeliveryInv'
<1>1. DeliveryTypes'
  BY DEF DeliveryInv, DeliveryTypes
<1>2. \A x \in Workers : DeliveryLocal(x)'
  BY <1>1, DeliveryOthers
<1>3. ASSUME NEW e \in sent, {"removed", "db", "log"} \cap upset' = {}, InQueue(e)
      PROVE  \/ InQueue(e)' \/ [kind |-> "hook", ref |-> e] \in reached'
             \/ \E i \in DOMAIN log' : log'[i].event = e
  <2>1. CASE \E j \in queue : j.kind = "hook" /\ j.ref = e
    BY <1>3, <2>1 DEF InQueue, NeedNoMore
  <2>2. CASE \E x \in Workers : req[x].pc = "log" /\ req[x].v.j.ref = e
    <3>1. PICK x \in Workers : req[x].pc = "log" /\ req[x].v.j.ref = e
      BY <2>2
    <3>2. CASE x = w
      BY <1>3, <3>1, <3>2 DEF NeedNoMore
    <3>3. CASE x # w
      BY <3>1, <3>3 DEF InQueue, At, Local
    <3> QED BY <3>2, <3>3
  <2> QED BY <1>3, <2>1, <2>2 DEF InQueue, At, Local
<1>4. Accounted'
  BY <1>3, AccountedKept DEF DeliveryInv
<1> QED BY <1>1, <1>2, <1>4 DEF DeliveryInv

\* A job is handed out, and counted as such.
LEMMA TakeJobKeeps ==
    ASSUME Control, DeliveryInv, NEW w \in Workers, \E j \in queue : TakeJob(w, j)
    PROVE  DeliveryInv'
<1>1. ReqOK /\ DeliveryTypes
  BY DEF Control, DeliveryInv
<1>2. PICK j \in queue : TakeJob(w, j)
  OBVIOUS
<1>3. PICK again, v, gone, new : /\ again = [j EXCEPT !.started = @ + 1] /\ v = [j |-> again]
                                 /\ gone = {j} /\ new = {again}
  OBVIOUS
<1>4. CallNoting(w, "job", "post", v, {}) /\ queue' = (queue \ gone) \cup new
  BY <1>2, <1>3 DEF TakeJob, Call
<1>5. log' = log /\ sent' = sent /\ reached' = reached
  BY <1>2 DEF TakeJob
<1>6. JobOK(again) /\ again.kind = j.kind /\ again.ref = j.ref
  BY <1>1, <1>3 DEF DeliveryTypes, JobOK
<1>7. req'[w].pc = "post" /\ req'[w].v = v /\ req[w].pc = "idle"
  <2>1. "post" \in DeliveriesPoints
    BY DEF DeliveriesPoints
  <2>2. req'[w] = [pc |-> "post", op |-> "job", v |-> v] /\ req[w].pc = "idle"
    BY <1>1, <1>4, <2>1, CallSteps
  <2> QED BY <2>2
<1>8. upset \subseteq upset' /\ \A x \in Workers \ {w} : req'[x] = req[x]
  BY <1>1, <1>4 DEF CallNoting, ReqOK
<1>9. DeliveryLocal(w)'
  BY <1>3, <1>6, <1>7 DEF DeliveryLocal, JobOK
<1>10. log' \in Seq(LogRow) /\ Len(log') >= Len(log) /\ LogGrows
  BY <1>1, <1>5 DEF DeliveryTypes, LogGrows
<1>11. NeedNoMore(w, gone)
  <2>1. j.kind = "hook" => InQueue(j.ref)'
    BY <1>3, <1>4, <1>6 DEF InQueue
  <2> QED BY <1>3, <1>7, <2>1 DEF NeedNoMore
<1>12. \A k \in new : JobOK(k)
  BY <1>3, <1>6
<1> QED BY <1>4, <1>5, <1>8, <1>9, <1>10, <1>11, <1>12, HookJobsDone

\* Taking up an operation.
LEMMA DeliveriesTaken ==
    ASSUME Control, DeliveryInv, NEW w \in Workers,
           \/ \E t \in Topics : NotifyUser(w, t)
           \/ \E e \in Events : DispatchWebhook(w, e)
           \/ \E i \in DOMAIN log : ResendDelivery(w, i)
           \/ \E j \in queue : TakeJob(w, j) \/ RemoveScheduled(w, j)
           \/ ReplayDeliveries(w)
    PROVE  DeliveryInv'
<1>1. ReqOK /\ DeliveryTypes
  BY DEF Control, DeliveryInv
<1>2. ASSUME NEW op, NEW pc \in DeliveriesPoints, NEW v, NEW what, CallNoting(w, op, pc, v, what),
             UNCHANGED deliveryVars, pc \in {"note", "enqueue", "resend", "remove"},
             pc = "enqueue" => v.e \in Events,
             pc = "resend" => /\ v = [todo |-> v.todo, id |-> v.id]
                              /\ v.todo \in Seq(1..Len(log)) /\ v.todo # <<>>,
             pc = "remove" => "removed" \in what
      PROVE  DeliveryInv'
  <2>1. Steps(DeliveriesPoints) /\ req'[w] = [pc |-> pc, op |-> op, v |-> v] /\ req[w].pc = "idle"
    BY <1>1, <1>2, CallSteps
  <2>2. (\A x \in Workers \ {w} : req'[x] = req[x]) /\ upset \subseteq upset' /\ (pc = "remove" => "removed" \in upset')
    BY <1>1, <1>2 DEF CallNoting, ReqOK
  <2>3. req'[w].pc = pc /\ req'[w].v = v
    BY <2>1
  <2>4. log' = log /\ queue' = queue /\ sent' = sent /\ reached' = reached
    BY <1>2 DEF deliveryVars
  <2>5. DeliveryLocal(w)'
    BY <1>2, <2>2, <2>3, <2>4 DEF DeliveryLocal
  <2> QED BY <2>1, <2>2, <2>4, <2>5, DeliveryPlain
<1>3. CASE \E t \in Topics : NotifyUser(w, t)
  <2>1. PICK v : CallNoting(w, "notify", "note", v, {}) /\ UNCHANGED deliveryVars
    BY <1>3 DEF NotifyUser, Call
  <2>2. "note" \in DeliveriesPoints
    BY DEF DeliveriesPoints
  <2> QED BY <1>2, <2>1, <2>2
<1>4. CASE \E e \in Events : DispatchWebhook(w, e)
  <2>1. PICK e, v : /\ e \in Events /\ v = [e |-> e, id |-> calls]
                     /\ CallNoting(w, "dispatch", "enqueue", v, {}) /\ UNCHANGED deliveryVars
    BY <1>4 DEF DispatchWebhook, Call
  <2>2. "enqueue" \in DeliveriesPoints /\ v.e \in Events
    BY <2>1 DEF DeliveriesPoints
  <2> QED BY <1>2, <2>1, <2>2
<1>5. CASE \E i \in DOMAIN log : ResendDelivery(w, i)
  <2>1. PICK i, v : /\ i \in DOMAIN log /\ v = [todo |-> <<i>>, id |-> calls]
                     /\ CallNoting(w, "resend", "resend", v, {}) /\ UNCHANGED deliveryVars
    BY <1>5 DEF ResendDelivery, Call
  <2>2. i \in 1..Len(log)
    BY <1>1, <2>1 DEF DeliveryTypes
  <2>3. "resend" \in DeliveriesPoints /\ v = [todo |-> v.todo, id |-> v.id]
        /\ v.todo \in Seq(1..Len(log)) /\ v.todo # <<>>
    BY <2>1, <2>2 DEF DeliveriesPoints
  <2> QED BY <1>2, <2>1, <2>3
<1>6. CASE ReplayDeliveries(w)
  <2>1. PICK v : v = [todo |-> [i \in DOMAIN log |-> i], id |-> calls]
                 /\ CallNoting(w, "replay", "resend", v, {}) /\ UNCHANGED deliveryVars /\ log # <<>>
    BY <1>6 DEF ReplayDeliveries, Call
  <2>2. Len(log) \in Nat /\ DOMAIN log = 1..Len(log) /\ Len(log) # 0
    BY <1>1, <2>1 DEF DeliveryTypes
  <2>3. PICK todo : todo = [i \in 1..Len(log) |-> i]
    OBVIOUS
  <2>4. todo \in Seq(1..Len(log)) /\ todo # <<>>
    BY <2>2, <2>3
  <2>5. "resend" \in DeliveriesPoints /\ v = [todo |-> v.todo, id |-> v.id] /\ v.todo = todo
    BY <2>1, <2>2, <2>3 DEF DeliveriesPoints
  <2> QED BY <1>2, <2>1, <2>4, <2>5
<1>7. CASE \E j \in queue : TakeJob(w, j)
  BY <1>7, TakeJobKeeps
<1>8. CASE \E j \in queue : RemoveScheduled(w, j)
  <2>1. PICK v : CallNoting(w, "remove", "remove", v, {"removed"}) /\ UNCHANGED deliveryVars
    BY <1>8 DEF RemoveScheduled
  <2>2. "remove" \in DeliveriesPoints
    BY DEF DeliveriesPoints
  <2> QED BY <1>2, <2>1, <2>2
<1> QED BY <1>3, <1>4, <1>5, <1>6, <1>7, <1>8

\* What becomes of a notification leaves the events alone.
LEMMA MarkMailedKeeps ==
    ASSUME Control, DeliveryInv, NEW w \in Workers, MarkMailed(w)
    PROVE  DeliveryInv'
<1>1. ReqOK /\ DeliveryTypes /\ DeliveryLocal(w) /\ "mailed" \in DeliveriesPoints
  BY DEF Control, DeliveryInv, DeliveriesPoints
<1>2. End(w, "mailed")
  BY DEF MarkMailed
<1>3. req[w].pc = "mailed" /\ req'[w].pc = "idle"
  BY <1>1, <1>2, EndSteps, IdleEntry
<1>4. upset' = upset /\ \A x \in Workers \ {w} : req'[x] = req[x]
  BY <1>1, <1>2 DEF End, Become, ReqOK
<1>5. PICK j : j = req[w].v.j
  OBVIOUS
<1>6. queue' = queue \ {j} /\ log' = log /\ sent' = sent /\ reached' = reached
  BY <1>5 DEF MarkMailed, Local
<1>7. j.kind = "mail"
  BY <1>1, <1>3, <1>5 DEF DeliveryLocal
<1>8. log' \in Seq(LogRow) /\ Len(log') >= Len(log) /\ LogGrows
  BY <1>1, <1>6 DEF DeliveryTypes, LogGrows
<1>9. DeliveryLocal(w)'
  BY <1>3 DEF DeliveryLocal
<1>10. NeedNoMore(w, {j})
  BY <1>3, <1>7 DEF NeedNoMore
<1>11. PICK gone, new : gone = {j} /\ new = {}
  OBVIOUS
<1>12. queue' = (queue \ gone) \cup new /\ (\A k \in new : JobOK(k)) /\ NeedNoMore(w, gone)
  BY <1>6, <1>10, <1>11
<1> QED BY <1>4, <1>6, <1>8, <1>9, <1>12, HookJobsDone

\* The last failed attempt of a delivery is logged.
LEMMA RecordDeliveryKeeps ==
    ASSUME Control, DeliveryInv, NEW w \in Workers, RecordDelivery(w)
    PROVE  DeliveryInv'
<1>1. ReqOK /\ DeliveryTypes /\ DeliveryLocal(w) /\ "log" \in DeliveriesPoints
  BY DEF Control, DeliveryInv, DeliveriesPoints
<1>2. PICK j : j = req[w].v.j
  OBVIOUS
<1>3. PICK row : row = [event |-> j.ref, status |-> "FAILED"]
  OBVIOUS
<1>4. \/ End(w, "log") /\ log' = Append(log, row)
      \/ FailTo(w, "log", "db", Idle) /\ log' = log
  BY <1>2, <1>3 DEF RecordDelivery, Local
<1>5. queue' = queue /\ sent' = sent /\ reached' = reached
  BY DEF RecordDelivery
<1>6. req[w].pc = "log" /\ req'[w].pc = "idle"
  BY <1>1, <1>4, EndSteps, FailSteps, IdleEntry
<1>7. upset \subseteq upset' /\ (\A x \in Workers \ {w} : req'[x] = req[x])
      /\ (log' = Append(log, row) \/ (log' = log /\ "db" \in upset'))
  BY <1>1, <1>4 DEF End, Become, FailTo, ReqOK
<1>8. j.ref \in Events
  BY <1>1, <1>2, <1>6 DEF DeliveryLocal
<1>9. row \in LogRow /\ row.event = j.ref
  BY <1>3, <1>8 DEF LogRow
<1>10. log \in Seq(LogRow)
  BY <1>1 DEF DeliveryTypes
<1>11. log' \in Seq(LogRow) /\ Len(log') >= Len(log)
  BY <1>7, <1>9, <1>10
<1>12. LogGrows
  BY <1>7, <1>9, <1>10 DEF LogGrows
<1>13. DeliveryLocal(w)'
  BY <1>6 DEF DeliveryLocal
<1>14. "db" \notin upset' => \E i \in DOMAIN log' : log'[i].event = j.ref
  <2>1. ASSUME log' = Append(log, row) PROVE \E i \in DOMAIN log' : log'[i].event = j.ref
    <3>1. Len(log) + 1 \in DOMAIN log' /\ log'[Len(log) + 1] = row
      BY <1>9, <1>10, <2>1
    <3> QED BY <1>9, <3>1
  <2> QED BY <1>7, <2>1
<1>15. NeedNoMore(w, {})
  BY <1>2, <1>14 DEF NeedNoMore
<1>16. PICK gone, new : gone = {} /\ new = {}
  OBVIOUS
<1>17. queue' = (queue \ gone) \cup new /\ (\A k \in new : JobOK(k)) /\ NeedNoMore(w, gone)
  BY <1>5, <1>15, <1>16
<1> QED BY <1>5, <1>7, <1>11, <1>12, <1>13, <1>17, HookJobsDone

\* Removing a job by hand is noted.
LEMMA RemoveJobKeeps ==
    ASSUME Control, DeliveryInv, NEW w \in Workers, RemoveJob(w)
    PROVE  DeliveryInv'
<1>1. ReqOK /\ DeliveryTypes /\ DeliveryLocal(w) /\ "remove" \in DeliveriesPoints
  BY DEF Control, DeliveryInv, DeliveriesPoints
<1>2. End(w, "remove")
  BY DEF RemoveJob
<1>3. req[w].pc = "remove" /\ req'[w].pc = "idle"
  BY <1>1, <1>2, EndSteps, IdleEntry
<1>4. upset' = upset /\ \A x \in Workers \ {w} : req'[x] = req[x]
  BY <1>1, <1>2 DEF End, Become, ReqOK
<1>5. PICK gone : queue' = queue \ gone
  <2>1. queue' \subseteq queue
    BY DEF RemoveJob
  <2>2. queue' = queue \ (queue \ queue')
    BY <2>1
  <2> QED BY <2>2
<1>6. log' = log /\ sent' = sent /\ reached' = reached
  BY DEF RemoveJob
<1>7. "removed" \in upset'
  BY <1>1, <1>3, <1>4 DEF DeliveryLocal
<1>8. log' \in Seq(LogRow) /\ Len(log') >= Len(log) /\ LogGrows
  BY <1>1, <1>6 DEF DeliveryTypes, LogGrows
<1>9. DeliveryLocal(w)'
  BY <1>3 DEF DeliveryLocal
<1>10. NeedNoMore(w, gone)
  BY <1>7 DEF NeedNoMore
<1>11. PICK new : new = {}
  OBVIOUS
<1>12. queue' = (queue \ gone) \cup new /\ \A k \in new : JobOK(k)
  BY <1>5, <1>11
<1> QED BY <1>4, <1>6, <1>8, <1>9, <1>10, <1>12, HookJobsDone

\* An attempt with its outcome, and what it leaves the worker with.
LEMMA AttemptKeeps ==
    ASSUME Control, DeliveryInv, NEW w \in Workers, req[w].pc = "post", NEW j, j = req[w].v.j,
           NEW ok \in BOOLEAN, NEW r,
           r = IF AfterPost(j, ok) = "none" THEN Idle ELSE [req[w] EXCEPT !.pc = AfterPost(j, ok)],
           Become(w, "post", r) \/ FailTo(w, "post", "rpc", r),
           ok => j.kind # "hook", reached \subseteq reached', queue' = AfterAttempt(j, ok),
           log' = log, sent' = sent
    PROVE  DeliveryInv'
<1>1. ReqOK /\ DeliveryTypes /\ DeliveryLocal(w) /\ "post" \in DeliveriesPoints
  BY DEF Control, DeliveryInv, DeliveriesPoints
<1>4. JobOK(j) /\ req[w].v = [j |-> j]
  BY <1>1 DEF DeliveryLocal
<1>7. upset \subseteq upset' /\ req'[w] = r /\ \A x \in Workers \ {w} : req'[x] = req[x]
  BY <1>1 DEF Become, FailTo, ReqOK
<1>8. ASSUME AfterPost(j, ok) # "none"
      PROVE  r.pc = AfterPost(j, ok) /\ r.v.j = j
  <2>1. PICK to : to = AfterPost(j, ok)
    OBVIOUS
  <2>2. r = [req[w] EXCEPT !.pc = to]
    BY <1>8, <2>1
  <2>3. r.pc = to /\ r.v = req[w].v
    BY <1>1, <2>2, EntryFields
  <2> QED BY <1>4, <2>1, <2>3
<1>9. AfterPost(j, ok) \in {"none", "mailed", "log"} /\ (AfterPost(j, ok) = "mailed" => j.kind = "mail")
      /\ (AfterPost(j, ok) = "log" => j.kind = "hook")
  BY DEF AfterPost
<1>10. \/ AfterPost(j, ok) = "none" /\ r.pc = "idle"
       \/ AfterPost(j, ok) = "mailed" /\ r.pc = "mailed" /\ r.v.j = j /\ j.kind = "mail"
       \/ AfterPost(j, ok) = "log" /\ r.pc = "log" /\ r.v.j = j /\ j.kind = "hook"
  BY <1>8, <1>9, IdleEntry
<1>11. DeliveryLocal(w)'
  BY <1>4, <1>7, <1>10 DEF DeliveryLocal, JobOK
<1>12. log' \in Seq(LogRow) /\ Len(log') >= Len(log) /\ LogGrows
  BY <1>1 DEF DeliveryTypes, LogGrows
<1>13. PICK again : again = [j EXCEPT !.tries = @ + 1]
  OBVIOUS
<1>14. JobOK(again) /\ again.kind = j.kind /\ again.ref = j.ref
  BY <1>4, <1>13 DEF JobOK
<1>15. AfterPost(j, ok) = "log" => InQueue(j.ref)'
  BY <1>7, <1>10 DEF InQueue, At, Local
<1> DEFINE Leaves_(gone, new) ==
              /\ queue' = (queue \ gone) \cup new /\ gone \subseteq {j} /\ new \subseteq {again}
              /\ gone = {} \/ again \in new \/ AfterPost(j, ok) = "log" \/ j.kind # "hook"
<1>16. PICK gone, new : Leaves_(gone, new)
  <2>1. CASE j.kind = "mail"
    <3>1. Leaves_({}, {})
      BY <2>1 DEF AfterAttempt
    <3> HIDE DEF Leaves_
    <3> QED BY <3>1
  <2>2. CASE j.kind # "mail" /\ (ok \/ Exhausted(j.tries + 1))
    <3>1. AfterPost(j, ok) = "log" \/ j.kind # "hook"
      BY <2>2 DEF AfterPost
    <3>2. Leaves_({j}, {})
      BY <2>2, <3>1 DEF AfterAttempt
    <3> HIDE DEF Leaves_
    <3> QED BY <3>2
  <2>3. CASE j.kind # "mail" /\ ~(ok \/ Exhausted(j.tries + 1))
    <3>1. Leaves_({j}, {again})
      BY <1>13, <2>3 DEF AfterAttempt
    <3> HIDE DEF Leaves_
    <3> QED BY <3>1
  <2> QED BY <2>1, <2>2, <2>3
<1>17. ASSUME j.kind = "hook", gone # {}
       PROVE  InQueue(j.ref)'
  <2>1. CASE again \in new
    BY <1>14, <1>16, <1>17, <2>1 DEF InQueue
  <2>2. CASE AfterPost(j, ok) = "log"
    BY <1>15, <2>2
  <2> QED BY <1>16, <1>17, <2>1, <2>2
<1>18. NeedNoMore(w, gone)
  BY <1>16, <1>17 DEF NeedNoMore
<1>19. \A k \in new : JobOK(k)
  BY <1>14, <1>16
<1> QED BY <1>7, <1>11, <1>12, <1>16, <1>18, <1>19, HookJobsDone

\* A message is posted, or fails to be.
LEMMA PostMessageKeeps ==
    ASSUME Control, DeliveryInv, NEW w \in Workers, PostMessage(w)
    PROVE  DeliveryInv'
<1>1. PICK j, ok, yes, no :
        /\ j = req[w].v.j /\ ok = (j.kind # "hook")
        /\ yes = IF AfterPost(j, ok) = "none" THEN Idle ELSE [req[w] EXCEPT !.pc = AfterPost(j, ok)]
        /\ no = IF AfterPost(j, FALSE) = "none" THEN Idle ELSE [req[w] EXCEPT !.pc = AfterPost(j, FALSE)]
  OBVIOUS
<1>2. \/ Become(w, "post", yes) /\ queue' = AfterAttempt(j, ok)
      \/ FailTo(w, "post", "rpc", no) /\ queue' = AfterAttempt(j, FALSE)
  BY <1>1 DEF PostMessage, Local
<1>3. req[w].pc = "post" /\ log' = log /\ sent' = sent /\ reached \subseteq reached' /\ ok \in BOOLEAN
  BY <1>1 DEF PostMessage, At
<1>4. CASE Become(w, "post", yes) /\ queue' = AfterAttempt(j, ok)
  BY <1>1, <1>3, <1>4, AttemptKeeps
<1>5. CASE FailTo(w, "post", "rpc", no) /\ queue' = AfterAttempt(j, FALSE)
  BY <1>1, <1>3, <1>5, AttemptKeeps
<1> QED BY <1>2, <1>4, <1>5

\* Every step keeps the invariant of the deliveries.
LEMMA DeliveryNextInv ==
    ASSUME Control, DeliveryInv, [Next]_serviceVars
    PROVE  DeliveryInv'
<1>1. CASE Elsewhere(DeliveriesPoints) /\ UNCHANGED deliveryVars
  BY <1>1, DeliveriesElsewhere
<1>2. CASE DeliveriesNext
  BY <1>2, DeliveriesTaken, NotesKeep, SubscribeKeeps, SendAgainKeeps, SendWebhookKeeps, MarkResentKeeps,
     PostMessageKeeps, MarkMailedKeeps, RecordDeliveryKeeps, RemoveJobKeeps DEF DeliveriesNext
<1> QED BY <1>1, <1>2, DeliveryMoves

\* At the start no event was sent.
LEMMA DeliveryStart == ASSUME Init PROVE DeliveryInv
<1>1. queue = {} /\ log = <<>> /\ sent = {}
  BY DEF Init, DeliveriesInit
<1>2. \A w \in Workers : req[w].pc = "idle"
  BY IdleEntry DEF Init, ControlInit
<1> QED BY <1>1, <1>2 DEF DeliveryInv, DeliveryTypes, DeliveryLocal, Accounted

\* A webhook event that was put in the queue drops out of the queue, its receiver
\* and the log only when its job was handed out twice to workers that died,
\* whatever attempts fail.
THEOREM EventsAccounted == Spec => []EveryEventAccounted
<1>1. DeliveryInv => EveryEventAccounted
  BY DEF DeliveryInv, Accounted, EveryEventAccounted, InQueue, UnderWay, HookJobs
<1> QED BY <1>1, ControlStart, ControlNext, DeliveryStart, DeliveryNextInv, PTL DEF Spec

(***************************************************************************)
(* Uploaded files                                                          *)
(***************************************************************************)

\* A step of the files, at the same moment, or one elsewhere.
LEMMA FilesMoves ==
    ASSUME Control, [Next]_serviceVars
    PROVE  (FilesNext /\ now' = now) \/ (Elsewhere(FilesPoints) /\ UNCHANGED fileVars)
<1>1. CASE UNCHANGED serviceVars
  BY <1>1, ElsewhereSame DEF serviceVars
<1>2. CASE (\E t \in scope.times : Later(t)) /\ UNCHANGED fileVars
  BY <1>2, LaterElsewhere
<1>3. ASSUME NEW M, M \in {SlaPoints, AccountsPoints, CompaniesPoints, IdempotencyPoints, DeliveriesPoints,
                          CreditPoints, SponsorPoints, {}}, Steps(M)
      PROVE  Elsewhere(FilesPoints)
  <2>1. FilesPoints \cap (M \cup {"idle"}) = {}
    BY <1>3 DEF CreditPoints, AccountsPoints, CompaniesPoints, IdempotencyPoints, DeliveriesPoints, SlaPoints,
                FilesPoints, SponsorPoints
  <2> QED BY <1>3, <2>1, StepsElsewhere
<1>4. CASE (\E w \in Workers : Crash(w)) /\ UNCHANGED fileVars
  BY <1>3, <1>4, CrashSteps DEF Control
<1>5. ASSUME Steps(FilesPoints) PROVE now' = now
  BY <1>5 DEF Steps
<1> QED BY <1>1, <1>2, <1>3, <1>4, <1>5, NextSteps

(***************************************************************************)
(* The invariant                                                           *)
(***************************************************************************)

UploadPoints == {"put", "row"}
ScanPoints == {"load", "scan", "clean", "infected", "copy", "removeMoved", "tellUploader"}
Statuses == {"none", "stored", "PENDING", "CLEAN", "INFECTED"}

FileRows ==
    /\ object \in [Uploads -> Nat] /\ signed \in [Uploads -> Nat] /\ placed \subseteq Uploads
    /\ file \in [Uploads -> [status : Statuses, at : Nat]]

\* One upload.  A presigned URL that is still valid was given out this moment, so
\* that what its client put is as young.
FileSound(f) ==
    /\ f \notin placed => object[f] = 0
    /\ signed[f] <= now
    /\ signed[f] # 0 => Kind(f) = "avatarFile"
    /\ signed[f] = now /\ f \in placed => object[f] = now
    /\ file[f].status \in {"PENDING", "INFECTED"} => Scanned(f)
    /\ f \in placed /\ ReferredTo(f) => object[f] > 0

\* What the cleanup may delete: an object that was put, and is gone or old.
Aged(g) == g \in placed /\ (object[g] = 0 \/ object[g] + GraceTime <= now)

\* The locals of a worker that uploads, of one that scans, of one that cleans up.
Uploading(w) ==
    LET f == req[w].v.f
    IN  /\ f \in Uploads /\ req[w].op \in {Kind(f), "avatarUrl"} /\ file[f] = NoFile /\ signed[f] = 0
        /\ req[w].pc = "put" => f \notin placed /\ req[w].op # "avatarUrl"
        /\ req[w].pc = "row" => IF req[w].op = "avatarUrl" THEN Kind(f) = "avatarFile" /\ f \notin placed
                                ELSE f \in placed /\ object[f] = now
Scanning(w) ==
    LET f == req[w].v.f
    IN  /\ f \in Uploads /\ req[w].op = "scan"
        /\ req[w].pc \in {"scan", "clean", "infected"} => file[f].status = "PENDING"
        /\ req[w].pc \in {"copy", "removeMoved"} => file[f].status = "INFECTED"
Cleaning(w) ==
    LET v == req[w].v
    IN  /\ v = [n |-> v.n, todo |-> v.todo] /\ v.todo \subseteq Uploads
        /\ req[w].pc # "list" => \A g \in v.todo : Aged(g)
        /\ req[w].pc = "delete" => \A g \in v.todo : ~ReferredTo(g)
FileLocal(w) ==
    /\ req[w].pc \in UploadPoints => Uploading(w)
    /\ req[w].pc \in ScanPoints => Scanning(w)
    /\ req[w].pc \in {"list", "refs", "delete"} => Cleaning(w)

\* Two workers do not upload, or scan, the same file.
Apart(w, x) ==
    \A P \in {UploadPoints, ScanPoints} : req[w].pc \in P /\ req[x].pc \in P => req[w].v.f # req[x].v.f

\* What was found infected is under quarantine once nobody moves it any more.
Undisturbed == {"overlap", "rpc", "crash"} \cap upset = {}
Moving(f) == \E w \in Workers : req[w].pc = "copy" /\ req[w].v.f = f
Quarantine(f) == f \in placed /\ file[f].status = "INFECTED" => f \in quarantined \/ Moving(f)
MoveSound(w) ==
    /\ req[w].pc \in {"infected", "copy"} => object[req[w].v.f] > 0
    /\ req[w].pc = "removeMoved" => req[w].v.f \in quarantined

FilesInv ==
    /\ FileRows /\ \A f \in Uploads : FileSound(f)
    /\ \A w \in Workers : FileLocal(w)
    /\ \A w, x \in Workers : w # x => Apart(w, x)
    /\ Undisturbed => (\A f \in Uploads : Quarantine(f)) /\ \A w \in Workers : MoveSound(w)

(***************************************************************************)
(* Steps                                                                   *)
(***************************************************************************)

\* The steps of the other parts leave the files alone.
LEMMA FilesElsewhere ==
    ASSUME Control, FilesInv, Elsewhere(FilesPoints), UNCHANGED fileVars
    PROVE  FilesInv'
<1>0. UNCHANGED <<object, quarantined, file, signed, placed>>
  BY DEF fileVars
<1>1. FileRows'
  BY <1>0 DEF FilesInv, FileRows
<1>2. now \in Nat /\ now' \in Nat /\ now' >= now /\ (now' = now \/ Quiet)
  BY DEF Control, Elsewhere
<1>3. ASSUME NEW f \in Uploads PROVE FileSound(f)'
  <2>1. FileSound(f) /\ signed[f] \in Nat
    BY DEF FilesInv, FileRows
  <2>2. ReferredTo(f)' <=> ReferredTo(f)
    BY <1>0 DEF ReferredTo
  <2> QED BY <1>0, <1>2, <2>1, <2>2 DEF FileSound
<1>4. ASSUME NEW w \in Workers PROVE FileLocal(w)'
  <2>1. req'[w] = req[w] \/ req'[w].pc \notin FilesPoints
    BY DEF Elsewhere
  <2>2. CASE req'[w].pc \notin FilesPoints
    BY <2>2 DEF FileLocal, FilesPoints, UploadPoints, ScanPoints
  <2>3. CASE req'[w] = req[w] /\ now' = now
    BY <1>0, <2>3 DEF FilesInv, FileLocal, Uploading, Scanning, Cleaning, Aged, ReferredTo
  <2>4. CASE req'[w] = req[w] /\ Quiet
    BY <2>4 DEF Quiet, At, FileLocal, UploadPoints, ScanPoints
  <2> QED BY <1>2, <2>1, <2>2, <2>3, <2>4
<1>5. ASSUME NEW w \in Workers, NEW x \in Workers, w # x PROVE Apart(w, x)'
  <2>1. \A y \in Workers : req'[y] = req[y] \/ req'[y].pc \notin FilesPoints
    BY DEF Elsewhere
  <2>2. Apart(w, x)
    BY <1>5 DEF FilesInv
  <2> QED BY <2>1, <2>2 DEF Apart, FilesPoints, UploadPoints, ScanPoints
<1>6. ASSUME Undisturbed' PROVE (\A f \in Uploads : Quarantine(f)') /\ \A w \in Workers : MoveSound(w)'
  <2>1. Undisturbed /\ \A w \in Workers : req[w].pc \in FilesPoints => req'[w] = req[w]
    BY <1>6 DEF Undisturbed, Elsewhere
  <2>2. ASSUME NEW f \in Uploads PROVE Quarantine(f)'
    BY <1>0, <2>1 DEF FilesInv, Quarantine, Moving, FilesPoints
  <2>3. ASSUME NEW w \in Workers PROVE MoveSound(w)'
    <3>1. req'[w] = req[w] \/ req'[w].pc \notin FilesPoints
      BY DEF Elsewhere
    <3> QED BY <1>0, <2>1, <3>1 DEF FilesInv, MoveSound, FilesPoints
  <2> QED BY <2>2, <2>3
<1> QED BY <1>1, <1>3, <1>4, <1>5, <1>6 DEF FilesInv

\* A step of w, by its parts.
LEMMA FilesStep1 ==
    ASSUME FilesInv, NEW w \in Workers, Mine(w), FileRows', \A f \in Uploads : FileSound(f)',
           \A x \in Workers : FileLocal(x)', \A x \in Workers \ {w} : Apart(w, x)',
           Undisturbed' => (\A f \in Uploads : Quarantine(f)') /\ MoveSound(w)'
    PROVE  FilesInv'
<1>1. ASSUME NEW x \in Workers, NEW y \in Workers, x # y PROVE Apart(x, y)'
  <2>1. CASE x # w /\ y # w
    BY <1>1, <2>1 DEF FilesInv, Apart, Mine
  <2>2. CASE x = w
    BY <1>1, <2>2
  <2>3. CASE y = w
    BY <1>1, <2>3 DEF Apart
  <2> QED BY <2>1, <2>2, <2>3
<1>2. ASSUME Undisturbed', NEW x \in Workers PROVE MoveSound(x)'
  BY <1>2 DEF Undisturbed, Mine, MoveSound
<1> QED BY <1>1, <1>2 DEF FilesInv

\* A worker that goes on with its file, or with something else, stays apart.
LEMMA ApartKeeps ==
    ASSUME FilesInv, NEW w \in Workers, Mine(w),
           \/ req'[w].pc \notin UploadPoints \cup ScanPoints
           \/ \E P \in {UploadPoints, ScanPoints} : {req[w].pc, req'[w].pc} \subseteq P /\ req'[w].v = req[w].v
    PROVE  \A x \in Workers \ {w} : Apart(w, x)'
<1>1. UploadPoints \cap ScanPoints = {}
  BY DEF UploadPoints, ScanPoints
<1>2. \A x \in Workers \ {w} : Apart(w, x) /\ req'[x] = req[x]
  BY DEF FilesInv, Mine
<1> QED BY <1>1, <1>2 DEF Apart

\* The objects, the rows and the presigned URLs stay: the others' locals do.
LEMMA FilesQuiet ==
    ASSUME FilesInv, NEW w \in Workers, Mine(w), now' = now, UNCHANGED <<object, quarantined, file, signed, placed>>,
           FileLocal(w)', \A x \in Workers \ {w} : Apart(w, x)', Undisturbed' => MoveSound(w)',
           Undisturbed' => req[w].pc # "copy"
    PROVE  FilesInv'
<1>1. FileRows' /\ \A f \in Uploads : FileSound(f)'
  BY DEF FilesInv, FileRows, FileSound, ReferredTo
<1>2. ASSUME NEW x \in Workers \ {w} PROVE FileLocal(x)'
  BY DEF FilesInv, Mine, FileLocal, Uploading, Scanning, Cleaning, Aged, ReferredTo
<1>3. ASSUME Undisturbed' PROVE \A f \in Uploads : Quarantine(f)'
  <2>1. Undisturbed
    BY <1>3 DEF Undisturbed, Mine
  <2>2. \A x \in Workers : req[x].pc = "copy" => req'[x] = req[x]
    BY <1>3 DEF Mine
  <2> QED BY <2>1, <2>2 DEF FilesInv, Quarantine, Moving
<1> QED BY <1>1, <1>2, <1>3, FilesStep1

\* The handler ends and the tables stay.
LEMMA FilesEnd ==
    ASSUME FilesInv, NEW w \in Workers, Mine(w), now' = now, UNCHANGED <<object, quarantined, file, signed, placed>>,
           req'[w].pc \notin UploadPoints \cup ScanPoints \cup {"list", "refs", "delete"},
           req[w].pc # "copy"
    PROVE  FilesInv'
<1>1. FileLocal(w)' /\ MoveSound(w)'
  BY DEF FileLocal, MoveSound, UploadPoints, ScanPoints
<1> QED BY <1>1, FilesQuiet, ApartKeeps

\* What a step leaves in its worker, its operation included.
LEMMA CallOwn ==
    ASSUME Control, NEW w \in Workers, NEW op, NEW pc, NEW v, NEW what, CallNoting(w, op, pc, v, what)
    PROVE  Mine(w) /\ req'[w].pc = pc /\ req'[w].op = op /\ req'[w].v = v /\ req[w].pc = "idle"
<1>1. Steps({pc}) /\ req'[w] = [pc |-> pc, op |-> op, v |-> v]
  BY CallSteps DEF Control
<1> QED BY <1>1, CallMine

\* Going on changes a worker's own entry only.
LEMMA GotoOwn ==
    ASSUME Control, NEW w \in Workers, NEW from, NEW to, Goto(w, from, to), from # "idle"
    PROVE  /\ Mine(w) /\ req[w].pc = from /\ upset' = upset
           /\ req'[w].pc = to /\ req'[w].op = req[w].op /\ req'[w].v = req[w].v
<1>1. req'[w].op = req[w].op
  <2>1. Steps({from, to}) /\ req'[w].op = req[w].op
    BY GotoSteps DEF Control
  <2> QED BY <2>1
<1> QED BY <1>1, GotoMine

\* So does a failure that ends a handler, which is noted.
LEMMA FailOwn ==
    ASSUME Control, NEW w \in Workers, NEW from, NEW kind, FailTo(w, from, kind, Idle), from # "idle"
    PROVE  Mine(w) /\ req'[w].pc = "idle" /\ req[w].pc = from /\ upset' = upset \cup {kind}
  BY FailMine, IdleEntry

(***************************************************************************)
(* Operations taken up                                                     *)
(***************************************************************************)

\* An upload is taken up under a key of its own.
LEMMA UploadCalls ==
    ASSUME Control, FilesInv, now' = now, NEW w \in Workers, NEW f \in Uploads, UploadFile(w, f) \/ AvatarUploadUrl(w, f)
    PROVE  FilesInv'
<1>1. PICK op, pc : /\ CallNoting(w, op, pc, [f |-> f], {}) /\ Fresh(f) /\ UNCHANGED fileVars
                    /\ \/ op = Kind(f) /\ pc = "put"
                       \/ op = "avatarUrl" /\ pc = "row" /\ Kind(f) = "avatarFile"
  BY DEF UploadFile, AvatarUploadUrl, Call
<1>2. PICK v : v = [f |-> f]
  OBVIOUS
<1>3. Mine(w) /\ req'[w].pc = pc /\ req'[w].op = op /\ req'[w].v = v /\ req[w].pc = "idle"
  BY <1>1, <1>2, CallOwn
<1>4. UNCHANGED <<object, quarantined, file, signed, placed>>
  BY <1>1 DEF fileVars
<1>5. f \notin placed /\ signed[f] = 0 /\ file[f] = NoFile
  BY <1>1 DEF Fresh
<1>6. Uploading(w)'
  <2>1. Kind(f) # "avatarUrl"
    BY FilesAssumption DEF Kind
  <2> QED BY <1>1, <1>2, <1>3, <1>4, <1>5, <2>1 DEF Uploading
<1>7. FileLocal(w)' /\ MoveSound(w)'
  BY <1>1, <1>3, <1>6 DEF FileLocal, MoveSound, UploadPoints, ScanPoints
<1>8. ASSUME NEW x \in Workers \ {w} PROVE Apart(w, x)'
  <2>1. req'[x] = req[x] /\ (req[x].pc \in UploadPoints => req[x].op \in {Kind(req[x].v.f), "avatarUrl"})
    BY <1>3 DEF FilesInv, FileLocal, Uploading, Mine
  <2>2. req[x].op \in {Kind(f), "avatarUrl"} => req[x].v.f # f
    BY <1>1 DEF Fresh, Local
  <2>3. req[x].pc \in UploadPoints => req[x].v.f # f
    BY <2>1, <2>2
  <2>4. req'[w].pc \notin ScanPoints
    BY <1>1, <1>3 DEF ScanPoints
  <2> QED BY <1>2, <1>3, <2>1, <2>3, <2>4 DEF Apart
<1> QED BY <1>3, <1>4, <1>7, <1>8, FilesQuiet

\* A scan is taken up for a file that has a job and no scan yet.
LEMMA ScanCall ==
    ASSUME Control, FilesInv, now' = now, NEW w \in Workers, NEW f \in Uploads, ScanJob(w, f)
    PROVE  FilesInv'
<1>1. /\ CallNoting(w, "scan", "load", [f |-> f], {})
      /\ \A x \in Workers : req[x].op = "scan" => req[x].v.f # f
  BY DEF ScanJob, Waits, Call, Local
<1>2. PICK v : v = [f |-> f]
  OBVIOUS
<1>3. Mine(w) /\ req'[w].pc = "load" /\ req'[w].op = "scan" /\ req'[w].v = v /\ req[w].pc = "idle"
  BY <1>1, <1>2, CallOwn
<1>4. UNCHANGED <<object, quarantined, file, signed, placed>>
  BY DEF ScanJob
<1>5. FileLocal(w)' /\ MoveSound(w)'
  BY <1>2, <1>3 DEF FileLocal, Scanning, MoveSound, UploadPoints, ScanPoints
<1>6. ASSUME NEW x \in Workers \ {w} PROVE Apart(w, x)'
  <2>1. req'[x] = req[x] /\ (req[x].pc \in ScanPoints => req[x].op = "scan")
    BY <1>3 DEF FilesInv, FileLocal, Scanning, Mine
  <2>2. req'[w].pc \notin UploadPoints
    BY <1>3 DEF UploadPoints
  <2> QED BY <1>1, <1>2, <1>3, <2>1, <2>2 DEF Apart
<1> QED BY <1>3, <1>4, <1>5, <1>6, FilesQuiet

\* Reviews, sweeps and cleanups are taken up.
LEMMA OtherFileCalls ==
    ASSUME Control, FilesInv, now' = now, NEW w \in Workers, Review(w) \/ SweepPending(w) \/ Cleanup(w)
    PROVE  FilesInv'
<1>1. UNCHANGED <<object, quarantined, file, signed, placed>>
  BY DEF Review, SweepPending, Cleanup, fileVars
<1>2. CASE Review(w) \/ SweepPending(w)
  <2>1. PICK op, pc, v, what : CallNoting(w, op, pc, v, what) /\ pc \in {"review", "sweep"}
    BY <1>2 DEF Review, SweepPending, Call
  <2>2. Mine(w) /\ req'[w].pc \in {"review", "sweep"} /\ req[w].pc = "idle"
    BY <2>1, CallOwn
  <2> QED BY <1>1, <2>2, FilesEnd DEF UploadPoints, ScanPoints
<1>3. CASE Cleanup(w)
  <2>1. PICK v : v = [n |-> 1, todo |-> {}]
    OBVIOUS
  <2>2. Mine(w) /\ req'[w].pc = "list" /\ req'[w].v = v /\ req[w].pc = "idle"
    BY <1>3, <2>1, CallOwn DEF Cleanup, Call
  <2>3. FileLocal(w)' /\ MoveSound(w)'
    BY <2>1, <2>2 DEF FileLocal, Cleaning, MoveSound, UploadPoints, ScanPoints
  <2>4. \A x \in Workers \ {w} : Apart(w, x)'
    BY <2>2, ApartKeeps DEF UploadPoints, ScanPoints
  <2> QED BY <1>1, <2>2, <2>3, <2>4, FilesQuiet
<1> QED BY <1>2, <1>3

(***************************************************************************)
(* Steps that leave the objects and the rows                               *)
(***************************************************************************)

\* The queue and the reviews change no object and no row.
LEMMA ReviewAndSweepEnd ==
    ASSUME Control, FilesInv, now' = now, NEW w \in Workers,
           EnqueueScan(w) \/ WriteReview(w) \/ SweepOne(w) \/ SweptAll(w) \/ TellUploader(w)
    PROVE  FilesInv'
<1>1. UNCHANGED <<object, quarantined, file, signed, placed>>
  BY DEF EnqueueScan, WriteReview, SweepOne, SweptAll, TellUploader
<1>2. Mine(w) /\ req'[w].pc \in {"idle", "sweep"} /\ req[w].pc # "copy"
  <2>1. \/ \E from \in {"enqueueScan", "review", "sweep", "tellUploader"} : End(w, from)
        \/ \E from \in {"enqueueScan", "sweep", "tellUploader"}, kind \in {"rpc", "db"} : FailTo(w, from, kind, Idle)
        \/ \E v : GotoWith(w, "sweep", "sweep", v)
    BY DEF EnqueueScan, WriteReview, SweepOne, SweptAll, TellUploader
  <2> QED BY <2>1, EndMine, FailOwn, GotoWithMine
<1> QED BY <1>1, <1>2, FilesEnd DEF UploadPoints, ScanPoints

\* A verdict is looked up for a pending file.
LEMMA VerdictKeeps ==
    ASSUME Control, FilesInv, now' = now, NEW w \in Workers, LoadPendingTarget(w) \/ GetVerdict(w)
    PROVE  FilesInv'
<1>1. UNCHANGED <<object, quarantined, file, signed, placed>>
  BY DEF LoadPendingTarget, GetVerdict
<1>2. CASE \/ End(w, "load") \/ FailTo(w, "scan", "rpc", Idle)
  <2>1. Mine(w) /\ req'[w].pc = "idle" /\ req[w].pc # "copy"
    BY <1>2, EndMine, FailOwn
  <2> QED BY <1>1, <2>1, FilesEnd DEF UploadPoints, ScanPoints
<1>3. ASSUME NEW from, NEW to, Goto(w, from, to),
             \/ from = "load" /\ to = "scan" /\ file[Local(w).f].status = "PENDING"
             \/ from = "scan" /\ to \in {"infected", "clean"} /\ object[Local(w).f] > 0
      PROVE  FilesInv'
  <2>1. Mine(w) /\ req[w].pc = from /\ req'[w].pc = to /\ req'[w].op = req[w].op /\ req'[w].v = req[w].v
    BY <1>3, GotoOwn
  <2>2. Scanning(w) /\ {req[w].pc, req'[w].pc} \subseteq ScanPoints
    BY <1>3, <2>1 DEF FilesInv, FileLocal, ScanPoints
  <2>3. Scanning(w)'
    BY <1>1, <1>3, <2>1, <2>2 DEF Scanning, Local
  <2>4. FileLocal(w)' /\ MoveSound(w)'
    BY <1>1, <1>3, <2>1, <2>3 DEF FileLocal, MoveSound, Local, UploadPoints, ScanPoints
  <2>5. \A x \in Workers \ {w} : Apart(w, x)'
    BY <2>1, <2>2, ApartKeeps
  <2> QED BY <1>1, <1>3, <2>1, <2>4, <2>5, FilesQuiet
<1>4. \/ End(w, "load") \/ FailTo(w, "scan", "rpc", Idle)
      \/ \E from, to : /\ Goto(w, from, to)
                       /\ \/ from = "load" /\ to = "scan" /\ file[Local(w).f].status = "PENDING"
                          \/ from = "scan" /\ to \in {"infected", "clean"} /\ object[Local(w).f] > 0
  <2>1. CASE LoadPendingTarget(w)
    BY <2>1 DEF LoadPendingTarget
  <2>2. CASE GetVerdict(w)
    BY <2>2 DEF GetVerdict
  <2> QED BY <2>1, <2>2
<1> QED BY <1>2, <1>3, <1>4

\* The cleanup lists, reads the references, takes the next prefix.
LEMMA CleanupReads ==
    ASSUME Control, FilesInv, now' = now, NEW w \in Workers, ListObjects(w) \/ ReadReferences(w) \/ NextPrefix(w)
    PROVE  FilesInv'
<1>1. UNCHANGED <<object, quarantined, file, signed, placed>>
  BY DEF ListObjects, ReadReferences, NextPrefix, fileVars
<1>2. CASE End(w, "delete")
  <2>1. Mine(w) /\ req'[w].pc = "idle" /\ req[w].pc # "copy"
    BY <1>2, EndMine
  <2> QED BY <1>1, <2>1, FilesEnd DEF UploadPoints, ScanPoints
<1>3. ASSUME NEW from, NEW to, NEW n, NEW todo, GotoWith(w, from, to, [n |-> n, todo |-> todo]),
             from \in {"list", "refs", "delete"}, to \in {"list", "refs", "delete"}, todo \subseteq Uploads,
             to # "list" => \A g \in todo : Aged(g),
             to = "delete" => \A g \in todo : ~ReferredTo(g)
      PROVE  FilesInv'
  <2>1. PICK v : v = [n |-> n, todo |-> todo]
    OBVIOUS
  <2>2. Mine(w) /\ req'[w].pc = to /\ req'[w].v = v /\ req[w].pc = from
    BY <1>3, <2>1, GotoWithMine
  <2>3. v = [n |-> v.n, todo |-> v.todo] /\ v.todo = todo
    BY <2>1
  <2>4. Cleaning(w)'
    BY <1>1, <1>3, <2>2, <2>3 DEF Cleaning, Aged, ReferredTo
  <2>5. FileLocal(w)' /\ MoveSound(w)'
    BY <1>3, <2>2, <2>4 DEF FileLocal, MoveSound, UploadPoints, ScanPoints
  <2>6. \A x \in Workers \ {w} : Apart(w, x)'
    BY <1>3, <2>2, ApartKeeps DEF UploadPoints, ScanPoints
  <2> QED BY <1>1, <1>3, <2>2, <2>5, <2>6, FilesQuiet
<1>4. PICK n, todo : req[w].pc \in {"list", "refs", "delete"} => Cleaning(w) /\ req[w].v = [n |-> n, todo |-> todo] /\ todo \subseteq Uploads
  BY DEF FilesInv, FileLocal, Cleaning
<1>5. PICK v : v = [n |-> n, todo |-> todo]
  OBVIOUS
<1>6. CASE ListObjects(w)
  <2>1. PICK aged : aged = {f \in Uploads : Kind(f) = Cleaned[Local(w).n] /\ OldEnough(f)}
    OBVIOUS
  <2>2. GotoWith(w, "list", "refs", [Local(w) EXCEPT !.todo = aged]) /\ req[w].pc = "list"
    BY <1>6, <2>1 DEF ListObjects, GotoWith, Become, At
  <2>3. [v EXCEPT !.todo = aged] = [n |-> n, todo |-> aged]
    BY <1>5
  <2>4. Local(w) = v
    BY <1>4, <1>5, <2>2 DEF Local
  <2>5. \A g \in aged : Aged(g)
    BY <2>1 DEF OldEnough, Aged, FilesInv, FileSound
  <2>6. GotoWith(w, "list", "refs", [n |-> n, todo |-> aged]) /\ aged \subseteq Uploads
    BY <2>1, <2>2, <2>3, <2>4
  <2> QED BY <1>3, <2>5, <2>6
<1>7. CASE ReadReferences(w)
  <2>1. PICK rest : rest = {f \in todo : ~ReferredTo(f)}
    OBVIOUS
  <2>2. GotoWith(w, "refs", "delete", [Local(w) EXCEPT !.todo = {f \in @ : ~ReferredTo(f)}]) /\ req[w].pc = "refs"
    BY <1>7 DEF ReadReferences, GotoWith, Become, At
  <2>3. [v EXCEPT !.todo = {f \in @ : ~ReferredTo(f)}] = [n |-> n, todo |-> rest]
    BY <1>5, <2>1
  <2>4. Local(w) = v
    BY <1>4, <1>5, <2>2 DEF Local
  <2>5. \A g \in rest : Aged(g) /\ ~ReferredTo(g)
    BY <1>4, <1>5, <2>1, <2>2, <2>4 DEF Cleaning, Local
  <2>6. GotoWith(w, "refs", "delete", [n |-> n, todo |-> rest]) /\ rest \subseteq Uploads
    BY <1>4, <2>1, <2>2, <2>3, <2>4
  <2> QED BY <1>3, <2>5, <2>6
<1>8. CASE NextPrefix(w)
  <2>1. req[w].pc = "delete" /\ (End(w, "delete") \/ GotoWith(w, "delete", "list", [Local(w) EXCEPT !.n = @ + 1]))
    BY <1>8 DEF NextPrefix, At
  <2>2. Local(w) = v
    BY <1>4, <1>5, <2>1 DEF Local
  <2>3. [v EXCEPT !.n = @ + 1] = [n |-> n + 1, todo |-> todo]
    BY <1>5
  <2>4. CASE GotoWith(w, "delete", "list", [n |-> n + 1, todo |-> todo])
    BY <1>3, <1>4, <2>1, <2>4
  <2> QED BY <1>2, <2>1, <2>2, <2>3, <2>4
<1> QED BY <1>6, <1>7, <1>8

(***************************************************************************)
(* Steps that put, write or delete                                         *)
(***************************************************************************)

\* What the others know of their files survives a step at f, which is theirs only
\* for the cleanup.
LEMMA OthersKeep ==
    ASSUME FilesInv, now' = now, NEW f \in Uploads, NEW x \in Workers, req'[x] = req[x],
           req[x].pc \in UploadPoints => req[x].v.f # f,
           req[x].pc \in {"scan", "clean", "infected", "copy", "removeMoved"} =>
             req[x].v.f # f \/ file'[f].status = file[f].status,
           \A g \in Uploads \ {f} : object'[g] = object[g] /\ signed'[g] = signed[g] /\ (g \in placed' <=> g \in placed),
           \A g \in Uploads \ {f} : file'[g] = file[g] \/ (file'[g] = NoFile /\ Kind(g) = "avatarFile"),
           Aged(f) => Aged(f)', ~ReferredTo(f) /\ Aged(f) => ~ReferredTo(f)'
    PROVE  FileLocal(x)'
<1>1. req'[x] = req[x] /\ FileLocal(x)
  BY DEF FilesInv
<1>2. ASSUME req[x].pc \in UploadPoints PROVE Uploading(x)'
  <2>1. Uploading(x) /\ req[x].v.f # f
    BY <1>1, <1>2 DEF FileLocal
  <2> QED BY <1>1, <2>1 DEF Uploading
<1>3. ASSUME req[x].pc \in ScanPoints PROVE Scanning(x)'
  <2>1. Scanning(x) /\ req[x].v.f \in Uploads
    BY <1>1, <1>3 DEF FileLocal, Scanning
  <2>2. file[req[x].v.f].status \in {"PENDING", "INFECTED"} => Kind(req[x].v.f) # "avatarFile"
    BY <2>1 DEF FilesInv, FileSound, Scanned
  <2>3. req[x].pc \in {"scan", "clean", "infected", "copy", "removeMoved"} =>
          file'[req[x].v.f].status = file[req[x].v.f].status
    BY <2>1, <2>2 DEF Scanning
  <2> QED BY <1>1, <2>1, <2>3 DEF Scanning
<1>4. ASSUME req[x].pc \in {"list", "refs", "delete"} PROVE Cleaning(x)'
  <2>1. Cleaning(x)
    BY <1>1, <1>4 DEF FileLocal
  <2>2. ASSUME NEW g \in Uploads, Aged(g) PROVE Aged(g)'
    BY <2>2 DEF Aged
  <2>3. ASSUME NEW g \in Uploads, ~ReferredTo(g), Aged(g) PROVE ~ReferredTo(g)'
    <3>1. CASE g # f /\ file'[g] = file[g]
      BY <2>3, <3>1 DEF ReferredTo
    <3>2. CASE g # f /\ file'[g] = NoFile
      BY <3>2 DEF ReferredTo, NoFile
    <3> QED BY <2>3, <3>1, <3>2
  <2> QED BY <1>1, <2>1, <2>2, <2>3 DEF Cleaning
<1> QED BY <1>1, <1>2, <1>3, <1>4 DEF FileLocal

\* The file of an upload is no other worker's, and not under a scan.
LEMMA MyUpload ==
    ASSUME FilesInv, NEW w \in Workers, req[w].pc \in UploadPoints, NEW x \in Workers \ {w}
    PROVE  req[x].pc \in UploadPoints => req[x].v.f # req[w].v.f
<1>1. Apart(w, x)
  BY DEF FilesInv
<1> QED BY <1>1 DEF Apart

\* No two workers scan the same file.
LEMMA MyScan ==
    ASSUME FilesInv, NEW w \in Workers, req[w].pc \in ScanPoints, NEW x \in Workers \ {w}
    PROVE  req[x].pc \in ScanPoints => req[x].v.f # req[w].v.f
<1>1. Apart(w, x)
  BY DEF FilesInv
<1> QED BY <1>1 DEF Apart

\* An upload's object is put at this moment.
LEMMA PutKeeps ==
    ASSUME Control, FilesInv, now' = now, NEW w \in Workers, PutObject(w)
    PROVE  FilesInv'
<1>0. UNCHANGED <<quarantined, file, signed>>
  BY DEF PutObject
<1>1. CASE FailTo(w, "put", "rpc", Idle) /\ UNCHANGED <<object, placed>>
  <2>1. Mine(w) /\ req'[w].pc = "idle" /\ req[w].pc # "copy"
    BY <1>1, FailOwn
  <2> QED BY <1>0, <1>1, <2>1, FilesEnd DEF UploadPoints, ScanPoints
<1>2. ASSUME Goto(w, "put", "row"), object' = [object EXCEPT ![Local(w).f] = now], placed' = placed \cup {Local(w).f}
      PROVE  FilesInv'
  <2>1. Mine(w) /\ req[w].pc = "put" /\ req'[w].pc = "row" /\ req'[w].op = req[w].op /\ req'[w].v = req[w].v
    BY <1>2, GotoOwn
  <2>2. Uploading(w)
    BY <2>1 DEF FilesInv, FileLocal, UploadPoints
  <2>3. PICK f \in Uploads : f = req[w].v.f
    BY <2>2 DEF Uploading
  <2>4. f \notin placed /\ signed[f] = 0 /\ file[f] = NoFile /\ NoFile.status = "none"
    BY <2>1, <2>2, <2>3 DEF Uploading, NoFile
  <2>5. object' = [object EXCEPT ![f] = now] /\ placed' = placed \cup {f} /\ now \in Nat \ {0}
    BY <1>2, <2>3 DEF Local, Control
  <2>6. FileRows' /\ object'[f] = now /\ \A g \in Uploads \ {f} : object'[g] = object[g]
    BY <1>0, <2>5 DEF FilesInv, FileRows
  <2>7. ASSUME NEW g \in Uploads PROVE FileSound(g)'
    <3>1. CASE g = f
      BY <1>0, <2>4, <2>5, <2>6, <3>1 DEF FileSound
    <3>2. CASE g # f
      BY <1>0, <2>5, <2>6, <3>2 DEF FilesInv, FileSound, ReferredTo
    <3> QED BY <3>1, <3>2
  <2>8. Uploading(w)'
    BY <1>0, <2>1, <2>2, <2>3, <2>5, <2>6 DEF Uploading
  <2>9. ASSUME NEW x \in Workers PROVE FileLocal(x)'
    <3>1. CASE x = w
      BY <2>1, <2>8, <3>1 DEF FileLocal, UploadPoints, ScanPoints
    <3>2. CASE x # w
      <4>1. req'[x] = req[x]
        BY <2>1, <3>2 DEF Mine
      <4>2. req[x].pc \in UploadPoints => req[x].v.f # f
        BY <2>1, <2>3, <3>2, MyUpload DEF UploadPoints
      <4>3. ~Aged(f) /\ \A g \in Uploads \ {f} : g \in placed' <=> g \in placed
        BY <2>4, <2>5 DEF Aged
      <4> QED BY <1>0, <2>6, <4>1, <4>2, <4>3, OthersKeep
    <3> QED BY <3>1, <3>2
  <2>10. \A x \in Workers \ {w} : Apart(w, x)'
    BY <2>1, ApartKeeps DEF UploadPoints
  <2>11. ASSUME Undisturbed' PROVE (\A g \in Uploads : Quarantine(g)') /\ MoveSound(w)'
    <3>1. Undisturbed
      BY <2>1, <2>11 DEF Undisturbed, Mine
    <3>2. \A x \in Workers : req[x].pc = "copy" => req'[x] = req[x]
      BY <2>1 DEF Mine
    <3>3. ASSUME NEW g \in Uploads PROVE Quarantine(g)'
      BY <1>0, <2>4, <2>5, <3>1, <3>2 DEF FilesInv, Quarantine, Moving
    <3> QED BY <2>1, <3>3 DEF MoveSound
  <2> QED BY <2>1, <2>6, <2>7, <2>9, <2>10, <2>11, FilesStep1
<1> QED BY <1>1, <1>2 DEF PutObject

\* A job that stalled is given up.
LEMMA FailStalledKeeps ==
    ASSUME Control, FilesInv, now' = now, NEW f \in Uploads, FailStalled(f)
    PROVE  FilesInv'
<1>1. UNCHANGED <<object, quarantined, file, signed, placed>> /\ req' = req /\ upset' = upset
  BY DEF FailStalled, control
<1>2. FileRows' /\ \A g \in Uploads : FileSound(g)'
  BY <1>1 DEF FilesInv, FileRows, FileSound, ReferredTo
<1>3. \A w \in Workers : FileLocal(w)'
  BY <1>1 DEF FilesInv, FileLocal, Uploading, Scanning, Cleaning, Aged, ReferredTo
<1>4. \A w, x \in Workers : w # x => Apart(w, x)'
  BY <1>1 DEF FilesInv, Apart
<1>5. Undisturbed' => (\A g \in Uploads : Quarantine(g)') /\ \A w \in Workers : MoveSound(w)'
  BY <1>1 DEF FilesInv, Undisturbed, Quarantine, Moving, MoveSound
<1> QED BY <1>2, <1>3, <1>4, <1>5 DEF FilesInv

\* A client puts what its URL, still valid, was signed for.
LEMMA ClientPutKeeps ==
    ASSUME Control, FilesInv, now' = now, NEW f \in Uploads, ClientPut(f)
    PROVE  FilesInv'
<1>0. UNCHANGED <<quarantined, file, signed>> /\ req' = req /\ upset' = upset
  BY DEF ClientPut, control
<1>1. signed[f] # 0 /\ signed[f] = now /\ object' = [object EXCEPT ![f] = now] /\ placed' = placed \cup {f}
      /\ now \in Nat \ {0}
  BY DEF ClientPut, Control
<1>2. FileRows' /\ object'[f] = now /\ \A g \in Uploads \ {f} : object'[g] = object[g]
  BY <1>0, <1>1 DEF FilesInv, FileRows
<1>3. ASSUME NEW g \in Uploads PROVE FileSound(g)'
  <2>1. FileSound(g) /\ (ReferredTo(g)' <=> ReferredTo(g))
    BY <1>0 DEF FilesInv, ReferredTo
  <2> QED BY <1>0, <1>1, <1>2, <2>1 DEF FileSound
<1>4. ~Aged(f)
  BY <1>1, FilesAssumption DEF FilesInv, FileSound, Aged
<1>5. ASSUME NEW x \in Workers PROVE FileLocal(x)'
  <2>1. req[x].pc \in UploadPoints => req[x].v.f # f
    BY <1>1 DEF FilesInv, FileLocal, Uploading
  <2>2. \A g \in Uploads \ {f} : g \in placed' <=> g \in placed
    BY <1>1
  <2> QED BY <1>0, <1>2, <1>4, <2>1, <2>2, OthersKeep
<1>6. \A w, x \in Workers : w # x => Apart(w, x)'
  BY <1>0 DEF FilesInv, Apart
<1>7. ASSUME Undisturbed' PROVE (\A g \in Uploads : Quarantine(g)') /\ \A w \in Workers : MoveSound(w)'
  <2>1. Undisturbed
    BY <1>0, <1>7 DEF Undisturbed
  <2>2. Kind(f) = "avatarFile" /\ file[f].status # "INFECTED"
    BY <1>1 DEF FilesInv, FileSound, Scanned
  <2>3. ASSUME NEW g \in Uploads PROVE Quarantine(g)'
    BY <1>0, <1>1, <2>1, <2>2 DEF FilesInv, Quarantine, Moving
  <2>4. ASSUME NEW w \in Workers PROVE MoveSound(w)'
    <3>1. MoveSound(w) /\ (req[w].pc \in {"infected", "copy"} => req[w].v.f \in Uploads)
      BY <2>1 DEF FilesInv, FileLocal, Scanning, ScanPoints
    <3> QED BY <1>0, <1>1, <1>2, <3>1 DEF MoveSound
  <2> QED BY <2>3, <2>4
<1> QED BY <1>2, <1>3, <1>5, <1>6, <1>7 DEF FilesInv

\* The row of an upload is written while its object is young.
LEMMA RowKeeps ==
    ASSUME Control, FilesInv, now' = now, NEW w \in Workers, InsertRow(w)
    PROVE  FilesInv'
<1>0. UNCHANGED <<object, quarantined, placed>> /\ req[w].pc = "row"
  BY DEF InsertRow, At
<1>1. CASE FailTo(w, "row", "db", Idle) /\ UNCHANGED <<file, signed>>
  <2>1. Mine(w) /\ req'[w].pc = "idle" /\ req[w].pc # "copy"
    BY <1>1, FailOwn
  <2> QED BY <1>0, <1>1, <2>1, FilesEnd DEF UploadPoints, ScanPoints
<1>2. Uploading(w)
  BY <1>0 DEF FilesInv, FileLocal, UploadPoints
<1>3. PICK f \in Uploads : f = req[w].v.f
  BY <1>2 DEF Uploading
<1>4. signed[f] = 0 /\ file[f] = NoFile /\ NoFile.status = "none"
  BY <1>2, <1>3 DEF Uploading, NoFile
<1>5. IF req[w].op = "avatarUrl" THEN Kind(f) = "avatarFile" /\ f \notin placed ELSE f \in placed /\ object[f] = now
  BY <1>0, <1>2, <1>3 DEF Uploading
<1>6. ASSUME IF Scanned(f) THEN Goto(w, "row", "enqueueScan") ELSE End(w, "row"),
             file' = [g \in Uploads |->
               IF g = f THEN [status |-> IF Scanned(f) THEN "PENDING" ELSE "stored", at |-> now]
               ELSE IF Kind(f) = "avatarFile" /\ Kind(g) = "avatarFile" THEN NoFile ELSE file[g]],
             signed' = [signed EXCEPT ![f] = IF req[w].op = "avatarUrl" THEN now ELSE @]
      PROVE  FilesInv'
  <2>1. Mine(w) /\ req'[w].pc \in {"enqueueScan", "idle"}
    BY <1>6, GotoOwn, EndMine
  <2>2. now \in Nat \ {0} /\ GraceTime \in Nat \ {0}
    BY FilesAssumption DEF Control
  <2>3. PICK new : new = [status |-> IF Scanned(f) THEN "PENDING" ELSE "stored", at |-> now]
    OBVIOUS
  <2>4. new.status \in {"PENDING", "stored"} /\ (new.status = "PENDING" => Scanned(f))
        /\ new \in [status : Statuses, at : Nat]
    BY <2>2, <2>3 DEF Statuses
  <2>5. file'[f] = new /\ \A g \in Uploads \ {f} : file'[g] = file[g] \/ (file'[g] = NoFile /\ Kind(g) = "avatarFile")
    BY <1>6, <2>3
  <2>6. signed'[f] \in {0, now} /\ (signed'[f] # 0 => req[w].op = "avatarUrl")
        /\ signed' \in [Uploads -> Nat] /\ \A g \in Uploads \ {f} : signed'[g] = signed[g]
    BY <1>4, <1>6, <2>2 DEF FilesInv, FileRows
  <2>7. FileRows'
    <3>1. NoFile \in [status : Statuses, at : Nat]
      BY DEF NoFile, Statuses
    <3>2. file' \in [Uploads -> [status : Statuses, at : Nat]]
      BY <1>6, <2>3, <2>4, <3>1 DEF FilesInv, FileRows
    <3> QED BY <1>0, <2>6, <3>2 DEF FilesInv, FileRows
  <2>8. ASSUME NEW g \in Uploads PROVE FileSound(g)'
    <3>1. CASE g = f
      <4>1. FileSound(f)
        BY DEF FilesInv
      <4> QED BY <1>0, <1>5, <2>2, <2>4, <2>5, <2>6, <3>1, <4>1 DEF FileSound
    <3>2. CASE g # f
      <4>1. FileSound(g) /\ (file'[g] = file[g] \/ file'[g].status = "none") /\ signed'[g] = signed[g]
        BY <1>4, <2>5, <2>6, <3>2 DEF FilesInv
      <4> QED BY <1>0, <4>1 DEF FileSound, ReferredTo
    <3> QED BY <3>1, <3>2
  <2>9. ~Aged(f)
    BY <1>5, <2>2 DEF Aged
  <2>10. ASSUME NEW x \in Workers PROVE FileLocal(x)'
    <3>1. CASE x = w
      BY <2>1, <3>1 DEF FileLocal, UploadPoints, ScanPoints
    <3>2. CASE x # w
      <4>1. req'[x] = req[x]
        BY <2>1, <3>2 DEF Mine
      <4>2. req[x].pc \in UploadPoints => req[x].v.f # f
        BY <1>0, <1>3, <3>2, MyUpload DEF UploadPoints
      <4>3. req[x].pc \in {"scan", "clean", "infected", "copy", "removeMoved"} => req[x].v.f # f
        BY <1>4 DEF FilesInv, FileLocal, Scanning, ScanPoints
      <4> QED BY <1>0, <2>5, <2>6, <2>9, <4>1, <4>2, <4>3, OthersKeep
    <3> QED BY <3>1, <3>2
  <2>11. \A x \in Workers \ {w} : Apart(w, x)'
    BY <2>1, ApartKeeps DEF UploadPoints, ScanPoints
  <2>12. ASSUME Undisturbed' PROVE (\A g \in Uploads : Quarantine(g)') /\ MoveSound(w)'
    <3>1. Undisturbed
      BY <2>1, <2>12 DEF Undisturbed, Mine
    <3>2. \A x \in Workers : req[x].pc = "copy" => req'[x] = req[x]
      BY <1>0, <2>1 DEF Mine
    <3>3. ASSUME NEW g \in Uploads PROVE Quarantine(g)'
      <4>1. Quarantine(g) /\ (Moving(g) => Moving(g)')
        BY <3>1, <3>2 DEF FilesInv, Moving
      <4>2. file'[g].status = "INFECTED" => file'[g] = file[g]
        BY <1>4, <2>4, <2>5
      <4> QED BY <1>0, <4>1, <4>2 DEF Quarantine
    <3> QED BY <2>1, <3>3 DEF MoveSound
  <2> QED BY <2>1, <2>7, <2>8, <2>10, <2>11, <2>12, FilesStep1
<1> QED BY <1>1, <1>3, <1>6 DEF InsertRow, Local

\* The verdict: the row of a pending upload is clean, or infected.
LEMMA MarkKeeps ==
    ASSUME Control, FilesInv, now' = now, NEW w \in Workers, MarkClean(w) \/ MarkInfected(w)
    PROVE  FilesInv'
<1>0. UNCHANGED <<object, quarantined, signed, placed>>
  BY DEF MarkClean, MarkInfected
<1>1. PICK verdict \in {"CLEAN", "INFECTED"} :
        /\ file' = [file EXCEPT ![req[w].v.f].status = verdict]
        /\ \/ verdict = "CLEAN" /\ End(w, "clean")
           \/ verdict = "INFECTED" /\ Goto(w, "infected", "copy")
  BY DEF MarkClean, MarkInfected, Local
<1>2. /\ Mine(w) /\ upset' = upset
      /\ \/ verdict = "CLEAN" /\ req[w].pc = "clean" /\ req'[w].pc = "idle"
         \/ /\ verdict = "INFECTED" /\ req[w].pc = "infected" /\ req'[w].pc = "copy"
            /\ req'[w].op = req[w].op /\ req'[w].v = req[w].v
  BY <1>1, GotoOwn, EndMine
<1>3. Scanning(w)
  BY <1>2 DEF FilesInv, FileLocal, ScanPoints
<1>4. PICK f \in Uploads : f = req[w].v.f /\ file[f].status = "PENDING"
  BY <1>2, <1>3 DEF Scanning
<1>5. /\ file' \in [Uploads -> [status : Statuses, at : Nat]]
      /\ file'[f].status = verdict /\ \A g \in Uploads \ {f} : file'[g] = file[g]
  BY <1>1, <1>4 DEF FilesInv, FileRows, Statuses
<1>6. FileRows'
  BY <1>0, <1>5 DEF FilesInv, FileRows
<1>7. ASSUME NEW g \in Uploads PROVE FileSound(g)'
  <2>1. FileSound(g) /\ (ReferredTo(g)' => ReferredTo(g))
        /\ (file'[g].status \in {"PENDING", "INFECTED"} => file[g].status \in {"PENDING", "INFECTED"})
    BY <1>4, <1>5 DEF FilesInv, ReferredTo
  <2> QED BY <1>0, <2>1 DEF FileSound
<1>8. ASSUME NEW x \in Workers PROVE FileLocal(x)'
  <2>1. CASE x = w
    <3>1. req'[w].pc = "copy" => Scanning(w)'
      BY <1>2, <1>3, <1>4, <1>5 DEF Scanning
    <3> QED BY <1>2, <2>1, <3>1 DEF FileLocal, UploadPoints, ScanPoints
  <2>2. CASE x # w
    <3>1. req'[x] = req[x]
      BY <1>2, <2>2 DEF Mine
    <3>2. req[x].pc \in UploadPoints => req[x].v.f # f
      BY <1>4 DEF FilesInv, FileLocal, Uploading, NoFile
    <3>3. req[x].pc \in ScanPoints => req[x].v.f # f
      BY <1>2, <1>4, <2>2, MyScan DEF ScanPoints
    <3>4. ReferredTo(f) /\ (Aged(f) => Aged(f)')
      BY <1>0, <1>4 DEF ReferredTo, Aged
    <3> QED BY <1>0, <1>5, <3>1, <3>2, <3>3, <3>4, OthersKeep DEF ScanPoints
  <2> QED BY <2>1, <2>2
<1>9. \A x \in Workers \ {w} : Apart(w, x)'
  BY <1>2, ApartKeeps DEF UploadPoints, ScanPoints
<1>10. ASSUME Undisturbed' PROVE (\A g \in Uploads : Quarantine(g)') /\ MoveSound(w)'
  <2>1. Undisturbed
    BY <1>2, <1>10 DEF Undisturbed
  <2>2. \A x \in Workers : req[x].pc = "copy" => req'[x] = req[x]
    BY <1>2 DEF Mine
  <2>3. verdict = "INFECTED" => Moving(f)'
    BY <1>2, <1>4 DEF Moving
  <2>4. ASSUME NEW g \in Uploads PROVE Quarantine(g)'
    BY <1>0, <1>5, <2>1, <2>2, <2>3 DEF FilesInv, Quarantine, Moving
  <2>5. MoveSound(w)'
    BY <1>0, <1>2, <2>1 DEF FilesInv, MoveSound
  <2> QED BY <2>4, <2>5
<1> QED BY <1>2, <1>6, <1>7, <1>8, <1>9, <1>10, FilesStep1

\* An infected object is copied to quarantine first.
LEMMA CopyKeeps ==
    ASSUME Control, FilesInv, now' = now, NEW w \in Workers, CopyObject(w)
    PROVE  FilesInv'
<1>0. UNCHANGED <<object, file, signed, placed>>
  BY DEF CopyObject
<1>1. PICK r : r = [req[w] EXCEPT !.pc = "tellUploader"]
  OBVIOUS
<1>2. r.pc = "tellUploader" /\ r.op = req[w].op /\ r.v = req[w].v
  BY <1>1, EntryFields DEF Control
<1>3. \/ /\ Goto(w, "copy", "removeMoved") /\ quarantined' = quarantined \cup {req[w].v.f}
      \/ Goto(w, "copy", "tellUploader") /\ object[req[w].v.f] = 0 /\ quarantined' = quarantined
      \/ FailTo(w, "copy", "rpc", r) /\ quarantined' = quarantined
  BY <1>1 DEF CopyObject, Local
<1>4. /\ Mine(w) /\ req[w].pc = "copy" /\ req'[w].op = req[w].op /\ req'[w].v = req[w].v
      /\ \/ req'[w].pc = "removeMoved" /\ quarantined' = quarantined \cup {req[w].v.f}
         \/ /\ req'[w].pc = "tellUploader" /\ quarantined' = quarantined
            /\ object[req[w].v.f] = 0 \/ "rpc" \in upset'
  <2>1. CASE \E to : Goto(w, "copy", to) /\ \/ to = "removeMoved" /\ quarantined' = quarantined \cup {req[w].v.f}
                                            \/ to = "tellUploader" /\ quarantined' = quarantined /\ object[req[w].v.f] = 0
    BY <2>1, GotoOwn
  <2>2. CASE FailTo(w, "copy", "rpc", r) /\ quarantined' = quarantined
    BY <1>2, <2>2, FailMine
  <2> QED BY <1>3, <2>1, <2>2
<1>5. FileRows' /\ \A g \in Uploads : FileSound(g)'
  BY <1>0 DEF FilesInv, FileRows, FileSound, ReferredTo
<1>6. ASSUME NEW x \in Workers PROVE FileLocal(x)'
  <2>1. CASE x = w
    <3>1. Scanning(w)
      BY <1>4 DEF FilesInv, FileLocal, ScanPoints
    <3>2. Scanning(w)'
      BY <1>0, <1>4, <3>1 DEF Scanning
    <3> QED BY <1>4, <2>1, <3>2 DEF FileLocal, UploadPoints, ScanPoints
  <2>2. CASE x # w
    BY <1>0, <1>4, <2>2 DEF FilesInv, Mine, FileLocal, Uploading, Scanning, Cleaning, Aged, ReferredTo
  <2> QED BY <2>1, <2>2
<1>7. \A x \in Workers \ {w} : Apart(w, x)'
  BY <1>4, ApartKeeps DEF ScanPoints
<1>8. ASSUME Undisturbed' PROVE (\A g \in Uploads : Quarantine(g)') /\ MoveSound(w)'
  <2>1. Undisturbed /\ "rpc" \notin upset'
    BY <1>4, <1>8 DEF Undisturbed, Mine
  <2>2. object[req[w].v.f] > 0
    BY <1>4, <2>1 DEF FilesInv, MoveSound
  <2>3. req'[w].pc = "removeMoved" /\ quarantined' = quarantined \cup {req[w].v.f}
    BY <1>4, <2>1, <2>2
  <2>4. \A g \in Uploads : Moving(g) => Moving(g)' \/ g = req[w].v.f
    BY <1>4 DEF Moving, Mine
  <2>5. ASSUME NEW g \in Uploads PROVE Quarantine(g)'
    BY <1>0, <2>1, <2>3, <2>4 DEF FilesInv, Quarantine
  <2> QED BY <1>4, <2>3, <2>5 DEF MoveSound
<1> QED BY <1>4, <1>5, <1>6, <1>7, <1>8, FilesStep1

\* The object of f, which no row refers to, is deleted.
LEMMA DeleteKeeps ==
    ASSUME Control, FilesInv, now' = now, NEW w \in Workers, Mine(w), UNCHANGED <<quarantined, file, signed, placed>>,
           NEW f \in Uploads, object' = [object EXCEPT ![f] = 0], f \in placed, ~ReferredTo(f), signed[f] # now,
           \A x \in Workers \ {w} : req[x].pc \in UploadPoints => req[x].v.f # f,
           FileLocal(w)', \A x \in Workers \ {w} : Apart(w, x)', Undisturbed' => MoveSound(w)',
           req[w].pc # "copy"
    PROVE  FilesInv'
<1>1. object'[f] = 0 /\ (\A g \in Uploads \ {f} : object'[g] = object[g]) /\ FileRows'
  BY DEF FilesInv, FileRows
<1>2. ASSUME NEW g \in Uploads PROVE FileSound(g)'
  <2>1. FileSound(g) /\ (ReferredTo(g)' <=> ReferredTo(g))
    BY DEF FilesInv, ReferredTo
  <2> QED BY <1>1, <2>1 DEF FileSound
<1>3. ASSUME NEW x \in Workers PROVE FileLocal(x)'
  <2>1. CASE x # w
    <3>1. req'[x] = req[x] /\ Aged(f)'
      BY <1>1, <2>1 DEF Mine, Aged
    <3> QED BY <1>1, <2>1, <3>1, OthersKeep DEF ReferredTo
  <2> QED BY <2>1
<1>4. ASSUME Undisturbed' PROVE \A g \in Uploads : Quarantine(g)'
  <2>1. Undisturbed /\ \A x \in Workers : req[x].pc = "copy" => req'[x] = req[x]
    BY <1>4 DEF Undisturbed, Mine
  <2> QED BY <2>1 DEF FilesInv, Quarantine, Moving
<1> QED BY <1>1, <1>2, <1>3, <1>4, FilesStep1

\* And removed after.
LEMMA RemoveKeeps ==
    ASSUME Control, FilesInv, now' = now, NEW w \in Workers, RemoveObject(w)
    PROVE  FilesInv'
<1>0. UNCHANGED <<quarantined, file, signed, placed>>
  BY DEF RemoveObject
<1>1. PICK r : r = [req[w] EXCEPT !.pc = "tellUploader"]
  OBVIOUS
<1>2. r.pc = "tellUploader" /\ r.op = req[w].op /\ r.v = req[w].v
  BY <1>1, EntryFields DEF Control
<1>3. \/ Goto(w, "removeMoved", "tellUploader") /\ object' = [object EXCEPT ![req[w].v.f] = 0]
      \/ FailTo(w, "removeMoved", "rpc", r) /\ UNCHANGED object
  BY <1>1 DEF RemoveObject, Local
<1>4. /\ Mine(w) /\ req[w].pc = "removeMoved" /\ req'[w].op = req[w].op /\ req'[w].v = req[w].v
      /\ req'[w].pc = "tellUploader"
  <2>1. CASE Goto(w, "removeMoved", "tellUploader")
    BY <2>1, GotoOwn
  <2>2. CASE FailTo(w, "removeMoved", "rpc", r)
    BY <1>2, <2>2, FailMine
  <2> QED BY <1>3, <2>1, <2>2
<1>5. Scanning(w)
  BY <1>4 DEF FilesInv, FileLocal, ScanPoints
<1>6. FileLocal(w)' /\ MoveSound(w)'
  <2>1. Scanning(w)'
    BY <1>4, <1>5 DEF Scanning
  <2> QED BY <1>4, <2>1 DEF FileLocal, MoveSound, UploadPoints, ScanPoints
<1>7. \A x \in Workers \ {w} : Apart(w, x)'
  BY <1>4, ApartKeeps DEF ScanPoints
<1>8. CASE UNCHANGED object
  BY <1>0, <1>4, <1>6, <1>7, <1>8, FilesQuiet
<1>9. CASE object' = [object EXCEPT ![req[w].v.f] = 0]
  <2>1. PICK f \in Uploads : f = req[w].v.f /\ file[f].status = "INFECTED"
    BY <1>4, <1>5 DEF Scanning
  <2>2. ~ReferredTo(f) /\ signed[f] # now
    BY <2>1 DEF ReferredTo, FilesInv, FileSound, Scanned, Control
  <2>3. \A x \in Workers \ {w} : req[x].pc \in UploadPoints => req[x].v.f # f
    BY <2>1 DEF FilesInv, FileLocal, Uploading, NoFile
  <2>4. CASE f \in placed
    BY <1>0, <1>4, <1>6, <1>7, <1>9, <2>1, <2>2, <2>3, <2>4, DeleteKeeps
  <2>5. CASE f \notin placed
    <3>1. object[f] = 0 /\ object \in [Uploads -> Nat]
      BY <2>5 DEF FilesInv, FileSound, FileRows
    <3>2. object' = object
      BY <1>9, <2>1, <3>1
    <3> QED BY <1>8, <3>2
  <2> QED BY <2>4, <2>5
<1> QED BY <1>3, <1>8, <1>9

\* The cleanup deletes an object no row refers to.
LEMMA OrphanKeeps ==
    ASSUME Control, FilesInv, now' = now, NEW w \in Workers, DeleteOrphan(w)
    PROVE  FilesInv'
<1>0. UNCHANGED <<quarantined, file, signed, placed>> /\ req[w].pc = "delete"
  BY DEF DeleteOrphan, At
<1>1. Cleaning(w)
  BY <1>0 DEF FilesInv, FileLocal
<1>2. PICK n, todo : req[w].v = [n |-> n, todo |-> todo] /\ todo \subseteq Uploads
  BY <1>1 DEF Cleaning
<1>3. PICK v : v = [n |-> n, todo |-> todo]
  OBVIOUS
<1>4. Local(w) = v /\ v.todo = todo
  BY <1>2, <1>3 DEF Local
<1>5. PICK f \in todo :
        \/ GotoWith(w, "delete", "delete", [v EXCEPT !.todo = @ \ {f}]) /\ object' = [object EXCEPT ![f] = 0]
        \/ FailTo(w, "delete", "rpc", Idle) /\ UNCHANGED object
  BY <1>4 DEF DeleteOrphan
<1>6. CASE FailTo(w, "delete", "rpc", Idle) /\ UNCHANGED object
  <2>1. Mine(w) /\ req'[w].pc = "idle" /\ req[w].pc # "copy"
    BY <1>6, FailOwn
  <2> QED BY <1>0, <1>6, <2>1, FilesEnd DEF UploadPoints, ScanPoints
<1>7. CASE GotoWith(w, "delete", "delete", [v EXCEPT !.todo = @ \ {f}]) /\ object' = [object EXCEPT ![f] = 0]
  <2>1. PICK u : u = [n |-> n, todo |-> todo \ {f}]
    OBVIOUS
  <2>2. [v EXCEPT !.todo = @ \ {f}] = u
    BY <1>3, <2>1
  <2>3. Mine(w) /\ req'[w].pc = "delete" /\ req'[w].v = u
    BY <1>7, <2>2, GotoWithMine
  <2>4. f \in Uploads /\ Aged(f) /\ ~ReferredTo(f) /\ \A g \in todo : Aged(g) /\ ~ReferredTo(g)
    BY <1>0, <1>1, <1>2, <1>4, <1>5 DEF Cleaning, Local
  <2>5. object[f] # now /\ f \in placed /\ signed[f] # now
    BY <2>4, FilesAssumption DEF Aged, FilesInv, FileSound, FileRows, Control
  <2>6. \A x \in Workers \ {w} : req[x].pc \in UploadPoints => req[x].v.f # f
    BY <2>5 DEF FilesInv, FileLocal, Uploading, UploadPoints
  <2>7. object'[f] = 0 /\ \A g \in Uploads \ {f} : object'[g] = object[g]
    BY <1>7, <2>4 DEF FilesInv, FileRows
  <2>8. \A g \in todo \ {f} : Aged(g)' /\ ~ReferredTo(g)'
    BY <1>0, <1>2, <2>4, <2>7 DEF Aged, ReferredTo
  <2>9. u = [n |-> u.n, todo |-> u.todo] /\ u.todo = todo \ {f}
    BY <2>1
  <2>10. Cleaning(w)'
    BY <1>2, <2>3, <2>8, <2>9 DEF Cleaning
  <2>11. FileLocal(w)' /\ MoveSound(w)'
    BY <2>3, <2>10 DEF FileLocal, MoveSound, UploadPoints, ScanPoints
  <2>12. \A x \in Workers \ {w} : Apart(w, x)'
    BY <2>3, ApartKeeps DEF UploadPoints, ScanPoints
  <2> QED BY <1>0, <1>7, <2>3, <2>4, <2>5, <2>6, <2>11, <2>12, DeleteKeeps
<1> QED BY <1>5, <1>6, <1>7

\* Every step keeps the invariant of the files.
LEMMA FilesNextInv ==
    ASSUME Control, FilesInv, [Next]_serviceVars
    PROVE  FilesInv'
<1>1. CASE FilesNext /\ now' = now
  <2>1. CASE \E f \in Uploads : ClientPut(f) \/ FailStalled(f)
    BY <1>1, <2>1, ClientPutKeeps, FailStalledKeeps
  <2>2. ASSUME NEW w \in Workers, NEW f \in Uploads, UploadFile(w, f) \/ AvatarUploadUrl(w, f) \/ ScanJob(w, f)
        PROVE  FilesInv'
    BY <1>1, <2>2, UploadCalls, ScanCall
  <2>3. ASSUME NEW w \in Workers,
               \/ PutObject(w) \/ InsertRow(w) \/ EnqueueScan(w) \/ Review(w) \/ WriteReview(w)
               \/ LoadPendingTarget(w) \/ GetVerdict(w) \/ MarkClean(w) \/ MarkInfected(w)
               \/ CopyObject(w) \/ RemoveObject(w) \/ TellUploader(w)
        PROVE  FilesInv'
    BY <1>1, <2>3, PutKeeps, RowKeeps, ReviewAndSweepEnd, OtherFileCalls, VerdictKeeps, MarkKeeps, CopyKeeps, RemoveKeeps
  <2>4. ASSUME NEW w \in Workers,
               \/ SweepPending(w) \/ SweepOne(w) \/ SweptAll(w)
               \/ Cleanup(w) \/ ListObjects(w) \/ ReadReferences(w) \/ DeleteOrphan(w) \/ NextPrefix(w)
        PROVE  FilesInv'
    BY <1>1, <2>4, ReviewAndSweepEnd, OtherFileCalls, CleanupReads, OrphanKeeps
  <2> QED BY <1>1, <2>1, <2>2, <2>3, <2>4 DEF FilesNext
<1> QED BY <1>1, FilesMoves, FilesElsewhere

\* At the start there are no files.
LEMMA FilesStart == ASSUME Init PROVE FilesInv
<1>1. /\ object = [f \in Uploads |-> 0] /\ signed = [f \in Uploads |-> 0] /\ placed = {}
      /\ file = [f \in Uploads |-> NoFile] /\ now = 1 /\ req = [w \in Workers |-> Idle]
  BY DEF Init, ControlInit, FilesInit
<1>2. NoFile \in [status : Statuses, at : Nat] /\ NoFile.status = "none"
  BY DEF NoFile, Statuses
<1>3. FileRows
  BY <1>1, <1>2 DEF FileRows
<1>4. \A f \in Uploads : FileSound(f) /\ Quarantine(f)
  BY <1>1, <1>2 DEF FileSound, ReferredTo, Quarantine
<1>5. \A w \in Workers : req[w].pc = "idle"
  BY <1>1, IdleEntry
<1>6. \A w \in Workers : FileLocal(w) /\ MoveSound(w)
  BY <1>5 DEF FileLocal, MoveSound, UploadPoints, ScanPoints
<1>7. \A w, x \in Workers : Apart(w, x)
  BY <1>5 DEF Apart, UploadPoints, ScanPoints
<1> QED BY <1>3, <1>4, <1>6, <1>7 DEF FilesInv

\* The cleanup deletes no object that was put and that a row refers to: what it
\* lists is old, and the file of an upload under way is of this moment or not
\* there yet.  And what was found infected is kept under quarantine, unless a
\* move failed or the cleanup overlapped it.
THEOREM StoredFilesSafe == Spec => []StoredFilesKept
<1>1. Init => Control /\ FilesInv
  BY ControlStart, FilesStart
<1>2. Control /\ FilesInv /\ [Next]_serviceVars => (Control /\ FilesInv)'
  BY ControlNext, FilesNextInv
<1>3. Control /\ FilesInv => StoredFilesKept
  <2>1. ASSUME Control, FilesInv, NEW f \in placed PROVE ReferredTo(f) => object[f] > 0
    BY <2>1 DEF FilesInv, FileRows, FileSound
  <2>2. ASSUME Control, FilesInv, NEW f \in placed, file[f].status = "INFECTED", Undisturbed
        PROVE  f \in quarantined \/ object[f] > 0
    <3>1. Quarantine(f)
      BY <2>2 DEF FilesInv, FileRows
    <3> QED BY <2>2, <3>1 DEF FilesInv, Quarantine, Moving, MoveSound
  <2> QED BY <2>1, <2>2 DEF StoredFilesKept, Undisturbed
<1> QED BY <1>1, <1>2, <1>3, PTL DEF Spec

(***************************************************************************)
(* The sweep                                                               *)
(***************************************************************************)

Overstayed(f, t) == file[f].status = "PENDING" /\ file[f].at + StaleTime < t

\* What the running sweeps have still to queue, and whether one of them took all.
Sweeping(w) == req[w].pc = "sweep"
Listed(f) == \E w \in Workers : Sweeping(w) /\ f \in req[w].v.todo
AllListed == \E w \in Workers : Sweeping(w) /\ req[w].v.all = TRUE
Covered(t) == \A f \in Uploads \ exhausted : Overstayed(f, t) => scanJob[f] > 0 \/ Listed(f)

ScanRows ==
    /\ scanJob \in [Uploads -> 0..ScanAttempts] /\ exhausted \subseteq Uploads
    /\ swept \in Nat /\ swept <= now
PendingOK ==
    /\ IsFiniteSet({f \in Uploads : file[f].status = "PENDING"})
    /\ \A f \in Uploads : file[f].at <= now

\* The locals of a sweep, and the queue beside a scan.
SweepLocal(w) ==
    /\ Sweeping(w) => /\ req[w].op = "sweep" /\ req[w].v = [todo |-> req[w].v.todo, all |-> req[w].v.all]
                      /\ req[w].v.todo \subseteq Uploads
    /\ req[w].pc \in ScanPoints => scanJob[req[w].v.f] > 0
    /\ req[w].pc \in {"copy", "removeMoved", "tellUploader"} => file[req[w].v.f].status = "INFECTED"
    /\ req[w].pc = "enqueueScan" => req[w].v.f \in Uploads

\* A sweep that took all had no more than a batch of each kind, nor has one that
\* starts beside it.
SmallBatches == \A k \in {"evidenceFile", "messageFile"} : Cardinality(StalePending(k)) <= SweepBatch

Undisrupted == "twoSweeps" \in upset => {"rpc", "sweep"} \cap upset = {}
OneSweep ==
    /\ \A w, x \in Workers : Sweeping(w) /\ Sweeping(x) => w = x
    /\ (\E w \in Workers : Sweeping(w)) => swept = 0

SweepInv ==
    /\ ScanRows /\ PendingOK
    /\ \A w \in Workers : SweepLocal(w)
    /\ AllListed => SmallBatches
    /\ Undisrupted => Covered(swept) /\ (AllListed => Covered(now))
    /\ "twoSweeps" \notin upset => OneSweep

\* At the start nothing is pending and nothing is swept.
LEMMA SweepStart == ASSUME Init PROVE SweepInv
<1>1. /\ scanJob = [f \in Uploads |-> 0] /\ swept = 0 /\ exhausted = {} /\ upset = {} /\ now = 1
      /\ file = [f \in Uploads |-> NoFile] /\ req = [w \in Workers |-> Idle]
  BY DEF Init, ControlInit, FilesInit
<1>2. \A f \in Uploads : file[f].status = "none" /\ file[f].at = 0
  BY <1>1 DEF NoFile
<1>3. ScanRows
  BY <1>1, FilesAssumption DEF ScanRows
<1>4. PendingOK
  <2>1. {f \in Uploads : file[f].status = "PENDING"} = {}
    BY <1>2
  <2> QED BY <1>1, <1>2, <2>1, FS_EmptySet DEF PendingOK
<1>5. \A w \in Workers : req[w].pc = "idle"
  BY <1>1, IdleEntry
<1>6. \A w \in Workers : SweepLocal(w) /\ ~Sweeping(w)
  BY <1>5 DEF SweepLocal, Sweeping, ScanPoints
<1>7. Covered(swept)
  BY <1>2 DEF Covered, Overstayed
<1> QED BY <1>1, <1>3, <1>4, <1>6, <1>7 DEF SweepInv, AllListed, OneSweep

\* The stale uploads of this moment do not become more.
LEMMA StaleShrinks ==
    ASSUME Control, PendingOK, FilesInv, now' = now, AllListed => SmallBatches, AllListed,
           \A f \in Uploads : file'[f].status = "PENDING" => file'[f] = file[f] \/ file'[f].at = now
    PROVE  SmallBatches'
<1> SUFFICES ASSUME NEW k \in {"evidenceFile", "messageFile"}
             PROVE  Cardinality(StalePending(k)') <= SweepBatch
  BY DEF SmallBatches
<1>1. StalePending(k)' \subseteq StalePending(k)
  <2> SUFFICES ASSUME NEW f \in StalePending(k)' PROVE f \in StalePending(k)
    OBVIOUS
  <2>1. f \in Uploads /\ Kind(f) = k /\ file'[f].status = "PENDING" /\ file'[f].at + StaleTime < now
    BY DEF StalePending
  <2>2. file'[f] = file[f]
    BY <2>1, FilesAssumption DEF Control
  <2> QED BY <2>1, <2>2 DEF StalePending
<1>2. IsFiniteSet(StalePending(k))
  <2>1. StalePending(k) \subseteq {f \in Uploads : file[f].status = "PENDING"}
    BY DEF StalePending
  <2> QED BY <2>1, FS_Subset DEF PendingOK
<1>3. IsFiniteSet(StalePending(k)') /\ Cardinality(StalePending(k)') <= Cardinality(StalePending(k))
  BY <1>1, <1>2, FS_Subset
<1>4. Cardinality(StalePending(k)) \in Nat /\ Cardinality(StalePending(k)') \in Nat /\ SweepBatch \in Nat
  BY <1>2, <1>3, FS_CardinalityType, FilesAssumption
<1>5. Cardinality(StalePending(k)) <= SweepBatch
  BY DEF SmallBatches
<1> QED BY <1>3, <1>4, <1>5

\* A step that neither starts nor goes on with a sweep.
LEMMA SweepsGoOn ==
    ASSUME Control, FilesInv, SweepInv, ScanRows', PendingOK', \A x \in Workers : SweepLocal(x)',
           upset \subseteq upset', now' = now, swept' = swept, exhausted \subseteq exhausted',
           \A x \in Workers : Sweeping(x) \/ Sweeping(x)' => req'[x] = req[x],
           \A f \in Uploads : file'[f].status = "PENDING" =>
              \/ file'[f].at = now
              \/ file'[f] = file[f] /\ (scanJob[f] > 0 => scanJob'[f] > 0 \/ f \in exhausted')
    PROVE  SweepInv'
<1>1. \A x \in Workers : (Sweeping(x)' <=> Sweeping(x)) /\ (Sweeping(x) => req'[x] = req[x])
  BY DEF Sweeping
<1>2. (AllListed' <=> AllListed) /\ (\A f \in Uploads : Listed(f)' <=> Listed(f))
  BY <1>1 DEF AllListed, Listed
<1>3. AllListed' => SmallBatches'
  BY <1>2, StaleShrinks DEF SweepInv
<1>4. ASSUME NEW t \in Nat, t <= now, Covered(t)
      PROVE  \A f \in Uploads \ exhausted' : Overstayed(f, t)' => scanJob'[f] > 0 \/ Listed(f)'
  <2> SUFFICES ASSUME NEW f \in Uploads, f \notin exhausted', Overstayed(f, t)' PROVE scanJob'[f] > 0 \/ Listed(f)'
    OBVIOUS
  <2>1. file'[f].status = "PENDING" /\ file'[f].at + StaleTime < t
    BY DEF Overstayed
  <2>2. file'[f].at # now
    BY <1>4, <2>1, FilesAssumption DEF Control
  <2>3. file'[f] = file[f] /\ (scanJob[f] > 0 => scanJob'[f] > 0)
    BY <2>1, <2>2
  <2>4. Overstayed(f, t) /\ f \notin exhausted
    BY <2>1, <2>3 DEF Overstayed
  <2> QED BY <1>2, <1>4, <2>3, <2>4 DEF Covered
<1>5. Undisrupted' => Undisrupted
  BY DEF Undisrupted
<1>6. swept \in Nat /\ swept <= now /\ now \in Nat /\ now <= now
  BY DEF SweepInv, ScanRows, Control
<1>7. Undisrupted' => Covered(swept)' /\ (AllListed' => Covered(now)')
  BY <1>2, <1>4, <1>5, <1>6 DEF SweepInv, Covered, Overstayed
<1>8. "twoSweeps" \notin upset' => OneSweep'
  BY <1>1 DEF SweepInv, OneSweep
<1> QED BY <1>3, <1>7, <1>8 DEF SweepInv

\* Steps of the other parts, a crash in the middle of a sweep included.
LEMMA SweepElsewhere ==
    ASSUME Control, FilesInv, SweepInv, Elsewhere(FilesPoints), UNCHANGED fileVars
    PROVE  SweepInv'
<1>0. UNCHANGED <<file, scanJob, swept, exhausted>>
  BY DEF fileVars, scanVars
<1>1. now \in Nat /\ now' \in Nat /\ now' >= now /\ upset \subseteq upset' /\ (now' = now \/ Quiet)
  BY DEF Control, Elsewhere
<1>2. ScanRows' /\ PendingOK'
  BY <1>0, <1>1 DEF SweepInv, ScanRows, PendingOK, FilesInv, FileRows
<1>3. ASSUME NEW w \in Workers PROVE SweepLocal(w)' /\ (Sweeping(w)' => Sweeping(w) /\ req'[w] = req[w])
  <2>1. req'[w] = req[w] \/ req'[w].pc \notin FilesPoints
    BY DEF Elsewhere
  <2>2. CASE req'[w] = req[w]
    BY <1>0, <2>2 DEF SweepInv, SweepLocal, Sweeping
  <2>3. CASE req'[w].pc \notin FilesPoints
    BY <2>3 DEF SweepLocal, Sweeping, FilesPoints, ScanPoints
  <2> QED BY <2>1, <2>2, <2>3
<1>4. ASSUME NEW w \in Workers, Sweeping(w) PROVE req'[w] = req[w] \/ "sweep" \in upset'
  BY <1>4 DEF Elsewhere, Sweeping, FilesPoints
<1>5. CASE Quiet
  <2>1. \A w \in Workers : ~Sweeping(w) /\ ~Sweeping(w)'
    BY <1>3, <1>5 DEF Quiet, At, Sweeping
  <2>2. ~AllListed' /\ (OneSweep' <=> TRUE)
    BY <2>1 DEF AllListed, OneSweep
  <2>3. (Undisrupted' => Undisrupted) /\ (Covered(swept) => Covered(swept)')
    BY <1>0, <1>1, <2>1 DEF Undisrupted, Covered, Listed, Overstayed
  <2> QED BY <1>2, <1>3, <2>2, <2>3 DEF SweepInv
<1>6. CASE now' = now /\ \A w \in Workers : Sweeping(w) => req'[w] = req[w]
  <2>1. \A w \in Workers : Sweeping(w) \/ Sweeping(w)' => req'[w] = req[w]
    BY <1>3, <1>6
  <2> QED BY <1>0, <1>1, <1>2, <1>3, <1>6, <2>1, SweepsGoOn
<1>7. CASE now' = now /\ \E w \in Workers : Sweeping(w) /\ req'[w] # req[w]
  <2>1. PICK w \in Workers : Sweeping(w) /\ req'[w] # req[w]
    BY <1>7
  <2>2. "sweep" \in upset' /\ ~Sweeping(w)'
    BY <1>3, <1>4, <2>1
  <2>3. AllListed' => AllListed
    BY <1>3 DEF AllListed
  <2>4. AllListed' => SmallBatches'
    BY <1>0, <1>2, <1>7, <2>3, StaleShrinks DEF SweepInv
  <2>5. Undisrupted' => "twoSweeps" \notin upset' /\ "twoSweeps" \notin upset
    BY <1>1, <2>2 DEF Undisrupted
  <2>6. ASSUME "twoSweeps" \notin upset PROVE swept' = 0 /\ \A x \in Workers : ~Sweeping(x)'
    BY <1>0, <1>3, <2>1, <2>2, <2>6 DEF SweepInv, OneSweep
  <2>7. swept' = 0 => Covered(swept)'
    BY <1>2, FilesAssumption DEF Covered, Overstayed, FilesInv, FileRows, fileVars
  <2>8. Undisrupted' => Covered(swept)' /\ (AllListed' => Covered(now)')
    BY <2>5, <2>6, <2>7 DEF AllListed
  <2>9. "twoSweeps" \notin upset' => OneSweep'
    BY <1>1, <2>6 DEF OneSweep
  <2> QED BY <1>2, <1>3, <2>4, <2>8, <2>9 DEF SweepInv
<1> QED BY <1>1, <1>5, <1>6, <1>7

\* What the other workers know survives a step of w.
LEMMA SweepOthers ==
    ASSUME FilesInv, SweepInv, NEW w \in Workers, Mine(w),
           \A g \in Uploads : scanJob[g] > 0 => scanJob'[g] > 0 \/ (req[w].pc \in ScanPoints /\ g = req[w].v.f),
           \A g \in Uploads : file[g].status = "INFECTED" => file'[g].status = "INFECTED"
    PROVE  \A x \in Workers \ {w} : SweepLocal(x)'
<1> SUFFICES ASSUME NEW x \in Workers \ {w} PROVE SweepLocal(x)'
  OBVIOUS
<1>1. SweepLocal(x) /\ req'[x] = req[x]
  BY DEF SweepInv, Mine
<1>2. req[x].pc \in ScanPoints => req[x].v.f \in Uploads
  BY DEF FilesInv, FileLocal, Scanning
<1>3. req[x].pc \in ScanPoints /\ req[w].pc \in ScanPoints => req[x].v.f # req[w].v.f
  BY MyScan
<1> QED BY <1>1, <1>2, <1>3 DEF SweepLocal, Sweeping, ScanPoints

\* A step that leaves the rows, the queue and the sweeps, and leads to no scan.
LEMMA SweepQuiet ==
    ASSUME Control, FilesInv, SweepInv, now' = now, NEW w \in Workers, Mine(w), UNCHANGED <<file, scanJob, swept, exhausted>>,
           req[w].pc # "sweep", SweepLocal(w)', req'[w].pc # "sweep"
    PROVE  SweepInv'
<1>2. ScanRows' /\ PendingOK'
  BY DEF SweepInv, ScanRows, PendingOK
<1>3. \A x \in Workers : SweepLocal(x)'
  BY SweepOthers
<1>4. upset \subseteq upset' /\ \A x \in Workers : Sweeping(x) \/ Sweeping(x)' => req'[x] = req[x]
  BY DEF Mine, Sweeping
<1> QED BY <1>2, <1>3, <1>4, SweepsGoOn

\* The points a worker may take up a request at, and go on to, without a scan.
LEMMA SweepPlain ==
    ASSUME Control, FilesInv, SweepInv, now' = now, NEW w \in Workers, Mine(w), UNCHANGED <<file, scanJob, swept, exhausted>>,
           req[w].pc # "sweep", req'[w].pc \in {"idle", "put", "row", "review", "list", "refs", "delete"}
    PROVE  SweepInv'
<1>1. SweepLocal(w)' /\ req'[w].pc # "sweep"
  BY DEF SweepLocal, Sweeping, ScanPoints
<1> QED BY <1>1, SweepQuiet

\* Uploads up to the row, reviews and the cleanup have nothing to do with the queue.
LEMMA PlainFileSteps ==
    ASSUME Control, FilesInv, SweepInv, now' = now, NEW w \in Workers,
           \/ \E f \in Uploads : UploadFile(w, f) \/ AvatarUploadUrl(w, f)
           \/ PutObject(w) \/ Review(w) \/ WriteReview(w)
           \/ Cleanup(w) \/ ListObjects(w) \/ ReadReferences(w) \/ DeleteOrphan(w) \/ NextPrefix(w)
    PROVE  SweepInv'
<1>1. UNCHANGED <<file, scanJob, swept, exhausted>>
  BY DEF UploadFile, AvatarUploadUrl, PutObject, Review, WriteReview, Cleanup, ListObjects, ReadReferences,
         DeleteOrphan, NextPrefix, fileVars, scanVars
<1>2. \/ \E op, pc, v : CallNoting(w, op, pc, v, {}) /\ pc \in {"put", "row", "review", "list"}
      \/ Goto(w, "put", "row")
      \/ \E from, to, v : GotoWith(w, from, to, v) /\ {from, to} \subseteq {"list", "refs", "delete"}
      \/ \E from \in {"put", "delete"} : FailTo(w, from, "rpc", Idle)
      \/ \E from \in {"review", "delete"} : End(w, from)
  <2>1. CASE \E f \in Uploads : UploadFile(w, f) \/ AvatarUploadUrl(w, f)
    BY <2>1 DEF UploadFile, AvatarUploadUrl, Call
  <2>2. CASE PutObject(w) \/ Review(w) \/ WriteReview(w) \/ Cleanup(w)
    BY <2>2 DEF PutObject, Review, WriteReview, Cleanup, Call
  <2>3. CASE ListObjects(w) \/ ReadReferences(w)
    <3>1. \E v : GotoWith(w, "list", "refs", v) \/ GotoWith(w, "refs", "delete", v)
      BY <2>3 DEF ListObjects, ReadReferences
    <3> QED BY <3>1
  <2>4. CASE DeleteOrphan(w)
    <3>1. (\E v : GotoWith(w, "delete", "delete", v)) \/ FailTo(w, "delete", "rpc", Idle)
      BY <2>4 DEF DeleteOrphan
    <3> QED BY <3>1
  <2>5. CASE NextPrefix(w)
    <3>1. (\E v : GotoWith(w, "delete", "list", v)) \/ End(w, "delete")
      BY <2>5 DEF NextPrefix
    <3> QED BY <3>1
  <2> QED BY <2>1, <2>2, <2>3, <2>4, <2>5
<1>3. /\ Mine(w) /\ req[w].pc # "sweep"
      /\ req'[w].pc \in {"idle", "put", "row", "review", "list", "refs", "delete"}
  <2>1. CASE \E op, pc, v : CallNoting(w, op, pc, v, {}) /\ pc \in {"put", "row", "review", "list"}
    BY <2>1, CallMine
  <2>2. CASE Goto(w, "put", "row")
    BY <2>2, GotoMine
  <2>3. CASE \E from, to, v : GotoWith(w, from, to, v) /\ {from, to} \subseteq {"list", "refs", "delete"}
    BY <2>3, GotoWithMine
  <2>4. CASE \E from \in {"put", "delete"} : FailTo(w, from, "rpc", Idle)
    BY <2>4, FailOwn
  <2>5. CASE \E from \in {"review", "delete"} : End(w, from)
    BY <2>5, EndMine
  <2> QED BY <1>2, <2>1, <2>2, <2>3, <2>4, <2>5
<1> QED BY <1>1, <1>3, SweepPlain

\* Nor has a client that puts its avatar.
LEMMA ClientPutSweep ==
    ASSUME Control, FilesInv, SweepInv, now' = now, NEW f \in Uploads, ClientPut(f)
    PROVE  SweepInv'
<1>1. UNCHANGED <<file, scanJob, swept, exhausted, req, upset>>
  BY DEF ClientPut, control, scanVars
<1>2. ScanRows' /\ PendingOK' /\ \A x \in Workers : SweepLocal(x)'
  BY <1>1 DEF SweepInv, ScanRows, PendingOK, SweepLocal, Sweeping
<1> QED BY <1>1, <1>2, SweepsGoOn

\* A row is inserted: if it is to be scanned, it is of this moment.
LEMMA InsertRowSweep ==
    ASSUME Control, FilesInv, SweepInv, now' = now, NEW w \in Workers, InsertRow(w)
    PROVE  SweepInv'
<1>0. UNCHANGED <<scanJob, swept, exhausted>> /\ req[w].pc = "row"
  BY DEF InsertRow, scanVars, At
<1>1. Uploading(w)
  BY <1>0 DEF FilesInv, FileLocal, UploadPoints
<1>2. PICK f \in Uploads : f = req[w].v.f
  BY <1>1 DEF Uploading
<1>3. file[f] = NoFile /\ NoFile.status = "none" /\ NoFile.at = 0
  BY <1>1, <1>2 DEF Uploading, NoFile
<1>4. /\ Mine(w) /\ req'[w].pc \in {"idle", "enqueueScan"}
      /\ req'[w].pc = "enqueueScan" => req'[w].v = req[w].v
  <2>1. Goto(w, "row", "enqueueScan") \/ End(w, "row") \/ FailTo(w, "row", "db", Idle)
    BY DEF InsertRow
  <2> QED BY <2>1, GotoMine, EndMine, FailOwn
<1>5. PICK new : new = [status |-> IF Scanned(f) THEN "PENDING" ELSE "stored", at |-> now]
  OBVIOUS
<1>6. new.at = now /\ new.status \in {"PENDING", "stored"}
  BY <1>5
<1>7. \/ file' = file
      \/ file' = [g \in Uploads |->
           IF g = f THEN new ELSE IF Kind(f) = "avatarFile" /\ Kind(g) = "avatarFile" THEN NoFile ELSE file[g]]
  BY <1>2, <1>5 DEF InsertRow, Local
<1>8. ASSUME NEW g \in Uploads
      PROVE  \/ file'[g] = file[g]
             \/ g = f /\ file'[g].at = now /\ file'[g].status \in {"PENDING", "stored"}
             \/ file'[g] = NoFile /\ Kind(g) = "avatarFile"
  BY <1>6, <1>7
<1>9. PendingOK'
  <2>1. IsFiniteSet({g \in Uploads : file[g].status = "PENDING"} \cup {f})
    BY FS_AddElement DEF SweepInv, PendingOK
  <2>2. {g \in Uploads : file'[g].status = "PENDING"} \subseteq {g \in Uploads : file[g].status = "PENDING"} \cup {f}
    BY <1>3, <1>8
  <2>3. IsFiniteSet({g \in Uploads : file'[g].status = "PENDING"})
    BY <2>1, <2>2, FS_Subset
  <2>4. \A g \in Uploads : file'[g].at <= now
    BY <1>3, <1>8 DEF SweepInv, PendingOK, Control
  <2> QED BY <2>3, <2>4 DEF PendingOK
<1>10. \A g \in Uploads : file[g].status = "INFECTED" => file'[g].status = "INFECTED"
  <2> SUFFICES ASSUME NEW g \in Uploads, file[g].status = "INFECTED" PROVE file'[g].status = "INFECTED"
    OBVIOUS
  <2>1. Kind(g) # "avatarFile" /\ g # f
    BY <1>3 DEF FilesInv, FileSound, Scanned
  <2> QED BY <1>8, <2>1
<1>11. SweepLocal(w)'
  BY <1>2, <1>4 DEF SweepLocal, Sweeping, ScanPoints
<1>12. \A x \in Workers : SweepLocal(x)'
  BY <1>0, <1>4, <1>10, <1>11, SweepOthers
<1>13. \A x \in Workers : Sweeping(x) \/ Sweeping(x)' => req'[x] = req[x]
  BY <1>0, <1>4 DEF Mine, Sweeping
<1>14. \A g \in Uploads : file'[g].status = "PENDING" => file'[g].at = now \/ file'[g] = file[g]
  BY <1>3, <1>8
<1>15. ScanRows' /\ upset \subseteq upset'
  BY <1>0, <1>4 DEF SweepInv, ScanRows, Mine
<1> QED BY <1>0, <1>9, <1>12, <1>13, <1>14, <1>15, SweepsGoOn

\* A job is added: none is lost.
LEMMA EnqueuedMore ==
    ASSUME SweepInv, NEW f \in Uploads, Enqueued(f)
    PROVE  /\ scanJob' \in [Uploads -> 0..ScanAttempts] /\ scanJob'[f] > 0
           /\ \A g \in Uploads : scanJob[g] > 0 => scanJob'[g] > 0
<1>1. scanJob \in [Uploads -> 0..ScanAttempts] /\ ScanAttempts \in Nat \ {0}
  BY FilesAssumption DEF SweepInv, ScanRows
<1>2. scanJob' = [scanJob EXCEPT ![f] = IF scanJob[f] = 0 THEN ScanAttempts ELSE scanJob[f]]
  BY DEF Enqueued
<1>3. scanJob'[f] = (IF scanJob[f] = 0 THEN ScanAttempts ELSE scanJob[f]) /\ \A g \in Uploads \ {f} : scanJob'[g] = scanJob[g]
  BY <1>1, <1>2
<1>4. scanJob'[f] > 0
  BY <1>1, <1>3
<1>5. \A g \in Uploads : scanJob[g] > 0 => scanJob'[g] > 0
  BY <1>3, <1>4
<1> QED BY <1>1, <1>2, <1>4, <1>5

\* The upload's own job is queued, or its queueing fails.
LEMMA EnqueueScanSweep ==
    ASSUME Control, FilesInv, SweepInv, now' = now, NEW w \in Workers, EnqueueScan(w)
    PROVE  SweepInv'
<1>1. UNCHANGED <<file, swept, exhausted>>
  BY DEF EnqueueScan
<1>2. Mine(w) /\ req[w].pc = "enqueueScan" /\ req'[w].pc = "idle"
  <2>1. End(w, "enqueueScan") \/ FailTo(w, "enqueueScan", "rpc", Idle)
    BY DEF EnqueueScan
  <2> QED BY <2>1, EndMine, FailOwn
<1>3. req[w].v.f \in Uploads
  BY <1>2 DEF SweepInv, SweepLocal
<1>4. scanJob' \in [Uploads -> 0..ScanAttempts] /\ \A g \in Uploads : scanJob[g] > 0 => scanJob'[g] > 0
  BY <1>3, EnqueuedMore DEF EnqueueScan, Local, SweepInv, ScanRows
<1>5. ScanRows' /\ PendingOK'
  BY <1>1, <1>4 DEF SweepInv, ScanRows, PendingOK
<1>6. SweepLocal(w)'
  BY <1>2 DEF SweepLocal, Sweeping, ScanPoints
<1>7. \A x \in Workers : SweepLocal(x)'
  BY <1>1, <1>2, <1>4, <1>6, SweepOthers
<1>8. upset \subseteq upset' /\ \A x \in Workers : Sweeping(x) \/ Sweeping(x)' => req'[x] = req[x]
  BY <1>2 DEF Mine, Sweeping
<1> QED BY <1>1, <1>4, <1>5, <1>7, <1>8, SweepsGoOn

(***************************************************************************)
(* Scans                                                                   *)
(***************************************************************************)

\* A consumer takes up a job, which stays in the queue.
LEMMA ScanJobSweep ==
    ASSUME Control, FilesInv, SweepInv, now' = now, NEW w \in Workers, NEW f \in Uploads, ScanJob(w, f)
    PROVE  SweepInv'
<1>1. CallNoting(w, "scan", "load", [f |-> f], {}) /\ scanJob[f] > 0 /\ UNCHANGED <<file, scanJob, swept, exhausted>>
  BY DEF ScanJob, Waits, Call
<1>2. PICK v : v = [f |-> f]
  OBVIOUS
<1>3. Mine(w) /\ req'[w].pc = "load" /\ req'[w].v = v /\ req[w].pc = "idle"
  BY <1>1, <1>2, CallMine
<1>4. SweepLocal(w)'
  BY <1>1, <1>2, <1>3 DEF SweepLocal, Sweeping, ScanPoints
<1> QED BY <1>1, <1>3, <1>4, SweepQuiet

\* A job that stalled once too often, which no consumer is at, is gone for good.
LEMMA FailStalledSweep ==
    ASSUME Control, FilesInv, SweepInv, now' = now, NEW f \in Uploads, FailStalled(f)
    PROVE  SweepInv'
<1>1. UNCHANGED <<file, swept, req, upset>> /\ exhausted' = exhausted \cup {f}
      /\ scanJob' = [scanJob EXCEPT ![f] = 0] /\ \A x \in Workers : req[x].op = "scan" => req[x].v.f # f
  BY DEF FailStalled, Waits, control, Local
<1>2. ScanRows'
  BY <1>1, FilesAssumption DEF SweepInv, ScanRows
<1>3. \A g \in Uploads \ {f} : scanJob'[g] = scanJob[g]
  BY <1>1 DEF SweepInv, ScanRows
<1>4. ASSUME NEW x \in Workers PROVE SweepLocal(x)'
  <2>1. SweepLocal(x) /\ (req[x].pc \in ScanPoints => Scanning(x))
    BY DEF SweepInv, FilesInv, FileLocal
  <2>2. req[x].pc \in ScanPoints => scanJob'[req[x].v.f] > 0
    BY <1>1, <1>3, <2>1 DEF Scanning, SweepLocal
  <2> QED BY <1>1, <2>1, <2>2 DEF SweepLocal, Sweeping
<1>5. PendingOK'
  BY <1>1 DEF SweepInv, PendingOK
<1>6. \A g \in Uploads : file'[g].status = "PENDING" =>
         file'[g] = file[g] /\ (scanJob[g] > 0 => scanJob'[g] > 0 \/ g \in exhausted')
  BY <1>1, <1>3
<1> QED BY <1>1, <1>2, <1>4, <1>5, <1>6, SweepsGoOn

\* A scan goes on, the queue as it was.
LEMMA ScanGoesOn ==
    ASSUME Control, FilesInv, SweepInv, now' = now, NEW w \in Workers, Mine(w), UNCHANGED scanVars,
           {req[w].pc, req'[w].pc} \subseteq ScanPoints, req'[w].v = req[w].v,
           \/ file' = file
           \/ file' = [file EXCEPT ![req[w].v.f].status = "INFECTED"],
           req'[w].pc \in {"copy", "removeMoved", "tellUploader"} => file'[req[w].v.f].status = "INFECTED"
    PROVE  SweepInv'
<1>0. UNCHANGED <<scanJob, swept, exhausted>>
  BY DEF scanVars
<1>1. req[w].v.f \in Uploads /\ scanJob[req[w].v.f] > 0
  BY DEF FilesInv, FileLocal, Scanning, SweepInv, SweepLocal
<1>2. /\ \A g \in Uploads : file'[g].status = "PENDING" => file'[g] = file[g]
      /\ \A g \in Uploads : file[g].status = "INFECTED" => file'[g].status = "INFECTED"
      /\ \A g \in Uploads : file'[g].at = file[g].at
  BY <1>1 DEF FilesInv, FileRows
<1>3. PendingOK'
  <2>1. {g \in Uploads : file'[g].status = "PENDING"} \subseteq {g \in Uploads : file[g].status = "PENDING"}
    BY <1>2
  <2>2. IsFiniteSet({g \in Uploads : file'[g].status = "PENDING"})
    BY <2>1, FS_Subset DEF SweepInv, PendingOK
  <2> QED BY <1>2, <2>2 DEF SweepInv, PendingOK
<1>4. SweepLocal(w)'
  BY <1>0, <1>1 DEF SweepLocal, Sweeping, ScanPoints
<1>5. \A x \in Workers : SweepLocal(x)'
  BY <1>0, <1>2, <1>4, SweepOthers
<1>6. upset \subseteq upset' /\ \A x \in Workers : Sweeping(x) \/ Sweeping(x)' => req'[x] = req[x]
  BY DEF Mine, Sweeping, ScanPoints
<1>7. ScanRows'
  BY <1>0 DEF SweepInv, ScanRows
<1> QED BY <1>0, <1>2, <1>3, <1>5, <1>6, <1>7, SweepsGoOn

\* An attempt ends: the job is gone where the upload has its verdict, and has one
\* attempt less, or is used up, where it failed.
LEMMA ScanEnds ==
    ASSUME Control, FilesInv, SweepInv, now' = now, NEW w \in Workers, Mine(w), swept' = swept,
           req[w].pc \in ScanPoints, req'[w].pc = "idle",
           (JobDone(req[w].v.f) /\ file'[req[w].v.f].status # "PENDING") \/ JobFailed(req[w].v.f),
           file' = file \/ file' = [file EXCEPT ![req[w].v.f].status = "CLEAN"],
           file' # file => file[req[w].v.f].status = "PENDING"
    PROVE  SweepInv'
<1>1. PICK f \in Uploads : f = req[w].v.f
  BY DEF FilesInv, FileLocal, Scanning
<1>2. scanJob[f] \in 1..ScanAttempts /\ scanJob \in [Uploads -> 0..ScanAttempts] /\ ScanAttempts \in Nat
  <2>1. SweepLocal(w) /\ scanJob \in [Uploads -> 0..ScanAttempts] /\ ScanAttempts \in Nat
    BY FilesAssumption DEF SweepInv, ScanRows
  <2>2. scanJob[f] > 0 /\ scanJob[f] \in 0..ScanAttempts
    BY <1>1, <2>1 DEF SweepLocal
  <2> QED BY <2>1, <2>2
<1>3. /\ scanJob' \in [Uploads -> 0..ScanAttempts] /\ exhausted' \subseteq Uploads /\ exhausted \subseteq exhausted'
      /\ \A g \in Uploads \ {f} : scanJob'[g] = scanJob[g]
      /\ file'[f].status = "PENDING" => scanJob'[f] > 0 \/ f \in exhausted'
  <2>1. CASE JobDone(f) /\ file'[f].status # "PENDING"
    BY <1>1, <1>2, <2>1 DEF JobDone, SweepInv, ScanRows
  <2>2. CASE JobFailed(f)
    <3>1. scanJob' = [scanJob EXCEPT ![f] = scanJob[f] - 1]
          /\ exhausted' = IF scanJob[f] = 1 THEN exhausted \cup {f} ELSE exhausted
      BY <2>2 DEF JobFailed
    <3>2. scanJob'[f] = scanJob[f] - 1 /\ scanJob' \in [Uploads -> 0..ScanAttempts]
      BY <1>2, <3>1
    <3>3. scanJob'[f] > 0 \/ f \in exhausted'
      BY <1>2, <3>1, <3>2
    <3> QED BY <1>2, <3>1, <3>2, <3>3 DEF SweepInv, ScanRows
  <2> QED BY <1>1, <2>1, <2>2
<1>4. /\ \A g \in Uploads : file'[g].status = "PENDING" => file'[g] = file[g]
      /\ \A g \in Uploads : file[g].status = "INFECTED" => file'[g].status = "INFECTED"
      /\ \A g \in Uploads : file'[g].at = file[g].at
  BY <1>1 DEF FilesInv, FileRows
<1>5. PendingOK'
  <2>1. {g \in Uploads : file'[g].status = "PENDING"} \subseteq {g \in Uploads : file[g].status = "PENDING"}
    BY <1>4
  <2>2. IsFiniteSet({g \in Uploads : file'[g].status = "PENDING"})
    BY <2>1, FS_Subset DEF SweepInv, PendingOK
  <2> QED BY <1>4, <2>2 DEF SweepInv, PendingOK
<1>6. SweepLocal(w)'
  BY DEF SweepLocal, Sweeping, ScanPoints
<1>7. \A x \in Workers : SweepLocal(x)'
  BY <1>1, <1>3, <1>4, <1>6, SweepOthers
<1>8. upset \subseteq upset' /\ \A x \in Workers : Sweeping(x) \/ Sweeping(x)' => req'[x] = req[x]
  BY DEF Mine, Sweeping, ScanPoints
<1>9. ScanRows'
  BY <1>3 DEF SweepInv, ScanRows
<1>10. \A g \in Uploads : file'[g].status = "PENDING" =>
         file'[g] = file[g] /\ (scanJob[g] > 0 => scanJob'[g] > 0 \/ g \in exhausted')
  BY <1>3, <1>4
<1> QED BY <1>3, <1>5, <1>7, <1>8, <1>9, <1>10, SweepsGoOn

\* Every step of a scan is of one of the two kinds.
LEMMA ScanSteps ==
    ASSUME Control, FilesInv, SweepInv, now' = now, NEW w \in Workers,
           \/ LoadPendingTarget(w) \/ GetVerdict(w) \/ MarkClean(w) \/ MarkInfected(w)
           \/ CopyObject(w) \/ RemoveObject(w) \/ TellUploader(w)
    PROVE  SweepInv'
<1>0. req[w].pc \in ScanPoints => Scanning(w) /\ SweepLocal(w)
  BY DEF FilesInv, FileLocal, SweepInv
<1>1. PICK r : r = [req[w] EXCEPT !.pc = "tellUploader"]
  OBVIOUS
<1>2. r.pc = "tellUploader" /\ r.v = req[w].v
  BY <1>1, EntryFields DEF Control
<1>3. ASSUME NEW from \in ScanPoints, NEW to \in ScanPoints, UNCHANGED scanVars,
             Goto(w, from, to) \/ (to = "tellUploader" /\ FailTo(w, from, "rpc", r)),
             \/ file' = file
             \/ from = "infected" /\ file' = [file EXCEPT ![Local(w).f].status = "INFECTED"],
             from = "infected" <=> to = "copy",
             to = "copy" => file' = [file EXCEPT ![Local(w).f].status = "INFECTED"],
             to \in {"removeMoved", "tellUploader"} => from \in {"copy", "removeMoved"}
      PROVE  SweepInv'
  <2>1. Mine(w) /\ req'[w].v = req[w].v /\ req[w].pc = from /\ req'[w].pc = to
    <3>1. from # "idle"
      BY DEF ScanPoints
    <3> QED BY <1>2, <1>3, <3>1, GotoMine, FailMine
  <2>2. Scanning(w)
    BY <1>0, <1>3, <2>1
  <2>3. to \in {"copy", "removeMoved", "tellUploader"} => file'[req[w].v.f].status = "INFECTED"
    BY <1>3, <2>1, <2>2 DEF Scanning, FilesInv, FileRows, Local
  <2> QED BY <1>3, <2>1, <2>3, ScanGoesOn DEF Local
<1>4. ASSUME NEW from \in ScanPoints, NEW kind, swept' = swept,
             \/ End(w, from) /\ JobDone(Local(w).f) /\ file'[Local(w).f].status # "PENDING"
             \/ FailTo(w, from, kind, Idle) /\ JobFailed(Local(w).f) /\ file' = file,
             file' = file \/ (from = "clean" /\ file' = [file EXCEPT ![Local(w).f].status = "CLEAN"])
      PROVE  SweepInv'
  <2>1. Mine(w) /\ req[w].pc = from /\ req'[w].pc = "idle"
    <3>1. from # "idle"
      BY DEF ScanPoints
    <3> QED BY <1>4, <3>1, EndMine, FailOwn
  <2>2. from = "clean" => file[req[w].v.f].status = "PENDING"
    BY <1>0, <1>4, <2>1 DEF Scanning
  <2>3. (JobDone(req[w].v.f) /\ file'[req[w].v.f].status # "PENDING") \/ JobFailed(req[w].v.f)
    BY <1>4 DEF Local
  <2> QED BY <1>4, <2>1, <2>2, <2>3, ScanEnds DEF Local
<1>5. CASE LoadPendingTarget(w)
  <2>1. file' = file /\ swept' = swept
    BY <1>5 DEF LoadPendingTarget
  <2>2. \/ Goto(w, "load", "scan") /\ UNCHANGED scanVars
        \/ End(w, "load") /\ JobDone(Local(w).f) /\ file[Local(w).f].status # "PENDING"
    BY <1>5 DEF LoadPendingTarget, scanVars
  <2> QED BY <1>3, <1>4, <2>1, <2>2 DEF ScanPoints
<1>6. CASE GetVerdict(w)
  <2>1. file' = file /\ swept' = swept
    BY <1>6 DEF GetVerdict
  <2>2. \/ \E to \in {"infected", "clean"} : Goto(w, "scan", to) /\ UNCHANGED scanVars
        \/ FailTo(w, "scan", "rpc", Idle) /\ JobFailed(Local(w).f)
    BY <1>6 DEF GetVerdict, scanVars
  <2> QED BY <1>3, <1>4, <2>1, <2>2 DEF ScanPoints
<1>7. CASE MarkClean(w)
  <2>1. req[w].pc = "clean" /\ req[w].v.f \in Uploads
    BY <1>0, <1>7 DEF MarkClean, End, Become, At, Scanning, ScanPoints
  <2>2. /\ End(w, "clean") /\ JobDone(Local(w).f) /\ swept' = swept
        /\ file' = [file EXCEPT ![Local(w).f].status = "CLEAN"]
    BY <1>7 DEF MarkClean
  <2>3. file'[Local(w).f].status = "CLEAN"
    BY <2>1, <2>2 DEF FilesInv, FileRows, Local
  <2> QED BY <1>4, <2>2, <2>3 DEF ScanPoints
<1>8. CASE MarkInfected(w)
  BY <1>3, <1>8 DEF MarkInfected, ScanPoints
<1>9. CASE CopyObject(w)
  <2>1. file' = file /\ UNCHANGED scanVars
    BY <1>9 DEF CopyObject
  <2>2. \/ \E to \in {"removeMoved", "tellUploader"} : Goto(w, "copy", to)
        \/ FailTo(w, "copy", "rpc", r)
    BY <1>1, <1>9 DEF CopyObject
  <2> QED BY <1>3, <2>1, <2>2 DEF ScanPoints
<1>10. CASE RemoveObject(w)
  BY <1>1, <1>3, <1>10 DEF RemoveObject, ScanPoints
<1>11. CASE TellUploader(w)
  <2>1. req[w].pc = "tellUploader"
    BY <1>11 DEF TellUploader, End, FailTo, Become, At
  <2>2. file[Local(w).f].status = "INFECTED"
    BY <1>0, <2>1 DEF SweepLocal, ScanPoints, Local
  <2>3. /\ file' = file /\ swept' = swept
        /\ \/ End(w, "tellUploader") /\ JobDone(Local(w).f)
           \/ FailTo(w, "tellUploader", "db", Idle) /\ JobFailed(Local(w).f)
    BY <1>11 DEF TellUploader
  <2> QED BY <1>4, <2>2, <2>3 DEF ScanPoints
<1> QED BY <1>5, <1>6, <1>7, <1>8, <1>9, <1>10, <1>11

(***************************************************************************)
(* Sweeps                                                                  *)
(***************************************************************************)

\* A batch is all there is exactly if that is no more than its size.
LEMMA BatchOf ==
    ASSUME PendingOK, NEW k, NEW b \in Batch(k)
    PROVE  /\ b \subseteq StalePending(k)
           /\ b = StalePending(k) <=> Cardinality(StalePending(k)) <= SweepBatch
<1>1. IsFiniteSet(StalePending(k))
  <2>1. StalePending(k) \subseteq {f \in Uploads : file[f].status = "PENDING"}
    BY DEF StalePending
  <2> QED BY <2>1, FS_Subset DEF PendingOK
<1>2. b \subseteq StalePending(k) /\ Cardinality(b) = Min({SweepBatch, Cardinality(StalePending(k))})
  BY DEF Batch, kSubset
<1>3. Cardinality(StalePending(k)) \in Nat /\ SweepBatch \in Nat
  BY <1>1, FS_CardinalityType, FilesAssumption
<1>4. Cardinality(b) = IF SweepBatch <= Cardinality(StalePending(k)) THEN SweepBatch ELSE Cardinality(StalePending(k))
  BY <1>2, <1>3, LesserOf
<1>5. Cardinality(b) = Cardinality(StalePending(k)) => b = StalePending(k)
  BY <1>1, <1>2, FS_Subset
<1> QED BY <1>2, <1>3, <1>4, <1>5

\* A sweep starts: it is the only one, or that is noted.
LEMMA SweepPendingKeeps ==
    ASSUME Control, FilesInv, SweepInv, now' = now, NEW w \in Workers, SweepPending(w)
    PROVE  SweepInv'
<1>0. UNCHANGED <<file, scanJob>> /\ swept' = 0 /\ exhausted' = {}
  BY DEF SweepPending
<1>1. PICK e \in Batch("evidenceFile"), m \in Batch("messageFile") :
        CallNoting(w, "sweep", "sweep",
                   [todo |-> e \cup m, all |-> <<e, m>> = <<StalePending("evidenceFile"), StalePending("messageFile")>>],
                   IF Running("sweep") THEN {"twoSweeps"} ELSE {})
  BY DEF SweepPending
<1>2. PICK v : v = [todo |-> e \cup m, all |-> <<e, m>> = <<StalePending("evidenceFile"), StalePending("messageFile")>>]
  OBVIOUS
<1>3. /\ v = [todo |-> v.todo, all |-> v.all] /\ v.todo = e \cup m
      /\ v.all = TRUE <=> e = StalePending("evidenceFile") /\ m = StalePending("messageFile")
  BY <1>2
<1>4. /\ Mine(w) /\ req'[w].pc = "sweep" /\ req'[w].op = "sweep" /\ req'[w].v = v /\ req[w].pc = "idle"
      /\ Running("sweep") => "twoSweeps" \in upset'
  BY <1>1, <1>2, CallOwn, CallMine
<1>5. ScanRows' /\ PendingOK'
  BY <1>0 DEF SweepInv, ScanRows, PendingOK, Control
<1>6. e \subseteq StalePending("evidenceFile") /\ m \subseteq StalePending("messageFile") /\ v.todo \subseteq Uploads
  BY <1>3, BatchOf DEF SweepInv, StalePending
<1>7. SweepLocal(w)'
  BY <1>3, <1>4, <1>6 DEF SweepLocal, Sweeping, ScanPoints
<1>8. \A x \in Workers : SweepLocal(x)'
  BY <1>0, <1>4, <1>7, SweepOthers
<1>9. ASSUME AllListed'
      PROVE  e = StalePending("evidenceFile") /\ m = StalePending("messageFile") /\ SmallBatches
  <2>1. CASE v.all = TRUE
    BY <1>3, <2>1, BatchOf DEF SweepInv, SmallBatches
  <2>2. CASE v.all # TRUE
    <3>1. AllListed
      BY <1>4, <1>9, <2>2 DEF AllListed, Sweeping, Mine
    <3>2. SmallBatches
      BY <3>1 DEF SweepInv
    <3> QED BY <3>2, BatchOf DEF SweepInv, SmallBatches
  <2> QED BY <2>1, <2>2
<1>10. AllListed' => SmallBatches'
  BY <1>0, <1>9 DEF SmallBatches, StalePending
<1>11. ASSUME AllListed' PROVE Covered(now)'
  <2> SUFFICES ASSUME NEW f \in Uploads, Overstayed(f, now) PROVE Listed(f)'
    BY <1>0 DEF Covered, Overstayed
  <2>1. Kind(f) \in {"evidenceFile", "messageFile"}
    BY DEF Overstayed, FilesInv, FileSound, Scanned
  <2>2. f \in e \cup m
    BY <1>9, <1>11, <2>1 DEF Overstayed, StalePending
  <2> QED BY <1>3, <1>4, <2>2 DEF Listed, Sweeping
<1>12. Covered(swept)'
  BY <1>0, <1>5, FilesAssumption DEF Covered, Overstayed, FilesInv, FileRows
<1>13. "twoSweeps" \notin upset' => OneSweep'
  <2> SUFFICES ASSUME "twoSweeps" \notin upset' PROVE OneSweep'
    OBVIOUS
  <2>1. \A x \in Workers : ~Sweeping(x)
    BY <1>4 DEF Running, SweepInv, SweepLocal
  <2> QED BY <1>0, <1>4, <2>1 DEF OneSweep, Sweeping, Mine
<1> QED BY <1>5, <1>8, <1>10, <1>11, <1>12, <1>13 DEF SweepInv

\* It queues one upload, or fails and ends.
LEMMA SweepOneKeeps ==
    ASSUME Control, FilesInv, SweepInv, now' = now, NEW w \in Workers, SweepOne(w)
    PROVE  SweepInv'
<1>0. UNCHANGED <<file, exhausted>> /\ req[w].pc = "sweep"
  BY DEF SweepOne, At
<1>1. SweepLocal(w)
  BY DEF SweepInv
<1>2. PICK v : v = req[w].v /\ v = [todo |-> v.todo, all |-> v.all] /\ v.todo \subseteq Uploads /\ req[w].op = "sweep"
  BY <1>0, <1>1 DEF SweepLocal, Sweeping
<1>3. PICK f \in v.todo :
        \/ GotoWith(w, "sweep", "sweep", [v EXCEPT !.todo = @ \ {f}]) /\ Enqueued(f) /\ UNCHANGED swept
        \/ FailTo(w, "sweep", "rpc", Idle) /\ swept' = 0 /\ UNCHANGED scanJob
  BY <1>2 DEF SweepOne, Local
<1>4. PendingOK'
  BY <1>0 DEF SweepInv, PendingOK
<1>5. CASE GotoWith(w, "sweep", "sweep", [v EXCEPT !.todo = @ \ {f}]) /\ Enqueued(f) /\ UNCHANGED swept
  <2>1. PICK u : u = [todo |-> v.todo \ {f}, all |-> v.all]
    OBVIOUS
  <2>2. [v EXCEPT !.todo = @ \ {f}] = u
    BY <1>2, <2>1
  <2>3. Mine(w) /\ req'[w].pc = "sweep" /\ req'[w].v = u /\ upset' = upset /\ req'[w].op = "sweep"
    <3>1. req'[w].op = req[w].op
      <4>1. Steps({"sweep"}) /\ req'[w].op = req[w].op
        BY <1>5, GotoWithSteps DEF Control
      <4> QED BY <4>1
    <3> QED BY <1>2, <1>5, <2>2, <3>1, GotoWithMine
  <2>4. u = [todo |-> u.todo, all |-> u.all] /\ u.todo = v.todo \ {f} /\ u.all = v.all
    BY <2>1
  <2>5. /\ scanJob' \in [Uploads -> 0..ScanAttempts] /\ scanJob'[f] > 0
        /\ \A g \in Uploads : scanJob[g] > 0 => scanJob'[g] > 0
    BY <1>2, <1>5, EnqueuedMore
  <2>6. ScanRows'
    BY <1>0, <1>5, <2>5 DEF SweepInv, ScanRows
  <2>7. SweepLocal(w)'
    BY <1>2, <2>3, <2>4 DEF SweepLocal, Sweeping, ScanPoints
  <2>8. \A x \in Workers : SweepLocal(x)'
    BY <1>0, <2>3, <2>5, <2>7, SweepOthers
  <2>9. \A x \in Workers : (Sweeping(x)' <=> Sweeping(x)) /\ (x # w => req'[x] = req[x])
    BY <1>0, <2>3 DEF Sweeping, Mine
  <2>10. AllListed' => AllListed
    BY <1>2, <2>3, <2>4, <2>9 DEF AllListed
  <2>11. AllListed' => SmallBatches'
    BY <1>0, <2>10 DEF SweepInv, SmallBatches, StalePending
  <2>12. ASSUME NEW g \in Uploads, scanJob[g] > 0 \/ Listed(g) PROVE scanJob'[g] > 0 \/ Listed(g)'
    <3>1. CASE g = f \/ scanJob[g] > 0
      BY <2>5, <3>1
    <3>2. CASE g # f /\ Listed(g)
      BY <1>2, <2>3, <2>4, <2>9, <3>2 DEF Listed
    <3> QED BY <2>12, <3>1, <3>2
  <2>13. Undisrupted' => Covered(swept)' /\ (AllListed' => Covered(now)')
    BY <1>0, <1>5, <2>3, <2>10, <2>12 DEF SweepInv, Undisrupted, Covered, Overstayed
  <2>14. "twoSweeps" \notin upset' => OneSweep'
    BY <1>5, <2>3, <2>9 DEF SweepInv, OneSweep
  <2> QED BY <1>4, <2>6, <2>8, <2>11, <2>13, <2>14 DEF SweepInv
<1>6. CASE FailTo(w, "sweep", "rpc", Idle) /\ swept' = 0 /\ UNCHANGED scanJob
  <2>1. Mine(w) /\ req'[w].pc = "idle" /\ upset' = upset \cup {"rpc"}
    BY <1>6, FailOwn
  <2>2. ScanRows'
    BY <1>0, <1>6 DEF SweepInv, ScanRows, Control
  <2>3. SweepLocal(w)'
    BY <2>1 DEF SweepLocal, Sweeping, ScanPoints
  <2>4. \A x \in Workers : SweepLocal(x)'
    BY <1>0, <1>6, <2>1, <2>3, SweepOthers
  <2>5. \A x \in Workers : Sweeping(x)' => Sweeping(x) /\ req'[x] = req[x] /\ x # w
    BY <2>1 DEF Sweeping, Mine
  <2>6. AllListed' => AllListed
    BY <2>5 DEF AllListed
  <2>7. AllListed' => SmallBatches'
    BY <1>0, <2>6 DEF SweepInv, SmallBatches, StalePending
  <2>8. "twoSweeps" \notin upset' => \A x \in Workers : ~Sweeping(x)'
    BY <1>0, <2>1, <2>5 DEF SweepInv, OneSweep, Sweeping
  <2>9. Covered(swept)'
    BY <1>0, <1>4, <1>6, FilesAssumption DEF Covered, Overstayed, FilesInv, FileRows
  <2>10. Undisrupted' => Covered(swept)' /\ (AllListed' => Covered(now)')
    BY <2>1, <2>8, <2>9 DEF Undisrupted, AllListed
  <2>11. "twoSweeps" \notin upset' => OneSweep'
    BY <2>8 DEF OneSweep
  <2> QED BY <1>4, <2>2, <2>4, <2>7, <2>10, <2>11 DEF SweepInv
<1> QED BY <1>3, <1>5, <1>6

\* It ends with nothing left to queue.
LEMMA SweptAllKeeps ==
    ASSUME Control, FilesInv, SweepInv, now' = now, NEW w \in Workers, SweptAll(w)
    PROVE  SweepInv'
<1>0. /\ UNCHANGED <<file, scanJob, exhausted>> /\ req[w].pc = "sweep" /\ req[w].v.todo = {}
      /\ swept' = IF req[w].v.all THEN now ELSE 0
  BY DEF SweptAll, At, Local
<1>1. Mine(w) /\ req'[w].pc = "idle" /\ upset' = upset
  BY EndMine DEF SweptAll
<1>2. ScanRows' /\ PendingOK'
  BY <1>0 DEF SweepInv, ScanRows, PendingOK, Control
<1>3. SweepLocal(w)'
  BY <1>1 DEF SweepLocal, Sweeping, ScanPoints
<1>4. \A x \in Workers : SweepLocal(x)'
  BY <1>0, <1>1, <1>3, SweepOthers
<1>5. \A x \in Workers : (Sweeping(x)' => Sweeping(x)) /\ (x # w => req'[x] = req[x])
  BY <1>1 DEF Sweeping, Mine
<1>6. AllListed' => AllListed
  BY <1>1, <1>5 DEF AllListed, Sweeping
<1>7. AllListed' => SmallBatches'
  BY <1>0, <1>6 DEF SweepInv, SmallBatches, StalePending
<1>8. \A g \in Uploads : Listed(g) => Listed(g)'
  BY <1>0, <1>5 DEF Listed, Sweeping
<1>9. ASSUME Undisrupted' PROVE Covered(swept)' /\ (AllListed' => Covered(now)')
  <2>1. AllListed => Covered(now)
    BY <1>1, <1>9 DEF SweepInv, Undisrupted
  <2>2. Covered(now) => Covered(now)'
    BY <1>0, <1>8 DEF Covered, Overstayed
  <2>3. CASE req[w].v.all = TRUE
    <3>1. AllListed /\ swept' = now'
      BY <1>0, <2>3 DEF AllListed, Sweeping
    <3> QED BY <2>1, <2>2, <3>1 DEF Covered
  <2>4. CASE swept' = 0
    <3>1. Covered(swept)'
      BY <1>0, <1>2, <2>4, FilesAssumption DEF Covered, Overstayed, FilesInv, FileRows
    <3> QED BY <1>6, <2>1, <2>2, <3>1
  <2> QED BY <1>0, <2>3, <2>4
<1>10. "twoSweeps" \notin upset' => OneSweep'
  BY <1>0, <1>1, <1>5 DEF SweepInv, OneSweep, Sweeping
<1> QED BY <1>2, <1>4, <1>7, <1>9, <1>10 DEF SweepInv

\* Every step keeps the invariant of the sweeps.
LEMMA SweepNextInv ==
    ASSUME Control, FilesInv, SweepInv, [Next]_serviceVars
    PROVE  SweepInv'
<1>1. CASE FilesNext /\ now' = now
  <2>1. CASE \E f \in Uploads : ClientPut(f) \/ FailStalled(f)
    BY <1>1, <2>1, ClientPutSweep, FailStalledSweep
  <2>2. ASSUME NEW w \in Workers, NEW f \in Uploads, UploadFile(w, f) \/ AvatarUploadUrl(w, f) \/ ScanJob(w, f)
        PROVE  SweepInv'
    BY <1>1, <2>2, PlainFileSteps, ScanJobSweep
  <2>3. ASSUME NEW w \in Workers,
               \/ PutObject(w) \/ InsertRow(w) \/ EnqueueScan(w) \/ Review(w) \/ WriteReview(w)
               \/ LoadPendingTarget(w) \/ GetVerdict(w) \/ MarkClean(w) \/ MarkInfected(w)
               \/ CopyObject(w) \/ RemoveObject(w) \/ TellUploader(w)
        PROVE  SweepInv'
    BY <1>1, <2>3, PlainFileSteps, InsertRowSweep, EnqueueScanSweep, ScanSteps
  <2>4. ASSUME NEW w \in Workers,
               \/ SweepPending(w) \/ SweepOne(w) \/ SweptAll(w)
               \/ Cleanup(w) \/ ListObjects(w) \/ ReadReferences(w) \/ DeleteOrphan(w) \/ NextPrefix(w)
        PROVE  SweepInv'
    BY <1>1, <2>4, PlainFileSteps, SweepPendingKeeps, SweepOneKeeps, SweptAllKeeps
  <2> QED BY <1>1, <2>1, <2>2, <2>3, <2>4 DEF FilesNext
<1> QED BY <1>1, FilesMoves, SweepElsewhere

\* Whatever was lost before, once a sweep that took all there was has gone through,
\* each upload that was overdue when it started has its verdict or a job; that
\* several sweeps overlap does no harm while none of them fails.
THEOREM UploadsSwept == Spec => []UploadsScanned
<1>1. Init => Control /\ FilesInv /\ SweepInv
  BY ControlStart, FilesStart, SweepStart
<1>2. Control /\ FilesInv /\ SweepInv /\ [Next]_serviceVars => (Control /\ FilesInv /\ SweepInv)'
  BY ControlNext, FilesNextInv, SweepNextInv
<1>3. Control /\ FilesInv /\ SweepInv => UploadsScanned
  <2> SUFFICES ASSUME SweepInv, ~Running("sweep"), Undisrupted, NEW f \in Uploads \ exhausted, Overstayed(f, swept)
               PROVE  scanJob[f] > 0
    BY DEF UploadsScanned, Overstayed, Undisrupted
  <2>1. ~Listed(f)
    BY DEF SweepInv, SweepLocal, Listed, Sweeping, Running
  <2> QED BY <2>1 DEF SweepInv, Covered
<1> QED BY <1>1, <1>2, <1>3, PTL DEF Spec
=============================================================================
