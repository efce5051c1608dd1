--------------------------- MODULE DisputesProofs ---------------------------
(***************************************************************************)
(* Proofs about Disputes, for every number of milestones, arbiters and     *)
(* disputes: first what holds under any number of handlers and any faults, *)
(* with every fee accounted for, then what holds when no two handlers      *)
(* overlap (OneAtATime), and last what is booked against the contract's    *)
(* verdicts, again for any number of handlers and any faults.              *)
(***************************************************************************)
EXTENDS Disputes, TLAPS, FiniteSetTheorems

-----------------------------------------------------------------------------
(* The arbiter selection *)

\* selectArbiter answers with an arbiter eligible on the milestone and not excluded, or null.
LEMMA SelectArbiterSpec ==
    ASSUME NEW m \in Milestones, NEW exclude, NEW a \in SelectArbiter(m, exclude)
    PROVE  a \in (Eligible[m] \ exclude) \cup {NoOne} /\ a \in Arbiters \cup {NoOne}
BY EligibleAssumption DEF SelectArbiter

-----------------------------------------------------------------------------
(* The base of every argument: types, and what a handler knows of the row its
   locals name. *)

\* The labels at which a handler works on a dispute row.
DisputeLabels == {"assign", "assignWrite", "decide", "appeal", "decideAppeal",
                  "finalize", "claim", "load", "rollback", "release", "payout"}

\* The labels of a settlement at which the local `a` is the row's arbiter.
PayingLabels == {"submit", "confirm", "mark", "release", "payout"}

\* A handler's locals: its milestone is real, its dispute is a row of that
\* milestone, its user has the right kind, its captured time is not in the future.
LocalOK(w) ==
    /\ req[w].pc # "idle" => req[w].m \in Milestones
    /\ req[w].pc \in DisputeLabels => req[w].d # NoDispute
    /\ req[w].pc = "record" => req[w].d = NoDispute
    /\ req[w].d # NoDispute =>
          Exists(req[w].d) /\ dispute[req[w].d].milestone = req[w].m
    /\ req[w].pc = "assignWrite" => req[w].a \in Arbiters
    /\ req[w].pc = "appeal" => req[w].a \in Arbiters \cup {NoOne}
    /\ req[w].pc \in PayingLabels /\ req[w].d # NoDispute
          => req[w].a \in Arbiters \cup {NoOne}
    /\ req[w].t <= now

\* Transactions in flight and disputes on chain belong to real milestones and rounds.
TxOK == \A w \in Workers : tx[w].st = "flying" => tx[w].m \in Milestones
ChainOK == \A m \in Milestones : chain[m].st = "DISPUTED" => chain[m].round >= 1

\* A row that exists belongs to a milestone.
RowOK == \A d \in DisputeIds : Exists(d) => dispute[d].milestone \in Milestones

Base == TypeOK /\ (\A w \in Workers : LocalOK(w)) /\ TxOK /\ ChainOK /\ RowOK

\* The types of the variables other than the dispute table and the handlers.
OtherTypes ==
    /\ appeal \in [DisputeIds -> {"NONE", "OPEN", "DECIDED"}]
    /\ payout \in [DisputeIds -> Arbiters \cup {NoOne}]
    /\ msStatus \in [Milestones ->
                       {"PROOF_SUBMITTED", "DISPUTED", "RESOLVED", "PENDING"}]
    /\ refund \in [Milestones -> BOOLEAN]
    /\ chain \in [Milestones -> [st : {"OPEN", "DISPUTED", "PAID"},
                                 round : 0..MaxRounds]]
    /\ verdict \in [Milestones -> [1..MaxRounds -> Outcomes \cup {"NONE"}]]
    /\ tx \in [Workers -> Transaction]
    /\ events \subseteq Event
    /\ now \in Nat
    /\ faults \in Nat

\* Every row keeps its type, and a row that exists stays with its milestone.
RowsPersist ==
    /\ dispute' \in [DisputeIds -> DisputeRow]
    /\ \A d \in DisputeIds : Exists(d) =>
          Exists(d)' /\ dispute'[d].milestone = dispute[d].milestone

\* Every handler stays where it is or moves to a state in which it is well formed.
Moved ==
    /\ req' \in [Workers -> Request]
    /\ \A w \in Workers : req'[w] = req[w] \/ LocalOK(w)'

\* What an action has to show to preserve Base.
LEMMA BaseFrom ==
    ASSUME Base, RowsPersist, Moved, OtherTypes', TxOK', ChainOK', RowOK',
           now' >= now
    PROVE  Base'
<1>1. TypeOK'
  BY DEF RowsPersist, Moved, OtherTypes, TypeOK
<1>2. ASSUME NEW w \in Workers PROVE LocalOK(w)'
  <2>1. CASE LocalOK(w)'
    BY <2>1
  <2>2. CASE req'[w] = req[w]
    <3>1. LocalOK(w) /\ req[w] \in Request /\ now \in Nat /\ now' \in Nat
      BY DEF Base, TypeOK, OtherTypes
    <3>2. req[w].d # NoDispute => req[w].d \in DisputeIds
      BY <3>1 DEF Request
    <3>3. req[w].t \in Nat
      BY <3>1 DEF Request
    <3> QED BY <2>2, <3>1, <3>2, <3>3 DEF LocalOK, RowsPersist, Exists
  <2> QED BY <2>1, <2>2 DEF Moved
<1> QED BY <1>1, <1>2 DEF Base

\* Base holds initially.
LEMMA BaseInit == Init => Base
<1> SUFFICES ASSUME Init PROVE Base
  OBVIOUS
<1>1. NoRow \in DisputeRow
  BY BoundsAssumption DEF NoRow, DisputeRow, NoOne, Never
<1>2. Idle \in Request /\ NoTx \in Transaction
  BY BoundsAssumption DEF Idle, Request, Labels, NoTx, Transaction, NoDispute, NoOne
<1>3. TypeOK
  BY <1>1, <1>2, BoundsAssumption DEF Init, TypeOK, NoOne, Outcomes
<1>4. \A w \in Workers : LocalOK(w)
  BY DEF Init, LocalOK, Idle, DisputeLabels, PayingLabels, NoDispute
<1>5. TxOK /\ ChainOK /\ RowOK
  BY DEF Init, TxOK, NoTx, ChainOK, RowOK, NoRow, Exists
<1> QED BY <1>3, <1>4, <1>5 DEF Base

\* A step that leaves the dispute table alone.
LEMMA RowsKept ==
    ASSUME Base, UNCHANGED dispute PROVE RowsPersist /\ RowOK'
BY DEF Base, TypeOK, RowsPersist, RowOK, Exists

\* A statement on one existing row that keeps its type and milestone.
LEMMA RowWritten ==
    ASSUME Base, NEW d \in DisputeIds, NEW row \in DisputeRow, Write(d, row),
           row.status # "NONE", row.milestone \in Milestones,
           Exists(d) => row.milestone = dispute[d].milestone
    PROVE  RowsPersist /\ RowOK'
BY DEF Base, TypeOK, Write, RowsPersist, RowOK, Exists

\* A step that leaves the handlers alone.
LEMMA HandlersKept ==
    ASSUME Base, UNCHANGED req PROVE Moved
BY DEF Base, TypeOK, Moved

\* A step that leaves the chain and the clock alone.
LEMMA ChainKept ==
    ASSUME Base, UNCHANGED <<onChain, now>>
    PROVE  TxOK' /\ ChainOK' /\ now' >= now
BY DEF Base, TypeOK, onChain, TxOK, ChainOK

\* What a handler that is not idle knows.
LEMMA HandlerFacts ==
    ASSUME Base, NEW w \in Workers
    PROVE  /\ req[w] \in Request /\ LocalOK(w) /\ OtherTypes
           /\ req[w].d # NoDispute =>
                /\ req[w].d \in DisputeIds
                /\ dispute[req[w].d] \in DisputeRow
                /\ Exists(req[w].d)
                /\ dispute[req[w].d].milestone = req[w].m
                /\ req[w].m \in Milestones
<1>1. req[w] \in Request /\ LocalOK(w) /\ OtherTypes
  BY DEF Base, TypeOK, OtherTypes
<1>2. req[w].d # NoDispute => req[w].d \in DisputeIds
  BY <1>1 DEF Request
<1> QED BY <1>1, <1>2 DEF LocalOK, Base, RowOK, TypeOK

\* A step of one handler.
LEMMA HandlerMoves ==
    ASSUME Base, NEW w \in Workers, NEW r \in Request, Become(w, r), LocalOK(w)'
    PROVE  Moved
BY DEF Base, TypeOK, Moved, Become

\* A step of one handler that changes no table and nothing on chain.
LEMMA ControlStep ==
    ASSUME Base, NEW w \in Workers, NEW r \in Request, Become(w, r), LocalOK(w)',
           UNCHANGED <<rows, onChain, now>>, faults' \in Nat
    PROVE  Base'
<1>1. RowsPersist /\ RowOK' /\ TxOK' /\ ChainOK' /\ now' >= now
  BY RowsKept, ChainKept DEF rows
<1>2. OtherTypes'
  BY DEF OtherTypes, rows, onChain, Base, TypeOK
<1> QED BY <1>1, <1>2, HandlerMoves, BaseFrom

\* A handler that ends is well formed.
LEMMA DoneOK ==
    ASSUME Base, NEW w \in Workers, Done(w), now' \in Nat
    PROVE  Idle \in Request /\ Become(w, Idle) /\ LocalOK(w)'
<1>1. Idle \in Request
  BY BoundsAssumption DEF Idle, Request, Labels, NoDispute, NoOne
<1>2. req'[w] = Idle
  BY DEF Done, Become, Base, TypeOK
<1> QED BY <1>1, <1>2
        DEF Done, Idle, LocalOK, DisputeLabels, PayingLabels, NoDispute

\* A handler that goes on to another statement with the same locals.
LEMMA GotoOK ==
    ASSUME Base, NEW w \in Workers, NEW label \in Labels \ {"assignWrite", "appeal", "record"},
           Goto(w, label), RowsPersist, now' \in Nat, now' >= now,
           ~At(w, "idle"),
           label \in DisputeLabels => req[w].d # NoDispute,
           label \in PayingLabels /\ req[w].d # NoDispute
              => req[w].a \in Arbiters \cup {NoOne}
    PROVE  /\ [req[w] EXCEPT !.pc = label] \in Request
           /\ Become(w, [req[w] EXCEPT !.pc = label])
           /\ LocalOK(w)'
<1> DEFINE r == [req[w] EXCEPT !.pc = label]
<1>1. r \in Request /\ req'[w] = r
  BY HandlerFacts DEF Goto, Become, Request, Base, TypeOK
<1>2. /\ r.pc = label /\ r.d = req[w].d /\ r.m = req[w].m /\ r.a = req[w].a
      /\ r.t = req[w].t /\ req[w].t \in Nat
  BY HandlerFacts DEF Request
<1>3. req[w].d # NoDispute =>
         /\ dispute'[req[w].d].status # "NONE"
         /\ dispute'[req[w].d].milestone = req[w].m
  BY HandlerFacts DEF RowsPersist, Exists
<1> HIDE DEF r
<1>4. LocalOK(w)'
  BY <1>1, <1>2, <1>3, HandlerFacts DEF LocalOK, At, Exists, Base, TypeOK
<1> QED BY <1>1, <1>4 DEF Goto, r

\* A step of one handler that writes one dispute row, and perhaps its appeal.
LEMMA WriteStep ==
    ASSUME Base, NEW w \in Workers, NEW r \in Request, Become(w, r), LocalOK(w)',
           RowsPersist, RowOK',
           appeal' \in [DisputeIds -> {"NONE", "OPEN", "DECIDED"}],
           UNCHANGED <<payout, msStatus, refund, onChain, now, faults>>
    PROVE  Base'
<1>1. OtherTypes'
  BY DEF OtherTypes, onChain, Base, TypeOK
<1> QED BY <1>1, HandlerMoves, ChainKept, BaseFrom

\* A handler that goes on without having changed anything.
LEMMA QuietGoto ==
    ASSUME Base, NEW w \in Workers, NEW label \in Labels \ {"assignWrite", "appeal", "record"},
           Goto(w, label), UNCHANGED <<rows, onChain, now>>, faults' \in Nat,
           ~At(w, "idle"),
           label \in DisputeLabels => req[w].d # NoDispute,
           label \in PayingLabels /\ req[w].d # NoDispute
              => req[w].a \in Arbiters \cup {NoOne}
    PROVE  Base'
<1>1. RowsPersist /\ now' = now /\ now \in Nat
  BY RowsKept DEF rows, Base, TypeOK
<1>2. [req[w] EXCEPT !.pc = label] \in Request /\ LocalOK(w)'
  BY <1>1, GotoOK
<1> QED BY <1>2, ControlStep DEF Goto

\* A handler that ends without having changed anything.
LEMMA QuietDone ==
    ASSUME Base, NEW w \in Workers, Done(w),
           UNCHANGED <<rows, onChain, now>>, faults' \in Nat
    PROVE  Base'
<1>1. now' = now /\ now \in Nat
  BY DEF Base, TypeOK
<1> QED BY <1>1, DoneOK, ControlStep

\* A statement on the handler's own dispute row.
LEMMA OwnRowWritten ==
    ASSUME Base, NEW w \in Workers, req[w].d # NoDispute, NEW row \in DisputeRow,
           Write(req[w].d, row), row.status # "NONE",
           row.milestone = dispute[req[w].d].milestone
    PROVE  RowsPersist /\ RowOK' /\ dispute'[req[w].d] = row
<1>1. req[w].d \in DisputeIds /\ row.milestone \in Milestones
  BY HandlerFacts
<1> QED BY <1>1, RowWritten DEF Write, Base, TypeOK

\* Every step preserves Base: types, and what each handler knows of its row.
LEMMA BaseStep == Base /\ [Next]_vars => Base'
<1> SUFFICES ASSUME Base, [Next]_vars PROVE Base'
  OBVIOUS
<1>0. now \in Nat /\ faults \in Nat /\ NoRow \in DisputeRow
  BY BoundsAssumption DEF Base, TypeOK, NoRow, DisputeRow, NoOne, Never
<1>00. Idle \in Request /\ Idle.t = 0 /\ Idle.d = NoDispute
  BY BoundsAssumption DEF Idle, Request, Labels, NoDispute, NoOne
<1> USE DEF At
<1>1. ASSUME NEW w \in Workers, OpenFind(w) PROVE Base'
  <2>1. PICK label \in {"ack", "create"} : Goto(w, label)
    BY <1>1 DEF OpenFind
  <2>2. ~At(w, "idle") /\ UNCHANGED <<rows, onChain, now>> /\ faults' \in Nat
    BY <1>0, <1>1 DEF OpenFind
  <2>3. label \in Labels \ (DisputeLabels \cup PayingLabels \cup {"record"})
    BY DEF Labels, DisputeLabels, PayingLabels
  <2> QED BY <2>1, <2>2, <2>3, QuietGoto DEF DisputeLabels
<1>2. ASSUME NEW w \in Workers, OpenCreate(w) PROVE Base'
  <2> DEFINE row == [NoRow EXCEPT !.milestone = req[w].m,
                                  !.round = req[w].round, !.status = "OPEN"]
  <2>1. PICK d \in DisputeIds :
          /\ ~Exists(d)
          /\ Write(d, row)
          /\ Become(w, [req[w] EXCEPT !.pc = "assign", !.d = d])
    BY <1>2 DEF OpenCreate
  <2> DEFINE r == [req[w] EXCEPT !.pc = "assign", !.d = d]
  <2>2. req[w].pc = "create" /\ req[w].m \in Milestones /\ req[w].round \in 0..MaxRounds
    BY <1>2, HandlerFacts DEF OpenCreate, LocalOK, Request
  <2>3. row \in DisputeRow /\ row.status = "OPEN" /\ row.milestone = req[w].m
    BY <1>0, <2>2 DEF DisputeRow
  <2>4. RowsPersist /\ RowOK'
    BY <2>1, <2>2, <2>3, RowWritten
  <2>5. /\ r \in Request /\ r.pc = "assign" /\ r.d = d /\ r.m = req[w].m
        /\ r.t = req[w].t
    BY <2>1, HandlerFacts DEF Request, Labels
  <2>6. dispute'[d] = row /\ req'[w] = r /\ now' = now
    BY <1>2, <2>1 DEF OpenCreate, Write, Become, Base, TypeOK
  <2>7. LocalOK(w)'
    <3> HIDE DEF r, row
    <3> QED BY <2>2, <2>3, <2>5, <2>6, HandlerFacts
            DEF LocalOK, Exists, DisputeLabels, PayingLabels, DisputeIds, NoDispute
  <2>8. UNCHANGED <<appeal, payout, msStatus, refund, onChain, now, faults>>
    BY <1>2 DEF OpenCreate
  <2> QED BY <2>1, <2>4, <2>5, <2>7, <2>8, WriteStep DEF Base, TypeOK
<1>3. ASSUME NEW w \in Workers, AutoAssignRead(w) PROVE Base'
  <2>1. /\ At(w, "assign") /\ UNCHANGED <<rows, onChain, now>> /\ faults' \in Nat
    BY <1>0, <1>3 DEF AutoAssignRead
  <2>2. CASE Goto(w, "ack")
    BY <2>1, <2>2, QuietGoto DEF Labels, DisputeLabels, PayingLabels
  <2>3. ASSUME NEW arbiter \in SelectArbiter(req[w].m, {}) \ {NoOne},
               Become(w, [req[w] EXCEPT !.pc = "assignWrite", !.a = arbiter])
        PROVE  Base'
    <3> DEFINE r == [req[w] EXCEPT !.pc = "assignWrite", !.a = arbiter]
    <3>1. req[w].m \in Milestones /\ req[w].d # NoDispute
      BY <2>1, HandlerFacts DEF LocalOK, DisputeLabels
    <3>2. arbiter \in Arbiters
      BY <2>3, <3>1, SelectArbiterSpec
    <3>3. /\ r \in Request /\ r.pc = "assignWrite" /\ r.a = arbiter
          /\ r.d = req[w].d /\ r.m = req[w].m /\ r.t = req[w].t
      BY <3>2, HandlerFacts DEF Request, Labels, Actors
    <3>4. req'[w] = r /\ dispute' = dispute /\ now' = now
      BY <2>1, <2>3 DEF Become, rows, Base, TypeOK
    <3>5. LocalOK(w)'
      <4> HIDE DEF r
      <4> QED BY <2>1, <3>1, <3>2, <3>3, <3>4, HandlerFacts
              DEF LocalOK, Exists, DisputeLabels, PayingLabels
    <3> QED BY <2>1, <2>3, <3>3, <3>5, ControlStep
  <2> QED BY <1>3, <2>2, <2>3 DEF AutoAssignRead
<1>4. ASSUME NEW w \in Workers, AutoAssignWrite(w) PROVE Base'
  <2> DEFINE d == req[w].d
             row == [dispute[d] EXCEPT !.arbiter = req[w].a,
                                       !.status = "UNDER_REVIEW",
                                       !.stage = "ARBITER_REVIEW"]
  <2>1. /\ At(w, "assignWrite") /\ Goto(w, "ack")
        /\ UNCHANGED <<appeal, payout, msStatus, refund, onChain, now, faults>>
    BY <1>4 DEF AutoAssignWrite
  <2>2. d # NoDispute /\ req[w].a \in Arbiters
    BY <2>1, HandlerFacts DEF LocalOK, DisputeLabels
  <2>3. CASE UNCHANGED dispute
    BY <1>0, <2>1, <2>3, QuietGoto DEF rows, Labels, DisputeLabels, PayingLabels
  <2>4. CASE Write(d, row)
    <3>1. row \in DisputeRow /\ row.status # "NONE" /\ row.milestone = dispute[d].milestone
      BY <2>2, HandlerFacts DEF DisputeRow
    <3>2. RowsPersist /\ RowOK'
      BY <2>2, <2>4, <3>1, OwnRowWritten
    <3>3. [req[w] EXCEPT !.pc = "ack"] \in Request /\ LocalOK(w)'
      BY <1>0, <2>1, <3>2, GotoOK DEF Labels, DisputeLabels, PayingLabels
    <3> QED BY <2>1, <3>2, <3>3, WriteStep DEF Goto, Base, TypeOK
  <2> QED BY <1>4, <2>3, <2>4 DEF AutoAssignWrite
<1>5. ASSUME NEW w \in Workers, RecordDecision(w) PROVE Base'
  <2> DEFINE m == req[w].m
  <2>1. /\ At(w, "record")
        /\ UNCHANGED <<dispute, appeal, payout, msStatus, onChain, now, faults>>
    BY <1>5 DEF RecordDecision
  <2>2. m \in Milestones /\ req[w].d = NoDispute
    BY <2>1, HandlerFacts DEF LocalOK
  <2>3. RowsPersist /\ RowOK' /\ TxOK' /\ ChainOK' /\ now' >= now
    BY <2>1, RowsKept, ChainKept
  <2>4. ASSUME Goto(w, "submit"), refund' = [refund EXCEPT ![m] = @ \/ RefundDue(req[w].o)]
        PROVE  Base'
    <3>1. refund' \in [Milestones -> BOOLEAN]
      BY <2>4 DEF Base, TypeOK, RefundDue
    <3>2. OtherTypes'
      BY <2>1, <3>1 DEF OtherTypes, onChain, Base, TypeOK
    <3>3. [req[w] EXCEPT !.pc = "submit"] \in Request /\ LocalOK(w)'
      BY <1>0, <2>1, <2>2, <2>3, <2>4, GotoOK DEF Labels, DisputeLabels, PayingLabels
    <3> QED BY <2>3, <2>4, <3>2, <3>3, HandlerMoves, BaseFrom DEF Goto
  <2>5. ASSUME Done(w), UNCHANGED refund PROVE Base'
    BY <1>0, <2>1, <2>5, QuietDone DEF rows
  <2>6. ASSUME NEW d \in NotClosed(m), UNCHANGED refund,
               Become(w, [req[w] EXCEPT !.pc = "decide", !.d = d])
        PROVE  Base'
    <3> DEFINE r == [req[w] EXCEPT !.pc = "decide", !.d = d]
    <3>1. d \in DisputeIds /\ Exists(d) /\ dispute[d].milestone = m
      BY DEF NotClosed
    <3>2. /\ r \in Request /\ r.pc = "decide" /\ r.d = d /\ r.m = m /\ r.t = req[w].t
      BY <3>1, HandlerFacts DEF Request, Labels
    <3>3. req'[w] = r /\ dispute' = dispute /\ now' = now
      BY <2>1, <2>6 DEF Become, Base, TypeOK
    <3>4. LocalOK(w)'
      <4> HIDE DEF r
      <4> QED BY <2>1, <2>2, <3>1, <3>2, <3>3, HandlerFacts
              DEF LocalOK, Exists, DisputeLabels, PayingLabels, DisputeIds, NoDispute
    <3> QED BY <1>0, <2>1, <2>6, <3>2, <3>4, ControlStep DEF rows
  <2> QED BY <1>5, <2>4, <2>5, <2>6 DEF RecordDecision
<1>6. ASSUME NEW w \in Workers, DecideWrite(w) PROVE Base'
  <2> DEFINE d == req[w].d
             row == [dispute[d] EXCEPT
                        !.status = "RESOLVED", !.outcome = req[w].o,
                        !.decider = req[w].a, !.assigned = dispute[d].arbiter,
                        !.appealDeadline = now + AppealWindow,
                        !.fundsLocked = TRUE, !.isFinal = (AppealWindow = 0)]
  <2>1. /\ At(w, "decide")
        /\ UNCHANGED <<appeal, payout, msStatus, refund, onChain, now, faults>>
    BY <1>6 DEF DecideWrite
  <2>2. d # NoDispute
    BY <2>1, HandlerFacts DEF LocalOK, DisputeLabels
  <2>3. ASSUME Done(w), UNCHANGED dispute PROVE Base'
    BY <1>0, <2>1, <2>3, QuietDone DEF rows
  <2>4. ASSUME Write(d, row), Goto(w, "claim") \/ Done(w) PROVE Base'
    <3>1. /\ now + AppealWindow \in Int /\ dispute[d] \in DisputeRow
          /\ req[w].o \in Outcomes \cup {"NONE"} /\ req[w].a \in Actors \cup {NoOne}
      BY <1>0, <2>2, HandlerFacts, BoundsAssumption DEF Request
    <3>2. row \in DisputeRow /\ row.status # "NONE" /\ row.milestone = dispute[d].milestone
      BY <3>1 DEF DisputeRow
    <3>3. RowsPersist /\ RowOK'
      BY <2>2, <2>4, <3>2, OwnRowWritten
    <3>4. CASE Goto(w, "claim")
      <4>1. [req[w] EXCEPT !.pc = "claim"] \in Request /\ LocalOK(w)'
        BY <1>0, <2>1, <2>2, <3>3, <3>4, GotoOK DEF Labels, DisputeLabels, PayingLabels
      <4> QED BY <2>1, <3>3, <3>4, <4>1, WriteStep DEF Goto, Base, TypeOK
    <3>5. CASE Done(w)
      BY <1>0, <2>1, <3>3, <3>5, DoneOK, WriteStep DEF Base, TypeOK
    <3> QED BY <2>4, <3>4, <3>5
  <2> QED BY <1>6, <2>3, <2>4 DEF DecideWrite
<1>7. ASSUME NEW w \in Workers, OpenAppealWrite(w) PROVE Base'
  <2> DEFINE d == req[w].d
             row == AppealedRow(dispute[d], req[w].a)
  <2>1. /\ At(w, "appeal") /\ Done(w)
        /\ UNCHANGED <<payout, msStatus, refund, onChain, now, faults>>
    BY <1>7 DEF OpenAppealWrite
  <2>2. d # NoDispute /\ req[w].a \in Arbiters \cup {NoOne}
    BY <2>1, HandlerFacts DEF LocalOK, DisputeLabels
  <2>3. CASE UNCHANGED <<dispute, appeal>>
    BY <1>0, <2>1, <2>3, QuietDone DEF rows
  <2>4. CASE Write(d, row) /\ appeal' = [appeal EXCEPT ![d] = "OPEN"]
    <3>1. row \in DisputeRow /\ row.status # "NONE" /\ row.milestone = dispute[d].milestone
      <4>1. dispute[d] \in DisputeRow
        BY <2>2, HandlerFacts
      <4>2. PICK status \in Active :
              row = [dispute[d] EXCEPT !.status = status, !.arbiter = req[w].a,
                                       !.fundsLocked = TRUE, !.stage = "APPEAL_REVIEW"]
        BY DEF AppealedRow, Active
      <4> HIDE DEF row
      <4>3. row \in DisputeRow
        BY <2>2, <4>1, <4>2 DEF DisputeRow, Active
      <4>4. row.status = status /\ row.milestone = dispute[d].milestone
        BY <4>1, <4>2 DEF DisputeRow
      <4> QED BY <4>3, <4>4 DEF Active
    <3>2. RowsPersist /\ RowOK'
      BY <2>2, <2>4, <3>1, OwnRowWritten
    <3>3. appeal' \in [DisputeIds -> {"NONE", "OPEN", "DECIDED"}]
      BY <2>4 DEF Base, TypeOK
    <3> QED BY <1>0, <2>1, <3>2, <3>3, DoneOK, WriteStep
  <2> QED BY <1>7, <2>3, <2>4 DEF OpenAppealWrite
<1>8. ASSUME NEW w \in Workers, DecideAppealWrite(w) PROVE Base'
  <2> DEFINE d == req[w].d
             row == [dispute[d] EXCEPT !.status = "RESOLVED", !.outcome = req[w].o,
                                       !.appealDeadline = now, !.isFinal = TRUE, !.decider = NoOne, !.assigned = NoOne]
  <2>1. /\ At(w, "decideAppeal")
        /\ UNCHANGED <<payout, msStatus, refund, onChain, now, faults>>
    BY <1>8 DEF DecideAppealWrite
  <2>2. d # NoDispute
    BY <2>1, HandlerFacts DEF LocalOK, DisputeLabels
  <2>3. ASSUME Done(w), UNCHANGED <<dispute, appeal>> PROVE Base'
    BY <1>0, <2>1, <2>3, QuietDone DEF rows
  <2>4. ASSUME Write(d, row), appeal' = [appeal EXCEPT ![d] = "DECIDED"],
               Goto(w, "claim")
        PROVE  Base'
    <3>0. dispute[d] \in DisputeRow /\ now \in Int /\ req[w].o \in Outcomes \cup {"NONE"}
      BY <1>0, <2>2, HandlerFacts DEF Request
    <3>1. row \in DisputeRow /\ row.status # "NONE" /\ row.milestone = dispute[d].milestone
      BY <3>0 DEF DisputeRow
    <3>2. RowsPersist /\ RowOK'
      BY <2>2, <2>4, <3>1, OwnRowWritten
    <3>3. appeal' \in [DisputeIds -> {"NONE", "OPEN", "DECIDED"}]
      BY <2>4 DEF Base, TypeOK
    <3>4. [req[w] EXCEPT !.pc = "claim"] \in Request /\ LocalOK(w)'
      BY <1>0, <2>1, <2>2, <2>4, <3>2, GotoOK DEF Labels, DisputeLabels, PayingLabels
    <3> QED BY <2>1, <2>4, <3>2, <3>3, <3>4, WriteStep DEF Goto
  <2> QED BY <1>8, <2>3, <2>4 DEF DecideAppealWrite
<1>9. ASSUME NEW w \in Workers, FinalizeWrite(w) PROVE Base'
  <2> DEFINE d == req[w].d
             row == [dispute[d] EXCEPT !.isFinal = TRUE, !.decider = NoOne, !.assigned = NoOne]
  <2>1. /\ At(w, "finalize")
        /\ UNCHANGED <<appeal, payout, msStatus, refund, onChain, now, faults>>
    BY <1>9 DEF FinalizeWrite
  <2>2. d # NoDispute
    BY <2>1, HandlerFacts DEF LocalOK, DisputeLabels
  <2>3. ASSUME Done(w), UNCHANGED dispute PROVE Base'
    BY <1>0, <2>1, <2>3, QuietDone DEF rows
  <2>4. ASSUME Write(d, row), Goto(w, "claim") PROVE Base'
    <3>1. row \in DisputeRow /\ row.status # "NONE" /\ row.milestone = dispute[d].milestone
      BY <2>2, HandlerFacts DEF DisputeRow, Exists
    <3>2. RowsPersist /\ RowOK'
      BY <2>2, <2>4, <3>1, OwnRowWritten
    <3>3. [req[w] EXCEPT !.pc = "claim"] \in Request /\ LocalOK(w)'
      BY <1>0, <2>1, <2>2, <2>4, <3>2, GotoOK DEF Labels, DisputeLabels, PayingLabels
    <3> QED BY <2>1, <2>4, <3>2, <3>3, WriteStep DEF Goto, Base, TypeOK
  <2> QED BY <1>9, <2>3, <2>4 DEF FinalizeWrite
<1>10. ASSUME NEW w \in Workers, SettleClaim(w) PROVE Base'
  <2> DEFINE d == req[w].d
             row == ClaimedRow(dispute[d])
  <2>1. /\ At(w, "claim")
        /\ UNCHANGED <<appeal, payout, msStatus, refund, onChain, now, faults>>
    BY <1>10 DEF SettleClaim
  <2>2. d # NoDispute
    BY <2>1, HandlerFacts DEF LocalOK, DisputeLabels
  <2>3. ASSUME Done(w), UNCHANGED dispute PROVE Base'
    BY <1>0, <2>1, <2>3, QuietDone DEF rows
  <2>4. ASSUME Write(d, row), Goto(w, "load") PROVE Base'
    <3>1. row \in DisputeRow /\ row.status # "NONE" /\ row.milestone = dispute[d].milestone
      BY <2>2, HandlerFacts DEF DisputeRow, ClaimedRow
    <3>2. RowsPersist /\ RowOK'
      BY <2>2, <2>4, <3>1, OwnRowWritten
    <3>3. [req[w] EXCEPT !.pc = "load"] \in Request /\ LocalOK(w)'
      BY <1>0, <2>1, <2>2, <2>4, <3>2, GotoOK DEF Labels, DisputeLabels, PayingLabels
    <3> QED BY <2>1, <2>4, <3>2, <3>3, WriteStep DEF Goto, Base, TypeOK
  <2> QED BY <1>10, <2>3, <2>4 DEF SettleClaim
<1>11. ASSUME NEW w \in Workers, SettleLoad(w) PROVE Base'
  <2> DEFINE row == dispute[req[w].d]
             r == [req[w] EXCEPT !.pc = "submit", !.o = Ruling(row), !.a = row.arbiter]
  <2>1. /\ At(w, "load") /\ Become(w, r)
        /\ refund' = [refund EXCEPT ![req[w].m] = @ \/ RefundDue(row.outcome)]
        /\ UNCHANGED <<dispute, appeal, payout, msStatus, onChain, now, faults>>
    BY <1>11 DEF SettleLoad
  <2>2. req[w].d # NoDispute
    BY <2>1, HandlerFacts DEF LocalOK, DisputeLabels
  <2>3. RowsPersist /\ RowOK' /\ TxOK' /\ ChainOK' /\ now' >= now
    BY <2>1, RowsKept, ChainKept
  <2>4. refund' \in [Milestones -> BOOLEAN]
    BY <2>1 DEF Base, TypeOK, RefundDue
  <2>5. OtherTypes'
    BY <2>1, <2>4 DEF OtherTypes, onChain, Base, TypeOK
  <2>6. row.arbiter \in Arbiters \cup {NoOne} /\ Ruling(row) \in Outcomes
    BY <2>2, HandlerFacts DEF DisputeRow, Ruling, Outcomes
  <2>7. /\ r \in Request /\ r.pc = "submit" /\ r.a = row.arbiter
        /\ r.d = req[w].d /\ r.m = req[w].m /\ r.t = req[w].t
    BY <2>6, HandlerFacts DEF Request, Labels, Actors
  <2>8. req'[w] = r /\ dispute' = dispute /\ now' = now
    BY <2>1 DEF Become, Base, TypeOK
  <2>9. LocalOK(w)'
    <3> HIDE DEF r, row
    <3> QED BY <2>1, <2>2, <2>6, <2>7, <2>8, HandlerFacts
            DEF LocalOK, Exists, DisputeLabels, PayingLabels
  <2> QED BY <2>1, <2>3, <2>5, <2>7, <2>9, HandlerMoves, BaseFrom
<1>12. ASSUME NEW w \in Workers, ResolveMilestoneDispute(w) PROVE Base'
  <2> DEFINE t == [st |-> "flying", m |-> req[w].m, o |-> req[w].o]
  <2>1. /\ At(w, "submit") /\ Goto(w, "confirm")
        /\ tx' = [tx EXCEPT ![w] = t]
        /\ UNCHANGED <<rows, chain, verdict, events, now, faults>>
    BY <1>12 DEF ResolveMilestoneDispute
  <2>2. req[w].m \in Milestones /\ req[w].o \in Outcomes \cup {"NONE"}
    BY <2>1, HandlerFacts DEF LocalOK, Request
  <2>3. tx' \in [Workers -> Transaction] /\ TxOK' /\ ChainOK'
    BY <2>1, <2>2 DEF Base, TypeOK, Transaction, TxOK, ChainOK
  <2>4. OtherTypes' /\ RowsPersist /\ RowOK'
    BY <2>1, <2>3, RowsKept DEF OtherTypes, rows, Base, TypeOK
  <2>5. req[w].d # NoDispute => req[w].a \in Arbiters \cup {NoOne}
    BY <2>1, HandlerFacts DEF LocalOK, PayingLabels
  <2>6. [req[w] EXCEPT !.pc = "confirm"] \in Request /\ LocalOK(w)'
    BY <1>0, <2>1, <2>4, <2>5, GotoOK DEF Labels, DisputeLabels
  <2> QED BY <1>0, <2>1, <2>3, <2>4, <2>6, HandlerMoves, BaseFrom DEF Goto
<1>13. ASSUME NEW w \in Workers, SubmitFails(w) PROVE Base'
  <2>1. At(w, "submit") /\ Catch(w) /\ UNCHANGED <<rows, onChain, now>> /\ faults' \in Nat
    BY <1>0, <1>13 DEF SubmitFails, Fault
  <2> QED BY <2>1, QuietDone, QuietGoto DEF Catch, Labels, PayingLabels
<1>14. ASSUME NEW w \in Workers, ConfirmTimeout(w) PROVE Base'
  <2>1. At(w, "confirm") /\ Catch(w) /\ UNCHANGED <<rows, onChain, now>> /\ faults' \in Nat
    BY <1>0, <1>14 DEF ConfirmTimeout, Fault
  <2> QED BY <2>1, QuietDone, QuietGoto DEF Catch, Labels, PayingLabels
<1>15. ASSUME NEW w \in Workers, ConfirmOk(w) \/ ConfirmFailed(w) PROVE Base'
  <2>1. /\ At(w, "confirm") /\ (Goto(w, "mark") \/ Catch(w))
        /\ tx' = [tx EXCEPT ![w] = NoTx]
        /\ UNCHANGED <<rows, chain, verdict, events, now, faults>>
    BY <1>15 DEF ConfirmOk, ConfirmFailed
  <2>2. NoTx \in Transaction /\ NoTx.st # "flying"
    BY DEF NoTx, Transaction
  <2>3. tx' \in [Workers -> Transaction] /\ TxOK' /\ ChainOK'
    BY <2>1, <2>2 DEF Base, TypeOK, TxOK, ChainOK
  <2>4. OtherTypes' /\ RowsPersist /\ RowOK'
    BY <2>1, <2>3, RowsKept DEF OtherTypes, rows, Base, TypeOK
  <2>5. req[w].d # NoDispute => req[w].a \in Arbiters \cup {NoOne}
    BY <2>1, HandlerFacts DEF LocalOK, PayingLabels
  <2>6. CASE Done(w)
    BY <1>0, <2>1, <2>3, <2>4, <2>6, DoneOK, HandlerMoves, BaseFrom
  <2>7. ASSUME NEW label \in {"mark", "rollback"}, Goto(w, label),
               label = "rollback" => req[w].d # NoDispute
        PROVE  Base'
    <3>1. [req[w] EXCEPT !.pc = label] \in Request /\ LocalOK(w)'
      BY <1>0, <2>1, <2>4, <2>5, <2>7, GotoOK DEF Labels, DisputeLabels, PayingLabels
    <3> QED BY <1>0, <2>1, <2>3, <2>4, <2>7, <3>1, HandlerMoves, BaseFrom DEF Goto
  <2> QED BY <2>1, <2>6, <2>7 DEF Catch
<1>16. ASSUME NEW w \in Workers, SettleRollback(w) \/ SettleRelease(w) PROVE Base'
  <2> DEFINE d == req[w].d
  <2>1. /\ ~At(w, "idle") /\ req[w].pc \in {"rollback", "release"}
        /\ UNCHANGED <<appeal, payout, msStatus, refund, onChain, now, faults>>
    BY <1>16 DEF SettleRollback, SettleRelease
  <2>2. d # NoDispute
    BY <2>1, HandlerFacts DEF LocalOK, DisputeLabels
  <2>3. CASE SettleRollback(w)
    <3> DEFINE row == [dispute[d] EXCEPT !.status = "RESOLVED"]
    <3>1. row \in DisputeRow /\ row.status # "NONE" /\ row.milestone = dispute[d].milestone
      BY <2>2, HandlerFacts DEF DisputeRow
    <3>2. RowsPersist /\ RowOK'
      BY <2>2, <2>3, <3>1, OwnRowWritten DEF SettleRollback
    <3> QED BY <1>0, <2>1, <2>3, <3>2, DoneOK, WriteStep DEF SettleRollback, Base, TypeOK
  <2>4. CASE SettleRelease(w)
    <3> DEFINE row == [dispute[d] EXCEPT !.fundsLocked = FALSE, !.released = TRUE,
                                      !.owed = @ \/ req[w].a # NoOne,
                                      !.decider = NoOne, !.assigned = NoOne]
    <3>1. row \in DisputeRow /\ row.status # "NONE" /\ row.milestone = dispute[d].milestone
      <4>1. dispute[d] \in DisputeRow /\ dispute[d].status # "NONE"
        BY <2>2, HandlerFacts DEF Exists
      <4>2. PICK owed \in BOOLEAN : row = [dispute[d] EXCEPT !.fundsLocked = FALSE, !.released = TRUE,
                                      !.owed = owed, !.decider = NoOne, !.assigned = NoOne]
        OBVIOUS
      <4> HIDE DEF row
      <4>3. row \in DisputeRow
        BY <4>1, <4>2 DEF DisputeRow
      <4>4. row.status = dispute[d].status /\ row.milestone = dispute[d].milestone
        BY <4>1, <4>2 DEF DisputeRow
      <4> QED BY <4>1, <4>3, <4>4
    <3>2. RowsPersist /\ RowOK'
      BY <2>2, <2>4, <3>1, OwnRowWritten DEF SettleRelease
    <3>3. Goto(w, "payout") /\ (d # NoDispute => req[w].a \in Arbiters \cup {NoOne})
      BY <2>4, HandlerFacts DEF SettleRelease, LocalOK, PayingLabels
    <3>4. [req[w] EXCEPT !.pc = "payout"] \in Request /\ LocalOK(w)'
      BY <1>0, <2>1, <2>2, <3>2, <3>3, GotoOK DEF Labels
    <3> QED BY <2>1, <3>2, <3>3, <3>4, WriteStep DEF Goto, Base, TypeOK
  <2> QED BY <1>16, <2>3, <2>4
<1>17. ASSUME NEW w \in Workers, MarkMilestone(w) PROVE Base'
  <2>1. /\ At(w, "mark")
        /\ msStatus' = [msStatus EXCEPT ![req[w].m] = Resolved(req[w].o)]
        /\ Goto(w, IF req[w].d = NoDispute THEN "markSettled" ELSE "release")
        /\ UNCHANGED <<dispute, appeal, payout, refund, onChain, now, faults>>
    BY <1>17 DEF MarkMilestone
  <2>2. RowsPersist /\ RowOK' /\ TxOK' /\ ChainOK' /\ now' >= now
    BY <2>1, RowsKept, ChainKept
  <2>3. OtherTypes'
    BY <2>1 DEF OtherTypes, Resolved, onChain, Base, TypeOK
  <2>4. req[w].d # NoDispute => req[w].a \in Arbiters \cup {NoOne}
    BY <2>1, HandlerFacts DEF LocalOK, PayingLabels
  <2>5. PICK label \in {"markSettled", "release"} :
          Goto(w, label) /\ (label = "release" => req[w].d # NoDispute)
    BY <2>1
  <2>6. [req[w] EXCEPT !.pc = label] \in Request /\ LocalOK(w)'
    BY <1>0, <2>1, <2>2, <2>4, <2>5, GotoOK DEF Labels, DisputeLabels
  <2> QED BY <2>2, <2>3, <2>5, <2>6, HandlerMoves, BaseFrom DEF Goto
<1>18. ASSUME NEW w \in Workers, RecordArbiterPayout(w) PROVE Base'
  <2>1. /\ At(w, "payout") /\ Done(w)
        /\ UNCHANGED <<dispute, appeal, msStatus, refund, onChain, now, faults>>
    BY <1>18 DEF RecordArbiterPayout
  <2>2. req[w].a \in Arbiters \cup {NoOne}
    BY <2>1, HandlerFacts DEF LocalOK, DisputeLabels, PayingLabels
  <2>3. payout' \in [DisputeIds -> Arbiters \cup {NoOne}]
    BY <1>18, <2>2 DEF RecordArbiterPayout, Base, TypeOK
  <2>4. OtherTypes'
    BY <2>1, <2>3 DEF OtherTypes, onChain, Base, TypeOK
  <2> QED BY <1>0, <2>1, <2>4, RowsKept, ChainKept, DoneOK, HandlerMoves, BaseFrom
<1>19. ASSUME NEW w \in Workers, MarkSettledOnChain(w) PROVE Base'
  <2>1. /\ At(w, "markSettled") /\ (Done(w) \/ Goto(w, "ack"))
        /\ UNCHANGED <<appeal, payout, msStatus, refund, onChain, now, faults>>
    BY <1>19 DEF MarkSettledOnChain
  <2>2. ASSUME NEW d \in DisputeIds
        PROVE  /\ dispute'[d] \in DisputeRow
               /\ Exists(d) <=> dispute'[d].status # "NONE"
               /\ dispute'[d].milestone = dispute[d].milestone
    <3>1. dispute[d] \in DisputeRow
      BY DEF Base, TypeOK
    <3> QED BY <1>19, <3>1 DEF MarkSettledOnChain, DisputeRow, Exists
  <2>3. RowsPersist /\ RowOK'
    <3>1. dispute' = [d \in DisputeIds |-> dispute'[d]]
      BY <1>19 DEF MarkSettledOnChain
    <3> QED BY <2>2, <3>1 DEF RowsPersist, RowOK, Exists, Base
  <2>4. CASE Done(w)
    BY <1>0, <2>1, <2>3, <2>4, DoneOK, WriteStep DEF Base, TypeOK
  <2>5. CASE Goto(w, "ack")
    <3>1. [req[w] EXCEPT !.pc = "ack"] \in Request /\ LocalOK(w)'
      BY <1>0, <2>1, <2>3, <2>5, GotoOK DEF Labels, DisputeLabels, PayingLabels
    <3> QED BY <2>1, <2>3, <2>5, <3>1, WriteStep DEF Goto, Base, TypeOK
  <2> QED BY <2>1, <2>4, <2>5
<1>20. ASSUME NEW w \in Workers, AckEvent(w) PROVE Base'
  <2>1. /\ Done(w) /\ events' \subseteq events /\ faults' \in Nat
        /\ UNCHANGED <<rows, chain, verdict, tx, now>>
    BY <1>0, <1>20 DEF AckEvent, Fault
  <2>2. OtherTypes' /\ TxOK' /\ ChainOK' /\ RowsPersist /\ RowOK'
    BY <2>1, RowsKept DEF OtherTypes, rows, TxOK, ChainOK, Base, TypeOK
  <2> QED BY <1>0, <2>1, <2>2, DoneOK, HandlerMoves, BaseFrom
<1>21. ASSUME NEW w \in Workers, NEW e \in events, HandleEvent(w, e) PROVE Base'
  <2> DEFINE opening == [Idle EXCEPT !.pc = "open", !.m = e.m, !.kind = e.kind,
                                     !.round = e.round]
             closing == [Idle EXCEPT !.pc = "markSettled", !.m = e.m, !.o = e.o,
                                     !.kind = e.kind, !.round = e.round]
  <2>1. /\ Become(w, opening) \/ Become(w, closing)
        /\ UNCHANGED <<dispute, appeal, payout, refund, onChain, now>>
        /\ faults' \in Nat
    BY <1>0, <1>21
    DEF HandleEvent, HandleDisputeRaised, HandleDisputeResolved, Begin, Fault
  <2>2. msStatus' \in [Milestones ->
                         {"PROOF_SUBMITTED", "DISPUTED", "RESOLVED", "PENDING"}]
    BY <1>21 DEF HandleEvent, HandleDisputeRaised, HandleDisputeResolved, Resolved,
                 Base, TypeOK
  <2>3. OtherTypes' /\ TxOK' /\ ChainOK' /\ now' >= now /\ RowsPersist /\ RowOK'
    BY <2>1, <2>2, RowsKept, ChainKept DEF OtherTypes, onChain, Base, TypeOK
  <2>4. /\ e.m \in Milestones /\ e.o \in Outcomes \cup {"NONE"} /\ e.round \in 0..MaxRounds
        /\ e.kind \in {"dispute_raised", "dispute_resolved"}
    BY BoundsAssumption DEF Base, TypeOK, Event
  <2>5. PICK r \in {opening, closing} : Become(w, r)
    BY <2>1
  <2>6. /\ r \in Request /\ r.pc \in {"open", "markSettled"}
        /\ r.m = e.m /\ r.d = NoDispute /\ r.t = 0
    BY <1>00, <2>4 DEF Request, Labels
  <2>7. LocalOK(w)'
    <3>1. req'[w] = r /\ now' \in Nat
      BY <1>0, <2>1, <2>5 DEF Become, Base, TypeOK
    <3> QED BY <2>4, <2>6, <3>1 DEF LocalOK, DisputeLabels, PayingLabels
  <2> QED BY <2>3, <2>5, <2>6, <2>7, HandlerMoves, BaseFrom
<1>22. ASSUME NEW w \in Workers, NEW d \in DisputeIds, FinalizeRead(w, d) PROVE Base'
  <2> DEFINE r == [Idle EXCEPT !.d = d, !.m = dispute[d].milestone, !.t = now,
                     !.pc = IF dispute[d].isFinal THEN "claim" ELSE "finalize"]
  <2>1. Exists(d) /\ Become(w, r) /\ UNCHANGED <<rows, onChain, now, faults>>
    BY <1>22 DEF FinalizeRead, Lapsed, Begin, Exists
  <2>2. /\ r \in Request /\ r.pc \in {"claim", "finalize"}
        /\ r.d = d /\ r.m = dispute[d].milestone /\ r.t = now
        /\ dispute[d].milestone \in Milestones
    <3>1. dispute[d].milestone \in Milestones /\ now \in Nat
      BY <2>1 DEF Base, RowOK, TypeOK
    <3>2. PICK pc \in {"claim", "finalize"} :
            r = [Idle EXCEPT !.d = d, !.m = dispute[d].milestone, !.t = now, !.pc = pc]
      OBVIOUS
    <3> HIDE DEF r
    <3>3. Idle \in Request
      BY <1>0, <1>00
    <3> QED BY <3>1, <3>2, <3>3 DEF Request, Labels
  <2> HIDE DEF r
  <2>3. LocalOK(w)'
    BY <1>0, <2>1, <2>2 DEF LocalOK, DisputeLabels, PayingLabels, Exists, DisputeIds,
                       NoDispute, Become, rows, Base, TypeOK
  <2> QED BY <1>0, <2>1, <2>2, <2>3, ControlStep
<1>23. ASSUME NEW w \in Workers, NEW d \in DisputeIds, NEW actor \in Actors,
              NEW o \in Outcomes, DecideRead(w, d, actor, o) PROVE Base'
  <2> DEFINE r == [Idle EXCEPT !.pc = "decide", !.d = d, !.o = o, !.a = actor,
                               !.m = dispute[d].milestone]
  <2>1. Exists(d) /\ Become(w, r) /\ UNCHANGED <<rows, onChain, now, faults>>
    BY <1>23 DEF DecideRead, Begin
  <2>2. /\ r \in Request /\ r.pc = "decide"
        /\ r.d = d /\ r.m = dispute[d].milestone /\ r.t = 0
        /\ dispute[d].milestone \in Milestones
    BY <1>0, <1>00, <2>1 DEF Request, Labels, Base, RowOK
  <2> HIDE DEF r
  <2>3. LocalOK(w)'
    BY <1>0, <2>1, <2>2 DEF LocalOK, DisputeLabels, PayingLabels, Exists, DisputeIds,
                       NoDispute, Become, rows, Base, TypeOK
  <2> QED BY <1>0, <2>1, <2>2, <2>3, ControlStep
<1>24. ASSUME NEW w \in Workers, NEW d \in DisputeIds, NEW actor \in Actors,
              NEW o \in Outcomes, DecideAppealRead(w, d, actor, o) PROVE Base'
  <2> DEFINE r == [Idle EXCEPT !.pc = "decideAppeal", !.d = d, !.o = o,
                               !.m = dispute[d].milestone]
  <2>1. Exists(d) /\ Become(w, r) /\ UNCHANGED <<rows, onChain, now, faults>>
    BY <1>24 DEF DecideAppealRead, Begin
  <2>2. /\ r \in Request /\ r.pc = "decideAppeal"
        /\ r.d = d /\ r.m = dispute[d].milestone /\ r.t = 0
        /\ dispute[d].milestone \in Milestones
    BY <1>0, <1>00, <2>1 DEF Request, Labels, Base, RowOK
  <2> HIDE DEF r
  <2>3. LocalOK(w)'
    BY <1>0, <2>1, <2>2 DEF LocalOK, DisputeLabels, PayingLabels, Exists, DisputeIds,
                       NoDispute, Become, rows, Base, TypeOK
  <2> QED BY <1>0, <2>1, <2>2, <2>3, ControlStep
<1>25. ASSUME NEW w \in Workers, NEW m \in Milestones, NEW actor \in Actors,
              NEW o \in Outcomes, ResolveDisputeFlow(w, m, actor, o) PROVE Base'
  <2> DEFINE r == [Idle EXCEPT !.pc = "record", !.m = m, !.o = o, !.a = actor]
  <2>1. Become(w, r) /\ UNCHANGED <<rows, onChain, now, faults>>
    BY <1>25 DEF ResolveDisputeFlow, Begin
  <2>2. r \in Request /\ r.pc = "record" /\ r.d = NoDispute /\ r.m = m /\ r.t = 0
    BY <1>00 DEF Request, Labels
  <2> HIDE DEF r
  <2>3. LocalOK(w)'
    BY <1>0, <2>1, <2>2 DEF LocalOK, DisputeLabels, PayingLabels, Become, Base, TypeOK
  <2> QED BY <1>0, <2>1, <2>2, <2>3, ControlStep
<1>26. ASSUME NEW w \in Workers, NEW d \in DisputeIds, OpenAppealRead(w, d) PROVE Base'
  <2> DEFINE m == dispute[d].milestone
  <2>1. Exists(d) /\ UNCHANGED <<rows, onChain, now, faults>>
    BY <1>26 DEF OpenAppealRead, Exists
  <2>2. m \in Milestones
    BY <2>1 DEF Base, RowOK
  <2>3. PICK arbiter \in SelectArbiter(m, {dispute[d].arbiter}) :
          Become(w, [Idle EXCEPT !.pc = "appeal", !.d = d, !.m = m, !.a = arbiter, !.t = now])
    BY <1>26 DEF OpenAppealRead, Begin
  <2> DEFINE r == [Idle EXCEPT !.pc = "appeal", !.d = d, !.m = m, !.a = arbiter, !.t = now]
  <2>4. arbiter \in Arbiters \cup {NoOne}
    BY <2>2, SelectArbiterSpec
  <2>5. /\ r \in Request /\ r.pc = "appeal" /\ r.d = d /\ r.m = m /\ r.t = now
        /\ r.a \in Arbiters \cup {NoOne}
    BY <1>0, <1>00, <2>2, <2>4 DEF Request, Labels, Actors
  <2>6. Become(w, r)
    BY <2>3
  <2> HIDE DEF r
  <2>7. LocalOK(w)'
    BY <1>0, <2>1, <2>2, <2>5, <2>6 DEF LocalOK, DisputeLabels, PayingLabels, Exists,
                       DisputeIds, NoDispute, Become, rows, Base, TypeOK
  <2> QED BY <1>0, <2>1, <2>5, <2>6, <2>7, ControlStep
<1>27. ASSUME NEW w \in Workers, Crash(w) PROVE Base'
  <2>1. /\ Done(w) /\ faults' \in Nat
        /\ tx' = tx \/ tx' = [tx EXCEPT ![w] = NoTx]
        /\ UNCHANGED <<rows, chain, verdict, events, now>>
    BY <1>0, <1>27 DEF Crash, Fault
  <2>2. NoTx \in Transaction /\ NoTx.st # "flying"
    BY DEF NoTx, Transaction
  <2>3. tx' \in [Workers -> Transaction] /\ TxOK' /\ ChainOK'
    BY <2>1, <2>2 DEF Base, TypeOK, TxOK, ChainOK
  <2>4. OtherTypes' /\ RowsPersist /\ RowOK'
    BY <2>1, <2>3, RowsKept DEF OtherTypes, rows, Base, TypeOK
  <2> QED BY <1>0, <2>1, <2>3, <2>4, DoneOK, HandlerMoves, BaseFrom
<1>28. ASSUME NEW m \in Milestones, RaiseOnChain(m) PROVE Base'
  <2> DEFINE round == chain[m].round + 1
             e == [kind |-> "dispute_raised", m |-> m, o |-> "NONE", round |-> round]
  <2>1. /\ chain' = [chain EXCEPT ![m] = [st |-> "DISPUTED", round |-> round]]
        /\ events' = events \cup {e}
        /\ chain[m].round < MaxRounds
        /\ UNCHANGED <<rows, verdict, tx, req, now, faults>>
    BY <1>28 DEF RaiseOnChain
  <2>2. round \in 1..MaxRounds
    BY <2>1, BoundsAssumption DEF Base, TypeOK
  <2>3. e \in Event
    BY <2>2 DEF Event
  <2>4. /\ chain' \in [Milestones -> [st : {"OPEN", "DISPUTED", "PAID"},
                                      round : 0..MaxRounds]]
        /\ ChainOK' /\ TxOK'
    BY <2>1, <2>2 DEF Base, TypeOK, ChainOK, TxOK
  <2>5. OtherTypes' /\ RowsPersist /\ RowOK'
    BY <2>1, <2>3, <2>4, RowsKept DEF OtherTypes, rows, Base, TypeOK
  <2> QED BY <1>0, <2>1, <2>4, <2>5, HandlersKept, BaseFrom
<1>29. ASSUME NEW m \in Milestones, NEW o \in Outcomes \cup {"NONE"},
              ContractResolves(m, o), UNCHANGED <<rows, req, now, faults>>,
              tx' \in [Workers -> Transaction], TxOK'
       PROVE  Base'
  <2> DEFINE e == [kind |-> "dispute_resolved", m |-> m, o |-> o, round |-> chain[m].round]
  <2>1. /\ chain' = [chain EXCEPT ![m].st = IF o = "RELEASE" THEN "PAID" ELSE "OPEN"]
        /\ verdict' = [verdict EXCEPT ![m][chain[m].round] = o]
        /\ events' = events \cup {e}
        /\ chain[m].st = "DISPUTED"
    BY <1>29 DEF ContractResolves
  <2>2. chain[m].round \in 1..MaxRounds
    BY <2>1, BoundsAssumption DEF Base, TypeOK, ChainOK
  <2>3. e \in Event
    BY <2>2 DEF Event
  <2>4. /\ chain' \in [Milestones -> [st : {"OPEN", "DISPUTED", "PAID"},
                                      round : 0..MaxRounds]]
        /\ ChainOK'
    BY <2>1 DEF Base, TypeOK, ChainOK
  <2>5. verdict' \in [Milestones -> [1..MaxRounds -> Outcomes \cup {"NONE"}]]
    BY <2>1 DEF Base, TypeOK
  <2>6. OtherTypes' /\ RowsPersist /\ RowOK'
    BY <1>29, <2>1, <2>3, <2>4, <2>5, RowsKept DEF OtherTypes, rows, Base, TypeOK
  <2> QED BY <1>0, <1>29, <2>4, <2>6, HandlersKept, BaseFrom
<1>30. ASSUME NEW m \in Milestones, NEW o \in Outcomes, ResolveOnChain(m, o) PROVE Base'
  BY <1>29, <1>30 DEF ResolveOnChain, TxOK, Base, TypeOK
<1>31. ASSUME NEW w \in Workers, NEW st \in {"ok", "failed"}
       PROVE  Reported(w, st) \in Transaction /\ Reported(w, st).st # "flying"
  BY DEF Reported, NoTx, Transaction, Base, TypeOK
<1>32. ASSUME NEW w \in Workers, LandTx(w) PROVE Base'
  <2>1. tx[w].m \in Milestones /\ tx[w].o \in Outcomes \cup {"NONE"}
    BY <1>32 DEF LandTx, Base, TypeOK, TxOK, Transaction
  <2>2. tx' \in [Workers -> Transaction] /\ TxOK'
    BY <1>31, <1>32 DEF LandTx, Base, TypeOK, TxOK
  <2> QED BY <1>29, <1>32, <2>1, <2>2 DEF LandTx
<1>33. ASSUME NEW w \in Workers, FailTx(w) PROVE Base'
  <2>1. /\ faults' \in Nat /\ tx' = [tx EXCEPT ![w] = Reported(w, "failed")]
        /\ UNCHANGED <<rows, chain, verdict, events, req, now>>
    BY <1>0, <1>33 DEF FailTx, Fault
  <2>2. tx' \in [Workers -> Transaction] /\ TxOK' /\ ChainOK'
    BY <1>31, <2>1 DEF Base, TypeOK, TxOK, ChainOK
  <2>3. OtherTypes' /\ RowsPersist /\ RowOK'
    BY <2>1, <2>2, RowsKept DEF OtherTypes, rows, Base, TypeOK
  <2> QED BY <1>0, <2>1, <2>2, <2>3, HandlersKept, BaseFrom
<1>34. CASE Tick
  <2>1. now' = now + 1 /\ UNCHANGED <<rows, onChain, req, faults>>
    BY <1>34 DEF Tick
  <2>2. OtherTypes' /\ TxOK' /\ ChainOK' /\ RowsPersist /\ RowOK' /\ now' >= now
    BY <1>0, <2>1, RowsKept DEF OtherTypes, rows, onChain, TxOK, ChainOK, Base, TypeOK
  <2> QED BY <2>1, <2>2, HandlersKept, BaseFrom
<1>35. CASE UNCHANGED vars
  <2>1. OtherTypes' /\ TxOK' /\ ChainOK' /\ RowsPersist /\ RowOK' /\ now' >= now
    BY <1>0, <1>35, RowsKept
    DEF vars, OtherTypes, rows, onChain, TxOK, ChainOK, Base, TypeOK
  <2> QED BY <1>35, <2>1, HandlersKept, BaseFrom DEF vars
<1> HIDE DEF At
<1> QED
  BY <1>1, <1>2, <1>3, <1>4, <1>5, <1>6, <1>7, <1>8, <1>9, <1>10, <1>11, <1>12,
     <1>13, <1>14, <1>15, <1>16, <1>17, <1>18, <1>19, <1>20, <1>21, <1>22, <1>23,
     <1>24, <1>25, <1>26, <1>27, <1>28, <1>30, <1>32, <1>33, <1>34, <1>35
  DEF Next, Call, Continue, Network

\* Spec keeps every variable in its type (TypeOK), whatever the number of
\* handlers, replicas, faults and rounds.
THEOREM TypeCorrect == Spec => []TypeOK
<1>1. Base => TypeOK
  BY DEF Base
<1> QED BY <1>1, BaseInit, BaseStep, PTL DEF Spec

-----------------------------------------------------------------------------
(* The appeal window and the appeal's verdict: the inductive invariant of every
   interleaving. *)

\* A decided appeal whose dispute is still under appeal review leaves it decided and
\* final.
AppealInv(d) ==
    /\ appeal[d] # "NONE" => Exists(d)
    /\ appeal[d] = "DECIDED" /\ dispute[d].stage = "APPEAL_REVIEW" =>
          dispute[d].status \in {"RESOLVED", "CLOSED"} /\ dispute[d].isFinal

\* FinalityJustified, of one dispute.
FinalityInv(d) == dispute[d].isFinal /\ ~dispute[d].released => AppealOver(d)

DisputeInv(d) == AppealInv(d) /\ FinalityInv(d)

\* The step that AppealVerdictFinal allows, of one dispute.
VerdictKept(d) ==
    appeal[d] = "DECIDED" =>
        /\ appeal'[d] = "DECIDED"
        /\ dispute[d].stage = "APPEAL_REVIEW" =>
             /\ dispute'[d].outcome = dispute[d].outcome /\ dispute'[d].isFinal
             /\ dispute[d].arbiter # NoOne =>
                  dispute'[d].stage = "APPEAL_REVIEW" /\ dispute'[d].arbiter = dispute[d].arbiter

\* A step that writes no dispute or appeal row.
Quiet == UNCHANGED <<dispute, appeal>> /\ now' >= now

\* The statements that write one.
Writer(w) ==
    \/ OpenCreate(w) \/ AutoAssignWrite(w) \/ DecideWrite(w)
    \/ OpenAppealWrite(w) \/ DecideAppealWrite(w) \/ FinalizeWrite(w)
    \/ SettleClaim(w) \/ SettleRollback(w) \/ SettleRelease(w)
    \/ MarkSettledOnChain(w)

\* Where Become takes a handler, and whom it leaves alone.
LEMMA BecomeEffect ==
    ASSUME Base, NEW w \in Workers, NEW r, Become(w, r)
    PROVE  /\ req'[w] = r
           /\ \A v \in Workers : v # w => req'[v] = req[v]
BY DEF Become, Base, TypeOK

\* Every step is one of the writers or quiet.
LEMMA StepCases ==
    ASSUME Base, [Next]_vars PROVE Quiet \/ \E w \in Workers : Writer(w)
<1> SUFFICES ASSUME \A w \in Workers : ~Writer(w)
             PROVE  UNCHANGED <<dispute, appeal>> /\ now' \in {now, now + 1}
  BY DEF Base, TypeOK, Quiet
<1>1. ASSUME NEW w \in Workers, NEW e \in events, HandleEvent(w, e)
      PROVE  UNCHANGED <<dispute, appeal, now>>
  BY <1>1 DEF HandleEvent, HandleDisputeRaised, HandleDisputeResolved
<1>2. ASSUME NEW w \in Workers, NEW d \in DisputeIds, FinalizeRead(w, d)
      PROVE  UNCHANGED <<dispute, appeal, now>>
  BY <1>2 DEF FinalizeRead, rows
<1>3. ASSUME NEW w \in Workers, Call(w) PROVE UNCHANGED <<dispute, appeal, now>>
  BY <1>3 DEF Call, DecideRead, DecideAppealRead, ResolveDisputeFlow, OpenAppealRead, rows
<1>4. ASSUME NEW w \in Workers, Continue(w) PROVE UNCHANGED <<dispute, appeal, now>>
  BY <1>4 DEF Continue, Writer, OpenFind, AutoAssignRead, RecordDecision, SettleLoad,
              ResolveMilestoneDispute, SubmitFails, ConfirmOk, ConfirmFailed,
              ConfirmTimeout, MarkMilestone, RecordArbiterPayout, AckEvent, rows
<1>5. ASSUME NEW w \in Workers, Network(w) \/ Crash(w)
      PROVE  UNCHANGED <<dispute, appeal, now>>
  BY <1>5 DEF Network, LandTx, FailTx, Crash, rows
<1>6. ASSUME NEW m, NEW o, RaiseOnChain(m) \/ ResolveOnChain(m, o)
      PROVE  UNCHANGED <<dispute, appeal, now>>
  BY <1>6 DEF RaiseOnChain, ResolveOnChain, rows
<1>7. CASE Tick
  BY <1>7 DEF Tick, rows
<1>8. CASE UNCHANGED vars
  BY <1>8 DEF vars, rows
<1> QED BY <1>1, <1>2, <1>3, <1>4, <1>5, <1>6, <1>7, <1>8 DEF Next

\* The inductive invariant.
IInv == Base /\ \A d \in DisputeIds : DisputeInv(d)

\* The invariant holds initially.
LEMMA IInvInit == Init => IInv
<1> SUFFICES ASSUME Init PROVE IInv
  OBVIOUS
<1>1. \A d \in DisputeIds : DisputeInv(d)
  BY DEF Init, DisputeInv, FinalityInv, NoRow, AppealInv
<1> QED BY <1>1, BaseInit DEF IInv

\* A dispute whose rows a step does not change keeps its part of the invariant.
LEMMA UntouchedKept ==
    ASSUME IInv, Base', NEW d \in DisputeIds,
           dispute'[d] = dispute[d], appeal'[d] = appeal[d], now' >= now
    PROVE  DisputeInv(d)' /\ VerdictKept(d)
<1>1. DisputeInv(d)
  BY DEF IInv
<1>2. now \in Nat /\ now' \in Nat /\ dispute[d].appealDeadline \in Int
  BY DEF IInv, Base, TypeOK, DisputeRow
<1>3. FinalityInv(d)'
  BY <1>1, <1>2 DEF DisputeInv, FinalityInv, AppealOver
<1>4. AppealInv(d)' /\ VerdictKept(d)
  BY <1>1 DEF DisputeInv, AppealInv, VerdictKept, Exists
<1> QED BY <1>3, <1>4 DEF DisputeInv

\* Every step preserves the invariant and keeps every appeal verdict.
LEMMA IInvStep ==
    IInv /\ [Next]_vars => IInv' /\ \A d \in DisputeIds : VerdictKept(d)
<1> SUFFICES ASSUME IInv, [Next]_vars
             PROVE  IInv' /\ \A d \in DisputeIds : VerdictKept(d)
  OBVIOUS
<1>1. Base /\ Base'
  BY BaseStep DEF IInv
<1>2. SUFFICES ASSUME NEW d \in DisputeIds PROVE DisputeInv(d)' /\ VerdictKept(d)
  BY <1>1 DEF IInv
<1>3. now \in Nat /\ dispute[d] \in DisputeRow /\ dispute'[d] \in DisputeRow
  BY <1>1 DEF Base, TypeOK
<1>4. CASE Quiet
  BY <1>1, <1>4, UntouchedKept DEF Quiet
<1>5. DisputeInv(d)
  BY DEF IInv
<1>6. ASSUME dispute'[d] = dispute[d], appeal'[d] = appeal[d], now' = now
      PROVE  DisputeInv(d)' /\ VerdictKept(d)
  BY <1>1, <1>3, <1>6, UntouchedKept
<1>7. ASSUME NEW c \in DisputeIds, c # d, NEW row, Write(c, row)
      PROVE  dispute'[d] = dispute[d]
  BY <1>1, <1>7 DEF Write, Base, TypeOK
<1>8. ASSUME NEW row, Write(d, row) PROVE dispute'[d] = row
  BY <1>1, <1>8 DEF Write, Base, TypeOK
<1>9. ASSUME NEW w \in Workers, req[w].pc \in DisputeLabels PROVE req[w].d \in DisputeIds
  BY <1>1, <1>9, HandlerFacts DEF LocalOK
<1>10. ASSUME NEW w \in Workers, OpenCreate(w) PROVE DisputeInv(d)' /\ VerdictKept(d)
  <2> DEFINE row == [NoRow EXCEPT !.milestone = req[w].m,
                                  !.round = req[w].round, !.status = "OPEN"]
  <2>1. PICK c \in DisputeIds : ~Exists(c) /\ Write(c, row)
    BY <1>10 DEF OpenCreate
  <2>2. UNCHANGED <<appeal, now>>
    BY <1>10 DEF OpenCreate
  <2>3. CASE c # d
    BY <1>6, <1>7, <2>1, <2>2, <2>3
  <2>4. CASE c = d
    <3>1. ~dispute'[d].isFinal /\ appeal[d] = "NONE"
      BY <1>5, <1>8, <2>1, <2>4 DEF NoRow, DisputeInv, AppealInv
    <3> QED BY <2>2, <3>1 DEF DisputeInv, AppealInv, FinalityInv, VerdictKept
  <2> QED BY <2>3, <2>4
<1>11. ASSUME NEW w \in Workers, AutoAssignWrite(w) PROVE DisputeInv(d)' /\ VerdictKept(d)
  <2> DEFINE row == [dispute[req[w].d] EXCEPT !.arbiter = req[w].a,
                                              !.status = "UNDER_REVIEW",
                                              !.stage = "ARBITER_REVIEW"]
  <2>1. At(w, "assignWrite") /\ UNCHANGED <<appeal, now>>
    BY <1>11 DEF AutoAssignWrite
  <2>2. CASE UNCHANGED dispute
    BY <1>6, <2>1, <2>2
  <2>3. ASSUME Write(req[w].d, row), dispute[req[w].d].arbiter = NoOne
        PROVE  DisputeInv(d)' /\ VerdictKept(d)
    <3>1. req[w].d \in DisputeIds
      BY <1>9, <2>1 DEF At, DisputeLabels
    <3>2. CASE req[w].d # d
      BY <1>6, <1>7, <2>1, <2>3, <3>1, <3>2
    <3>3. CASE req[w].d = d
      <4>1. /\ dispute'[d].isFinal = dispute[d].isFinal
            /\ dispute'[d].released = dispute[d].released
            /\ dispute'[d].appealDeadline = dispute[d].appealDeadline
            /\ dispute'[d].outcome = dispute[d].outcome
            /\ dispute'[d].stage = "ARBITER_REVIEW" /\ dispute'[d].status = "UNDER_REVIEW"
        BY <1>3, <1>8, <2>3, <3>3 DEF DisputeRow
      <4> QED BY <1>5, <2>1, <2>3, <3>3, <4>1
              DEF DisputeInv, AppealInv, FinalityInv, AppealOver, VerdictKept, Exists
    <3> QED BY <3>2, <3>3
  <2> QED BY <1>11, <2>2, <2>3 DEF AutoAssignWrite
<1>12. ASSUME NEW w \in Workers, DecideWrite(w) PROVE DisputeInv(d)' /\ VerdictKept(d)
  <2> DEFINE row == [dispute[req[w].d] EXCEPT
                        !.status = "RESOLVED", !.outcome = req[w].o,
                        !.decider = req[w].a, !.assigned = dispute[req[w].d].arbiter,
                        !.appealDeadline = now + AppealWindow,
                        !.fundsLocked = TRUE, !.isFinal = (AppealWindow = 0)]
  <2>1. At(w, "decide") /\ UNCHANGED <<appeal, now>>
    BY <1>12 DEF DecideWrite
  <2>2. CASE UNCHANGED dispute
    BY <1>6, <2>1, <2>2
  <2>3. ASSUME Write(req[w].d, row), AwaitsDecision(dispute[req[w].d])
        PROVE  DisputeInv(d)' /\ VerdictKept(d)
    <3>1. req[w].d \in DisputeIds
      BY <1>9, <2>1 DEF At, DisputeLabels
    <3>2. CASE req[w].d # d
      BY <1>6, <1>7, <2>1, <2>3, <3>1, <3>2
    <3>3. CASE req[w].d = d
      <4>1. ~ (appeal[d] = "DECIDED" /\ dispute[d].stage = "APPEAL_REVIEW")
        BY <1>5, <2>3, <3>3 DEF AwaitsDecision, Active, DisputeInv, AppealInv
      <4>2. /\ dispute'[d].stage = dispute[d].stage
            /\ dispute'[d].status = "RESOLVED"
            /\ dispute'[d].isFinal => AppealWindow = 0
        <5>1. dispute'[d] = row
          BY <1>8, <2>3, <3>3
        <5>2. CASE AppealWindow = 0
          BY <1>3, <3>3, <5>1, <5>2 DEF DisputeRow
        <5>3. CASE AppealWindow # 0
          <6>1. (AppealWindow = 0) = FALSE
            BY <5>3
          <6>2. row.isFinal = FALSE
            BY <1>3, <3>3, <6>1 DEF DisputeRow
          <6> QED BY <1>3, <3>3, <5>1, <6>2 DEF DisputeRow
        <5> QED BY <5>2, <5>3
      <4> QED BY <1>5, <2>1, <4>1, <4>2
              DEF DisputeInv, AppealInv, Exists, FinalityInv, AppealOver, VerdictKept
    <3> QED BY <3>2, <3>3
  <2> QED BY <1>12, <2>2, <2>3 DEF DecideWrite
<1>13. ASSUME NEW w \in Workers, OpenAppealWrite(w) PROVE DisputeInv(d)' /\ VerdictKept(d)
  <2> DEFINE row == AppealedRow(dispute[req[w].d], req[w].a)
  <2>1. At(w, "appeal") /\ UNCHANGED now
    BY <1>13 DEF OpenAppealWrite
  <2>2. CASE UNCHANGED <<dispute, appeal>>
    BY <1>6, <2>1, <2>2
  <2>3. ASSUME Write(req[w].d, row), appeal' = [appeal EXCEPT ![req[w].d] = "OPEN"],
               ~dispute[req[w].d].isFinal, appeal[req[w].d] = "NONE"
        PROVE  DisputeInv(d)' /\ VerdictKept(d)
    <3>1. req[w].d \in DisputeIds
      BY <1>9, <2>1 DEF At, DisputeLabels
    <3>2. CASE req[w].d # d
      <4>1. appeal'[d] = appeal[d]
        BY <1>1, <2>3, <3>2 DEF Base, TypeOK
      <4> QED BY <1>6, <1>7, <2>1, <2>3, <3>1, <3>2, <4>1
    <3>3. CASE req[w].d = d
      <4>1. appeal'[d] = "OPEN"
        BY <1>1, <2>3, <3>3 DEF Base, TypeOK
      <4>2. dispute'[d].status # "NONE" /\ ~dispute'[d].isFinal
        <5>1. dispute'[d] = AppealedRow(dispute[d], req[w].a)
          BY <1>8, <2>3, <3>3
        <5>2. ~dispute[d].isFinal
          BY <2>3, <3>3
        <5>3. dispute'[d].isFinal = dispute[d].isFinal
          BY <1>3, <5>1 DEF AppealedRow, DisputeRow
        <5>4. dispute'[d].status \in {"OPEN", "UNDER_REVIEW"}
          BY <1>3, <5>1 DEF AppealedRow, DisputeRow
        <5> QED BY <5>2, <5>3, <5>4
      <4> QED BY <2>3, <3>3, <4>1, <4>2
              DEF DisputeInv, AppealInv, Exists, FinalityInv, VerdictKept
    <3> QED BY <3>2, <3>3
  <2> QED BY <1>13, <2>2, <2>3 DEF OpenAppealWrite
<1>14. ASSUME NEW w \in Workers, DecideAppealWrite(w) PROVE DisputeInv(d)' /\ VerdictKept(d)
  <2> DEFINE row == [dispute[req[w].d] EXCEPT
                        !.status = "RESOLVED", !.outcome = req[w].o,
                        !.appealDeadline = now, !.isFinal = TRUE, !.decider = NoOne, !.assigned = NoOne]
  <2>1. At(w, "decideAppeal") /\ UNCHANGED now
    BY <1>14 DEF DecideAppealWrite
  <2>2. CASE UNCHANGED <<dispute, appeal>>
    BY <1>6, <2>1, <2>2
  <2>3. ASSUME Write(req[w].d, row), appeal' = [appeal EXCEPT ![req[w].d] = "DECIDED"],
               appeal[req[w].d] = "OPEN"
        PROVE  DisputeInv(d)' /\ VerdictKept(d)
    <3>1. req[w].d \in DisputeIds
      BY <1>9, <2>1 DEF At, DisputeLabels
    <3>2. CASE req[w].d # d
      <4>1. appeal'[d] = appeal[d]
        BY <1>1, <2>3, <3>2 DEF Base, TypeOK
      <4> QED BY <1>6, <1>7, <2>1, <2>3, <3>1, <3>2, <4>1
    <3>3. CASE req[w].d = d
      <4>1. appeal'[d] = "DECIDED" /\ appeal[d] = "OPEN"
        BY <1>1, <2>3, <3>3 DEF Base, TypeOK
      <4>2. dispute'[d].status = "RESOLVED" /\ dispute'[d].isFinal
        BY <1>3, <1>8, <2>3, <3>3 DEF DisputeRow
      <4> QED BY <4>1, <4>2
              DEF DisputeInv, AppealInv, Exists, FinalityInv, AppealOver, VerdictKept
    <3> QED BY <3>2, <3>3
  <2> QED BY <1>14, <2>2, <2>3 DEF DecideAppealWrite
<1>15. ASSUME NEW w \in Workers, FinalizeWrite(w) PROVE DisputeInv(d)' /\ VerdictKept(d)
  <2> DEFINE row == [dispute[req[w].d] EXCEPT !.isFinal = TRUE, !.decider = NoOne, !.assigned = NoOne]
  <2>1. At(w, "finalize") /\ UNCHANGED <<appeal, now>>
    BY <1>15 DEF FinalizeWrite
  <2>2. CASE UNCHANGED dispute
    BY <1>6, <2>1, <2>2
  <2>3. ASSUME Write(req[w].d, row), Lapsed(dispute[req[w].d], req[w].t)
        PROVE  DisputeInv(d)' /\ VerdictKept(d)
    <3>1. req[w].d \in DisputeIds
      BY <1>9, <2>1 DEF At, DisputeLabels
    <3>2. CASE req[w].d # d
      BY <1>6, <1>7, <2>1, <2>3, <3>1, <3>2
    <3>3. CASE req[w].d = d
      <4>1. /\ dispute'[d].arbiter = dispute[d].arbiter
            /\ dispute'[d].stage = dispute[d].stage
            /\ dispute'[d].status = dispute[d].status
            /\ dispute'[d].outcome = dispute[d].outcome
            /\ dispute'[d].appealDeadline = dispute[d].appealDeadline
            /\ dispute'[d].isFinal
        BY <1>3, <1>8, <2>3, <3>3 DEF DisputeRow
      <4>2. req[w].t <= now /\ req[w].t \in Nat /\ dispute[d].appealDeadline \in Int
        BY <1>1, <1>3, HandlerFacts DEF LocalOK, Request, DisputeRow
      <4>3. dispute[d].appealDeadline < now
        BY <1>3, <2>3, <3>3, <4>2 DEF Lapsed
      <4>4. FinalityInv(d)'
        BY <2>1, <4>1, <4>3 DEF FinalityInv, AppealOver
      <4> QED BY <1>5, <2>1, <4>1, <4>4
              DEF DisputeInv, AppealInv, Exists, VerdictKept
    <3> QED BY <3>2, <3>3
  <2> QED BY <1>15, <2>2, <2>3 DEF FinalizeWrite
<1>16. ASSUME NEW w \in Workers, SettleClaim(w) \/ SettleRollback(w) \/ SettleRelease(w)
       PROVE  DisputeInv(d)' /\ VerdictKept(d)
  <2> DEFINE claimed == ClaimedRow(dispute[req[w].d])
             undone == [dispute[req[w].d] EXCEPT !.status = "RESOLVED"]
             paid == [dispute[req[w].d] EXCEPT !.fundsLocked = FALSE, !.released = TRUE,
                                               !.owed = @ \/ req[w].a # NoOne,
                                               !.decider = NoOne, !.assigned = NoOne]
  <2>1. req[w].pc \in {"claim", "rollback", "release"} /\ UNCHANGED <<appeal, now>>
    BY <1>16 DEF SettleClaim, SettleRollback, SettleRelease, At
  <2>2. CASE UNCHANGED dispute
    BY <1>6, <2>1, <2>2
  <2>3. ASSUME NEW row \in {claimed, undone, paid}, Write(req[w].d, row)
        PROVE  DisputeInv(d)' /\ VerdictKept(d)
    <3>1. req[w].d \in DisputeIds
      BY <1>9, <2>1 DEF DisputeLabels
    <3>2. CASE req[w].d # d
      BY <1>6, <1>7, <2>1, <2>3, <3>1, <3>2
    <3>3. CASE req[w].d = d
      <4>1. /\ dispute'[d].arbiter = dispute[d].arbiter
            /\ dispute'[d].stage = dispute[d].stage
            /\ dispute'[d].status \in {dispute[d].status, "CLOSED", "RESOLVED"}
            /\ dispute'[d].outcome = dispute[d].outcome
            /\ dispute'[d].appealDeadline = dispute[d].appealDeadline
            /\ dispute'[d].isFinal = dispute[d].isFinal
            /\ dispute'[d].released = dispute[d].released \/ dispute'[d].released
        <5>1. dispute'[d] = row
          BY <1>8, <2>3, <3>3
        <5>2. CASE row = claimed
          BY <1>3, <3>3, <5>1, <5>2 DEF ClaimedRow, DisputeRow
        <5>3. CASE row = undone
          BY <1>3, <3>3, <5>1, <5>3 DEF DisputeRow
        <5>4. CASE row = paid
          BY <1>3, <3>3, <5>1, <5>4 DEF DisputeRow
        <5> QED BY <2>3, <5>2, <5>3, <5>4
      <4>2. FinalityInv(d)'
        BY <1>5, <2>1, <4>1 DEF DisputeInv, FinalityInv, AppealOver
      <4> QED BY <1>5, <2>1, <4>1, <4>2
              DEF DisputeInv, AppealInv, Exists, VerdictKept
    <3> QED BY <3>2, <3>3
  <2> QED BY <1>16, <2>2, <2>3 DEF SettleClaim, SettleRollback, SettleRelease
<1>17. ASSUME NEW w \in Workers, MarkSettledOnChain(w)
       PROVE  DisputeInv(d)' /\ VerdictKept(d)
  <2>1. UNCHANGED <<appeal, now>>
    BY <1>17 DEF MarkSettledOnChain
  <2>2. CASE dispute'[d] = dispute[d]
    BY <1>6, <2>1, <2>2
  <2>3. CASE dispute'[d] = [dispute[d] EXCEPT !.status = "CLOSED", !.isFinal = TRUE,
                                    !.fundsLocked = FALSE, !.released = TRUE,
                                    !.decider = NoOne, !.assigned = NoOne]
    <3>1. /\ dispute'[d].arbiter = dispute[d].arbiter
          /\ dispute'[d].stage = dispute[d].stage
          /\ dispute'[d].status = "CLOSED" /\ dispute'[d].outcome = dispute[d].outcome
          /\ dispute'[d].isFinal /\ dispute'[d].released
      BY <1>3, <2>3 DEF DisputeRow
    <3> QED BY <1>5, <2>1, <3>1
            DEF DisputeInv, AppealInv, Exists, FinalityInv, VerdictKept
  <2> QED BY <1>17, <2>2, <2>3 DEF MarkSettledOnChain
<1> QED
  BY <1>1, <1>4, <1>10, <1>11, <1>12, <1>13, <1>14, <1>15, <1>16, <1>17, StepCases
  DEF Writer

\* The appeal window is honoured (decide, openAppeal, decideAppeal, the
\* appeal-window job, settle, markSettledOnChain): an unpaid dispute is final
\* only when its appeal was decided or its window lapsed.
THEOREM WindowHonoured == Spec => []FinalityJustified
<1>1. IInv => FinalityJustified
  BY DEF IInv, DisputeInv, FinalityInv, FinalityJustified
<1> QED BY <1>1, IInvInit, IInvStep, PTL DEF Spec

\* The appeal decision is final: after decideAppeal no step of any handler, however
\* stale what it has read, reopens the appeal, and none changes the outcome while the
\* row is under appeal review, which it stays when an arbiter hears the appeal.
THEOREM AppealIsFinal == Spec => AppealVerdictFinal
<1> DEFINE Stays == \A d \in DisputeIds : appeal[d] = "DECIDED" =>
                 /\ appeal'[d] = "DECIDED"
                 /\ dispute[d].stage = "APPEAL_REVIEW" =>
                      /\ dispute'[d].outcome = dispute[d].outcome /\ dispute'[d].isFinal
                      /\ dispute[d].arbiter # NoOne =>
                           dispute'[d].stage = "APPEAL_REVIEW" /\ dispute'[d].arbiter = dispute[d].arbiter
<1>1. IInv /\ [Next]_vars => [Stays]_vars
  BY IInvStep DEF VerdictKept
<1>2. IInv /\ [Next]_vars => IInv'
  BY IInvStep
<1> HIDE DEF Stays
<1>3. Spec => [][Stays]_vars
  BY <1>1, <1>2, IInvInit, PTL DEF Spec
<1> QED BY <1>3 DEF AppealVerdictFinal, Stays

-----------------------------------------------------------------------------
(* One handler at a time: what the workflow promises when requests, timers and *)
(* events do not overlap, nobody but this backend resolves disputes, and a     *)
(* failure is an error of the RPC server or a transaction that expired.        *)

OneAtATime ==
    /\ \A v, w \in Workers : v = w
    /\ Faults \subseteq {"rpc", "expire"} /\ ~ExternalResolve

\* The part a handler plays for the dispute it works on: the contract has the
\* verdict it waits for or books.
Landed(w, d) ==
    /\ req[w].d = d
    /\ req[w].pc \in {"mark", "release"} \/ (req[w].pc = "confirm" /\ tx[w].st = "ok")

\* A handler about to give the milestone's dispute a row, and one whose event
\* says that it was raised.
Opening(w, m) == req[w].m = m /\ req[w].pc \in {"open", "create"}
HandlesRaised(w, m) == req[w].m = m /\ req[w].kind = "dispute_raised"

Raised(m, r) == [kind |-> "dispute_raised", m |-> m, o |-> "NONE", round |-> r]
RowsOf(m) == {d \in DisputeIds : Exists(d) /\ dispute[d].milestone = m}

\* A row by itself: how far its status, its decision and its appeal have come.
StageSound(d) ==
    LET row == dispute[d]
    IN  /\ row.status \in {"RESOLVED", "CLOSED"} => row.outcome # "NONE"
        /\ row.isFinal => row.status \in {"RESOLVED", "CLOSED"} /\ AppealOver(d)
        /\ row.status = "CLOSED" => row.isFinal
        /\ appeal[d] # "NONE" <=> row.stage = "APPEAL_REVIEW"
        /\ appeal[d] = "OPEN" => row.status \in Active
        /\ row.released \/ row.fundsLocked

\* Who decides a dispute that has an arbiter: that arbiter or an administrator, and
\* neither of them hears the appeal.
ArbiterSound(d) ==
    LET row == dispute[d]
    IN  /\ row.status \in {"RESOLVED", "CLOSED"} /\ appeal[d] = "NONE" /\ row.assigned # NoOne
             => row.arbiter = row.assigned /\ row.decider \in {Admin, row.assigned}
        /\ appeal[d] = "OPEN" /\ row.assigned # NoOne
             => row.arbiter = NoOne \/ row.arbiter \notin {row.assigned, row.decider}

\* The row beside the contract: it is released when the contract has its verdict,
\* or the settlement that brought it about is still booking it.
SettledSound(d) ==
    LET row == dispute[d]
    IN  /\ row.round \in 1..chain[row.milestone].round
        /\ VerdictOf(d) # "NONE" <=> row.released \/ \E w \in Workers : Landed(w, d)
        /\ VerdictOf(d) # "NONE" => row.status = "CLOSED" /\ row.outcome = VerdictOf(d)
        /\ row.status = "CLOSED" => row.released \/ \E w \in Workers : Settling(w, d)

DisputeSound(d) ==
    /\ Exists(d) => StageSound(d) /\ ArbiterSound(d) /\ SettledSound(d)
    /\ dispute[d].released => Exists(d)

OneRowEach ==
    \A c, d \in DisputeIds :
        /\ Exists(c) /\ Exists(d)
        /\ dispute[c].milestone = dispute[d].milestone /\ dispute[c].round = dispute[d].round
        => c = d

\* The contract's rounds: which have a verdict, which have a row.
RoundsSound(m) ==
    /\ \A r \in 1..MaxRounds :
          verdict[m][r] = "NONE" <=> \/ r > chain[m].round
                                     \/ r = chain[m].round /\ chain[m].st = "DISPUTED"
    /\ \A r \in 1..chain[m].round :
          Raised(m, r) \in events \/ \E d \in RowsOf(m) : dispute[d].round = r

\* The milestone's rows: one that says DISPUTED has a dispute to decide, one with
\* a Refund row was refunded or is about to be.
DisputedSound(m) ==
    msStatus[m] = "DISPUTED" => \/ \E w \in Workers : Opening(w, m)
                                \/ \E d \in RowsOf(m) : ~dispute[d].released
RefundRuled(d) == dispute[d].isFinal /\ dispute[d].outcome = "REFUND"
RefundSound(m) ==
    refund[m] => \/ \E r \in 1..chain[m].round : verdict[m][r] = "REFUND"
                 \/ \E d \in RowsOf(m) : dispute[d].round = chain[m].round /\ RefundRuled(d)

MilestoneSound(m) == RoundsSound(m) /\ DisputedSound(m) /\ RefundSound(m)

\* An unprocessed event: its dispute has no row yet, or has the verdict it reports
\* and is the latest with a row.
EventSound(e) ==
    IF e.kind = "dispute_raised"
    THEN /\ e = Raised(e.m, chain[e.m].round) /\ chain[e.m].st = "DISPUTED"
         /\ \/ \A d \in RowsOf(e.m) : dispute[d].round < e.round
            \/ \E w \in Workers : HandlesRaised(w, e.m)
    ELSE /\ e.o # "NONE" /\ e.o = verdict[e.m][e.round]
         /\ \A d \in RowsOf(e.m) : dispute[d].round <= e.round

\* What a handler knows at each of its labels.
EventLabels == {"open", "create", "assign", "assignWrite", "markSettled", "ack"}
OpeningSound(w) ==
    LET q == req[w]
    IN  /\ q.pc \in {"open", "create"} =>
             /\ q.round = chain[q.m].round /\ chain[q.m].st = "DISPUTED"
             /\ \A f \in events : f.m = q.m => f = EventOf(w)
             /\ \A d \in RowsOf(q.m) : dispute[d].round < q.round
        /\ q.pc \in {"assign", "assignWrite"} =>
             /\ dispute[q.d].round = q.round /\ dispute[q.d].status = "OPEN"
             /\ dispute[q.d].arbiter = NoOne /\ appeal[q.d] = "NONE"
        /\ q.pc = "ack" /\ q.kind = "dispute_raised" => \E d \in RowsOf(q.m) : dispute[d].round = q.round
        /\ q.pc = "markSettled" => \A d \in RowsOf(q.m) : dispute[d].released
DecidingSound(w) ==
    LET q == req[w]
    IN  /\ q.pc = "record" => NotClosed(q.m) # {}
        /\ q.pc \in {"record", "decide", "decideAppeal"} => q.o # "NONE"
        /\ q.pc \in {"record", "decide"} => q.a # NoOne
        /\ q.pc = "decide" => MayDecide(dispute[q.d], q.a)
        /\ q.pc = "appeal" => q.a \in (Eligible[q.m] \ {dispute[q.d].arbiter}) \cup {NoOne}
SettlingSound(w) ==
    LET q == req[w]
        row == dispute[q.d]
    IN  /\ q.pc \in {"load", "submit", "confirm", "rollback", "mark", "release"} =>
             q.d # NoDispute /\ row.status = "CLOSED" /\ ~row.released
        /\ q.pc \in {"submit", "confirm", "mark"} => q.o = row.outcome
        /\ q.pc \in PayingLabels => q.d # NoDispute /\ q.a = row.arbiter
        /\ q.pc = "release" => msStatus[q.m] # "DISPUTED"
        /\ q.pc = "payout" => row.released
        /\ q.pc = "confirm" => tx[w].st # "none" /\ tx[w].m = q.m /\ tx[w].o = q.o
        /\ tx[w].st # "none" => q.pc = "confirm"
KindSound(w) ==
    LET q == req[w]
    IN  /\ q.kind # "none" <=> q.pc \in EventLabels
        /\ q.kind # "none" => EventOf(w) \in events
        /\ q.pc \in {"open", "create", "assign", "assignWrite"} => q.kind = "dispute_raised"
        /\ q.pc = "markSettled" => q.kind = "dispute_resolved"
HandlerSound(w) == KindSound(w) /\ OpeningSound(w) /\ DecidingSound(w) /\ SettlingSound(w)

Orderly ==
    /\ IInv /\ OneRowEach
    /\ \A d \in DisputeIds : DisputeSound(d)
    /\ \A m \in Milestones : MilestoneSound(m)
    /\ \A e \in events : EventSound(e)
    /\ \A w \in Workers : HandlerSound(w)

\* No dispute, no handler: the start.
LEMMA OrderlyInit == Init => Orderly
<1> SUFFICES ASSUME Init PROVE Orderly
  OBVIOUS
<1>1. \A d \in DisputeIds : ~Exists(d)
  BY DEF Init, Exists, NoRow
<1>2. \A w \in Workers : HandlerSound(w)
  BY DEF Init, HandlerSound, KindSound, OpeningSound, DecidingSound, SettlingSound, Idle, NoTx, PayingLabels, EventLabels
<1>3. \A m \in Milestones : MilestoneSound(m)
  BY BoundsAssumption DEF Init, MilestoneSound, RoundsSound, DisputedSound, RefundSound
<1> QED BY <1>1, <1>2, <1>3, IInvInit DEF Init, Orderly, DisputeSound, OneRowEach, NoRow

\* What a step of handler w does not change of a dispute, or of its own part in it.
Untouched(w, d) ==
    /\ dispute'[d] = dispute[d] /\ appeal'[d] = appeal[d]
    /\ Landed(w, d)' <=> Landed(w, d)
    /\ Settling(w, d) => Settling(w, d)'

\* What no statement on a row changes.
RowKept(d) ==
    /\ Exists(d)' <=> Exists(d)
    /\ dispute'[d].milestone = dispute[d].milestone /\ dispute'[d].round = dispute[d].round
    /\ RefundRuled(d) => RefundRuled(d)'

\* A row the step leaves untouched stays sound.
LEMMA DisputeKept ==
    ASSUME Orderly, Base', NEW w, \A v \in Workers : v = w,
           NEW d \in DisputeIds, UNCHANGED <<chain, verdict>>, now' >= now, Untouched(w, d)
    PROVE  DisputeSound(d)'
<1>1. DisputeSound(d) /\ now \in Nat /\ now' \in Nat /\ dispute[d].appealDeadline \in Int
  BY DEF Orderly, IInv, Base, TypeOK, DisputeRow
<1> SUFFICES ASSUME Exists(d)' PROVE StageSound(d)' /\ ArbiterSound(d)' /\ SettledSound(d)'
  BY <1>1 DEF DisputeSound, Untouched, Exists
<1>2. Exists(d) /\ StageSound(d) /\ ArbiterSound(d) /\ SettledSound(d)
  BY <1>1 DEF Untouched, Exists, DisputeSound
<1>3. AppealOver(d) => AppealOver(d)'
  BY <1>1 DEF Untouched, AppealOver
<1>4. StageSound(d)'
  BY <1>2, <1>3 DEF Untouched, StageSound
<1>5. ArbiterSound(d)'
  BY <1>2 DEF Untouched, ArbiterSound
<1>6. VerdictOf(d)' = VerdictOf(d)
  BY DEF Untouched, VerdictOf
<1>7. SettledSound(d)'
  BY <1>2, <1>6 DEF Untouched, SettledSound
<1> QED BY <1>4, <1>5, <1>7

\* A step of one handler that leaves the contract alone.
LEMMA StepSound ==
    ASSUME Orderly, IInv', NEW w, \A v \in Workers : v = w,
           UNCHANGED <<chain, verdict>>, now' >= now, events' \subseteq events,
           \A d \in DisputeIds : RowKept(d) /\ (Untouched(w, d) \/ DisputeSound(d)'),
           \A m \in Milestones :
              /\ DisputedSound(m)'
              /\ refund'[m] => refund[m] \/ \E d \in RowsOf(m) : dispute[d].round = chain[m].round /\ RefundRuled(d)
              /\ Raised(m, chain[m].round) \in events' /\ HandlesRaised(w, m) => HandlesRaised(w, m)'
              /\ \A r \in 1..chain[m].round : Raised(m, r) \in events =>
                    Raised(m, r) \in events' \/ \E d \in RowsOf(m) : dispute[d].round = r,
           \A v \in Workers : HandlerSound(v)'
    PROVE  Orderly'
<1>1. \A d \in DisputeIds : DisputeSound(d)'
  BY DisputeKept DEF IInv
<1>2. OneRowEach'
  BY DEF OneRowEach, Orderly, RowKept
<1>3. \A m : RowsOf(m)' = RowsOf(m)
  BY DEF RowsOf, RowKept
<1>4. \A m : \A d \in RowsOf(m) : d \in DisputeIds /\ dispute'[d].round = dispute[d].round /\ (RefundRuled(d) => RefundRuled(d)')
  BY DEF RowsOf, RowKept
<1>5. ASSUME NEW m \in Milestones PROVE MilestoneSound(m)'
  <2>1. MilestoneSound(m) /\ chain' = chain /\ verdict' = verdict
    BY DEF Orderly
  <2>2. RoundsSound(m)'
    <3>1. ASSUME NEW r \in 1..chain[m].round
          PROVE  Raised(m, r) \in events' \/ \E d \in RowsOf(m)' : dispute'[d].round = r
      BY <1>3, <1>4, <2>1 DEF MilestoneSound, RoundsSound
    <3>2. \A r : Raised(m, r)' = Raised(m, r)
      BY DEF Raised
    <3> QED BY <2>1, <3>1 DEF MilestoneSound, RoundsSound, Raised
  <2>3. RefundSound(m)'
    BY <1>3, <1>4, <2>1 DEF MilestoneSound, RefundSound
  <2> QED BY <2>2, <2>3 DEF MilestoneSound
<1>6. ASSUME NEW e \in events' PROVE EventSound(e)'
  <2>1. EventSound(e) /\ e \in events /\ chain' = chain /\ verdict' = verdict
    BY DEF Orderly
  <2>2. e.m \in Milestones
    BY <2>1 DEF Orderly, IInv, Base, TypeOK, Event
  <2>3. CASE e.kind = "dispute_raised"
    <3>1. e = Raised(e.m, chain[e.m].round) /\ chain[e.m].st = "DISPUTED"
      BY <2>1, <2>3 DEF EventSound
    <3>2. CASE \A d \in RowsOf(e.m) : dispute[d].round < e.round
      BY <1>3, <1>4, <2>1, <2>3, <3>1, <3>2 DEF EventSound, Raised
    <3>3. CASE \E v \in Workers : HandlesRaised(v, e.m)
      <4>1. HandlesRaised(w, e.m)' /\ w \in Workers
        BY <2>2, <3>1, <3>3
      <4> QED BY <2>1, <2>3, <3>1, <4>1 DEF EventSound, Raised
    <3> QED BY <2>1, <2>3, <3>2, <3>3 DEF EventSound
  <2>4. CASE e.kind # "dispute_raised"
    BY <1>3, <1>4, <2>1, <2>4 DEF EventSound
  <2> QED BY <2>3, <2>4
<1> QED BY <1>1, <1>2, <1>5, <1>6 DEF Orderly

\* The labels of requests and jobs at which a handler has no part in any dispute.
Plain == {"idle", "record", "decide", "appeal", "decideAppeal", "finalize", "claim"}

\* A step from such a label that writes nothing.
LEMMA PlainSound ==
    ASSUME Orderly, IInv', NEW w \in Workers, \A v \in Workers : v = w,
           UNCHANGED <<rows, chain, verdict, events>>, now' >= now, req[w].pc \in Plain,
           req'[w].pc \notin {"mark", "release", "confirm"}, HandlerSound(w)'
    PROVE  Orderly'
<1>1. UNCHANGED <<dispute, appeal, payout, msStatus, refund>>
  BY DEF rows
<1>2. \A d \in DisputeIds : RowKept(d) /\ Untouched(w, d)
  BY <1>1 DEF RowKept, RefundRuled, Exists, Untouched, Landed, Settling, Plain
<1>3. \A m : ~HandlesRaised(w, m) /\ ~Opening(w, m)
  BY DEF Orderly, HandlerSound, KindSound, HandlesRaised, Opening, EventLabels, Plain
<1>4. \A m : RowsOf(m)' = RowsOf(m)
  BY <1>1 DEF RowsOf, Exists
<1>5. ASSUME NEW m \in Milestones PROVE DisputedSound(m)'
  <2>1. DisputedSound(m)
    BY DEF Orderly, MilestoneSound
  <2> QED BY <1>1, <1>3, <1>4, <2>1 DEF DisputedSound
<1> QED BY <1>1, <1>2, <1>3, <1>5, StepSound

\* A handler that ends.
LEMMA DoneSound ==
    ASSUME Orderly, NEW w \in Workers, Done(w), tx'[w].st = "none"
    PROVE  HandlerSound(w)' /\ req'[w] = Idle
<1>1. req'[w] = Idle
  BY BecomeEffect DEF Done, Orderly, IInv
<1> QED BY <1>1 DEF HandlerSound, KindSound, OpeningSound, DecidingSound, SettlingSound, Idle, PayingLabels, EventLabels

\* And one that only ends.
LEMMA PlainDone ==
    ASSUME Orderly, IInv', NEW w \in Workers, \A v \in Workers : v = w,
           UNCHANGED <<rows, onChain>>, now' >= now, req[w].pc \in Plain, Done(w)
    PROVE  Orderly'
<1>1. tx'[w].st = "none"
  BY DEF Orderly, HandlerSound, SettlingSound, Plain, onChain
<1>2. HandlerSound(w)' /\ req'[w].pc = "idle"
  BY <1>1, DoneSound DEF Idle
<1> QED BY <1>2, PlainSound DEF onChain

\* The statements that read: requests, the appeal-window job, recordDecision.
LEMMA ReadSound ==
    ASSUME Orderly, IInv', NEW w \in Workers, \A v \in Workers : v = w,
           NEW r, Begin(w, r), UNCHANGED <<rows, onChain, now>>,
           r.kind = "none", r.pc \in Plain \ {"idle"},
           r.pc = "record" => NotClosed(r.m) # {},
           r.pc \in {"record", "decide", "decideAppeal"} => r.o # "NONE",
           r.pc \in {"record", "decide"} => r.a # NoOne,
           r.pc = "decide" => MayDecide(dispute[r.d], r.a),
           r.pc = "appeal" => r.a \in (Eligible[r.m] \ {dispute[r.d].arbiter}) \cup {NoOne}
    PROVE  Orderly'
<1>1. req'[w] = r /\ req[w].pc = "idle"
  BY BecomeEffect DEF Begin, Orderly, IInv
<1>2. UNCHANGED <<dispute, tx>> /\ tx[w].st = "none"
  BY <1>1 DEF rows, onChain, Orderly, HandlerSound, SettlingSound
<1>3. NotClosed(r.m)' = NotClosed(r.m)
  BY <1>2 DEF NotClosed, Exists
<1>4. HandlerSound(w)'
  BY <1>1, <1>2, <1>3 DEF HandlerSound, KindSound, OpeningSound, DecidingSound, SettlingSound, Plain, PayingLabels, EventLabels
<1>5. now' >= now
  BY DEF Orderly, IInv, Base, TypeOK
<1> QED BY <1>1, <1>4, <1>5, PlainSound DEF onChain, Plain

\* Every request and the appeal-window job, as they start.
LEMMA RequestsSound ==
    ASSUME Orderly, IInv', NEW w \in Workers, \A v \in Workers : v = w,
           Call(w) \/ \E d \in DisputeIds : FinalizeRead(w, d)
    PROVE  Orderly'
<1>0. \A a \in Actors : a # NoOne
  BY ArbitersAssumption DEF Actors, Admin, NoOne
<1>1. ASSUME NEW d \in DisputeIds, NEW a \in Actors, NEW o \in Outcomes, DecideRead(w, d, a, o)
      PROVE  Orderly'
  <2> DEFINE r == [Idle EXCEPT !.pc = "decide", !.d = d, !.o = o, !.a = a, !.m = dispute[d].milestone]
  <2>1. r.pc = "decide" /\ r.d = d /\ r.o = o /\ r.a = a /\ r.kind = "none" /\ o # "NONE" /\ a # NoOne
    BY <1>0 DEF Idle, Outcomes
  <2>2. Begin(w, r) /\ MayDecide(dispute[d], a) /\ UNCHANGED <<rows, onChain, now>>
    BY <1>1 DEF DecideRead
  <2> HIDE DEF r
  <2> QED BY <2>1, <2>2, ReadSound DEF Plain
<1>2. ASSUME NEW d \in DisputeIds, NEW a \in Actors, NEW o \in Outcomes, DecideAppealRead(w, d, a, o)
      PROVE  Orderly'
  <2> DEFINE r == [Idle EXCEPT !.pc = "decideAppeal", !.d = d, !.o = o, !.m = dispute[d].milestone]
  <2>1. r.pc = "decideAppeal" /\ r.o = o /\ r.kind = "none" /\ o # "NONE"
    BY DEF Idle, Outcomes
  <2>2. Begin(w, r) /\ UNCHANGED <<rows, onChain, now>>
    BY <1>2 DEF DecideAppealRead
  <2> HIDE DEF r
  <2> QED BY <2>1, <2>2, ReadSound DEF Plain
<1>3. ASSUME NEW m \in Milestones, NEW a \in Actors, NEW o \in Outcomes, ResolveDisputeFlow(w, m, a, o)
      PROVE  Orderly'
  <2> DEFINE r == [Idle EXCEPT !.pc = "record", !.m = m, !.o = o, !.a = a]
  <2>1. r.pc = "record" /\ r.m = m /\ r.o = o /\ r.a = a /\ r.kind = "none" /\ o # "NONE" /\ a # NoOne
    BY <1>0 DEF Idle, Outcomes
  <2>2. Begin(w, r) /\ UNCHANGED <<rows, onChain, now>> /\ msStatus[m] = "DISPUTED" /\ req[w].pc = "idle"
    BY <1>3 DEF ResolveDisputeFlow, Begin
  <2>3. DisputedSound(m)
    BY DEF Orderly, MilestoneSound
  <2>4. PICK d \in RowsOf(m) : ~dispute[d].released
    BY <2>2, <2>3 DEF DisputedSound, Opening
  <2>5. d \in DisputeIds /\ Exists(d) /\ dispute[d].milestone = m
    BY DEF RowsOf
  <2>6. SettledSound(d)
    BY <2>5 DEF Orderly, DisputeSound
  <2>7. dispute[d].status # "CLOSED"
    BY <2>2, <2>4, <2>6 DEF SettledSound, Settling
  <2>8. NotClosed(m) # {}
    BY <2>5, <2>7 DEF NotClosed
  <2> HIDE DEF r
  <2> QED BY <2>1, <2>2, <2>8, ReadSound DEF Plain
<1>4. ASSUME NEW d \in DisputeIds, OpenAppealRead(w, d) PROVE Orderly'
  <2> DEFINE m == dispute[d].milestone
  <2>1. UNCHANGED <<rows, onChain, now>> /\ Exists(d)
    BY <1>4 DEF OpenAppealRead, Exists
  <2>2. m \in Milestones
    BY <2>1 DEF Orderly, IInv, Base, RowOK
  <2>3. PICK arbiter \in SelectArbiter(m, {dispute[d].arbiter}) :
          Begin(w, [Idle EXCEPT !.pc = "appeal", !.d = d, !.m = m, !.a = arbiter, !.t = now])
    BY <1>4 DEF OpenAppealRead
  <2> DEFINE r == [Idle EXCEPT !.pc = "appeal", !.d = d, !.m = m, !.a = arbiter, !.t = now]
  <2>4. r.pc = "appeal" /\ r.m = m /\ r.d = d /\ r.a = arbiter /\ r.kind = "none"
    BY DEF Idle
  <2>5. r.a \in (Eligible[r.m] \ {dispute[r.d].arbiter}) \cup {NoOne}
    BY <2>2, <2>4, SelectArbiterSpec
  <2>6. Begin(w, r)
    BY <2>3
  <2> HIDE DEF r
  <2> QED BY <2>1, <2>4, <2>5, <2>6, ReadSound DEF Plain
<1>5. ASSUME NEW d \in DisputeIds, FinalizeRead(w, d) PROVE Orderly'
  <2>1. PICK pc \in {"claim", "finalize"} :
          Begin(w, [Idle EXCEPT !.d = d, !.m = dispute[d].milestone, !.t = now, !.pc = pc])
    BY <1>5 DEF FinalizeRead
  <2> DEFINE r == [Idle EXCEPT !.d = d, !.m = dispute[d].milestone, !.t = now, !.pc = pc]
  <2>2. r.pc = pc /\ r.kind = "none"
    BY DEF Idle
  <2>3. Begin(w, r) /\ UNCHANGED <<rows, onChain, now>>
    BY <1>5, <2>1 DEF FinalizeRead
  <2> HIDE DEF r
  <2> QED BY <2>2, <2>3, ReadSound DEF Plain
<1> QED BY <1>1, <1>2, <1>3, <1>4, <1>5 DEF Call

\* A step of a handler that writes at most its own dispute, and its milestone's row.
LEMMA OwnSound ==
    ASSUME Orderly, IInv', NEW w \in Workers, \A v \in Workers : v = w,
           NEW d \in DisputeIds, req[w].d = d, req'[w].d \in {d, NoDispute},
           UNCHANGED <<chain, verdict, events>>, now' >= now,
           \A c \in DisputeIds \ {d} : dispute'[c] = dispute[c] /\ appeal'[c] = appeal[c],
           req[w].pc \notin {"open", "create"},
           (req'[w].kind = req[w].kind /\ req'[w].m = req[w].m) \/ req[w].kind = "none",
           RowKept(d), DisputeSound(d)', HandlerSound(w)',
           \A m \in Milestones : msStatus'[m] = "DISPUTED" =>
              /\ msStatus[m] = "DISPUTED"
              /\ (dispute[d].milestone = m /\ dispute'[d].released) => dispute[d].released,
           \A m \in Milestones : refund'[m] => refund[m] \/
              (dispute[d].milestone = m /\ Exists(d) /\ dispute[d].round = chain[m].round /\ RefundRuled(d))
    PROVE  Orderly'
<1>1. \A c \in DisputeIds \ {d} : c # NoDispute
  BY DEF DisputeIds, NoDispute
<1>2. \A c \in DisputeIds \ {d} : Untouched(w, c) /\ RowKept(c)
  BY <1>1 DEF Untouched, RowKept, Landed, Settling, Exists, RefundRuled
<1>3. \A m : RowsOf(m)' = RowsOf(m)
  BY <1>2 DEF RowsOf, RowKept
<1>4. ASSUME NEW m \in Milestones PROVE DisputedSound(m)'
  <2> SUFFICES ASSUME msStatus'[m] = "DISPUTED" PROVE \E c \in RowsOf(m) : ~dispute'[c].released
    BY <1>3 DEF DisputedSound
  <2>1. DisputedSound(m)
    BY DEF Orderly, MilestoneSound
  <2>2. PICK c \in RowsOf(m) : ~dispute[c].released
    BY <2>1 DEF DisputedSound, Opening
  <2>3. c \in DisputeIds /\ dispute[c].milestone = m
    BY DEF RowsOf
  <2>4. ~dispute'[c].released
    BY <2>2, <2>3
  <2> QED BY <2>4
<1>5. \A m \in Milestones : refund'[m] =>
         refund[m] \/ \E c \in RowsOf(m) : dispute[c].round = chain[m].round /\ RefundRuled(c)
  BY DEF RowsOf
<1>6. \A m : HandlesRaised(w, m) => HandlesRaised(w, m)'
  BY DEF HandlesRaised
<1> QED BY <1>2, <1>4, <1>5, <1>6, StepSound

\* What a handler knows of the dispute it works on.
LEMMA OwnFacts ==
    ASSUME Orderly, NEW w \in Workers, req[w].d # NoDispute
    PROVE  /\ req[w].d \in DisputeIds /\ Exists(req[w].d) /\ dispute[req[w].d] \in DisputeRow
           /\ req[w].m \in Milestones /\ dispute[req[w].d].milestone = req[w].m
           /\ StageSound(req[w].d) /\ ArbiterSound(req[w].d) /\ SettledSound(req[w].d)
           /\ appeal[req[w].d] \in {"NONE", "OPEN", "DECIDED"}
<1>1. Base /\ req[w].d \in DisputeIds /\ Exists(req[w].d)
  BY HandlerFacts DEF Orderly, IInv
<1>2. DisputeSound(req[w].d) /\ appeal[req[w].d] \in {"NONE", "OPEN", "DECIDED"}
  BY <1>1 DEF Orderly, Base, TypeOK
<1> QED BY <1>1, <1>2, HandlerFacts DEF DisputeSound

\* The locals of a handler that goes on, and of one that ends.
LEMMA GotoFacts ==
    ASSUME Orderly, NEW w \in Workers, NEW label \in Labels, Goto(w, label)
    PROVE  /\ req'[w].pc = label /\ req'[w].d = req[w].d /\ req'[w].m = req[w].m
           /\ req'[w].o = req[w].o /\ req'[w].a = req[w].a
           /\ req'[w].kind = req[w].kind /\ req'[w].round = req[w].round
<1>1. Base
  BY DEF Orderly, IInv
<1>2. req'[w] = [req[w] EXCEPT !.pc = label] /\ req[w] \in Request
  BY <1>1, BecomeEffect DEF Goto, Base, TypeOK
<1> QED BY <1>2 DEF Request

\* One statement on the handler's own row.
LEMMA OwnWritten ==
    ASSUME Orderly, NEW w \in Workers, req[w].d # NoDispute, NEW row, Write(req[w].d, row)
    PROVE  dispute'[req[w].d] = row /\ \A c \in DisputeIds \ {req[w].d} : dispute'[c] = dispute[c]
BY OwnFacts DEF Write, Orderly, IInv, Base, TypeOK

-----------------------------------------------------------------------------
(* A dispute is raised and gets its row *)

\* Events of a milestone are handled in order, so the one about its latest round is
\* alone when its turn comes.
LEMMA RaisedAlone ==
    ASSUME Orderly, OneAtATime, NEW w \in Workers, req[w].pc = "idle", NEW e \in events,
           e.kind = "dispute_raised", InOrder(e)
    PROVE  /\ e = Raised(e.m, chain[e.m].round) /\ chain[e.m].st = "DISPUTED" /\ e.m \in Milestones
           /\ \A f \in events : f.m = e.m => f = e
           /\ \A d \in RowsOf(e.m) : dispute[d].round < e.round
<1>1. EventSound(e) /\ e \in Event
  BY DEF Orderly, IInv, Base, TypeOK
<1>2. e = Raised(e.m, chain[e.m].round) /\ chain[e.m].st = "DISPUTED" /\ e.m \in Milestones
  BY <1>1 DEF EventSound, Event
<1>3. \A v \in Workers : req[v].kind = "none"
  BY DEF OneAtATime, Orderly, HandlerSound, KindSound, EventLabels
<1>4. \A d \in RowsOf(e.m) : dispute[d].round < e.round
  BY <1>1, <1>3 DEF EventSound, HandlesRaised
<1>5. ASSUME NEW f \in events, f.m = e.m PROVE f = e
  <2>1. EventSound(f) /\ f \in Event
    BY DEF Orderly, IInv, Base, TypeOK
  <2>2. CASE f.kind = "dispute_raised"
    BY <1>2, <1>5, <2>1, <2>2 DEF EventSound
  <2>3. CASE f.kind # "dispute_raised"
    <3>1. f.round \in 1..MaxRounds /\ verdict[f.m][f.round] # "NONE" /\ e.round = chain[e.m].round
      BY <1>2, <2>1, <2>3 DEF EventSound, Event, Raised
    <3>2. RoundsSound(e.m) /\ e.round \in Nat /\ MaxRounds \in Nat
      BY <1>1, <1>2, BoundsAssumption DEF Orderly, MilestoneSound, Event
    <3>3. f.round < e.round
      BY <1>2, <1>5, <3>1, <3>2 DEF RoundsSound
    <3>4. e.round < f.round \/ e.round = f.round
      BY <1>5 DEF InOrder
    <3> QED BY <3>1, <3>2, <3>3, <3>4
  <2> QED BY <2>2, <2>3
<1> QED BY <1>2, <1>4, <1>5

\* When the verdict of a round is handled, every row of the milestone is settled.
LEMMA ResolvedLast ==
    ASSUME Orderly, OneAtATime, NEW w \in Workers, req[w].pc = "idle", NEW e \in events,
           e.kind # "dispute_raised"
    PROVE  e.m \in Milestones /\ \A d \in RowsOf(e.m) : dispute[d].released
<1>1. EventSound(e) /\ e \in Event
  BY DEF Orderly, IInv, Base, TypeOK
<1>2. e.m \in Milestones /\ RoundsSound(e.m) /\ e.round \in 1..MaxRounds /\ verdict[e.m][e.round] # "NONE"
  BY <1>1 DEF EventSound, Event, Orderly, MilestoneSound
<1>3. ASSUME NEW d \in RowsOf(e.m) PROVE dispute[d].released
  <2>1. d \in DisputeIds /\ Exists(d) /\ dispute[d].milestone = e.m /\ dispute[d].round <= e.round
    BY <1>1 DEF RowsOf, EventSound
  <2>2. SettledSound(d) /\ chain[e.m].round \in 0..MaxRounds /\ MaxRounds \in Nat
    BY <1>2, <2>1, BoundsAssumption DEF Orderly, DisputeSound, IInv, Base, TypeOK
  <2>3. dispute[d].round \in 1..MaxRounds /\ dispute[d].round <= chain[e.m].round
    BY <2>1, <2>2 DEF SettledSound
  <2>4. e.round <= chain[e.m].round /\ (e.round = chain[e.m].round => chain[e.m].st # "DISPUTED")
    BY <1>2, <2>2 DEF RoundsSound
  <2>5. verdict[e.m][dispute[d].round] # "NONE"
    BY <1>2, <2>1, <2>2, <2>3, <2>4 DEF RoundsSound
  <2>6. \A v \in Workers : ~Landed(v, d)
    BY DEF OneAtATime, Landed
  <2> QED BY <2>1, <2>2, <2>5, <2>6 DEF SettledSound, VerdictOf
<1> QED BY <1>2, <1>3

\* A handler takes up an event, and its milestone's row is written.
LEMMA HandleEventSound ==
    ASSUME Orderly, IInv', OneAtATime, NEW w \in Workers, NEW e \in events, HandleEvent(w, e)
    PROVE  Orderly'
<1>0. \A v \in Workers : v = w
  BY DEF OneAtATime
<1>1. InOrder(e) /\ e \in Event
  BY DEF HandleEvent, Fault, OneAtATime, Orderly, IInv, Base, TypeOK
<1>2. req[w].pc = "idle" /\ UNCHANGED <<dispute, appeal, payout, refund, onChain, now>>
  BY DEF HandleEvent, HandleDisputeRaised, HandleDisputeResolved, Begin
<1>3. tx[w].st = "none" /\ req[w].kind = "none" /\ tx' = tx /\ UNCHANGED <<chain, verdict, events>>
  BY <1>2 DEF Orderly, HandlerSound, SettlingSound, KindSound, EventLabels, onChain
<1>4. now' >= now /\ msStatus \in [Milestones -> {"PROOF_SUBMITTED", "DISPUTED", "RESOLVED", "PENDING"}]
  BY <1>2 DEF Orderly, IInv, Base, TypeOK
<1>5. \A m : RowsOf(m)' = RowsOf(m)
  BY <1>2 DEF RowsOf, Exists
<1>6. ASSUME req'[w].pc \in {"open", "markSettled"}, HandlerSound(w)',
             \A m \in Milestones : msStatus'[m] = "DISPUTED" => msStatus[m] = "DISPUTED" \/ Opening(w, m)'
      PROVE  Orderly'
  <2>1. \A d \in DisputeIds : Untouched(w, d) /\ RowKept(d)
    BY <1>2, <1>6 DEF Untouched, RowKept, Landed, Settling, Exists, RefundRuled
  <2>2. ASSUME NEW m \in Milestones PROVE DisputedSound(m)'
    <3>1. DisputedSound(m) /\ ~Opening(w, m)
      BY <1>2 DEF Orderly, MilestoneSound, Opening
    <3> QED BY <1>0, <1>2, <1>5, <1>6, <3>1 DEF DisputedSound
  <2>3. \A m : ~HandlesRaised(w, m)
    BY <1>3 DEF HandlesRaised
  <2>4. \A v \in Workers : HandlerSound(v)'
    BY <1>0, <1>6
  <2> QED BY <1>0, <1>2, <1>3, <1>4, <2>1, <2>2, <2>3, <2>4, StepSound
<1>7. CASE HandleDisputeRaised(w, e)
  <2> DEFINE r == [Idle EXCEPT !.pc = "open", !.m = e.m, !.kind = e.kind, !.round = e.round]
  <2>1. e.kind = "dispute_raised" /\ req'[w] = r /\ msStatus' = [msStatus EXCEPT ![e.m] = "DISPUTED"]
    BY <1>7, BecomeEffect DEF HandleDisputeRaised, Begin, Orderly, IInv
  <2>2. r.pc = "open" /\ r.m = e.m /\ r.kind = "dispute_raised" /\ r.round = e.round /\ r.o = "NONE"
    BY <2>1 DEF Idle
  <2> HIDE DEF r
  <2>3. /\ e = Raised(e.m, chain[e.m].round) /\ chain[e.m].st = "DISPUTED"
        /\ \A f \in events : f.m = e.m => f = e
        /\ \A d \in RowsOf(e.m) : dispute[d].round < e.round
    BY <1>1, <1>2, <2>1, RaisedAlone
  <2>4. EventOf(w)' = e /\ e.round = chain[e.m].round
    BY <2>1, <2>2, <2>3 DEF EventOf, Raised
  <2>5. KindSound(w)'
    BY <1>3, <2>1, <2>2, <2>4 DEF KindSound, EventLabels
  <2>6. OpeningSound(w)'
    BY <1>2, <1>3, <1>5, <2>1, <2>2, <2>3, <2>4 DEF OpeningSound
  <2>7. DecidingSound(w)' /\ SettlingSound(w)'
    BY <1>3, <2>1, <2>2 DEF DecidingSound, SettlingSound, PayingLabels
  <2>8. \A m \in Milestones : msStatus'[m] = "DISPUTED" => msStatus[m] = "DISPUTED" \/ Opening(w, m)'
    BY <1>4, <2>1, <2>2 DEF Opening
  <2> QED BY <1>6, <2>1, <2>2, <2>5, <2>6, <2>7, <2>8 DEF HandlerSound
<1>8. CASE HandleDisputeResolved(w, e)
  <2> DEFINE r == [Idle EXCEPT !.pc = "markSettled", !.m = e.m, !.o = e.o, !.kind = e.kind, !.round = e.round]
  <2>1. e.kind = "dispute_resolved" /\ req'[w] = r /\ msStatus' = [msStatus EXCEPT ![e.m] = Resolved(e.o)]
    BY <1>8, BecomeEffect DEF HandleDisputeResolved, Begin, Orderly, IInv
  <2>2. r.pc = "markSettled" /\ r.m = e.m /\ r.kind = "dispute_resolved" /\ r.round = e.round /\ r.o = e.o
    BY <2>1 DEF Idle
  <2> HIDE DEF r
  <2>3. \A d \in RowsOf(e.m) : dispute[d].released
    BY <1>2, <2>1, ResolvedLast
  <2>4. EventOf(w)' = e
    BY <1>1, <2>1, <2>2 DEF EventOf, Event
  <2>5. KindSound(w)'
    BY <1>3, <2>1, <2>2, <2>4 DEF KindSound, EventLabels
  <2>6. OpeningSound(w)'
    BY <1>2, <1>5, <2>1, <2>2, <2>3 DEF OpeningSound
  <2>7. DecidingSound(w)' /\ SettlingSound(w)'
    BY <1>3, <2>1, <2>2 DEF DecidingSound, SettlingSound, PayingLabels
  <2>8. \A m \in Milestones : msStatus'[m] = "DISPUTED" => msStatus[m] = "DISPUTED"
    BY <1>4, <2>1 DEF Resolved
  <2> QED BY <1>6, <2>1, <2>2, <2>5, <2>6, <2>7, <2>8 DEF HandlerSound
<1> QED BY <1>7, <1>8 DEF HandleEvent

\* disputes.processor's raised handler, looking for the round's row.
LEMMA OpenFindSound ==
    ASSUME Orderly, IInv', NEW w \in Workers, \A v \in Workers : v = w, OpenFind(w)
    PROVE  Orderly'
<1> DEFINE m == req[w].m
<1>1. req[w].pc = "open" /\ UNCHANGED <<dispute, appeal, payout, msStatus, refund, chain, verdict, tx, events, now>>
  BY DEF OpenFind, At, rows, onChain
<1>2. HandlerSound(w) /\ Base /\ m \in Milestones
  BY <1>1, HandlerFacts DEF Orderly, IInv, LocalOK
<1>3. \A d \in RowsOf(m) : dispute[d].status = "CLOSED"
  <2> SUFFICES ASSUME NEW d \in RowsOf(m) PROVE dispute[d].status = "CLOSED"
    OBVIOUS
  <2>1. d \in DisputeIds /\ Exists(d) /\ dispute[d].milestone = m
    BY DEF RowsOf
  <2>2. SettledSound(d) /\ RoundsSound(m) /\ chain[m].round \in 0..MaxRounds /\ MaxRounds \in Nat
    BY <1>2, <2>1, BoundsAssumption DEF Orderly, DisputeSound, MilestoneSound, Base, TypeOK
  <2>3. dispute[d].round < chain[m].round
    BY <1>1, <1>2 DEF HandlerSound, OpeningSound
  <2>4. dispute[d].round \in 1..MaxRounds
    BY <2>1, <2>2 DEF SettledSound
  <2>5. verdict[m][dispute[d].round] # "NONE"
    BY <2>2, <2>3, <2>4 DEF RoundsSound
  <2> QED BY <2>1, <2>2, <2>5 DEF SettledSound, VerdictOf
<1>4. NotClosed(m) = {}
  BY <1>3 DEF NotClosed, RowsOf
<1>5. Goto(w, "create")
  BY <1>4 DEF OpenFind
<1>6. /\ req'[w].pc = "create" /\ req'[w].m = m /\ req'[w].o = req[w].o
      /\ req'[w].kind = req[w].kind /\ req'[w].round = req[w].round
  BY <1>5, GotoFacts DEF Labels
<1>7. \A c : RowsOf(c)' = RowsOf(c)
  BY <1>1 DEF RowsOf, Exists
<1>8. EventOf(w)' = EventOf(w)
  BY <1>6 DEF EventOf
<1>9. KindSound(w)'
  BY <1>1, <1>2, <1>6, <1>8 DEF HandlerSound, KindSound, EventLabels
<1>10. OpeningSound(w)'
  BY <1>1, <1>2, <1>6, <1>7, <1>8 DEF HandlerSound, OpeningSound
<1>11. DecidingSound(w)' /\ SettlingSound(w)'
  BY <1>1, <1>2, <1>6 DEF HandlerSound, DecidingSound, SettlingSound, PayingLabels
<1>12. \A d \in DisputeIds : Untouched(w, d) /\ RowKept(d)
  BY <1>1, <1>6 DEF Untouched, RowKept, Landed, Settling, Exists, RefundRuled
<1>13. \A c : (HandlesRaised(w, c) => HandlesRaised(w, c)') /\ (Opening(w, c) => Opening(w, c)')
  BY <1>6 DEF HandlesRaised, Opening
<1>14. ASSUME NEW c \in Milestones PROVE DisputedSound(c)'
  <2>1. DisputedSound(c)
    BY DEF Orderly, MilestoneSound
  <2> QED BY <1>1, <1>7, <1>13, <2>1 DEF DisputedSound
<1>15. now' >= now
  BY <1>1, <1>2 DEF Base, TypeOK
<1> QED BY <1>1, <1>9, <1>10, <1>11, <1>12, <1>13, <1>14, <1>15, StepSound DEF HandlerSound

\* openForMilestone: the new row is the only one of its round.
LEMMA OpenCreateSound ==
    ASSUME Orderly, IInv', NEW w \in Workers, \A v \in Workers : v = w, OpenCreate(w)
    PROVE  Orderly'
<1> DEFINE m == req[w].m
           row == [NoRow EXCEPT !.milestone = m, !.round = req[w].round, !.status = "OPEN"]
<1>1. /\ req[w].pc = "create"
      /\ UNCHANGED <<appeal, payout, msStatus, refund, chain, verdict, tx, events, now>>
  BY DEF OpenCreate, At, onChain
<1>2. PICK d \in DisputeIds : /\ ~Exists(d) /\ Write(d, row)
                              /\ Become(w, [req[w] EXCEPT !.pc = "assign", !.d = d])
  BY DEF OpenCreate
<1>3. HandlerSound(w) /\ Base /\ m \in Milestones /\ req[w] \in Request
  BY <1>1, HandlerFacts DEF Orderly, IInv, LocalOK
<1>4. /\ req'[w].pc = "assign" /\ req'[w].d = d /\ req'[w].m = m /\ req'[w].o = req[w].o
      /\ req'[w].kind = req[w].kind /\ req'[w].round = req[w].round
  <2>1. req'[w] = [req[w] EXCEPT !.pc = "assign", !.d = d]
    BY <1>2, <1>3, BecomeEffect
  <2> QED BY <1>3, <2>1 DEF Request
<1>5. dispute'[d] = row /\ \A c \in DisputeIds \ {d} : dispute'[c] = dispute[c]
  BY <1>2, <1>3 DEF Write, Base, TypeOK
<1>6. /\ row.milestone = m /\ row.round = req[w].round /\ row.status = "OPEN" /\ row.stage = "ASSIGNMENT"
      /\ row.arbiter = NoOne /\ ~row.isFinal /\ ~row.released /\ row.fundsLocked
  BY DEF NoRow
<1> HIDE DEF row
<1>7. /\ req[w].round = chain[m].round /\ chain[m].st = "DISPUTED"
      /\ \A f \in events : f.m = m => f = EventOf(w)
      /\ \A c \in RowsOf(m) : dispute[c].round < req[w].round
      /\ req[w].kind = "dispute_raised" /\ tx[w].st = "none"
  BY <1>1, <1>3 DEF HandlerSound, OpeningSound, KindSound, SettlingSound
<1>8. chain[m].round \in 1..MaxRounds /\ MaxRounds \in Nat
  BY <1>3, <1>7, BoundsAssumption DEF Base, TypeOK, ChainOK
<1>9. appeal[d] = "NONE"
  BY <1>2, <1>3 DEF Orderly, IInv, DisputeInv, AppealInv, Base, TypeOK
<1>10. \A c : RowsOf(c)' = IF c = m THEN RowsOf(m) \cup {d} ELSE RowsOf(c)
  BY <1>2, <1>5, <1>6 DEF RowsOf, Exists
<1>11. ASSUME NEW c \in DisputeIds PROVE DisputeSound(c)'
  <2>1. CASE c # d
    <3>1. Untouched(w, c)
      BY <1>1, <1>4, <1>5, <2>1 DEF Untouched, Landed, Settling
    <3> QED BY <1>1, <1>3, <3>1, DisputeKept DEF IInv, Base, TypeOK
  <2>2. CASE c = d
    <3>1. StageSound(d)'
      BY <1>1, <1>5, <1>6, <1>9 DEF StageSound
    <3>2. ArbiterSound(d)'
      BY <1>1, <1>4, <1>5, <1>6, <1>9 DEF ArbiterSound
    <3>3. ~Landed(w, d)' /\ VerdictOf(d)' = verdict[m][req[w].round] /\ RoundsSound(m)
      BY <1>1, <1>3, <1>4, <1>5, <1>6 DEF Landed, VerdictOf, Orderly, MilestoneSound
    <3>4. VerdictOf(d)' = "NONE"
      BY <1>7, <1>8, <3>3 DEF RoundsSound
    <3>5. SettledSound(d)'
      BY <1>1, <1>5, <1>6, <1>7, <1>8, <3>3, <3>4 DEF SettledSound
    <3> QED BY <1>5, <1>6, <2>2, <3>1, <3>2, <3>5 DEF DisputeSound, Exists
  <2> QED BY <2>1, <2>2
<1>12. OneRowEach'
  <2> SUFFICES ASSUME NEW b \in DisputeIds, NEW c \in DisputeIds, Exists(b)', Exists(c)',
                      dispute'[b].milestone = dispute'[c].milestone, dispute'[b].round = dispute'[c].round
               PROVE  b = c
    BY DEF OneRowEach
  <2>1. CASE b # d /\ c # d
    BY <1>5, <2>1 DEF Orderly, OneRowEach, Exists
  <2>2. ASSUME NEW x \in DisputeIds \ {d}, Exists(x)', dispute'[x].milestone = m PROVE dispute'[x].round # req[w].round
    <3>1. x \in RowsOf(m)
      BY <1>5, <2>2 DEF RowsOf, Exists
    <3>2. dispute[x].round \in Nat /\ req[w].round \in Nat
      BY <1>3, BoundsAssumption DEF Base, TypeOK, DisputeRow, Request
    <3> QED BY <1>5, <1>7, <3>1, <3>2
  <2> QED BY <1>5, <1>6, <2>1, <2>2
<1>13. \A c : \A x \in RowsOf(c) : x # d /\ x \in DisputeIds /\ dispute'[x] = dispute[x] /\ x \in RowsOf(c)'
  BY <1>2, <1>5, <1>10 DEF RowsOf
<1>14. ASSUME NEW c \in Milestones PROVE MilestoneSound(c)'
  <2>1. RoundsSound(c) /\ DisputedSound(c) /\ RefundSound(c)
    BY DEF Orderly, MilestoneSound
  <2>2. RoundsSound(c)'
    <3>1. ASSUME NEW r \in 1..chain[c].round
          PROVE  Raised(c, r) \in events \/ \E x \in RowsOf(c)' : dispute'[x].round = r
      BY <1>13, <2>1 DEF RoundsSound
    <3> QED BY <1>1, <2>1, <3>1 DEF RoundsSound, Raised
  <2>3. DisputedSound(c)'
    <3>1. CASE c = m
      BY <1>5, <1>6, <1>10, <3>1 DEF DisputedSound
    <3>2. CASE c # m
      BY <1>1, <1>13, <2>1, <3>2 DEF DisputedSound, Opening
    <3> QED BY <3>1, <3>2
  <2>4. RefundSound(c)'
    BY <1>1, <1>13, <2>1 DEF RefundSound, RefundRuled
  <2> QED BY <2>2, <2>3, <2>4 DEF MilestoneSound
<1>15. ASSUME NEW e \in events' PROVE EventSound(e)'
  <2>1. EventSound(e) /\ e \in events
    BY <1>1 DEF Orderly
  <2>2. CASE e.m = m
    <3>1. e = EventOf(w)
      BY <1>7, <2>1, <2>2
    <3>2. e.kind = "dispute_raised"
      BY <1>7, <3>1 DEF EventOf
    <3>3. HandlesRaised(w, e.m)'
      BY <1>4, <1>7, <2>2 DEF HandlesRaised
    <3> QED BY <1>1, <2>1, <3>2, <3>3 DEF EventSound, Raised
  <2>3. CASE e.m # m
    <3>1. RowsOf(e.m)' = RowsOf(e.m) /\ \A v \in Workers : ~HandlesRaised(v, e.m)
      BY <1>10, <2>3 DEF HandlesRaised
    <3> QED BY <1>1, <1>13, <2>1, <3>1 DEF EventSound, Raised
  <2> QED BY <2>2, <2>3
<1>16. HandlerSound(w)'
  <2>1. EventOf(w)' = EventOf(w)
    BY <1>4 DEF EventOf
  <2>2. KindSound(w)'
    BY <1>1, <1>3, <1>4, <1>7, <2>1 DEF HandlerSound, KindSound, EventLabels
  <2>3. OpeningSound(w)'
    BY <1>1, <1>4, <1>5, <1>6, <1>9 DEF OpeningSound
  <2>4. DecidingSound(w)' /\ SettlingSound(w)'
    BY <1>1, <1>4, <1>7 DEF DecidingSound, SettlingSound, PayingLabels
  <2> QED BY <2>2, <2>3, <2>4 DEF HandlerSound
<1> QED BY <1>11, <1>12, <1>14, <1>15, <1>16 DEF Orderly

\* autoAssign: the row of the dispute just raised gets an arbiter, if there is one.
LEMMA AutoAssignSound ==
    ASSUME Orderly, IInv', NEW w \in Workers, \A v \in Workers : v = w,
           AutoAssignRead(w) \/ AutoAssignWrite(w)
    PROVE  Orderly'
<1> SUFFICES ASSUME NEW d, NEW m, d = req[w].d, m = req[w].m PROVE Orderly'
  OBVIOUS
<1>1. /\ req[w].pc \in {"assign", "assignWrite"}
      /\ UNCHANGED <<appeal, payout, msStatus, refund, chain, verdict, tx, events, now>>
  BY DEF AutoAssignRead, AutoAssignWrite, At, onChain, rows
<1>2. HandlerSound(w) /\ Base /\ d # NoDispute /\ now' >= now
  BY <1>1, HandlerFacts DEF Orderly, IInv, LocalOK, DisputeLabels, Base, TypeOK
<1>3. /\ d \in DisputeIds /\ Exists(d) /\ dispute[d] \in DisputeRow /\ m \in Milestones
      /\ dispute[d].milestone = m /\ StageSound(d) /\ ArbiterSound(d) /\ SettledSound(d)
  BY <1>2, OwnFacts
<1>4. /\ dispute[d].round = req[w].round /\ dispute[d].status = "OPEN"
      /\ dispute[d].arbiter = NoOne /\ appeal[d] = "NONE" /\ req[w].kind = "dispute_raised"
  BY <1>1, <1>2 DEF HandlerSound, OpeningSound, KindSound
<1>5. tx[w].st = "none"
  BY <1>1, <1>2 DEF HandlerSound, SettlingSound
\* What is the same for the read and both outcomes of the write.
<1>6. ASSUME req'[w].d = d, req'[w].m = m, req'[w].kind = req[w].kind, req'[w].round = req[w].round,
             req'[w].o = req[w].o, req'[w].pc \in {"assignWrite", "ack"},
             \A c \in DisputeIds \ {d} : dispute'[c] = dispute[c],
             dispute'[d].milestone = m, dispute'[d].round = req[w].round, Exists(d)',
             dispute'[d].isFinal = dispute[d].isFinal, dispute'[d].outcome = dispute[d].outcome,
             dispute'[d].released = dispute[d].released,
             req'[w].pc = "assignWrite" => dispute'[d] = dispute[d],
             DisputeSound(d)'
      PROVE  Orderly'
  <2>1. EventOf(w)' = EventOf(w)
    BY <1>6 DEF EventOf
  <2>2. KindSound(w)'
    BY <1>1, <1>2, <1>4, <1>6, <2>1 DEF HandlerSound, KindSound, EventLabels
  <2>3. req'[w].pc = "ack" => d \in RowsOf(m)'
    BY <1>3, <1>6 DEF RowsOf
  <2>4. OpeningSound(w)'
    BY <1>1, <1>4, <1>6, <2>3 DEF OpeningSound
  <2>5. DecidingSound(w)' /\ SettlingSound(w)'
    BY <1>1, <1>5, <1>6 DEF DecidingSound, SettlingSound, PayingLabels
  <2>6. RowKept(d)
    BY <1>3, <1>4, <1>6 DEF RowKept, RefundRuled
  <2>7. HandlerSound(w)'
    BY <2>2, <2>4, <2>5 DEF HandlerSound
  <2> QED BY <1>1, <1>2, <1>3, <1>6, <2>6, <2>7, OwnSound
<1>7. CASE AutoAssignRead(w)
  <2>1. UNCHANGED dispute /\ req[w].pc = "assign" /\ req[w] \in Request
    BY <1>2, <1>7 DEF AutoAssignRead, At, rows, Base, TypeOK
  <2> DEFINE Kept == /\ req'[w].pc \in {"assignWrite", "ack"}
                     /\ req'[w].d = d /\ req'[w].m = m /\ req'[w].o = req[w].o
                     /\ req'[w].kind = req[w].kind /\ req'[w].round = req[w].round
  <2>2. Kept
    <3>1. ASSUME NEW arbiter, Become(w, [req[w] EXCEPT !.pc = "assignWrite", !.a = arbiter])
          PROVE  Kept
      <4>1. req'[w] = [req[w] EXCEPT !.pc = "assignWrite", !.a = arbiter]
        BY <1>2, <3>1, BecomeEffect
      <4> QED BY <2>1, <4>1 DEF Request
    <3>2. ASSUME Goto(w, "ack") PROVE Kept
      <4>1. req'[w] = [req[w] EXCEPT !.pc = "ack"]
        BY <1>2, <3>2, BecomeEffect DEF Goto
      <4> QED BY <2>1, <4>1 DEF Request
    <3> QED BY <1>7, <3>1, <3>2 DEF AutoAssignRead
  <2>3. PICK pc \in {"assignWrite", "ack"} : req'[w].pc = pc
    BY <2>2
  <2>4. Untouched(w, d)
    BY <1>1, <2>1, <2>2, <2>3 DEF Untouched, Landed, Settling
  <2>5. DisputeSound(d)'
    BY <1>1, <1>2, <1>3, <2>4, DisputeKept DEF IInv
  <2> QED BY <1>3, <1>4, <1>6, <2>1, <2>2, <2>3, <2>5 DEF Exists
<1>8. CASE AutoAssignWrite(w)
  <2> DEFINE row == [dispute[d] EXCEPT !.arbiter = req[w].a, !.status = "UNDER_REVIEW", !.stage = "ARBITER_REVIEW"]
  <2>1. Write(d, row) /\ Goto(w, "ack") /\ req[w].pc = "assignWrite"
    BY <1>4, <1>8 DEF AutoAssignWrite, At
  <2>2. /\ req'[w].pc = "ack" /\ req'[w].d = d /\ req'[w].m = m /\ req'[w].o = req[w].o
        /\ req'[w].kind = req[w].kind /\ req'[w].round = req[w].round
    BY <2>1, GotoFacts DEF Labels
  <2>3. dispute'[d] = row /\ \A c \in DisputeIds \ {d} : dispute'[c] = dispute[c]
    BY <1>2, <2>1, OwnWritten
  <2>4. /\ row.arbiter = req[w].a /\ row.status = "UNDER_REVIEW" /\ row.stage = "ARBITER_REVIEW"
        /\ row.milestone = m /\ row.round = dispute[d].round /\ row.isFinal = dispute[d].isFinal
        /\ row.outcome = dispute[d].outcome /\ row.released = dispute[d].released
        /\ row.fundsLocked = dispute[d].fundsLocked
    BY <1>3 DEF DisputeRow
  <2> HIDE DEF row
  <2>5. req[w].a # NoOne
    BY <1>2, <2>1, HandlerFacts, ArbitersAssumption DEF LocalOK, NoOne
  <2>6. StageSound(d)'
    BY <1>1, <1>3, <1>4, <2>3, <2>4 DEF StageSound
  <2>7. ArbiterSound(d)'
    BY <1>1, <1>4, <2>3, <2>4, <2>5 DEF ArbiterSound
  <2>8. (Landed(w, d)' <=> Landed(w, d)) /\ VerdictOf(d)' = VerdictOf(d) /\ VerdictOf(d) = "NONE" /\ ~dispute[d].released
    <3>1. ~Landed(w, d) /\ ~Landed(w, d)' /\ VerdictOf(d)' = VerdictOf(d)
      BY <1>1, <1>3, <2>2, <2>3, <2>4 DEF Landed, VerdictOf
    <3>2. VerdictOf(d) = "NONE"
      BY <1>3, <1>4 DEF SettledSound
    <3> QED BY <1>3, <3>1, <3>2 DEF SettledSound
  <2>9. SettledSound(d)'
    BY <1>1, <1>3, <2>3, <2>4, <2>8 DEF SettledSound
  <2> QED BY <1>4, <1>6, <2>2, <2>3, <2>4, <2>6, <2>7, <2>9 DEF DisputeSound, Exists
<1> QED BY <1>7, <1>8

\* The event is processed: its dispute has a row.
LEMMA AckEventSound ==
    ASSUME Orderly, IInv', OneAtATime, NEW w \in Workers, AckEvent(w)
    PROVE  Orderly'
<1>0. \A v \in Workers : v = w
  BY DEF OneAtATime
<1>1. /\ req[w].pc = "ack" /\ events' = events \ {EventOf(w)} /\ Done(w)
      /\ UNCHANGED <<dispute, appeal, payout, msStatus, refund, chain, verdict, tx, now>>
  BY DEF AckEvent, At, Fault, OneAtATime, rows
<1>2. HandlerSound(w) /\ now' >= now /\ tx'[w].st = "none"
  BY <1>1 DEF Orderly, IInv, Base, TypeOK, HandlerSound, SettlingSound
<1>3. HandlerSound(w)' /\ req'[w] = Idle
  BY <1>1, <1>2, DoneSound
<1>4. EventOf(w) \in events /\ EventSound(EventOf(w))
  BY <1>1, <1>2 DEF HandlerSound, KindSound, EventLabels, Orderly
<1>5. \A d \in DisputeIds : Untouched(w, d) /\ RowKept(d)
  BY <1>1, <1>3 DEF Untouched, RowKept, Landed, Settling, Exists, RefundRuled, Idle
<1>6. \A m : RowsOf(m)' = RowsOf(m)
  BY <1>1 DEF RowsOf, Exists
<1>7. ASSUME NEW m \in Milestones PROVE DisputedSound(m)'
  <2>1. DisputedSound(m)
    BY DEF Orderly, MilestoneSound
  <2> QED BY <1>0, <1>1, <1>6, <2>1 DEF DisputedSound, Opening
<1>8. ASSUME NEW m \in Milestones, HandlesRaised(w, m) PROVE Raised(m, chain[m].round) \notin events'
  <2>1. EventOf(w).kind = "dispute_raised" /\ EventOf(w).m = m
    BY <1>8 DEF EventOf, HandlesRaised
  <2>2. EventOf(w) = Raised(m, chain[m].round)
    BY <1>4, <2>1 DEF EventSound
  <2> QED BY <1>1, <2>2
<1>9. ASSUME NEW m \in Milestones, NEW r \in 1..chain[m].round, Raised(m, r) \in events, Raised(m, r) \notin events'
      PROVE  \E d \in RowsOf(m) : dispute[d].round = r
  <2>1. Raised(m, r) = EventOf(w)
    BY <1>1, <1>9
  <2>2. req[w].kind = "dispute_raised" /\ req[w].m = m /\ req[w].round = r
    BY <2>1 DEF Raised, EventOf
  <2> QED BY <1>1, <1>2, <2>2 DEF HandlerSound, OpeningSound
<1> QED BY <1>0, <1>1, <1>2, <1>3, <1>5, <1>7, <1>8, <1>9, StepSound

\* markSettledOnChain finds every row settled.
LEMMA MarkSettledSound ==
    ASSUME Orderly, IInv', NEW w \in Workers, \A v \in Workers : v = w, MarkSettledOnChain(w)
    PROVE  Orderly'
<1> DEFINE m == req[w].m
<1>1. /\ req[w].pc = "markSettled"
      /\ UNCHANGED <<appeal, payout, msStatus, refund, chain, verdict, tx, events, now>>
  BY DEF MarkSettledOnChain, At, onChain
<1>2. HandlerSound(w) /\ now' >= now /\ dispute \in [DisputeIds -> DisputeRow]
  BY <1>1 DEF Orderly, IInv, Base, TypeOK
<1>3. \A d \in DisputeIds : Exists(d) /\ dispute[d].milestone = m => dispute[d].released
  BY <1>1, <1>2 DEF HandlerSound, OpeningSound, RowsOf
<1>4. dispute' = dispute
  BY <1>2, <1>3 DEF MarkSettledOnChain
<1>5. req[w].kind = "dispute_resolved" /\ EventOf(w) \in events /\ tx[w].st = "none"
  BY <1>1, <1>2 DEF HandlerSound, KindSound, SettlingSound
<1>6. Goto(w, "ack")
  BY <1>5 DEF MarkSettledOnChain
<1>7. /\ req'[w].pc = "ack" /\ req'[w].m = m /\ req'[w].o = req[w].o
      /\ req'[w].kind = req[w].kind /\ req'[w].round = req[w].round
  BY <1>6, GotoFacts DEF Labels
<1>8. EventOf(w)' = EventOf(w)
  BY <1>7 DEF EventOf
<1>9. KindSound(w)' /\ OpeningSound(w)'
  BY <1>1, <1>5, <1>7, <1>8 DEF KindSound, OpeningSound, EventLabels
<1>10. DecidingSound(w)' /\ SettlingSound(w)'
  BY <1>1, <1>5, <1>7 DEF DecidingSound, SettlingSound, PayingLabels
<1>11. \A d \in DisputeIds : Untouched(w, d) /\ RowKept(d)
  BY <1>1, <1>4, <1>7 DEF Untouched, RowKept, Landed, Settling, Exists, RefundRuled
<1>12. \A c : RowsOf(c)' = RowsOf(c)
  BY <1>4 DEF RowsOf, Exists
<1>13. ASSUME NEW c \in Milestones PROVE DisputedSound(c)'
  <2>1. DisputedSound(c)
    BY DEF Orderly, MilestoneSound
  <2> QED BY <1>1, <1>4, <1>12, <2>1 DEF DisputedSound, Opening
<1>14. \A c : ~HandlesRaised(w, c)
  BY <1>5 DEF HandlesRaised
<1> QED BY <1>1, <1>2, <1>9, <1>10, <1>11, <1>13, <1>14, StepSound DEF HandlerSound

-----------------------------------------------------------------------------
(* A decision is recorded, appealed and becomes final *)

\* recordDecision finds the open dispute of a milestone that says DISPUTED.
LEMMA RecordDecisionSound ==
    ASSUME Orderly, IInv', NEW w \in Workers, \A v \in Workers : v = w, RecordDecision(w)
    PROVE  Orderly'
<1>1. req[w].pc = "record" /\ HandlerSound(w) /\ req[w] \in Request
  BY DEF RecordDecision, At, Orderly, IInv, Base, TypeOK
<1>2. /\ NotClosed(req[w].m) # {} /\ req[w].o # "NONE" /\ req[w].a # NoOne
      /\ req[w].kind = "none" /\ tx[w].st = "none"
  BY <1>1 DEF HandlerSound, DecidingSound, KindSound, SettlingSound, EventLabels
<1>3. PICK d \in NotClosed(req[w].m) :
         IF MayDecide(dispute[d], req[w].a)
         THEN Become(w, [req[w] EXCEPT !.pc = "decide", !.d = d]) ELSE Done(w)
  BY <1>2 DEF RecordDecision
<1>4. UNCHANGED <<rows, chain, verdict, events, tx, now>> /\ now' >= now
  <2>1. UNCHANGED <<dispute, appeal, payout, msStatus, refund, onChain, now>>
    BY <1>2 DEF RecordDecision
  <2>2. now \in Nat
    BY DEF Orderly, IInv, Base, TypeOK
  <2> QED BY <2>1, <2>2 DEF rows, onChain
<1>5. CASE Done(w)
  BY <1>1, <1>4, <1>5, PlainDone DEF onChain, Plain
<1>6. CASE ~Done(w)
  <2>1. MayDecide(dispute[d], req[w].a) /\ Become(w, [req[w] EXCEPT !.pc = "decide", !.d = d])
    BY <1>3, <1>6
  <2>2. /\ req'[w].pc = "decide" /\ req'[w].d = d /\ req'[w].o = req[w].o
        /\ req'[w].a = req[w].a /\ req'[w].kind = req[w].kind
    <3>1. req'[w] = [req[w] EXCEPT !.pc = "decide", !.d = d]
      BY <2>1, BecomeEffect DEF Orderly, IInv
    <3> QED BY <1>1, <3>1 DEF Request
  <2>3. dispute' = dispute /\ tx' = tx
    BY <1>4 DEF rows
  <2>4. HandlerSound(w)'
    BY <1>2, <2>1, <2>2, <2>3
    DEF HandlerSound, KindSound, OpeningSound, DecidingSound, SettlingSound, PayingLabels, EventLabels
  <2> QED BY <1>1, <1>4, <2>2, <2>4, PlainSound DEF Plain
<1> QED BY <1>5, <1>6

\* A statement that moves the handler's own dispute on, short of closing it.
LEMMA OpenRowSound ==
    ASSUME Orderly, IInv', NEW w \in Workers, \A v \in Workers : v = w,
           req[w].pc \in {"decide", "appeal", "decideAppeal", "finalize"}, NEW d, req[w].d = d, d # NoDispute,
           NEW row, Write(d, row), Done(w) \/ Goto(w, "claim"),
           UNCHANGED <<payout, msStatus, refund, onChain, now>>,
           \A c \in DisputeIds \ {d} : appeal'[c] = appeal[c],
           dispute[d].status # "CLOSED", ~dispute[d].isFinal,
           row.status \notin {"NONE", "CLOSED"}, row.released = dispute[d].released,
           row.milestone = dispute[d].milestone, row.round = dispute[d].round,
           StageSound(d)', ArbiterSound(d)'
    PROVE  Orderly'
<1>1. /\ d \in DisputeIds /\ Exists(d) /\ SettledSound(d)
      /\ dispute'[d] = row /\ \A c \in DisputeIds \ {d} : dispute'[c] = dispute[c]
  BY OwnFacts, OwnWritten
<1>2. HandlerSound(w) /\ UNCHANGED <<chain, verdict, events, tx>> /\ now' >= now
  BY DEF Orderly, IInv, Base, TypeOK, onChain
<1>3. req[w].kind = "none" /\ tx[w].st = "none"
  BY <1>2 DEF HandlerSound, KindSound, SettlingSound, EventLabels
<1>4. req'[w].pc \in {"idle", "claim"} /\ req'[w].kind = "none" /\ req'[w].d \in {d, NoDispute}
  <2>1. CASE Done(w)
    BY <1>2, <1>3, <2>1, DoneSound DEF Idle
  <2>2. CASE Goto(w, "claim")
    BY <1>3, <2>2, GotoFacts DEF Labels
  <2> QED BY <2>1, <2>2
<1>5. HandlerSound(w)'
  BY <1>2, <1>3, <1>4
  DEF HandlerSound, KindSound, OpeningSound, DecidingSound, SettlingSound, PayingLabels, EventLabels
<1>6. RowKept(d)
  BY <1>1 DEF RowKept, RefundRuled, Exists
<1>7. DisputeSound(d)'
  <2>1. VerdictOf(d)' = VerdictOf(d) /\ VerdictOf(d) = "NONE"
    BY <1>1, <1>2 DEF VerdictOf, SettledSound
  <2>2. ~dispute[d].released /\ ~Landed(w, d)'
    BY <1>1, <1>4, <2>1 DEF SettledSound, Landed
  <2>3. SettledSound(d)'
    BY <1>1, <1>2, <2>1, <2>2 DEF SettledSound
  <2> QED BY <1>1, <2>3 DEF DisputeSound, Exists
<1> QED BY <1>1, <1>2, <1>3, <1>4, <1>5, <1>6, <1>7, OwnSound

\* decide's write: the ruling of the assigned arbiter.
LEMMA DecideWriteSound ==
    ASSUME Orderly, IInv', NEW w \in Workers, \A v \in Workers : v = w, DecideWrite(w)
    PROVE  Orderly'
<1> SUFFICES ASSUME NEW d, d = req[w].d PROVE Orderly'
  OBVIOUS
<1> DEFINE row == [dispute[d] EXCEPT !.status = "RESOLVED", !.outcome = req[w].o, !.decider = req[w].a,
                     !.assigned = dispute[d].arbiter, !.appealDeadline = now + AppealWindow, !.fundsLocked = TRUE, !.isFinal = (AppealWindow = 0)]
<1>1. req[w].pc = "decide" /\ UNCHANGED <<appeal, payout, msStatus, refund, onChain, now>>
  BY DEF DecideWrite, At
<1>2. HandlerSound(w) /\ Base /\ d # NoDispute /\ now' >= now
  BY <1>1, HandlerFacts DEF Orderly, IInv, LocalOK, DisputeLabels, Base, TypeOK
<1>3. CASE ~AwaitsDecision(dispute[d])
  <2>1. Done(w) /\ UNCHANGED <<rows, onChain>>
    BY <1>1, <1>3 DEF DecideWrite, rows
  <2> QED BY <1>1, <1>2, <2>1, PlainDone DEF Plain
<1>4. CASE AwaitsDecision(dispute[d])
  <2>1. Write(d, row) /\ (Done(w) \/ Goto(w, "claim"))
    BY <1>4 DEF DecideWrite
  <2>2. /\ d \in DisputeIds /\ Exists(d) /\ dispute[d] \in DisputeRow
        /\ StageSound(d) /\ ArbiterSound(d)
    BY <1>2, OwnFacts
  <2>3. req[w].o # "NONE" /\ MayDecide(dispute[d], req[w].a)
    BY <1>1, <1>2 DEF HandlerSound, DecidingSound
  <2>4. /\ row.status = "RESOLVED" /\ row.outcome = req[w].o /\ row.decider = req[w].a
        /\ row.assigned = dispute[d].arbiter /\ row.fundsLocked
        /\ row.isFinal = (AppealWindow = 0) /\ row.stage = dispute[d].stage /\ row.arbiter = dispute[d].arbiter
        /\ row.milestone = dispute[d].milestone /\ row.round = dispute[d].round /\ row.released = dispute[d].released
    BY <2>2 DEF DisputeRow
  <2> HIDE DEF row
  <2>5. dispute'[d] = row /\ dispute[d].status \in Active
    BY <1>2, <1>4, <2>1, OwnWritten DEF AwaitsDecision
  <2>6. appeal[d] = "NONE" /\ ~dispute[d].isFinal
    BY <2>2, <2>3, <2>5 DEF StageSound, MayDecide, Active
  <2>7. StageSound(d)'
    BY <1>1, <2>2, <2>3, <2>4, <2>5, <2>6 DEF StageSound, AppealOver
  <2>8. ArbiterSound(d)'
    BY <1>1, <2>3, <2>4, <2>5, <2>6 DEF ArbiterSound, MayDecide
  <2> QED BY <1>1, <1>2, <2>1, <2>4, <2>5, <2>6, <2>7, <2>8, OpenRowSound DEF Active
<1> QED BY <1>3, <1>4

\* openAppeal finds a second arbiter among those the decision did not name.
LEMMA OpenAppealWriteSound ==
    ASSUME Orderly, IInv', NEW w \in Workers, \A v \in Workers : v = w, OpenAppealWrite(w)
    PROVE  Orderly'
<1> SUFFICES ASSUME NEW d, d = req[w].d PROVE Orderly'
  OBVIOUS
<1> DEFINE a == req[w].a
           row == AppealedRow(dispute[d], a)
<1>1. req[w].pc = "appeal" /\ Done(w) /\ UNCHANGED <<payout, msStatus, refund, onChain, now>>
  BY DEF OpenAppealWrite, At
<1>2. HandlerSound(w) /\ Base /\ d # NoDispute /\ now' >= now
  BY <1>1, HandlerFacts DEF Orderly, IInv, LocalOK, DisputeLabels, Base, TypeOK
<1>3. CASE UNCHANGED <<dispute, appeal>>
  <2>1. UNCHANGED <<rows, onChain>>
    BY <1>1, <1>3 DEF rows
  <2> QED BY <1>1, <1>2, <2>1, PlainDone DEF Plain
<1>4. CASE ~UNCHANGED <<dispute, appeal>>
  <2>1. /\ Write(d, row) /\ appeal' = [appeal EXCEPT ![d] = "OPEN"]
        /\ dispute[d].status = "RESOLVED" /\ ~dispute[d].isFinal /\ appeal[d] = "NONE"
    BY <1>4 DEF OpenAppealWrite
  <2>2. /\ d \in DisputeIds /\ Exists(d) /\ dispute[d] \in DisputeRow /\ req[w].m \in Milestones
        /\ dispute[d].milestone = req[w].m /\ StageSound(d) /\ ArbiterSound(d)
    BY <1>2, OwnFacts
  <2>3. /\ row.status = (IF a = NoOne THEN "OPEN" ELSE "UNDER_REVIEW") /\ row.arbiter = a
        /\ row.fundsLocked /\ row.stage = "APPEAL_REVIEW" /\ row.decider = dispute[d].decider /\ row.assigned = dispute[d].assigned
        /\ row.milestone = dispute[d].milestone /\ row.round = dispute[d].round
        /\ row.released = dispute[d].released /\ row.isFinal = dispute[d].isFinal
    BY <2>2 DEF DisputeRow, AppealedRow
  <2> HIDE DEF row
  <2>4. dispute'[d] = row /\ appeal'[d] = "OPEN" /\ \A c \in DisputeIds \ {d} : appeal'[c] = appeal[c]
    BY <1>2, <2>1, <2>2, OwnWritten DEF Base, TypeOK
  <2>5. StageSound(d)'
    BY <2>1, <2>3, <2>4 DEF StageSound, Active
  <2>6. a \in (Eligible[req[w].m] \ {dispute[d].arbiter}) \cup {NoOne}
    BY <1>1, <1>2 DEF HandlerSound, DecidingSound
  <2>7. a # NoOne => a \in Eligible[req[w].m] /\ a \in Arbiters /\ a # dispute[d].arbiter /\ a # Admin
    BY <2>2, <2>6, EligibleAssumption, ArbitersAssumption DEF Admin
  <2>8. dispute[d].assigned # NoOne
          => dispute[d].arbiter = dispute[d].assigned /\ dispute[d].decider \in {Admin, dispute[d].assigned}
    BY <1>1, <2>1, <2>2 DEF ArbiterSound
  <2>9. ArbiterSound(d)'
    BY <2>3, <2>4, <2>7, <2>8 DEF ArbiterSound, Active
  <2> QED BY <1>1, <1>2, <2>1, <2>3, <2>4, <2>5, <2>9, OpenRowSound
<1> QED BY <1>3, <1>4

\* The appeal's ruling.
LEMMA DecideAppealWriteSound ==
    ASSUME Orderly, IInv', NEW w \in Workers, \A v \in Workers : v = w, DecideAppealWrite(w)
    PROVE  Orderly'
<1> SUFFICES ASSUME NEW d, d = req[w].d PROVE Orderly'
  OBVIOUS
<1> DEFINE row == [dispute[d] EXCEPT !.status = "RESOLVED", !.outcome = req[w].o,
                     !.appealDeadline = now, !.isFinal = TRUE, !.decider = NoOne, !.assigned = NoOne]
<1>1. req[w].pc = "decideAppeal" /\ UNCHANGED <<payout, msStatus, refund, onChain, now>>
  BY DEF DecideAppealWrite, At
<1>2. HandlerSound(w) /\ Base /\ d # NoDispute /\ now' >= now
  BY <1>1, HandlerFacts DEF Orderly, IInv, LocalOK, DisputeLabels, Base, TypeOK
<1>3. CASE appeal[d] # "OPEN"
  <2>1. Done(w) /\ UNCHANGED <<rows, onChain>>
    BY <1>1, <1>3 DEF DecideAppealWrite, rows
  <2> QED BY <1>1, <1>2, <2>1, PlainDone DEF Plain
<1>4. CASE appeal[d] = "OPEN"
  <2>1. Write(d, row) /\ appeal' = [appeal EXCEPT ![d] = "DECIDED"] /\ Goto(w, "claim")
    BY <1>4 DEF DecideAppealWrite
  <2>2. /\ d \in DisputeIds /\ Exists(d) /\ dispute[d] \in DisputeRow /\ StageSound(d) /\ SettledSound(d)
    BY <1>2, OwnFacts
  <2>3. /\ row.status = "RESOLVED" /\ row.outcome = req[w].o /\ row.stage = dispute[d].stage
        /\ row.milestone = dispute[d].milestone /\ row.round = dispute[d].round
        /\ row.released = dispute[d].released /\ row.fundsLocked = dispute[d].fundsLocked
    BY <2>2 DEF DisputeRow
  <2> HIDE DEF row
  <2>4. dispute'[d] = row /\ appeal'[d] = "DECIDED" /\ \A c \in DisputeIds \ {d} : appeal'[c] = appeal[c]
    BY <1>2, <2>1, <2>2, OwnWritten DEF Base, TypeOK
  <2>5. req[w].o # "NONE" /\ dispute[d].status \in Active /\ ~dispute[d].isFinal /\ dispute[d].stage = "APPEAL_REVIEW"
    BY <1>1, <1>2, <1>4, <2>2 DEF HandlerSound, DecidingSound, StageSound, Active
  <2>6. StageSound(d)'
    BY <2>2, <2>3, <2>4, <2>5 DEF StageSound, AppealOver
  <2>7. ArbiterSound(d)'
    BY <2>4 DEF ArbiterSound
  <2> QED BY <1>1, <1>2, <2>1, <2>3, <2>4, <2>5, <2>6, <2>7, OpenRowSound DEF Active
<1> QED BY <1>3, <1>4

\* The appeal-window job's write.
LEMMA FinalizeWriteSound ==
    ASSUME Orderly, IInv', NEW w \in Workers, \A v \in Workers : v = w, FinalizeWrite(w)
    PROVE  Orderly'
<1> SUFFICES ASSUME NEW d, d = req[w].d PROVE Orderly'
  OBVIOUS
<1> DEFINE row == [dispute[d] EXCEPT !.isFinal = TRUE, !.decider = NoOne, !.assigned = NoOne]
<1>1. req[w].pc = "finalize" /\ UNCHANGED <<appeal, payout, msStatus, refund, onChain, now>>
  BY DEF FinalizeWrite, At
<1>2. HandlerSound(w) /\ Base /\ d # NoDispute /\ now' >= now /\ req[w].t <= now /\ req[w].t \in Nat /\ now \in Nat
  BY <1>1, HandlerFacts DEF Orderly, IInv, LocalOK, DisputeLabels, Base, TypeOK, Request
<1>3. CASE ~(Lapsed(dispute[d], req[w].t) /\ ~dispute[d].isFinal)
  <2>1. Done(w) /\ UNCHANGED <<rows, onChain>>
    BY <1>1, <1>3 DEF FinalizeWrite, rows
  <2> QED BY <1>1, <1>2, <2>1, PlainDone DEF Plain
<1>4. CASE Lapsed(dispute[d], req[w].t) /\ ~dispute[d].isFinal
  <2>1. Write(d, row) /\ Goto(w, "claim")
    BY <1>4 DEF FinalizeWrite
  <2>2. /\ d \in DisputeIds /\ Exists(d) /\ dispute[d] \in DisputeRow /\ StageSound(d) /\ ArbiterSound(d)
    BY <1>2, OwnFacts
  <2>3. /\ row.status = dispute[d].status /\ row.outcome = dispute[d].outcome /\ row.stage = dispute[d].stage
        /\ row.arbiter = dispute[d].arbiter /\ row.decider = NoOne /\ row.assigned = NoOne
        /\ row.appealDeadline = dispute[d].appealDeadline /\ row.isFinal
        /\ row.milestone = dispute[d].milestone /\ row.round = dispute[d].round
        /\ row.released = dispute[d].released /\ row.fundsLocked = dispute[d].fundsLocked
    BY <2>2 DEF DisputeRow
  <2> HIDE DEF row
  <2>4. dispute'[d] = row /\ dispute[d].status = "RESOLVED" /\ row.appealDeadline < now'
    <3>1. dispute[d].appealDeadline < req[w].t /\ dispute[d].appealDeadline \in Int /\ now' = now
      BY <1>1, <1>4, <2>2 DEF Lapsed, DisputeRow
    <3>2. dispute'[d] = row /\ dispute[d].status = "RESOLVED"
      BY <1>2, <1>4, <2>1, OwnWritten DEF Lapsed
    <3> QED BY <1>2, <2>3, <3>1, <3>2
  <2>5. StageSound(d)'
    BY <1>1, <2>2, <2>3, <2>4 DEF StageSound, AppealOver
  <2>6. ArbiterSound(d)'
    BY <1>1, <2>2, <2>3, <2>4 DEF ArbiterSound
  <2> QED BY <1>1, <1>2, <1>4, <2>1, <2>3, <2>4, <2>5, <2>6, OpenRowSound
<1> QED BY <1>3, <1>4

-----------------------------------------------------------------------------
(* A final dispute is settled *)

\* A settlement holds its dispute closed, and its other locals are the row's.
LEMMA SettlingFacts ==
    ASSUME Orderly, NEW w \in Workers,
           req[w].pc \in {"load", "submit", "confirm", "rollback", "mark", "release"}
    PROVE  /\ req[w].d # NoDispute /\ req[w].d \in DisputeIds /\ Exists(req[w].d)
           /\ dispute[req[w].d] \in DisputeRow /\ req[w].m \in Milestones
           /\ dispute[req[w].d].milestone = req[w].m
           /\ StageSound(req[w].d) /\ ArbiterSound(req[w].d) /\ SettledSound(req[w].d)
           /\ dispute[req[w].d].status = "CLOSED" /\ ~dispute[req[w].d].released
           /\ dispute[req[w].d].isFinal /\ dispute[req[w].d].outcome \in Outcomes
           /\ appeal[req[w].d] # "OPEN" /\ req[w].kind = "none" /\ req[w].pc # "idle"
           /\ (\A v \in Workers : v = w) /\ ~Landed(w, req[w].d) => VerdictOf(req[w].d) = "NONE"
<1>1. HandlerSound(w)
  BY DEF Orderly
<1>2. req[w].d # NoDispute /\ dispute[req[w].d].status = "CLOSED" /\ ~dispute[req[w].d].released /\ req[w].kind = "none"
  BY <1>1 DEF HandlerSound, SettlingSound, KindSound, EventLabels
<1>3. /\ req[w].d \in DisputeIds /\ Exists(req[w].d) /\ dispute[req[w].d] \in DisputeRow /\ req[w].m \in Milestones
      /\ dispute[req[w].d].milestone = req[w].m
      /\ StageSound(req[w].d) /\ ArbiterSound(req[w].d) /\ SettledSound(req[w].d)
  BY <1>2, OwnFacts
<1>4. /\ dispute[req[w].d].isFinal /\ dispute[req[w].d].outcome # "NONE" /\ appeal[req[w].d] # "OPEN"
  BY <1>2, <1>3 DEF StageSound, Active
<1>5. dispute[req[w].d].outcome \in Outcomes
  BY <1>3, <1>4 DEF DisputeRow
<1>6. (\A v \in Workers : v = w) /\ ~Landed(w, req[w].d) => VerdictOf(req[w].d) = "NONE"
  BY <1>2, <1>3 DEF SettledSound
<1> QED BY <1>2, <1>3, <1>4, <1>5, <1>6

\* A dispute the contract has not settled is the latest of its milestone.
LEMMA LatestRound ==
    ASSUME Orderly, NEW d \in DisputeIds, Exists(d), VerdictOf(d) = "NONE"
    PROVE  /\ dispute[d].milestone \in Milestones
           /\ dispute[d].round = chain[dispute[d].milestone].round
           /\ chain[dispute[d].milestone].st = "DISPUTED"
<1> DEFINE m == dispute[d].milestone
<1>1. m \in Milestones /\ SettledSound(d)
  BY DEF Orderly, IInv, Base, RowOK, DisputeSound
<1>2. RoundsSound(m) /\ chain[m].round \in 0..MaxRounds /\ MaxRounds \in Nat
  BY <1>1, BoundsAssumption DEF Orderly, MilestoneSound, IInv, Base, TypeOK
<1>3. dispute[d].round \in 1..MaxRounds /\ dispute[d].round <= chain[m].round
  BY <1>1, <1>2 DEF SettledSound
<1> QED BY <1>1, <1>2, <1>3 DEF RoundsSound, VerdictOf

\* A step of a settlement that leaves the dispute row alone.
LEMMA SettlingStep ==
    ASSUME Orderly, IInv', NEW w \in Workers, \A v \in Workers : v = w,
           req[w].pc \in {"load", "submit", "confirm", "mark"},
           req'[w].pc \in {"load", "submit", "confirm", "rollback", "mark", "release"},
           req'[w].d = req[w].d, req'[w].m = req[w].m, req'[w].kind = req[w].kind,
           UNCHANGED <<dispute, appeal, payout, chain, verdict, events, now>>,
           Landed(w, req[w].d)' <=> Landed(w, req[w].d), HandlerSound(w)',
           \A m \in Milestones : /\ msStatus'[m] = "DISPUTED" => msStatus[m] = "DISPUTED"
                                 /\ refund'[m] => refund[m] \/ (req[w].m = m /\ dispute[req[w].d].outcome = "REFUND"
                                                                /\ VerdictOf(req[w].d) = "NONE")
    PROVE  Orderly'
<1> SUFFICES ASSUME NEW d, d = req[w].d PROVE Orderly'
  OBVIOUS
<1>1. /\ d # NoDispute /\ d \in DisputeIds /\ Exists(d) /\ dispute[d].milestone = req[w].m
      /\ dispute[d].isFinal /\ now' >= now
  BY SettlingFacts DEF Orderly, IInv, Base, TypeOK
<1>2. Untouched(w, d) /\ RowKept(d)
  BY DEF Untouched, Settling, RowKept, Exists, RefundRuled
<1>3. DisputeSound(d)'
  BY <1>1, <1>2, DisputeKept DEF IInv
<1>4. \A m \in Milestones : refund'[m] => refund[m] \/
         (dispute[d].milestone = m /\ Exists(d) /\ dispute[d].round = chain[m].round /\ RefundRuled(d))
  BY <1>1, LatestRound DEF RefundRuled
<1> QED BY <1>1, <1>2, <1>3, <1>4, OwnSound

\* settle's claim on the row.
LEMMA SettleClaimSound ==
    ASSUME Orderly, IInv', NEW w \in Workers, \A v \in Workers : v = w, SettleClaim(w)
    PROVE  Orderly'
<1> SUFFICES ASSUME NEW d, d = req[w].d PROVE Orderly'
  OBVIOUS
<1> DEFINE row == ClaimedRow(dispute[d])
<1>1. req[w].pc = "claim" /\ UNCHANGED <<appeal, payout, msStatus, refund, onChain, now>>
  BY DEF SettleClaim, At
<1>2. HandlerSound(w) /\ Base /\ d # NoDispute /\ now' >= now
  BY <1>1, HandlerFacts DEF Orderly, IInv, LocalOK, DisputeLabels, Base, TypeOK
<1>3. CASE Done(w) /\ UNCHANGED dispute
  <2>1. UNCHANGED <<rows, onChain>>
    BY <1>1, <1>3 DEF rows
  <2> QED BY <1>1, <1>2, <1>3, <2>1, PlainDone DEF Plain
<1>4. CASE ~(Done(w) /\ UNCHANGED dispute)
  <2>1. Write(d, row) /\ Goto(w, "load") /\ dispute[d].status = "RESOLVED" /\ dispute[d].isFinal /\ ~dispute[d].released
    BY <1>4 DEF SettleClaim
  <2>2. /\ d \in DisputeIds /\ Exists(d) /\ dispute[d] \in DisputeRow
        /\ StageSound(d) /\ ArbiterSound(d) /\ SettledSound(d)
    BY <1>2, OwnFacts
  <2>3. row = [dispute[d] EXCEPT !.status = "CLOSED"] /\ row.status = "CLOSED"
    BY <2>2 DEF ClaimedRow, DisputeRow
  <2>4. /\ row.isFinal /\ row.outcome = dispute[d].outcome /\ row.stage = dispute[d].stage /\ ~row.released
        /\ row.arbiter = dispute[d].arbiter /\ row.decider = dispute[d].decider /\ row.assigned = dispute[d].assigned
        /\ row.appealDeadline = dispute[d].appealDeadline /\ row.fundsLocked = dispute[d].fundsLocked
        /\ row.milestone = dispute[d].milestone /\ row.round = dispute[d].round
    BY <2>1, <2>2, <2>3 DEF DisputeRow
  <2> HIDE DEF row
  <2>5. dispute'[d] = row /\ \A c \in DisputeIds \ {d} : dispute'[c] = dispute[c]
    BY <1>2, <2>1, OwnWritten
  <2>6. UNCHANGED <<chain, verdict, events, tx>> /\ req[w].kind = "none" /\ tx[w].st = "none"
    BY <1>1, <1>2 DEF onChain, HandlerSound, KindSound, SettlingSound, EventLabels
  <2>7. req'[w].pc = "load" /\ req'[w].d = d /\ req'[w].m = req[w].m /\ req'[w].kind = "none"
    BY <2>1, <2>6, GotoFacts DEF Labels
  <2>8. HandlerSound(w)'
    BY <1>2, <2>3, <2>4, <2>5, <2>6, <2>7
    DEF HandlerSound, KindSound, OpeningSound, DecidingSound, SettlingSound, PayingLabels, EventLabels
  <2>9. StageSound(d)'
    BY <1>1, <2>1, <2>2, <2>3, <2>4, <2>5 DEF StageSound, AppealOver, Active
  <2>10. ArbiterSound(d)'
    BY <1>1, <2>1, <2>2, <2>3, <2>4, <2>5 DEF ArbiterSound
  <2>11. VerdictOf(d) = "NONE" /\ VerdictOf(d)' = VerdictOf(d) /\ ~Landed(w, d)' /\ Settling(w, d)'
    BY <2>1, <2>2, <2>4, <2>5, <2>6, <2>7 DEF SettledSound, VerdictOf, Landed, Settling
  <2>12. SettledSound(d)'
    BY <2>2, <2>3, <2>4, <2>5, <2>6, <2>11 DEF SettledSound
  <2>13. DisputeSound(d)' /\ RowKept(d)
    BY <2>2, <2>3, <2>4, <2>5, <2>9, <2>10, <2>12 DEF DisputeSound, RowKept, RefundRuled, Exists
  <2> QED BY <1>1, <1>2, <2>2, <2>4, <2>5, <2>6, <2>7, <2>8, <2>13, OwnSound
<1> QED BY <1>3, <1>4

\* The refund recorded before paying is that of the milestone's latest dispute.
LEMMA SettleLoadSound ==
    ASSUME Orderly, IInv', NEW w \in Workers, \A v \in Workers : v = w, SettleLoad(w)
    PROVE  Orderly'
<1> SUFFICES ASSUME NEW d, d = req[w].d PROVE Orderly'
  OBVIOUS
<1> DEFINE row == dispute[d]
           r == [req[w] EXCEPT !.pc = "submit", !.o = Ruling(row), !.a = row.arbiter]
<1>1. /\ req[w].pc = "load" /\ Become(w, r)
      /\ refund' = [refund EXCEPT ![req[w].m] = @ \/ RefundDue(row.outcome)]
      /\ UNCHANGED <<dispute, appeal, payout, msStatus, onChain, now>>
  BY DEF SettleLoad, At
<1>2. /\ d # NoDispute /\ row.status = "CLOSED" /\ ~row.released /\ row.outcome \in Outcomes
      /\ VerdictOf(d) = "NONE" /\ req[w].kind = "none"
  BY <1>1, SettlingFacts DEF Landed
<1>3. HandlerSound(w) /\ tx[w].st = "none" /\ req[w] \in Request /\ Base
  BY <1>1 DEF Orderly, IInv, Base, TypeOK, HandlerSound, SettlingSound
<1>4. Ruling(row) = row.outcome /\ (RefundDue(row.outcome) => row.outcome = "REFUND")
  BY <1>2 DEF Ruling, RefundDue, Outcomes
<1>5. /\ req'[w].pc = "submit" /\ req'[w].d = d /\ req'[w].m = req[w].m /\ req'[w].kind = req[w].kind
      /\ req'[w].o = row.outcome /\ req'[w].a = row.arbiter
  <2>1. req'[w] = r
    BY <1>1, <1>3, BecomeEffect
  <2> QED BY <1>3, <1>4, <2>1 DEF Request
<1> HIDE DEF r
<1>6. UNCHANGED <<chain, verdict, tx, events>>
  BY <1>1 DEF onChain
<1>7. HandlerSound(w)'
  BY <1>1, <1>2, <1>3, <1>5, <1>6
  DEF HandlerSound, KindSound, OpeningSound, DecidingSound, SettlingSound, PayingLabels, EventLabels
<1>8. ~Landed(w, d) /\ ~Landed(w, d)'
  BY <1>1, <1>5 DEF Landed
<1>9. \A m \in Milestones : refund'[m] => refund[m] \/ (req[w].m = m /\ row.outcome = "REFUND")
  BY <1>1, <1>3, <1>4 DEF Base, TypeOK
<1> QED BY <1>1, <1>2, <1>5, <1>6, <1>7, <1>8, <1>9, SettlingStep

\* The blockchain call: sent, confirmed, refused or given up.
LEMMA SubmitSound ==
    ASSUME Orderly, IInv', OneAtATime, NEW w \in Workers,
           ResolveMilestoneDispute(w) \/ SubmitFails(w) \/ ConfirmOk(w) \/ ConfirmFailed(w)
    PROVE  Orderly'
<1> SUFFICES ASSUME NEW d, d = req[w].d PROVE Orderly'
  OBVIOUS
<1>0. \A v \in Workers : v = w
  BY DEF OneAtATime
<1>1. /\ req[w].pc \in {"submit", "confirm"}
      /\ UNCHANGED <<dispute, appeal, payout, msStatus, refund, chain, verdict, events, now>>
  BY DEF ResolveMilestoneDispute, SubmitFails, ConfirmOk, ConfirmFailed, At, rows, onChain
<1>2. /\ d # NoDispute /\ dispute[d].status = "CLOSED" /\ ~dispute[d].released /\ req[w].kind = "none"
  BY <1>1, SettlingFacts
<1>3. /\ HandlerSound(w) /\ Base /\ req[w].o = dispute[d].outcome /\ req[w].a = dispute[d].arbiter
      /\ tx[w].st # "none" => req[w].pc = "confirm"
      /\ tx \in [Workers -> Transaction]
  BY <1>1 DEF Orderly, IInv, Base, TypeOK, HandlerSound, SettlingSound, PayingLabels
<1>4. \A label \in {"confirm", "rollback", "mark"} : Goto(w, label) =>
         /\ req'[w].pc = label /\ req'[w].d = d /\ req'[w].m = req[w].m /\ req'[w].kind = req[w].kind
         /\ req'[w].o = req[w].o /\ req'[w].a = req[w].a
  BY GotoFacts DEF Labels
<1>5. \A m \in Milestones : (msStatus'[m] = "DISPUTED" => msStatus[m] = "DISPUTED") /\ (refund'[m] => refund[m])
  BY <1>1
\* What is the same for all four.
<1>6. ASSUME NEW label \in {"confirm", "rollback", "mark"}, Goto(w, label),
             Landed(w, d)' <=> Landed(w, d),
             IF label = "confirm" THEN tx'[w].st # "none" /\ tx'[w].m = req[w].m /\ tx'[w].o = req[w].o
             ELSE tx'[w].st = "none"
      PROVE  Orderly'
  <2>1. /\ req'[w].pc = label /\ req'[w].d = d /\ req'[w].m = req[w].m /\ req'[w].kind = req[w].kind
        /\ req'[w].o = req[w].o /\ req'[w].a = req[w].a
    BY <1>4, <1>6
  <2>2. HandlerSound(w)'
    BY <1>1, <1>2, <1>3, <1>6, <2>1
    DEF HandlerSound, KindSound, OpeningSound, DecidingSound, SettlingSound, PayingLabels, EventLabels
  <2> QED BY <1>0, <1>1, <1>5, <1>6, <2>1, <2>2, SettlingStep
<1>7. CASE ResolveMilestoneDispute(w)
  <2>1. Goto(w, "confirm") /\ req[w].pc = "submit" /\ tx' = [tx EXCEPT ![w] = [st |-> "flying", m |-> req[w].m, o |-> req[w].o]]
    BY <1>7 DEF ResolveMilestoneDispute, At
  <2>2. tx'[w].st = "flying" /\ tx'[w].m = req[w].m /\ tx'[w].o = req[w].o
    BY <1>3, <2>1
  <2>3. ~Landed(w, d) /\ ~Landed(w, d)'
    BY <1>4, <2>1, <2>2 DEF Landed
  <2> QED BY <1>6, <2>1, <2>2, <2>3
<1>8. CASE SubmitFails(w)
  <2>1. Goto(w, "rollback") /\ req[w].pc = "submit" /\ tx' = tx
    BY <1>2, <1>8 DEF SubmitFails, Catch, At, onChain
  <2>2. ~Landed(w, d) /\ ~Landed(w, d)'
    BY <1>4, <2>1 DEF Landed
  <2> QED BY <1>3, <1>6, <2>1, <2>2
<1>9. CASE ConfirmOk(w)
  <2>1. Goto(w, "mark") /\ req[w].pc = "confirm" /\ tx[w].st = "ok" /\ tx' = [tx EXCEPT ![w] = NoTx]
    BY <1>9 DEF ConfirmOk, At
  <2>2. Landed(w, d) /\ Landed(w, d)'
    BY <1>4, <2>1 DEF Landed
  <2> QED BY <1>3, <1>6, <2>1, <2>2 DEF NoTx
<1>10. CASE ConfirmFailed(w)
  <2>1. Goto(w, "rollback") /\ req[w].pc = "confirm" /\ tx[w].st = "failed" /\ tx' = [tx EXCEPT ![w] = NoTx]
    BY <1>2, <1>10 DEF ConfirmFailed, Catch, At
  <2>2. ~Landed(w, d) /\ ~Landed(w, d)'
    BY <1>4, <2>1 DEF Landed
  <2> QED BY <1>3, <1>6, <2>1, <2>2 DEF NoTx
<1> QED BY <1>7, <1>8, <1>9, <1>10

\* The milestone's row no longer says DISPUTED once its dispute is settled.
LEMMA MarkMilestoneSound ==
    ASSUME Orderly, IInv', NEW w \in Workers, \A v \in Workers : v = w, MarkMilestone(w)
    PROVE  Orderly'
<1> SUFFICES ASSUME NEW d, d = req[w].d PROVE Orderly'
  OBVIOUS
<1>1. /\ req[w].pc = "mark" /\ msStatus' = [msStatus EXCEPT ![req[w].m] = Resolved(req[w].o)]
      /\ UNCHANGED <<dispute, appeal, payout, refund, chain, verdict, tx, events, now>>
  BY DEF MarkMilestone, At, onChain
<1>2. /\ d # NoDispute /\ dispute[d].status = "CLOSED" /\ ~dispute[d].released /\ req[w].kind = "none" /\ req[w].m \in Milestones
  BY <1>1, SettlingFacts
<1>3. /\ HandlerSound(w) /\ Base /\ req[w].a = dispute[d].arbiter /\ tx[w].st = "none"
  BY <1>1 DEF Orderly, IInv, HandlerSound, SettlingSound, PayingLabels
<1>4. Goto(w, "release")
  BY <1>2 DEF MarkMilestone
<1>5. /\ req'[w].pc = "release" /\ req'[w].d = d /\ req'[w].m = req[w].m /\ req'[w].kind = req[w].kind
      /\ req'[w].a = req[w].a
  BY <1>4, GotoFacts DEF Labels
<1>6. \A m \in Milestones : msStatus'[m] = IF m = req[w].m THEN Resolved(req[w].o) ELSE msStatus[m]
  BY <1>1, <1>3 DEF Base, TypeOK
<1>7. HandlerSound(w)'
  BY <1>1, <1>2, <1>3, <1>5, <1>6
  DEF HandlerSound, KindSound, OpeningSound, DecidingSound, SettlingSound, PayingLabels, EventLabels, Resolved
<1>8. Landed(w, d) /\ Landed(w, d)'
  BY <1>1, <1>5 DEF Landed
<1>9. \A m \in Milestones : msStatus'[m] = "DISPUTED" => msStatus[m] = "DISPUTED"
  BY <1>6 DEF Resolved
<1> QED BY <1>1, <1>5, <1>7, <1>8, <1>9, SettlingStep

\* settle undoes its claim: the contract has not settled the dispute.
LEMMA SettleRollbackSound ==
    ASSUME Orderly, IInv', NEW w \in Workers, \A v \in Workers : v = w, SettleRollback(w)
    PROVE  Orderly'
<1> SUFFICES ASSUME NEW d, d = req[w].d PROVE Orderly'
  OBVIOUS
<1> DEFINE row == [dispute[d] EXCEPT !.status = "RESOLVED"]
<1>1. /\ req[w].pc = "rollback" /\ Write(d, row) /\ Done(w)
      /\ UNCHANGED <<appeal, payout, msStatus, refund, chain, verdict, tx, events, now>>
  BY DEF SettleRollback, At, onChain
<1>2. /\ d # NoDispute /\ d \in DisputeIds /\ Exists(d) /\ dispute[d] \in DisputeRow
      /\ StageSound(d) /\ ArbiterSound(d) /\ SettledSound(d)
      /\ dispute[d].status = "CLOSED" /\ ~dispute[d].released /\ dispute[d].isFinal
      /\ dispute[d].outcome \in Outcomes /\ appeal[d] # "OPEN" /\ req[w].kind = "none"
      /\ VerdictOf(d) = "NONE" /\ now' >= now
  <2>1. ~Landed(w, d) /\ now' >= now
    BY <1>1 DEF Landed, Orderly, IInv, Base, TypeOK
  <2> QED BY <1>1, <2>1, SettlingFacts
<1>3. /\ row.status = "RESOLVED" /\ row.isFinal /\ row.outcome = dispute[d].outcome /\ row.stage = dispute[d].stage
      /\ row.arbiter = dispute[d].arbiter /\ row.decider = dispute[d].decider /\ row.assigned = dispute[d].assigned /\ ~row.released
      /\ row.appealDeadline = dispute[d].appealDeadline /\ row.fundsLocked = dispute[d].fundsLocked
      /\ row.milestone = dispute[d].milestone /\ row.round = dispute[d].round
  BY <1>2 DEF DisputeRow
<1> HIDE DEF row
<1>4. dispute'[d] = row /\ \A c \in DisputeIds \ {d} : dispute'[c] = dispute[c]
  BY <1>1, <1>2, OwnWritten
<1>5. tx'[w].st = "none"
  BY <1>1 DEF Orderly, HandlerSound, SettlingSound
<1>6. HandlerSound(w)' /\ req'[w] = Idle
  BY <1>1, <1>5, DoneSound
<1>7. StageSound(d)'
  BY <1>1, <1>2, <1>3, <1>4 DEF StageSound, AppealOver, Outcomes
<1>8. ArbiterSound(d)'
  BY <1>1, <1>2, <1>3, <1>4 DEF ArbiterSound
<1>9. VerdictOf(d)' = "NONE" /\ ~Landed(w, d)'
  BY <1>1, <1>2, <1>3, <1>4, <1>6 DEF VerdictOf, Landed, Idle
<1>10. SettledSound(d)'
  BY <1>1, <1>2, <1>3, <1>4, <1>9 DEF SettledSound
<1>11. DisputeSound(d)' /\ RowKept(d)
  BY <1>2, <1>3, <1>4, <1>7, <1>8, <1>10 DEF DisputeSound, RowKept, RefundRuled, Exists
<1> QED BY <1>1, <1>2, <1>3, <1>4, <1>6, <1>11, OwnSound DEF Idle

\* The dispute is marked settled: the contract has its verdict.
LEMMA SettleReleaseSound ==
    ASSUME Orderly, IInv', NEW w \in Workers, \A v \in Workers : v = w, SettleRelease(w)
    PROVE  Orderly'
<1> SUFFICES ASSUME NEW d, d = req[w].d PROVE Orderly'
  OBVIOUS
<1> DEFINE row == [dispute[d] EXCEPT !.fundsLocked = FALSE, !.released = TRUE,
                                     !.owed = @ \/ req[w].a # NoOne,
                                     !.decider = NoOne, !.assigned = NoOne]
<1>1. /\ req[w].pc = "release" /\ Write(d, row) /\ Goto(w, "payout")
      /\ UNCHANGED <<appeal, payout, msStatus, refund, chain, verdict, tx, events, now>>
  BY DEF SettleRelease, At, onChain
<1>2. /\ d # NoDispute /\ d \in DisputeIds /\ Exists(d) /\ dispute[d] \in DisputeRow
      /\ StageSound(d) /\ ArbiterSound(d) /\ SettledSound(d) /\ dispute[d].milestone = req[w].m
      /\ dispute[d].status = "CLOSED" /\ ~dispute[d].released /\ dispute[d].isFinal
      /\ appeal[d] # "OPEN" /\ req[w].kind = "none" /\ now' >= now
  BY <1>1, SettlingFacts DEF Orderly, IInv, Base, TypeOK
<1>3. /\ row.status = "CLOSED" /\ row.isFinal = dispute[d].isFinal /\ row.outcome = dispute[d].outcome
      /\ row.stage = dispute[d].stage /\ row.released
      /\ row.arbiter = dispute[d].arbiter /\ row.assigned = NoOne
      /\ row.appealDeadline = dispute[d].appealDeadline
      /\ row.milestone = dispute[d].milestone /\ row.round = dispute[d].round
  BY <1>2 DEF DisputeRow
<1> HIDE DEF row
<1>4. dispute'[d] = row /\ \A c \in DisputeIds \ {d} : dispute'[c] = dispute[c]
  BY <1>1, <1>2, OwnWritten
<1>5. HandlerSound(w) /\ tx[w].st = "none" /\ req[w].a = dispute[d].arbiter /\ msStatus[req[w].m] # "DISPUTED"
  BY <1>1 DEF Orderly, HandlerSound, SettlingSound, PayingLabels
<1>6. /\ req'[w].pc = "payout" /\ req'[w].d = d /\ req'[w].m = req[w].m /\ req'[w].kind = req[w].kind
      /\ req'[w].a = req[w].a
  BY <1>1, GotoFacts DEF Labels
<1>7. HandlerSound(w)'
  BY <1>1, <1>2, <1>3, <1>4, <1>5, <1>6
  DEF HandlerSound, KindSound, OpeningSound, DecidingSound, SettlingSound, PayingLabels, EventLabels
<1>8. StageSound(d)'
  BY <1>1, <1>2, <1>3, <1>4 DEF StageSound, AppealOver
<1>9. ArbiterSound(d)'
  BY <1>1, <1>2, <1>3, <1>4 DEF ArbiterSound
<1>10. VerdictOf(d)' = VerdictOf(d) /\ Landed(w, d)
  BY <1>1, <1>2, <1>3, <1>4, <1>6 DEF VerdictOf, Landed
<1>11. SettledSound(d)'
  BY <1>1, <1>2, <1>3, <1>4, <1>10 DEF SettledSound
<1>12. DisputeSound(d)' /\ RowKept(d)
  BY <1>2, <1>3, <1>4, <1>8, <1>9, <1>11 DEF DisputeSound, RowKept, RefundRuled, Exists
<1>13. \A m \in Milestones : msStatus'[m] = "DISPUTED" => msStatus[m] = "DISPUTED" /\ dispute[d].milestone # m
  BY <1>1, <1>2, <1>5
<1> QED BY <1>1, <1>2, <1>4, <1>6, <1>7, <1>12, <1>13, OwnSound

\* The settlement ends.
LEMMA RecordArbiterPayoutSound ==
    ASSUME Orderly, IInv', NEW w \in Workers, \A v \in Workers : v = w, RecordArbiterPayout(w)
    PROVE  Orderly'
<1> SUFFICES ASSUME NEW d, d = req[w].d PROVE Orderly'
  OBVIOUS
<1>1. /\ req[w].pc = "payout" /\ Done(w)
      /\ UNCHANGED <<dispute, appeal, msStatus, refund, chain, verdict, tx, events, now>>
  BY DEF RecordArbiterPayout, At, onChain
<1>2. HandlerSound(w) /\ Base /\ d # NoDispute /\ now' >= now
  BY <1>1, HandlerFacts DEF Orderly, IInv, LocalOK, DisputeLabels, Base, TypeOK
<1>3. /\ d \in DisputeIds /\ Exists(d) /\ StageSound(d) /\ ArbiterSound(d) /\ SettledSound(d)
  BY <1>2, OwnFacts
<1>4. tx[w].st = "none" /\ req[w].kind = "none" /\ dispute[d].released
  BY <1>1, <1>2 DEF HandlerSound, SettlingSound, KindSound, PayingLabels, EventLabels
<1>5. HandlerSound(w)' /\ req'[w] = Idle
  BY <1>1, <1>4, DoneSound
<1>6. StageSound(d)' /\ ArbiterSound(d)'
  BY <1>1, <1>3 DEF StageSound, ArbiterSound, AppealOver
<1>7. VerdictOf(d)' = VerdictOf(d) /\ ~Landed(w, d)
  BY <1>1 DEF VerdictOf, Landed
<1>8. SettledSound(d)'
  BY <1>1, <1>3, <1>4, <1>7 DEF SettledSound
<1>9. DisputeSound(d)' /\ RowKept(d)
  BY <1>1, <1>3, <1>6, <1>8 DEF DisputeSound, RowKept, RefundRuled, Exists
<1> QED BY <1>1, <1>2, <1>3, <1>4, <1>5, <1>9, OwnSound DEF Idle

-----------------------------------------------------------------------------
(* The contract, the network and the clock *)

\* A transaction in the network is that of the settlement waiting for it.
LEMMA FlyingFacts ==
    ASSUME Orderly, NEW w \in Workers, tx[w].st = "flying"
    PROVE  /\ HandlerSound(w) /\ req[w].pc = "confirm" /\ tx[w].m = req[w].m
           /\ tx[w].o = req[w].o /\ req[w].o = dispute[req[w].d].outcome
BY DEF Orderly, HandlerSound, SettlingSound

\* A transaction that expires.
LEMMA FailTxSound ==
    ASSUME Orderly, IInv', NEW w \in Workers, \A v \in Workers : v = w, FailTx(w)
    PROVE  Orderly'
<1> SUFFICES ASSUME NEW d, d = req[w].d PROVE Orderly'
  OBVIOUS
<1>1. /\ tx[w].st = "flying" /\ tx' = [tx EXCEPT ![w] = Reported(w, "failed")]
      /\ UNCHANGED <<dispute, appeal, payout, msStatus, refund, chain, verdict, events, req, now>>
  BY DEF FailTx, rows
<1>2. HandlerSound(w) /\ req[w].pc = "confirm" /\ tx \in [Workers -> Transaction]
  BY <1>1, FlyingFacts DEF Orderly, IInv, Base, TypeOK
<1>3. tx'[w].st = "failed" /\ tx'[w].m = tx[w].m /\ tx'[w].o = tx[w].o
  BY <1>1, <1>2 DEF Reported, At, Transaction
<1>4. HandlerSound(w)'
  BY <1>1, <1>2, <1>3 DEF HandlerSound, KindSound, OpeningSound, DecidingSound, SettlingSound, PayingLabels, EventLabels
<1>5. ~Landed(w, d) /\ ~Landed(w, d)'
  BY <1>1, <1>2, <1>3 DEF Landed
<1> QED BY <1>1, <1>2, <1>4, <1>5, SettlingStep

\* The transaction lands: the contract has what the row says.
LEMMA LandTxSound ==
    ASSUME Orderly, IInv', NEW w \in Workers, \A v \in Workers : v = w, LandTx(w)
    PROVE  Orderly'
<1> SUFFICES ASSUME NEW d, d = req[w].d PROVE Orderly'
  OBVIOUS
<1> DEFINE m == req[w].m
           o == req[w].o
           n == chain[m].round
           resolved == [kind |-> "dispute_resolved", m |-> m, o |-> o, round |-> n]
<1>1. /\ tx[w].st = "flying" /\ UNCHANGED <<dispute, appeal, payout, msStatus, refund, req, now>>
      /\ ContractResolves(tx[w].m, tx[w].o)
  BY DEF LandTx, rows
<1>2. /\ HandlerSound(w) /\ req[w].pc = "confirm" /\ tx[w].m = m /\ tx[w].o = o /\ o = dispute[d].outcome
  BY <1>1, FlyingFacts
<1>3. /\ d # NoDispute /\ d \in DisputeIds /\ Exists(d) /\ m \in Milestones /\ dispute[d].milestone = m
      /\ StageSound(d) /\ ArbiterSound(d) /\ SettledSound(d) /\ dispute[d].status = "CLOSED"
      /\ ~dispute[d].released /\ dispute[d].outcome \in Outcomes /\ req[w].kind = "none"
      /\ VerdictOf(d) = "NONE" /\ Base
  BY <1>1, <1>2, SettlingFacts DEF Landed, Orderly, IInv
<1>4. dispute[d].round = n /\ chain[m].st = "DISPUTED"
  BY <1>3, LatestRound
<1>5. /\ chain' = [chain EXCEPT ![m].st = IF o = "RELEASE" THEN "PAID" ELSE "OPEN"]
      /\ verdict' = [verdict EXCEPT ![m][n] = o] /\ events' = events \cup {resolved}
  BY <1>1, <1>2 DEF ContractResolves
<1>6. n \in 1..MaxRounds /\ MaxRounds \in Nat
  BY <1>3, <1>4, BoundsAssumption DEF Base, TypeOK, ChainOK
<1>7. /\ \A c \in Milestones : chain'[c].round = chain[c].round
      /\ \A c \in Milestones \ {m} : chain'[c] = chain[c]
      /\ chain'[m].st # "DISPUTED"
  BY <1>3, <1>5 DEF Base, TypeOK
<1>8. /\ \A c \in Milestones, r \in 1..MaxRounds : ~(c = m /\ r = n) => verdict'[c][r] = verdict[c][r]
      /\ verdict'[m][n] = o /\ o # "NONE"
  BY <1>2, <1>3, <1>5, <1>6 DEF Base, TypeOK, Outcomes
<1>9. \A c : RowsOf(c)' = RowsOf(c)
  BY <1>1 DEF RowsOf, Exists
<1>10. tx'[w].st = "ok" /\ tx'[w].m = m /\ tx'[w].o = o
  <2>1. tx'[w] = Reported(w, "ok")
    BY DEF LandTx
  <2> QED BY <1>2, <1>3, <2>1 DEF Reported, At, Base, TypeOK, Transaction
<1>11. ASSUME NEW c \in DisputeIds, Exists(c) PROVE DisputeSound(c)'
  <2>1. /\ StageSound(c) /\ ArbiterSound(c) /\ SettledSound(c) /\ dispute[c].milestone \in Milestones
        /\ dispute[c].round \in 1..chain[dispute[c].milestone].round
    BY <1>3, <1>11 DEF Orderly, DisputeSound, SettledSound, RowOK, Base
  <2>2. StageSound(c)' /\ ArbiterSound(c)'
    BY <1>1, <2>1 DEF StageSound, ArbiterSound, AppealOver
  <2>3. CASE c = d
    <3>1. VerdictOf(d)' = o /\ Landed(w, d)' /\ Settling(w, d)'
      BY <1>1, <1>2, <1>3, <1>4, <1>8, <1>10 DEF VerdictOf, Landed, Settling
    <3>2. SettledSound(d)'
      BY <1>1, <1>2, <1>3, <1>7, <1>8, <3>1 DEF SettledSound
    <3> QED BY <1>1, <1>11, <2>2, <2>3, <3>2 DEF DisputeSound, Exists
  <2>4. CASE c # d
    <3>1. ~(dispute[c].milestone = m /\ dispute[c].round = n)
      BY <1>3, <1>4, <1>11, <2>4 DEF Orderly, OneRowEach
    <3>2. dispute[c].round \in 1..MaxRounds
      BY <1>3, <1>6, <2>1 DEF Base, TypeOK
    <3>3. VerdictOf(c)' = VerdictOf(c)
      BY <1>1, <1>8, <2>1, <3>1, <3>2 DEF VerdictOf
    <3>4. ~Landed(w, c) /\ ~Landed(w, c)' /\ ~Settling(w, c)
      BY <1>1, <2>4 DEF Landed, Settling
    <3>5. SettledSound(c)'
      BY <1>1, <1>7, <2>1, <3>3, <3>4 DEF SettledSound
    <3> QED BY <1>1, <1>11, <2>2, <3>5 DEF DisputeSound, Exists
  <2> QED BY <2>3, <2>4
<1>12. \A c \in DisputeIds : DisputeSound(c)'
  BY <1>1, <1>11 DEF Orderly, DisputeSound, Exists
<1>13. ASSUME NEW c \in Milestones PROVE MilestoneSound(c)'
  <2>1. /\ RoundsSound(c) /\ DisputedSound(c) /\ RefundSound(c)
        /\ chain[c].round \in 0..MaxRounds
    BY <1>3 DEF Orderly, MilestoneSound, Base, TypeOK
  <2>2. ASSUME NEW r \in 1..MaxRounds
        PROVE  verdict'[c][r] = "NONE" <=> \/ r > chain'[c].round
                                           \/ r = chain'[c].round /\ chain'[c].st = "DISPUTED"
    <3>1. verdict[c][r] = "NONE" <=> r > chain[c].round \/ (r = chain[c].round /\ chain[c].st = "DISPUTED")
      BY <2>1 DEF RoundsSound
    <3>2. CASE c = m /\ r = n
      BY <1>6, <1>7, <1>8, <3>2
    <3>3. CASE c = m /\ r # n
      BY <1>6, <1>7, <1>8, <3>1, <3>3
    <3>4. CASE c # m
      BY <1>7, <1>8, <3>1, <3>4
    <3> QED BY <3>2, <3>3, <3>4
  <2>3. ASSUME NEW r \in 1..chain[c].round
        PROVE  Raised(c, r) \in events' \/ \E x \in RowsOf(c) : dispute[x].round = r
    BY <1>5, <2>1 DEF RoundsSound
  <2>4. RoundsSound(c)'
    BY <1>1, <1>7, <1>9, <2>2, <2>3 DEF RoundsSound, Raised
  <2>5. DisputedSound(c)'
    BY <1>1, <1>9, <2>1 DEF DisputedSound, Opening
  <2>6. RefundSound(c)'
    <3> SUFFICES ASSUME refund[c]
                 PROVE  \/ \E r \in 1..chain[c].round : verdict'[c][r] = "REFUND"
                        \/ \E x \in RowsOf(c) : dispute[x].round = chain[c].round /\ RefundRuled(x)
      BY <1>1, <1>7, <1>9 DEF RefundSound, RefundRuled
    <3>1. CASE \E r \in 1..chain[c].round : verdict[c][r] = "REFUND"
      <4>1. PICK r \in 1..chain[c].round : verdict[c][r] = "REFUND"
        BY <3>1
      <4>2. verdict[m][n] = "NONE" /\ r \in 1..MaxRounds
        BY <1>3, <1>4, <1>6, <2>1 DEF VerdictOf
      <4> QED BY <1>8, <4>1, <4>2
    <3> QED BY <2>1, <3>1 DEF RefundSound
  <2> QED BY <2>4, <2>5, <2>6 DEF MilestoneSound
<1>14. ASSUME NEW e \in events' PROVE EventSound(e)'
  <2>1. CASE e = resolved
    <3>1. ASSUME NEW c \in RowsOf(m) PROVE dispute[c].round <= n
      <4>1. SettledSound(c) /\ dispute[c].milestone = m
        BY DEF RowsOf, Orderly, DisputeSound
      <4> QED BY <1>6, <4>1 DEF SettledSound
    <3> QED BY <1>1, <1>8, <1>9, <2>1, <3>1 DEF EventSound
  <2>2. CASE e # resolved
    <3>1. e \in events /\ EventSound(e) /\ e \in Event
      BY <1>3, <1>5, <2>2 DEF Orderly, Base, TypeOK
    <3>2. CASE e.kind = "dispute_raised"
      <4>1. e.m # m
        <5> SUFFICES ASSUME e.m = m PROVE FALSE
          OBVIOUS
        <5>1. e.round = n /\ \A v \in Workers : ~HandlesRaised(v, m)
          BY <1>3, <3>1, <3>2 DEF EventSound, Raised, HandlesRaised
        <5>2. d \in RowsOf(m)
          BY <1>3 DEF RowsOf
        <5> QED BY <1>4, <1>6, <3>1, <3>2, <5>1, <5>2 DEF EventSound
      <4>2. e.m \in Milestones /\ chain'[e.m] = chain[e.m]
        BY <1>7, <3>1, <4>1 DEF Event
      <4> QED BY <1>1, <1>9, <3>1, <3>2, <4>2 DEF EventSound, Raised, HandlesRaised
    <3>3. CASE e.kind # "dispute_raised"
      <4>1. e.m \in Milestones /\ e.round \in 1..MaxRounds /\ verdict[e.m][e.round] # "NONE"
        BY <3>1, <3>3 DEF EventSound, Event
      <4>2. verdict'[e.m][e.round] = verdict[e.m][e.round]
        BY <1>3, <1>4, <1>8, <4>1 DEF VerdictOf
      <4> QED BY <1>1, <1>9, <3>1, <3>3, <4>2 DEF EventSound
    <3> QED BY <3>2, <3>3
  <2> QED BY <2>1, <2>2
<1>15. HandlerSound(w)'
  BY <1>1, <1>2, <1>3, <1>10
  DEF HandlerSound, KindSound, OpeningSound, DecidingSound, SettlingSound, PayingLabels, EventLabels
<1>16. OneRowEach'
  BY <1>1 DEF Orderly, OneRowEach, Exists
<1> QED BY <1>12, <1>13, <1>14, <1>15, <1>16 DEF Orderly

\* A party raises a dispute: everything earlier on the milestone is settled.
LEMMA RaiseOnChainSound ==
    ASSUME Orderly, IInv', NEW m \in Milestones, RaiseOnChain(m)
    PROVE  Orderly'
<1> DEFINE n == chain[m].round
<1>1. /\ chain[m].st = "OPEN" /\ n < MaxRounds
      /\ chain' = [chain EXCEPT ![m] = [st |-> "DISPUTED", round |-> n + 1]]
      /\ events' = events \cup {Raised(m, n + 1)}
      /\ UNCHANGED <<dispute, appeal, payout, msStatus, refund, verdict, tx, req, now>>
  BY DEF RaiseOnChain, Raised, rows
<1>2. Base /\ n \in Nat /\ MaxRounds \in Nat
  BY BoundsAssumption DEF Orderly, IInv, Base, TypeOK
<1>3. chain'[m].st = "DISPUTED" /\ chain'[m].round = n + 1 /\ \A c \in Milestones \ {m} : chain'[c] = chain[c]
  BY <1>1, <1>2 DEF Base, TypeOK
<1>4. \A c : RowsOf(c)' = RowsOf(c)
  BY <1>1 DEF RowsOf, Exists
<1>5. ASSUME NEW d \in DisputeIds, Exists(d) PROVE DisputeSound(d)'
  <2>1. /\ StageSound(d) /\ ArbiterSound(d) /\ SettledSound(d) /\ dispute[d].milestone \in Milestones
    BY <1>2, <1>5 DEF Orderly, DisputeSound, RowOK, Base
  <2>2. StageSound(d)' /\ ArbiterSound(d)'
    BY <1>1, <2>1 DEF StageSound, ArbiterSound, AppealOver
  <2>3. dispute[d].round \in 1..chain'[dispute[d].milestone].round
    <3>1. CASE dispute[d].milestone = m
      BY <1>2, <1>3, <2>1, <3>1 DEF SettledSound
    <3>2. CASE dispute[d].milestone # m
      BY <1>3, <2>1, <3>2 DEF SettledSound
    <3> QED BY <3>1, <3>2
  <2>4. \A v \in Workers : /\ Landed(v, d)' <=> Landed(v, d)
                           /\ Settling(v, d)' <=> Settling(v, d)
    BY <1>1 DEF Landed, Settling
  <2>5. VerdictOf(d)' = VerdictOf(d)
    BY <1>1 DEF VerdictOf
  <2>6. SettledSound(d)'
    BY <1>1, <2>1, <2>3, <2>4, <2>5 DEF SettledSound
  <2> QED BY <1>1, <1>5, <2>2, <2>6 DEF DisputeSound, Exists
<1>6. \A d \in DisputeIds : DisputeSound(d)'
  BY <1>1, <1>5 DEF Orderly, DisputeSound, Exists
<1>7. ASSUME NEW c \in Milestones PROVE MilestoneSound(c)'
  <2>1. RoundsSound(c) /\ DisputedSound(c) /\ RefundSound(c) /\ chain[c].round \in 0..MaxRounds
    BY <1>2 DEF Orderly, MilestoneSound, Base, TypeOK
  <2>2. DisputedSound(c)'
    BY <1>1, <1>4, <2>1 DEF DisputedSound, Opening
  <2>3. CASE c # m
    <3>1. chain'[c] = chain[c]
      BY <1>3, <2>3
    <3>2. RoundsSound(c)'
      <4>1. ASSUME NEW r \in 1..chain[c].round
            PROVE  Raised(c, r) \in events' \/ \E x \in RowsOf(c) : dispute[x].round = r
        BY <1>1, <2>1 DEF RoundsSound
      <4> QED BY <1>1, <1>4, <2>1, <3>1, <4>1 DEF RoundsSound, Raised
    <3>3. RefundSound(c)'
      BY <1>1, <1>4, <2>1, <3>1 DEF RefundSound, RefundRuled
    <3> QED BY <2>2, <3>2, <3>3 DEF MilestoneSound
  <2>4. CASE c = m
    <3>1. ASSUME NEW r \in 1..MaxRounds
          PROVE  verdict[m][r] = "NONE" <=> r > n + 1 \/ (r = n + 1 /\ chain'[m].st = "DISPUTED")
      BY <1>1, <1>2, <1>3, <2>1, <2>4 DEF RoundsSound
    <3>2. ASSUME NEW r \in 1..n + 1
          PROVE  Raised(m, r) \in events' \/ \E x \in RowsOf(m) : dispute[x].round = r
      <4>1. CASE r = n + 1
        BY <1>1, <4>1
      <4>2. CASE r # n + 1
        <5>1. r \in 1..chain[m].round
          BY <1>2, <4>2
        <5> QED BY <1>1, <2>1, <2>4, <5>1 DEF RoundsSound
      <4> QED BY <4>1, <4>2
    <3>3. RoundsSound(m)'
      BY <1>1, <1>3, <1>4, <3>1, <3>2 DEF RoundsSound, Raised
    <3>4. RefundSound(m)'
      <4> SUFFICES ASSUME refund[m] PROVE \E r \in 1..n + 1 : verdict[m][r] = "REFUND"
        BY <1>1, <1>3 DEF RefundSound
      <4>1. CASE \E r \in 1..chain[m].round : verdict[m][r] = "REFUND"
        BY <1>2, <4>1
      <4>2. CASE \E x \in RowsOf(m) : dispute[x].round = chain[m].round /\ RefundRuled(x)
        <5>1. PICK x \in RowsOf(m) : dispute[x].round = n /\ RefundRuled(x)
          BY <4>2
        <5>2. x \in DisputeIds /\ Exists(x) /\ dispute[x].milestone = m /\ SettledSound(x)
          BY DEF RowsOf, Orderly, DisputeSound
        <5>3. VerdictOf(x) # "NONE"
          BY <1>1, <5>2, LatestRound
        <5>4. verdict[m][n] = "REFUND" /\ n \in 1..n + 1
          BY <1>2, <5>1, <5>2, <5>3 DEF SettledSound, VerdictOf, RefundRuled
        <5> QED BY <5>4
      <4> QED BY <2>1, <2>4, <4>1, <4>2 DEF RefundSound
    <3> QED BY <2>2, <2>4, <3>3, <3>4 DEF MilestoneSound
  <2> QED BY <2>3, <2>4
<1>8. ASSUME NEW e \in events' PROVE EventSound(e)'
  <2>1. CASE e = Raised(m, n + 1)
    <3>1. ASSUME NEW c \in RowsOf(m) PROVE dispute[c].round < n + 1
      <4>1. SettledSound(c) /\ dispute[c].milestone = m
        BY DEF RowsOf, Orderly, DisputeSound
      <4> QED BY <1>2, <4>1 DEF SettledSound
    <3>2. e.kind = "dispute_raised" /\ e.m = m /\ e.round = n + 1
      BY <2>1 DEF Raised
    <3> QED BY <1>1, <1>3, <1>4, <2>1, <3>1, <3>2 DEF EventSound, Raised
  <2>2. CASE e # Raised(m, n + 1)
    <3>1. e \in events /\ EventSound(e) /\ e.m \in Milestones
      BY <1>1, <1>2, <2>2 DEF Orderly, Base, TypeOK, Event
    <3>2. CASE e.kind = "dispute_raised"
      <4>1. chain'[e.m] = chain[e.m]
        BY <1>1, <1>3, <3>1, <3>2 DEF EventSound
      <4> QED BY <1>1, <1>4, <3>1, <3>2, <4>1 DEF EventSound, Raised, HandlesRaised
    <3>3. CASE e.kind # "dispute_raised"
      BY <1>1, <1>4, <3>1, <3>3 DEF EventSound
    <3> QED BY <3>2, <3>3
  <2> QED BY <2>1, <2>2
<1>9. ASSUME NEW w \in Workers PROVE HandlerSound(w)'
  <2>1. KindSound(w) /\ OpeningSound(w) /\ DecidingSound(w) /\ SettlingSound(w)
    BY DEF Orderly, HandlerSound
  <2>2. EventOf(w)' = EventOf(w)
    BY <1>1 DEF EventOf
  <2>3. KindSound(w)'
    BY <1>1, <2>1, <2>2 DEF KindSound
  <2>4. OpeningSound(w)'
    <3>1. ASSUME req[w].pc \in {"open", "create"}
          PROVE  /\ req[w].round = chain'[req[w].m].round /\ chain'[req[w].m].st = "DISPUTED"
                 /\ \A f \in events' : f.m = req[w].m => f = EventOf(w)
      <4>1. /\ req[w].round = chain[req[w].m].round /\ chain[req[w].m].st = "DISPUTED"
            /\ \A f \in events : f.m = req[w].m => f = EventOf(w)
        BY <2>1, <3>1 DEF OpeningSound
      <4>2. req[w].m \in Milestones /\ req[w].m # m
        BY <1>1, <1>2, <3>1, <4>1, HandlerFacts DEF LocalOK
      <4> QED BY <1>1, <1>3, <4>1, <4>2 DEF Raised
    <3> QED BY <1>1, <1>4, <2>1, <2>2, <3>1 DEF OpeningSound
  <2>5. DecidingSound(w)' /\ SettlingSound(w)'
    BY <1>1, <2>1 DEF DecidingSound, SettlingSound, NotClosed, Exists
  <2> QED BY <2>3, <2>4, <2>5 DEF HandlerSound
<1>10. OneRowEach'
  BY <1>1 DEF Orderly, OneRowEach, Exists
<1> QED BY <1>6, <1>7, <1>8, <1>9, <1>10 DEF Orderly

\* Time passes, or nothing happens.
LEMMA ClockSound ==
    ASSUME Orderly, IInv', OneAtATime, Tick \/ UNCHANGED vars
    PROVE  Orderly'
<1>1. /\ UNCHANGED <<dispute, appeal, payout, msStatus, refund, chain, verdict, tx, events, req>>
      /\ now' >= now
  BY DEF Tick, vars, rows, onChain, Orderly, IInv, Base, TypeOK
<1>2. \E w : \A v \in Workers : v = w
  BY DEF OneAtATime
<1>3. PICK w : \A v \in Workers : v = w
  BY <1>2
<1>4. \A d \in DisputeIds : RowKept(d) /\ Untouched(w, d)
  BY <1>1 DEF RowKept, RefundRuled, Exists, Untouched, Landed, Settling
<1>5. \A m : RowsOf(m)' = RowsOf(m)
  BY <1>1 DEF RowsOf, Exists
<1>6. \A m \in Milestones : DisputedSound(m)'
  BY <1>1, <1>5 DEF Orderly, MilestoneSound, DisputedSound, Opening
<1>7. ASSUME NEW v \in Workers PROVE HandlerSound(v)'
  <2>1. KindSound(v) /\ OpeningSound(v) /\ DecidingSound(v) /\ SettlingSound(v)
    BY DEF Orderly, HandlerSound
  <2>2. EventOf(v)' = EventOf(v)
    BY <1>1 DEF EventOf
  <2>3. KindSound(v)' /\ OpeningSound(v)'
    BY <1>1, <1>5, <2>1, <2>2 DEF KindSound, OpeningSound
  <2>4. DecidingSound(v)' /\ SettlingSound(v)'
    BY <1>1, <2>1 DEF DecidingSound, SettlingSound, NotClosed, Exists
  <2> QED BY <2>3, <2>4 DEF HandlerSound
<1>8. \A m : HandlesRaised(w, m) => HandlesRaised(w, m)'
  BY <1>1 DEF HandlesRaised
<1> QED BY <1>1, <1>3, <1>4, <1>6, <1>7, <1>8, StepSound

\* Every step preserves the invariant.
LEMMA OrderlyStep ==
    ASSUME OneAtATime PROVE Orderly /\ [Next]_vars => Orderly'
<1> SUFFICES ASSUME Orderly, [Next]_vars PROVE Orderly'
  OBVIOUS
<1>1. IInv'
  BY IInvStep DEF Orderly
<1>2. ASSUME NEW w \in Workers PROVE \A v \in Workers : v = w
  BY DEF OneAtATime
<1>3. ASSUME NEW w \in Workers, Continue(w) PROVE Orderly'
  <2>1. ~ConfirmTimeout(w)
    BY DEF ConfirmTimeout, Fault, OneAtATime
  <2>2. CASE OpenFind(w) \/ OpenCreate(w) \/ AutoAssignRead(w) \/ AutoAssignWrite(w) \/ AckEvent(w) \/ MarkSettledOnChain(w)
    BY <1>1, <1>2, <2>2, OpenFindSound, OpenCreateSound, AutoAssignSound, AckEventSound, MarkSettledSound
  <2>3. CASE RecordDecision(w) \/ DecideWrite(w) \/ OpenAppealWrite(w) \/ DecideAppealWrite(w) \/ FinalizeWrite(w)
    BY <1>1, <1>2, <2>3, RecordDecisionSound, DecideWriteSound, OpenAppealWriteSound, DecideAppealWriteSound, FinalizeWriteSound
  <2>4. CASE SettleClaim(w) \/ SettleLoad(w) \/ SettleRollback(w) \/ MarkMilestone(w) \/ SettleRelease(w) \/ RecordArbiterPayout(w)
    BY <1>1, <1>2, <2>4, SettleClaimSound, SettleLoadSound, SettleRollbackSound, MarkMilestoneSound, SettleReleaseSound, RecordArbiterPayoutSound
  <2>5. CASE ResolveMilestoneDispute(w) \/ SubmitFails(w) \/ ConfirmOk(w) \/ ConfirmFailed(w)
    BY <1>1, <2>5, SubmitSound
  <2> QED BY <1>3, <2>1, <2>2, <2>3, <2>4, <2>5 DEF Continue
<1>4. ASSUME NEW w \in Workers, Network(w) PROVE Orderly'
  BY <1>1, <1>2, <1>4, LandTxSound, FailTxSound DEF Network
<1>5. ASSUME NEW w \in Workers, (\E e \in events : HandleEvent(w, e)) \/ Call(w) \/ \E d \in DisputeIds : FinalizeRead(w, d)
      PROVE  Orderly'
  BY <1>1, <1>2, <1>5, HandleEventSound, RequestsSound
<1>6. \A w \in Workers : ~Crash(w)
  BY DEF Crash, Fault, OneAtATime
<1>7. \A m, o : ~ResolveOnChain(m, o)
  BY DEF ResolveOnChain, OneAtATime
<1> QED BY <1>1, <1>3, <1>4, <1>5, <1>6, <1>7, RaiseOnChainSound, ClockSound DEF Next

\* The invariant, for every behaviour with one handler at a time.
LEMMA OrderlyAlways == ASSUME OneAtATime PROVE Spec => []Orderly
<1>1. Orderly /\ [Next]_vars => Orderly'
  BY OrderlyStep
<1> QED BY <1>1, OrderlyInit, PTL DEF Spec

\* Tracked disputes wait (resolveDisputeFlow, decide, finalizeExpiredAppealWindows,
\* settle): with one handler at a time the contract settles a dispute that has a row
\* only after it was decided and its time to appeal was over.
THEOREM DisputesWait == ASSUME OneAtATime PROVE Spec => []TrackedFundsWait
<1>1. Orderly => TrackedFundsWait
  <2> SUFFICES ASSUME Orderly, NEW d \in DisputeIds, Exists(d), VerdictOf(d) # "NONE"
               PROVE  dispute[d].outcome # "NONE" /\ AppealOver(d)
    BY DEF TrackedFundsWait
  <2>1. StageSound(d) /\ SettledSound(d)
    BY DEF Orderly, DisputeSound
  <2> QED BY <2>1 DEF StageSound, SettledSound
<1> QED BY <1>1, OrderlyAlways, PTL

\* settle executes on chain what the row says was decided, whichever of decide and
\* decideAppeal came last and after any number of failed attempts.
THEOREM OutcomeExecuted == ASSUME OneAtATime PROVE Spec => []OutcomeAgrees
<1>1. Orderly => OutcomeAgrees
  <2> SUFFICES ASSUME Orderly, NEW d \in DisputeIds, dispute[d].released
               PROVE  dispute[d].outcome \in {"NONE", VerdictOf(d)}
    BY DEF OutcomeAgrees
  <2>1. SettledSound(d)
    BY DEF Orderly, DisputeSound
  <2> QED BY <2>1 DEF SettledSound
<1> QED BY <1>1, OrderlyAlways, PTL

\* While openAppeal waits for decideAppeal no settlement of the dispute is under way.
THEOREM AppealHolds == ASSUME OneAtATime PROVE Spec => []AppealHoldsFunds
<1>1. Orderly => AppealHoldsFunds
  <2> SUFFICES ASSUME Orderly, NEW d \in DisputeIds, NEW w \in Workers, appeal[d] = "OPEN", Settling(w, d)
               PROVE  FALSE
    BY DEF AppealHoldsFunds
  <2>1. StageSound(d)
    BY DEF Orderly, DisputeSound, IInv, DisputeInv, AppealInv
  <2>2. dispute[d].status = "CLOSED"
    BY DEF Orderly, HandlerSound, SettlingSound, Settling
  <2> QED BY <2>1, <2>2 DEF StageSound, Active
<1> QED BY <1>1, OrderlyAlways, PTL

\* openForMilestone gives every dispute raised on chain a row of its own, or its
\* event still waits to be handled.
THEOREM RoundsTracked == ASSUME OneAtATime PROVE Spec => []EveryRoundTracked
<1>1. Orderly => EveryRoundTracked
  <2> SUFFICES ASSUME Orderly, NEW m \in Milestones, NEW r \in 1..chain[m].round
               PROVE  \/ Raised(m, r) \in events
                      \/ \E d \in DisputeIds : dispute[d].milestone = m /\ dispute[d].round = r
    BY DEF EveryRoundTracked, Raised
  <2>1. RoundsSound(m)
    BY DEF Orderly, MilestoneSound
  <2> QED BY <2>1 DEF RoundsSound, RowsOf
<1> QED BY <1>1, OrderlyAlways, PTL

\* openAppeal excludes the arbiter the dispute names: neither that arbiter nor the
\* administrator who decided for it hears the appeal, whatever the candidates are by then.
THEOREM AppealElsewhere == ASSUME OneAtATime PROVE Spec => []AssignedNeverHears
<1>1. Orderly => AssignedNeverHears
  <2> SUFFICES ASSUME Orderly, NEW d \in DisputeIds, appeal[d] = "OPEN", dispute[d].assigned # NoOne
               PROVE  dispute[d].arbiter = NoOne \/ dispute[d].arbiter \notin {dispute[d].assigned, dispute[d].decider}
    BY DEF AssignedNeverHears
  <2>1. ArbiterSound(d)
    BY DEF Orderly, DisputeSound, IInv, DisputeInv, AppealInv
  <2> QED BY <2>1 DEF ArbiterSound
<1> QED BY <1>1, OrderlyAlways, PTL

\* A Refund row of a milestone that was paid out stands for an earlier refund of it:
\* the row settle records before paying is never left behind by a payment.
THEOREM RefundsReal == ASSUME OneAtATime PROVE Spec => []RefundOnlyIfRefunded
<1>1. Orderly => RefundOnlyIfRefunded
  <2> SUFFICES ASSUME Orderly, NEW m \in Milestones, chain[m].st = "PAID", refund[m]
               PROVE  \E r \in 1..chain[m].round : verdict[m][r] = "REFUND"
    BY DEF RefundOnlyIfRefunded
  <2>1. RefundSound(m)
    BY DEF Orderly, MilestoneSound
  <2>2. CASE \E d \in RowsOf(m) : dispute[d].round = chain[m].round /\ RefundRuled(d)
    <3>1. PICK d \in RowsOf(m) : dispute[d].round = chain[m].round /\ RefundRuled(d)
      BY <2>2
    <3>2. d \in DisputeIds /\ Exists(d) /\ dispute[d].milestone = m /\ SettledSound(d)
      BY DEF RowsOf, Orderly, DisputeSound
    <3>3. VerdictOf(d) # "NONE"
      BY <3>2, LatestRound
    <3>4. verdict[m][chain[m].round] = "REFUND" /\ chain[m].round \in 1..chain[m].round
      BY <3>1, <3>2, <3>3 DEF SettledSound, VerdictOf, RefundRuled
    <3> QED BY <3>4
  <2> QED BY <2>1, <2>2 DEF RefundSound
<1> QED BY <1>1, OrderlyAlways, PTL

-----------------------------------------------------------------------------
(* Any number of handlers, any faults: a failure costs one arbiter's fee at most. *)

\* Only settle makes a fee owed, when it releases a dispute that names an arbiter.
LEMMA OwedByRelease ==
    ASSUME Base, [Next]_vars, NEW d \in DisputeIds, dispute'[d].owed
    PROVE  \/ dispute[d].owed
           \/ \E w \in Workers : SettleRelease(w) /\ req[w].d = d /\ req[w].a # NoOne
<1>1. dispute \in [DisputeIds -> DisputeRow] /\ dispute[d] \in DisputeRow
  BY DEF Base, TypeOK
<1>2. ASSUME NEW c, NEW row, Write(c, row), c = d => (row.owed => dispute[d].owed)
      PROVE  dispute[d].owed
  BY <1>1, <1>2 DEF Write
<1>3. CASE Quiet
  BY <1>3 DEF Quiet
<1>4. ASSUME NEW w \in Workers, OpenCreate(w) PROVE dispute[d].owed
  <2> DEFINE row == [NoRow EXCEPT !.milestone = req[w].m,
                                  !.round = req[w].round, !.status = "OPEN"]
  <2>1. PICK c \in DisputeIds : Write(c, row)
    BY <1>4 DEF OpenCreate
  <2>2. ~row.owed
    BY DEF NoRow
  <2> QED BY <1>2, <2>1, <2>2
<1>5. ASSUME NEW w \in Workers, UNCHANGED dispute PROVE dispute[d].owed
  BY <1>5
<1>6. ASSUME NEW w \in Workers, AutoAssignWrite(w) PROVE dispute[d].owed
  <2> DEFINE row == [dispute[req[w].d] EXCEPT !.arbiter = req[w].a, !.status = "UNDER_REVIEW", !.stage = "ARBITER_REVIEW"]
  <2>1. UNCHANGED dispute \/ Write(req[w].d, row)
    BY <1>6 DEF AutoAssignWrite
  <2>2. req[w].d = d => row.owed = dispute[d].owed
    BY <1>1 DEF DisputeRow
  <2> QED BY <1>2, <1>5, <2>1, <2>2
<1>7. ASSUME NEW w \in Workers, DecideWrite(w) PROVE dispute[d].owed
  <2> DEFINE row == [dispute[req[w].d] EXCEPT
                        !.status = "RESOLVED", !.outcome = req[w].o,
                        !.decider = req[w].a, !.assigned = dispute[req[w].d].arbiter,
                        !.appealDeadline = now + AppealWindow,
                        !.fundsLocked = TRUE, !.isFinal = (AppealWindow = 0)]
  <2>1. UNCHANGED dispute \/ Write(req[w].d, row)
    BY <1>7 DEF DecideWrite
  <2>2. req[w].d = d => row.owed = dispute[d].owed
    BY <1>1 DEF DisputeRow
  <2> QED BY <1>2, <1>5, <2>1, <2>2
<1>8. ASSUME NEW w \in Workers, OpenAppealWrite(w) PROVE dispute[d].owed
  <2> DEFINE row == AppealedRow(dispute[req[w].d], req[w].a)
  <2>1. UNCHANGED dispute \/ Write(req[w].d, row)
    BY <1>8 DEF OpenAppealWrite
  <2>2. req[w].d = d => row.owed = dispute[d].owed
    BY <1>1 DEF DisputeRow, AppealedRow
  <2> QED BY <1>2, <1>5, <2>1, <2>2
<1>9. ASSUME NEW w \in Workers, DecideAppealWrite(w) PROVE dispute[d].owed
  <2> DEFINE row == [dispute[req[w].d] EXCEPT !.status = "RESOLVED", !.outcome = req[w].o,
                                              !.appealDeadline = now, !.isFinal = TRUE, !.decider = NoOne, !.assigned = NoOne]
  <2>1. UNCHANGED dispute \/ Write(req[w].d, row)
    BY <1>9 DEF DecideAppealWrite
  <2>2. req[w].d = d => row.owed = dispute[d].owed
    BY <1>1 DEF DisputeRow
  <2> QED BY <1>2, <1>5, <2>1, <2>2
<1>10. ASSUME NEW w \in Workers, FinalizeWrite(w) \/ SettleClaim(w) \/ SettleRollback(w)
       PROVE  dispute[d].owed
  <2> DEFINE final == [dispute[req[w].d] EXCEPT !.isFinal = TRUE, !.decider = NoOne, !.assigned = NoOne]
             claimed == ClaimedRow(dispute[req[w].d])
             undone == [dispute[req[w].d] EXCEPT !.status = "RESOLVED"]
  <2>1. UNCHANGED dispute \/ \E row \in {final, claimed, undone} : Write(req[w].d, row)
    BY <1>10 DEF FinalizeWrite, SettleClaim, SettleRollback
  <2>2. req[w].d = d => \A row \in {final, claimed, undone} : row.owed = dispute[d].owed
    <3>1. req[w].d = d => final.owed = dispute[d].owed
      BY <1>1 DEF DisputeRow
    <3>2. req[w].d = d => claimed.owed = dispute[d].owed /\ undone.owed = dispute[d].owed
      BY <1>1 DEF DisputeRow, ClaimedRow
    <3> HIDE DEF final, claimed, undone
    <3> QED BY <3>1, <3>2
  <2> QED BY <1>2, <1>5, <2>1, <2>2
<1>11. ASSUME NEW w \in Workers, MarkSettledOnChain(w) PROVE dispute[d].owed
  BY <1>1, <1>11 DEF MarkSettledOnChain, DisputeRow
<1>12. ASSUME NEW w \in Workers, SettleRelease(w)
       PROVE  dispute[d].owed \/ (req[w].d = d /\ req[w].a # NoOne)
  <2> DEFINE row == [dispute[req[w].d] EXCEPT !.fundsLocked = FALSE, !.released = TRUE,
                                              !.owed = @ \/ req[w].a # NoOne,
                                              !.decider = NoOne, !.assigned = NoOne]
  <2>1. Write(req[w].d, row)
    BY <1>12 DEF SettleRelease
  <2>2. req[w].d = d => (row.owed <=> (dispute[d].owed \/ req[w].a # NoOne))
    BY <1>1 DEF DisputeRow
  <2> QED BY <1>2, <2>1, <2>2
<1> QED BY <1>3, <1>4, <1>6, <1>7, <1>8, <1>9, <1>10, <1>11, <1>12, StepCases DEF Writer

\* No step but recordArbiterPayout and a crash takes a handler away from its payout.
LEMMA PayoutAwaited ==
    ASSUME Base, [Next]_vars
    PROVE  \/ \E w \in Workers : RecordArbiterPayout(w) \/ Crash(w)
           \/ /\ payout' = payout /\ faults' \in {faults, faults + 1}
              /\ \A v \in Workers : req'[v] = req[v] \/ ~At(v, "payout")
<1> DEFINE Calm == /\ payout' = payout /\ faults' \in {faults, faults + 1}
                   /\ \A v \in Workers : req'[v] = req[v] \/ ~At(v, "payout")
<1>1. ASSUME NEW w \in Workers, NEW r, Become(w, r), ~At(w, "payout"), payout' = payout,
             faults' \in {faults, faults + 1}
      PROVE  Calm
  BY <1>1, BecomeEffect
<1>2. ASSUME NEW w \in Workers, NEW label, Done(w) \/ Goto(w, label), ~At(w, "payout"),
             payout' = payout, faults' \in {faults, faults + 1}
      PROVE  Calm
  BY <1>1, <1>2 DEF Done, Goto
<1>3. ASSUME UNCHANGED <<payout, req>>, faults' \in {faults, faults + 1} PROVE Calm
  BY <1>3
<1> HIDE DEF Calm
<1>4. ASSUME NEW w \in Workers, NEW e \in events, HandleEvent(w, e) PROVE Calm
  BY <1>1, <1>4 DEF HandleEvent, HandleDisputeRaised, HandleDisputeResolved, Begin, Fault, At
<1>5. ASSUME NEW w \in Workers, NEW d \in DisputeIds, FinalizeRead(w, d) PROVE Calm
  BY <1>1, <1>5 DEF FinalizeRead, Begin, At, rows
<1>6. ASSUME NEW w \in Workers, Call(w) PROVE Calm
  <2>1. ASSUME NEW d, NEW a, NEW o, DecideRead(w, d, a, o) \/ DecideAppealRead(w, d, a, o) PROVE Calm
    BY <1>1, <2>1 DEF DecideRead, DecideAppealRead, Begin, At, rows
  <2>2. ASSUME NEW m, NEW a, NEW o, ResolveDisputeFlow(w, m, a, o) PROVE Calm
    BY <1>1, <2>2 DEF ResolveDisputeFlow, Begin, At, rows
  <2>3. ASSUME NEW d, OpenAppealRead(w, d) PROVE Calm
    BY <1>1, <2>3 DEF OpenAppealRead, Begin, At, rows
  <2> QED BY <1>6, <2>1, <2>2, <2>3 DEF Call
<1>7. ASSUME NEW w \in Workers, OpenFind(w) \/ AutoAssignRead(w) \/ AutoAssignWrite(w) PROVE Calm
  BY <1>1, <1>2, <1>7 DEF OpenFind, AutoAssignRead, AutoAssignWrite, At, rows
<1>8. ASSUME NEW w \in Workers, OpenCreate(w) \/ RecordDecision(w) PROVE Calm
  BY <1>1, <1>2, <1>8 DEF OpenCreate, RecordDecision, At
<1>9. ASSUME NEW w \in Workers,
             DecideWrite(w) \/ OpenAppealWrite(w) \/ DecideAppealWrite(w) \/ FinalizeWrite(w)
      PROVE  Calm
  BY <1>2, <1>9 DEF DecideWrite, OpenAppealWrite, DecideAppealWrite, FinalizeWrite, At
<1>10. ASSUME NEW w \in Workers,
              SettleClaim(w) \/ SettleRollback(w) \/ SettleRelease(w) \/ MarkMilestone(w)
       PROVE  Calm
  BY <1>2, <1>10 DEF SettleClaim, SettleRollback, SettleRelease, MarkMilestone, At
<1>11. ASSUME NEW w \in Workers, SettleLoad(w) PROVE Calm
  BY <1>1, <1>11 DEF SettleLoad, At
<1>12. ASSUME NEW w \in Workers, ResolveMilestoneDispute(w) \/ ConfirmOk(w) \/ ConfirmFailed(w)
       PROVE  Calm
  BY <1>2, <1>12 DEF ResolveMilestoneDispute, ConfirmOk, ConfirmFailed, Catch, At, rows
<1>13. ASSUME NEW w \in Workers, SubmitFails(w) \/ ConfirmTimeout(w) PROVE Calm
  BY <1>2, <1>13 DEF SubmitFails, ConfirmTimeout, Catch, Fault, At, rows
<1>14. ASSUME NEW w \in Workers, MarkSettledOnChain(w) \/ AckEvent(w) PROVE Calm
  BY <1>2, <1>14 DEF MarkSettledOnChain, AckEvent, Fault, At, rows
<1>15. ASSUME NEW w \in Workers, Network(w) PROVE Calm
  BY <1>3, <1>15 DEF Network, LandTx, FailTx, Fault, rows
<1>16. ASSUME NEW m \in Milestones, RaiseOnChain(m) \/ \E o \in Outcomes : ResolveOnChain(m, o)
       PROVE  Calm
  BY <1>3, <1>16 DEF RaiseOnChain, ResolveOnChain, rows
<1>17. ASSUME Tick \/ UNCHANGED vars PROVE Calm
  BY <1>3, <1>17 DEF Tick, vars, rows
<1>18. ASSUME NEW w \in Workers, Continue(w) PROVE Calm \/ RecordArbiterPayout(w)
  BY <1>7, <1>8, <1>9, <1>10, <1>11, <1>12, <1>13, <1>14, <1>18 DEF Continue
<1>19. Calm \/ \E w \in Workers : RecordArbiterPayout(w) \/ Crash(w)
  <2>1. ASSUME NEW w \in Workers,
               \/ \E e \in events : HandleEvent(w, e)
               \/ \E d \in DisputeIds : FinalizeRead(w, d)
               \/ Call(w) \/ Continue(w) \/ Network(w) \/ Crash(w)
        PROVE  Calm \/ \E v \in Workers : RecordArbiterPayout(v) \/ Crash(v)
    BY <1>4, <1>5, <1>6, <1>15, <1>18, <2>1
  <2>2. CASE \E m \in Milestones : RaiseOnChain(m) \/ \E o \in Outcomes : ResolveOnChain(m, o)
    BY <1>16, <2>2
  <2> QED BY <1>17, <2>1, <2>2 DEF Next
<1> QED BY <1>19 DEF Calm

\* The disputes a step leaves unpaid were so before, save that of a crashed handler.
LEMMA UnpaidStep ==
    ASSUME Base, [Next]_vars
    PROVE  \/ Unpaid' \subseteq Unpaid /\ faults' \in {faults, faults + 1}
           \/ \E w \in Workers : Unpaid' \subseteq Unpaid \cup {req[w].d} /\ faults' = faults + 1
<1> DEFINE Due(w, d) == At(w, "payout") /\ req[w].d = d /\ req[w].a # NoOne
<1>1. ASSUME NEW d \in Unpaid', payout'[d] = NoOne => payout[d] = NoOne,
             \A w \in Workers : Due(w, d) => Due(w, d)'
      PROVE  d \in Unpaid
  <2>1. /\ d \in DisputeIds /\ dispute'[d].owed /\ ArbiterFee > 0 /\ payout'[d] = NoOne
        /\ \A w \in Workers : ~Due(w, d)'
    BY DEF Unpaid
  <2>2. ASSUME NEW w \in Workers, SettleRelease(w), req[w].d = d, req[w].a # NoOne PROVE FALSE
    <3>1. ~At(w, "payout") /\ Goto(w, "payout")
      BY <2>2 DEF SettleRelease, At
    <3>2. req'[w] = [req[w] EXCEPT !.pc = "payout"]
      BY <3>1, BecomeEffect DEF Goto
    <3>3. Due(w, d)'
      BY <2>2, <3>2, HandlerFacts DEF At, Request
    <3> QED BY <2>1, <3>3
  <2>3. dispute[d].owed
    BY <2>1, <2>2, OwedByRelease
  <2> QED BY <1>1, <2>1, <2>3 DEF Unpaid
<1>2. ASSUME payout' = payout, faults' \in {faults, faults + 1},
             \A v \in Workers : req'[v] = req[v] \/ ~At(v, "payout")
      PROVE  Unpaid' \subseteq Unpaid
  BY <1>1, <1>2 DEF At
<1>3. ASSUME NEW w \in Workers, RecordArbiterPayout(w)
      PROVE  Unpaid' \subseteq Unpaid /\ faults' = faults
  <2> SUFFICES ASSUME NEW d \in Unpaid' PROVE d \in Unpaid
    BY <1>3 DEF RecordArbiterPayout
  <2>1. d \in DisputeIds /\ ArbiterFee > 0 /\ payout'[d] = NoOne /\ payout \in [DisputeIds -> Arbiters \cup {NoOne}]
    BY DEF Unpaid, Base, TypeOK
  <2>2. payout' = IF PayoutDue(req[w]) /\ payout[req[w].d] = NoOne
                  THEN [payout EXCEPT ![req[w].d] = req[w].a] ELSE payout
    BY <1>3 DEF RecordArbiterPayout
  <2>3. payout[d] = NoOne /\ ~Due(w, d)
    BY <2>1, <2>2 DEF PayoutDue
  <2>4. \A v \in Workers \ {w} : req'[v] = req[v]
    BY <1>3, BecomeEffect DEF RecordArbiterPayout, Done
  <2>5. \A v \in Workers : Due(v, d) => Due(v, d)'
    BY <2>3, <2>4 DEF At
  <2> QED BY <1>1, <2>3, <2>5
<1>4. ASSUME NEW w \in Workers, Crash(w)
      PROVE  Unpaid' \subseteq Unpaid \cup {req[w].d} /\ faults' = faults + 1
  <2>1. payout' = payout /\ faults' = faults + 1 /\ Done(w)
    BY <1>4 DEF Crash, Fault, rows
  <2>2. \A v \in Workers \ {w} : req'[v] = req[v]
    BY <2>1, BecomeEffect DEF Done
  <2>3. ASSUME NEW d \in Unpaid', d # req[w].d PROVE d \in Unpaid
    <3>1. \A v \in Workers : Due(v, d) => Due(v, d)'
      BY <2>2, <2>3 DEF At
    <3> QED BY <1>1, <2>1, <3>1
  <2> QED BY <2>1, <2>3
<1> QED BY <1>2, <1>3, <1>4, PayoutAwaited

\* Whatever crashes, times out, overlaps or is retried, the arbiters without their fee
\* are no more than the failures there were.
THEOREM ArbitersPaid == Spec => []FeesLostToFailures
<1>1. IsFiniteSet(DisputeIds) /\ Unpaid \subseteq DisputeIds
  BY FS_Interval, BoundsAssumption DEF DisputeIds, Unpaid
<1>2. IsFiniteSet(Unpaid)
  BY <1>1, FS_Subset
<1>3. ASSUME Init PROVE FeesLostToFailures
  <2>1. Unpaid = {}
    BY <1>3 DEF Init, Unpaid, NoRow
  <2> QED BY <1>3, <2>1, FS_EmptySet DEF FeesLostToFailures, Init
<1>4. ASSUME Base, FeesLostToFailures, [Next]_vars PROVE FeesLostToFailures'
  <2> DEFINE Bound(T, n) == Cardinality(T) <= n
  <2>0. PICK S : S = Unpaid
    OBVIOUS
  <2>1. PICK n \in Nat : S = Unpaid /\ n = faults
    BY <1>4, <2>0 DEF Base, TypeOK
  <2>2. IsFiniteSet(S) /\ Cardinality(S) <= n /\ Cardinality(S) \in Nat
    BY <1>2, <1>4, <2>1, FS_CardinalityType DEF FeesLostToFailures
  <2>3. \/ Unpaid' \subseteq S /\ faults' \in {n, n + 1}
        \/ \E x : Unpaid' \subseteq S \cup {x} /\ faults' = n + 1
    BY <1>4, <2>1, UnpaidStep
  <2>4. ASSUME NEW T \in SUBSET S PROVE Cardinality(T) <= n /\ Cardinality(T) \in Nat
    <3>1. Cardinality(T) <= Cardinality(S) /\ Cardinality(T) \in Nat
      BY <2>2, FS_Subset, FS_CardinalityType
    <3> QED BY <2>2, <3>1
  <2>5. ASSUME NEW x, NEW T \in SUBSET (S \cup {x}) PROVE Cardinality(T) <= n + 1
    <3>1. IsFiniteSet(S \cup {x}) /\ Cardinality(S \cup {x}) <= Cardinality(S) + 1
      <4>1. /\ IsFiniteSet(S \cup {x})
            /\ Cardinality(S \cup {x}) = IF x \in S THEN Cardinality(S) ELSE Cardinality(S) + 1
        BY <2>2, FS_AddElement
      <4> QED BY <2>2, <4>1
    <3>2. Cardinality(T) <= Cardinality(S \cup {x}) /\ Cardinality(T) \in Nat /\ Cardinality(S \cup {x}) \in Nat
      BY <3>1, FS_Subset, FS_CardinalityType
    <3> QED BY <2>2, <3>1, <3>2
  <2>6. Cardinality(Unpaid') <= faults'
    <3>1. CASE Unpaid' \subseteq S /\ faults' \in {n, n + 1}
      BY <2>4, <3>1
    <3>2. CASE \E x : Unpaid' \subseteq S \cup {x} /\ faults' = n + 1
      BY <2>5, <3>2
    <3> QED BY <2>3, <3>1, <3>2
  <2> QED BY <2>6 DEF FeesLostToFailures
<1>5. Init => Base /\ FeesLostToFailures
  BY <1>3, BaseInit
<1>6. Base /\ FeesLostToFailures /\ [Next]_vars => (Base /\ FeesLostToFailures)'
  BY <1>4, BaseStep
<1> QED BY <1>5, <1>6, PTL DEF Spec

-----------------------------------------------------------------------------
(* Any number of handlers, any faults: nothing is booked before the contract   *)
(* has settled some dispute of the milestone.                                  *)

\* A row, a handler, a transaction and an event that claim a settlement.
RowBooked(d) ==
    Exists(d) => /\ dispute[d].round >= 1
                 /\ dispute[d].released \/ ~dispute[d].fundsLocked => Paid(dispute[d].milestone)
HandlerBooked(w) ==
    /\ req[w].pc \in {"mark", "release", "markSettled"} => Paid(req[w].m)
    /\ req[w].pc \in {"open", "create"} => req[w].round >= 1
    /\ req[w].pc \in {"record", "submit"} => req[w].o # "NONE"
    /\ req[w].pc = "confirm" => tx[w].m = req[w].m
TxBooked(w) == /\ tx[w].st # "none" => tx[w].o # "NONE"
               /\ tx[w].st = "ok" => Paid(tx[w].m)
EventBooked(e) == e.kind = "dispute_resolved" => Paid(e.m)

VerdictFirst ==
    /\ IInv
    /\ \A d \in DisputeIds : RowBooked(d)
    /\ \A w \in Workers : HandlerBooked(w) /\ TxBooked(w)
    /\ \A e \in events : EventBooked(e)

\* No dispute is booked at the start.
LEMMA VerdictFirstInit == Init => VerdictFirst
<1> SUFFICES ASSUME Init PROVE VerdictFirst
  OBVIOUS
<1>1. IInv
  BY IInvInit
<1> QED BY <1>1 DEF Init, VerdictFirst, RowBooked, Exists, NoRow, HandlerBooked, TxBooked, EventBooked, Idle, NoTx

\* A statement that books nothing on the row.
RowTame(d) ==
    Exists(d)' => /\ Exists(d)
                  /\ dispute'[d].milestone = dispute[d].milestone /\ dispute'[d].round = dispute[d].round
                  /\ dispute'[d].released => dispute[d].released
                  /\ dispute[d].fundsLocked => dispute'[d].fundsLocked

\* A step of one handler.
LEMMA HandlerStepBooked ==
    ASSUME VerdictFirst, IInv', NEW w \in Workers, NEW r, Become(w, r),
           verdict' = verdict, events' \subseteq events,
           \A v \in Workers \ {w} : tx'[v] = tx[v], TxBooked(w)', HandlerBooked(w)',
           \A d \in DisputeIds : RowTame(d) \/ RowBooked(d)'
    PROVE  VerdictFirst'
<1>1. \A v \in Workers \ {w} : req'[v] = req[v]
  BY BecomeEffect DEF VerdictFirst, IInv
<1>2. \A m : Paid(m)' <=> Paid(m)
  BY DEF Paid
<1>3. \A d \in DisputeIds : RowBooked(d)'
  BY <1>2 DEF VerdictFirst, RowBooked, RowTame
<1>4. \A v \in Workers : HandlerBooked(v)' /\ TxBooked(v)'
  BY <1>1, <1>2 DEF VerdictFirst, HandlerBooked, TxBooked
<1>5. \A e \in events' : EventBooked(e)'
  BY <1>2 DEF VerdictFirst, EventBooked
<1> QED BY <1>3, <1>4, <1>5 DEF VerdictFirst

\* The labels at which a handler claims nothing.
Modest == Labels \ {"mark", "release", "markSettled", "open", "create", "record", "submit", "confirm"}

\* The steps that take a handler to a label at which it claims nothing.
LEMMA ModestStep ==
    ASSUME VerdictFirst, IInv', NEW w \in Workers, NEW r, Become(w, r), r.pc \in Modest,
           verdict' = verdict, events' \subseteq events,
           tx' = tx \/ tx' = [tx EXCEPT ![w] = NoTx],
           \A d \in DisputeIds : RowTame(d) \/ RowBooked(d)'
    PROVE  VerdictFirst'
<1>1. req'[w] = r
  BY BecomeEffect DEF VerdictFirst, IInv
<1>2. HandlerBooked(w)'
  BY <1>1 DEF HandlerBooked, Modest
<1>3. (\A v \in Workers \ {w} : tx'[v] = tx[v]) /\ (tx'[w] = tx[w] \/ tx'[w] = NoTx)
  BY DEF VerdictFirst, IInv, Base, TypeOK
<1>4. TxBooked(w)'
  BY <1>3 DEF VerdictFirst, TxBooked, NoTx, Paid
<1> QED BY <1>2, <1>3, <1>4, HandlerStepBooked

\* The same, of a handler that ends or goes on at another label.
LEMMA ModestEnd ==
    ASSUME VerdictFirst, IInv', NEW w \in Workers, NEW label \in Modest, Done(w) \/ Goto(w, label),
           verdict' = verdict, events' \subseteq events,
           tx' = tx \/ tx' = [tx EXCEPT ![w] = NoTx],
           \A d \in DisputeIds : RowTame(d) \/ RowBooked(d)'
    PROVE  VerdictFirst'
<1>1. Idle.pc \in Modest /\ [req[w] EXCEPT !.pc = label].pc = label
  BY DEF Idle, Modest, Labels, VerdictFirst, IInv, Base, TypeOK, Request
<1> QED BY <1>1, ModestStep DEF Done, Goto

\* A statement on the handler's own row.
LEMMA OwnRowBooked ==
    ASSUME VerdictFirst, NEW w \in Workers, req[w].d # NoDispute, NEW row, Write(req[w].d, row)
    PROVE  /\ \A c \in DisputeIds \ {req[w].d} : RowTame(c)
           /\ req[w].d \in DisputeIds /\ Exists(req[w].d) /\ dispute[req[w].d] \in DisputeRow
           /\ dispute'[req[w].d] = row /\ dispute[req[w].d].milestone = req[w].m
<1>1. Base
  BY DEF VerdictFirst, IInv
<1>2. /\ req[w].d \in DisputeIds /\ Exists(req[w].d) /\ dispute[req[w].d] \in DisputeRow
      /\ dispute[req[w].d].milestone = req[w].m
  BY <1>1, HandlerFacts
<1>3. dispute'[req[w].d] = row /\ \A c \in DisputeIds \ {req[w].d} : dispute'[c] = dispute[c]
  BY <1>1, <1>2 DEF Write, Base, TypeOK
<1> QED BY <1>2, <1>3 DEF RowTame, Exists

\* The statements that write the row of an open or claimed dispute.
LEMMA TameWrites ==
    ASSUME VerdictFirst, IInv', NEW w \in Workers,
           \/ AutoAssignWrite(w) \/ DecideWrite(w) \/ OpenAppealWrite(w) \/ DecideAppealWrite(w)
           \/ FinalizeWrite(w) \/ SettleClaim(w) \/ SettleRollback(w)
    PROVE  VerdictFirst'
<1> SUFFICES ASSUME NEW d, d = req[w].d PROVE VerdictFirst'
  OBVIOUS
<1>1. /\ d # NoDispute /\ UNCHANGED onChain
  BY HandlerFacts DEF VerdictFirst, IInv, LocalOK, DisputeLabels, At, AutoAssignWrite, DecideWrite, OpenAppealWrite,
     DecideAppealWrite, FinalizeWrite, SettleClaim, SettleRollback
<1>2. verdict' = verdict /\ events' \subseteq events /\ tx' = tx
  BY <1>1 DEF onChain
<1>3. \E label \in {"ack", "claim", "load"} : Done(w) \/ Goto(w, label)
  BY DEF AutoAssignWrite, DecideWrite, OpenAppealWrite, DecideAppealWrite, FinalizeWrite, SettleClaim, SettleRollback
<1>4. PICK label \in Modest : Done(w) \/ Goto(w, label)
  BY <1>3 DEF Modest, Labels
<1>5. d \in DisputeIds /\ dispute[d] \in DisputeRow
  BY <1>1, HandlerFacts DEF VerdictFirst, IInv
<1>6. UNCHANGED dispute \/ \E row : /\ Write(d, row) /\ row.milestone = dispute[d].milestone
                                    /\ row.round = dispute[d].round /\ row.released = dispute[d].released
                                    /\ dispute[d].fundsLocked => row.fundsLocked
  <2>1. CASE AutoAssignWrite(w)
    <3> DEFINE row == [dispute[d] EXCEPT !.arbiter = req[w].a, !.status = "UNDER_REVIEW", !.stage = "ARBITER_REVIEW"]
    <3>1. /\ row.milestone = dispute[d].milestone /\ row.round = dispute[d].round
          /\ row.released = dispute[d].released /\ row.fundsLocked = dispute[d].fundsLocked
      BY <1>5 DEF DisputeRow
    <3>2. UNCHANGED dispute \/ Write(d, row)
      BY <2>1 DEF AutoAssignWrite
    <3> QED BY <3>1, <3>2
  <2>2. CASE DecideWrite(w)
    <3> DEFINE row == [dispute[d] EXCEPT !.status = "RESOLVED", !.outcome = req[w].o, !.decider = req[w].a,
                         !.assigned = dispute[d].arbiter, !.appealDeadline = now + AppealWindow, !.fundsLocked = TRUE, !.isFinal = (AppealWindow = 0)]
    <3>1. /\ row.milestone = dispute[d].milestone /\ row.round = dispute[d].round
          /\ row.released = dispute[d].released /\ row.fundsLocked
      BY <1>5 DEF DisputeRow
    <3>2. UNCHANGED dispute \/ Write(d, row)
      BY <2>2 DEF DecideWrite
    <3> QED BY <3>1, <3>2
  <2>3. CASE OpenAppealWrite(w)
    <3> DEFINE row == AppealedRow(dispute[d], req[w].a)
    <3>1. /\ row.milestone = dispute[d].milestone /\ row.round = dispute[d].round
          /\ row.released = dispute[d].released /\ row.fundsLocked
      BY <1>5 DEF DisputeRow, AppealedRow
    <3>2. UNCHANGED dispute \/ Write(d, row)
      BY <2>3 DEF OpenAppealWrite
    <3> QED BY <3>1, <3>2
  <2>4. CASE DecideAppealWrite(w)
    <3> DEFINE row == [dispute[d] EXCEPT !.status = "RESOLVED", !.outcome = req[w].o,
                         !.appealDeadline = now, !.isFinal = TRUE, !.decider = NoOne, !.assigned = NoOne]
    <3>1. /\ row.milestone = dispute[d].milestone /\ row.round = dispute[d].round
          /\ row.released = dispute[d].released /\ row.fundsLocked = dispute[d].fundsLocked
      BY <1>5 DEF DisputeRow
    <3>2. UNCHANGED dispute \/ Write(d, row)
      BY <2>4 DEF DecideAppealWrite
    <3> QED BY <3>1, <3>2
  <2>5. CASE FinalizeWrite(w)
    <3> DEFINE row == [dispute[d] EXCEPT !.isFinal = TRUE, !.decider = NoOne, !.assigned = NoOne]
    <3>1. /\ row.milestone = dispute[d].milestone /\ row.round = dispute[d].round
          /\ row.released = dispute[d].released /\ row.fundsLocked = dispute[d].fundsLocked
      BY <1>5 DEF DisputeRow
    <3>2. UNCHANGED dispute \/ Write(d, row)
      BY <2>5 DEF FinalizeWrite
    <3> QED BY <3>1, <3>2
  <2>6. CASE SettleClaim(w)
    <3> DEFINE row == ClaimedRow(dispute[d])
    <3>1. /\ row.milestone = dispute[d].milestone /\ row.round = dispute[d].round
          /\ row.released = dispute[d].released /\ row.fundsLocked = dispute[d].fundsLocked
      BY <1>5 DEF DisputeRow, ClaimedRow
    <3>2. UNCHANGED dispute \/ Write(d, row)
      BY <2>6 DEF SettleClaim
    <3> QED BY <3>1, <3>2
  <2>7. CASE SettleRollback(w)
    <3> DEFINE row == [dispute[d] EXCEPT !.status = "RESOLVED"]
    <3>1. /\ row.milestone = dispute[d].milestone /\ row.round = dispute[d].round
          /\ row.released = dispute[d].released /\ row.fundsLocked = dispute[d].fundsLocked
      BY <1>5 DEF DisputeRow
    <3>2. Write(d, row)
      BY <2>7 DEF SettleRollback
    <3> QED BY <3>1, <3>2
  <2> QED BY <2>1, <2>2, <2>3, <2>4, <2>5, <2>6, <2>7
<1>7. \A c \in DisputeIds : RowTame(c)
  <2>1. CASE UNCHANGED dispute
    BY <2>1 DEF RowTame, Exists
  <2>2. CASE \E row : /\ Write(d, row) /\ row.milestone = dispute[d].milestone
                      /\ row.round = dispute[d].round /\ row.released = dispute[d].released
                      /\ dispute[d].fundsLocked => row.fundsLocked
    <3>1. PICK row : /\ Write(d, row) /\ row.milestone = dispute[d].milestone
                     /\ row.round = dispute[d].round /\ row.released = dispute[d].released
                     /\ dispute[d].fundsLocked => row.fundsLocked
      BY <2>2
    <3>2. (\A c \in DisputeIds \ {d} : RowTame(c)) /\ dispute'[d] = row /\ Exists(d)
      BY <1>1, <3>1, OwnRowBooked
    <3> QED BY <3>1, <3>2 DEF RowTame
  <2> QED BY <1>6, <2>1, <2>2
<1> QED BY <1>2, <1>4, <1>7, ModestEnd

\* The statements that only read, or write neither a row nor a transaction of it.
LEMMA TameReads ==
    ASSUME VerdictFirst, IInv', NEW w \in Workers,
           \/ AutoAssignRead(w) \/ SubmitFails(w) \/ ConfirmFailed(w) \/ ConfirmTimeout(w)
           \/ RecordArbiterPayout(w) \/ AckEvent(w) \/ Crash(w) \/ Call(w)
           \/ \E d \in DisputeIds : FinalizeRead(w, d)
    PROVE  VerdictFirst'
<1>1. dispute' = dispute /\ verdict' = verdict /\ events' \subseteq events /\ (tx' = tx \/ tx' = [tx EXCEPT ![w] = NoTx])
  BY DEF AutoAssignRead, SubmitFails, ConfirmFailed, ConfirmTimeout, RecordArbiterPayout, AckEvent, Crash, Call,
     FinalizeRead, DecideRead, DecideAppealRead, ResolveDisputeFlow, OpenAppealRead, rows, onChain
<1>2. \A d \in DisputeIds : RowTame(d)
  BY <1>1 DEF RowTame, Exists
<1>3. ASSUME NEW r, Become(w, r), r.pc \in Modest PROVE VerdictFirst'
  BY <1>1, <1>2, <1>3, ModestStep
<1>4. ASSUME NEW label \in Modest, Done(w) \/ Goto(w, label) PROVE VerdictFirst'
  BY <1>1, <1>2, <1>4, ModestEnd
<1>5. CASE AutoAssignRead(w)
  <2>1. \A arbiter : [req[w] EXCEPT !.pc = "assignWrite", !.a = arbiter].pc \in Modest
    BY DEF Modest, Labels, VerdictFirst, IInv, Base, TypeOK, Request
  <2>2. \/ \E arbiter : Become(w, [req[w] EXCEPT !.pc = "assignWrite", !.a = arbiter])
        \/ Goto(w, "ack")
    BY <1>5 DEF AutoAssignRead
  <2>3. "ack" \in Modest
    BY DEF Modest, Labels
  <2> QED BY <1>3, <1>4, <2>1, <2>2, <2>3
<1>6. CASE SubmitFails(w) \/ ConfirmFailed(w) \/ ConfirmTimeout(w)
  BY <1>4, <1>6 DEF SubmitFails, ConfirmFailed, ConfirmTimeout, Catch, Modest, Labels
<1>7. CASE RecordArbiterPayout(w) \/ AckEvent(w) \/ Crash(w)
  BY <1>4, <1>7 DEF RecordArbiterPayout, AckEvent, Crash, Modest, Labels
<1>8. CASE Call(w)
  <2>1. ASSUME NEW d, NEW a, NEW o, DecideRead(w, d, a, o) \/ DecideAppealRead(w, d, a, o) PROVE VerdictFirst'
    BY <1>3, <2>1 DEF DecideRead, DecideAppealRead, Begin, Idle, Modest, Labels
  <2>2. ASSUME NEW d, OpenAppealRead(w, d) PROVE VerdictFirst'
    BY <1>3, <2>2 DEF OpenAppealRead, Begin, Idle, Modest, Labels
  <2>3. ASSUME NEW m, NEW a, NEW o \in Outcomes, ResolveDisputeFlow(w, m, a, o) PROVE VerdictFirst'
    <3> DEFINE r == [Idle EXCEPT !.pc = "record", !.m = m, !.o = o, !.a = a]
    <3>1. Become(w, r) /\ tx' = tx
      BY <2>3 DEF ResolveDisputeFlow, Begin, onChain
    <3>2. r.pc = "record" /\ r.o # "NONE"
      BY DEF Idle, Outcomes
    <3> HIDE DEF r
    <3>3. req'[w] = r
      BY <3>1, BecomeEffect DEF VerdictFirst, IInv
    <3>4. HandlerBooked(w)'
      BY <3>2, <3>3 DEF HandlerBooked
    <3>5. TxBooked(w)'
      BY <1>1, <3>1 DEF VerdictFirst, TxBooked, Paid
    <3> QED BY <1>1, <1>2, <3>1, <3>4, <3>5, HandlerStepBooked
  <2> QED BY <1>8, <2>1, <2>2, <2>3 DEF Call
<1>9. ASSUME NEW d, FinalizeRead(w, d) PROVE VerdictFirst'
  BY <1>3, <1>9 DEF FinalizeRead, Begin, Idle, Modest, Labels
<1> QED BY <1>5, <1>6, <1>7, <1>8, <1>9

\* The statements between which a handler claims a settlement, or opens a row.
LEMMA BookingSteps ==
    ASSUME VerdictFirst, IInv', NEW w \in Workers,
           \/ OpenFind(w) \/ RecordDecision(w) \/ SettleLoad(w) \/ ResolveMilestoneDispute(w)
           \/ ConfirmOk(w) \/ MarkMilestone(w) \/ \E e \in events : HandleEvent(w, e)
    PROVE  VerdictFirst'
<1>1. /\ dispute' = dispute /\ verdict' = verdict /\ events' = events
      /\ \A v \in Workers \ {w} : tx'[v] = tx[v]
  BY DEF OpenFind, RecordDecision, SettleLoad, ResolveMilestoneDispute, ConfirmOk, MarkMilestone, HandleEvent,
     HandleDisputeRaised, HandleDisputeResolved, rows, onChain, VerdictFirst, IInv, Base, TypeOK
<1>2. \A d \in DisputeIds : RowTame(d)
  BY <1>1 DEF RowTame, Exists
<1>3. \A m : Paid(m)' <=> Paid(m)
  BY <1>1 DEF Paid
<1>4. /\ HandlerBooked(w) /\ TxBooked(w) /\ req[w] \in Request /\ tx[w] \in Transaction
      /\ tx' = tx => TxBooked(w)'
  BY <1>3 DEF VerdictFirst, IInv, Base, TypeOK, TxBooked
<1>5. ASSUME NEW r, Become(w, r), HandlerBooked(w)', TxBooked(w)' PROVE VerdictFirst'
  BY <1>1, <1>2, <1>5, HandlerStepBooked
<1>6. ASSUME NEW r, Become(w, r) PROVE req'[w] = r
  BY <1>6, BecomeEffect DEF VerdictFirst, IInv
<1>7. ASSUME NEW label \in Labels, Goto(w, label)
      PROVE  /\ req'[w].pc = label /\ req'[w].m = req[w].m /\ req'[w].o = req[w].o /\ req'[w].round = req[w].round
  <2>1. req'[w] = [req[w] EXCEPT !.pc = label]
    BY <1>6, <1>7 DEF Goto
  <2> QED BY <1>4, <2>1 DEF Request
<1>8. ASSUME NEW label \in Labels, Goto(w, label), HandlerBooked(w)', TxBooked(w)' PROVE VerdictFirst'
  BY <1>5, <1>8 DEF Goto
<1>9. CASE OpenFind(w)
  <2>1. PICK label \in {"ack", "create"} : Goto(w, label)
    BY <1>9 DEF OpenFind
  <2>2. req[w].pc = "open" /\ tx' = tx /\ label \in Labels
    BY <1>9 DEF OpenFind, At, onChain, Labels
  <2>3. HandlerBooked(w)'
    BY <1>4, <1>7, <2>1, <2>2 DEF HandlerBooked
  <2> QED BY <1>4, <1>8, <2>1, <2>2, <2>3
<1>10. CASE RecordDecision(w)
  <2>1. req[w].pc = "record" /\ tx' = tx /\ req[w].o # "NONE"
    BY <1>4, <1>10 DEF RecordDecision, At, onChain, HandlerBooked
  <2>2. CASE Goto(w, "submit")
    <3>1. "submit" \in Labels
      BY DEF Labels
    <3>2. HandlerBooked(w)'
      BY <1>7, <2>1, <2>2, <3>1 DEF HandlerBooked
    <3> QED BY <1>4, <1>8, <2>1, <2>2, <3>1, <3>2
  <2>3. CASE Done(w)
    BY <1>1, <1>2, <2>1, <2>3, ModestEnd DEF Modest, Labels
  <2>4. ASSUME NEW d, Become(w, [req[w] EXCEPT !.pc = "decide", !.d = d]) PROVE VerdictFirst'
    <3>1. [req[w] EXCEPT !.pc = "decide", !.d = d].pc = "decide"
      BY <1>4 DEF Request
    <3>2. [req[w] EXCEPT !.pc = "decide", !.d = d].pc \in Modest
      BY <3>1 DEF Modest, Labels
    <3> QED BY <1>1, <1>2, <2>1, <2>4, <3>2, ModestStep
  <2>5. Goto(w, "submit") \/ Done(w) \/ \E d \in NotClosed(req[w].m) : Become(w, [req[w] EXCEPT !.pc = "decide", !.d = d])
    BY <1>10 DEF RecordDecision
  <2> QED BY <2>2, <2>3, <2>4, <2>5
<1>11. CASE SettleLoad(w)
  <2> DEFINE row == dispute[req[w].d]
             r == [req[w] EXCEPT !.pc = "submit", !.o = Ruling(row), !.a = row.arbiter]
  <2>1. Become(w, r) /\ tx' = tx
    BY <1>11 DEF SettleLoad, onChain
  <2>2. r.pc = "submit" /\ r.o # "NONE"
    BY <1>4 DEF Request, Ruling
  <2> HIDE DEF r
  <2>3. HandlerBooked(w)'
    BY <1>6, <2>1, <2>2 DEF HandlerBooked
  <2> QED BY <1>4, <1>5, <2>1, <2>3
<1>12. CASE ResolveMilestoneDispute(w)
  <2>1. /\ req[w].pc = "submit" /\ Goto(w, "confirm")
        /\ tx' = [tx EXCEPT ![w] = [st |-> "flying", m |-> req[w].m, o |-> req[w].o]]
    BY <1>12 DEF ResolveMilestoneDispute, At
  <2>2. tx'[w].st = "flying" /\ tx'[w].m = req[w].m /\ tx'[w].o = req[w].o
    BY <2>1 DEF VerdictFirst, IInv, Base, TypeOK
  <2>3. TxBooked(w)' /\ "confirm" \in Labels
    BY <1>4, <2>1, <2>2 DEF TxBooked, HandlerBooked, Labels
  <2>4. HandlerBooked(w)'
    BY <1>7, <2>1, <2>2, <2>3 DEF HandlerBooked
  <2> QED BY <1>8, <2>1, <2>3, <2>4
<1>13. CASE ConfirmOk(w)
  <2>1. req[w].pc = "confirm" /\ tx[w].st = "ok" /\ Goto(w, "mark") /\ tx' = [tx EXCEPT ![w] = NoTx]
    BY <1>13 DEF ConfirmOk, At
  <2>2. tx'[w] = NoTx
    BY <2>1 DEF VerdictFirst, IInv, Base, TypeOK
  <2>3. TxBooked(w)' /\ Paid(req[w].m) /\ "mark" \in Labels
    BY <1>4, <2>1, <2>2 DEF TxBooked, HandlerBooked, NoTx, Labels
  <2>4. HandlerBooked(w)'
    BY <1>3, <1>7, <2>1, <2>3 DEF HandlerBooked
  <2> QED BY <1>8, <2>1, <2>3, <2>4
<1>14. CASE MarkMilestone(w)
  <2>1. PICK label \in {"markSettled", "release"} : Goto(w, label)
    BY <1>14 DEF MarkMilestone
  <2>2. req[w].pc = "mark" /\ tx' = tx /\ label \in Labels
    BY <1>14 DEF MarkMilestone, At, onChain, Labels
  <2>3. HandlerBooked(w)'
    BY <1>3, <1>4, <1>7, <2>1, <2>2 DEF HandlerBooked
  <2> QED BY <1>4, <1>8, <2>1, <2>2, <2>3
<1>15. ASSUME NEW e \in events, HandleEvent(w, e) PROVE VerdictFirst'
  <2>1. e \in Event /\ EventBooked(e)
    BY DEF VerdictFirst, IInv, Base, TypeOK
  <2>2. CASE HandleDisputeRaised(w, e)
    <3> DEFINE r == [Idle EXCEPT !.pc = "open", !.m = e.m, !.kind = e.kind, !.round = e.round]
    <3>1. Become(w, r) /\ tx' = tx
      BY <2>2 DEF HandleDisputeRaised, Begin, onChain
    <3>2. r.pc = "open" /\ r.round >= 1
      BY <2>1, BoundsAssumption DEF Idle, Event
    <3> HIDE DEF r
    <3>3. HandlerBooked(w)'
      BY <1>6, <3>1, <3>2 DEF HandlerBooked
    <3> QED BY <1>4, <1>5, <3>1, <3>3
  <2>3. CASE HandleDisputeResolved(w, e)
    <3> DEFINE r == [Idle EXCEPT !.pc = "markSettled", !.m = e.m, !.o = e.o, !.kind = e.kind, !.round = e.round]
    <3>1. Become(w, r) /\ tx' = tx /\ e.kind = "dispute_resolved"
      BY <2>3 DEF HandleDisputeResolved, Begin, onChain
    <3>2. r.pc = "markSettled" /\ r.m = e.m /\ Paid(e.m)
      BY <2>1, <3>1 DEF Idle, EventBooked
    <3> HIDE DEF r
    <3>3. HandlerBooked(w)'
      BY <1>3, <1>6, <3>1, <3>2 DEF HandlerBooked
    <3> QED BY <1>4, <1>5, <3>1, <3>3
  <2> QED BY <1>15, <2>2, <2>3 DEF HandleEvent
<1> QED BY <1>9, <1>10, <1>11, <1>12, <1>13, <1>14, <1>15

\* The statements that create a row, or book the settlement on it.
LEMMA BookingWrites ==
    ASSUME VerdictFirst, IInv', NEW w \in Workers, OpenCreate(w) \/ SettleRelease(w) \/ MarkSettledOnChain(w)
    PROVE  VerdictFirst'
<1>1. verdict' = verdict /\ events' = events /\ tx' = tx
  BY DEF OpenCreate, SettleRelease, MarkSettledOnChain, onChain
<1>2. \A m : Paid(m)' <=> Paid(m)
  BY <1>1 DEF Paid
<1>3. /\ HandlerBooked(w) /\ req[w] \in Request /\ dispute \in [DisputeIds -> DisputeRow]
      /\ \A d \in DisputeIds : RowBooked(d)
  BY DEF VerdictFirst, IInv, Base, TypeOK
<1>4. CASE OpenCreate(w)
  <2> DEFINE row == [NoRow EXCEPT !.milestone = req[w].m, !.round = req[w].round, !.status = "OPEN"]
  <2>1. PICK d \in DisputeIds : Write(d, row) /\ Become(w, [req[w] EXCEPT !.pc = "assign", !.d = d])
    BY <1>4 DEF OpenCreate
  <2>2. row.round = req[w].round /\ row.fundsLocked /\ ~row.released /\ req[w].round >= 1
    BY <1>3, <1>4 DEF NoRow, HandlerBooked, OpenCreate, At
  <2> HIDE DEF row
  <2>3. dispute'[d] = row /\ \A c \in DisputeIds \ {d} : dispute'[c] = dispute[c]
    BY <1>3, <2>1 DEF Write
  <2>4. RowBooked(d)' /\ \A c \in DisputeIds \ {d} : RowTame(c)
    BY <2>2, <2>3 DEF RowBooked, RowTame, Exists
  <2>5. [req[w] EXCEPT !.pc = "assign", !.d = d].pc \in Modest
    BY <1>3 DEF Request, Modest, Labels
  <2> QED BY <1>1, <2>1, <2>4, <2>5, ModestStep
<1>5. CASE SettleRelease(w)
  <2> SUFFICES ASSUME NEW d, d = req[w].d PROVE VerdictFirst'
    OBVIOUS
  <2> DEFINE row == [dispute[d] EXCEPT !.fundsLocked = FALSE, !.released = TRUE,
                                       !.owed = @ \/ req[w].a # NoOne,
                                       !.decider = NoOne, !.assigned = NoOne]
  <2>1. req[w].pc = "release" /\ Write(d, row) /\ Goto(w, "payout")
    BY <1>5 DEF SettleRelease, At
  <2>2. d # NoDispute
    BY <2>1, HandlerFacts DEF VerdictFirst, IInv, LocalOK, DisputeLabels
  <2>3. /\ \A c \in DisputeIds \ {d} : RowTame(c)
        /\ d \in DisputeIds /\ Exists(d) /\ dispute[d] \in DisputeRow /\ dispute'[d] = row
        /\ dispute[d].milestone = req[w].m
    BY <2>1, <2>2, OwnRowBooked
  <2>4. row.milestone = dispute[d].milestone /\ row.round = dispute[d].round
    BY <2>3 DEF DisputeRow
  <2> HIDE DEF row
  <2>5. Paid(req[w].m) /\ RowBooked(d)
    BY <1>3, <2>1, <2>3 DEF HandlerBooked
  <2>6. RowBooked(d)'
    BY <1>2, <2>3, <2>4, <2>5 DEF RowBooked
  <2> QED BY <1>1, <2>1, <2>3, <2>6, ModestEnd DEF Modest, Labels
<1>6. CASE MarkSettledOnChain(w)
  <2>1. req[w].pc = "markSettled" /\ (Done(w) \/ Goto(w, "ack")) /\ Paid(req[w].m)
    BY <1>3, <1>6 DEF MarkSettledOnChain, At, HandlerBooked
  <2>2. ASSUME NEW d \in DisputeIds PROVE RowTame(d) \/ RowBooked(d)'
    <3>1. dispute[d] \in DisputeRow /\ RowBooked(d)
      BY <1>3
    <3>2. CASE Exists(d) /\ dispute[d].milestone = req[w].m /\ ~dispute[d].released
      <4>1. dispute'[d] = [dispute[d] EXCEPT !.status = "CLOSED", !.isFinal = TRUE, !.fundsLocked = FALSE, !.released = TRUE,
                                                    !.decider = NoOne, !.assigned = NoOne]
        BY <1>6, <3>2 DEF MarkSettledOnChain
      <4>2. dispute'[d].milestone = req[w].m /\ dispute'[d].round = dispute[d].round
        BY <3>1, <3>2, <4>1 DEF DisputeRow
      <4> QED BY <1>2, <2>1, <3>1, <3>2, <4>2 DEF RowBooked
    <3>3. CASE ~(Exists(d) /\ dispute[d].milestone = req[w].m /\ ~dispute[d].released)
      <4>1. dispute'[d] = dispute[d]
        BY <1>6, <3>3 DEF MarkSettledOnChain
      <4> QED BY <4>1 DEF RowTame, Exists
    <3> QED BY <3>2, <3>3
  <2> QED BY <1>1, <2>1, <2>2, ModestEnd DEF Modest, Labels
<1> QED BY <1>4, <1>5, <1>6

\* A step of the contract, the network or the clock.
LEMMA ChainStepBooked ==
    ASSUME VerdictFirst, IInv', UNCHANGED <<dispute, req>>,
           \A m : Paid(m) => Paid(m)',
           \A w \in Workers : TxBooked(w)' /\ (req[w].pc = "confirm" => tx'[w].m = tx[w].m),
           \A e \in events' : e \in events \/ EventBooked(e)'
    PROVE  VerdictFirst'
<1>1. \A d \in DisputeIds : RowBooked(d)'
  BY DEF VerdictFirst, RowBooked, Exists
<1>2. \A w \in Workers : HandlerBooked(w)'
  BY DEF VerdictFirst, HandlerBooked
<1>3. \A e \in events' : EventBooked(e)'
  BY DEF VerdictFirst, EventBooked
<1> QED BY <1>1, <1>2, <1>3 DEF VerdictFirst

\* A verdict of the contract settles a round of the milestone.
LEMMA ResolvedPaid ==
    ASSUME VerdictFirst, NEW m \in Milestones, NEW o, o # "NONE", ContractResolves(m, o)
    PROVE  Paid(m)' /\ \A c : Paid(c) => Paid(c)'
<1>1. chain[m].round \in 1..MaxRounds /\ verdict' = [verdict EXCEPT ![m][chain[m].round] = o]
  BY BoundsAssumption DEF ContractResolves, VerdictFirst, IInv, Base, TypeOK, ChainOK
<1>2. verdict \in [Milestones -> [1..MaxRounds -> Outcomes \cup {"NONE"}]]
  BY DEF VerdictFirst, IInv, Base, TypeOK
<1>3. verdict'[m][chain[m].round] = o
  BY <1>1, <1>2
<1>4. ASSUME NEW c, Paid(c) PROVE Paid(c)'
  <2>1. PICK r \in 1..MaxRounds : verdict[c][r] # "NONE"
    BY <1>4 DEF Paid
  <2>2. CASE c = m /\ r = chain[m].round
    BY <1>3, <2>1, <2>2 DEF Paid
  <2>3. CASE c = m /\ r # chain[m].round
    <3>1. verdict'[m][r] = verdict[m][r]
      BY <1>1, <1>2, <2>1, <2>3
    <3> QED BY <2>1, <2>3, <3>1 DEF Paid
  <2>4. CASE c # m
    <3>1. verdict'[c] = verdict[c]
      BY <1>1, <1>2, <2>4
    <3> QED BY <2>1, <3>1 DEF Paid
  <2> QED BY <2>2, <2>3, <2>4
<1> QED BY <1>1, <1>3, <1>4 DEF Paid

\* Every step keeps it.
LEMMA VerdictFirstStep == VerdictFirst /\ [Next]_vars => VerdictFirst'
<1> SUFFICES ASSUME VerdictFirst, [Next]_vars PROVE VerdictFirst'
  OBVIOUS
<1>1. IInv'
  BY IInvStep DEF VerdictFirst
<1>2. \A w \in Workers : TxBooked(w) /\ tx[w] \in Transaction /\ (tx[w].st = "flying" => tx[w].m \in Milestones)
  BY DEF VerdictFirst, IInv, Base, TypeOK, TxOK
<1>3. ASSUME NEW w \in Workers, Continue(w) \/ Call(w) \/ Crash(w) \/ (\E e \in events : HandleEvent(w, e))
                                \/ \E d \in DisputeIds : FinalizeRead(w, d)
      PROVE  VerdictFirst'
  BY <1>1, <1>3, TameWrites, TameReads, BookingSteps, BookingWrites DEF Continue
<1>4. ASSUME NEW w \in Workers, LandTx(w) PROVE VerdictFirst'
  <2> SUFFICES ASSUME NEW m, m = tx[w].m PROVE VerdictFirst'
    OBVIOUS
  <2>1. /\ tx[w].st = "flying" /\ ContractResolves(m, tx[w].o) /\ UNCHANGED <<dispute, req>>
    BY <1>4 DEF LandTx, rows
  <2>2. Paid(m)' /\ \A c : Paid(c) => Paid(c)'
    BY <1>2, <2>1, ResolvedPaid DEF TxBooked
  <2>3. ASSUME NEW v \in Workers PROVE TxBooked(v)' /\ (req[v].pc = "confirm" => tx'[v].m = tx[v].m)
    <3>1. /\ tx[v] \in Transaction /\ TxBooked(v)
          /\ tx'[v] = IF v = w THEN Reported(v, "ok")
                      ELSE IF tx[v].st = "flying" THEN Reported(v, "failed") ELSE tx[v]
      BY <1>2, <1>4 DEF LandTx
    <3>2. CASE tx'[v] = tx[v]
      BY <2>2, <3>1, <3>2 DEF TxBooked, Paid
    <3>3. CASE v = w
      BY <2>1, <2>2, <3>1, <3>3 DEF TxBooked, Reported, At, NoTx, Transaction, Paid
    <3>4. CASE v # w /\ tx[v].st = "flying"
      BY <3>1, <3>4 DEF TxBooked, Reported, At, NoTx, Transaction
    <3> QED BY <3>1, <3>2, <3>3, <3>4
  <2>4. \A e \in events' : e \in events \/ EventBooked(e)'
    BY <2>1, <2>2 DEF ContractResolves, EventBooked
  <2> QED BY <1>1, <2>1, <2>2, <2>3, <2>4, ChainStepBooked
<1>5. ASSUME NEW w \in Workers, FailTx(w) PROVE VerdictFirst'
  <2>1. /\ tx[w].st = "flying" /\ tx' = [tx EXCEPT ![w] = Reported(w, "failed")]
        /\ UNCHANGED <<dispute, req, verdict, events>>
    BY <1>5 DEF FailTx, rows
  <2>2. (\A v \in Workers \ {w} : tx'[v] = tx[v]) /\ tx'[w] = Reported(w, "failed")
    BY <2>1 DEF VerdictFirst, IInv, Base, TypeOK
  <2>3. \A c : Paid(c) => Paid(c)'
    BY <2>1 DEF Paid
  <2>4. \A v \in Workers : TxBooked(v)' /\ (req[v].pc = "confirm" => tx'[v].m = tx[v].m)
    BY <1>2, <2>1, <2>2 DEF TxBooked, Reported, At, NoTx, Transaction, Paid
  <2> QED BY <1>1, <2>1, <2>3, <2>4, ChainStepBooked
<1>6. ASSUME NEW m \in Milestones, RaiseOnChain(m) PROVE VerdictFirst'
  <2>1. /\ UNCHANGED <<dispute, req, verdict, tx>>
        /\ \A e \in events' : e \in events \/ e.kind = "dispute_raised"
    BY <1>6 DEF RaiseOnChain, rows
  <2>2. \A c : Paid(c) => Paid(c)'
    BY <2>1 DEF Paid
  <2>3. \A w \in Workers : TxBooked(w)'
    BY <1>2, <2>1 DEF TxBooked, Paid
  <2> QED BY <1>1, <2>1, <2>2, <2>3, ChainStepBooked DEF EventBooked
<1>7. ASSUME NEW m \in Milestones, NEW o \in Outcomes, ResolveOnChain(m, o) PROVE VerdictFirst'
  <2>1. UNCHANGED <<dispute, req, tx>> /\ ContractResolves(m, o) /\ o # "NONE"
    BY <1>7 DEF ResolveOnChain, rows, Outcomes
  <2>2. Paid(m)' /\ \A c : Paid(c) => Paid(c)'
    BY <2>1, ResolvedPaid
  <2>3. \A e \in events' : e \in events \/ EventBooked(e)'
    BY <2>1, <2>2 DEF ContractResolves, EventBooked
  <2>4. \A w \in Workers : TxBooked(w)'
    BY <1>2, <2>1, <2>2 DEF TxBooked, Paid
  <2> QED BY <1>1, <2>1, <2>2, <2>3, <2>4, ChainStepBooked
<1>8. ASSUME Tick \/ UNCHANGED vars PROVE VerdictFirst'
  <2>1. UNCHANGED <<dispute, req, tx, verdict, events>>
    BY <1>8 DEF Tick, vars, rows, onChain
  <2>2. \A w \in Workers : TxBooked(w)'
    BY <1>2, <2>1 DEF TxBooked, Paid
  <2>3. \A c : Paid(c) => Paid(c)'
    BY <2>1 DEF Paid
  <2> QED BY <1>1, <2>1, <2>2, <2>3, ChainStepBooked
<1> QED BY <1>3, <1>4, <1>5, <1>6, <1>7, <1>8 DEF Next, Network

\* Hence it holds throughout.
LEMMA VerdictFirstAlways == Spec => []VerdictFirst
BY VerdictFirstInit, VerdictFirstStep, PTL DEF Spec

\* settle, markSettledOnChain and their rollbacks and retries, under any faults and any
\* interleaving: a dispute is marked settled or unlocked only when the contract has
\* resolved a dispute of its milestone.
THEOREM SettledAfterVerdict == Spec => []MilestoneSettledFirst
<1>1. VerdictFirst => MilestoneSettledFirst
  BY DEF VerdictFirst, RowBooked, MilestoneSettledFirst
<1> QED BY <1>1, VerdictFirstAlways, PTL
=============================================================================
