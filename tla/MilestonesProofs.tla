-------------------------- MODULE MilestonesProofs --------------------------
(***************************************************************************)
(* Proofs about Milestones, for every number of workers, milestones,       *)
(* approvers, proof versions and partial releases, every amount and window *)
(* and every combination of requests and faults.                           *)
(***************************************************************************)
EXTENDS Milestones, TLAPS, WellFoundedInduction

-----------------------------------------------------------------------------
(* The inductive invariant, in parts *)

\* The labels at which a handler holds a partial release, or its payment.
ReleaseLabels == {"find", "sign", "signed", "decline", "claim", "book", "finish",
                  "fail"}
PayingLabels == {"submit", "wait", "book", "finish", "fail"}
OnRelease(q) ==
    q.pc \in ReleaseLabels \/ (q.pc \in {"submit", "wait"} /\ q.then = "partial")

\* What a handler's locals say at each of its labels.
LocalOK(q) ==
    /\ q.pc \notin {"idle", "sla"} => q.m \in Milestones
    /\ q.pc \in {"supersede", "latest", "create"} => q.then \in {"setSubmitted", "ack"}
    /\ q.pc = "review" => q.then \in {"rejectVersion", "approve"}
    /\ q.pc = "find" => q.then \in {"sign", "decline"}
    /\ q.pc \in {"submit", "wait"} => q.then \in Calls
    /\ q.pc = "approve" \/ (q.pc = "review" /\ q.then = "approve") => q.u \in Approvers
    /\ q.r # 0 <=> OnRelease(q)
    /\ q.pc = "insert" => MayPay(q.terms.amount, Amount - q.p)

\* A transaction with a sender is the call its sender waits for.
TxOK(t) ==
    /\ t.r # 0 <=> t.call = "partial"
    /\ t.by # Nobody => /\ req[t.by].pc = "wait" /\ req[t.by].then = t.call
                        /\ req[t.by].m = t.m /\ req[t.by].r = t.r

Base ==
    /\ TypeOK
    /\ \A w \in Workers : LocalOK(req[w])
    /\ \A t \in net : TxOK(t)

\* An insert that is about to succeed finds the latest version reviewed.
VersionInv ==
    /\ OnlyLatestOpen
    /\ \A w \in Workers : At(w, "create") =>
          LET m == req[w].m
              n == req[w].n
          IN  /\ n <= Latest(m)
              /\ n = Latest(m) /\ n > 0 => versions[m][n].status # "SUBMITTED"

\* A reminder that went out left its flag on the version.
Flag(v, p) == IF p = 90 THEN v.r90 ELSE v.r50
RemindInv ==
    /\ \A w \in Workers : \A i \in req[w].todo : i.n \in 1..Latest(i.m)
    /\ \A m \in Milestones, p \in {50, 90}, n \in 1..MaxVersions :
          /\ sent[m][p][n] <= 1
          /\ sent[m][p][n] > 0 => n <= Latest(m) /\ Flag(versions[m][n], p)

\* An expired version that still awaits review is in the hands of a run of the
\* SLA job that will pay it out or give it back.
Claims(w, m, n) ==
    /\ req[w].m = m /\ req[w].n = n
    /\ \/ req[w].pc \in {"submit", "wait"} /\ req[w].then = "auto"
       \/ req[w].pc \in {"autoConfirm", "autoApprove", "unclaim"}
ClaimInv ==
    (AutoApprove /\ "crash" \notin upset) =>
        \A m \in Milestones : \A n \in 1..Latest(m) :
            (versions[m][n].status = "SUBMITTED" /\ versions[m][n].expired)
                => \E w \in Workers : Claims(w, m, n)

\* A release that was paid, or is being paid, is claimed or over, and cannot be
\* rejected any more.
Held(r) ==
    \/ release[r].paid > 0
    \/ \E t \in net : t.r = r
    \/ \E w \in Workers : req[w].r = r /\ req[w].pc \in PayingLabels
Committed(x) ==
    (x.status = "PROPOSED" /\ x.claimed) \/ x.status \in {"EXECUTED", "FAILED"}
ReleaseInv == \A r \in ReleaseIds : Held(r) => Committed(release[r])

-----------------------------------------------------------------------------
(* Types and locals *)

\* The part of Base about the handlers and the transactions.
HandlersOK ==
    /\ req \in [Workers -> Request]
    /\ \A w \in Workers : LocalOK(req[w])
    /\ \A t \in net : TxOK(t)

\* The types of the database.
RowType == [status : Statuses, kind : {"PLACEMENT", "RETENTION"}, paid : Nat,
            until : Nat, warned : BOOLEAN]
TablesOK ==
    /\ row \in [Milestones -> RowType]
    /\ approvals \in [Milestones -> SUBSET Approvers]
    /\ given \in [Milestones -> [Approvers -> Nat]]
    /\ versions \in [Milestones -> Seq(Version)]
    /\ release \in [ReleaseIds -> Release]
    /\ refund \in [Milestones -> Nat]
    /\ sent \in [Milestones -> [{50, 90} -> [1..MaxVersions -> Nat]]]

\* The types of the contract, its events and the network.
LedgerOK ==
    /\ chain \in [Milestones ->
                    [st : {"LOCKED", "PENDING", "PROOF", "DISPUTED", "DONE"},
                     left : Nat, got : Nat, until : Nat]]
    /\ events \subseteq Event /\ emitted \in Nat
    /\ net \subseteq Tx

\* The types of what is left.
RestOK ==
    /\ locks \in [Jobs -> Workers \cup {Nobody, Dead}]
    /\ now \in Nat /\ calls \in Nat /\ faults \in Nat /\ scope \in Scopes
    /\ upset \subseteq {"overlap", "override", "late", "crash", "disputed",
                        "replaced", "outdated"}

\* The types and locals, part by part.
LEMMA BaseParts == Base <=> HandlersOK /\ TablesOK /\ LedgerOK /\ RestOK
BY DEF Base, TypeOK, HandlersOK, TablesOK, RowType, LedgerOK, RestOK

\* The same after a step.
LEMMA PartsBase == HandlersOK' /\ TablesOK' /\ LedgerOK' /\ RestOK' => Base'
BY DEF Base, TypeOK, HandlersOK, TablesOK, RowType, LedgerOK, RestOK

\* An idle worker is typed and has nothing in hand.
LEMMA IdleOK == Idle \in Request /\ LocalOK(Idle)
BY DEF Idle, Request, Labels, NoTerms, Nobody, Parties, Statuses, LocalOK, OnRelease,
       ReleaseLabels

\* A handler goes on in any consistent way, with the transactions of the others
\* and its own one, if it waits for it.
LEMMA BecomeAndSend ==
    ASSUME HandlersOK, LedgerOK, NEW w \in Workers, NEW r \in Request, Become(w, r),
           LocalOK(r),
           \A t \in net' :
             \/ t \in net /\ t.by # w
             \/ /\ t.r # 0 <=> t.call = "partial"
                /\ \/ t.by = Nobody
                   \/ /\ t.by = w /\ r.pc = "wait" /\ r.then = t.call
                      /\ r.m = t.m /\ r.r = t.r
    PROVE  HandlersOK'
<1>1. /\ req' \in [Workers -> Request] /\ req'[w] = r
      /\ \A v \in Workers \ {w} : req'[v] = req[v]
  BY DEF Become, HandlersOK
<1>2. \A v \in Workers : LocalOK(req'[v])
  BY <1>1 DEF HandlersOK
<1>3. ASSUME NEW t \in net' PROVE TxOK(t)'
  <2>1. CASE t \in net /\ t.by # w
    <3>1. TxOK(t) /\ t.by \in Workers \cup {Nobody}
      BY <2>1 DEF HandlersOK, LedgerOK, Tx
    <3> QED BY <1>1, <2>1, <3>1 DEF TxOK
  <2>2. CASE ~(t \in net /\ t.by # w)
    BY <1>1, <2>2 DEF TxOK
  <2> QED BY <2>1, <2>2
<1> QED BY <1>1, <1>2, <1>3 DEF HandlersOK

\* Nothing in the network is from a handler that does not wait.
LEMMA NothingSent ==
    ASSUME HandlersOK, NEW w \in Workers, ~At(w, "wait"), NEW t \in net
    PROVE  t.by # w
BY MilestonesAssumption DEF HandlersOK, TxOK, At, Nobody

\* A handler waits for one transaction.
LEMMA OneTx ==
    ASSUME HandlersOK, LedgerOK, NEW t \in net, NEW o \in net, t.by = o.by,
           t.by # Nobody
    PROVE  t = o
<1>1. t \in Tx /\ o \in Tx
  BY DEF LedgerOK
<1>2. t.call = o.call /\ t.m = o.m /\ t.r = o.r
  BY DEF HandlersOK, TxOK
<1> QED BY <1>1, <1>2 DEF Tx

\* A step to a sound entry keeps the handlers sound.
LEMMA BecomeOK ==
    ASSUME HandlersOK, LedgerOK, NEW w \in Workers, NEW r \in Request, Become(w, r),
           LocalOK(r), ~At(w, "wait"), net' = net
    PROVE  HandlersOK'
BY BecomeAndSend, NothingSent

\* So does the end of a handler.
LEMMA DoneOK ==
    ASSUME HandlersOK, LedgerOK, NEW w \in Workers, Done(w), ~At(w, "wait"), net' = net
    PROVE  HandlersOK'
BY BecomeOK, IdleOK DEF Done

\* So does going on to a point whose locals are sound.
LEMMA GotoOK ==
    ASSUME HandlersOK, LedgerOK, NEW w \in Workers, NEW label \in Labels, Goto(w, label),
           LocalOK([req[w] EXCEPT !.pc = label]), ~At(w, "wait"), net' = net
    PROVE  HandlersOK'
<1>1. [req[w] EXCEPT !.pc = label] \in Request
  BY DEF HandlersOK, Request
<1> QED BY <1>1, BecomeOK DEF Goto

\* A failed call leaves a consistent handler, its transaction being gone or on its own.
LEMMA RaiseOK ==
    ASSUME HandlersOK, LedgerOK, NEW w \in Workers, At(w, "submit") \/ At(w, "wait"),
           Raise(w),
           \A t \in net' : \/ t \in net /\ t.by # w
                           \/ t.by = Nobody /\ (t.r # 0 <=> t.call = "partial")
    PROVE  HandlersOK'
<1>1. req[w] \in Request /\ LocalOK(req[w])
  BY DEF HandlersOK
<1> DEFINE give == [req[w] EXCEPT !.pc = "unclaim"]
           fail == [req[w] EXCEPT !.pc = "fail"]
<1>2. \/ Become(w, Idle)
      \/ req[w].then = "auto" /\ Become(w, give)
      \/ req[w].then = "partial" /\ Become(w, fail)
  BY <1>1 DEF Raise, EndJob, Done, Goto, LocalOK, Calls, At
<1>3. give \in Request /\ fail \in Request
  BY <1>1 DEF Request, Labels
<1>4. req[w].then = "auto" => LocalOK(give)
  BY <1>1 DEF LocalOK, OnRelease, ReleaseLabels, Request, At
<1>5. req[w].then = "partial" => LocalOK(fail)
  BY <1>1 DEF LocalOK, OnRelease, ReleaseLabels, Request, At
<1> HIDE DEF give, fail
<1> QED BY <1>2, <1>3, <1>4, <1>5, IdleOK, BecomeAndSend

\* A non-empty set of naturals has a least element.
LEMMA NatMin ==
    ASSUME NEW T \in SUBSET Nat, T # {}
    PROVE  \E x \in T : \A y \in T : x <= y
<1> DEFINE R == OpToRel(<, Nat)
<1>1. IsWellFoundedOn(R, Nat)
  BY NatLessThanWellFounded
<1>2. \A x, y \in Nat : <<y, x>> \in R <=> y < x
  BY DEF OpToRel
<1> HIDE DEF R
<1>3. PICK x \in T : \A y \in T : ~ (<<y, x>> \in R)
  BY <1>1, WFMin
<1>4. ASSUME NEW y \in T PROVE x <= y
  <2>1. x \in Nat /\ y \in Nat
    OBVIOUS
  <2>2. ~ (y < x)
    BY <1>2, <1>3, <2>1
  <2> QED BY <2>1, <2>2
<1> QED BY <1>4

\* One cell of a sequence is overwritten; outside of it nothing happens.
LEMMA CellOK ==
    ASSUME NEW S, NEW s \in Seq(S), NEW n, NEW x, n \in DOMAIN s => x \in S
    PROVE  /\ [s EXCEPT ![n] = x] \in Seq(S)
           /\ Len([s EXCEPT ![n] = x]) = Len(s)
<1> DEFINE k == Len(s)
           f == [s EXCEPT ![n] = x]
<1>1. k \in Nat /\ s \in [1..k -> S] /\ DOMAIN s = 1..k
  OBVIOUS
<1> HIDE DEF k
<1>2. f \in [1..k -> S]
  BY <1>1
<1>3. f \in Seq(S) /\ Len(f) = k
  BY <1>1, <1>2
<1> QED BY <1>3 DEF k

\* What a handler does to its own locals keeps them consistent.
LEMMA HandlersStep ==
    ASSUME Base, NEW w \in Workers, Step(w)
    PROVE  HandlersOK'
<1>1. HandlersOK /\ LedgerOK /\ req[w] \in Request /\ LocalOK(req[w])
  BY BaseParts DEF HandlersOK
<1> USE DEF At, LocalOK, OnRelease, ReleaseLabels
<1>2. CASE Supersede(w)
  <2>1. At(w, "supersede") /\ Goto(w, "latest") /\ net' = net
    BY <1>2 DEF Supersede, ledger
  <2> QED BY <1>1, <2>1, GotoOK DEF Labels
<1>3. CASE SetProofSubmitted(w)
  BY <1>1, <1>3, DoneOK DEF SetProofSubmitted, ledger
<1>4. CASE Reopen(w)
  BY <1>1, <1>4, GotoOK DEF Reopen, Labels, ledger
<1>5. CASE ForgetApprovals(w)
  BY <1>1, <1>5, DoneOK DEF ForgetApprovals, ledger
<1>6. CASE OverrideStatus(w)
  BY <1>1, <1>6, DoneOK DEF OverrideStatus, ledger
<1>7. CASE EndSlaChecks(w)
  BY <1>1, <1>7, DoneOK DEF EndSlaChecks, EndJob, ledger
<1>8. CASE Unclaim(w)
  BY <1>1, <1>8, GotoOK DEF Unclaim, Labels, ledger
<1>9. CASE SendRetentionWarning(w)
  BY <1>1, <1>9, DoneOK DEF SendRetentionWarning, EndJob, ledger
<1>10. CASE MarkUnlockedByJob(w)
  BY <1>1, <1>10, DoneOK DEF MarkUnlockedByJob, EndJob, ledger
<1>11. CASE InsertRelease(w)
  BY <1>1, <1>11, DoneOK DEF InsertRelease, ledger
<1>12. CASE DeclineRelease(w)
  BY <1>1, <1>12, DoneOK DEF DeclineRelease, ledger
<1>13. CASE BookRelease(w)
  BY <1>1, <1>13, GotoOK DEF BookRelease, Labels, ledger
<1>14. CASE FinishRelease(w)
  BY <1>1, <1>14, DoneOK DEF FinishRelease, ledger
<1>15. CASE FailRelease(w)
  BY <1>1, <1>15, DoneOK DEF FailRelease, ledger
<1>16. CASE ClearApprovals(w)
  BY <1>1, <1>16, GotoOK DEF ClearApprovals, Labels, ledger
<1>17. CASE Acknowledge(w)
  BY <1>1, <1>17, DoneOK DEF Acknowledge
<1>18. CASE RejectVersion(w)
  BY <1>1, <1>18, DoneOK, GotoOK DEF RejectVersion, Labels, ledger
<1>19. CASE CreateApproval(w)
  BY <1>1, <1>19, DoneOK, GotoOK DEF CreateApproval, Labels, ledger
<1>20. CASE MarkConfirmed(w)
  BY <1>1, <1>20, DoneOK, GotoOK DEF MarkConfirmed, Labels, ledger
<1>21. CASE ApproveVersion(w)
  BY <1>1, <1>21, DoneOK, GotoOK DEF ApproveVersion, Labels, ledger
<1>22. CASE ProposeCheck(w)
  BY <1>1, <1>22, DoneOK, GotoOK DEF ProposeCheck, Labels, ledger
<1>23. CASE SignRelease(w)
  BY <1>1, <1>23, DoneOK, GotoOK DEF SignRelease, Labels, ledger
<1>24. CASE HasDualApproval(w)
  BY <1>1, <1>24, DoneOK, GotoOK DEF HasDualApproval, Labels, ledger
<1>25. CASE RecordVersionFind(w)
  <2> DEFINE next == [req[w] EXCEPT !.pc = req[w].then, !.then = "idle"]
             create == [req[w] EXCEPT !.pc = "create", !.n = Latest(req[w].m)]
  <2>1. req[w].pc = "latest" /\ (Become(w, next) \/ Become(w, create)) /\ net' = net
    BY <1>25 DEF RecordVersionFind, ledger
  <2>2. Latest(req[w].m) \in Nat
    BY <1>1, <2>1, BaseParts DEF TablesOK, Latest
  <2>3. next \in Request /\ create \in Request /\ LocalOK(next) /\ LocalOK(create)
    BY <1>1, <2>1, <2>2 DEF Request, Labels
  <2> HIDE DEF next, create
  <2> QED BY <1>1, <2>1, <2>3, BecomeOK
<1>26. CASE RecordVersionCreate(w)
  <2> DEFINE next == [req[w] EXCEPT !.pc = req[w].then, !.then = "idle"]
             retry == [req[w] EXCEPT !.pc = "latest", !.again = TRUE]
  <2>1. req[w].pc = "create" /\ (Become(w, next) \/ Become(w, retry) \/ Done(w)) /\ net' = net
    BY <1>26 DEF RecordVersionCreate, ledger
  <2>2. next \in Request /\ LocalOK(next)
    BY <1>1, <2>1 DEF Request, Labels
  <2>3. retry \in Request /\ LocalOK(retry)
    BY <1>1, <2>1 DEF Request, Labels
  <2> HIDE DEF next, retry
  <2> QED BY <1>1, <2>1, <2>2, <2>3, BecomeOK, DoneOK
<1>27. CASE AssertReviewable(w)
  <2> DEFINE next == [req[w] EXCEPT !.pc = req[w].then, !.then = "idle",
                                    !.n = Latest(req[w].m)]
  <2>1. req[w].pc = "review" /\ (Become(w, next) \/ Done(w)) /\ net' = net
    BY <1>27 DEF AssertReviewable, ledger
  <2>2. Latest(req[w].m) \in Nat
    BY <1>1, <2>1, BaseParts DEF TablesOK, Latest
  <2>3. next \in Request
    BY <1>1, <2>1, <2>2 DEF Request, Labels
  <2>4. LocalOK(next)
    BY <1>1, <2>1, <2>2 DEF Request
  <2> HIDE DEF next
  <2> QED BY <1>1, <2>1, <2>3, <2>4, BecomeOK, DoneOK
<1>28. CASE CountApprovals(w)
  <2> DEFINE next == [req[w] EXCEPT !.pc = "submit", !.then = "approve"]
  <2>1. req[w].pc = "count" /\ (Become(w, next) \/ Done(w)) /\ net' = net
    BY <1>28 DEF CountApprovals, ledger
  <2>2. next \in Request
    BY <1>1 DEF Request, Labels, Calls
  <2>3. LocalOK(next)
    BY <1>1, <2>1 DEF Request, Calls
  <2> HIDE DEF next
  <2> QED BY <1>1, <2>1, <2>2, <2>3, BecomeOK, DoneOK
<1>29. CASE MarkApprovedFind(w)
  <2> DEFINE next == [req[w] EXCEPT !.pc = "markApproved", !.n = Latest(req[w].m)]
  <2>1. req[w].pc = "markRead" /\ (Become(w, next) \/ Done(w)) /\ net' = net
    BY <1>29 DEF MarkApprovedFind, ledger
  <2>2. Latest(req[w].m) \in Nat
    BY <1>1, <2>1, BaseParts DEF TablesOK, Latest
  <2>3. next \in Request
    BY <1>1, <2>2 DEF Request, Labels
  <2>4. LocalOK(next)
    BY <1>1, <2>1, <2>2 DEF Request
  <2> HIDE DEF next
  <2> QED BY <1>1, <2>1, <2>3, <2>4, BecomeOK, DoneOK
<1>30. CASE EvaluateVersion(w)
  <2>1. PICK i \in req[w].todo :
          /\ \/ Become(w, [req[w] EXCEPT !.todo = @ \ {i}])
             \/ Become(w, [req[w] EXCEPT !.todo = @ \ {i}, !.pc = "submit",
                                         !.then = "auto", !.m = i.m, !.n = i.n])
          /\ req[w].pc = "sla" /\ net' = net
    BY <1>30 DEF EvaluateVersion, ledger
  <2> DEFINE left == req[w].todo \ {i}
             rest == [req[w] EXCEPT !.todo = left]
             pay == [req[w] EXCEPT !.todo = left, !.pc = "submit",
                                   !.then = "auto", !.m = i.m, !.n = i.n]
  <2>2. Become(w, rest) \/ Become(w, pay)
    BY <2>1
  <2>3. i.m \in Milestones /\ i.n \in Nat /\ left \in SUBSET Item
    BY <1>1 DEF Request, Item
  <2> HIDE DEF left
  <2>4. rest \in Request
    BY <1>1, <2>3 DEF Request
  <2>7. pay \in Request
    BY <1>1, <2>3 DEF Request, Labels, Calls
  <2>5. LocalOK(rest)
    BY <1>1, <2>1 DEF Request
  <2>6. LocalOK(pay)
    BY <1>1, <2>1, <2>3 DEF Request, Calls
  <2> HIDE DEF rest, pay
  <2> QED BY <1>1, <2>1, <2>2, <2>4, <2>5, <2>6, <2>7, BecomeOK
<1>31. CASE FindOpen(w)
  BY <1>1, <1>31, DoneOK, BecomeOK DEF FindOpen, Request, Labels, Calls, ledger
<1>32. CASE ClaimRelease(w)
  <2> DEFINE next == [req[w] EXCEPT !.pc = "submit", !.then = "partial"]
  <2>1. req[w].pc = "claim" /\ (Become(w, next) \/ Done(w)) /\ net' = net
    BY <1>32 DEF ClaimRelease, ledger
  <2>2. next \in Request
    BY <1>1 DEF Request, Labels, Calls
  <2>3. LocalOK(next)
    BY <1>1, <2>1 DEF Request, Calls
  <2> HIDE DEF next
  <2> QED BY <1>1, <2>1, <2>2, <2>3, BecomeOK, DoneOK
<1>33. CASE Submit(w)
  <2> DEFINE next == [req[w] EXCEPT !.pc = "wait"]
             t == [by |-> w, call |-> req[w].then, m |-> req[w].m, r |-> req[w].r]
  <2>1. /\ req[w].pc = "submit"
        /\ \/ Become(w, next) /\ net' = net \cup {t}
           \/ Raise(w) /\ net' = net
    BY <1>33 DEF Submit, Goto
  <2>2. CASE Become(w, next) /\ net' = net \cup {t}
    <3>1. next \in Request
      BY <1>1 DEF Request, Labels
    <3>2. LocalOK(next)
      BY <1>1, <2>1 DEF Request
    <3>3. t.r # 0 <=> t.call = "partial"
      BY <1>1, <2>1
    <3>4. /\ next.pc = "wait" /\ next.then = t.call /\ next.m = t.m /\ next.r = t.r
          /\ t.by = w
      BY <1>1 DEF Request
    <3> HIDE DEF next, t
    <3> QED BY <1>1, <2>1, <2>2, <3>1, <3>2, <3>3, <3>4, BecomeAndSend, NothingSent
  <2>3. CASE Raise(w) /\ net' = net
    BY <1>1, <2>1, <2>3, RaiseOK, NothingSent
  <2> QED BY <2>1, <2>2, <2>3
<1> QED BY <1>2, <1>3, <1>4, <1>5, <1>6, <1>7, <1>8, <1>9, <1>10, <1>11, <1>12, <1>13, <1>14, <1>15, <1>16, <1>17, <1>18, <1>19, <1>20, <1>21, <1>22, <1>23, <1>24, <1>25, <1>26, <1>27, <1>28, <1>29, <1>30, <1>31, <1>32, <1>33 DEF Step

\* A status update keeps the rows typed.
LEMMA SetStatusOK ==
    ASSUME row \in [Milestones -> RowType], NEW m \in Milestones, NEW s \in Statuses,
           SetStatus(m, s)
    PROVE  row' \in [Milestones -> RowType]
<1>1. row[m] \in RowType
  OBVIOUS
<1>2. [row[m] EXCEPT !.status = s] \in RowType
  BY <1>1 DEF RowType
<1> QED BY <1>2 DEF SetStatus

\* A counter of a table of counters is increased; outside of it nothing happens.
LEMMA CountOK ==
    ASSUME NEW D, NEW f \in [D -> Nat], NEW n
    PROVE  [f EXCEPT ![n] = f[n] + 1] \in [D -> Nat]
<1> DEFINE g == [f EXCEPT ![n] = f[n] + 1]
<1>1. ASSUME NEW d \in D PROVE g[d] \in Nat
  <2>1. CASE d = n
    BY <2>1
  <2>2. CASE d # n
    BY <2>2
  <2> QED BY <2>1, <2>2
<1>2. DOMAIN g = D /\ g = [d \in D |-> g[d]]
  OBVIOUS
<1> HIDE DEF g
<1>3. g \in [D -> Nat]
  BY <1>1, <1>2
<1> QED BY <1>3 DEF g

\* Superseding keeps the versions typed and as many as they were.
LEMMA SupersedeOK ==
    ASSUME NEW s \in Seq(Version)
    PROVE  /\ [n \in DOMAIN s |-> Superseded(s[n])] \in Seq(Version)
           /\ Len([n \in DOMAIN s |-> Superseded(s[n])]) = Len(s)
<1> DEFINE next == [n \in DOMAIN s |-> Superseded(s[n])]
           k == Len(s)
<1>1. k \in Nat /\ s \in [1..k -> Version] /\ DOMAIN s = 1..k
  OBVIOUS
<1>2. \A v \in Version : Superseded(v) \in Version
  BY DEF Superseded, Version, VersionStatus
<1>3. next = [n \in 1..k |-> Superseded(s[n])]
  BY <1>1
<1> HIDE DEF next, k
<1>4. next \in [1..k -> Version]
  BY <1>1, <1>2, <1>3
<1>5. next \in Seq(Version) /\ Len(next) = k
  BY <1>1, <1>4
<1> QED BY <1>5 DEF next, k

\* Overwriting a version keeps the versions typed, also when there is none.
LEMMA SetVersionOK ==
    ASSUME versions \in [Milestones -> Seq(Version)], NEW m \in Milestones, NEW n, NEW x,
           SetVersion(m, n, x), n \in DOMAIN versions[m] => x \in Version
    PROVE  versions' \in [Milestones -> Seq(Version)]
<1>1. [versions[m] EXCEPT ![n] = x] \in Seq(Version)
  BY CellOK
<1> QED BY <1>1 DEF SetVersion

\* Every statement of a handler keeps the types of the database.
LEMMA TablesStep ==
    ASSUME Base, NEW w \in Workers, Step(w)
    PROVE  TablesOK'
<1>1. TablesOK /\ req[w] \in Request /\ LocalOK(req[w])
  BY BaseParts DEF HandlersOK
<1> DEFINE m == req[w].m
<1>2. At(w, "idle") \/ At(w, "sla") \/ m \in Milestones
  BY <1>1 DEF LocalOK, At
<1>3. req[w].s \in Statuses /\ req[w].n \in Nat /\ req[w].p \in Nat
  BY <1>1 DEF Request
<1>4. row \in [Milestones -> RowType] /\ versions \in [Milestones -> Seq(Version)]
  BY <1>1 DEF TablesOK
<1>5. release \in [ReleaseIds -> Release]
  BY <1>1 DEF TablesOK
<1> USE DEF At
<1>6. CASE UNCHANGED tables
  BY <1>1, <1>6 DEF TablesOK, tables
<1>7. CASE SetProofSubmitted(w)
  <2>1. m \in Milestones
    BY <1>2, <1>7 DEF SetProofSubmitted
  <2>2. PICK s \in Statuses : SetStatus(m, s)
    BY <1>3, <1>7 DEF SetProofSubmitted, Statuses
  <2>3. row' \in [Milestones -> RowType]
    BY <1>4, <2>1, <2>2, SetStatusOK
  <2> QED BY <1>1, <1>7, <2>3 DEF SetProofSubmitted, TablesOK
<1>8. CASE Reopen(w)
  <2>1. m \in Milestones
    BY <1>2, <1>8 DEF Reopen
  <2>2. PICK s \in Statuses : SetStatus(m, s)
    BY <1>3, <1>8 DEF Reopen, Statuses
  <2>3. row' \in [Milestones -> RowType]
    BY <1>4, <2>1, <2>2, SetStatusOK
  <2> QED BY <1>1, <1>8, <2>3 DEF Reopen, TablesOK
<1>9. CASE OverrideStatus(w)
  <2>1. m \in Milestones
    BY <1>2, <1>9 DEF OverrideStatus
  <2>2. PICK s \in Statuses : SetStatus(m, s)
    BY <1>3, <1>9 DEF OverrideStatus, Statuses
  <2>3. row' \in [Milestones -> RowType]
    BY <1>4, <2>1, <2>2, SetStatusOK
  <2> QED BY <1>1, <1>9, <2>3 DEF OverrideStatus, TablesOK
<1>10. CASE MarkUnlockedByJob(w)
  <2>1. m \in Milestones
    BY <1>2, <1>10 DEF MarkUnlockedByJob
  <2>2. PICK s \in Statuses : SetStatus(m, s)
    BY <1>3, <1>10 DEF MarkUnlockedByJob, Statuses
  <2>3. row' \in [Milestones -> RowType]
    BY <1>4, <2>1, <2>2, SetStatusOK
  <2> QED BY <1>1, <1>10, <2>3 DEF MarkUnlockedByJob, TablesOK
<1>11. CASE MarkConfirmed(w)
  <2>1. m \in Milestones
    BY <1>2, <1>11 DEF MarkConfirmed
  <2>2. [row[m] EXCEPT !.status = "CONFIRMED", !.paid = Amount] \in RowType
    <3>1. row[m] \in RowType
      BY <1>4, <2>1
    <3> QED BY <3>1, AmountsAssumption DEF RowType, Statuses
  <2>3. row' \in [Milestones -> RowType]
    BY <1>4, <1>11, <2>1, <2>2 DEF MarkConfirmed
  <2> QED BY <1>1, <1>11, <2>3 DEF MarkConfirmed, TablesOK
<1>12. CASE SendRetentionWarning(w)
  <2>1. m \in Milestones
    BY <1>2, <1>12 DEF SendRetentionWarning
  <2>2. [row[m] EXCEPT !.warned = TRUE] \in RowType
    <3>1. row[m] \in RowType
      BY <1>4, <2>1
    <3> QED BY <3>1 DEF RowType
  <2>3. row' \in [Milestones -> RowType]
    BY <1>4, <1>12, <2>1, <2>2 DEF SendRetentionWarning
  <2> QED BY <1>1, <1>12, <2>3 DEF SendRetentionWarning, TablesOK
<1>13. CASE ForgetApprovals(w)
  BY <1>1, <1>13 DEF ForgetApprovals, TablesOK, KeptApprovals
<1>14. CASE ClearApprovals(w)
  BY <1>1, <1>14 DEF ClearApprovals, TablesOK
<1>15. CASE CreateApproval(w)
  <2>1. req[w].u \in Approvers /\ m \in Milestones
    BY <1>1, <1>2, <1>15 DEF CreateApproval, LocalOK
  <2>2. \/ UNCHANGED <<approvals, given>>
        \/ /\ approvals' = [approvals EXCEPT ![m] = approvals[m] \cup {req[w].u}]
           /\ given' = [given EXCEPT ![m][req[w].u] = req[w].n]
    BY <1>15 DEF CreateApproval
  <2>3. approvals' \in [Milestones -> SUBSET Approvers]
    <3>1. approvals \in [Milestones -> SUBSET Approvers]
      BY <1>1 DEF TablesOK
    <3>2. approvals[m] \cup {req[w].u} \in SUBSET Approvers
      BY <2>1, <3>1
    <3> QED BY <2>2, <3>1, <3>2
  <2>4. given' \in [Milestones -> [Approvers -> Nat]]
    <3>1. given \in [Milestones -> [Approvers -> Nat]]
      BY <1>1 DEF TablesOK
    <3> QED BY <1>3, <2>1, <2>2, <3>1
  <2> QED BY <1>1, <1>15, <2>3, <2>4 DEF CreateApproval, TablesOK
<1>16. CASE Supersede(w)
  <2>1. m \in Milestones
    BY <1>2, <1>16 DEF Supersede
  <2> DEFINE next == [n \in DOMAIN versions[m] |-> Superseded(versions[m][n])]
  <2>2. versions' = [versions EXCEPT ![m] = next]
    BY <1>16 DEF Supersede
  <2>3. next \in Seq(Version)
    BY <1>4, <2>1, SupersedeOK
  <2> HIDE DEF next
  <2>4. versions' \in [Milestones -> Seq(Version)]
    BY <1>4, <2>2, <2>3
  <2> QED BY <1>1, <1>16, <2>4 DEF Supersede, TablesOK
<1>17. CASE RecordVersionCreate(w)
  <2>1. m \in Milestones
    BY <1>2, <1>17 DEF RecordVersionCreate
  <2>2. NewVersion \in Version
    BY BaseParts DEF NewVersion, Version, VersionStatus, RestOK
  <2>3. Append(versions[m], NewVersion) \in Seq(Version)
    BY <1>4, <2>1, <2>2
  <2>4. UNCHANGED versions
        \/ versions' = [versions EXCEPT ![m] = Append(versions[m], NewVersion)]
    BY <1>17 DEF RecordVersionCreate
  <2>5. versions' \in [Milestones -> Seq(Version)]
    BY <1>4, <2>3, <2>4
  <2> QED BY <1>1, <1>17, <2>5 DEF RecordVersionCreate, TablesOK
<1>18. CASE RejectVersion(w)
  <2>1. m \in Milestones
    BY <1>2, <1>18 DEF RejectVersion
  <2> DEFINE x == [versions[m][req[w].n] EXCEPT !.status = "REJECTED"]
  <2>2. req[w].n \in DOMAIN versions[m] => x \in Version
    <3>1. req[w].n \in DOMAIN versions[m] => versions[m][req[w].n] \in Version
      BY <1>4, <2>1
    <3> QED BY <3>1 DEF Version, VersionStatus
  <2>3. UNCHANGED versions \/ SetVersion(m, req[w].n, x)
    BY <1>18 DEF RejectVersion
  <2> HIDE DEF x
  <2>4. versions' \in [Milestones -> Seq(Version)]
    BY <1>4, <2>1, <2>2, <2>3, SetVersionOK
  <2> QED BY <1>1, <1>18, <2>4 DEF RejectVersion, TablesOK
<1>19. CASE ApproveVersion(w)
  <2>1. m \in Milestones
    BY <1>2, <1>19 DEF ApproveVersion
  <2> DEFINE x == [versions[m][req[w].n] EXCEPT !.status = "APPROVED"]
  <2>2. req[w].n \in DOMAIN versions[m] => x \in Version
    <3>1. req[w].n \in DOMAIN versions[m] => versions[m][req[w].n] \in Version
      BY <1>4, <2>1
    <3> QED BY <3>1 DEF Version, VersionStatus
  <2>3. UNCHANGED versions \/ SetVersion(m, req[w].n, x)
    BY <1>19 DEF ApproveVersion
  <2> HIDE DEF x
  <2>4. versions' \in [Milestones -> Seq(Version)]
    BY <1>4, <2>1, <2>2, <2>3, SetVersionOK
  <2> QED BY <1>1, <1>19, <2>4 DEF ApproveVersion, TablesOK
<1>20. CASE Unclaim(w)
  <2>1. m \in Milestones
    BY <1>2, <1>20 DEF Unclaim
  <2> DEFINE x == AfterFailure(versions[m][req[w].n])
  <2>2. req[w].n \in DOMAIN versions[m] => x \in Version
    <3>1. req[w].n \in DOMAIN versions[m] => versions[m][req[w].n] \in Version
      BY <1>4, <2>1
    <3> QED BY <3>1 DEF Version, AfterFailure
  <2>3. SetVersion(m, req[w].n, x)
    BY <1>20 DEF Unclaim
  <2> HIDE DEF x
  <2>4. versions' \in [Milestones -> Seq(Version)]
    BY <1>4, <2>1, <2>2, <2>3, SetVersionOK
  <2> QED BY <1>1, <1>20, <2>4 DEF Unclaim, TablesOK
<1>21. CASE EvaluateVersion(w)
  <2>1. PICK i \in req[w].todo :
          \/ UNCHANGED <<versions, sent>>
          \/ /\ SetVersion(i.m, i.n, [versions[i.m][i.n] EXCEPT !.expired = TRUE])
             /\ UNCHANGED sent
          \/ /\ SetVersion(i.m, i.n, [versions[i.m][i.n] EXCEPT !.r90 = TRUE, !.r50 = TRUE])
             /\ sent' = [sent EXCEPT ![i.m][90][i.n] = sent[i.m][90][i.n] + 1]
          \/ /\ SetVersion(i.m, i.n, [versions[i.m][i.n] EXCEPT !.r50 = TRUE])
             /\ sent' = [sent EXCEPT ![i.m][50][i.n] = sent[i.m][50][i.n] + 1]
    BY <1>21 DEF EvaluateVersion
  <2> DEFINE x == versions[i.m][i.n]
  <2>2. i.m \in Milestones
    BY <1>1 DEF Request, Item
  <2>3. i.n \in DOMAIN versions[i.m] =>
          /\ [x EXCEPT !.expired = TRUE] \in Version
          /\ [x EXCEPT !.r90 = TRUE, !.r50 = TRUE] \in Version
          /\ [x EXCEPT !.r50 = TRUE] \in Version
    <3>1. i.n \in DOMAIN versions[i.m] => x \in Version
      BY <1>4, <2>2
    <3> HIDE DEF x
    <3> QED BY <3>1 DEF Version
  <2>4. versions' \in [Milestones -> Seq(Version)]
    BY <1>4, <2>1, <2>2, <2>3, SetVersionOK
  <2>5. sent' \in [Milestones -> [{50, 90} -> [1..MaxVersions -> Nat]]]
    <3>1. sent \in [Milestones -> [{50, 90} -> [1..MaxVersions -> Nat]]]
      BY <1>1 DEF TablesOK
    <3>2. UNCHANGED sent \/ \E p \in {50, 90} :
            sent' = [sent EXCEPT ![i.m][p][i.n] = sent[i.m][p][i.n] + 1]
      BY <2>1
    <3>3. ASSUME NEW p \in {50, 90},
                 sent' = [sent EXCEPT ![i.m][p][i.n] = sent[i.m][p][i.n] + 1]
          PROVE  sent' \in [Milestones -> [{50, 90} -> [1..MaxVersions -> Nat]]]
      <4> DEFINE f == sent[i.m][p]
      <4>1. f \in [1..MaxVersions -> Nat]
        BY <2>2, <3>1
      <4>2. [f EXCEPT ![i.n] = f[i.n] + 1] \in [1..MaxVersions -> Nat]
        BY <4>1, CountOK
      <4>3. sent' = [sent EXCEPT ![i.m] = [sent[i.m] EXCEPT ![p] =
                       [f EXCEPT ![i.n] = f[i.n] + 1]]]
        BY <3>3
      <4> QED BY <2>2, <3>1, <4>2, <4>3
    <3> QED BY <3>1, <3>2, <3>3
  <2> QED BY <1>1, <1>21, <2>4, <2>5 DEF EvaluateVersion, TablesOK
<1>22. CASE InsertRelease(w)
  <2> DEFINE q == req[w]
             x == [NoRelease EXCEPT !.m = q.m, !.amount = q.terms.amount,
                      !.back = q.terms.back, !.rest = Amount - q.p - q.terms.amount,
                      !.signed = {q.party}, !.status = "PROPOSED"]
             free == {r \in ReleaseIds : release[r].status = "NONE"}
             least == CHOOSE i \in free : \A j \in free : i <= j
  <2>1. /\ q.m \in Milestones /\ Amount - q.p - q.terms.amount \in Nat
        /\ q.terms.amount \in Nat /\ q.terms.back \in BOOLEAN /\ q.party \in Parties
    <3>1. q.m \in Milestones /\ MayPay(q.terms.amount, Amount - q.p)
      BY <1>1, <1>2, <1>22 DEF InsertRelease, LocalOK
    <3>2. q.terms \in [amount : Nat, back : BOOLEAN] /\ q.p \in Nat /\ q.party \in Parties
      BY <1>1 DEF Request
    <3> QED BY <3>1, <3>2, AmountsAssumption DEF MayPay
  <2>2. x \in Release
    BY <2>1 DEF Release, NoRelease
  <2>3. \/ UNCHANGED release
        \/ release' = [release EXCEPT ![least] = x]
    BY <1>22 DEF InsertRelease, SetRelease
  <2> HIDE DEF x, least
  <2>4. release' \in [ReleaseIds -> Release]
    BY <1>5, <2>2, <2>3
  <2> QED BY <1>1, <1>22, <2>4 DEF InsertRelease, TablesOK
<1>23. CASE SignRelease(w)
  <2>1. req[w].r \in ReleaseIds /\ req[w].party \in Parties
    BY <1>1, <1>23 DEF SignRelease, LocalOK, OnRelease, ReleaseLabels, Request
  <2>2. release[req[w].r] \in Release
    BY <1>5, <2>1
  <2> DEFINE x == release[req[w].r]
             next == [x EXCEPT !.signed = x.signed \cup {req[w].party}]
  <2>3. next \in Release
    BY <2>1, <2>2 DEF Release
  <2>4. UNCHANGED release \/ SetRelease(req[w].r, next)
    BY <1>23 DEF SignRelease
  <2> HIDE DEF next
  <2>5. release' \in [ReleaseIds -> Release]
    BY <1>5, <2>3, <2>4 DEF SetRelease
  <2> QED BY <1>1, <1>23, <2>5 DEF SignRelease, TablesOK
<1>24. CASE DeclineRelease(w)
  <2>1. req[w].r \in ReleaseIds /\ req[w].party \in Parties
    BY <1>1, <1>24 DEF DeclineRelease, LocalOK, OnRelease, ReleaseLabels, Request
  <2>2. release[req[w].r] \in Release
    BY <1>5, <2>1
  <2> DEFINE x == release[req[w].r]
             next == [x EXCEPT !.status = "REJECTED"]
  <2>3. next \in Release
    BY <2>1, <2>2 DEF Release
  <2>4. UNCHANGED release \/ SetRelease(req[w].r, next)
    BY <1>24 DEF DeclineRelease
  <2> HIDE DEF next
  <2>5. release' \in [ReleaseIds -> Release]
    BY <1>5, <2>3, <2>4 DEF SetRelease
  <2> QED BY <1>1, <1>24, <2>5 DEF DeclineRelease, TablesOK
<1>25. CASE ClaimRelease(w)
  <2>1. req[w].r \in ReleaseIds /\ req[w].party \in Parties
    BY <1>1, <1>25 DEF ClaimRelease, LocalOK, OnRelease, ReleaseLabels, Request
  <2>2. release[req[w].r] \in Release
    BY <1>5, <2>1
  <2> DEFINE x == release[req[w].r]
             next == [x EXCEPT !.claimed = TRUE]
  <2>3. next \in Release
    BY <2>1, <2>2 DEF Release
  <2>4. UNCHANGED release \/ SetRelease(req[w].r, next)
    BY <1>25 DEF ClaimRelease
  <2> HIDE DEF next
  <2>5. release' \in [ReleaseIds -> Release]
    BY <1>5, <2>3, <2>4 DEF SetRelease
  <2> QED BY <1>1, <1>25, <2>5 DEF ClaimRelease, TablesOK
<1>26. CASE FailRelease(w)
  <2>1. req[w].r \in ReleaseIds /\ req[w].party \in Parties
    BY <1>1, <1>26 DEF FailRelease, LocalOK, OnRelease, ReleaseLabels, Request
  <2>2. release[req[w].r] \in Release
    BY <1>5, <2>1
  <2> DEFINE x == release[req[w].r]
             next == [x EXCEPT !.status = "FAILED", !.claimed = FALSE]
  <2>3. next \in Release
    BY <2>1, <2>2 DEF Release
  <2>4. UNCHANGED release \/ SetRelease(req[w].r, next)
    BY <1>26 DEF FailRelease
  <2> HIDE DEF next
  <2>5. release' \in [ReleaseIds -> Release]
    BY <1>5, <2>3, <2>4 DEF SetRelease
  <2> QED BY <1>1, <1>26, <2>5 DEF FailRelease, TablesOK
<1>27. CASE BookRelease(w)
  <2>3. m \in Milestones
    BY <1>2, <1>27 DEF BookRelease
  <2>1. req[w].r \in ReleaseIds /\ req[w].party \in Parties
    BY <1>1, <1>27 DEF BookRelease, LocalOK, OnRelease, ReleaseLabels, Request
  <2>2. release[req[w].r] \in Release
    BY <1>5, <2>1
  <2>4. Paid(req[w], release[req[w].r]) \in Nat
    BY <1>3, <2>2 DEF Paid, Release
  <2> DEFINE next == [row[m] EXCEPT !.paid = Paid(req[w], release[req[w].r]),
                        !.status = IF release[req[w].r].back THEN "CONFIRMED" ELSE @]
  <2>5. next \in RowType
    <3>1. row[m] \in RowType
      BY <1>4, <2>3
    <3> QED BY <2>4, <3>1 DEF RowType, Statuses
  <2>6. row' = [row EXCEPT ![m] = next]
    BY <1>4, <1>27, <2>3 DEF BookRelease
  <2> HIDE DEF next
  <2>7. row' \in [Milestones -> RowType]
    BY <1>4, <2>5, <2>6
  <2> QED BY <1>1, <1>27, <2>7 DEF BookRelease, TablesOK
<1>28. CASE FinishRelease(w)
  <2>1. req[w].r \in ReleaseIds /\ req[w].party \in Parties
    BY <1>1, <1>28 DEF FinishRelease, LocalOK, OnRelease, ReleaseLabels, Request
  <2>2. release[req[w].r] \in Release
    BY <1>5, <2>1
  <2> DEFINE x == release[req[w].r]
             next == [x EXCEPT !.status = "EXECUTED"]
  <2>3. next \in Release /\ x.rest \in Nat
    BY <2>2 DEF Release
  <2>4. /\ SetRelease(req[w].r, next)
        /\ refund' = [refund EXCEPT ![m] = IF x.back THEN x.rest ELSE @]
    BY <1>28 DEF FinishRelease
  <2> HIDE DEF next, x
  <2>5. release' \in [ReleaseIds -> Release]
    BY <1>5, <2>3, <2>4 DEF SetRelease
  <2>6. refund' \in [Milestones -> Nat]
    <3>1. refund \in [Milestones -> Nat]
      BY <1>1 DEF TablesOK
    <3> QED BY <2>3, <2>4, <3>1
  <2> QED BY <1>1, <1>28, <2>5, <2>6 DEF FinishRelease, TablesOK
<1> QED BY <1>6, <1>7, <1>8, <1>9, <1>10, <1>11, <1>12, <1>13, <1>14, <1>15,
       <1>16, <1>17, <1>18, <1>19, <1>20, <1>21, <1>22, <1>23, <1>24, <1>25,
       <1>26, <1>27, <1>28 DEF Step, RecordVersionFind, AssertReviewable,
       CountApprovals, MarkApprovedFind, EndSlaChecks, ProposeCheck, FindOpen,
       HasDualApproval, Acknowledge, Submit

\* The end of a job keeps the types of the keys.
LEMMA EndJobOK ==
    ASSUME locks \in [Jobs -> Workers \cup {Nobody, Dead}], NEW w \in Workers, NEW job,
           EndJob(w, job)
    PROVE  locks' \in [Jobs -> Workers \cup {Nobody, Dead}]
BY DEF EndJob

\* So does the failure of a call.
LEMMA RaiseKeys ==
    ASSUME locks \in [Jobs -> Workers \cup {Nobody, Dead}], NEW w \in Workers, Raise(w)
    PROVE  locks' \in [Jobs -> Workers \cup {Nobody, Dead}]
BY EndJobOK DEF Raise

\* Every statement and call of a handler keeps the types of everything else.
LEMMA LedgerStep ==
    ASSUME Base, NEW w \in Workers, Step(w)
    PROVE  LedgerOK' /\ RestOK'
<1>1. LedgerOK /\ RestOK /\ req[w] \in Request /\ LocalOK(req[w])
  BY BaseParts DEF HandlersOK
<1>2. CASE UNCHANGED <<ledger, locks, clocks, upset>>
  BY <1>1, <1>2 DEF LedgerOK, RestOK, ledger, clocks
<1>3. CASE \/ EndSlaChecks(w) \/ SendRetentionWarning(w) \/ MarkUnlockedByJob(w)
  <2>1. (\E job \in Jobs : EndJob(w, job)) /\ UNCHANGED <<ledger, clocks, upset>>
    BY <1>3 DEF EndSlaChecks, SendRetentionWarning, MarkUnlockedByJob, Jobs
  <2>2. locks' \in [Jobs -> Workers \cup {Nobody, Dead}]
    BY <1>1, <2>1, EndJobOK DEF RestOK
  <2> QED BY <1>1, <2>1, <2>2 DEF LedgerOK, RestOK, ledger, clocks
<1>4. CASE Acknowledge(w)
  BY <1>1, <1>4 DEF Acknowledge, LedgerOK, RestOK, clocks
<1>5. CASE Submit(w)
  <2> DEFINE t == [by |-> w, call |-> req[w].then, m |-> req[w].m, r |-> req[w].r]
  <2>1. t \in Tx
    BY <1>1, <1>5 DEF Submit, At, LocalOK, Request, Tx
  <2>2. net' \in SUBSET Tx
    BY <1>1, <1>5, <2>1 DEF Submit, LedgerOK
  <2>3. locks' \in [Jobs -> Workers \cup {Nobody, Dead}]
    BY <1>1, <1>5, RaiseKeys DEF Submit, RestOK
  <2>4. faults' \in Nat
    BY <1>1, <1>5 DEF Submit, Fault, RestOK
  <2> QED BY <1>1, <1>5, <2>2, <2>3, <2>4 DEF Submit, LedgerOK, RestOK
<1> QED BY <1>2, <1>3, <1>4, <1>5
        DEF Step, Supersede, RecordVersionFind, RecordVersionCreate, SetProofSubmitted,
            AssertReviewable, RejectVersion, Reopen, ForgetApprovals, CreateApproval,
            CountApprovals, MarkConfirmed, MarkApprovedFind, ApproveVersion,
            OverrideStatus, EvaluateVersion, Unclaim, ProposeCheck, InsertRelease,
            FindOpen, SignRelease, HasDualApproval, DeclineRelease, ClaimRelease,
            BookRelease, FinishRelease, FailRelease, ClearApprovals

\* A request that begins is consistent.
LEMMA BeginOK ==
    ASSUME HandlersOK, LedgerOK, NEW w \in Workers, NEW r \in Request, NEW what,
           LocalOK(r), Begin(w, r, what), net' = net
    PROVE  HandlersOK'
BY BecomeOK DEF Begin, At

\* The history of irregularities keeps its type.
Irregular == {"overlap", "override", "late", "crash", "disputed", "replaced", "outdated"}

\* What a free handler takes up: a request, a job or an event.
LEMMA TakeStep ==
    ASSUME Base, NEW w \in Workers, Take(w)
    PROVE  Base'
<1>1. HandlersOK /\ TablesOK /\ LedgerOK /\ RestOK
  BY BaseParts
<1>2. Idle \in Request
  BY IdleOK
<1>3. \A m \in Milestones : row[m] \in RowType /\ Latest(m) \in Nat
  BY <1>1 DEF TablesOK, Latest
<1>4. ASSUME NEW r \in Request, NEW what \in SUBSET Irregular, LocalOK(r),
             Call(w, r, what), UNCHANGED <<tables, ledger, locks, now, faults, scope>>
      PROVE  Base'
  <2>1. HandlersOK'
    BY <1>1, <1>4, BeginOK DEF Call, ledger
  <2>2. TablesOK' /\ LedgerOK'
    BY <1>1, <1>4 DEF TablesOK, LedgerOK, tables, ledger
  <2>3. RestOK'
    BY <1>1, <1>4 DEF Call, Begin, RestOK, Irregular
  <2> QED BY <2>1, <2>2, <2>3, PartsBase
<1>5. ASSUME NEW m \in Milestones, SubmitProof(w, m) PROVE Base'
  <2> DEFINE r == [Idle EXCEPT !.pc = "supersede", !.then = "setSubmitted", !.m = m]
  <2>1. r \in Request /\ LocalOK(r)
    BY <1>2 DEF Idle, Request, Labels, LocalOK, OnRelease, ReleaseLabels
  <2> HIDE DEF r
  <2> QED BY <1>4, <1>5, <2>1 DEF SubmitProof, r
<1>6. ASSUME NEW m \in Milestones, NEW v \in Nat, RejectProof(w, m, v) PROVE Base'
  <2> DEFINE r == [Idle EXCEPT !.pc = "review", !.then = "rejectVersion", !.m = m, !.v = v]
  <2>1. r \in Request /\ LocalOK(r)
    BY <1>2 DEF Idle, Request, Labels, LocalOK, OnRelease, ReleaseLabels
  <2> HIDE DEF r
  <2> QED BY <1>4, <1>6, <2>1 DEF RejectProof, r
<1>7. ASSUME NEW m \in Milestones, NEW v \in Nat, NEW u \in Approvers,
             ApproveMilestone(w, m, u, v)
      PROVE  Base'
  <2> DEFINE r == [Idle EXCEPT !.pc = "review", !.then = "approve", !.m = m, !.u = u,
                               !.v = v]
  <2>1. r \in Request /\ LocalOK(r)
    BY <1>2 DEF Idle, Request, Labels, LocalOK, OnRelease, ReleaseLabels
  <2> HIDE DEF r
  <2> QED BY <1>4, <1>7, <2>1 DEF ApproveMilestone, r
<1>8. ASSUME NEW m \in Milestones, NEW s \in Statuses, AdminOverride(w, m, s) PROVE Base'
  <2> DEFINE r == [Idle EXCEPT !.pc = "override", !.m = m, !.s = s]
  <2>1. r \in Request /\ LocalOK(r)
    BY <1>2 DEF Idle, Request, Labels, LocalOK, OnRelease, ReleaseLabels
  <2> HIDE DEF r
  <2> QED BY <1>4, <1>8, <2>1 DEF AdminOverride, r, Irregular
<1>9. ASSUME NEW m \in Milestones, NEW party \in Parties,
             NEW terms \in [amount : Nat, back : BOOLEAN],
             ProposeRelease(w, m, party, terms)
      PROVE  Base'
  <2> DEFINE r == [Idle EXCEPT !.pc = "propose", !.m = m, !.party = party,
                               !.p = row[m].paid, !.terms = terms]
  <2>1. row[m].paid \in Nat
    BY <1>3 DEF RowType
  <2>2. r \in Request /\ LocalOK(r)
    BY <1>2, <2>1 DEF Idle, Request, Labels, LocalOK, OnRelease, ReleaseLabels
  <2> HIDE DEF r
  <2> QED BY <1>4, <1>9, <2>2 DEF ProposeRelease, r
<1>10. ASSUME NEW m \in Milestones, NEW party \in Parties, NEW k \in ReleaseIds,
              NEW then \in {"sign", "decline"}, AnswerRelease(w, m, k, party, then)
       PROVE  Base'
  <2> DEFINE r == [Idle EXCEPT !.pc = "find", !.then = then, !.m = m, !.r = k,
                               !.party = party, !.p = row[m].paid]
  <2>1. row[m].paid \in Nat /\ k # 0
    BY <1>3 DEF RowType, ReleaseIds
  <2>2. r \in Request /\ LocalOK(r)
    BY <1>2, <2>1 DEF Idle, Request, Labels, LocalOK, OnRelease, ReleaseLabels
  <2> HIDE DEF r
  <2> QED BY <1>4, <1>10, <2>2 DEF AnswerRelease, r
<1>11. ASSUME NEW r \in Request, LocalOK(r), NEW job \in Jobs, Begin(w, r, {}),
              locks' = [locks EXCEPT ![job] = w], UNCHANGED <<tables, ledger, clocks>>
       PROVE  Base'
  <2>1. HandlersOK'
    BY <1>1, <1>11, BeginOK DEF ledger
  <2>2. TablesOK' /\ LedgerOK'
    BY <1>1, <1>11 DEF TablesOK, LedgerOK, tables, ledger
  <2>3. upset' \subseteq Irregular
    BY <1>1, <1>11 DEF Begin, RestOK, Irregular
  <2>4. locks' \in [Jobs -> Workers \cup {Nobody, Dead}]
    BY <1>1, <1>11 DEF RestOK
  <2>5. RestOK'
    BY <1>1, <1>11, <2>3, <2>4 DEF RestOK, clocks, Irregular
  <2> QED BY <2>1, <2>2, <2>5, PartsBase
<1>12. ASSUME NEW m \in Milestones, RetentionTick(w, m) PROVE Base'
  <2>1. now \in Nat
    BY <1>1 DEF RestOK
  <2>2. PICK pc \in {"submit", "scan"} :
          Begin(w, [Idle EXCEPT !.pc = pc, !.then = "unlock", !.m = m, !.t = now], {})
    BY <1>12 DEF RetentionTick
  <2> DEFINE r == [Idle EXCEPT !.pc = pc, !.then = "unlock", !.m = m, !.t = now]
  <2>3. r \in Request
    BY <1>2, <2>1 DEF Idle, Request, Labels, Calls
  <2>4. LocalOK(r)
    BY <1>2 DEF Idle, Request, Calls, LocalOK, OnRelease, ReleaseLabels
  <2>5. Begin(w, r, {})
    BY <2>2
  <2> HIDE DEF r
  <2> QED BY <1>11, <1>12, <2>3, <2>4, <2>5 DEF RetentionTick, Jobs
<1>13. ASSUME RunProofSlaChecks(w) PROVE Base'
  <2> DEFINE pending == {i \in Milestones \X (1..MaxVersions) :
                           /\ i[2] <= Latest(i[1])
                           /\ versions[i[1]][i[2]].status = "SUBMITTED"
                           /\ ~versions[i[1]][i[2]].expired
                           /\ row[i[1]].status = "PROOF_SUBMITTED"}
             batch == {[m |-> i[1], n |-> i[2], v |-> versions[i[1]][i[2]]] : i \in pending}
             r == [Idle EXCEPT !.pc = "sla", !.t = now, !.todo = batch]
  <2>1. Tick(w, "sla", "sla", batch)
    BY <1>13 DEF RunProofSlaChecks
  <2>2. batch \in SUBSET Item
    <3> SUFFICES ASSUME NEW i \in pending
                 PROVE  [m |-> i[1], n |-> i[2], v |-> versions[i[1]][i[2]]] \in Item
      OBVIOUS
    <3>1. i[1] \in Milestones /\ i[2] \in 1..MaxVersions /\ i[2] <= Latest(i[1])
      OBVIOUS
    <3>2. versions[i[1]] \in Seq(Version)
      BY <1>1, <3>1 DEF TablesOK
    <3>3. i[2] \in 1..Len(versions[i[1]])
      BY <3>1, <3>2, BoundsAssumption DEF Latest
    <3>4. versions[i[1]][i[2]] \in Version
      BY <3>2, <3>3
    <3> QED BY <3>1, <3>4, BoundsAssumption DEF Item
  <2> HIDE DEF batch
  <2>3. now \in Nat
    BY <1>1 DEF RestOK
  <2>4. r \in Request /\ LocalOK(r)
    BY <1>2, <2>2, <2>3 DEF Idle, Request, Labels, LocalOK, OnRelease, ReleaseLabels
  <2> HIDE DEF r
  <2> QED BY <1>11, <2>1, <2>4 DEF Tick, Jobs, r
<1>14. ASSUME NEW e \in events, HandleEvent(w, e) PROVE Base'
  <2>1. e \in Event
    BY <1>1, <1>14 DEF LedgerOK
  <2>2. PICK next \in {"latest", "clear", "ack"}, what \in {{}, {"outdated"}} :
          Begin(w, [Idle EXCEPT !.pc = next, !.then = "ack", !.m = e.m, !.e = e.id], what)
    BY <1>14 DEF HandleEvent
  <2> DEFINE r == [Idle EXCEPT !.pc = next, !.then = "ack", !.m = e.m, !.e = e.id]
  <2>3. r \in Request /\ LocalOK(r)
    BY <1>2, <2>1 DEF Idle, Request, Labels, LocalOK, OnRelease, ReleaseLabels, Event
  <2> HIDE DEF r
  <2>4. Begin(w, r, what) /\ net' = net
    BY <1>14, <2>2 DEF HandleEvent, ledger, r
  <2>5. HandlersOK'
    BY <1>1, <2>3, <2>4, BeginOK
  <2>6. upset' \subseteq Irregular /\ faults' \in Nat
    BY <1>1, <1>14, <2>2, <2>4 DEF Begin, HandleEvent, Fault, RestOK, Irregular
  <2>7. row' \in [Milestones -> RowType]
    <3> DEFINE next_row == IF e.kind = "replacement_requested"
                           THEN ResetForReplacement(e.m)
                           ELSE [row[e.m] EXCEPT
                                   !.status = EventStatus(e.kind),
                                   !.paid = IF e.kind = "milestone_confirmed"
                                            THEN e.amount ELSE row[e.m].paid]
    <3>1. row[e.m] \in RowType /\ e.m \in Milestones /\ e.amount \in Nat
          /\ e.kind \in EventKinds /\ now + Retention \in Nat
      BY <1>1, <1>3, <2>1, AmountsAssumption DEF Event, RestOK
    <3>2. next_row \in RowType
      BY <3>1 DEF EventKinds, EventStatus, ResetForReplacement, RowType, Statuses
    <3>3. row' = [row EXCEPT ![e.m] = next_row]
      BY <1>14 DEF HandleEvent
    <3> HIDE DEF next_row
    <3> QED BY <1>1, <3>2, <3>3 DEF TablesOK
  <2>8. TablesOK' /\ LedgerOK'
    BY <1>1, <1>14, <2>7 DEF HandleEvent, TablesOK, LedgerOK, ledger
  <2>9. RestOK'
    BY <1>1, <1>14, <2>6 DEF HandleEvent, RestOK, Irregular
  <2> QED BY <2>5, <2>8, <2>9, PartsBase
<1>15. MaxVersions \in Nat /\ Amount \in Nat
  BY BoundsAssumption, AmountsAssumption
<1>16. ASSUME NEW m \in Milestones, \E s \in Statuses : BulkUpdateStatus(w, m, s)
       PROVE  Base'
  BY <1>8, <1>16 DEF BulkUpdateStatus
<1>17. ASSUME NEW m \in Milestones, NEW party \in Parties,
              \E amount \in 1..(Amount + 1), back \in BOOLEAN :
                 ProposeRelease(w, m, party, [amount |-> amount, back |-> back])
       PROVE  Base'
  BY <1>9, <1>15, <1>17
<1>18. ASSUME NEW m \in Milestones, NEW party \in Parties,
              \E r \in ReleaseIds :
                 ApproveRelease(w, m, r, party) \/ RejectRelease(w, m, r, party)
       PROVE  Base'
  BY <1>10, <1>18 DEF ApproveRelease, RejectRelease
<1>19. ASSUME NEW m \in Milestones, \E s \in {"PENDING", "CONFIRMED"} : AdminOverride(w, m, s)
       PROVE  Base'
  BY <1>8, <1>19 DEF Statuses
<1>20. ASSUME NEW m \in Milestones,
              \E v \in 0..MaxVersions :
                 RejectProof(w, m, v) \/ \E u \in Approvers : ApproveMilestone(w, m, u, v)
       PROVE  Base'
  BY <1>6, <1>7, <1>15, <1>20
<1> QED BY <1>5, <1>12, <1>13, <1>14, <1>16, <1>17, <1>18, <1>19, <1>20 DEF Take

\* The parties act on the contract without the backend.
LEMMA ContractTyped ==
    ASSUME Base, NEW m \in Milestones, Contract(m)
    PROVE  Base'
<1>1. HandlersOK /\ TablesOK /\ LedgerOK /\ RestOK
  BY BaseParts
<1>2. /\ chain[m].left \in Nat /\ chain[m].got \in Nat
      /\ emitted \in Nat /\ now \in Nat /\ Retention \in Nat
  BY <1>1, AmountsAssumption DEF LedgerOK, RestOK
<1>3. /\ UNCHANGED <<tables, net, locks, req, now, faults, scope>>
      /\ calls' = calls + 1
      /\ upset' \subseteq Irregular
      /\ \E kind \in EventKinds : Emit(kind, m, 0)
  BY <1>1 DEF Contract, SubmitProofOnChain, RaiseDispute, RejectDispute, ApproveDispute,
       RequestReplacement, ContractStep, EventKinds, Irregular, RestOK
<1>4. \/ \E st \in {"PROOF", "DISPUTED", "PENDING"} : chain' = [chain EXCEPT ![m].st = st]
      \/ chain' = [chain EXCEPT ![m].st = "DONE", ![m].got = @ + chain[m].left,
                                ![m].left = 0]
      \/ \E c \in {[chain[m] EXCEPT !.st = "PENDING"], chain[m],
                   [chain[m] EXCEPT !.st = "LOCKED", !.until = now + Retention]} :
           chain' = [chain EXCEPT ![m] = c]
  BY DEF Contract, SubmitProofOnChain, RaiseDispute, RejectDispute, ApproveDispute,
         RequestReplacement, ContractStep
<1> DEFINE ChainType == [st : {"LOCKED", "PENDING", "PROOF", "DISPUTED", "DONE"},
                         left : Nat, got : Nat, until : Nat]
<1>5. chain' \in [Milestones -> ChainType]
  <2>1. chain \in [Milestones -> ChainType] /\ chain[m] \in ChainType
    BY <1>1 DEF LedgerOK
  <2>2. ASSUME NEW c \in ChainType, chain' = [chain EXCEPT ![m] = c]
        PROVE  chain' \in [Milestones -> ChainType]
    <3> HIDE DEF ChainType
    <3> QED BY <2>1, <2>2
  <2>3. CASE \E st \in {"PROOF", "DISPUTED", "PENDING"} : chain' = [chain EXCEPT ![m].st = st]
    <3>1. PICK st \in {"PROOF", "DISPUTED", "PENDING"} : chain' = [chain EXCEPT ![m].st = st]
      BY <2>3
    <3>2. [chain[m] EXCEPT !.st = st] \in ChainType
      BY <2>1
    <3> QED BY <2>2, <3>1, <3>2
  <2>4. CASE chain' = [chain EXCEPT ![m].st = "DONE", ![m].got = @ + chain[m].left,
                                    ![m].left = 0]
    <3> DEFINE c == [chain[m] EXCEPT !.st = "DONE", !.got = chain[m].got + chain[m].left,
                                     !.left = 0]
    <3>1. chain[m] \in ChainType /\ chain[m].got + chain[m].left \in Nat
      BY <1>2, <2>1
    <3>2. c \in ChainType
      BY <3>1
    <3>3. chain' = [chain EXCEPT ![m] = c]
      BY <2>4
    <3> HIDE DEF c, ChainType
    <3> QED BY <2>2, <3>2, <3>3
  <2>5. ASSUME NEW c \in {[chain[m] EXCEPT !.st = "PENDING"], chain[m],
                          [chain[m] EXCEPT !.st = "LOCKED", !.until = now + Retention]}
        PROVE  c \in ChainType
    <3>1. chain[m] \in ChainType /\ now + Retention \in Nat
      BY <1>2, <2>1
    <3> QED BY <3>1
  <2> HIDE DEF ChainType
  <2> QED BY <1>4, <2>2, <2>3, <2>4, <2>5
<1>6. events' \subseteq Event /\ emitted' \in Nat
  BY <1>1, <1>2, <1>3 DEF LedgerOK, Emit, Event
<1>7. LedgerOK'
  BY <1>1, <1>3, <1>5, <1>6 DEF LedgerOK
<1>8. HandlersOK' /\ TablesOK'
  BY <1>1, <1>3 DEF HandlersOK, TxOK, TablesOK, tables
<1>9. RestOK'
  BY <1>1, <1>3 DEF RestOK, Irregular
<1> QED BY <1>7, <1>8, <1>9, PartsBase

\* A transaction is included: the contract, the events and the payment.
LEMMA LandTyped ==
    ASSUME Base, NEW t \in net, Land(t)
    PROVE  Base'
<1>1. HandlersOK /\ TablesOK /\ LedgerOK /\ RestOK
  BY BaseParts
<1>2. t \in Tx /\ TxOK(t)
  BY <1>1 DEF LedgerOK, HandlersOK
<1> DEFINE m == t.m
           c == chain[m]
           amount == IF t.r = 0 THEN 0 ELSE release[t.r].amount
           ok == Accepts(t.call, m, t.r)
           ChainType == [st : {"LOCKED", "PENDING", "PROOF", "DISPUTED", "DONE"},
                         left : Nat, got : Nat, until : Nat]
<1>3. chain \in [Milestones -> ChainType] /\ m \in Milestones /\ c \in ChainType
  BY <1>1, <1>2 DEF LedgerOK, Tx
<1>4. t.r # 0 => t.r \in ReleaseIds /\ release[t.r] \in Release
  BY <1>1, <1>2 DEF TablesOK, Tx
<1>5. amount \in Nat
  BY <1>4 DEF Release
<1>6. t.call = "partial" /\ ok => t.r # 0 /\ c.left - amount \in Nat
  BY <1>2, <1>3, <1>5 DEF Accepts, TxOK, PayCalls
<1>7. UNCHANGED <<row, approvals, given, versions, refund, sent, clocks, upset>>
  BY DEF Land
<1>8. /\ chain' \in [Milestones -> ChainType] /\ events' \subseteq Event /\ emitted' \in Nat
      /\ release' \in [ReleaseIds -> Release]
  <2>1. CASE ~ok
    BY <1>1, <2>1 DEF Land, LedgerOK, TablesOK
  <2>2. CASE ok /\ t.call \in PayCalls
    <3>1. /\ chain' = [chain EXCEPT ![m].st = "DONE", ![m].got = c.got + c.left,
                                    ![m].left = 0]
          /\ Emit("milestone_confirmed", m, c.got + c.left) /\ UNCHANGED release
      BY <2>2 DEF Land, PayCalls
    <3>2. c.got + c.left \in Nat /\ emitted + 1 \in Nat
      BY <1>1, <1>3 DEF LedgerOK
    <3>3. chain' \in [Milestones -> ChainType]
      BY <1>3, <3>1, <3>2
    <3>4. events' \subseteq Event /\ emitted' \in Nat
      BY <1>1, <1>3, <3>1, <3>2 DEF LedgerOK, Emit, Event, EventKinds
    <3> QED BY <1>1, <3>1, <3>3, <3>4 DEF TablesOK
  <2>3. CASE ok /\ t.call = "partial"
    <3>1. /\ chain' = [chain EXCEPT
                 ![m].st = IF release[t.r].back THEN "DONE" ELSE @,
                 ![m].got = @ + amount,
                 ![m].left = IF release[t.r].back THEN 0 ELSE @ - amount]
          /\ release' = [release EXCEPT ![t.r].paid = @ + amount]
          /\ UNCHANGED <<events, emitted>>
      BY <2>3 DEF Land, PayCalls
    <3>2. chain' \in [Milestones -> ChainType]
      BY <1>3, <1>5, <1>6, <2>3, <3>1
    <3>3. [release[t.r] EXCEPT !.paid = @ + amount] \in Release
      BY <1>4, <1>5, <1>6, <2>3 DEF Release
    <3>4. release' \in [ReleaseIds -> Release]
      BY <1>1, <3>1, <3>3 DEF TablesOK
    <3> QED BY <1>1, <3>1, <3>2, <3>4 DEF LedgerOK
  <2>4. CASE ok /\ t.call = "unlock"
    <3>1. /\ chain' = [chain EXCEPT ![m].st = "PENDING"]
          /\ Emit("milestone_unlocked", m, 0) /\ UNCHANGED release
      BY <2>4 DEF Land, PayCalls
    <3>2. chain' \in [Milestones -> ChainType]
      BY <1>3, <3>1
    <3>3. events' \subseteq Event /\ emitted' \in Nat
      BY <1>1, <1>3, <3>1 DEF LedgerOK, Emit, Event, EventKinds
    <3> QED BY <1>1, <3>1, <3>2, <3>3 DEF TablesOK
  <2> QED BY <1>2, <2>1, <2>2, <2>3, <2>4 DEF Tx, Calls, PayCalls
<1>9. net' = net \ {t}
  BY DEF Land
<1>10. HandlersOK' /\ locks' \in [Jobs -> Workers \cup {Nobody, Dead}]
  <2>1. CASE t.by = Nobody
    BY <1>1, <1>9, <2>1 DEF Land, HandlersOK, TxOK, RestOK
  <2>2. CASE t.by # Nobody
    <3> DEFINE w == t.by
    <3>1. /\ w \in Workers /\ At(w, "wait") /\ req[w].then = t.call
          /\ req[w] \in Request /\ LocalOK(req[w])
      BY <1>1, <1>2, <2>2 DEF Tx, TxOK, At, HandlersOK
    <3>2. \A o \in net' : o \in net /\ o.by # w
      BY <1>1, <1>9, <2>2, OneTx
    <3>3. CASE Raise(w)
      BY <1>1, <3>1, <3>2, <3>3, RaiseOK, RaiseKeys DEF RestOK
    <3>4. CASE Goto(w, OnSuccess(t.call)) /\ UNCHANGED locks
      <4> DEFINE r == [req[w] EXCEPT !.pc = OnSuccess(t.call)]
      <4>1. OnSuccess(t.call) \in {"confirm", "autoConfirm", "book", "unlocked"}
        BY <1>2 DEF OnSuccess, Tx, Calls
      <4>2. t.call = "partial" <=> OnSuccess(t.call) = "book"
        BY <1>2 DEF OnSuccess, Tx, Calls
      <4>3. r \in Request
        BY <3>1, <4>1 DEF Request, Labels
      <4>4. LocalOK(r)
        BY <3>1, <4>1, <4>2 DEF LocalOK, Request, OnRelease, ReleaseLabels, At
      <4>5. Become(w, r)
        BY <3>4 DEF Goto
      <4> HIDE DEF r
      <4> QED BY <1>1, <3>1, <3>2, <3>4, <4>3, <4>4, <4>5, BecomeAndSend DEF RestOK
    <3> QED BY <2>2, <3>3, <3>4 DEF Land
  <2> QED BY <2>1, <2>2
<1>11. LedgerOK'
  BY <1>1, <1>8, <1>9 DEF LedgerOK
<1>12. TablesOK'
  BY <1>1, <1>7, <1>8 DEF TablesOK
<1>13. RestOK'
  BY <1>1, <1>7, <1>10 DEF RestOK, clocks
<1> QED BY <1>10, <1>11, <1>12, <1>13, PartsBase

\* A transaction is given up, whether it will be included or not.
LEMMA GiveUpTyped ==
    ASSUME Base, NEW t \in net, Expire(t) \/ GiveUp(t)
    PROVE  Base'
<1>1. HandlersOK /\ TablesOK /\ LedgerOK /\ RestOK
  BY BaseParts
<1>2. t \in Tx /\ TxOK(t)
  BY <1>1 DEF LedgerOK, HandlersOK
<1> DEFINE w == t.by
           late == [t EXCEPT !.by = Nobody]
<1>3. /\ w # Nobody /\ Raise(w) /\ faults' \in Nat
      /\ upset' \in {upset, upset \cup {"late"}}
      /\ UNCHANGED <<tables, chain, events, emitted, now, calls, scope>>
      /\ net' = net \ {t} \/ net' = (net \ {t}) \cup {late}
  BY <1>1 DEF Expire, GiveUp, Fault, RestOK
<1>4. /\ w \in Workers /\ At(w, "wait") /\ late \in Tx /\ late.by = Nobody
      /\ late.r # 0 <=> late.call = "partial"
  BY <1>2, <1>3 DEF Tx, TxOK, At
<1> HIDE DEF late
<1>5. \A o \in net' : (o \in net /\ o.by # w) \/ o = late
  BY <1>1, <1>3, OneTx
<1>6. HandlersOK'
  BY <1>1, <1>3, <1>4, <1>5, RaiseOK
<1>7. TablesOK' /\ LedgerOK'
  BY <1>1, <1>3, <1>4 DEF TablesOK, LedgerOK, tables
<1>8. RestOK'
  BY <1>1, <1>3, <1>4, RaiseKeys DEF RestOK
<1> QED BY <1>6, <1>7, <1>8, PartsBase

\* The process of a handler stops.
LEMMA CrashTyped ==
    ASSUME Base, NEW w \in Workers, Crash(w)
    PROVE  Base'
<1>1. HandlersOK /\ TablesOK /\ LedgerOK /\ RestOK
  BY BaseParts
<1> DEFINE Orphan(t) == [t EXCEPT !.by = IF @ = w THEN Nobody ELSE @]
<1>2. net' = {Orphan(t) : t \in net}
  BY DEF Crash
<1>3. ASSUME NEW t \in net
      PROVE  /\ Orphan(t) \in Tx
             /\ t.by # w => Orphan(t) = t
             /\ t.by = w => Orphan(t).by = Nobody
             /\ Orphan(t).r # 0 <=> Orphan(t).call = "partial"
  BY <1>1 DEF LedgerOK, Tx, HandlersOK, TxOK
<1> HIDE DEF Orphan
<1>4. \A o \in net' : \/ o \in net /\ o.by # w
                      \/ o.by = Nobody /\ (o.r # 0 <=> o.call = "partial")
  BY <1>2, <1>3
<1>5. HandlersOK'
  BY <1>1, <1>4, IdleOK, BecomeAndSend DEF Crash, Done
<1>6. TablesOK' /\ LedgerOK'
  BY <1>1, <1>2, <1>3 DEF Crash, TablesOK, LedgerOK, tables
<1>7. RestOK'
  BY <1>1 DEF Crash, Fault, RestOK
<1> QED BY <1>5, <1>6, <1>7, PartsBase

\* The types and locals hold at the start.
LEMMA BaseInit == Init => Base
<1> SUFFICES ASSUME Init PROVE Base
  OBVIOUS
<1>1. scope.kind \in {"PLACEMENT", "RETENTION"} /\ scope \in Scopes
  BY BoundsAssumption DEF Init
<1>2. HandlersOK
  BY IdleOK DEF Init, HandlersOK
<1>3. TablesOK
  <2>1. row \in [Milestones -> RowType]
    BY <1>1, AmountsAssumption DEF Init, RowType, Statuses
  <2>2. release \in [ReleaseIds -> Release]
    BY DEF Init, Release, NoRelease
  <2>3. sent \in [Milestones -> [{50, 90} -> [1..MaxVersions -> Nat]]]
    BY DEF Init
  <2>4. versions \in [Milestones -> Seq(Version)]
    BY DEF Init
  <2> QED BY <2>1, <2>2, <2>3, <2>4 DEF Init, TablesOK
<1>4. LedgerOK
  BY <1>1, AmountsAssumption DEF Init, LedgerOK
<1>5. RestOK
  BY <1>1 DEF Init, RestOK
<1> QED BY <1>2, <1>3, <1>4, <1>5, BaseParts

\* Every step keeps them.
LEMMA BaseStep == Base /\ [Next]_vars => Base'
<1> SUFFICES ASSUME Base, [Next]_vars PROVE Base'
  OBVIOUS
<1>1. CASE UNCHANGED vars
  BY <1>1 DEF vars, tables, ledger, clocks, Base, TypeOK, TxOK
<1>2. ASSUME NEW w \in Workers, Take(w) \/ Step(w) \/ Crash(w) PROVE Base'
  BY <1>2, TakeStep, HandlersStep, TablesStep, LedgerStep, CrashTyped, PartsBase
<1>3. ASSUME NEW j \in Jobs, ExpireLock(j) PROVE Base'
  BY <1>3 DEF ExpireLock, Fault, tables, ledger, Base, TypeOK, TxOK
<1>4. ASSUME NEW t \in scope.times, Later(t) PROVE Base'
  <2>1. t \in Nat
    BY BoundsAssumption DEF Base, TypeOK
  <2> QED BY <1>4, <2>1 DEF Later, tables, ledger, Base, TypeOK, TxOK
<1> QED
  BY <1>1, <1>2, <1>3, <1>4, ContractTyped, LandTyped, GiveUpTyped DEF Next

\* Type correctness: every statement, contract call, event, fault and tick of the
\* milestone services keeps the types of the database, the contract and the handlers.
THEOREM TypeCorrect == Spec => []TypeOK
<1>1. Base => TypeOK
  BY DEF Base
<1> QED BY <1>1, BaseInit, BaseStep, PTL DEF Spec

-----------------------------------------------------------------------------
(* How a handler's locals move *)

\* A jump changes the label only.
LEMMA GotoFields ==
    ASSUME HandlersOK, NEW w \in Workers, NEW label, Goto(w, label)
    PROVE  /\ \A v \in Workers \ {w} : req'[v] = req[v]
           /\ req'[w].pc = label /\ req'[w].then = req[w].then
           /\ req'[w].m = req[w].m /\ req'[w].n = req[w].n /\ req'[w].r = req[w].r
           /\ req'[w].todo = req[w].todo
BY DEF HandlersOK, Goto, Become, Request

\* A handler's step changes its own entry only.
LEMMA BecomeFields ==
    ASSUME HandlersOK, NEW w \in Workers, NEW r, Become(w, r)
    PROVE  req'[w] = r /\ \A v \in Workers \ {w} : req'[v] = req[v]
BY DEF HandlersOK, Become

\* The end of a request forgets everything.
LEMMA DoneFields ==
    ASSUME HandlersOK, NEW w \in Workers, Done(w)
    PROVE  /\ \A v \in Workers \ {w} : req'[v] = req[v]
           /\ req'[w].pc = "idle" /\ req'[w].r = 0 /\ req'[w].todo = {}
BY DEF HandlersOK, Done, Become, Idle

\* So does a failed call, but for the two that have something to undo.
LEMMA RaiseFields ==
    ASSUME HandlersOK, NEW w \in Workers, At(w, "submit") \/ At(w, "wait"), Raise(w)
    PROVE  /\ \A v \in Workers \ {w} : req'[v] = req[v]
           /\ \/ req[w].then \in {"approve", "unlock"} /\ Done(w)
              \/ req[w].then = "auto" /\ Goto(w, "unclaim")
              \/ req[w].then = "partial" /\ Goto(w, "fail")
<1>1. req[w].then \in Calls
  BY DEF HandlersOK, LocalOK, At
<1>2. \/ req[w].then \in {"approve", "unlock"} /\ Done(w)
      \/ req[w].then = "auto" /\ Goto(w, "unclaim")
      \/ req[w].then = "partial" /\ Goto(w, "fail")
  BY <1>1 DEF Raise, EndJob, Calls
<1> QED BY <1>2, GotoFields, DoneFields

\* A handler takes hold of a payment only by claiming its release.
LEMMA PayingMoves ==
    ASSUME Base, NEW w \in Workers, Step(w)
    PROVE  /\ \A v \in Workers \ {w} : req'[v] = req[v]
           /\ (req'[w].r # 0 /\ req'[w].pc \in PayingLabels) =>
                 /\ req'[w].r = req[w].r
                 /\ \/ req[w].pc \in PayingLabels
                    \/ ClaimRelease(w) /\ Executable(release[req[w].r])
           /\ req'[w].todo \in SUBSET req[w].todo
           /\ req'[w].pc = "create" => RecordVersionFind(w)

<1>1. HandlersOK /\ req \in [Workers -> Request] /\ req[w] \in Request /\ LocalOK(req[w])
  BY BaseParts DEF HandlersOK
<1> USE DEF At, PayingLabels
<1>2. CASE Supersede(w)
  BY <1>1, <1>2, GotoFields DEF Supersede
<1>3. CASE SetProofSubmitted(w)
  BY <1>1, <1>3, DoneFields DEF SetProofSubmitted
<1>4. CASE Reopen(w)
  BY <1>1, <1>4, GotoFields DEF Reopen
<1>5. CASE ForgetApprovals(w)
  BY <1>1, <1>5, DoneFields DEF ForgetApprovals
<1>6. CASE OverrideStatus(w)
  BY <1>1, <1>6, DoneFields DEF OverrideStatus
<1>7. CASE EndSlaChecks(w)
  BY <1>1, <1>7, DoneFields DEF EndSlaChecks, EndJob
<1>8. CASE Unclaim(w)
  BY <1>1, <1>8, GotoFields DEF Unclaim
<1>9. CASE SendRetentionWarning(w)
  BY <1>1, <1>9, DoneFields DEF SendRetentionWarning, EndJob
<1>10. CASE MarkUnlockedByJob(w)
  BY <1>1, <1>10, DoneFields DEF MarkUnlockedByJob, EndJob
<1>11. CASE InsertRelease(w)
  BY <1>1, <1>11, DoneFields DEF InsertRelease
<1>12. CASE DeclineRelease(w)
  BY <1>1, <1>12, DoneFields DEF DeclineRelease
<1>13. CASE BookRelease(w)
  BY <1>1, <1>13, GotoFields DEF BookRelease
<1>14. CASE FinishRelease(w)
  BY <1>1, <1>14, DoneFields DEF FinishRelease
<1>15. CASE FailRelease(w)
  BY <1>1, <1>15, DoneFields DEF FailRelease
<1>16. CASE ClearApprovals(w)
  BY <1>1, <1>16, GotoFields DEF ClearApprovals
<1>17. CASE Acknowledge(w)
  BY <1>1, <1>17, DoneFields DEF Acknowledge
<1>18. CASE RejectVersion(w)
  BY <1>1, <1>18, DoneFields, GotoFields DEF RejectVersion
<1>19. CASE CreateApproval(w)
  BY <1>1, <1>19, DoneFields, GotoFields DEF CreateApproval
<1>20. CASE MarkConfirmed(w)
  BY <1>1, <1>20, DoneFields, GotoFields DEF MarkConfirmed
<1>21. CASE ApproveVersion(w)
  BY <1>1, <1>21, DoneFields, GotoFields DEF ApproveVersion
<1>22. CASE ProposeCheck(w)
  BY <1>1, <1>22, DoneFields, GotoFields DEF ProposeCheck
<1>23. CASE SignRelease(w)
  BY <1>1, <1>23, DoneFields, GotoFields DEF SignRelease
<1>24. CASE HasDualApproval(w)
  BY <1>1, <1>24, DoneFields, GotoFields DEF HasDualApproval
<1>25. CASE RecordVersionFind(w)
  <2> DEFINE create == [req[w] EXCEPT !.pc = "create", !.n = Latest(req[w].m)]
             next == [req[w] EXCEPT !.pc = req[w].then, !.then = "idle"]
  <2>1. Become(w, create) \/ Become(w, next)
    BY <1>25 DEF RecordVersionFind
  <2>2. create.pc = "create" /\ create.todo = req[w].todo /\ next.todo = req[w].todo
    BY <1>1 DEF Request
  <2>3. next.pc \in {"setSubmitted", "ack"}
    BY <1>1, <1>25 DEF RecordVersionFind, Request, LocalOK
  <2> HIDE DEF create, next
  <2> QED BY <1>1, <1>25, <2>1, <2>2, <2>3, BecomeFields
<1>26. CASE RecordVersionCreate(w)
  <2> DEFINE again == [req[w] EXCEPT !.pc = "latest", !.again = TRUE]
             next == [req[w] EXCEPT !.pc = req[w].then, !.then = "idle"]
  <2>1. Become(w, again) \/ Become(w, next) \/ Done(w)
    BY <1>26 DEF RecordVersionCreate
  <2>2. again.pc = "latest" /\ again.todo = req[w].todo /\ next.todo = req[w].todo
    BY <1>1 DEF Request
  <2>3. next.pc \in {"setSubmitted", "ack"}
    BY <1>1, <1>26 DEF RecordVersionCreate, Request, LocalOK
  <2> HIDE DEF again, next
  <2> QED BY <1>1, <1>26, <2>1, <2>2, <2>3, BecomeFields, DoneFields
<1>27. CASE AssertReviewable(w)
  <2> DEFINE x == [req[w] EXCEPT !.pc = req[w].then, !.then = "idle",
                                 !.n = Latest(req[w].m)]
  <2>1. At(w, "review") /\ (Become(w, x) \/ Done(w))
    BY <1>27 DEF AssertReviewable
  <2>2. x.r = req[w].r /\ x.todo = req[w].todo /\ x.pc \in {"rejectVersion", "approve"}
    BY <1>1, <2>1 DEF Request, LocalOK
  <2>3. req[w].r = 0 \/ At(w, "find")
    BY <1>1, <2>1 DEF LocalOK, OnRelease, ReleaseLabels
  <2> HIDE DEF x
  <2> QED BY <1>1, <1>27, <2>1, <2>2, <2>3, DoneFields, BecomeFields
<1>28. CASE CountApprovals(w)
  <2> DEFINE x == [req[w] EXCEPT !.pc = "submit", !.then = "approve"]
  <2>1. At(w, "count") /\ (Become(w, x) \/ Done(w))
    BY <1>28 DEF CountApprovals
  <2>2. x.r = req[w].r /\ x.todo = req[w].todo /\ x.pc = "submit"
    BY <1>1, <2>1 DEF Request, LocalOK
  <2>3. req[w].r = 0 \/ At(w, "find")
    BY <1>1, <2>1 DEF LocalOK, OnRelease, ReleaseLabels
  <2> HIDE DEF x
  <2> QED BY <1>1, <1>28, <2>1, <2>2, <2>3, DoneFields, BecomeFields
<1>29. CASE MarkApprovedFind(w)
  <2> DEFINE x == [req[w] EXCEPT !.pc = "markApproved", !.n = Latest(req[w].m)]
  <2>1. At(w, "markRead") /\ (Become(w, x) \/ Done(w))
    BY <1>29 DEF MarkApprovedFind
  <2>2. x.r = req[w].r /\ x.todo = req[w].todo /\ x.pc = "markApproved"
    BY <1>1, <2>1 DEF Request, LocalOK
  <2>3. req[w].r = 0 \/ At(w, "find")
    BY <1>1, <2>1 DEF LocalOK, OnRelease, ReleaseLabels
  <2> HIDE DEF x
  <2> QED BY <1>1, <1>29, <2>1, <2>2, <2>3, DoneFields, BecomeFields
<1>30. CASE FindOpen(w)
  <2> DEFINE x == [req[w] EXCEPT !.pc = req[w].then, !.then = "idle"]
  <2>1. At(w, "find") /\ (Become(w, x) \/ Done(w))
    BY <1>30 DEF FindOpen
  <2>2. x.r = req[w].r /\ x.todo = req[w].todo /\ x.pc \in {"sign", "decline"}
    BY <1>1, <2>1 DEF Request, LocalOK
  <2>3. req[w].r = 0 \/ At(w, "find")
    BY <1>1, <2>1 DEF LocalOK, OnRelease, ReleaseLabels
  <2> HIDE DEF x
  <2> QED BY <1>1, <1>30, <2>1, <2>2, <2>3, DoneFields, BecomeFields
<1>31. CASE EvaluateVersion(w)
  <2>1. PICK i \in req[w].todo :
          /\ \/ Become(w, [req[w] EXCEPT !.todo = req[w].todo \ {i}])
             \/ Become(w, [req[w] EXCEPT !.todo = req[w].todo \ {i}, !.pc = "submit",
                                         !.then = "auto", !.m = i.m, !.n = i.n])
          /\ req[w].pc = "sla"
    BY <1>31 DEF EvaluateVersion
  <2> DEFINE rest == [req[w] EXCEPT !.todo = req[w].todo \ {i}]
             pay == [req[w] EXCEPT !.todo = req[w].todo \ {i}, !.pc = "submit",
                                   !.then = "auto", !.m = i.m, !.n = i.n]
  <2>2. Become(w, rest) \/ Become(w, pay)
    BY <2>1
  <2>3. /\ rest.pc = "sla" /\ rest.r = req[w].r /\ rest.todo \in SUBSET req[w].todo
        /\ pay.pc = "submit" /\ pay.r = req[w].r /\ pay.todo \in SUBSET req[w].todo
    BY <1>1, <2>1 DEF Request
  <2>4. req[w].r = 0
    BY <1>1, <2>1 DEF LocalOK, OnRelease, ReleaseLabels
  <2> HIDE DEF rest, pay
  <2> QED BY <1>1, <2>1, <2>2, <2>3, <2>4, BecomeFields
<1>32. CASE ClaimRelease(w)
  <2> DEFINE next == [req[w] EXCEPT !.pc = "submit", !.then = "partial"]
  <2>1. \/ Done(w)
        \/ Executable(release[req[w].r]) /\ Become(w, next)
    BY <1>32 DEF ClaimRelease
  <2>2. next.pc = "submit" /\ next.r = req[w].r /\ next.todo = req[w].todo
    BY <1>1 DEF Request
  <2> HIDE DEF next
  <2> QED BY <1>1, <1>32, <2>1, <2>2, DoneFields, BecomeFields
<1>33. CASE Submit(w)
  BY <1>1, <1>33, RaiseFields, GotoFields, DoneFields DEF Submit
<1> QED BY <1>2, <1>3, <1>4, <1>5, <1>6, <1>7, <1>8, <1>9, <1>10, <1>11,
       <1>12, <1>13, <1>14, <1>15, <1>16, <1>17, <1>18, <1>19, <1>20, <1>21,
       <1>22, <1>23, <1>24, <1>25, <1>26, <1>27, <1>28, <1>29, <1>30, <1>31,
       <1>32, <1>33 DEF Step

\* What a free handler takes up holds no payment; a batch names versions that exist.
LEMMA TakeMoves ==
    ASSUME Base, NEW w \in Workers, Take(w)
    PROVE  /\ At(w, "idle") /\ \A v \in Workers \ {w} : req'[v] = req[v]
           /\ req'[w].pc \in {"supersede", "review", "override", "propose", "find",
                              "submit", "scan", "sla", "latest", "clear", "ack"}
           /\ req'[w].pc = "submit" => req'[w].r = 0 /\ req'[w].then = "unlock"
           /\ \A i \in req'[w].todo : i.n \in 1..Latest(i.m)
           /\ UNCHANGED <<versions, release, sent, net>>
           /\ upset \subseteq upset'
<1>1. HandlersOK
  BY BaseParts
<1> DEFINE Goal == /\ At(w, "idle") /\ \A v \in Workers \ {w} : req'[v] = req[v]
                   /\ req'[w].pc \in {"supersede", "review", "override", "propose", "find",
                                      "submit", "scan", "sla", "latest", "clear", "ack"}
                   /\ req'[w].pc = "submit" => req'[w].r = 0 /\ req'[w].then = "unlock"
                   /\ \A i \in req'[w].todo : i.n \in 1..Latest(i.m)
                   /\ UNCHANGED <<versions, release, sent, net>>
                   /\ upset \subseteq upset'
<1>2. ASSUME NEW r, NEW what, Begin(w, r, what)
      PROVE  /\ req'[w] = r /\ At(w, "idle") /\ \A v \in Workers \ {w} : req'[v] = req[v]
             /\ upset \subseteq upset'
  BY <1>1, <1>2, BecomeFields DEF Begin
<1>3. ASSUME NEW r, NEW what, Begin(w, r, what), r.todo = {},
             \/ r.pc \in {"supersede", "review", "override", "propose", "find", "scan",
                          "latest", "clear", "ack"}
             \/ (r.pc = "submit" /\ r.r = 0 /\ r.then = "unlock"),
             UNCHANGED <<versions, release, sent, net>>
      PROVE  Goal
  BY <1>2, <1>3
<1>4. ASSUME NEW m \in Milestones, SubmitProof(w, m)
      PROVE  Goal
  <2> DEFINE r == [Idle EXCEPT !.pc = "supersede", !.then = "setSubmitted", !.m = m]
  <2>1. \E what : Begin(w, r, what)
    BY <1>4 DEF SubmitProof, Call
  <2>2. r.todo = {} /\ r.pc \in {"supersede", "review", "override", "propose", "find"}
    BY DEF Idle
  <2>4. UNCHANGED <<versions, release, sent, net>>
    BY <1>4 DEF SubmitProof, tables, ledger
  <2> HIDE DEF r, Goal
  <2> QED BY <1>3, <2>1, <2>2, <2>4
<1>5. ASSUME NEW m \in Milestones, NEW v, RejectProof(w, m, v)
      PROVE  Goal
  <2> DEFINE r == [Idle EXCEPT !.pc = "review", !.then = "rejectVersion", !.m = m, !.v = v]
  <2>1. \E what : Begin(w, r, what)
    BY <1>5 DEF RejectProof, Call
  <2>2. r.todo = {} /\ r.pc \in {"supersede", "review", "override", "propose", "find"}
    BY DEF Idle
  <2>4. UNCHANGED <<versions, release, sent, net>>
    BY <1>5 DEF RejectProof, tables, ledger
  <2> HIDE DEF r, Goal
  <2> QED BY <1>3, <2>1, <2>2, <2>4
<1>6. ASSUME NEW m \in Milestones, NEW u, NEW v, ApproveMilestone(w, m, u, v)
      PROVE  Goal
  <2> DEFINE r == [Idle EXCEPT !.pc = "review", !.then = "approve", !.m = m, !.u = u, !.v = v]
  <2>1. \E what : Begin(w, r, what)
    BY <1>6 DEF ApproveMilestone, Call
  <2>2. r.todo = {} /\ r.pc \in {"supersede", "review", "override", "propose", "find"}
    BY DEF Idle
  <2>4. UNCHANGED <<versions, release, sent, net>>
    BY <1>6 DEF ApproveMilestone, tables, ledger
  <2> HIDE DEF r, Goal
  <2> QED BY <1>3, <2>1, <2>2, <2>4
<1>7. ASSUME NEW m \in Milestones, NEW s, AdminOverride(w, m, s)
      PROVE  Goal
  <2> DEFINE r == [Idle EXCEPT !.pc = "override", !.m = m, !.s = s]
  <2>1. \E what : Begin(w, r, what)
    BY <1>7 DEF AdminOverride, Call
  <2>2. r.todo = {} /\ r.pc \in {"supersede", "review", "override", "propose", "find"}
    BY DEF Idle
  <2>4. UNCHANGED <<versions, release, sent, net>>
    BY <1>7 DEF AdminOverride, tables, ledger
  <2> HIDE DEF r, Goal
  <2> QED BY <1>3, <2>1, <2>2, <2>4
<1>8. ASSUME NEW m \in Milestones, NEW party, NEW terms, ProposeRelease(w, m, party, terms)
      PROVE  Goal
  <2> DEFINE r == [Idle EXCEPT !.pc = "propose", !.m = m, !.party = party,
                               !.p = row[m].paid, !.terms = terms]
  <2>1. \E what : Begin(w, r, what)
    BY <1>8 DEF ProposeRelease, Call
  <2>2. r.todo = {} /\ r.pc \in {"supersede", "review", "override", "propose", "find"}
    BY DEF Idle
  <2>4. UNCHANGED <<versions, release, sent, net>>
    BY <1>8 DEF ProposeRelease, tables, ledger
  <2> HIDE DEF r, Goal
  <2> QED BY <1>3, <2>1, <2>2, <2>4
<1>9. ASSUME NEW m \in Milestones, NEW party, NEW k, NEW then, AnswerRelease(w, m, k, party, then)
      PROVE  Goal
  <2> DEFINE r == [Idle EXCEPT !.pc = "find", !.then = then, !.m = m, !.r = k,
                               !.party = party, !.p = row[m].paid]
  <2>1. \E what : Begin(w, r, what)
    BY <1>9 DEF AnswerRelease, Call
  <2>2. r.todo = {} /\ r.pc \in {"supersede", "review", "override", "propose", "find"}
    BY DEF Idle
  <2>4. UNCHANGED <<versions, release, sent, net>>
    BY <1>9 DEF AnswerRelease, tables, ledger
  <2> HIDE DEF r, Goal
  <2> QED BY <1>3, <2>1, <2>2, <2>4
<1>10. ASSUME RunProofSlaChecks(w) PROVE Goal
  <2> DEFINE pending == {i \in Milestones \X (1..MaxVersions) :
                           /\ i[2] <= Latest(i[1])
                           /\ versions[i[1]][i[2]].status = "SUBMITTED"
                           /\ ~versions[i[1]][i[2]].expired
                           /\ row[i[1]].status = "PROOF_SUBMITTED"}
             batch == {[m |-> i[1], n |-> i[2], v |-> versions[i[1]][i[2]]] : i \in pending}
             r == [Idle EXCEPT !.pc = "sla", !.t = now, !.todo = batch]
  <2>1. Begin(w, r, {}) /\ UNCHANGED <<tables, ledger>>
    BY <1>10 DEF RunProofSlaChecks, Tick
  <2>2. \A i \in batch : i.n \in 1..Latest(i.m)
    <3> SUFFICES ASSUME NEW i \in pending PROVE i[2] \in 1..Latest(i[1])
      OBVIOUS
    <3>1. i[1] \in Milestones /\ i[2] \in 1..MaxVersions /\ i[2] <= Latest(i[1])
      OBVIOUS
    <3>2. Latest(i[1]) \in Nat
      BY <3>1, BaseParts DEF TablesOK, Latest
    <3> QED BY <3>1, <3>2, BoundsAssumption
  <2> HIDE DEF batch
  <2>3. r.pc = "sla" /\ r.todo = batch
    BY DEF Idle
  <2> HIDE DEF r
  <2> QED BY <1>2, <2>1, <2>2, <2>3 DEF tables, ledger
<1>11. ASSUME NEW e \in events, HandleEvent(w, e) PROVE Goal
  <2>1. PICK next \in {"latest", "clear", "ack"}, what \in {{}, {"outdated"}} :
          Begin(w, [Idle EXCEPT !.pc = next, !.then = "ack", !.m = e.m, !.e = e.id], what)
    BY <1>11 DEF HandleEvent
  <2> DEFINE r == [Idle EXCEPT !.pc = next, !.then = "ack", !.m = e.m, !.e = e.id]
  <2>2. r.todo = {} /\ r.pc \in {"latest", "clear", "ack"}
    BY DEF Idle
  <2>3. Begin(w, r, what)
    BY <2>1
  <2>4. UNCHANGED <<versions, release, sent, net>>
    BY <1>11 DEF HandleEvent, ledger
  <2> HIDE DEF r, Goal
  <2> QED BY <1>3, <2>2, <2>3, <2>4
<1>12. ASSUME NEW m \in Milestones, RetentionTick(w, m) PROVE Goal
  <2>1. PICK pc \in {"submit", "scan"} :
          Begin(w, [Idle EXCEPT !.pc = pc, !.then = "unlock", !.m = m, !.t = now], {})
    BY <1>12 DEF RetentionTick
  <2> DEFINE r == [Idle EXCEPT !.pc = pc, !.then = "unlock", !.m = m, !.t = now]
  <2>2. r.todo = {} /\ r.pc \in {"submit", "scan"} /\ r.r = 0 /\ r.then = "unlock"
    BY DEF Idle
  <2>3. Begin(w, r, {})
    BY <2>1
  <2>4. UNCHANGED <<versions, release, sent, net>>
    BY <1>12 DEF RetentionTick, tables, ledger
  <2> HIDE DEF r, Goal
  <2> QED BY <1>3, <2>2, <2>3, <2>4
<1> HIDE DEF Goal
<1>13. Goal
  BY <1>4, <1>5, <1>6, <1>7, <1>8, <1>9, <1>10, <1>11, <1>12
  DEF Take, BulkUpdateStatus, ApproveRelease, RejectRelease
<1> QED BY <1>13 DEF Goal

-----------------------------------------------------------------------------
(* Partial releases *)

\* What the network says of a transaction that was in it before, possibly with its
\* sender still waiting.
LEMMA NetMoves ==
    ASSUME Base, [Next]_vars, NEW o \in net'
    PROVE  \/ \E t \in net : t.r = o.r
           \/ \E w \in Workers : At(w, "submit") /\ req[w].r = o.r
<1>1. CASE UNCHANGED vars
  BY <1>1 DEF vars, ledger
<1>2. ASSUME NEW w \in Workers, Take(w) PROVE o \in net
  BY <1>2, TakeMoves
<1>3. ASSUME NEW w \in Workers, Step(w)
      PROVE  \/ \E t \in net : t.r = o.r
             \/ At(w, "submit") /\ req[w].r = o.r
  <2>1. CASE Submit(w)
    BY <2>1 DEF Submit
  <2>2. CASE ~Submit(w)
    <3>1. net' = net
      BY <1>3, <2>2
      DEF Step, Supersede, RecordVersionFind, RecordVersionCreate, SetProofSubmitted,
          AssertReviewable, RejectVersion, Reopen, ForgetApprovals, CreateApproval,
          CountApprovals, MarkConfirmed, MarkApprovedFind, ApproveVersion,
          OverrideStatus, EvaluateVersion, Unclaim, ProposeCheck, InsertRelease,
          FindOpen, SignRelease, HasDualApproval, DeclineRelease, ClaimRelease,
          BookRelease, FinishRelease, FailRelease, ClearApprovals, EndSlaChecks,
          SendRetentionWarning, MarkUnlockedByJob, Acknowledge, ledger
    <3> QED BY <3>1
  <2> QED BY <2>1, <2>2
<1>4. ASSUME NEW w \in Workers, Crash(w) PROVE \E t \in net : t.r = o.r
  <2>1. PICK t \in net : o = [t EXCEPT !.by = IF @ = w THEN Nobody ELSE @]
    BY <1>4 DEF Crash
  <2>2. t \in Tx
    BY DEF Base, TypeOK
  <2> QED BY <2>1, <2>2 DEF Tx
<1>5. ASSUME NEW t \in net, Land(t) \/ Expire(t) \/ GiveUp(t) PROVE \E x \in net : x.r = o.r
  <2>1. o \in net \/ o = [t EXCEPT !.by = Nobody]
    BY <1>5 DEF Land, Expire, GiveUp
  <2>2. t \in Tx
    BY DEF Base, TypeOK
  <2> QED BY <2>1, <2>2 DEF Tx
<1>6. ASSUME NEW m \in Milestones, Contract(m) PROVE o \in net
  BY <1>6 DEF Contract, SubmitProofOnChain, RaiseDispute, RejectDispute, ApproveDispute,
              RequestReplacement, ContractStep
<1>7. ASSUME NEW j, ExpireLock(j) PROVE o \in net
  BY <1>7 DEF ExpireLock, ledger
<1>8. ASSUME NEW t, Later(t) PROVE o \in net
  BY <1>8 DEF Later, ledger
<1> QED BY <1>1, <1>2, <1>3, <1>4, <1>5, <1>6, <1>7, <1>8 DEF Next

\* What a step may do to a row of the releases: propose it, sign it, pay it, reject it
\* while it is unclaimed, claim it, or end it.
ReleaseMove(r) ==
    LET x == release[r]
        y == release'[r]
    IN  \/ y = x
        \/ x.status = "NONE" /\ y.paid = 0
        \/ /\ y.status = x.status /\ y.claimed = x.claimed
           /\ y.paid = x.paid \/ \E t \in net : t.r = r
        \/ Rejectable(x) /\ y.paid = x.paid
        \/ Executable(x) /\ Committed(y) /\ y.paid = x.paid
        \/ y.status \in {"EXECUTED", "FAILED"} /\ y.paid = x.paid

\* Every step moves a release in one of the ways the handlers have.
LEMMA ReleaseMoves ==
    ASSUME Base, [Next]_vars, NEW r \in ReleaseIds
    PROVE  ReleaseMove(r)
<1>1. HandlersOK /\ LedgerOK /\ release \in [ReleaseIds -> Release]
  BY BaseParts DEF TablesOK
<1> DEFINE x == release[r]
           y == release'[r]
<1>2. x \in Release
  BY <1>1
<1>3. CASE UNCHANGED release
  BY <1>3 DEF ReleaseMove
<1>4. ASSUME NEW k, NEW next, SetRelease(k, next)
      PROVE  IF k = r THEN y = next ELSE y = x
  BY <1>1, <1>4 DEF SetRelease
<1>5. ASSUME NEW w \in Workers, InsertRelease(w) PROVE ReleaseMove(r)
  <2> DEFINE free == {i \in ReleaseIds : release[i].status = "NONE"}
             least == CHOOSE i \in free : \A j \in free : i <= j
             next == [NoRelease EXCEPT !.m = req[w].m,
                          !.amount = req[w].terms.amount, !.back = req[w].terms.back,
                          !.rest = Amount - req[w].p - req[w].terms.amount,
                          !.signed = {req[w].party}, !.status = "PROPOSED"]
  <2>1. \/ UNCHANGED release
        \/ free # {} /\ SetRelease(least, next)
    BY <1>5 DEF InsertRelease
  <2>2. ASSUME free # {} PROVE least \in free
    <3>1. free \in SUBSET Nat
      BY DEF ReleaseIds
    <3> HIDE DEF free
    <3> QED BY <2>2, <3>1, NatMin
  <2>3. next.paid = 0
    BY DEF NoRelease
  <2>4. least \in free /\ least = r => x.status = "NONE"
    OBVIOUS
  <2> HIDE DEF next, least, free
  <2> QED BY <1>3, <1>4, <2>1, <2>2, <2>3, <2>4 DEF ReleaseMove
<1>6. ASSUME NEW w \in Workers, SignRelease(w) PROVE ReleaseMove(r)
  <2> DEFINE next == [release[req[w].r] EXCEPT !.signed = @ \cup {req[w].party}]
  <2>1. UNCHANGED release \/ SetRelease(req[w].r, next)
    BY <1>6 DEF SignRelease
  <2>2. req[w].r = r => next.status = x.status /\ next.claimed = x.claimed
                        /\ next.paid = x.paid
    BY <1>2 DEF Release
  <2> HIDE DEF next
  <2> QED BY <1>3, <1>4, <2>1, <2>2 DEF ReleaseMove
<1>7. ASSUME NEW w \in Workers, DeclineRelease(w) PROVE ReleaseMove(r)
  <2> DEFINE next == [release[req[w].r] EXCEPT !.status = "REJECTED"]
  <2>1. \/ UNCHANGED release
        \/ Rejectable(release[req[w].r]) /\ SetRelease(req[w].r, next)
    BY <1>7 DEF DeclineRelease
  <2>2. req[w].r = r => next.paid = x.paid
    BY <1>2 DEF Release
  <2> HIDE DEF next
  <2> QED BY <1>3, <1>4, <2>1, <2>2 DEF ReleaseMove
<1>8. ASSUME NEW w \in Workers, ClaimRelease(w) PROVE ReleaseMove(r)
  <2> DEFINE next == [release[req[w].r] EXCEPT !.claimed = TRUE]
  <2>1. \/ UNCHANGED release
        \/ Executable(release[req[w].r]) /\ SetRelease(req[w].r, next)
    BY <1>8 DEF ClaimRelease
  <2>2. req[w].r = r /\ Executable(x) => next.paid = x.paid /\ Committed(next)
    BY <1>2 DEF Release, Executable, Committed
  <2> HIDE DEF next
  <2> QED BY <1>3, <1>4, <2>1, <2>2 DEF ReleaseMove
<1>9. ASSUME NEW w \in Workers, FinishRelease(w) \/ FailRelease(w) PROVE ReleaseMove(r)
  <2> DEFINE done == [release[req[w].r] EXCEPT !.status = "EXECUTED"]
             failed == [release[req[w].r] EXCEPT !.status = "FAILED", !.claimed = FALSE]
  <2>1. SetRelease(req[w].r, done) \/ SetRelease(req[w].r, failed)
    BY <1>9 DEF FinishRelease, FailRelease
  <2>2. req[w].r = r => /\ done.paid = x.paid /\ failed.paid = x.paid
                        /\ done.status = "EXECUTED" /\ failed.status = "FAILED"
    BY <1>2 DEF Release
  <2> HIDE DEF done, failed
  <2> QED BY <1>4, <2>1, <2>2 DEF ReleaseMove
<1>10. ASSUME NEW t \in net, Land(t) PROVE ReleaseMove(r)
  <2>1. UNCHANGED release \/ \E a : release' = [release EXCEPT ![t.r].paid = a]
    <3>1. t.call \in Calls
      BY <1>1 DEF LedgerOK, Tx
    <3> QED BY <1>10, <3>1 DEF Land, Calls, PayCalls
  <2>2. PICK a : UNCHANGED release \/ release' = [release EXCEPT ![t.r].paid = a]
    BY <2>1
  <2>3. y = x \/ (t.r = r /\ y = [x EXCEPT !.paid = a])
    BY <1>1, <2>2
  <2>4. [x EXCEPT !.paid = a].status = x.status /\ [x EXCEPT !.paid = a].claimed = x.claimed
    BY <1>2 DEF Release
  <2> QED BY <2>3, <2>4 DEF ReleaseMove
<1>11. ASSUME NEW w \in Workers, Take(w) \/ Crash(w) PROVE UNCHANGED release
  BY <1>11, TakeMoves DEF Crash, tables
<1>12. ASSUME NEW t \in net, Expire(t) \/ GiveUp(t) PROVE UNCHANGED release
  BY <1>12 DEF Expire, GiveUp, tables
<1>13. ASSUME NEW m \in Milestones, Contract(m) PROVE UNCHANGED release
  BY <1>13 DEF Contract, SubmitProofOnChain, RaiseDispute, RejectDispute, ApproveDispute,
               RequestReplacement, ContractStep, tables
<1>14. ASSUME NEW w \in Workers, Step(w)
       PROVE  ReleaseMove(r)
  <2>1. \/ UNCHANGED release
        \/ InsertRelease(w) \/ SignRelease(w) \/ DeclineRelease(w) \/ ClaimRelease(w)
        \/ FinishRelease(w) \/ FailRelease(w)
    BY <1>14
    DEF Step, Supersede, RecordVersionFind, RecordVersionCreate, SetProofSubmitted,
        AssertReviewable, RejectVersion, Reopen, ForgetApprovals, CreateApproval,
        CountApprovals, MarkConfirmed, MarkApprovedFind, ApproveVersion,
        OverrideStatus, EvaluateVersion, Unclaim, ProposeCheck, FindOpen,
        HasDualApproval, BookRelease, ClearApprovals, EndSlaChecks,
        SendRetentionWarning, MarkUnlockedByJob, Acknowledge, Submit, tables
  <2> QED BY <1>3, <1>5, <1>6, <1>7, <1>8, <1>9, <2>1
<1> QED BY <1>3, <1>10, <1>11, <1>12, <1>13, <1>14
        DEF Next, ExpireLock, Later, vars, tables

\* A payment that is held after a step was held before it, or has just been claimed.
LEMMA HeldMoves ==
    ASSUME Base, [Next]_vars, NEW r \in ReleaseIds, Held(r)'
    PROVE  \/ Held(r)
           \/ \E w \in Workers :
                ClaimRelease(w) /\ req[w].r = r /\ Executable(release[r])
<1>1. HandlersOK /\ LedgerOK /\ TablesOK /\ r # 0
  BY BaseParts DEF ReleaseIds
<1>2. CASE \E o \in net' : o.r = r
  <2>1. PICK o \in net' : o.r = r
    BY <1>2
  <2>2. (\E t \in net : t.r = r) \/ \E w \in Workers : At(w, "submit") /\ req[w].r = r
    BY <2>1, NetMoves
  <2> QED BY <2>2 DEF Held, At, PayingLabels
<1>3. ASSUME NEW v \in Workers, req'[v].r = r, req'[v].pc \in PayingLabels
      PROVE  \/ req[v].r = r /\ req[v].pc \in PayingLabels
             \/ ClaimRelease(v) /\ req[v].r = r /\ Executable(release[r])
  <2>1. CASE req'[v] = req[v]
    BY <1>3, <2>1
  <2>2. ASSUME NEW w \in Workers, Take(w)
        PROVE  req[v].r = r /\ req[v].pc \in PayingLabels
    BY <1>1, <1>3, <2>2, TakeMoves DEF PayingLabels
  <2>3. ASSUME NEW w \in Workers, Step(w)
        PROVE  \/ req[v].r = r /\ req[v].pc \in PayingLabels
               \/ ClaimRelease(v) /\ req[v].r = r /\ Executable(release[r])
    BY <1>1, <1>3, <2>3, PayingMoves
  <2>4. ASSUME NEW w \in Workers, Crash(w)
        PROVE  req[v].r = r /\ req[v].pc \in PayingLabels
    BY <1>1, <1>3, <2>4, DoneFields DEF Crash
  <2>5. ASSUME NEW t \in net, Land(t) \/ Expire(t) \/ GiveUp(t)
        PROVE  req[v].r = r /\ req[v].pc \in PayingLabels
    <3>1. CASE t.by = Nobody
      BY <1>3, <2>5, <3>1 DEF Land, Expire, GiveUp
    <3>2. CASE t.by # Nobody
      <4>1. t.by \in Workers /\ At(t.by, "wait")
        BY <1>1, <3>2 DEF HandlersOK, LedgerOK, Tx, TxOK, At
      <4>2. Raise(t.by) \/ Goto(t.by, OnSuccess(t.call))
        BY <2>5, <3>2 DEF Land, Expire, GiveUp
      <4>3. /\ v # t.by => req'[v] = req[v]
            /\ v = t.by => req'[v].r \in {0, req[v].r}
        BY <1>1, <4>1, <4>2, RaiseFields, GotoFields, DoneFields
      <4> QED BY <1>1, <1>3, <4>1, <4>3 DEF At, PayingLabels
    <3> QED BY <3>1, <3>2
  <2>6. ASSUME NEW m \in Milestones, Contract(m) PROVE req'[v] = req[v]
    BY <2>6 DEF Contract, SubmitProofOnChain, RaiseDispute, RejectDispute, ApproveDispute,
                RequestReplacement, ContractStep
  <2> QED BY <2>1, <2>2, <2>3, <2>4, <2>5, <2>6 DEF Next, ExpireLock, Later, vars
<1>4. CASE release'[r].paid > 0
  <2>1. release'[r].paid \in {0, release[r].paid} \/ \E t \in net : t.r = r
    BY ReleaseMoves DEF ReleaseMove
  <2> QED BY <1>4, <2>1 DEF Held
<1> QED BY <1>2, <1>3, <1>4 DEF Held

\* Every step keeps what a held release relies on.
LEMMA ReleaseStep ==
    ASSUME Base, [Next]_vars, ReleaseInv
    PROVE  ReleaseInv'
<1> SUFFICES ASSUME NEW r \in ReleaseIds, Held(r)' PROVE Committed(release'[r])
  BY DEF ReleaseInv, ReleaseIds
<1>1. ReleaseMove(r)
  BY ReleaseMoves
<1>2. CASE Held(r)
  <2>1. Committed(release[r])
    BY <1>2 DEF ReleaseInv
  <2> QED BY <1>1, <2>1 DEF ReleaseMove, Committed, Rejectable, Executable
<1>3. ASSUME NEW w \in Workers, ClaimRelease(w), req[w].r = r, Executable(release[r])
      PROVE  Committed(release'[r])
  <2>1. release[r] \in Release /\ release \in [ReleaseIds -> Release]
    BY DEF Base, TypeOK
  <2>2. release' = [release EXCEPT ![r] = [release[r] EXCEPT !.claimed = TRUE]]
    BY <1>3 DEF ClaimRelease, SetRelease
  <2> QED BY <1>3, <2>1, <2>2 DEF Release, Executable, Committed
<1> QED BY <1>2, <1>3, HeldMoves

\* A rejected proposal is not paid (PartialReleaseService.approve, reject and execute):
\* however the rejection races with the second signature, the claim of the payment and
\* the payment itself, a release is not both rejected and paid or about to be.
THEOREM RejectedUnpaid == Spec => []RejectedNeverPaid
<1>1. Init => ReleaseInv
  <2> SUFFICES ASSUME Init, NEW r \in ReleaseIds PROVE ~Held(r)
    BY DEF ReleaseInv
  <2>1. release[r].paid = 0 /\ net = {} /\ \A w \in Workers : req[w].pc = "idle"
    BY DEF Init, NoRelease, Idle
  <2> QED BY <2>1 DEF Held, PayingLabels
<1>2. Base /\ ReleaseInv => RejectedNeverPaid
  <2> SUFFICES ASSUME Base, ReleaseInv, NEW r \in ReleaseIds,
                      release[r].status = "REJECTED"
               PROVE  release[r].paid = 0 /\ \A t \in net : t.r # r
    BY DEF RejectedNeverPaid
  <2>1. ~Held(r)
    BY DEF ReleaseInv, Committed
  <2>2. release[r].paid \in Nat
    BY DEF Base, TypeOK, Release
  <2> QED BY <2>1, <2>2 DEF Held
<1> QED BY <1>1, <1>2, BaseInit, BaseStep, ReleaseStep, PTL DEF Spec

-----------------------------------------------------------------------------
(* Proof versions *)

\* What a statement may do to a version: end its review, and set flags for good.
Settles(x, v) ==
    /\ x.status = "SUBMITTED" => v.status = "SUBMITTED"
    /\ v.r50 => x.r50
    /\ v.r90 => x.r90

\* What a step may do to the versions of a milestone: settle some, or append one
\* after the number the handler read.
Kept(m) ==
    /\ Len(versions'[m]) = Len(versions[m])
    /\ \A n \in 1..Len(versions[m]) : Settles(versions'[m][n], versions[m][n])
Appended(m) ==
    /\ \E w \in Workers : At(w, "create") /\ req[w].m = m /\ req[w].n = Latest(m)
    /\ versions'[m] = Append(versions[m], NewVersion)

\* Versions that stay are kept.
LEMMA SameKept ==
    ASSUME NEW m, versions'[m] = versions[m]
    PROVE  Kept(m)
BY DEF Kept, Settles

\* What the statements write settles the version they found.
Changed(x, v) == x \in Version /\ Settles(x, v)
\* A decision or the expiry of a version changes that field only.
LEMMA ChangedOK ==
    ASSUME NEW v \in Version
    PROVE  /\ Changed([v EXCEPT !.status = "REJECTED"], v)
           /\ Changed([v EXCEPT !.status = "APPROVED"], v)
           /\ Changed([v EXCEPT !.expired = FALSE], v)
           /\ Changed([v EXCEPT !.expired = TRUE], v)
           /\ Changed([v EXCEPT !.r90 = TRUE, !.r50 = TRUE], v)
           /\ Changed([v EXCEPT !.r50 = TRUE], v)
<1>1. Changed([v EXCEPT !.status = "REJECTED"], v)
  BY DEF Changed, Settles, Version, VersionStatus
<1>2. Changed([v EXCEPT !.status = "APPROVED"], v)
  BY DEF Changed, Settles, Version, VersionStatus
<1>3. Changed([v EXCEPT !.expired = FALSE], v)
  BY DEF Changed, Settles, Version
<1>4. Changed([v EXCEPT !.expired = TRUE], v)
  BY DEF Changed, Settles, Version
<1>5. Changed([v EXCEPT !.r90 = TRUE, !.r50 = TRUE], v)
  BY DEF Changed, Settles, Version
<1>6. Changed([v EXCEPT !.r50 = TRUE], v)
  BY DEF Changed, Settles, Version
<1> QED BY <1>1, <1>2, <1>3, <1>4, <1>5, <1>6

\* One version is overwritten by one that settles it.
LEMMA CellKept ==
    ASSUME versions \in [Milestones -> Seq(Version)], NEW m \in Milestones,
           NEW k, NEW n, NEW x, SetVersion(k, n, x),
           (k = m /\ n \in 1..Len(versions[m])) =>
               Changed(x, versions[m][n])
    PROVE  Kept(m)
<1>1. CASE k # m
  <2>1. versions'[m] = versions[m]
    BY <1>1 DEF SetVersion
  <2> QED BY <2>1, SameKept
<1>2. CASE k = m
  <2> DEFINE s == versions[m]
  <2>1. s \in Seq(Version) /\ versions'[m] = [s EXCEPT ![n] = x]
    BY <1>2 DEF SetVersion
  <2>2. Len(versions'[m]) = Len(s)
    BY <1>2, <2>1, CellOK
  <2>3. ASSUME NEW i \in 1..Len(s) PROVE Settles(versions'[m][i], s[i])
    <3>1. versions'[m][i] = IF i = n THEN x ELSE s[i]
      BY <2>1
    <3> QED BY <1>2, <3>1 DEF Settles, Changed
  <2> QED BY <2>2, <2>3 DEF Kept
<1> QED BY <1>1, <1>2

\* The steps that write no version.
LEMMA VersionWriters ==
    ASSUME Base, [Next]_vars, versions' # versions
    PROVE  \E w \in Workers : Supersede(w) \/ RecordVersionCreate(w) \/ RejectVersion(w)
             \/ ApproveVersion(w) \/ EvaluateVersion(w) \/ Unclaim(w)
<1>1. ASSUME NEW w \in Workers, Step(w), versions' # versions
      PROVE  Supersede(w) \/ RecordVersionCreate(w) \/ RejectVersion(w)
             \/ ApproveVersion(w) \/ EvaluateVersion(w) \/ Unclaim(w)
  BY <1>1
  DEF Step, RecordVersionFind, SetProofSubmitted, AssertReviewable, Reopen,
      ForgetApprovals, CreateApproval, CountApprovals, MarkConfirmed, MarkApprovedFind,
      OverrideStatus, ProposeCheck, InsertRelease, FindOpen, SignRelease,
      HasDualApproval, DeclineRelease, ClaimRelease, BookRelease, FinishRelease,
      FailRelease, ClearApprovals, EndSlaChecks, SendRetentionWarning,
      MarkUnlockedByJob, Acknowledge, Submit, tables
<1>2. ASSUME NEW w \in Workers, Take(w) \/ Crash(w) PROVE UNCHANGED versions
  BY <1>2, TakeMoves DEF Crash, tables
<1>3. ASSUME NEW t \in net, Land(t) \/ Expire(t) \/ GiveUp(t) PROVE UNCHANGED versions
  BY <1>3 DEF Land, Expire, GiveUp, tables
<1>4. ASSUME NEW m \in Milestones, Contract(m) PROVE UNCHANGED versions
  BY <1>4 DEF Contract, SubmitProofOnChain, RaiseDispute, RejectDispute, ApproveDispute,
              RequestReplacement, ContractStep, tables
<1> QED BY <1>1, <1>2, <1>3, <1>4 DEF Next, ExpireLock, Later, vars, tables

\* Every step keeps a milestone's versions or appends one.
LEMMA VersionMoves ==
    ASSUME Base, [Next]_vars, NEW m \in Milestones
    PROVE  Kept(m) \/ Appended(m)
<1>1. /\ versions \in [Milestones -> Seq(Version)] /\ versions[m] \in Seq(Version)
      /\ HandlersOK
  BY BaseParts DEF TablesOK
<1>2. CASE UNCHANGED versions
  BY <1>2, SameKept
<1>3. ASSUME NEW w \in Workers, Supersede(w) PROVE Kept(m)
  <2> DEFINE s == versions[m]
             next == [n \in DOMAIN s |-> Superseded(s[n])]
  <2>1. versions' = [versions EXCEPT ![req[w].m] =
                       [n \in DOMAIN versions[req[w].m] |-> Superseded(versions[req[w].m][n])]]
    BY <1>3 DEF Supersede
  <2>2. CASE req[w].m # m
    BY <1>1, <2>1, <2>2, SameKept
  <2>3. CASE req[w].m = m
    <3>1. versions'[m] = next
      BY <1>1, <2>1, <2>3
    <3>2. Len(next) = Len(s)
      BY <1>1, SupersedeOK
    <3>3. ASSUME NEW n \in 1..Len(s) PROVE Settles(next[n], s[n])
      <4>1. next[n] = Superseded(s[n]) /\ s[n] \in Version
        BY <1>1
      <4> QED BY <4>1 DEF Superseded, Settles, Version
    <3> HIDE DEF next
    <3> QED BY <3>1, <3>2, <3>3 DEF Kept
  <2> QED BY <2>2, <2>3
<1>4. ASSUME NEW w \in Workers, RecordVersionCreate(w) PROVE Kept(m) \/ Appended(m)
  <2>1. \/ UNCHANGED versions
        \/ /\ At(w, "create") /\ req[w].n = Latest(req[w].m)
           /\ versions' = [versions EXCEPT ![req[w].m] =
                             Append(versions[req[w].m], NewVersion)]
    BY <1>4 DEF RecordVersionCreate
  <2>2. versions'[m] = versions[m] \/ Appended(m)
    BY <1>1, <2>1 DEF Appended
  <2> QED BY <2>2, SameKept
<1>5. ASSUME NEW w \in Workers, RejectVersion(w) \/ ApproveVersion(w) \/ Unclaim(w)
      PROVE  Kept(m)
  <2> DEFINE k == req[w].m
             n == req[w].n
             v == versions[k][n]
             x == [v EXCEPT !.status = "REJECTED"]
             y == [v EXCEPT !.status = "APPROVED"]
             z == [v EXCEPT !.expired = FALSE]
  <2>1. \/ UNCHANGED versions
        \/ SetVersion(k, n, x) \/ SetVersion(k, n, y) \/ SetVersion(k, n, z)
    BY <1>5 DEF RejectVersion, ApproveVersion, Unclaim, AfterFailure
  <2>2. ASSUME k = m, n \in 1..Len(versions[m])
        PROVE  /\ Changed(x, versions[m][n]) /\ Changed(y, versions[m][n])
               /\ Changed(z, versions[m][n])
    <3>1. v \in Version /\ v = versions[m][n]
      BY <1>1, <2>2
    <3> HIDE DEF v
    <3> QED BY <3>1, ChangedOK
  <2> HIDE DEF k, n, v, x, y, z
  <2>3. CASE SetVersion(k, n, x)
    BY <1>1, <2>2, <2>3, CellKept
  <2>4. CASE SetVersion(k, n, y)
    BY <1>1, <2>2, <2>4, CellKept
  <2>5. CASE SetVersion(k, n, z)
    BY <1>1, <2>2, <2>5, CellKept
  <2> QED BY <2>1, <2>3, <2>4, <2>5, SameKept
<1>6. ASSUME NEW w \in Workers, EvaluateVersion(w) PROVE Kept(m)
  <2>1. PICK i \in req[w].todo :
          \/ UNCHANGED versions
          \/ SetVersion(i.m, i.n, [versions[i.m][i.n] EXCEPT !.expired = TRUE])
          \/ SetVersion(i.m, i.n, [versions[i.m][i.n] EXCEPT !.r90 = TRUE, !.r50 = TRUE])
          \/ SetVersion(i.m, i.n, [versions[i.m][i.n] EXCEPT !.r50 = TRUE])
    BY <1>6 DEF EvaluateVersion
  <2> DEFINE k == i.m
             n == i.n
             v == versions[k][n]
             x == [v EXCEPT !.expired = TRUE]
             y == [v EXCEPT !.r90 = TRUE, !.r50 = TRUE]
             z == [v EXCEPT !.r50 = TRUE]
  <2>2. ASSUME k = m, n \in 1..Len(versions[m])
        PROVE  /\ Changed(x, versions[m][n]) /\ Changed(y, versions[m][n])
               /\ Changed(z, versions[m][n])
    <3>1. v \in Version /\ v = versions[m][n]
      BY <1>1, <2>2
    <3> HIDE DEF v
    <3> QED BY <3>1, ChangedOK
  <2>6. \/ UNCHANGED versions
        \/ SetVersion(k, n, x) \/ SetVersion(k, n, y) \/ SetVersion(k, n, z)
    BY <2>1
  <2> HIDE DEF k, n, v, x, y, z
  <2>3. CASE SetVersion(k, n, x)
    BY <1>1, <2>2, <2>3, CellKept
  <2>4. CASE SetVersion(k, n, y)
    BY <1>1, <2>2, <2>4, CellKept
  <2>5. CASE SetVersion(k, n, z)
    BY <1>1, <2>2, <2>5, CellKept
  <2> QED BY <2>3, <2>4, <2>5, <2>6, SameKept
<1> QED BY <1>2, <1>3, <1>4, <1>5, <1>6, VersionWriters

\* Who moved a handler: itself, or the network with the transaction it waits for.
Answered(w, t) ==
    /\ t.by = w /\ At(w, "wait") /\ req[w].then = t.call
    /\ \/ req[w].then \in {"approve", "unlock"} /\ Done(w)
       \/ req[w].then = "auto" /\ (Goto(w, "unclaim") \/ Goto(w, "autoConfirm"))
       \/ req[w].then = "partial" /\ (Goto(w, "fail") \/ Goto(w, "book"))
       \/ req[w].then = "approve" /\ Goto(w, "confirm")
       \/ req[w].then = "unlock" /\ Goto(w, "unlocked")

\* What moves a worker: taking up, a step of its own, a crash or the answer it waits for.
LEMMA Turns ==
    ASSUME Base, [Next]_vars, NEW w \in Workers
    PROVE  \/ req'[w] = req[w] \/ Take(w) \/ Step(w) \/ Crash(w)
           \/ \E t \in net : (Land(t) \/ Expire(t) \/ GiveUp(t)) /\ Answered(w, t)
<1>1. HandlersOK /\ LedgerOK
  BY BaseParts
<1>2. CASE UNCHANGED req
  BY <1>2
<1>3. ASSUME NEW v \in Workers, v # w, Take(v) \/ Step(v) \/ Crash(v)
      PROVE  req'[w] = req[w]
  BY <1>1, <1>3, TakeMoves, PayingMoves, DoneFields DEF Crash
<1>4. ASSUME NEW t \in net, Land(t) \/ Expire(t) \/ GiveUp(t)
      PROVE  req'[w] = req[w] \/ Answered(w, t)
  <2>1. CASE t.by = Nobody
    BY <1>4, <2>1 DEF Land, Expire, GiveUp
  <2>2. CASE t.by # Nobody
    <3> DEFINE v == t.by
    <3>1. v \in Workers /\ At(v, "wait") /\ req[v].then = t.call /\ t.call \in Calls
      BY <1>1, <2>2 DEF HandlersOK, LedgerOK, Tx, TxOK, At
    <3>2. Raise(v) \/ Goto(v, OnSuccess(t.call))
      BY <1>4, <2>2 DEF Land, Expire, GiveUp
    <3>3. CASE Raise(v)
      BY <1>1, <3>1, <3>3, RaiseFields DEF Answered
    <3>4. CASE Goto(v, OnSuccess(t.call))
      BY <1>1, <3>1, <3>4, GotoFields DEF Answered, OnSuccess, Calls
    <3> QED BY <3>2, <3>3, <3>4
  <2> QED BY <2>1, <2>2
<1>5. ASSUME NEW m \in Milestones, Contract(m) PROVE UNCHANGED req
  BY <1>5 DEF Contract, SubmitProofOnChain, RaiseDispute, RejectDispute, ApproveDispute,
              RequestReplacement, ContractStep
<1> QED BY <1>2, <1>3, <1>4, <1>5 DEF Next, ExpireLock, Later, vars

\* An insert begins with the read of recordVersion, that found no open version.
LEMMA CreateMoves ==
    ASSUME Base, [Next]_vars, NEW w \in Workers, At(w, "create")'
    PROVE  \/ req'[w] = req[w]
           \/ /\ UNCHANGED versions /\ ~Awaiting(req[w].m)
              /\ req'[w].m = req[w].m /\ req'[w].n = Latest(req[w].m)
<1>1. HandlersOK /\ req'[w].pc = "create"
  BY BaseParts DEF At
<1>2. CASE Take(w)
  BY <1>1, <1>2, TakeMoves
<1>3. CASE Step(w)
  <2>1. RecordVersionFind(w)
    BY <1>1, <1>3, PayingMoves
  <2>2. req[w].then \in {"setSubmitted", "ack"}
    BY <1>1, <2>1 DEF RecordVersionFind, HandlersOK, LocalOK, At
  <2> DEFINE create == [req[w] EXCEPT !.pc = "create", !.n = Latest(req[w].m)]
             next == [req[w] EXCEPT !.pc = req[w].then, !.then = "idle"]
  <2>3. req[w] \in Request
    BY <1>1 DEF HandlersOK
  <2>4. (MayAppend(req[w].m) /\ Become(w, create)) \/ Become(w, next)
    BY <2>1 DEF RecordVersionFind
  <2>5. next.pc # "create" /\ create.m = req[w].m /\ create.n = Latest(req[w].m)
    BY <2>2, <2>3 DEF Request
  <2>6. UNCHANGED versions
    BY <2>1 DEF RecordVersionFind, tables
  <2> HIDE DEF create, next
  <2> QED BY <1>1, <2>4, <2>5, <2>6, BecomeFields DEF MayAppend
<1>4. CASE Crash(w)
  BY <1>1, <1>4, DoneFields DEF Crash
<1>5. ASSUME NEW t \in net, Answered(w, t) PROVE FALSE
  BY <1>1, <1>5, GotoFields, DoneFields DEF Answered
<1> QED BY <1>2, <1>3, <1>4, <1>5, Turns

\* Every step keeps the invariant of the versions.
LEMMA VersionStep ==
    ASSUME Base, [Next]_vars, VersionInv
    PROVE  VersionInv'
<1>1. HandlersOK /\ versions \in [Milestones -> Seq(Version)]
  BY BaseParts DEF TablesOK
<1>2. ASSUME NEW m \in Milestones, NEW n \in 1..(Latest(m)' - 1)
      PROVE  versions'[m][n].status # "SUBMITTED"
  <2>1. Latest(m) \in Nat /\ versions[m] \in Seq(Version)
    BY <1>1 DEF Latest
  <2>2. CASE Kept(m)
    <3>1. n \in 1..(Latest(m) - 1) /\ Settles(versions'[m][n], versions[m][n])
      BY <1>2, <2>1, <2>2 DEF Kept, Latest
    <3> QED BY <3>1 DEF Settles, VersionInv, OnlyLatestOpen
  <2>3. CASE Appended(m)
    <3>1. n \in 1..Latest(m) /\ versions'[m][n] = versions[m][n]
      BY <1>2, <2>1, <2>3 DEF Appended, Latest
    <3>2. n = Latest(m) => versions[m][n].status # "SUBMITTED"
      BY <2>1, <2>3, <3>1 DEF Appended, VersionInv
    <3> QED BY <2>1, <3>1, <3>2 DEF VersionInv, OnlyLatestOpen
  <2> QED BY <2>2, <2>3, VersionMoves
<1>3. ASSUME NEW w \in Workers, At(w, "create")'
      PROVE  /\ req'[w].n <= Len(versions'[req'[w].m])
             /\ (req'[w].n = Len(versions'[req'[w].m]) /\ req'[w].n > 0) =>
                   versions'[req'[w].m][req'[w].n].status # "SUBMITTED"
  <2> DEFINE m == req'[w].m
             n == req'[w].n
  <2>1. m \in Milestones /\ n \in Nat
    <3>1. HandlersOK'
      BY BaseStep, BaseParts, PTL
    <3> QED BY <1>3, <3>1 DEF HandlersOK, LocalOK, Request, At
  <2>2. Latest(m) \in Nat /\ versions[m] \in Seq(Version)
    BY <1>1, <2>1 DEF Latest
  <2>3. CASE req'[w] # req[w]
    <3>1. UNCHANGED versions /\ ~Awaiting(m) /\ n = Latest(m)
      BY <1>3, <2>3, CreateMoves
    <3> QED BY <2>2, <3>1 DEF Latest, Awaiting
  <2>4. CASE req'[w] = req[w]
    <3>1. n <= Latest(m) /\ (n = Latest(m) /\ n > 0 => versions[m][n].status # "SUBMITTED")
      BY <1>3, <2>4 DEF VersionInv, At
    <3>2. CASE Kept(m)
      <4> HIDE DEF m, n
      <4>1. Len(versions'[m]) = Latest(m)
        BY <3>2 DEF Kept, Latest
      <4>2. CASE n = Latest(m) /\ n > 0
        <5>1. Settles(versions'[m][n], versions[m][n])
          BY <2>1, <2>2, <3>2, <4>2 DEF Kept, Latest
        <5> QED BY <3>1, <4>1, <5>1 DEF Settles, m, n
      <4> QED BY <3>1, <4>1, <4>2 DEF m, n
    <3>3. CASE Appended(m)
      <4>1. Len(versions'[m]) = Latest(m) + 1
        BY <2>2, <3>3 DEF Appended, Latest
      <4> QED BY <2>1, <2>2, <3>1, <4>1
    <3> QED BY <2>1, <3>2, <3>3, VersionMoves
  <2> QED BY <2>3, <2>4
<1> QED BY <1>2, <1>3 DEF VersionInv, OnlyLatestOpen, Latest, At

\* One version under review (ProofVersionsService.recordVersion): however submissions,
\* their retries and proof_submitted events interleave, only the latest version of a
\* milestone can await review.
THEOREM OneOpenVersion == Spec => []OnlyLatestOpen
<1>1. Init => VersionInv
  BY DEF Init, VersionInv, OnlyLatestOpen, Latest, At, Idle
<1>2. VersionInv => OnlyLatestOpen
  BY DEF VersionInv
<1> QED BY <1>1, <1>2, BaseInit, BaseStep, VersionStep, PTL DEF Spec

-----------------------------------------------------------------------------
(* Reminders *)

\* Only the SLA job sends reminders.
LEMMA SentWriters ==
    ASSUME Base, [Next]_vars, sent' # sent
    PROVE  \E w \in Workers : EvaluateVersion(w)
<1>1. ASSUME NEW w \in Workers, Step(w), sent' # sent PROVE EvaluateVersion(w)
  BY <1>1
  DEF Step, Supersede, RecordVersionFind, RecordVersionCreate, SetProofSubmitted,
      AssertReviewable, RejectVersion, Reopen, ForgetApprovals, CreateApproval,
      CountApprovals, MarkConfirmed, MarkApprovedFind, ApproveVersion, OverrideStatus,
      Unclaim, ProposeCheck, InsertRelease, FindOpen, SignRelease, HasDualApproval,
      DeclineRelease, ClaimRelease, BookRelease, FinishRelease, FailRelease,
      ClearApprovals, EndSlaChecks, SendRetentionWarning, MarkUnlockedByJob,
      Acknowledge, Submit, tables
<1>2. ASSUME NEW w \in Workers, Take(w) \/ Crash(w) PROVE UNCHANGED sent
  BY <1>2, TakeMoves DEF Crash, tables
<1>3. ASSUME NEW t \in net, Land(t) \/ Expire(t) \/ GiveUp(t) PROVE UNCHANGED sent
  BY <1>3 DEF Land, Expire, GiveUp, tables
<1>4. ASSUME NEW m \in Milestones, Contract(m) PROVE UNCHANGED sent
  BY <1>4 DEF Contract, SubmitProofOnChain, RaiseDispute, RejectDispute, ApproveDispute,
              RequestReplacement, ContractStep, tables
<1> QED BY <1>1, <1>2, <1>3, <1>4 DEF Next, ExpireLock, Later, vars, tables

\* A reminder is counted once its flag is claimed, on a version that had it not.
LEMMA SentMoves ==
    ASSUME Base, RemindInv, [Next]_vars, sent' # sent
    PROVE  \E k \in Milestones, q \in {50, 90} : \E n \in 1..Latest(k) :
              /\ sent' = [sent EXCEPT ![k][q][n] = sent[k][q][n] + 1]
              /\ ~Flag(versions[k][n], q)
              /\ Flag(versions'[k][n], q)
<1>1. PICK w \in Workers : EvaluateVersion(w)
  BY SentWriters
<1>2. PICK i \in req[w].todo :
        \/ /\ ~versions[i.m][i.n].r90
           /\ SetVersion(i.m, i.n, [versions[i.m][i.n] EXCEPT !.r90 = TRUE, !.r50 = TRUE])
           /\ sent' = [sent EXCEPT ![i.m][90][i.n] = sent[i.m][90][i.n] + 1]
        \/ /\ ~versions[i.m][i.n].r50
           /\ SetVersion(i.m, i.n, [versions[i.m][i.n] EXCEPT !.r50 = TRUE])
           /\ sent' = [sent EXCEPT ![i.m][50][i.n] = sent[i.m][50][i.n] + 1]
  BY <1>1 DEF EvaluateVersion, ClaimStep
<1> DEFINE k == i.m
           n == i.n
           v == versions[k][n]
           x == [v EXCEPT !.r90 = TRUE, !.r50 = TRUE]
           y == [v EXCEPT !.r50 = TRUE]
<1>3. k \in Milestones /\ n \in 1..Latest(k)
  <2>1. req[w] \in Request
    BY BaseParts DEF HandlersOK
  <2> QED BY <2>1 DEF Request, Item, RemindInv
<1>4. versions \in [Milestones -> Seq(Version)] /\ v \in Version
  BY <1>3, BaseParts DEF TablesOK, Latest
<1>5. x.r90 /\ y.r50
  <2> HIDE DEF v
  <2> QED BY <1>4 DEF Version
<1>6. CASE /\ ~v.r90 /\ SetVersion(k, n, x)
           /\ sent' = [sent EXCEPT ![k][90][n] = sent[k][90][n] + 1]
  <2> HIDE DEF x, y, k, n
  <2>1. versions'[k][n] = x
    BY <1>3, <1>4, <1>6 DEF SetVersion, Latest
  <2> QED BY <1>3, <1>5, <1>6, <2>1 DEF Flag
<1>7. CASE /\ ~v.r50 /\ SetVersion(k, n, y)
           /\ sent' = [sent EXCEPT ![k][50][n] = sent[k][50][n] + 1]
  <2> HIDE DEF x, y, k, n
  <2>1. versions'[k][n] = y
    BY <1>3, <1>4, <1>7 DEF SetVersion, Latest
  <2>2. ~Flag(versions[k][n], 50) /\ Flag(versions'[k][n], 50)
    BY <1>5, <1>7, <2>1 DEF Flag
  <2> QED BY <1>3, <1>7, <2>2
<1> QED BY <1>2, <1>6, <1>7

\* A batch shrinks, or is read afresh; it names versions that exist.
LEMMA BatchMoves ==
    ASSUME Base, RemindInv, [Next]_vars, NEW w \in Workers, NEW i \in req'[w].todo
    PROVE  i.n \in 1..Latest(i.m)
<1>1. HandlersOK
  BY BaseParts
<1>2. i \in req[w].todo => i.n \in 1..Latest(i.m)
  BY DEF RemindInv
<1>3. ASSUME NEW t \in net, Answered(w, t) PROVE i \in req[w].todo
  BY <1>1, <1>3, GotoFields, DoneFields DEF Answered
<1>4. CASE Take(w)
  BY <1>4, TakeMoves
<1>5. CASE Step(w) \/ Crash(w)
  BY <1>1, <1>2, <1>5, PayingMoves, DoneFields DEF Crash
<1> QED BY <1>2, <1>3, <1>4, <1>5, Turns

\* Every step keeps the flag ahead of the reminder.
LEMMA RemindStep ==
    ASSUME Base, [Next]_vars, RemindInv
    PROVE  RemindInv'
<1>1. /\ versions \in [Milestones -> Seq(Version)]
      /\ sent \in [Milestones -> [{50, 90} -> [1..MaxVersions -> Nat]]]
  BY BaseParts DEF TablesOK
<1>2. ASSUME NEW m \in Milestones
      PROVE  /\ Latest(m) \in Nat /\ Len(versions'[m]) >= Latest(m)
             /\ \A n \in 1..Latest(m), p \in {50, 90} :
                   Flag(versions[m][n], p) => Flag(versions'[m][n], p)
  <2>1. versions[m] \in Seq(Version) /\ Latest(m) \in Nat
    BY <1>1 DEF Latest
  <2>2. CASE Kept(m)
    BY <2>1, <2>2 DEF Kept, Settles, Flag, Latest
  <2>3. CASE Appended(m)
    BY <2>1, <2>3 DEF Appended, Latest
  <2> QED BY <2>2, <2>3, VersionMoves
<1>3. ASSUME NEW w \in Workers, NEW i \in req'[w].todo
      PROVE  i.n \in 1..Len(versions'[i.m])
  <2>1. HandlersOK'
    BY BaseStep, BaseParts, PTL
  <2>2. i.m \in Milestones
    BY <2>1 DEF HandlersOK, Request, Item
  <2>3. i.n \in 1..Latest(i.m) /\ Len(versions'[i.m]) >= Latest(i.m)
    BY <1>2, <2>2, BatchMoves
  <2>4. Len(versions'[i.m]) \in Nat
    <3>1. TablesOK'
      BY BaseStep, BaseParts, PTL
    <3> QED BY <2>2, <3>1 DEF TablesOK
  <2> QED BY <1>2, <2>2, <2>3, <2>4
<1>4. ASSUME NEW m \in Milestones, NEW p \in {50, 90}, NEW n \in 1..MaxVersions
      PROVE  /\ sent'[m][p][n] <= 1
             /\ sent'[m][p][n] > 0 => n <= Len(versions'[m]) /\ Flag(versions'[m][n], p)
  <2>1. n \in Nat /\ n > 0 /\ sent[m][p][n] \in Nat
    BY <1>1, BoundsAssumption
  <2>2. CASE sent'[m][p][n] = sent[m][p][n]
    <3>1. /\ sent[m][p][n] <= 1
          /\ sent[m][p][n] > 0 => n \in 1..Latest(m) /\ Flag(versions[m][n], p)
      BY <1>2, <2>1 DEF RemindInv
    <3>2. Len(versions'[m]) \in Nat
      <4>1. TablesOK'
        BY BaseStep, BaseParts, PTL
      <4> QED BY <4>1 DEF TablesOK
    <3> QED BY <1>2, <2>1, <2>2, <3>1, <3>2
  <2>3. CASE sent'[m][p][n] # sent[m][p][n]
    <3>1. PICK k \in Milestones, q \in {50, 90} : \E i \in 1..Latest(k) :
             /\ sent' = [sent EXCEPT ![k][q][i] = sent[k][q][i] + 1]
             /\ ~Flag(versions[k][i], q)
             /\ Flag(versions'[k][i], q)
      BY <2>3, SentMoves
    <3>2. PICK i \in 1..Latest(k) :
             /\ sent' = [sent EXCEPT ![k][q][i] = sent[k][q][i] + 1]
             /\ ~Flag(versions[k][i], q)
             /\ Flag(versions'[k][i], q)
      BY <3>1
    <3>3. k = m /\ q = p /\ i = n /\ sent'[m][p][n] = sent[m][p][n] + 1
      BY <1>1, <2>3, <3>2
    <3>4. ~(sent[m][p][n] > 0)
      BY <3>2, <3>3 DEF RemindInv
    <3>5. Len(versions'[m]) \in Nat
      <4>1. TablesOK'
        BY BaseStep, BaseParts, PTL
      <4> QED BY <4>1 DEF TablesOK
    <3>6. n <= Len(versions'[m]) /\ Flag(versions'[m][n], p)
      BY <1>2, <2>1, <3>2, <3>3, <3>5
    <3> QED BY <2>1, <3>3, <3>4, <3>6
  <2> QED BY <2>2, <2>3
<1> QED BY <1>3, <1>4 DEF RemindInv, Latest, Flag

\* A reminder goes out once (MilestoneProofSlaService.evaluate): even when the key of a
\* slow run has expired and another run works on the same batch.
THEOREM ReminderOnce == Spec => []RemindedOnce
<1>1. Init => RemindInv
  BY DEF Init, RemindInv, Idle
<1>2. RemindInv => RemindedOnce
  BY DEF RemindInv, RemindedOnce
<1> QED BY <1>1, <1>2, BaseInit, BaseStep, RemindStep, PTL DEF Spec

-----------------------------------------------------------------------------
(* Claims of the SLA job *)

\* Only an overdue version becomes expired, and its run goes on to pay it out.
LEMMA ExpiryMoves ==
    ASSUME Base, [Next]_vars, AutoApprove, NEW m \in Milestones, NEW n \in 1..Latest(m),
           ~versions[m][n].expired, versions'[m][n].expired
    PROVE  \E w \in Workers : Claims(w, m, n)'
<1>1. /\ versions \in [Milestones -> Seq(Version)] /\ versions[m] \in Seq(Version)
      /\ HandlersOK /\ versions[m][n] \in Version
  BY BaseParts DEF TablesOK, Latest
<1>2. ASSUME NEW w \in Workers, Supersede(w) PROVE FALSE
  <2>1. versions' = [versions EXCEPT ![req[w].m] =
                       [i \in DOMAIN versions[req[w].m] |-> Superseded(versions[req[w].m][i])]]
    BY <1>2 DEF Supersede
  <2>2. versions'[m][n] = versions[m][n] \/ versions'[m][n] = Superseded(versions[m][n])
    BY <1>1, <2>1 DEF Latest
  <2> QED BY <1>1, <2>2 DEF Superseded, Version
<1>3. ASSUME NEW w \in Workers, RecordVersionCreate(w) PROVE FALSE
  <2>1. \/ UNCHANGED versions
        \/ versions' = [versions EXCEPT ![req[w].m] = Append(versions[req[w].m], NewVersion)]
    BY <1>3 DEF RecordVersionCreate
  <2>2. versions'[m] = versions[m] \/ versions'[m] = Append(versions[m], NewVersion)
    BY <1>1, <2>1
  <2>3. versions'[m][n] = versions[m][n]
    BY <1>1, <2>2 DEF Latest
  <2> QED BY <2>3
<1>4. ASSUME NEW k, NEW i, NEW x, SetVersion(k, i, x),
             (k = m /\ i = n) => x.expired = versions[m][n].expired
      PROVE  FALSE
  <2>1. versions'[m][n] = versions[m][n] \/ (k = m /\ i = n /\ versions'[m][n] = x)
    BY <1>1, <1>4 DEF SetVersion, Latest
  <2> QED BY <1>4, <2>1
<1>5. ASSUME NEW w \in Workers, RejectVersion(w) \/ ApproveVersion(w) \/ Unclaim(w)
      PROVE  FALSE
  <2> DEFINE k == req[w].m
             i == req[w].n
             v == versions[k][i]
             x == [v EXCEPT !.status = "REJECTED"]
             y == [v EXCEPT !.status = "APPROVED"]
             z == [v EXCEPT !.expired = FALSE]
  <2>1. \/ UNCHANGED versions
        \/ SetVersion(k, i, x) \/ SetVersion(k, i, y) \/ SetVersion(k, i, z)
    BY <1>5 DEF RejectVersion, ApproveVersion, Unclaim, AfterFailure
  <2>2. ASSUME k = m, i = n
        PROVE  x.expired = v.expired /\ y.expired = v.expired /\ ~z.expired
    <3>1. v \in Version
      BY <1>1, <2>2
    <3> HIDE DEF v
    <3> QED BY <3>1 DEF Version
  <2>3. ASSUME k = m, i = n PROVE v = versions[m][n]
    BY <2>3
  <2> HIDE DEF k, i, v, x, y, z
  <2>4. CASE SetVersion(k, i, x)
    BY <1>4, <2>2, <2>3, <2>4
  <2>5. CASE SetVersion(k, i, y)
    BY <1>4, <2>2, <2>3, <2>5
  <2>6. CASE SetVersion(k, i, z)
    <3>1. (k = m /\ i = n) => ~z.expired
      BY <2>2
    <3>2. versions'[m][n] = versions[m][n] \/ (k = m /\ i = n /\ versions'[m][n] = z)
      BY <1>1, <2>6 DEF SetVersion, Latest
    <3> QED BY <3>1, <3>2
  <2> QED BY <2>1, <2>4, <2>5, <2>6
<1>6. ASSUME NEW w \in Workers, EvaluateVersion(w) PROVE Claims(w, m, n)'
  <2>1. PICK i \in req[w].todo :
          \/ UNCHANGED versions
          \/ /\ SetVersion(i.m, i.n, [versions[i.m][i.n] EXCEPT !.expired = TRUE])
             /\ Become(w, [[req[w] EXCEPT !.todo = req[w].todo \ {i}] EXCEPT
                             !.pc = "submit", !.then = "auto", !.m = i.m, !.n = i.n])
          \/ SetVersion(i.m, i.n, [versions[i.m][i.n] EXCEPT !.r90 = TRUE, !.r50 = TRUE])
          \/ SetVersion(i.m, i.n, [versions[i.m][i.n] EXCEPT !.r50 = TRUE])
    BY <1>6 DEF EvaluateVersion
  <2> DEFINE v == versions[i.m][i.n]
             x == [v EXCEPT !.expired = TRUE]
             y == [v EXCEPT !.r90 = TRUE, !.r50 = TRUE]
             z == [v EXCEPT !.r50 = TRUE]
             rest == [req[w] EXCEPT !.todo = req[w].todo \ {i}]
             pay == [rest EXCEPT !.pc = "submit", !.then = "auto", !.m = i.m, !.n = i.n]
  <2>2. ASSUME i.m = m, i.n = n
        PROVE  y.expired = versions[m][n].expired /\ z.expired = versions[m][n].expired
    <3>1. v \in Version /\ v = versions[m][n]
      BY <1>1, <2>2
    <3> HIDE DEF v
    <3> QED BY <3>1 DEF Version
  <2>3. pay.pc = "submit" /\ pay.then = "auto" /\ pay.m = i.m /\ pay.n = i.n
    <3>1. req[w] \in Request /\ req[w].todo \ {i} \in SUBSET Item
      BY <1>1 DEF HandlersOK, Request
    <3> QED BY <3>1 DEF Request
  <2>4. \/ UNCHANGED versions
        \/ SetVersion(i.m, i.n, x) /\ Become(w, pay)
        \/ SetVersion(i.m, i.n, y) \/ SetVersion(i.m, i.n, z)
    BY <2>1
  <2> HIDE DEF x, y, z, v, pay, rest
  <2>5. CASE SetVersion(i.m, i.n, x) /\ Become(w, pay)
    <3>1. req'[w] = pay
      BY <1>1, <2>5, BecomeFields
    <3>2. i.m = m /\ i.n = n
      BY <1>1, <2>5 DEF SetVersion, Latest
    <3> QED BY <2>3, <3>1, <3>2 DEF Claims
  <2>6. ~SetVersion(i.m, i.n, y)
    BY <1>4, <2>2
  <2>7. ~SetVersion(i.m, i.n, z)
    BY <1>4, <2>2
  <2> QED BY <2>4, <2>5, <2>6, <2>7
<1> QED BY <1>2, <1>3, <1>5, <1>6, VersionWriters

\* A claim stays with its run until it is paid out or given back.
LEMMA ClaimMoves ==
    ASSUME Base, [Next]_vars, NEW m \in Milestones, NEW n \in 1..Latest(m),
           NEW w \in Workers, Claims(w, m, n), "crash" \notin upset'
    PROVE  \/ Claims(w, m, n)'
           \/ versions'[m][n].status # "SUBMITTED"
           \/ ~versions'[m][n].expired
<1>1. /\ HandlersOK /\ versions \in [Milestones -> Seq(Version)]
      /\ versions[m][n] \in Version /\ req[w] \in Request
  BY BaseParts DEF TablesOK, Latest, HandlersOK
<1>2. req'[w] = req[w] => Claims(w, m, n)'
  BY DEF Claims
<1>3. ~Take(w) /\ ~Crash(w)
  BY TakeMoves DEF Claims, At, Crash
<1>4. ASSUME NEW t \in net, Answered(w, t) PROVE Claims(w, m, n)'
  <2>1. req[w].then = "auto" /\ (Goto(w, "unclaim") \/ Goto(w, "autoConfirm"))
    BY <1>4 DEF Answered, Claims, At
  <2> QED BY <1>1, <2>1, GotoFields DEF Claims
<1>5. CASE Step(w)
  <2>1. \/ Submit(w) /\ req[w].then = "auto"
        \/ MarkConfirmed(w) /\ At(w, "autoConfirm")
        \/ ApproveVersion(w) /\ At(w, "autoApprove")
        \/ Unclaim(w)
    <3>1. ~(\/ Supersede(w) \/ RecordVersionFind(w) \/ RecordVersionCreate(w)
            \/ SetProofSubmitted(w) \/ AssertReviewable(w) \/ RejectVersion(w)
            \/ Reopen(w) \/ ForgetApprovals(w) \/ CreateApproval(w) \/ CountApprovals(w))
      BY DEF Claims, At, Supersede, RecordVersionFind, RecordVersionCreate,
             SetProofSubmitted, AssertReviewable, RejectVersion, Reopen, ForgetApprovals,
             CreateApproval, CountApprovals
    <3>2. ~(\/ MarkApprovedFind(w) \/ OverrideStatus(w) \/ EvaluateVersion(w)
            \/ EndSlaChecks(w) \/ SendRetentionWarning(w) \/ MarkUnlockedByJob(w)
            \/ ProposeCheck(w) \/ InsertRelease(w) \/ FindOpen(w))
      BY DEF Claims, At, MarkApprovedFind, OverrideStatus, EvaluateVersion, EndSlaChecks,
             SendRetentionWarning, MarkUnlockedByJob, ProposeCheck, InsertRelease,
             FindOpen
    <3>3. ~(\/ SignRelease(w) \/ HasDualApproval(w) \/ DeclineRelease(w)
            \/ ClaimRelease(w) \/ BookRelease(w) \/ FinishRelease(w) \/ FailRelease(w)
            \/ ClearApprovals(w) \/ Acknowledge(w))
      BY DEF Claims, At, SignRelease, HasDualApproval, DeclineRelease, ClaimRelease,
             BookRelease, FinishRelease, FailRelease, ClearApprovals, Acknowledge
    <3>4. /\ Submit(w) => req[w].then = "auto"
          /\ MarkConfirmed(w) => At(w, "autoConfirm")
          /\ ApproveVersion(w) => At(w, "autoApprove")
      BY DEF Claims, At, Submit, MarkConfirmed, ApproveVersion
    <3> QED BY <1>5, <3>1, <3>2, <3>3, <3>4 DEF Step
  <2>2. CASE Submit(w) /\ req[w].then = "auto"
    <3>1. Goto(w, "wait") \/ Goto(w, "unclaim")
      BY <2>2 DEF Submit, Raise
    <3> QED BY <1>1, <2>2, <3>1, GotoFields DEF Claims
  <2>3. CASE MarkConfirmed(w) /\ At(w, "autoConfirm")
    <3>1. Goto(w, "autoApprove")
      BY <2>3 DEF MarkConfirmed, At
    <3> QED BY <1>1, <3>1, GotoFields DEF Claims
  <2>4. ASSUME NEW x, SetVersion(m, n, x) PROVE versions'[m][n] = x
    BY <1>1, <2>4 DEF SetVersion, Latest
  <2>5. CASE ApproveVersion(w) /\ At(w, "autoApprove")
    <3> DEFINE x == [versions[m][n] EXCEPT !.status = "APPROVED"]
    <3>1. SetVersion(m, n, x)
      BY <2>5 DEF ApproveVersion, Claims
    <3>2. x.status = "APPROVED"
      BY <1>1 DEF Version
    <3> HIDE DEF x
    <3> QED BY <2>4, <3>1, <3>2
  <2>6. CASE Unclaim(w)
    <3> DEFINE x == [versions[m][n] EXCEPT !.expired = FALSE]
    <3>1. SetVersion(m, n, x)
      BY <2>6 DEF Unclaim, AfterFailure, Claims
    <3>2. x.expired = FALSE
      BY <1>1 DEF Version
    <3> HIDE DEF x
    <3> QED BY <2>4, <3>1, <3>2
  <2> QED BY <2>1, <2>2, <2>3, <2>5, <2>6
<1> QED BY <1>2, <1>3, <1>4, <1>5, Turns

\* What was noted stays noted.
LEMMA UpsetGrows ==
    ASSUME Base, [Next]_vars
    PROVE  upset \subseteq upset'
<1>1. ASSUME NEW w \in Workers, Step(w) PROVE UNCHANGED upset
  BY <1>1
  DEF Step, Supersede, RecordVersionFind, RecordVersionCreate, SetProofSubmitted,
      AssertReviewable, RejectVersion, Reopen, ForgetApprovals, CreateApproval,
      CountApprovals, MarkConfirmed, MarkApprovedFind, ApproveVersion, OverrideStatus,
      EvaluateVersion, Unclaim, ProposeCheck, InsertRelease, FindOpen, SignRelease,
      HasDualApproval, DeclineRelease, ClaimRelease, BookRelease, FinishRelease,
      FailRelease, ClearApprovals, EndSlaChecks, SendRetentionWarning,
      MarkUnlockedByJob, Acknowledge, Submit
<1>2. ASSUME NEW w \in Workers, Take(w) \/ Crash(w) PROVE upset \subseteq upset'
  BY <1>2, TakeMoves DEF Crash
<1>3. ASSUME NEW t \in net, Land(t) \/ Expire(t) \/ GiveUp(t) PROVE upset \subseteq upset'
  BY <1>3 DEF Land, Expire, GiveUp
<1>4. ASSUME NEW m \in Milestones, Contract(m) PROVE upset \subseteq upset'
  BY <1>4 DEF Contract, SubmitProofOnChain, RaiseDispute, RejectDispute, ApproveDispute,
              RequestReplacement, ContractStep
<1> QED BY <1>1, <1>2, <1>3, <1>4 DEF Next, ExpireLock, Later, vars

\* Every step keeps a worker behind every claim.
LEMMA ClaimStepOK ==
    ASSUME Base, [Next]_vars, ClaimInv
    PROVE  ClaimInv'
<1> SUFFICES ASSUME AutoApprove, "crash" \notin upset', NEW m \in Milestones,
                    NEW n \in 1..Len(versions'[m]),
                    versions'[m][n].status = "SUBMITTED", versions'[m][n].expired
             PROVE  \E w \in Workers : Claims(w, m, n)'
  BY DEF ClaimInv, Latest, Claims
<1>1. versions[m] \in Seq(Version) /\ Latest(m) \in Nat
  BY BaseParts DEF TablesOK, Latest
<1>2. n \in 1..Latest(m) /\ versions[m][n].status = "SUBMITTED"
  <2>1. CASE Kept(m)
    BY <2>1 DEF Kept, Settles, Latest
  <2>2. CASE Appended(m)
    <3>1. n = Latest(m) + 1 => ~versions'[m][n].expired
      BY <1>1, <2>2 DEF Appended, Latest, NewVersion
    <3>2. n \in 1..Latest(m) /\ versions'[m][n] = versions[m][n]
      BY <1>1, <2>2, <3>1 DEF Appended, Latest
    <3> QED BY <3>2
  <2> QED BY <2>1, <2>2, VersionMoves
<1>3. CASE versions[m][n].expired
  <2>1. "crash" \notin upset
    BY UpsetGrows
  <2>2. PICK w \in Workers : Claims(w, m, n)
    BY <1>2, <1>3, <2>1 DEF ClaimInv
  <2> QED BY <1>2, <2>2, ClaimMoves
<1>4. CASE ~versions[m][n].expired
  BY <1>2, <1>4, ExpiryMoves
<1> QED BY <1>3, <1>4

\* A claim ends (MilestoneProofSlaService.autoApprove): whatever fails, expires or times
\* out, once nothing is in flight no version is left both expired and under review,
\* unless the process died.
THEOREM ClaimsCleared == Spec => []ClaimsEnd
<1>1. Init => ClaimInv
  BY DEF Init, ClaimInv, Latest
<1>2. ClaimInv => ClaimsEnd
  <2> SUFFICES ASSUME ClaimInv, Quiet, NEW m \in Milestones, NEW n \in 1..Latest(m),
                      AutoApprove, "crash" \notin upset,
                      versions[m][n].status = "SUBMITTED", versions[m][n].expired
               PROVE  FALSE
    BY DEF ClaimsEnd
  <2>1. PICK w \in Workers : Claims(w, m, n)
    BY DEF ClaimInv
  <2> QED BY <2>1 DEF Claims, Quiet, Resting, At
<1> QED BY <1>1, <1>2, BaseInit, BaseStep, ClaimStepOK, PTL DEF Spec

-----------------------------------------------------------------------------
(* One request at a time: the approvals and the books *)

\* The only handler at work, if any.
InFlight(q) ==
    \/ q.pc = "idle" /\ Resting
    \/ \E w \in Workers : /\ req[w] = q /\ ~At(w, "idle")
                          /\ \A o \in Workers \ {w} : At(o, "idle")

\* What the contract and its events say of each other while nothing is disputed or
\* replaced: an event of a payout carries all that was paid, and nothing is left.
ToConfirm(m) == \E d \in events : d.m = m /\ d.kind = "milestone_confirmed"
PayoutSeen(d) ==
    d.kind = "milestone_confirmed" =>
        chain[d.m].left = 0 /\ d.amount = chain[d.m].got
ContractInv ==
    /\ \A d \in events :
         /\ d.id <= emitted /\ PayoutSeen(d)
         /\ d.kind \in {"milestone_unlocked", "proof_submitted", "milestone_confirmed"}
    /\ \A d, e \in events : d.id = e.id => d = e
    /\ \A m \in Milestones : chain[m].left > 0 => chain[m].got + chain[m].left = Amount
    /\ \A t \in net : t.by # Nobody

\* What the handler knows at each of its labels.
Submitting(q) ==
    \/ q.pc \in {"supersede", "setSubmitted"}
    \/ q.pc \in {"latest", "create"} /\ q.then = "setSubmitted"
Handling(q) == q.pc = "ack" \/ (q.pc \in {"latest", "create"} /\ q.then = "ack")
Reviewing == {"review", "rejectVersion", "reopen", "approve"}
Unlocking(q) ==
    q.pc = "unlocked" \/ (q.pc \in {"submit", "wait"} /\ q.then = "unlock")
Releasing(q) ==
    \/ q.pc \in {"find", "sign", "signed", "claim", "book"}
    \/ q.pc \in {"submit", "wait"} /\ q.then = "partial"
PaidOut == {"confirm", "autoConfirm", "markRead", "markApproved", "autoApprove"}

Knows(q) ==
    LET m == q.m
    IN  /\ q.pc = "supersede" => q.then = "setSubmitted"
        /\ Submitting(q) => row[m].status = "PENDING"
        /\ q.pc = "setSubmitted" => Latest(m) > 0
        /\ q.pc = "create" => q.n = Latest(m) /\ ~Awaiting(m)
        /\ q.pc \in Reviewing => row[m].status = "PROOF_SUBMITTED"
        /\ q.pc = "approve" => q.n = Latest(m) /\ (chain[m].left > 0 => Awaiting(m))
        /\ q.pc \in PaidOut => chain[m].left = 0
        /\ q.pc \in {"confirm", "autoConfirm"} => chain[m].got = Amount
        /\ Unlocking(q) => row[m].status = "LOCKED"
        /\ Releasing(q) => row[m].paid = q.p
        /\ q.pc = "book" => /\ chain[m].got = q.p + release[q.r].amount
                            /\ release[q.r].back => chain[m].left = 0
        /\ Handling(q) =>
             \A d \in events : (d.id = q.e /\ d.kind = "milestone_confirmed") =>
                 row[d.m].status = "CONFIRMED"
        /\ q.pc \notin {"override", "clear"}

\* The row agrees with the contract, but for a payment that is being booked and a
\* payout whose event is still to come.
Books(m, q) ==
    /\ \/ q.m = m /\ q.pc \in {"confirm", "autoConfirm", "book"}
       \/ row[m].paid = chain[m].got
    /\ \/ q.m = m /\ q.pc = "book" /\ release[q.r].back
       \/ ToConfirm(m)
       \/ row[m].status = "CONFIRMED" <=> chain[m].left = 0

\* While there is something to pay, the approvals are those of the version under
\* review, but for a rejection that is under way.
Fresh(m, q) ==
    chain[m].left > 0 =>
        /\ row[m].status \in {"LOCKED", "PENDING"} =>
              approvals[m] = {} \/ (q.m = m /\ q.pc = "forget")
        /\ approvals[m] = {} \/ Awaiting(m) \/ (q.m = m /\ q.pc \in {"reopen", "forget"})
        /\ row[m].status = "PROOF_SUBMITTED" =>
              Latest(m) > 0 \/ (q.m = m /\ q.pc \in {"latest", "create"})
        /\ \A u \in approvals[m] : given[m][u] = Latest(m)

Sound(q) == Knows(q) /\ \A m \in Milestones : Books(m, q) /\ Fresh(m, q)

\* While nothing irregular happened, at most one handler is at work, and what it
\* knows, the books and the approvals are right.
CalmInv == upset = {} => ContractInv /\ \E q \in Request : InFlight(q) /\ Sound(q)

\* The parts of Books and Fresh that change only when a milestone's row, versions,
\* approvals or money do.
Same(m) ==
    /\ row'[m].status = row[m].status /\ row'[m].paid = row[m].paid
    /\ approvals'[m] = approvals[m] /\ given'[m] = given[m]
    /\ Len(versions'[m]) = Len(versions[m])
    /\ Awaiting(m)' <=> Awaiting(m)
    /\ chain'[m].left = chain[m].left /\ chain'[m].got = chain[m].got
    /\ ToConfirm(m)' <=> ToConfirm(m)
Special == {"confirm", "autoConfirm", "book", "reopen", "forget", "latest", "create"}

\* A milestone that nothing happened to, and whose handler has nothing pending there.
LEMMA SameSound ==
    ASSUME NEW m, NEW q, NEW r, Books(m, q), Fresh(m, q), Same(m),
           q.m # m \/ q.pc \notin Special
    PROVE  Books(m, r)' /\ Fresh(m, r)'
<1>1. Books(m, r)'
  BY DEF Books, Same, Special
<1>2. Fresh(m, r)'
  BY DEF Fresh, Same, Special, Latest
<1> QED BY <1>1, <1>2

\* Tables, contract and events that stay are the same for a milestone.
LEMMA SameTables ==
    ASSUME UNCHANGED <<row, approvals, given, versions, chain, events>>, NEW m
    PROVE  Same(m)
BY DEF Same, Awaiting, Latest, ToConfirm

\* A handler that ended knows nothing.
LEMMA IdleKnows ==
    ASSUME NEW r, r.pc \in {"idle", "sla", "propose", "insert", "count", "scan",
                            "finish", "fail", "forget", "decline", "unclaim"}
    PROVE  Knows(r)'
BY DEF Knows, Submitting, Handling, Reviewing, Unlocking, Releasing, PaidOut

\* Nothing moves the contract, its events and what is sent.
LEMMA SameContract ==
    ASSUME ContractInv, UNCHANGED <<chain, emitted>>, events' \subseteq events,
           net' \subseteq net
    PROVE  ContractInv'
BY DEF ContractInv, PayoutSeen

\* What a jump keeps.
Goes(r, q, label) ==
    /\ r.pc = label /\ r.then = q.then /\ r.m = q.m /\ r.n = q.n /\ r.r = q.r
    /\ r.p = q.p /\ r.e = q.e

\* A jump keeps the locals.
LEMMA GotoGoes ==
    ASSUME HandlersOK, NEW w \in Workers, NEW q, q = req[w], NEW r, r = req'[w],
           NEW label, Goto(w, label)
    PROVE  Goes(r, q, label)
BY DEF HandlersOK, Goto, Become, Request, Goes

\* The end of a handler is idle.
LEMMA DoneIdle ==
    ASSUME HandlersOK, NEW w \in Workers, NEW r, r = req'[w], Done(w)
    PROVE  r.pc = "idle"
BY DoneFields

\* A failed call leaves a handler that knows nothing.
LEMMA RaiseKnows ==
    ASSUME HandlersOK, NEW w \in Workers, At(w, "submit") \/ At(w, "wait"), Raise(w),
           NEW r, r = req'[w]
    PROVE  Knows(r)'
BY RaiseFields, DoneFields, GotoFields, IdleKnows

\* A step that leaves the tables, the contract and its events alone.
LEMMA TablesSound ==
    ASSUME UNCHANGED <<row, approvals, given, versions, chain, events>>, NEW q, NEW r,
           Sound(q), q.pc \notin Special, Knows(r)'
    PROVE  Sound(r)'
<1>1. ASSUME NEW m \in Milestones PROVE Books(m, r)' /\ Fresh(m, r)'
  BY SameTables, SameSound DEF Sound
<1> QED BY <1>1 DEF Sound

\* The steps that read, decide, send and keep the releases.
LEMMA DecidingSound ==
    ASSUME Base, NEW w \in Workers, NEW q, q = req[w], NEW r, r = req'[w], Sound(q),
           \/ AssertReviewable(w) \/ CountApprovals(w) \/ Submit(w) \/ MarkApprovedFind(w)
           \/ EndSlaChecks(w) \/ ProposeCheck(w) \/ InsertRelease(w) \/ FindOpen(w)
           \/ SignRelease(w) \/ HasDualApproval(w) \/ DeclineRelease(w)
           \/ ClaimRelease(w) \/ FinishRelease(w) \/ FailRelease(w)
    PROVE  Sound(r)'
<1>1. HandlersOK /\ q \in Request /\ LocalOK(q)
  BY BaseParts DEF HandlersOK
<1>2. UNCHANGED <<row, approvals, given, versions, chain, events>> /\ q.pc \notin Special
  BY DEF AssertReviewable, CountApprovals, Submit, MarkApprovedFind, EndSlaChecks,
         ProposeCheck, InsertRelease, FindOpen, SignRelease, HasDualApproval,
         DeclineRelease, ClaimRelease, FinishRelease, FailRelease, tables, ledger, At,
         Special
<1>3. Knows(q)
  BY DEF Sound
<1>4. r.pc = "idle" => Knows(r)'
  BY IdleKnows
<1>5. ASSUME NEW label, Goto(w, label), label \notin {"create", "setSubmitted", "book"},
             \/ q.pc \in {"sign", "signed"} /\ label \in {"signed", "claim"}
             \/ q.pc = "propose" /\ label = "insert"
             \/ q.pc = "submit" /\ label = "wait"
      PROVE  Knows(r)'
  <2>1. Goes(r, q, label)
    BY <1>1, <1>5, GotoGoes
  <2> QED
    BY <1>2, <1>3, <1>5, <2>1
    DEF Knows, Goes, Submitting, Handling, Reviewing, Unlocking, Releasing, PaidOut
<1>6. CASE AssertReviewable(w)
  <2> DEFINE next == [q EXCEPT !.pc = q.then, !.then = "idle", !.n = Latest(q.m)]
  <2>1. q.pc = "review" /\ q.then \in {"rejectVersion", "approve"}
    BY <1>1, <1>6 DEF AssertReviewable, At, LocalOK
  <2>2. Done(w) \/ (Become(w, next) /\ (Awaiting(q.m) \/ Latest(q.m) = 0))
    BY <1>6 DEF AssertReviewable
  <2>3. next.pc = q.then /\ next.m = q.m /\ next.n = Latest(q.m) /\ next.then = "idle"
    BY <1>1 DEF Request
  <2>4. q.m \in Milestones
    BY <1>1, <2>1 DEF LocalOK
  <2>5. ASSUME chain[q.m].left > 0, Latest(q.m) = 0 PROVE FALSE
    <3>1. Fresh(q.m, q) /\ row[q.m].status = "PROOF_SUBMITTED"
      BY <1>3, <2>1, <2>4 DEF Sound, Knows, Reviewing
    <3> QED BY <2>1, <2>5, <3>1 DEF Fresh
  <2> HIDE DEF next
  <2>6. ASSUME Become(w, next), Awaiting(q.m) \/ Latest(q.m) = 0 PROVE Knows(r)'
    <3>1. r = next
      BY <1>1, <2>6, BecomeFields
    <3>2. r.pc \in {"rejectVersion", "approve"} /\ r.m = q.m /\ r.n = Latest(q.m)
      BY <2>1, <2>3, <3>1
    <3>3. row[q.m].status = "PROOF_SUBMITTED" /\ (chain[q.m].left > 0 => Awaiting(q.m))
      BY <1>3, <2>1, <2>5, <2>6 DEF Knows, Reviewing
    <3>4. row'[q.m] = row[q.m] /\ chain' = chain /\ Latest(q.m)' = Latest(q.m)
          /\ (Awaiting(q.m)' <=> Awaiting(q.m))
      BY <1>2 DEF Latest, Awaiting
    <3> QED BY <3>2, <3>3, <3>4
            DEF Knows, Submitting, Handling, Reviewing, Unlocking, Releasing, PaidOut
  <2>7. Knows(r)'
    BY <1>1, <1>4, <2>2, <2>6, DoneIdle
  <2> QED BY <1>2, <2>7, TablesSound
<1>7. CASE CountApprovals(w)
  <2> DEFINE next == [q EXCEPT !.pc = "submit", !.then = "approve"]
  <2>1. Done(w) \/ Become(w, next)
    BY <1>7 DEF CountApprovals
  <2>2. next.pc = "submit" /\ next.then = "approve"
    BY <1>1 DEF Request
  <2> HIDE DEF next
  <2>3. Become(w, next) => r.pc = "submit" /\ r.then = "approve"
    BY <1>1, <2>2, BecomeFields
  <2>4. r.pc = "submit" /\ r.then = "approve" => Knows(r)'
    BY DEF Knows, Submitting, Handling, Reviewing, Unlocking, Releasing, PaidOut
  <2>5. Knows(r)'
    BY <1>1, <1>4, <2>1, <2>3, <2>4, DoneIdle
  <2> QED BY <1>2, <2>5, TablesSound
<1>8. CASE Submit(w)
  <2>1. q.pc = "submit" /\ (Goto(w, "wait") \/ Raise(w))
    BY <1>8 DEF Submit, At
  <2>2. Knows(r)'
    BY <1>1, <1>5, <2>1, RaiseKnows DEF At
  <2> QED BY <1>2, <2>2, TablesSound
<1>9. CASE MarkApprovedFind(w)
  <2> DEFINE next == [q EXCEPT !.pc = "markApproved", !.n = Latest(q.m)]
  <2>1. q.pc = "markRead" /\ (Done(w) \/ Become(w, next))
    BY <1>9 DEF MarkApprovedFind, At
  <2>2. next.pc = "markApproved" /\ next.m = q.m
    BY <1>1 DEF Request
  <2> HIDE DEF next
  <2>3. Become(w, next) => r.pc = "markApproved" /\ r.m = q.m
    BY <1>1, <2>2, BecomeFields
  <2>4. chain[q.m].left = 0
    BY <1>3, <2>1 DEF Knows, PaidOut
  <2>5. r.pc = "markApproved" /\ r.m = q.m => Knows(r)'
    BY <1>2, <2>4 DEF Knows, Submitting, Handling, Reviewing, Unlocking, Releasing, PaidOut
  <2>6. Knows(r)'
    BY <1>1, <1>4, <2>1, <2>3, <2>5, DoneIdle
  <2> QED BY <1>2, <2>6, TablesSound
<1>10. CASE \/ EndSlaChecks(w) \/ InsertRelease(w) \/ DeclineRelease(w)
            \/ FinishRelease(w) \/ FailRelease(w)
  <2>1. Done(w)
    BY <1>10 DEF EndSlaChecks, EndJob, InsertRelease, DeclineRelease, FinishRelease,
                 FailRelease
  <2> QED BY <1>1, <1>2, <1>4, <2>1, DoneIdle, TablesSound
<1>11. CASE ProposeCheck(w) \/ SignRelease(w) \/ HasDualApproval(w)
  <2>1. \/ Done(w)
        \/ q.pc = "propose" /\ Goto(w, "insert")
        \/ q.pc = "sign" /\ Goto(w, "signed")
        \/ q.pc = "signed" /\ Goto(w, "claim")
    BY <1>11 DEF ProposeCheck, SignRelease, HasDualApproval, At
  <2>2. Knows(r)'
    BY <1>1, <1>4, <1>5, <2>1, DoneIdle
  <2> QED BY <1>2, <2>2, TablesSound
<1>12. CASE FindOpen(w)
  <2> DEFINE next == [q EXCEPT !.pc = q.then, !.then = "idle"]
  <2>1. q.pc = "find" /\ (Done(w) \/ Become(w, next)) /\ q.then \in {"sign", "decline"}
    BY <1>1, <1>12 DEF FindOpen, At, LocalOK
  <2>2. next.pc \in {"sign", "decline"} /\ next.m = q.m /\ next.p = q.p
    BY <1>1, <2>1 DEF Request
  <2> HIDE DEF next
  <2>3. Become(w, next) => r.pc \in {"sign", "decline"} /\ r.m = q.m /\ r.p = q.p
    BY <1>1, <2>2, BecomeFields
  <2>4. row[q.m].paid = q.p
    BY <1>3, <2>1 DEF Knows, Releasing
  <2>5. r.pc \in {"sign", "decline"} /\ r.m = q.m /\ r.p = q.p => Knows(r)'
    BY <1>2, <2>4 DEF Knows, Submitting, Handling, Reviewing, Unlocking, Releasing, PaidOut
  <2>6. Knows(r)'
    BY <1>1, <1>4, <2>1, <2>3, <2>5, DoneIdle
  <2> QED BY <1>2, <2>6, TablesSound
<1>13. CASE ClaimRelease(w)
  <2> DEFINE next == [q EXCEPT !.pc = "submit", !.then = "partial"]
  <2>1. q.pc = "claim" /\ (Done(w) \/ Become(w, next))
    BY <1>13 DEF ClaimRelease, At
  <2>2. next.pc = "submit" /\ next.then = "partial" /\ next.m = q.m /\ next.p = q.p
    BY <1>1 DEF Request
  <2> HIDE DEF next
  <2>3. Become(w, next) => r.pc = "submit" /\ r.then = "partial" /\ r.m = q.m /\ r.p = q.p
    BY <1>1, <2>2, BecomeFields
  <2>4. row[q.m].paid = q.p
    BY <1>3, <2>1 DEF Knows, Releasing
  <2>5. r.pc = "submit" /\ r.then = "partial" /\ r.m = q.m /\ r.p = q.p => Knows(r)'
    BY <1>2, <2>4 DEF Knows, Submitting, Handling, Reviewing, Unlocking, Releasing, PaidOut
  <2>6. Knows(r)'
    BY <1>1, <1>4, <2>1, <2>3, <2>5, DoneIdle
  <2> QED BY <1>2, <2>6, TablesSound
<1> QED BY <1>6, <1>7, <1>8, <1>9, <1>10, <1>11, <1>12, <1>13

\* A version that keeps its status keeps what awaits review.
LEMMA CellAwaits ==
    ASSUME versions \in [Milestones -> Seq(Version)], NEW m \in Milestones,
           NEW k, NEW n, NEW x, SetVersion(k, n, x),
           (k = m /\ n \in 1..Len(versions[m])) => x.status = versions[m][n].status
    PROVE  Len(versions'[m]) = Len(versions[m]) /\ (Awaiting(m)' <=> Awaiting(m))
<1>1. CASE k # m
  <2>1. versions'[m] = versions[m]
    BY <1>1 DEF SetVersion
  <2> QED BY <2>1 DEF Awaiting, Latest
<1>2. CASE k = m
  <2> DEFINE s == versions[m]
  <2>1. s \in Seq(Version) /\ versions'[m] = [s EXCEPT ![n] = x]
    BY <1>2 DEF SetVersion
  <2>2. Len(versions'[m]) = Len(s) /\ Len(s) \in Nat
    <3>1. PICK S : S = Version \cup {x}
      OBVIOUS
    <3>2. s \in Seq(S) /\ x \in S
      BY <2>1, <3>1
    <3> QED BY <2>1, <3>2, CellOK
  <2>3. ASSUME NEW i \in 1..Len(s) PROVE versions'[m][i].status = s[i].status
    <3>1. versions'[m][i] = IF i = n THEN x ELSE s[i]
      BY <2>1
    <3> QED BY <1>2, <2>3, <3>1
  <2>4. Len(s) > 0 => Len(s) \in 1..Len(s)
    BY <2>2
  <2> QED BY <2>2, <2>3, <2>4 DEF Awaiting, Latest
<1> QED BY <1>1, <1>2

\* The job's steps on versions keep their status; the warning keeps the status of the row.
LEMMA MarkingSound ==
    ASSUME Base, NEW w \in Workers, NEW q, q = req[w], NEW r, r = req'[w], Sound(q),
           EvaluateVersion(w) \/ Unclaim(w) \/ SendRetentionWarning(w)
    PROVE  Sound(r)'
<1>1. /\ HandlersOK /\ q \in Request /\ LocalOK(q) /\ row \in [Milestones -> RowType]
      /\ versions \in [Milestones -> Seq(Version)]
  BY BaseParts DEF HandlersOK, TablesOK
<1>2. q.pc \in {"sla", "unclaim", "scan"}
  BY DEF EvaluateVersion, Unclaim, SendRetentionWarning, At
<1>3. UNCHANGED <<approvals, given, chain, events>>
  BY DEF EvaluateVersion, Unclaim, SendRetentionWarning, ledger
<1>4. ASSUME NEW m \in Milestones
      PROVE  /\ Len(versions'[m]) = Len(versions[m]) /\ (Awaiting(m)' <=> Awaiting(m))
             /\ row'[m].status = row[m].status /\ row'[m].paid = row[m].paid
  <2>1. row'[m].status = row[m].status /\ row'[m].paid = row[m].paid
    <3>1. UNCHANGED row \/ row' = [row EXCEPT ![q.m].warned = TRUE]
      BY DEF EvaluateVersion, Unclaim, SendRetentionWarning
    <3>2. PICK x : x = [row[q.m] EXCEPT !.warned = TRUE]
      OBVIOUS
    <3>3. row[m] \in RowType /\ (m = q.m => x.status = row[m].status /\ x.paid = row[m].paid)
      BY <1>1, <3>2 DEF RowType
    <3>4. UNCHANGED row \/ row' = [row EXCEPT ![q.m] = x]
      BY <3>1, <3>2
    <3> QED BY <1>1, <3>3, <3>4
  <2>2. CASE UNCHANGED versions
    BY <2>1, <2>2 DEF Awaiting, Latest
  <2>3. ASSUME NEW k, NEW n, NEW v, NEW x, SetVersion(k, n, x), v = versions[k][n],
               \/ x = [v EXCEPT !.expired = FALSE] \/ x = [v EXCEPT !.expired = TRUE]
               \/ x = [v EXCEPT !.r90 = TRUE, !.r50 = TRUE]
               \/ x = [v EXCEPT !.r50 = TRUE]
        PROVE  Len(versions'[m]) = Len(versions[m]) /\ (Awaiting(m)' <=> Awaiting(m))
    <3>1. ASSUME k = m, n \in 1..Len(versions[m]) PROVE x.status = versions[m][n].status
      <4>1. v \in Version /\ v = versions[m][n]
        BY <1>1, <2>3, <3>1
      <4> QED BY <2>3, <4>1 DEF Version
    <3> QED BY <1>1, <2>3, <3>1, CellAwaits
  <2>4. CASE Unclaim(w)
    BY <2>1, <2>3, <2>4 DEF Unclaim, AfterFailure
  <2>5. CASE EvaluateVersion(w)
    <3>1. PICK i \in req[w].todo :
          \/ UNCHANGED versions
          \/ SetVersion(i.m, i.n, [versions[i.m][i.n] EXCEPT !.expired = TRUE])
          \/ SetVersion(i.m, i.n, [versions[i.m][i.n] EXCEPT !.r90 = TRUE, !.r50 = TRUE])
          \/ SetVersion(i.m, i.n, [versions[i.m][i.n] EXCEPT !.r50 = TRUE])
      BY <2>5 DEF EvaluateVersion
    <3> QED BY <2>1, <2>2, <2>3, <3>1
  <2>6. CASE SendRetentionWarning(w)
    BY <2>2, <2>6 DEF SendRetentionWarning
  <2> QED BY <2>1, <2>4, <2>5, <2>6
<1>5. ASSUME NEW m \in Milestones PROVE Books(m, r)' /\ Fresh(m, r)'
  <2>1. Same(m)
    BY <1>3, <1>4 DEF Same, ToConfirm
  <2>2. Books(m, q) /\ Fresh(m, q) /\ q.pc \notin Special
    BY <1>2 DEF Sound, Special
  <2> QED BY <2>1, <2>2, SameSound
<1>6. Knows(r)'
  <2>1. CASE EvaluateVersion(w)
    <3> DEFINE rest(i) == [q EXCEPT !.todo = q.todo \ {i}]
    <3>1. PICK i \in q.todo :
            \/ Become(w, rest(i))
            \/ Become(w, [rest(i) EXCEPT !.pc = "submit", !.then = "auto", !.m = i.m, !.n = i.n])
      BY <2>1 DEF EvaluateVersion
    <3>3. rest(i).pc = "sla"
      BY <1>1, <2>1 DEF EvaluateVersion, At, Request
    <3>4. [rest(i) EXCEPT !.pc = "submit", !.then = "auto", !.m = i.m, !.n = i.n].pc = "submit"
          /\ [rest(i) EXCEPT !.pc = "submit", !.then = "auto", !.m = i.m, !.n = i.n].then = "auto"
      BY <1>1 DEF Request
    <3>5. r.pc = "sla" \/ (r.pc = "submit" /\ r.then = "auto")
      <4> HIDE DEF rest
      <4> QED BY <1>1, <3>1, <3>3, <3>4, BecomeFields
    <3>6. r.pc = "submit" /\ r.then = "auto" => Knows(r)'
      BY DEF Knows, Submitting, Handling, Reviewing, Unlocking, Releasing, PaidOut
    <3> QED BY <3>5, <3>6, IdleKnows
  <2>2. CASE Unclaim(w) \/ SendRetentionWarning(w)
    <3>1. Goto(w, "sla") \/ Done(w)
      BY <2>2 DEF Unclaim, SendRetentionWarning, EndJob
    <3> QED BY <1>1, <3>1, GotoFields, DoneIdle, IdleKnows
  <2> QED BY <2>1, <2>2
<1> QED BY <1>5, <1>6 DEF Sound

\* A status is written to one row, and nothing else of it.
LEMMA StatusWritten ==
    ASSUME row \in [Milestones -> RowType], NEW k \in Milestones, NEW s, SetStatus(k, s)
    PROVE  /\ row'[k].status = s /\ row'[k].paid = row[k].paid
           /\ \A m \in Milestones \ {k} : row'[m] = row[m]
<1>1. PICK x : x = [row[k] EXCEPT !.status = s]
  OBVIOUS
<1>2. x.status = s /\ x.paid = row[k].paid
  BY <1>1 DEF RowType
<1>3. row' = [row EXCEPT ![k] = x]
  BY <1>1 DEF SetStatus
<1> QED BY <1>2, <1>3

\* The steps that write the versions of the handler's milestone.
LEMMA VersionsSound ==
    ASSUME Base, NEW w \in Workers, NEW q, q = req[w], NEW r, r = req'[w], Sound(q),
           \/ Supersede(w) \/ RecordVersionFind(w) \/ RecordVersionCreate(w)
           \/ RejectVersion(w) \/ ApproveVersion(w)
    PROVE  Sound(r)'
<1>1. /\ HandlersOK /\ q \in Request /\ LocalOK(q)
      /\ versions \in [Milestones -> Seq(Version)]
  BY BaseParts DEF HandlersOK, TablesOK
<1>2. q.pc \in {"supersede", "latest", "create", "rejectVersion", "markApproved",
                "autoApprove"}
  BY DEF Supersede, RecordVersionFind, RecordVersionCreate, RejectVersion, ApproveVersion, At
<1>3. PICK k \in Milestones : k = q.m
  BY <1>1, <1>2 DEF LocalOK
<1>4. Knows(q) /\ Books(k, q) /\ Fresh(k, q)
  BY <1>3 DEF Sound
<1>5. UNCHANGED <<row, approvals, given, chain, events>>
  BY DEF Supersede, RecordVersionFind, RecordVersionCreate, RejectVersion, ApproveVersion,
         tables, ledger
<1>6. \A m \in Milestones \ {k} : versions'[m] = versions[m]
  BY <1>1, <1>3 DEF Supersede, RecordVersionFind, RecordVersionCreate, RejectVersion,
                    ApproveVersion, SetVersion, tables
<1>7. ASSUME NEW m \in Milestones \ {k} PROVE Books(m, r)' /\ Fresh(m, r)'
  <2>1. Same(m)
    BY <1>5, <1>6 DEF Same, Awaiting, Latest, ToConfirm
  <2> QED BY <1>3, <2>1, SameSound DEF Sound
<1>8. Books(k, r)'
  BY <1>2, <1>4, <1>5 DEF Books, ToConfirm
<1>9. SUFFICES Knows(r)' /\ Fresh(k, r)'
  BY <1>7, <1>8 DEF Sound
<1>10. Latest(k) \in Nat
  BY <1>1 DEF Latest
<1>11. r.pc = "idle" => Knows(r)'
  BY IdleKnows
<1>12. CASE Supersede(w)
  <2>1. Goes(r, q, "latest") /\ q.pc = "supersede"
    BY <1>1, <1>12, GotoGoes DEF Supersede, At
  <2>2. row[k].status = "PENDING" /\ q.then = "setSubmitted"
    BY <1>3, <1>4, <2>1 DEF Knows, Submitting
  <2>3. Knows(r)'
    BY <1>3, <1>5, <2>1, <2>2
    DEF Goes, Knows, Submitting, Handling, Reviewing, Unlocking, Releasing, PaidOut
  <2>4. Fresh(k, r)'
    BY <1>4, <1>5, <2>1, <2>2 DEF Fresh
  <2> QED BY <2>3, <2>4
<1>13. CASE RecordVersionFind(w)
  <2> DEFINE create == [q EXCEPT !.pc = "create", !.n = Latest(k)]
             next == [q EXCEPT !.pc = q.then, !.then = "idle"]
  <2>1. q.pc = "latest" /\ UNCHANGED versions /\ q.then \in {"setSubmitted", "ack"}
    BY <1>1, <1>13 DEF RecordVersionFind, At, LocalOK, tables
  <2>2. (~Awaiting(k) /\ Become(w, create)) \/ (Awaiting(k) /\ Become(w, next))
    BY <1>3, <1>13 DEF RecordVersionFind, MayAppend
  <2>3. /\ create.pc = "create" /\ create.then = q.then /\ create.m = k
        /\ create.n = Latest(k) /\ create.e = q.e
        /\ next.pc = q.then /\ next.then = "idle" /\ next.m = k /\ next.e = q.e
    BY <1>1, <1>3 DEF Request
  <2> HIDE DEF create, next
  <2>4. \/ ~Awaiting(k) /\ r = create
        \/ Awaiting(k) /\ r = next
    BY <1>1, <2>2, BecomeFields
  <2>5. q.then = "setSubmitted" => row[k].status = "PENDING"
    BY <1>3, <1>4, <2>1 DEF Knows, Submitting
  <2>6. q.then = "ack" => \A d \in events : (d.id = q.e /\ d.kind = "milestone_confirmed") =>
                            row[d.m].status = "CONFIRMED"
    BY <1>4, <2>1 DEF Knows, Handling
  <2>7. Latest(k)' = Latest(k) /\ (Awaiting(k)' <=> Awaiting(k))
    BY <2>1 DEF Latest, Awaiting
  <2>8. Awaiting(k) => Latest(k) > 0
    BY DEF Awaiting
  <2>9. Fresh(k, r)'
    BY <1>3, <1>4, <1>5, <2>1, <2>3, <2>4, <2>7, <2>8 DEF Fresh
  <2>10. CASE r = create /\ ~Awaiting(k)
    BY <1>5, <2>1, <2>3, <2>5, <2>6, <2>7, <2>9, <2>10
    DEF Knows, Submitting, Handling, Reviewing, Unlocking, Releasing, PaidOut
  <2>11. CASE r = next /\ Awaiting(k)
    BY <1>5, <2>1, <2>3, <2>5, <2>6, <2>7, <2>8, <2>9, <2>11
    DEF Knows, Submitting, Handling, Reviewing, Unlocking, Releasing, PaidOut
  <2> QED BY <2>4, <2>10, <2>11
<1>14. CASE RecordVersionCreate(w)
  <2> DEFINE next == [q EXCEPT !.pc = q.then, !.then = "idle"]
  <2>1. q.pc = "create" /\ q.n = Latest(k) /\ ~Awaiting(k) /\ q.then \in {"setSubmitted", "ack"}
    BY <1>1, <1>3, <1>4, <1>14 DEF RecordVersionCreate, At, LocalOK, Knows
  <2>2. \/ Done(w) /\ UNCHANGED versions /\ Latest(k) = MaxVersions
        \/ Become(w, next) /\ versions' = [versions EXCEPT ![k] = Append(versions[k], NewVersion)]
    BY <1>3, <1>14, <2>1 DEF RecordVersionCreate
  <2>3. next.pc = q.then /\ next.then = "idle" /\ next.m = k /\ next.e = q.e
    BY <1>1, <1>3 DEF Request
  <2> HIDE DEF next
  <2>4. CASE Done(w) /\ UNCHANGED versions /\ Latest(k) = MaxVersions
    <3>1. Latest(k) > 0 /\ Latest(k)' = Latest(k) /\ (Awaiting(k)' <=> Awaiting(k))
      BY <2>4, BoundsAssumption DEF Latest, Awaiting
    <3>2. Fresh(k, r)'
      BY <1>4, <1>5, <2>1, <3>1 DEF Fresh
    <3> QED BY <1>1, <1>11, <2>4, <3>2, DoneIdle
  <2>5. CASE Become(w, next) /\ versions' = [versions EXCEPT ![k] = Append(versions[k], NewVersion)]
    <3>1. r = next
      BY <1>1, <2>5, BecomeFields
    <3>2. Latest(k)' = Latest(k) + 1
      BY <1>1, <2>5 DEF Latest
    <3>3. chain[k].left > 0 => approvals[k] = {}
      BY <1>4, <2>1 DEF Fresh
    <3>4. Fresh(k, r)'
      BY <1>5, <1>10, <3>2, <3>3 DEF Fresh
    <3>5. q.then = "setSubmitted" => row[k].status = "PENDING"
      BY <1>3, <1>4, <2>1 DEF Knows, Submitting
    <3>6. q.then = "ack" => \A d \in events : (d.id = q.e /\ d.kind = "milestone_confirmed") =>
                              row[d.m].status = "CONFIRMED"
      BY <1>4, <2>1 DEF Knows, Handling
    <3>7. Knows(r)'
      BY <1>5, <1>10, <2>1, <2>3, <3>1, <3>2, <3>5, <3>6
      DEF Knows, Submitting, Handling, Reviewing, Unlocking, Releasing, PaidOut
    <3> QED BY <3>4, <3>7
  <2> QED BY <2>2, <2>4, <2>5
<1>15. CASE RejectVersion(w)
  <2>1. q.pc = "rejectVersion" /\ row[k].status = "PROOF_SUBMITTED"
    BY <1>3, <1>4, <1>15 DEF RejectVersion, At, Knows, Reviewing
  <2>2. \/ Done(w) /\ UNCHANGED versions
        \/ /\ Goto(w, "reopen")
           /\ SetVersion(k, q.n, [versions[k][q.n] EXCEPT !.status = "REJECTED"])
    BY <1>3, <1>15 DEF RejectVersion
  <2>3. CASE Done(w) /\ UNCHANGED versions
    <3>1. Latest(k)' = Latest(k) /\ (Awaiting(k)' <=> Awaiting(k))
      BY <2>3 DEF Latest, Awaiting
    <3>2. Fresh(k, r)'
      BY <1>4, <1>5, <2>1, <3>1 DEF Fresh
    <3> QED BY <1>1, <1>11, <2>3, <3>2, DoneIdle
  <2>4. ASSUME NEW x, Goto(w, "reopen"), SetVersion(k, q.n, x) PROVE Knows(r)' /\ Fresh(k, r)'
    <3>1. Goes(r, q, "reopen")
      BY <1>1, <2>4, GotoGoes
    <3>2. Latest(k)' = Latest(k)
      <4>1. PICK S : S = Version \cup {x}
        OBVIOUS
      <4>2. versions[k] \in Seq(S) /\ x \in S
        BY <1>1, <4>1
      <4> QED BY <1>1, <2>4, <4>2, CellOK DEF SetVersion, Latest
    <3>3. Fresh(k, r)'
      BY <1>3, <1>4, <1>5, <2>1, <3>1, <3>2 DEF Fresh, Goes
    <3>4. Knows(r)'
      BY <1>3, <1>5, <2>1, <3>1
      DEF Goes, Knows, Submitting, Handling, Reviewing, Unlocking, Releasing, PaidOut
    <3> QED BY <3>3, <3>4
  <2> QED BY <2>2, <2>3, <2>4
<1>16. CASE ApproveVersion(w)
  <2>1. chain[k].left = 0
    BY <1>3, <1>4, <1>16 DEF ApproveVersion, At, Knows, PaidOut
  <2>2. Done(w) \/ Goto(w, "sla")
    BY <1>16 DEF ApproveVersion
  <2>3. Knows(r)'
    BY <1>1, <2>2, DoneIdle, GotoFields, IdleKnows
  <2> QED BY <1>5, <2>1, <2>3 DEF Fresh
<1> QED BY <1>12, <1>13, <1>14, <1>15, <1>16

\* The steps that write the row of the handler's milestone.
LEMMA RowSound ==
    ASSUME Base, NEW w \in Workers, NEW q, q = req[w], NEW r, r = req'[w], Sound(q),
           \/ SetProofSubmitted(w) \/ Reopen(w) \/ MarkUnlockedByJob(w)
           \/ MarkConfirmed(w) \/ BookRelease(w)
    PROVE  Sound(r)'
<1>1. /\ HandlersOK /\ q \in Request /\ LocalOK(q) /\ row \in [Milestones -> RowType]
      /\ chain \in [Milestones -> [st : {"LOCKED", "PENDING", "PROOF", "DISPUTED", "DONE"},
                                   left : Nat, got : Nat, until : Nat]]
  BY BaseParts DEF HandlersOK, TablesOK, LedgerOK
<1>2. q.pc \in {"setSubmitted", "reopen", "unlocked", "confirm", "autoConfirm", "book"}
  BY DEF SetProofSubmitted, Reopen, MarkUnlockedByJob, MarkConfirmed, BookRelease, At
<1>3. PICK k \in Milestones : k = q.m
  BY <1>1, <1>2 DEF LocalOK
<1>4. Knows(q) /\ Books(k, q) /\ Fresh(k, q)
  BY <1>3 DEF Sound
<1>5. UNCHANGED <<approvals, given, versions, release, chain, events>>
  BY DEF SetProofSubmitted, Reopen, MarkUnlockedByJob, MarkConfirmed, BookRelease, ledger
<1>6. \A m \in Milestones \ {k} : row'[m] = row[m]
  BY <1>1, <1>3 DEF SetProofSubmitted, Reopen, MarkUnlockedByJob, MarkConfirmed, BookRelease,
                    SetStatus
<1>7. ASSUME NEW m \in Milestones \ {k} PROVE Books(m, r)' /\ Fresh(m, r)'
  <2>1. Same(m)
    BY <1>5, <1>6 DEF Same, Awaiting, Latest, ToConfirm
  <2> QED BY <1>3, <2>1, SameSound DEF Sound
<1>8. SUFFICES Knows(r)' /\ Books(k, r)' /\ Fresh(k, r)'
  BY <1>7 DEF Sound
<1>9. /\ Latest(k)' = Latest(k) /\ (Awaiting(k)' <=> Awaiting(k))
      /\ (ToConfirm(k)' <=> ToConfirm(k))
  BY <1>5 DEF Latest, Awaiting, ToConfirm
<1>10. chain[k].left \in Nat /\ chain'[k] = chain[k] /\ approvals'[k] = approvals[k]
       /\ given'[k] = given[k]
  BY <1>1, <1>5
<1>11. CASE SetProofSubmitted(w)
  <2>1. q.pc = "setSubmitted" /\ SetStatus(k, "PROOF_SUBMITTED") /\ r.pc = "idle"
    BY <1>1, <1>3, <1>11, DoneIdle DEF SetProofSubmitted, At
  <2>2. row'[k].status = "PROOF_SUBMITTED" /\ row'[k].paid = row[k].paid
    BY <1>1, <2>1, StatusWritten
  <2>3. row[k].status = "PENDING" /\ Latest(k) > 0
    BY <1>3, <1>4, <2>1 DEF Knows, Submitting
  <2>4. Books(k, r)'
    BY <1>4, <1>9, <1>10, <2>1, <2>2, <2>3 DEF Books
  <2>5. Fresh(k, r)'
    BY <1>4, <1>9, <1>10, <2>1, <2>2, <2>3 DEF Fresh
  <2> QED BY <2>1, <2>4, <2>5, IdleKnows
<1>12. CASE Reopen(w)
  <2>1. q.pc = "reopen" /\ SetStatus(k, "PENDING") /\ Goes(r, q, "forget")
    BY <1>1, <1>3, <1>12, GotoGoes DEF Reopen, At
  <2>2. row'[k].status = "PENDING" /\ row'[k].paid = row[k].paid
    BY <1>1, <2>1, StatusWritten
  <2>3. row[k].status = "PROOF_SUBMITTED"
    BY <1>3, <1>4, <2>1 DEF Knows, Reviewing
  <2>4. Books(k, r)'
    BY <1>4, <1>9, <1>10, <2>1, <2>2, <2>3 DEF Books
  <2>5. Fresh(k, r)'
    BY <1>3, <1>4, <1>9, <1>10, <2>1, <2>2, <2>3 DEF Fresh, Goes
  <2> QED BY <2>1, <2>4, <2>5, IdleKnows DEF Goes
<1>13. CASE MarkUnlockedByJob(w)
  <2>1. q.pc = "unlocked" /\ SetStatus(k, "PENDING") /\ r.pc = "idle"
    BY <1>1, <1>3, <1>13, DoneIdle DEF MarkUnlockedByJob, At, EndJob
  <2>2. row'[k].status = "PENDING" /\ row'[k].paid = row[k].paid
    BY <1>1, <2>1, StatusWritten
  <2>3. row[k].status = "LOCKED"
    BY <1>3, <1>4, <2>1 DEF Knows, Unlocking
  <2>4. Books(k, r)'
    BY <1>4, <1>9, <1>10, <2>1, <2>2, <2>3 DEF Books
  <2>5. Fresh(k, r)'
    BY <1>4, <1>9, <1>10, <2>1, <2>2, <2>3 DEF Fresh
  <2> QED BY <2>1, <2>4, <2>5, IdleKnows
<1>14. CASE MarkConfirmed(w)
  <2>1. PICK x : x = [row[k] EXCEPT !.status = "CONFIRMED", !.paid = Amount]
    OBVIOUS
  <2>2. row' = [row EXCEPT ![k] = x] /\ x.status = "CONFIRMED" /\ x.paid = Amount
    BY <1>1, <1>3, <1>14, <2>1 DEF MarkConfirmed, RowType
  <2>3. row'[k].status = "CONFIRMED" /\ row'[k].paid = Amount
    BY <1>1, <2>2
  <2>4. chain[k].left = 0 /\ chain[k].got = Amount
    BY <1>3, <1>4, <1>14 DEF MarkConfirmed, At, Knows, PaidOut
  <2>5. (Goes(r, q, "markRead") \/ Goes(r, q, "autoApprove"))
    BY <1>1, <1>14, GotoGoes DEF MarkConfirmed
  <2>6. Books(k, r)' /\ Fresh(k, r)'
    BY <1>10, <2>3, <2>4 DEF Books, Fresh
  <2>7. Knows(r)'
    BY <1>3, <1>10, <2>4, <2>5
    DEF Goes, Knows, Submitting, Handling, Reviewing, Unlocking, Releasing, PaidOut
  <2> QED BY <2>6, <2>7
<1>15. CASE BookRelease(w)
  <2>1. PICK p, s : /\ p = Paid(q, release[q.r])
                    /\ s = IF release[q.r].back THEN "CONFIRMED" ELSE row[k].status
    OBVIOUS
  <2>2. PICK x : x = [row[k] EXCEPT !.paid = p, !.status = s]
    OBVIOUS
  <2>3. x.status = s /\ x.paid = p
    BY <1>1, <2>2 DEF RowType
  <2>4. row' = [row EXCEPT ![k] = x]
    <3>1. row' = [row EXCEPT ![k].paid = p,
                             ![k].status = IF release[q.r].back THEN "CONFIRMED" ELSE @]
      BY <1>3, <1>15, <2>1 DEF BookRelease
    <3> QED BY <1>1, <2>1, <2>2, <3>1
  <2>5. row'[k].status = s /\ row'[k].paid = p
    BY <1>1, <2>3, <2>4
  <2>6. q.pc = "book" /\ Goes(r, q, "finish")
    BY <1>1, <1>15, GotoGoes DEF BookRelease, At
  <2>7. chain[k].got = p /\ (release[q.r].back => chain[k].left = 0)
    BY <1>3, <1>4, <2>1, <2>6 DEF Knows, Paid
  <2>8. Books(k, r)'
    <3>1. row'[k].paid = chain'[k].got
      BY <1>10, <2>5, <2>7
    <3>2. ToConfirm(k)' \/ (row'[k].status = "CONFIRMED" <=> chain'[k].left = 0)
      BY <1>4, <1>9, <1>10, <2>1, <2>5, <2>7 DEF Books
    <3> QED BY <3>1, <3>2 DEF Books
  <2>9. Fresh(k, r)'
    BY <1>4, <1>9, <1>10, <2>1, <2>5, <2>6, <2>7 DEF Fresh
  <2> QED BY <2>6, <2>8, <2>9, IdleKnows DEF Goes
<1> QED BY <1>11, <1>12, <1>13, <1>14, <1>15

\* The steps on approvals, and the acknowledgement of an event.
LEMMA ApprovalsSound ==
    ASSUME Base, ContractInv, NEW w \in Workers, NEW q, q = req[w], NEW r, r = req'[w],
           Sound(q), CreateApproval(w) \/ ForgetApprovals(w) \/ Acknowledge(w)
    PROVE  Sound(r)'
<1>1. /\ HandlersOK /\ q \in Request /\ LocalOK(q)
      /\ approvals \in [Milestones -> SUBSET Approvers]
      /\ given \in [Milestones -> [Approvers -> Nat]]
      /\ events \subseteq Event
  BY BaseParts DEF HandlersOK, TablesOK, LedgerOK
<1>2. q.pc \in {"approve", "forget", "ack"}
  BY DEF CreateApproval, ForgetApprovals, Acknowledge, At
<1>3. PICK k \in Milestones : k = q.m
  BY <1>1, <1>2 DEF LocalOK
<1>4. Knows(q) /\ Books(k, q) /\ Fresh(k, q)
  BY <1>3 DEF Sound
<1>5. UNCHANGED <<row, versions, chain>>
  BY DEF CreateApproval, ForgetApprovals, Acknowledge, tables, ledger
<1>6. ASSUME NEW m \in Milestones
      PROVE  Latest(m)' = Latest(m) /\ (Awaiting(m)' <=> Awaiting(m))
  BY <1>5 DEF Latest, Awaiting
<1>7. CASE CreateApproval(w) \/ ForgetApprovals(w)
  <2>1. UNCHANGED events
    BY <1>7 DEF CreateApproval, ForgetApprovals, ledger
  <2>2. \A m \in Milestones \ {k} : approvals'[m] = approvals[m] /\ given'[m] = given[m]
    BY <1>1, <1>3, <1>7 DEF CreateApproval, ForgetApprovals
  <2>3. ASSUME NEW m \in Milestones \ {k} PROVE Books(m, r)' /\ Fresh(m, r)'
    <3>1. Same(m)
      BY <1>5, <1>6, <2>1, <2>2 DEF Same, ToConfirm, Latest
    <3> QED BY <1>3, <3>1, SameSound DEF Sound
  <2>4. Books(k, r)'
    BY <1>2, <1>4, <1>5, <2>1 DEF Books, ToConfirm
  <2>5. Knows(r)'
    <3>1. Done(w) \/ Goto(w, "count")
      BY <1>7 DEF CreateApproval, ForgetApprovals
    <3> QED BY <1>1, <3>1, DoneIdle, GotoFields, IdleKnows
  <2>6. Fresh(k, r)'
    <3>1. CASE ForgetApprovals(w)
      <4>1. approvals'[k] = {} /\ q.pc = "forget"
        BY <1>1, <1>3, <3>1 DEF ForgetApprovals, KeptApprovals, At
      <4> QED BY <1>4, <1>5, <1>6, <4>1 DEF Fresh
    <3>2. CASE CreateApproval(w)
      <4>1. /\ q.pc = "approve" /\ row[k].status = "PROOF_SUBMITTED" /\ q.n = Latest(k)
            /\ chain[k].left > 0 => Awaiting(k)
            /\ q.u \in Approvers
        BY <1>1, <1>3, <1>4, <3>2 DEF CreateApproval, At, Knows, Reviewing, LocalOK
      <4>2. CASE UNCHANGED <<approvals, given>>
        BY <1>4, <1>5, <1>6, <4>1, <4>2 DEF Fresh
      <4>3. CASE approvals' = [approvals EXCEPT ![k] = approvals[k] \cup {q.u}]
                 /\ given' = [given EXCEPT ![k][q.u] = q.n]
        <5>1. approvals'[k] = approvals[k] \cup {q.u}
          BY <1>1, <4>3
        <5>2. \A u \in Approvers : given'[k][u] = IF u = q.u THEN q.n ELSE given[k][u]
          BY <1>1, <4>1, <4>3
        <5>3. ASSUME chain[k].left > 0, NEW u \in approvals'[k] PROVE given'[k][u] = Latest(k)
          BY <1>1, <1>4, <4>1, <5>1, <5>2, <5>3 DEF Fresh
        <5> QED BY <1>4, <1>5, <1>6, <4>1, <5>1, <5>3 DEF Fresh
      <4> QED BY <1>3, <3>2, <4>2, <4>3 DEF CreateApproval
    <3> QED BY <1>7, <3>1, <3>2
  <2> QED BY <2>3, <2>4, <2>5, <2>6 DEF Sound
<1>8. CASE Acknowledge(w)
  <2>1. q.pc = "ack" /\ events' = {e \in events : e.id # q.e} /\ r.pc = "idle"
        /\ UNCHANGED <<approvals, given>>
    BY <1>1, <1>8, DoneIdle DEF Acknowledge, At, tables
  <2>2. ASSUME NEW m \in Milestones PROVE Books(m, r)' /\ Fresh(m, r)'
    <3>1. Books(m, q) /\ Fresh(m, q)
      BY DEF Sound
    <3>2. Fresh(m, r)'
      BY <1>5, <1>6, <2>1, <3>1 DEF Fresh
    <3>3. CASE ~ToConfirm(m) \/ ToConfirm(m)'
      <4>1. ToConfirm(m)' \/ (row[m].status = "CONFIRMED" <=> chain[m].left = 0)
        BY <2>1, <3>1, <3>3 DEF Books
      <4>2. row[m].paid = chain[m].got
        BY <2>1, <3>1 DEF Books
      <4> QED BY <1>5, <3>2, <4>1, <4>2 DEF Books
    <3>4. CASE ToConfirm(m) /\ ~ToConfirm(m)'
      <4>1. PICK d \in events : d.m = m /\ d.kind = "milestone_confirmed"
        BY <3>4 DEF ToConfirm
      <4>2. d.id = q.e
        BY <2>1, <3>4, <4>1 DEF ToConfirm
      <4>3. row[m].status = "CONFIRMED" /\ chain[m].left = 0
        BY <1>4, <2>1, <4>1, <4>2 DEF Knows, Handling, ContractInv, PayoutSeen
      <4>4. row[m].paid = chain[m].got
        BY <2>1, <3>1 DEF Books
      <4> QED BY <1>5, <3>2, <4>3, <4>4 DEF Books
    <3> QED BY <3>3, <3>4
  <2> QED BY <2>1, <2>2, IdleKnows DEF Sound
<1> QED BY <1>7, <1>8

\* Every step of a handler leaves it sound.
LEMMA StepSound ==
    ASSUME Base, ContractInv, NEW w \in Workers, Step(w), NEW q, q = req[w],
           NEW r, r = req'[w], Sound(q)
    PROVE  Sound(r)'
<1>1. ~OverrideStatus(w) /\ ~ClearApprovals(w)
  BY DEF Sound, Knows, OverrideStatus, ClearApprovals, At
<1> QED BY <1>1, DecidingSound, MarkingSound, VersionsSound, RowSound, ApprovalsSound DEF Step

\* No step of a handler but the end of an event changes what the contract says.
LEMMA StepContract ==
    ASSUME Base, ContractInv, NEW w \in Workers, Step(w)
    PROVE  ContractInv'
<1>1. CASE Submit(w)
  <2>1. UNCHANGED <<chain, events, emitted>>
    BY <1>1 DEF Submit
  <2>2. \A t \in net' : t.by # Nobody
    BY <1>1, MilestonesAssumption DEF Submit, ContractInv, Nobody
  <2> QED BY <2>1, <2>2 DEF ContractInv, PayoutSeen
<1>2. CASE ~Submit(w)
  <2>1. UNCHANGED <<chain, emitted>> /\ events' \subseteq events /\ net' = net
    BY <1>2
    DEF Step, Supersede, RecordVersionFind, RecordVersionCreate, SetProofSubmitted,
        AssertReviewable, RejectVersion, Reopen, ForgetApprovals, CreateApproval,
        CountApprovals, MarkConfirmed, MarkApprovedFind, ApproveVersion,
        OverrideStatus, EvaluateVersion, Unclaim, ProposeCheck, InsertRelease,
        FindOpen, SignRelease, HasDualApproval, DeclineRelease, ClaimRelease,
        BookRelease, FinishRelease, FailRelease, ClearApprovals, EndSlaChecks,
        SendRetentionWarning, MarkUnlockedByJob, Acknowledge, ledger
  <2> QED BY <2>1, SameContract
<1> QED BY <1>1, <1>2

\* What a free worker takes up is sound, if it is not noted.
LEMMA TakeSound ==
    ASSUME Base, ContractInv, NEW w \in Workers, Take(w), NEW q, q.pc = "idle", Sound(q),
           NEW r, r = req'[w], upset' = {}
    PROVE  Sound(r)' /\ ContractInv' /\ \A o \in Workers : At(o, "idle")
<1>1. HandlersOK /\ row \in [Milestones -> RowType] /\ events \subseteq Event
  BY BaseParts DEF TablesOK, LedgerOK
<1>2. ASSUME NEW x, NEW what, Begin(w, x, what)
      PROVE  r = x /\ what = {} /\ \A o \in Workers : At(o, "idle")
  <2>1. r = x
    BY <1>1, <1>2, BecomeFields DEF Begin
  <2>2. what = {} /\ \A o \in Workers \ {w} : At(o, "idle")
    BY <1>2 DEF Begin
  <2> QED BY <1>2, <2>1, <2>2 DEF Begin
<1>3. ASSUME UNCHANGED <<tables, ledger>>, Knows(r)' PROVE Sound(r)' /\ ContractInv'
  <2>1. UNCHANGED <<row, approvals, given, versions, chain, events>>
    BY <1>3 DEF tables, ledger
  <2>2. q.pc \notin Special
    BY DEF Special
  <2>3. UNCHANGED <<chain, emitted, events, net>>
    BY <1>3 DEF ledger
  <2> QED BY <1>3, <2>1, <2>2, <2>3, TablesSound, SameContract
<1>4. ASSUME NEW m \in Milestones, SubmitProof(w, m)
      PROVE  Sound(r)' /\ ContractInv' /\ \A o \in Workers : At(o, "idle")
  <2> DEFINE x == [Idle EXCEPT !.pc = "supersede", !.then = "setSubmitted", !.m = m]
  <2>1. Begin(w, x, {}) /\ UNCHANGED <<tables, ledger>> /\ row[m].status = "PENDING"
    BY <1>4 DEF SubmitProof, Call
  <2>2. x.pc = "supersede" /\ x.then = "setSubmitted" /\ x.m = m
    BY DEF Idle
  <2> HIDE DEF x
  <2>3. row' = row
    BY <2>1 DEF tables
  <2>4. Knows(r)'
    BY <1>2, <2>1, <2>2, <2>3
    DEF Knows, Submitting, Handling, Reviewing, Unlocking, Releasing, PaidOut
  <2> QED BY <1>2, <1>3, <2>1, <2>4
<1>5. ASSUME NEW m \in Milestones, NEW v,
             RejectProof(w, m, v) \/ \E u : ApproveMilestone(w, m, u, v)
      PROVE  Sound(r)' /\ ContractInv' /\ \A o \in Workers : At(o, "idle")
  <2>1. PICK u :
          \/ Begin(w, [Idle EXCEPT !.pc = "review", !.then = "rejectVersion", !.m = m, !.v = v], {})
          \/ Begin(w, [Idle EXCEPT !.pc = "review", !.then = "approve", !.m = m, !.u = u, !.v = v], {})
    BY <1>5 DEF RejectProof, ApproveMilestone, Call
  <2>2. UNCHANGED <<tables, ledger>> /\ row[m].status = "PROOF_SUBMITTED"
    BY <1>5 DEF RejectProof, ApproveMilestone
  <2> DEFINE a == [Idle EXCEPT !.pc = "review", !.then = "rejectVersion", !.m = m, !.v = v]
             b == [Idle EXCEPT !.pc = "review", !.then = "approve", !.m = m, !.u = u, !.v = v]
  <2>3. a.pc = "review" /\ a.m = m /\ b.pc = "review" /\ b.m = m
    BY DEF Idle
  <2>4. Begin(w, a, {}) \/ Begin(w, b, {})
    BY <2>1
  <2> HIDE DEF a, b
  <2>5. PICK x : Begin(w, x, {}) /\ x.pc = "review" /\ x.m = m
    BY <2>3, <2>4
  <2>6. row' = row
    BY <2>2 DEF tables
  <2>7. Knows(r)'
    BY <1>2, <2>2, <2>5, <2>6
    DEF Knows, Submitting, Handling, Reviewing, Unlocking, Releasing, PaidOut
  <2> QED BY <1>2, <1>3, <2>2, <2>5, <2>7
<1>6. ASSUME NEW m, NEW s, AdminOverride(w, m, s) PROVE FALSE
  BY <1>2, <1>6 DEF AdminOverride, Call
<1>7. ASSUME NEW m \in Milestones, NEW party, NEW terms, ProposeRelease(w, m, party, terms)
      PROVE  Sound(r)' /\ ContractInv' /\ \A o \in Workers : At(o, "idle")
  <2> DEFINE x == [Idle EXCEPT !.pc = "propose", !.m = m, !.party = party,
                               !.p = row[m].paid, !.terms = terms]
  <2>1. Begin(w, x, {}) /\ UNCHANGED <<tables, ledger>>
    BY <1>7 DEF ProposeRelease, Call
  <2>2. x.pc = "propose"
    BY DEF Idle
  <2> HIDE DEF x
  <2> QED BY <1>2, <1>3, <2>1, <2>2, IdleKnows
<1>8. ASSUME NEW m \in Milestones, NEW party, NEW k, NEW then, AnswerRelease(w, m, k, party, then)
      PROVE  Sound(r)' /\ ContractInv' /\ \A o \in Workers : At(o, "idle")
  <2> DEFINE x == [Idle EXCEPT !.pc = "find", !.then = then, !.m = m, !.r = k,
                               !.party = party, !.p = row[m].paid]
  <2>1. Begin(w, x, {}) /\ UNCHANGED <<tables, ledger>>
    BY <1>8 DEF AnswerRelease, Call
  <2>2. x.pc = "find" /\ x.m = m /\ x.p = row[m].paid
    BY DEF Idle
  <2> HIDE DEF x
  <2>3. row' = row
    BY <2>1 DEF tables
  <2>4. Knows(r)'
    BY <1>2, <2>1, <2>2, <2>3
    DEF Knows, Submitting, Handling, Reviewing, Unlocking, Releasing, PaidOut
  <2> QED BY <1>2, <1>3, <2>1, <2>4
<1>9. ASSUME RunProofSlaChecks(w)
      PROVE  Sound(r)' /\ ContractInv' /\ \A o \in Workers : At(o, "idle")
  <2>1. PICK batch : Begin(w, [Idle EXCEPT !.pc = "sla", !.t = now, !.todo = batch], {})
    BY <1>9 DEF RunProofSlaChecks, Tick
  <2> DEFINE x == [Idle EXCEPT !.pc = "sla", !.t = now, !.todo = batch]
  <2>2. x.pc = "sla" /\ Begin(w, x, {})
    BY <2>1 DEF Idle
  <2>3. UNCHANGED <<tables, ledger>>
    BY <1>9 DEF RunProofSlaChecks, Tick
  <2> HIDE DEF x
  <2> QED BY <1>2, <1>3, <2>1, <2>2, <2>3, IdleKnows
<1>10. ASSUME NEW m \in Milestones, RetentionTick(w, m)
       PROVE  Sound(r)' /\ ContractInv' /\ \A o \in Workers : At(o, "idle")
  <2>1. PICK pc \in {"submit", "scan"} :
          Begin(w, [Idle EXCEPT !.pc = pc, !.then = "unlock", !.m = m, !.t = now], {})
    BY <1>10 DEF RetentionTick
  <2>2. UNCHANGED <<tables, ledger>> /\ row[m].status = "LOCKED"
    BY <1>10 DEF RetentionTick
  <2> DEFINE x == [Idle EXCEPT !.pc = pc, !.then = "unlock", !.m = m, !.t = now]
  <2>3. x.pc = pc /\ x.then = "unlock" /\ x.m = m
    BY DEF Idle
  <2>4. Begin(w, x, {})
    BY <2>1
  <2> HIDE DEF x
  <2>5. row' = row
    BY <2>2 DEF tables
  <2>6. Knows(r)'
    BY <1>2, <2>2, <2>3, <2>4, <2>5
    DEF Knows, Submitting, Handling, Reviewing, Unlocking, Releasing, PaidOut
  <2> QED BY <1>2, <1>3, <2>2, <2>4, <2>6
<1>11. ASSUME NEW e \in events, HandleEvent(w, e)
       PROVE  Sound(r)' /\ ContractInv' /\ \A o \in Workers : At(o, "idle")
  <2>1. PICK k \in Milestones : k = e.m
    BY <1>1, <1>11 DEF Event
  <2>2. /\ e.kind \in {"milestone_unlocked", "proof_submitted", "milestone_confirmed"}
        /\ PayoutSeen(e)
    BY <1>11 DEF ContractInv
  <2>3. PICK next, what :
          /\ Begin(w, [Idle EXCEPT !.pc = next, !.then = "ack", !.m = e.m, !.e = e.id], what)
          /\ next = IF e.kind = "proof_submitted" THEN "latest" ELSE "ack"
          /\ what = IF Outdated(e) THEN {"outdated"} ELSE {}
    BY <1>11, <2>2 DEF HandleEvent
  <2> DEFINE x == [Idle EXCEPT !.pc = next, !.then = "ack", !.m = e.m, !.e = e.id]
  <2>4. x.pc = next /\ x.then = "ack" /\ x.m = k /\ x.e = e.id
    BY <2>1 DEF Idle
  <2>5. Begin(w, x, what)
    BY <2>3
  <2> HIDE DEF x
  <2>6. /\ r.pc = next /\ r.then = "ack" /\ r.m = k /\ r.e = e.id
        /\ ~Outdated(e) /\ \A o \in Workers : At(o, "idle")
    BY <1>2, <2>3, <2>4, <2>5
  <2>7. UNCHANGED <<approvals, given, versions, chain, events, emitted, net>>
    BY <1>11 DEF HandleEvent, ledger
  <2>8. PICK y : y = [row[k] EXCEPT
                        !.status = EventStatus(e.kind),
                        !.paid = IF e.kind = "milestone_confirmed" THEN e.amount ELSE row[k].paid]
    OBVIOUS
  <2>9. row' = [row EXCEPT ![k] = y]
    BY <1>11, <2>1, <2>2, <2>8 DEF HandleEvent
  <2>10. /\ y.status = EventStatus(e.kind)
         /\ y.paid = IF e.kind = "milestone_confirmed" THEN e.amount ELSE row[k].paid
    BY <1>1, <2>8 DEF RowType
  <2>11. row'[k] = y /\ \A m \in Milestones \ {k} : row'[m] = row[m]
    BY <1>1, <2>9
  <2>12. ASSUME NEW m \in Milestones \ {k} PROVE Books(m, r)' /\ Fresh(m, r)'
    <3>1. Same(m)
      BY <2>7, <2>11 DEF Same, ToConfirm, Awaiting, Latest
    <3>2. q.pc \notin Special /\ Books(m, q) /\ Fresh(m, q)
      BY DEF Sound, Special
    <3> QED BY <3>1, <3>2, SameSound
  <2>13. /\ Latest(k)' = Latest(k) /\ (Awaiting(k)' <=> Awaiting(k))
         /\ (ToConfirm(k)' <=> ToConfirm(k))
         /\ chain'[k] = chain[k] /\ approvals'[k] = approvals[k] /\ given'[k] = given[k]
    BY <2>7 DEF ToConfirm, Awaiting, Latest
  <2>14. /\ row[k].paid = chain[k].got
         /\ ToConfirm(k) \/ (row[k].status = "CONFIRMED" <=> chain[k].left = 0)
    BY DEF Sound, Books
  <2>15. ToConfirm(k) => chain[k].left = 0
    BY DEF ToConfirm, ContractInv, PayoutSeen
  <2>16. CASE e.kind = "milestone_confirmed"
    <3>1. y.status = "CONFIRMED" /\ y.paid = chain[k].got /\ chain[k].left = 0
      BY <2>1, <2>2, <2>10, <2>16 DEF EventStatus, PayoutSeen
    <3>2. Books(k, r)' /\ Fresh(k, r)'
      BY <2>11, <2>13, <3>1 DEF Books, Fresh
    <3>3. \A d \in events : d.id = e.id => d = e
      BY <1>11 DEF ContractInv
    <3>4. r.pc = "ack"
      BY <2>3, <2>6, <2>16
    <3>5. Knows(r)'
      BY <2>1, <2>6, <2>7, <2>11, <3>1, <3>3, <3>4
      DEF Knows, Submitting, Handling, Reviewing, Unlocking, Releasing, PaidOut
    <3> QED BY <2>6, <2>7, <2>12, <3>2, <3>5, SameContract DEF Sound
  <2>17. CASE e.kind # "milestone_confirmed"
    <3>1. y.paid = row[k].paid /\ y.status \in {"PENDING", "PROOF_SUBMITTED"}
          /\ (y.status = "PENDING" <=> e.kind = "milestone_unlocked")
      BY <2>2, <2>10, <2>17 DEF EventStatus
    <3>2. \/ ToConfirm(k)
          \/ e.kind = "milestone_unlocked" /\ row[k].status \in {"LOCKED", "PENDING"}
          \/ e.kind = "proof_submitted" /\ row[k].status # "CONFIRMED"
      BY <2>1, <2>2, <2>6, <2>17 DEF Outdated, ToConfirm
    <3>3. Books(k, r)'
      BY <2>11, <2>13, <2>14, <3>1, <3>2 DEF Books
    <3>4. Fresh(k, q)
      BY DEF Sound
    <3>5. e.kind = "proof_submitted" => r.pc = "latest"
      BY <2>3, <2>6
    <3>6. Fresh(k, r)'
      <4>1. CASE chain[k].left = 0
        BY <2>13, <4>1 DEF Fresh
      <4>2. CASE e.kind = "milestone_unlocked" /\ row[k].status \in {"LOCKED", "PENDING"}
        BY <2>11, <2>13, <3>1, <3>4, <4>2 DEF Fresh
      <4>3. CASE e.kind = "proof_submitted"
        BY <2>6, <2>11, <2>13, <3>1, <3>4, <3>5, <4>3 DEF Fresh
      <4> QED BY <2>15, <3>2, <4>1, <4>2, <4>3
    <3>7. \A d \in events : d.id = e.id => d.kind # "milestone_confirmed"
      BY <1>11, <2>17 DEF ContractInv
    <3>8. r.pc \in {"latest", "ack"}
      BY <2>3, <2>6
    <3>9. Knows(r)'
      BY <2>6, <2>7, <3>7, <3>8
      DEF Knows, Submitting, Handling, Reviewing, Unlocking, Releasing, PaidOut
    <3> QED BY <2>6, <2>7, <2>12, <3>3, <3>6, <3>9, SameContract DEF Sound
  <2> QED BY <2>16, <2>17
<1> QED BY <1>4, <1>5, <1>6, <1>7, <1>8, <1>9, <1>10, <1>11
        DEF Take, BulkUpdateStatus, ApproveRelease, RejectRelease

\* The answer to a contract call leaves its handler sound: what was paid is still to be
\* booked, and a payout is announced by its event.
LEMMA AnswerSound ==
    ASSUME Base, ContractInv, NEW t \in net, Land(t) \/ Expire(t), NEW w \in Workers, w = t.by,
           NEW q, q = req[w], Sound(q), NEW r, r = req'[w]
    PROVE  Sound(r)' /\ ContractInv'
<1> DEFINE ChainType == [st : {"LOCKED", "PENDING", "PROOF", "DISPUTED", "DONE"},
                         left : Nat, got : Nat, until : Nat]
<1>1. /\ HandlersOK /\ q \in Request /\ t \in Tx /\ TxOK(t) /\ events \subseteq Event
      /\ emitted \in Nat /\ chain \in [Milestones -> ChainType]
      /\ release \in [ReleaseIds -> Release]
  BY BaseParts DEF HandlersOK, TablesOK, LedgerOK
<1>2. w # Nobody
  BY MilestonesAssumption DEF Nobody
<1>3. q.pc = "wait" /\ q.then = t.call /\ q.m = t.m /\ q.r = t.r /\ t.call \in Calls
  BY <1>1, <1>2 DEF TxOK, Tx
<1>4. PICK k \in Milestones : k = t.m
  BY <1>1 DEF Tx
<1>5. Knows(q) /\ Books(k, q) /\ Fresh(k, q) /\ q.pc \notin Special
  BY <1>3 DEF Sound, Special
<1>6. /\ row[k].paid = chain[k].got
      /\ ToConfirm(k) \/ (row[k].status = "CONFIRMED" <=> chain[k].left = 0)
  BY <1>3, <1>5 DEF Books
<1>7. net' = net \ {t} /\ UNCHANGED <<row, approvals, given, versions>>
  BY DEF Land, Expire, tables
<1>8. CASE Raise(w) /\ UNCHANGED <<chain, events, emitted>>
  <2>1. Knows(r)'
    BY <1>1, <1>3, <1>8, RaiseKnows DEF At
  <2> QED BY <1>5, <1>7, <1>8, <2>1, TablesSound, SameContract
<1>9. CASE Land(t) /\ Accepts(t.call, k, t.r)
  <2>1. Goto(w, OnSuccess(t.call))
    BY <1>2, <1>4, <1>9 DEF Land
  <2>2. \A m \in Milestones : Latest(m)' = Latest(m) /\ (Awaiting(m)' <=> Awaiting(m))
    BY <1>7 DEF Latest, Awaiting
  <2>3. \/ UNCHANGED <<events, emitted>>
        \/ \E kind, amount : Emit(kind, k, amount)
    BY <1>3, <1>4, <1>9 DEF Land, Calls, PayCalls
  <2>4. \A m \in Milestones \ {k} : chain'[m] = chain[m] /\ (ToConfirm(m)' <=> ToConfirm(m))
    <3>1. \A m \in Milestones \ {k} : chain'[m] = chain[m]
      BY <1>1, <1>3, <1>4, <1>9 DEF Land, Calls, PayCalls
    <3>2. \A m \in Milestones \ {k} : ToConfirm(m)' <=> ToConfirm(m)
      BY <2>3 DEF Emit, ToConfirm
    <3> QED BY <3>1, <3>2
  <2>5. ASSUME NEW m \in Milestones \ {k} PROVE Books(m, r)' /\ Fresh(m, r)'
    <3>1. Same(m)
      BY <1>7, <2>2, <2>4 DEF Same, Latest
    <3> QED BY <1>5, <3>1, SameSound DEF Sound
  <2>6. ASSUME NEW c, c = chain'[k], NEW kind, NEW amount, Emit(kind, k, amount),
               c.left > 0 => c.got + c.left = Amount,
               kind \in {"milestone_unlocked", "milestone_confirmed"},
               \/ c.left = 0 /\ c.got = amount /\ chain[k].left > 0
               \/ /\ c.left = chain[k].left /\ c.got = chain[k].got
                  /\ kind = "milestone_unlocked"
        PROVE  ContractInv'
    <3> PICK new : new = [id |-> emitted + 1, kind |-> kind, m |-> k, amount |-> amount]
      OBVIOUS
    <3>1. events' = events \cup {new} /\ emitted' = emitted + 1
      BY <2>6 DEF Emit
    <3>2. new.id = emitted + 1 /\ new.kind = kind /\ new.m = k /\ new.amount = amount
      OBVIOUS
    <3>3. ASSUME NEW d \in events
          PROVE  /\ d.id \in Nat /\ d.id <= emitted /\ d.m \in Milestones /\ PayoutSeen(d)
                 /\ d.kind \in {"milestone_unlocked", "proof_submitted", "milestone_confirmed"}
      BY <1>1 DEF ContractInv, Event
    <3>4. ASSUME NEW d \in events PROVE PayoutSeen(d)'
      <4>1. CASE d.m # k
        BY <2>4, <3>3, <4>1 DEF PayoutSeen
      <4>2. CASE d.m = k
        BY <1>1, <2>6, <3>3, <4>2 DEF PayoutSeen
      <4> QED BY <4>1, <4>2
    <3>5. PayoutSeen(new)'
      BY <2>6, <3>2 DEF PayoutSeen
    <3>6. \A d \in events' :
            /\ d.id <= emitted' /\ PayoutSeen(d)'
            /\ d.kind \in {"milestone_unlocked", "proof_submitted", "milestone_confirmed"}
      BY <1>1, <2>6, <3>1, <3>2, <3>3, <3>4, <3>5
    <3>7. \A d \in events : d.id # new.id
      BY <1>1, <3>2, <3>3
    <3>8. \A d, e \in events' : d.id = e.id => d = e
      BY <3>1, <3>7 DEF ContractInv
    <3>9. \A m \in Milestones : chain'[m].left > 0 => chain'[m].got + chain'[m].left = Amount
      BY <2>4, <2>6 DEF ContractInv
    <3> QED BY <1>7, <3>6, <3>8, <3>9 DEF ContractInv
  <2>7. CASE t.call \in PayCalls
    <3>1. PICK x : x = [chain[k] EXCEPT !.st = "DONE", !.got = chain[k].got + chain[k].left,
                                        !.left = 0]
      OBVIOUS
    <3>2. /\ chain' = [chain EXCEPT ![k] = x]
          /\ Emit("milestone_confirmed", k, chain[k].got + chain[k].left)
      <4>1. chain' = [chain EXCEPT ![k].st = "DONE", ![k].got = chain[k].got + chain[k].left,
                                   ![k].left = 0]
            /\ Emit("milestone_confirmed", k, chain[k].got + chain[k].left)
        BY <1>4, <1>9, <2>7 DEF Land, PayCalls
      <4> QED BY <1>1, <3>1, <4>1
    <3>3. chain'[k] = x /\ x.left = 0 /\ x.got = chain[k].got + chain[k].left
      BY <1>1, <3>1, <3>2
    <3>4. chain[k].left > 0 /\ chain[k].got + chain[k].left = Amount
      BY <1>4, <1>9, <2>7 DEF Accepts, ContractInv, PayCalls
    <3>5. ContractInv'
      BY <2>6, <3>2, <3>3, <3>4
    <3>6. ToConfirm(k)'
      <4>1. PICK d : d = [id |-> emitted + 1, kind |-> "milestone_confirmed", m |-> k,
                          amount |-> chain[k].got + chain[k].left]
        OBVIOUS
      <4>2. d \in events' /\ d.m = k /\ d.kind = "milestone_confirmed"
        BY <3>2, <4>1 DEF Emit
      <4> QED BY <4>2 DEF ToConfirm
    <3>7. Goes(r, q, "confirm") \/ Goes(r, q, "autoConfirm")
      BY <1>1, <2>1, <2>7, GotoGoes DEF OnSuccess, PayCalls
    <3>8. Books(k, r)' /\ Fresh(k, r)'
      BY <1>3, <1>4, <3>3, <3>6, <3>7 DEF Books, Fresh, Goes
    <3>9. Knows(r)'
      BY <1>3, <1>4, <3>3, <3>4, <3>7
      DEF Goes, Knows, Submitting, Handling, Reviewing, Unlocking, Releasing, PaidOut
    <3> QED BY <2>5, <3>5, <3>8, <3>9 DEF Sound
  <2>8. CASE t.call = "partial"
    <3>1. t.r # 0 /\ t.r \in ReleaseIds
      BY <1>1, <2>8 DEF TxOK, Tx
    <3>2. PICK amount, back : amount = release[t.r].amount /\ back = release[t.r].back
      OBVIOUS
    <3>3. amount \in Nat /\ back \in BOOLEAN /\ amount < chain[k].left
      BY <1>1, <1>9, <2>8, <3>1, <3>2 DEF Accepts, Release, PayCalls
    <3>4. PICK x : x = [chain[k] EXCEPT !.st = IF back THEN "DONE" ELSE chain[k].st,
                                        !.got = chain[k].got + amount,
                                        !.left = IF back THEN 0 ELSE chain[k].left - amount]
      OBVIOUS
    <3>5. /\ chain' = [chain EXCEPT ![k] = x]
          /\ release' = [release EXCEPT ![t.r].paid = release[t.r].paid + amount]
          /\ UNCHANGED <<events, emitted>>
      <4>1. chain' = [chain EXCEPT
                        ![k].st = IF release[t.r].back THEN "DONE" ELSE @,
                        ![k].got = @ + amount,
                        ![k].left = IF release[t.r].back THEN 0 ELSE @ - amount]
        BY <1>4, <1>9, <2>8, <3>1, <3>2 DEF Land, PayCalls
      <4>2. chain' = [chain EXCEPT ![k] = x]
        BY <1>1, <3>2, <3>4, <4>1
      <4> QED BY <1>4, <1>9, <2>8, <3>1, <3>2, <4>2 DEF Land, PayCalls
    <3>6. /\ chain'[k] = x /\ x.got = chain[k].got + amount
          /\ x.left = IF back THEN 0 ELSE chain[k].left - amount
      BY <1>1, <3>4, <3>5
    <3>7. release'[t.r].amount = amount /\ release'[t.r].back = back
      BY <1>1, <3>1, <3>2, <3>5 DEF Release
    <3>8. chain[k].left \in Nat /\ chain[k].got \in Nat
      BY <1>1
    <3>9. chain[k].left > 0 /\ chain[k].got + chain[k].left = Amount
      BY <3>3, <3>8 DEF ContractInv
    <3>10. x.left > 0 <=> ~back
      BY <3>3, <3>6, <3>8
    <3>11. ContractInv'
      <4>1. ASSUME NEW d \in events PROVE PayoutSeen(d)'
        <5>1. PayoutSeen(d) /\ d.m \in Milestones
          BY <1>1 DEF ContractInv, Event
        <5> QED BY <2>4, <3>9, <5>1 DEF PayoutSeen
      <4>2. x.left > 0 => x.got + x.left = Amount
        BY <3>3, <3>6, <3>8, <3>9, <3>10
      <4>3. \A m \in Milestones : chain'[m].left > 0 => chain'[m].got + chain'[m].left = Amount
        BY <2>4, <3>6, <4>2 DEF ContractInv
      <4> QED BY <1>7, <3>5, <4>1, <4>3 DEF ContractInv
    <3>12. Goes(r, q, "book")
      BY <1>1, <2>1, <2>8, GotoGoes DEF OnSuccess, PayCalls
    <3>13. row[k].paid = q.p
      BY <1>3, <1>4, <1>5, <2>8 DEF Knows, Releasing
    <3>14. Knows(r)'
      BY <1>3, <1>4, <1>6, <1>7, <3>6, <3>7, <3>12, <3>13
      DEF Goes, Knows, Submitting, Handling, Reviewing, Unlocking, Releasing, PaidOut
    <3>15. Books(k, r)'
      <4>1. ToConfirm(k)' <=> ToConfirm(k)
        BY <3>5 DEF ToConfirm
      <4>2. back \/ ToConfirm(k)' \/ (row'[k].status = "CONFIRMED" <=> chain'[k].left = 0)
        BY <1>6, <1>7, <3>6, <3>8, <3>9, <3>10, <4>1
      <4> QED BY <1>3, <1>4, <3>7, <3>12, <4>2 DEF Books, Goes
    <3>16. Fresh(k, r)'
      BY <1>3, <1>5, <1>7, <2>2, <3>9 DEF Fresh
    <3> QED BY <2>5, <3>11, <3>14, <3>15, <3>16 DEF Sound
  <2>9. CASE t.call = "unlock"
    <3>1. PICK x : x = [chain[k] EXCEPT !.st = "PENDING"]
      OBVIOUS
    <3>2. chain' = [chain EXCEPT ![k] = x] /\ Emit("milestone_unlocked", k, 0)
      BY <1>1, <1>4, <1>9, <2>9, <3>1 DEF Land, PayCalls
    <3>3. chain'[k] = x /\ x.left = chain[k].left /\ x.got = chain[k].got
      BY <1>1, <3>1, <3>2
    <3>4. chain[k].left > 0 => chain[k].got + chain[k].left = Amount
      BY DEF ContractInv
    <3>5. ContractInv'
      BY <2>6, <3>2, <3>3, <3>4
    <3>6. ToConfirm(k)' <=> ToConfirm(k)
      BY <3>2 DEF Emit, ToConfirm
    <3>7. Same(k)
      BY <1>7, <2>2, <3>3, <3>6 DEF Same, Latest
    <3>8. Goes(r, q, "unlocked")
      BY <1>1, <2>1, <2>9, GotoGoes DEF OnSuccess, PayCalls
    <3>9. Knows(r)'
      BY <1>3, <1>5, <1>7, <2>9, <3>8
      DEF Goes, Knows, Submitting, Handling, Reviewing, Unlocking, Releasing, PaidOut
    <3> QED BY <1>5, <2>5, <3>5, <3>7, <3>9, SameSound DEF Sound
  <2> QED BY <1>3, <2>7, <2>8, <2>9 DEF Calls, PayCalls
<1>10. \/ Raise(w) /\ UNCHANGED <<chain, events, emitted>>
       \/ Land(t) /\ Accepts(t.call, k, t.r)
  BY <1>2, <1>4 DEF Land, Expire
<1> QED BY <1>8, <1>9, <1>10

\* The contract's parties, the keys and the clock touch nothing that a handler knows.
LEMMA OutsideSound ==
    ASSUME Base, ContractInv, upset' = {}, NEW q, Sound(q), InFlight(q),
           \/ \E m \in Milestones : Contract(m)
           \/ \E j \in Jobs : ExpireLock(j)
           \/ \E t \in scope.times : Later(t)
           \/ UNCHANGED vars
    PROVE  Sound(q)' /\ ContractInv' /\ UNCHANGED req
<1> DEFINE ChainType == [st : {"LOCKED", "PENDING", "PROOF", "DISPUTED", "DONE"},
                         left : Nat, got : Nat, until : Nat]
<1>1. /\ chain \in [Milestones -> ChainType] /\ events \subseteq Event /\ emitted \in Nat
      /\ row \in [Milestones -> RowType]
  BY BaseParts DEF LedgerOK, TablesOK
<1>2. ASSUME UNCHANGED <<tables, ledger, req>> PROVE Sound(q)' /\ ContractInv' /\ UNCHANGED req
  <2>1. Knows(q)' <=> Knows(q)
    BY <1>2 DEF Knows, tables, ledger, Latest, Awaiting
  <2>2. \A m \in Milestones : Books(m, q)' <=> Books(m, q)
    BY <1>2 DEF Books, tables, ledger, ToConfirm
  <2>3. \A m \in Milestones : Fresh(m, q)' <=> Fresh(m, q)
    BY <1>2 DEF Fresh, tables, ledger, Latest, Awaiting
  <2>4. ContractInv'
    BY <1>2, SameContract DEF ledger
  <2> QED BY <1>2, <2>1, <2>2, <2>3, <2>4 DEF Sound
<1>3. ASSUME NEW k \in Milestones, SubmitProofOnChain(k)
      PROVE  Sound(q)' /\ ContractInv' /\ UNCHANGED req
  <2>1. PICK x : x = [chain[k] EXCEPT !.st = "PROOF"]
    OBVIOUS
  <2>2. /\ chain' = [chain EXCEPT ![k] = x] /\ Emit("proof_submitted", k, 0)
        /\ UNCHANGED <<tables, net, req>>
    BY <1>1, <1>3, <2>1 DEF SubmitProofOnChain, ContractStep
  <2>3. \A m \in Milestones : chain'[m].left = chain[m].left /\ chain'[m].got = chain[m].got
    BY <1>1, <2>1, <2>2
  <2>4. PICK new : new = [id |-> emitted + 1, kind |-> "proof_submitted", m |-> k, amount |-> 0]
    OBVIOUS
  <2>5. events' = events \cup {new} /\ emitted' = emitted + 1
    BY <2>2, <2>4 DEF Emit
  <2>6. new.id = emitted + 1 /\ new.kind = "proof_submitted"
    BY <2>4
  <2>7. ASSUME NEW d \in events
        PROVE  /\ d.id \in Nat /\ d.id <= emitted /\ PayoutSeen(d)'
               /\ d.kind \in {"milestone_unlocked", "proof_submitted", "milestone_confirmed"}
    BY <1>1, <2>3 DEF ContractInv, Event, PayoutSeen
  <2>8. PayoutSeen(new)'
    BY <2>6 DEF PayoutSeen
  <2>9. ContractInv'
    <3>1. \A d \in events' :
            /\ d.id <= emitted' /\ PayoutSeen(d)'
            /\ d.kind \in {"milestone_unlocked", "proof_submitted", "milestone_confirmed"}
      BY <1>1, <2>5, <2>6, <2>7, <2>8
    <3>2. \A d, e \in events' : d.id = e.id => d = e
      <4>1. \A d \in events : d.id # new.id
        BY <1>1, <2>6, <2>7
      <4> QED BY <2>5, <4>1 DEF ContractInv
    <3> QED BY <2>2, <2>3, <3>1, <3>2 DEF ContractInv
  <2>10. \A m \in Milestones : ToConfirm(m)' <=> ToConfirm(m)
    BY <2>5, <2>6 DEF ToConfirm
  <2>11. UNCHANGED <<row, approvals, given, versions, release>>
    BY <2>2 DEF tables
  <2>12. \A m \in Milestones : /\ Books(m, q)' <=> Books(m, q)
                               /\ Fresh(m, q)' <=> Fresh(m, q)
    BY <2>3, <2>10, <2>11 DEF Books, Fresh, Latest, Awaiting
  <2>13. Knows(q)'
    <3>1. q.pc \in Reviewing \cup PaidOut \cup {"book"} => q.m \in Milestones
      BY BaseParts DEF Reviewing, PaidOut, InFlight, HandlersOK, LocalOK
    <3> QED BY <2>3, <2>5, <2>6, <2>11, <3>1 DEF Sound, Knows, Latest, Awaiting, Submitting,
            Handling, Reviewing, Unlocking, Releasing, PaidOut
  <2> QED BY <2>2, <2>9, <2>12, <2>13 DEF Sound
<1>4. ASSUME NEW m \in Milestones, Contract(m)
      PROVE  Sound(q)' /\ ContractInv' /\ UNCHANGED req
  <2>1. SubmitProofOnChain(m)
    BY <1>4 DEF Contract, RaiseDispute, RejectDispute, ApproveDispute, RequestReplacement,
                ContractStep
  <2> QED BY <1>3, <2>1
<1>5. ASSUME NEW j \in Jobs, ExpireLock(j) PROVE Sound(q)' /\ ContractInv' /\ UNCHANGED req
  BY <1>2, <1>5 DEF ExpireLock
<1>6. ASSUME NEW t, Later(t) PROVE Sound(q)' /\ ContractInv' /\ UNCHANGED req
  BY <1>2, <1>6 DEF Later
<1>7. CASE UNCHANGED vars
  BY <1>2, <1>7 DEF vars
<1> QED BY <1>4, <1>5, <1>6, <1>7

\* The handler at work after a step is the one that stepped, or nobody.
LEMMA StillInFlight ==
    ASSUME HandlersOK, NEW w \in Workers, NEW r, r = req'[w],
           \A o \in Workers \ {w} : At(o, "idle") /\ req'[o] = req[o]
    PROVE  InFlight(r)'
<1>1. \A o \in Workers \ {w} : At(o, "idle")'
  BY DEF At
<1>2. CASE r.pc = "idle"
  BY <1>1, <1>2 DEF InFlight, Resting, At
<1>3. CASE r.pc # "idle"
  BY <1>1, <1>3 DEF InFlight, At
<1> QED BY <1>2, <1>3

\* A handler that steps is busy.
LEMMA StepBusy ==
    ASSUME NEW w \in Workers, Step(w)
    PROVE  ~At(w, "idle")
BY DEF Step, Supersede, RecordVersionFind, RecordVersionCreate, SetProofSubmitted,
       AssertReviewable, RejectVersion, Reopen, ForgetApprovals, CreateApproval,
       CountApprovals, MarkConfirmed, MarkApprovedFind, ApproveVersion,
       OverrideStatus, EvaluateVersion, Unclaim, ProposeCheck, InsertRelease,
       FindOpen, SignRelease, HasDualApproval, DeclineRelease, ClaimRelease,
       BookRelease, FinishRelease, FailRelease, ClearApprovals, EndSlaChecks,
       SendRetentionWarning, MarkUnlockedByJob, Acknowledge, Submit, At

\* A worker that takes something up beside another one is noted.
LEMMA BusyNoted ==
    ASSUME NEW w \in Workers, Take(w), NEW o \in Workers \ {w}, ~At(o, "idle")
    PROVE  "overlap" \in upset'
<1>1. ASSUME NEW r, NEW what, Begin(w, r, what) PROVE "overlap" \in upset'
  BY <1>1 DEF Begin
<1>2. \E r, what : Begin(w, r, what)
  <2>1. ASSUME NEW e \in events, HandleEvent(w, e) PROVE \E r, what : Begin(w, r, what)
    BY <2>1 DEF HandleEvent
  <2>2. ASSUME NEW m \in Milestones, RetentionTick(w, m) PROVE \E r, what : Begin(w, r, what)
    BY <2>2 DEF RetentionTick
  <2>3. ASSUME RunProofSlaChecks(w) PROVE \E r, what : Begin(w, r, what)
    BY <2>3 DEF RunProofSlaChecks, Tick
  <2> QED BY <2>1, <2>2, <2>3
          DEF Take, SubmitProof, RejectProof, ApproveMilestone, AdminOverride,
              BulkUpdateStatus, ProposeRelease, ApproveRelease, RejectRelease,
              AnswerRelease, Call
<1> QED BY <1>1, <1>2

\* Every step keeps the invariant of the calm.
LEMMA CalmStep ==
    ASSUME Base, Base', [Next]_vars, CalmInv
    PROVE  CalmInv'
<1> SUFFICES ASSUME upset' = {} PROVE ContractInv' /\ \E r \in Request : (InFlight(r) /\ Sound(r))'
  BY DEF CalmInv
<1>1. upset = {}
  BY UpsetGrows
<1>2. ContractInv
  BY <1>1 DEF CalmInv
<1>3. PICK q \in Request : InFlight(q) /\ Sound(q)
  BY <1>1 DEF CalmInv
<1>4. HandlersOK /\ LedgerOK /\ req' \in [Workers -> Request]
  BY BaseParts DEF Base, TypeOK
<1>5. ASSUME NEW w \in Workers, NEW r, r = req'[w], (Sound(r) /\ ContractInv)',
             \A o \in Workers \ {w} : At(o, "idle") /\ req'[o] = req[o]
      PROVE  ContractInv' /\ \E x \in Request : (InFlight(x) /\ Sound(x))'
  BY <1>4, <1>5, StillInFlight
<1>6. ASSUME NEW w \in Workers, ~At(w, "idle")
      PROVE  q = req[w] /\ \A o \in Workers \ {w} : At(o, "idle")
  BY <1>3, <1>6 DEF InFlight, Resting, At
<1>7. ASSUME NEW w \in Workers, Take(w)
      PROVE  ContractInv' /\ \E x \in Request : (InFlight(x) /\ Sound(x))'
  <2>1. PICK r : r = req'[w]
    OBVIOUS
  <2>2. q.pc = "idle"
    <3>1. ASSUME q.pc # "idle" PROVE FALSE
      <4>1. PICK o \in Workers : req[o] = q /\ ~At(o, "idle")
        BY <1>3, <3>1 DEF InFlight
      <4>2. At(w, "idle") /\ upset' # {}
        <5>1. At(w, "idle") /\ o # w
          BY <1>7, <4>1, TakeMoves
        <5>2. "overlap" \in upset'
          BY <1>7, <4>1, <5>1, BusyNoted
        <5> QED BY <5>1, <5>2
      <4> QED BY <4>2
    <3> QED BY <3>1
  <2>3. Sound(r)' /\ ContractInv' /\ \A o \in Workers : At(o, "idle")
    BY <1>2, <1>3, <1>7, <2>1, <2>2, TakeSound
  <2>4. \A o \in Workers \ {w} : req'[o] = req[o]
    BY <1>7, TakeMoves
  <2> QED BY <1>5, <2>1, <2>3, <2>4
<1>8. ASSUME NEW w \in Workers, Step(w)
      PROVE  ContractInv' /\ \E x \in Request : (InFlight(x) /\ Sound(x))'
  <2>1. PICK r : r = req'[w]
    OBVIOUS
  <2>2. ~At(w, "idle")
    BY <1>4, <1>8, StepBusy
  <2>3. q = req[w] /\ \A o \in Workers \ {w} : At(o, "idle")
    BY <1>6, <2>2
  <2>4. Sound(r)' /\ ContractInv'
    BY <1>2, <1>3, <1>8, <2>1, <2>3, StepSound, StepContract
  <2>5. \A o \in Workers \ {w} : req'[o] = req[o]
    BY <1>8, PayingMoves
  <2> QED BY <1>5, <2>1, <2>3, <2>4, <2>5
<1>9. ASSUME NEW t \in net, Land(t) \/ Expire(t)
      PROVE  ContractInv' /\ \E x \in Request : (InFlight(x) /\ Sound(x))'
  <2>1. PICK w \in Workers : w = t.by
    BY <1>2, <1>4 DEF ContractInv, LedgerOK, Tx
  <2>2. PICK r : r = req'[w]
    OBVIOUS
  <2>3. w # Nobody /\ At(w, "wait")
    BY <1>4, <2>1, MilestonesAssumption DEF HandlersOK, TxOK, Nobody, At
  <2>4. q = req[w] /\ \A o \in Workers \ {w} : At(o, "idle")
    BY <1>6, <2>3 DEF At
  <2>5. Sound(r)' /\ ContractInv'
    BY <1>2, <1>3, <1>9, <2>1, <2>2, <2>4, AnswerSound
  <2>6. \A o \in Workers \ {w} : req'[o] = req[o]
    BY <1>4, <1>9, <2>1, <2>3, RaiseFields, GotoFields DEF Land, Expire
  <2> QED BY <1>5, <2>2, <2>4, <2>5, <2>6
<1>10. ASSUME NEW t \in net, GiveUp(t) PROVE FALSE
  BY <1>10 DEF GiveUp
<1>11. ASSUME NEW w \in Workers, Crash(w) PROVE FALSE
  BY <1>11 DEF Crash
<1>12. CASE \/ \E m \in Milestones : Contract(m)
            \/ \E j \in Jobs : ExpireLock(j)
            \/ \E t \in scope.times : Later(t)
            \/ UNCHANGED vars
  <2>1. Sound(q)' /\ ContractInv' /\ UNCHANGED req
    BY <1>2, <1>3, <1>12, OutsideSound
  <2>2. InFlight(q)'
    BY <1>3, <2>1 DEF InFlight, Resting, At
  <2> QED BY <2>1, <2>2
<1> QED BY <1>7, <1>8, <1>9, <1>10, <1>11, <1>12 DEF Next

\* It holds at the start.
LEMMA CalmInit == Init => CalmInv
<1> SUFFICES ASSUME Init PROVE CalmInv
  OBVIOUS
<1>1. ContractInv
  BY AmountsAssumption DEF Init, ContractInv
<1>2. Idle \in Request /\ Idle.pc = "idle"
  BY IdleOK DEF Idle
<1>3. InFlight(Idle)
  BY <1>2 DEF Init, InFlight, Resting, At
<1>4. Knows(Idle)
  BY <1>2 DEF Knows, Submitting, Handling, Reviewing, Unlocking, Releasing, PaidOut
<1>5. ASSUME NEW m \in Milestones PROVE Books(m, Idle) /\ Fresh(m, Idle)
  <2>1. /\ row[m].status \in {"LOCKED", "PENDING"} /\ row[m].paid = 0
        /\ chain[m].left = Amount /\ chain[m].got = 0 /\ approvals[m] = {}
    BY DEF Init
  <2> QED BY <2>1, AmountsAssumption DEF Books, Fresh
<1> QED BY <1>1, <1>2, <1>3, <1>4, <1>5 DEF CalmInv, Sound

\* Approvals are for what is reviewed (ProofVersionsService, MilestonesService,
\* EventsService): as long as requests come one at a time, no process died, no call came
\* late, nobody overrode, disputed or replaced the milestone and no event came after the
\* row had moved past it, the approvals of a proof under review were given for that
\* version.
THEOREM ApprovalsStayFresh == Spec => []ApprovalsFresh
<1>1. Base /\ CalmInv => ApprovalsFresh
  <2> SUFFICES ASSUME Base, CalmInv, Quiet, upset = {}, NEW m \in Milestones,
                      row[m].status = "PROOF_SUBMITTED", NEW u \in approvals[m]
               PROVE  given[m][u] = Latest(m)
    BY DEF ApprovalsFresh
  <2>1. PICK q \in Request : InFlight(q) /\ Sound(q)
    BY DEF CalmInv
  <2>2. q.pc = "idle"
    BY <2>1 DEF InFlight, Quiet, Resting
  <2>3. chain[m].left # 0
    BY <2>1, <2>2 DEF Sound, Books, ToConfirm, Quiet
  <2>4. chain[m].left > 0
    BY <2>3, BaseParts DEF LedgerOK
  <2> QED BY <2>1, <2>2, <2>4 DEF Sound, Fresh
<1>2. Base /\ CalmInv /\ [Next]_vars => Base' /\ CalmInv'
  BY BaseStep, CalmStep
<1> QED BY <1>1, <1>2, BaseInit, CalmInit, PTL DEF Spec

\* The database agrees with the contract (MilestonesService.markConfirmed,
\* PartialReleaseService.execute, EventsService.markConfirmed): under the same conditions,
\* once nothing is in flight, a milestone's recorded payments are those of the contract,
\* and it is confirmed exactly when its escrow is empty.
THEOREM BooksStayInAgreement == Spec => []BooksAgree
<1>1. CalmInv => BooksAgree
  <2> SUFFICES ASSUME CalmInv, Quiet, upset = {}, NEW m \in Milestones
               PROVE  /\ row[m].paid = chain[m].got
                      /\ (row[m].status = "CONFIRMED") <=> (chain[m].left = 0)
    BY DEF BooksAgree
  <2>1. PICK q \in Request : InFlight(q) /\ Sound(q)
    BY DEF CalmInv
  <2>2. q.pc = "idle"
    BY <2>1 DEF InFlight, Quiet, Resting
  <2> QED BY <2>1, <2>2 DEF Sound, Books, ToConfirm, Quiet
<1>2. Base /\ CalmInv /\ [Next]_vars => Base' /\ CalmInv'
  BY BaseStep, CalmStep
<1> QED BY <1>1, <1>2, BaseInit, CalmInit, PTL DEF Spec

=============================================================================
