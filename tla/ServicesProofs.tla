-------------------------- MODULE ServicesProofs --------------------------
(***************************************************************************)
(* Proofs about the services: the credit ledger implements prepaid credit. *)
(* Each part moves its own workers between its own program points, so that *)
(* what it relies on survives the steps of the other parts; the first      *)
(* section says so, and the proofs about every part start from it.         *)
(***************************************************************************)
EXTENDS Services, TLAPS

(***************************************************************************)
(* Workers                                                                 *)
(***************************************************************************)

\* A worker's entry: its program point, its operation, its locals.
IsEntry(r) == r = [pc |-> r.pc, op |-> r.op, v |-> r.v]
ReqOK == req = [w \in Workers |-> req[w]] /\ \A w \in Workers : IsEntry(req[w])

\* Operations, calls and failures stay within the scope.
InScope ==
    /\ scope \in Scopes /\ \A w \in Workers : req[w].op \in {"none"} \cup scope.ops
    /\ calls \in 0..scope.calls /\ faults \in 0..MaxFaults

\* A step of a part whose program points are in L: it moves one worker, starting
\* another request beside one in flight is noted, time stands still, and it is one
\* failure at most.
Steps(L) ==
    /\ ReqOK'
    /\ \/ req' = req
       \/ \E w \in Workers :
            /\ \A x \in Workers \ {w} : req'[x] = req[x]
            /\ req[w].pc \in L \cup {"idle"} \/ ({"crash", req[w].pc} \subseteq upset' /\ faults' = faults + 1)
            /\ req'[w].pc \in L \cup {"idle"}
            /\ req[w].pc # "idle" \/ Quiet \/ "overlap" \in upset'
    /\ upset \subseteq upset' /\ now' = now /\ scope' = scope /\ faults' \in {faults, faults + 1}
    /\ InScope => InScope'

\* Taking up an operation is such a step.
LEMMA CallSteps ==
    ASSUME ReqOK, NEW w \in Workers, NEW op, NEW pc, NEW v, NEW what, NEW L,
           CallNoting(w, op, pc, v, what), pc \in L
    PROVE  Steps(L) /\ req'[w] = [pc |-> pc, op |-> op, v |-> v] /\ req[w].pc = "idle"
<1>1. req' = [req EXCEPT ![w] = [pc |-> pc, op |-> op, v |-> v]]
  BY DEF CallNoting
<1>2. req'[w] = [pc |-> pc, op |-> op, v |-> v] /\ \A x \in Workers \ {w} : req'[x] = req[x]
  BY <1>1 DEF ReqOK
<1>3. IsEntry([pc |-> pc, op |-> op, v |-> v])
  BY DEF IsEntry
<1>4. ReqOK'
  BY <1>1, <1>2, <1>3 DEF ReqOK
<1>5. Quiet \/ "overlap" \in upset'
  BY DEF CallNoting
<1>6. upset \subseteq upset' /\ now' = now /\ scope' = scope /\ req[w].pc = "idle" /\ faults' = faults
  BY DEF CallNoting, At
<1>7. InScope => InScope'
  <2>1. op \in scope.ops /\ calls < scope.calls /\ calls' = calls + 1 /\ faults' = faults
    BY DEF CallNoting
  <2>2. [pc |-> pc, op |-> op, v |-> v].op = op
    OBVIOUS
  <2> QED BY <1>2, <1>6, <2>1, <2>2, HandlersAssumption DEF InScope
<1> QED BY <1>2, <1>4, <1>5, <1>6, <1>7 DEF Steps

\* So is going from one program point to another.
LEMMA BecomeSteps ==
    ASSUME ReqOK, NEW w \in Workers, NEW from, NEW r, NEW L,
           Become(w, from, r), from # "idle", from \in L,
           IsEntry(r), r.pc \in L \cup {"idle"}, r.op \in {req[w].op, "none"}
    PROVE  Steps(L) /\ req'[w] = r /\ req[w].pc = from
<1>1. req' = [req EXCEPT ![w] = r] /\ upset' = upset /\ now' = now /\ scope' = scope /\ req[w].pc = from
      /\ faults' = faults
  BY DEF Become, At
<1>2. req'[w] = r /\ \A x \in Workers \ {w} : req'[x] = req[x]
  BY <1>1 DEF ReqOK
<1>3. ReqOK'
  BY <1>1, <1>2 DEF ReqOK
<1>4. InScope => InScope'
  BY <1>1, <1>2 DEF Become, InScope
<1> QED BY <1>1, <1>2, <1>3, <1>4 DEF Steps

\* The three ways to go on, and what they leave in the worker.
LEMMA GotoSteps ==
    ASSUME ReqOK, NEW w \in Workers, NEW from, NEW to, NEW L,
           Goto(w, from, to), from # "idle", from \in L, to \in L
    PROVE  /\ Steps(L) /\ req[w].pc = from /\ req'[w].pc = to
           /\ req'[w].op = req[w].op /\ req'[w].v = req[w].v
<1>1. PICK r : r = [req[w] EXCEPT !.pc = to]
  OBVIOUS
<1>2. IsEntry(r) /\ r.pc = to /\ r.op = req[w].op /\ r.v = req[w].v
  BY <1>1 DEF ReqOK, IsEntry
<1>3. Become(w, from, r)
  BY <1>1 DEF Goto
<1> QED BY <1>2, <1>3, BecomeSteps

\* Going on with other locals stays among the part's points.
LEMMA GotoWithSteps ==
    ASSUME ReqOK, NEW w \in Workers, NEW from, NEW to, NEW v, NEW L,
           GotoWith(w, from, to, v), from # "idle", from \in L, to \in L
    PROVE  /\ Steps(L) /\ req[w].pc = from /\ req'[w].pc = to
           /\ req'[w].op = req[w].op /\ req'[w].v = v
<1>1. PICK q : q = req[w]
  OBVIOUS
<1>2. q = [pc |-> q.pc, op |-> q.op, v |-> q.v]
  BY <1>1 DEF ReqOK, IsEntry
<1>3. PICK r : r = [pc |-> to, op |-> q.op, v |-> v]
  OBVIOUS
<1>4. [q EXCEPT !.pc = to, !.v = v] = r
  <2>1. PICK p : p = [q EXCEPT !.pc = to]
    OBVIOUS
  <2>2. p = [pc |-> to, op |-> q.op, v |-> q.v]
    BY <1>2, <2>1
  <2>3. [p EXCEPT !.v = v] = r
    BY <1>3, <2>2
  <2>4. [q EXCEPT !.pc = to, !.v = v] = [[q EXCEPT !.pc = to] EXCEPT !.v = v]
    OBVIOUS
  <2> QED BY <2>1, <2>3, <2>4
<1>5. IsEntry(r) /\ r.pc = to /\ r.op = req[w].op /\ r.v = v
  BY <1>1, <1>3 DEF IsEntry
<1>6. Become(w, from, r)
  BY <1>1, <1>4 DEF GotoWith
<1> QED BY <1>5, <1>6, BecomeSteps

\* The end of a handler leaves the worker idle.
LEMMA EndSteps ==
    ASSUME ReqOK, NEW w \in Workers, NEW from, NEW L, End(w, from), from # "idle", from \in L
    PROVE  Steps(L) /\ req[w].pc = from /\ req'[w] = Idle
<1>1. IsEntry(Idle) /\ Idle.pc = "idle" /\ Idle.op = "none"
  BY DEF IsEntry, Idle
<1>2. Become(w, from, Idle)
  BY DEF End
<1> QED BY <1>1, <1>2, BecomeSteps

\* So is a failure.
LEMMA FailSteps ==
    ASSUME ReqOK, NEW w \in Workers, NEW from, NEW kind, NEW r, NEW L,
           FailTo(w, from, kind, r), from # "idle", from \in L,
           IsEntry(r), r.pc \in L \cup {"idle"}, r.op \in {req[w].op, "none"}
    PROVE  Steps(L) /\ req'[w] = r /\ req[w].pc = from /\ kind \in upset'
<1>1. req' = [req EXCEPT ![w] = r] /\ upset \subseteq upset' /\ now' = now /\ scope' = scope /\ req[w].pc = from
      /\ kind \in upset' /\ faults' = faults + 1
  BY DEF FailTo, At
<1>2. req'[w] = r /\ \A x \in Workers \ {w} : req'[x] = req[x]
  BY <1>1 DEF ReqOK
<1>3. ReqOK'
  BY <1>1, <1>2 DEF ReqOK
<1>4. InScope => InScope'
  BY <1>1, <1>2, HandlersAssumption DEF FailTo, MayFail, InScope
<1> QED BY <1>1, <1>2, <1>3, <1>4 DEF Steps

\* An idle worker's entry.
LEMMA IdleEntry == IsEntry(Idle) /\ Idle.pc = "idle" /\ Idle.op = "none"
  BY DEF IsEntry, Idle

\* An entry whose program point or locals change is an entry.
LEMMA EntryFields ==
    ASSUME ReqOK, NEW w \in Workers, NEW to, NEW r, r = [req[w] EXCEPT !.pc = to]
    PROVE  IsEntry(r) /\ r.pc = to /\ r.op = req[w].op /\ r.v = req[w].v
  BY DEF ReqOK, IsEntry

\* An entry with other locals.
LEMMA EntryLocals ==
    ASSUME ReqOK, NEW w \in Workers, NEW v, NEW r, r = [req[w] EXCEPT !.v = v]
    PROVE  IsEntry(r) /\ r.pc = req[w].pc /\ r.op = req[w].op /\ r.v = v
  BY DEF ReqOK, IsEntry

(***************************************************************************)
(* Each part keeps to its program points                                   *)
(***************************************************************************)

\* The steps of each part move one worker between its own points: the ledger's,
LEMMA CreditSteps ==
    ASSUME ReqOK, CreditNext
    PROVE  Steps(CreditPoints)
<1>1. PICK w \in Workers :
      \/ \E c \in Payers :
           \/ \E amount \in EntryAmounts, k \in EntryKeys \cup {0} : AppendEntry(w, c, amount, k)
           \/ \E fee \in Fees, ref \in EntryKeys : ApplyToFee(w, c, fee, ref)
      \/ ReadLedger(w) \/ InsertEntry(w)
  BY DEF CreditNext
<1>2. CASE \E c \in Payers :
           \/ \E amount \in EntryAmounts, k \in EntryKeys \cup {0} : AppendEntry(w, c, amount, k)
           \/ \E fee \in Fees, ref \in EntryKeys : ApplyToFee(w, c, fee, ref)
  <2>1. PICK op, v : CallNoting(w, op, "read", v, {})
    BY <1>2 DEF AppendEntry, ApplyToFee, StartAppend, Call
  <2> QED BY <2>1, CallSteps DEF CreditPoints
<1>3. CASE ReadLedger(w)
  <2>1. End(w, "read") \/ \E v : GotoWith(w, "read", "append", v)
    BY <1>3 DEF ReadLedger
  <2> QED BY <2>1, EndSteps, GotoWithSteps DEF CreditPoints
<1>4. CASE InsertEntry(w)
  <2>1. End(w, "append") \/ \E v : GotoWith(w, "append", "read", v)
    BY <1>4 DEF InsertEntry
  <2> QED BY <2>1, EndSteps, GotoWithSteps DEF CreditPoints
<1> QED BY <1>1, <1>2, <1>3, <1>4

\* those of the dispute clocks,
LEMMA SlaSteps ==
    ASSUME ReqOK, DisputeSlaNext
    PROVE  Steps(SlaPoints)
<1>1. PICK w \in Workers :
      \/ \E d \in Cases : OpenForMilestone(w, d) \/ Decide(w, d) \/ OpenAppeal(w, d)
      \/ AutoAssign(w) \/ WriteArbiter(w) \/ WriteDecision(w) \/ WriteAppeal(w)
      \/ FlagOverdueDisputes(w) \/ FlagOne(w) \/ TellAdmins(w) \/ FlaggedAll(w)
      \/ NotifyEvidenceDeadlinesClosing(w) \/ WarnOne(w) \/ WarnParties(w) \/ WarnedAll(w)
  BY DEF DisputeSlaNext
<1>2. CASE \E d \in Cases : OpenForMilestone(w, d) \/ Decide(w, d) \/ OpenAppeal(w, d)
  <2>1. PICK op, pc, v : CallNoting(w, op, pc, v, {}) /\ pc \in SlaPoints
    BY <1>2 DEF OpenForMilestone, Decide, OpenAppeal, Call, SlaPoints
  <2> QED BY <2>1, CallSteps
<1>3. CASE FlagOverdueDisputes(w) \/ NotifyEvidenceDeadlinesClosing(w)
  <2>1. PICK op, pc, v : CallNoting(w, op, pc, v, {}) /\ pc \in SlaPoints
    BY <1>3 DEF FlagOverdueDisputes, NotifyEvidenceDeadlinesClosing, Call, SlaPoints
  <2> QED BY <2>1, CallSteps
<1>4. CASE AutoAssign(w)
  BY <1>4, EndSteps, GotoSteps DEF AutoAssign, SlaPoints
<1>5. CASE WriteArbiter(w) \/ WriteDecision(w) \/ WriteAppeal(w) \/ FlaggedAll(w) \/ WarnedAll(w)
  <2>1. End(w, "assigned") \/ End(w, "decided") \/ End(w, "appeal") \/ End(w, "flag") \/ End(w, "warn")
    BY <1>5 DEF WriteArbiter, WriteDecision, WriteAppeal, FlaggedAll, WarnedAll
  <2> QED BY <2>1, EndSteps DEF SlaPoints
<1>6. CASE FlagOne(w) \/ TellAdmins(w) \/ WarnOne(w) \/ WarnParties(w)
  <2>1. PICK from, to, v : GotoWith(w, from, to, v) /\ from # "idle" /\ {from, to} \subseteq SlaPoints
    BY <1>6 DEF FlagOne, TellAdmins, WarnOne, WarnParties, SlaPoints
  <2> QED BY <2>1, GotoWithSteps
<1> QED BY <1>1, <1>2, <1>3, <1>4, <1>5, <1>6

\* of the idempotency keys,
LEMMA IdempotencySteps ==
    ASSUME ReqOK, IdempotencyNext
    PROVE  Steps(IdempotencyPoints)
<1>1. PICK w \in Workers :
      \/ \E k \in PostKeys : Post(w, k)
      \/ Handle(w) \/ StoreAnswer(w) \/ PurgeKeys(w) \/ DeleteKeys(w)
  BY DEF IdempotencyNext
<1>2. CASE (\E k \in PostKeys : Post(w, k)) \/ PurgeKeys(w)
  <2>1. PICK op, pc, v : CallNoting(w, op, pc, v, {}) /\ pc \in IdempotencyPoints
    BY <1>2 DEF Post, PurgeKeys, Call, IdempotencyPoints
  <2> QED BY <2>1, CallSteps
<1>3. CASE Handle(w)
  BY <1>3, GotoSteps, FailSteps, IdleEntry DEF Handle, IdempotencyPoints
<1>4. CASE StoreAnswer(w) \/ DeleteKeys(w)
  BY <1>4, EndSteps, FailSteps, IdleEntry DEF StoreAnswer, DeleteKeys, IdempotencyPoints
<1> QED BY <1>1, <1>2, <1>3, <1>4

\* of the sponsored fees,
LEMMA SponsorSteps ==
    ASSUME ReqOK, SponsorshipNext
    PROVE  Steps(SponsorPoints)
<1>1. PICK w \in Workers : Submit(w) \/ SubmitFeeBump(w) \/ RecordFee(w)
  BY DEF SponsorshipNext
<1>2. CASE Submit(w)
  <2>1. PICK op, pc, v : CallNoting(w, op, pc, v, {}) /\ pc \in SponsorPoints
    BY <1>2 DEF Submit, Call, SponsorPoints
  <2> QED BY <2>1, CallSteps
<1>3. CASE SubmitFeeBump(w)
  <2>1. (\E v : GotoWith(w, "submit", "record", v)) \/ FailTo(w, "submit", "timeout", Idle)
    BY <1>3 DEF SubmitFeeBump
  <2> QED BY <2>1, GotoWithSteps, FailSteps, IdleEntry DEF SponsorPoints
<1>4. CASE RecordFee(w)
  BY <1>4, EndSteps, FailSteps, IdleEntry DEF RecordFee, SponsorPoints
<1> QED BY <1>1, <1>2, <1>3, <1>4

\* of the companies,
LEMMA CompaniesSteps ==
    ASSUME ReqOK, CompaniesNext
    PROVE  Steps(CompaniesPoints)
<1>1. PICK w \in Workers :
      \/ \E o, m \in Bosses :
           \/ InitiateTransfer(w, o, m) \/ RemoveMember(w, o, m) \/ SsoLogin(w, o, m)
           \/ \E role \in {"MEMBER", "OWNER"} : AddMember(w, o, m, role)
      \/ \E m \in Bosses : AcceptTransfer(w, m) \/ CancelTransfer(w, m)
      \/ SupersedeTransfer(w) \/ CreateTransfer(w) \/ HandOver(w) \/ CancelWrite(w)
      \/ InsertMember(w) \/ DeleteMember(w)
  BY DEF CompaniesNext
<1>2. CASE \E o, m \in Bosses :
           \/ InitiateTransfer(w, o, m) \/ RemoveMember(w, o, m) \/ SsoLogin(w, o, m)
           \/ \E role \in {"MEMBER", "OWNER"} : AddMember(w, o, m, role)
  <2>1. PICK op, pc, v, what : CallNoting(w, op, pc, v, what) /\ pc \in CompaniesPoints
    BY <1>2 DEF InitiateTransfer, RemoveMember, SsoLogin, AddMember, Call, CompaniesPoints
  <2> QED BY <2>1, CallSteps
<1>3. CASE \E m \in Bosses : AcceptTransfer(w, m) \/ CancelTransfer(w, m)
  <2>1. PICK op, pc, v : CallNoting(w, op, pc, v, {}) /\ pc \in CompaniesPoints
    BY <1>3 DEF AcceptTransfer, CancelTransfer, Call, CompaniesPoints
  <2> QED BY <2>1, CallSteps
<1>4. CASE SupersedeTransfer(w)
  <2>1. Goto(w, "supersede", "offer") /\ {"supersede", "offer"} \subseteq CompaniesPoints
    BY <1>4 DEF SupersedeTransfer, CompaniesPoints
  <2> QED BY <2>1, GotoSteps
<1>5. CASE CreateTransfer(w) \/ HandOver(w) \/ CancelWrite(w) \/ InsertMember(w) \/ DeleteMember(w)
  <2>1. PICK from : End(w, from) /\ from # "idle" /\ from \in CompaniesPoints
    BY <1>5 DEF CreateTransfer, HandOver, CancelWrite, InsertMember, DeleteMember, CompaniesPoints
  <2> QED BY <2>1, EndSteps
<1> QED BY <1>1, <1>2, <1>3, <1>4, <1>5

\* of the accounts,
LEMMA AccountsSteps ==
    ASSUME ReqOK, AccountsNext
    PROVE  Steps(AccountsPoints)
<1>1. CASE \E u \in Users : EngagementMoves(u)
  BY <1>1 DEF EngagementMoves, control, Steps, InScope, ReqOK, IsEntry
<1>2. CASE \E w \in Workers : AccountsTake(w)
  <2>1. PICK w \in Workers : AccountsTake(w)
    BY <1>2
  <2> DEFINE Taken_ == \E op, pc, v, what : CallNoting(w, op, pc, v, what) /\ pc \in AccountsPoints
  <2>2. ASSUME NEW u \in Users, NEW op, NEW set, Change(w, u, op, set) PROVE Taken_
    <3>1. PICK v, what : CallNoting(w, op, "update", v, what)
      BY <2>2 DEF Change, CallOf
    <3> QED BY <3>1 DEF AccountsPoints
  <2>3. ASSUME NEW u \in Users, NEW e \in Emails,
               Register(w, u, e) \/ LoginWithGoogle(w, u, e) \/ RequestEmailChange(w, u, e) \/ SendInvite(w, u, e)
        PROVE Taken_
    <3>1. CASE RequestEmailChange(w, u, e)
      BY <3>1, <2>2 DEF RequestEmailChange
    <3>2. CASE LoginWithGoogle(w, u, e)
      BY <3>2 DEF LoginWithGoogle, Call, CallOf, AccountsPoints
    <3>3. CASE Register(w, u, e)
      BY <3>3 DEF Register, Call, AccountsPoints
    <3>4. CASE SendInvite(w, u, e)
      BY <3>4 DEF SendInvite, Call, AccountsPoints
    <3> QED BY <2>3, <3>1, <3>2, <3>3, <3>4
  <2>4. ASSUME NEW u \in Users, NEW p, NEW code, Login(w, u, p, code) PROVE Taken_
    BY <2>4 DEF Login, CallOf, AccountsPoints
  <2>5. ASSUME NEW u \in Users, ResetPassword(w, u, 2) \/ ConfirmEmailChange(w, u) \/ SetDeactivated(w, u)
                 \/ GenerateTotpSecret(w, u) \/ EnableTotp(w, u) \/ DisableTotp(w, u)
                 \/ (\E a \in {1, 2} : RebindStellarAddress(w, u, a))
        PROVE Taken_
    <3>1. PICK op, set : Change(w, u, op, set)
      BY <2>5 DEF ResetPassword, ConfirmEmailChange, SetDeactivated, GenerateTotpSecret, EnableTotp,
                  DisableTotp, RebindStellarAddress
    <3> QED BY <3>1, <2>2
  <2>6. ASSUME NEW u \in Users, (\E i \in DOMAIN invites : AcceptTeamInvite(w, u, i)) \/ RequestErasure(w, u)
        PROVE Taken_
    BY <2>6 DEF AcceptTeamInvite, RequestErasure, Call, CallOf, AccountsPoints
  <2>7. ASSUME
             \/ \E n \in DOMAIN tokens : Refresh(w, n) \/ Logout(w, n)
             \/ \E i \in DOMAIN invites : RevokeInvite(w, i)
             \/ \E d \in deletions : ProcessRequest(w, d)
             \/ AnonymizeDueAccounts(w) \/ EnforceRetention(w)
        PROVE Taken_
    <3>1. CASE \E n \in DOMAIN tokens : Refresh(w, n) \/ Logout(w, n)
      BY <3>1 DEF Refresh, Logout, Call, CallOf, AccountsPoints
    <3>2. CASE \E i \in DOMAIN invites : RevokeInvite(w, i)
      BY <3>2 DEF RevokeInvite, Call, AccountsPoints
    <3>3. CASE \E d \in deletions : ProcessRequest(w, d)
      BY <3>3 DEF ProcessRequest, Call, AccountsPoints
    <3>4. CASE AnonymizeDueAccounts(w)
      BY <3>4 DEF AnonymizeDueAccounts, Call, AccountsPoints
    <3>5. CASE EnforceRetention(w)
      BY <3>5 DEF EnforceRetention, Call, AccountsPoints
    <3> QED BY <2>7, <3>1, <3>2, <3>3, <3>4, <3>5
  <2>8. ASSUME NEW u \in Users,
         \/ \E e \in Emails : \/ Register(w, u, e) \/ LoginWithGoogle(w, u, e)
                              \/ RequestEmailChange(w, u, e) \/ SendInvite(w, u, e)
         \/ \E p \in {1, 2}, code \in {"none", "wrong", "right"} : Login(w, u, p, code)
         \/ ResetPassword(w, u, 2) \/ ConfirmEmailChange(w, u) \/ SetDeactivated(w, u)
         \/ GenerateTotpSecret(w, u) \/ EnableTotp(w, u) \/ DisableTotp(w, u)
         \/ \E a \in {1, 2} : RebindStellarAddress(w, u, a)
         \/ \E i \in DOMAIN invites : AcceptTeamInvite(w, u, i)
         \/ RequestErasure(w, u)
        PROVE Taken_
    <3> HIDE DEF Taken_
    <3> QED BY <2>8, <2>3, <2>4, <2>5, <2>6
  <2>9. Taken_
    <3> HIDE DEF Taken_
    <3> QED BY <2>1, <2>7, <2>8 DEF AccountsTake
  <2> QED BY <2>9, CallSteps
<1>3. CASE \E w \in Workers : AccountsStep(w)
  <2>1. PICK w \in Workers : AccountsStep(w)
    BY <1>3
  <2>2. CASE InsertUser(w) \/ LinkGoogle(w)
    BY <2>2, GotoSteps, EndSteps DEF InsertUser, LinkGoogle, AccountsPoints
  <2>3. CASE FailRead(w)
    BY <2>3, GotoWithSteps DEF FailRead, AccountsPoints
  <2>4. CASE ResetFailedAttempts(w) \/ ClearInvites(w)
    <3>1. PICK from, to : Goto(w, from, to) /\ from # "idle" /\ {from, to} \subseteq AccountsPoints
      BY <2>4 DEF ResetFailedAttempts, ClearInvites, AccountsPoints
    <3> QED BY <3>1, GotoSteps
  <2>5. CASE \/ FailWrite(w) \/ IssueTokenPair(w) \/ RevokeFamily(w) \/ RotateToken(w) \/ RevokeToken(w)
             \/ UpdateUser(w) \/ InsertInvite(w) \/ JoinTeam(w) \/ DeleteInvite(w) \/ EraseUser(w)
             \/ MarkProcessed(w) \/ PurgeProcessedDeletionRequests(w)
    <3>1. PICK from : End(w, from) /\ from # "idle" /\ from \in AccountsPoints
      BY <2>5 DEF AccountsPoints, FailWrite, IssueTokenPair, RevokeFamily, RotateToken, RevokeToken, UpdateUser, InsertInvite,
                  JoinTeam, DeleteInvite, EraseUser, MarkProcessed, PurgeProcessedDeletionRequests
    <3> QED BY <3>1, EndSteps
  <2>6. CASE AnonymizeUser(w)
    <3>1. PICK u, r : r = [req[w] EXCEPT !.v.todo = @ \ {u}] /\ (Become(w, "batch", r) \/ FailTo(w, "batch", "rpc", r))
      BY <2>6 DEF AnonymizeUser
    <3>2. req[w].pc = "batch"
      BY <2>6 DEF AnonymizeUser, At
    <3>3. PICK v : r = [req[w] EXCEPT !.v = v]
      BY <3>1
    <3>4. IsEntry(r) /\ r.pc \in AccountsPoints /\ r.op = req[w].op
      BY <3>2, <3>3, EntryLocals DEF AccountsPoints
    <3>5. "batch" \in AccountsPoints /\ "batch" # "idle" /\ r.op \in {req[w].op, "none"} /\ r.pc \in AccountsPoints \cup {"idle"}
      BY <3>4 DEF AccountsPoints
    <3>6. Become(w, "batch", r) => Steps(AccountsPoints)
      BY <3>4, <3>5, BecomeSteps
    <3>7. FailTo(w, "batch", "rpc", r) => Steps(AccountsPoints)
      BY <3>4, <3>5, FailSteps
    <3> QED BY <3>1, <3>6, <3>7
  <2>7. CASE NextBatch(w)
    <3>1. End(w, "batch") \/ \E v : GotoWith(w, "batch", "batch", v)
      BY <2>7 DEF NextBatch
    <3> QED BY <3>1, EndSteps, GotoWithSteps DEF AccountsPoints
  <2>8. CASE PurgeStaleRefreshTokens(w)
    <3>1. CASE Goto(w, "purgeTokens", "purgeRequests")
      BY <3>1, GotoSteps DEF AccountsPoints
    <3>2. ASSUME FailTo(w, "purgeTokens", "rpc", [req[w] EXCEPT !.pc = "purgeRequests"])
          PROVE  Steps(AccountsPoints)
      <4>1. PICK r : r = [req[w] EXCEPT !.pc = "purgeRequests"]
        OBVIOUS
      <4>2. IsEntry(r) /\ r.pc \in AccountsPoints /\ r.op = req[w].op
        BY <4>1, EntryFields DEF AccountsPoints
      <4>3. FailTo(w, "purgeTokens", "rpc", r) /\ "purgeTokens" \in AccountsPoints
        BY <3>2, <4>1 DEF AccountsPoints
      <4> QED BY <4>2, <4>3, FailSteps
    <3> QED BY <2>8, <3>1, <3>2 DEF PurgeStaleRefreshTokens
  <2> QED BY <2>1, <2>2, <2>3, <2>4, <2>5, <2>6, <2>7, <2>8 DEF AccountsStep
<1> QED BY <1>1, <1>2, <1>3 DEF AccountsNext

\* of notifications and webhooks,
LEMMA DeliveriesSteps ==
    ASSUME ReqOK, DeliveriesNext
    PROVE  Steps(DeliveriesPoints)
<1>1. CASE Subscribe
  BY <1>1 DEF Subscribe, control, Steps, InScope, ReqOK, IsEntry
<1>2. ASSUME NEW w \in Workers,
             \/ \E t \in Topics : NotifyUser(w, t)
             \/ \E e \in Events : DispatchWebhook(w, e)
             \/ \E i \in DOMAIN log : ResendDelivery(w, i)
             \/ \E j \in queue : TakeJob(w, j) \/ RemoveScheduled(w, j)
             \/ ReplayDeliveries(w)
      PROVE  Steps(DeliveriesPoints)
  <2> DEFINE Taken_ == \E op, pc, v, what : CallNoting(w, op, pc, v, what) /\ pc \in DeliveriesPoints
  <2>1. CASE \E t \in Topics : NotifyUser(w, t)
    <3>1. Taken_
      BY <2>1 DEF NotifyUser, Call, DeliveriesPoints
    <3> QED BY <3>1, CallSteps
  <2>2. CASE \E e \in Events : DispatchWebhook(w, e)
    <3>1. Taken_
      BY <2>2 DEF DispatchWebhook, Call, DeliveriesPoints
    <3> QED BY <3>1, CallSteps
  <2>3. CASE \E i \in DOMAIN log : ResendDelivery(w, i)
    <3>1. Taken_
      BY <2>3 DEF ResendDelivery, Call, DeliveriesPoints
    <3> QED BY <3>1, CallSteps
  <2>4. CASE \E j \in queue : TakeJob(w, j) \/ RemoveScheduled(w, j)
    <3>1. Taken_
      BY <2>4 DEF TakeJob, RemoveScheduled, Call, DeliveriesPoints
    <3> QED BY <3>1, CallSteps
  <2>5. CASE ReplayDeliveries(w)
    <3>1. Taken_
      BY <2>5 DEF ReplayDeliveries, Call, DeliveriesPoints
    <3> QED BY <3>1, CallSteps
  <2> QED BY <1>2, <2>1, <2>2, <2>3, <2>4, <2>5
<1>3. ASSUME NEW w \in Workers, CreateNote(w) PROVE Steps(DeliveriesPoints)
  <2>1. PICK v : GotoWith(w, "note", "mail", v)
    BY <1>3 DEF CreateNote
  <2> QED BY <2>1, GotoWithSteps DEF DeliveriesPoints
<1>4. ASSUME NEW w \in Workers, MailNote(w) \/ OpenBatch(w) \/ SendAgain(w) PROVE Steps(DeliveriesPoints)
  <2>1. PICK from, to : Goto(w, from, to) /\ from # "idle" /\ {from, to} \subseteq DeliveriesPoints
    BY <1>4 DEF MailNote, OpenBatch, SendAgain, DeliveriesPoints
  <2> QED BY <2>1, GotoSteps
<1>5. ASSUME NEW w \in Workers, FindBatch(w) PROVE Steps(DeliveriesPoints)
  <2>1. Goto(w, "findBatch", "openBatch") \/ \E v : GotoWith(w, "findBatch", "countBatch", v)
    BY <1>5 DEF FindBatch
  <2> QED BY <2>1, GotoSteps, GotoWithSteps DEF DeliveriesPoints
<1>6. ASSUME NEW w \in Workers, CountBatch(w) \/ PostToChat(w) \/ SendWebhook(w) \/ MarkMailed(w) \/ RemoveJob(w)
      PROVE Steps(DeliveriesPoints)
  <2>1. End(w, "countBatch") \/ End(w, "chat") \/ End(w, "enqueue") \/ End(w, "mailed") \/ End(w, "remove")
    BY <1>6 DEF CountBatch, PostToChat, SendWebhook, MarkMailed, RemoveJob
  <2> QED BY <2>1, EndSteps DEF DeliveriesPoints
<1>7. ASSUME NEW w \in Workers, MarkResent(w) PROVE Steps(DeliveriesPoints)
  <2>1. End(w, "mark") \/ \E v : GotoWith(w, "mark", "resend", v)
    BY <1>7 DEF MarkResent
  <2> QED BY <2>1, EndSteps, GotoWithSteps DEF DeliveriesPoints
<1>8. ASSUME NEW w \in Workers, RecordDelivery(w) PROVE Steps(DeliveriesPoints)
  <2>1. "log" \in DeliveriesPoints /\ (End(w, "log") \/ \E kind : FailTo(w, "log", kind, Idle))
    BY <1>8 DEF RecordDelivery, DeliveriesPoints
  <2> QED BY <2>1, EndSteps, FailSteps, IdleEntry
<1>9. ASSUME NEW w \in Workers, PostMessage(w) PROVE Steps(DeliveriesPoints)
  <2>1. PICK r : /\ Become(w, "post", r) \/ FailTo(w, "post", "rpc", r)
                 /\ \/ r = Idle
                    \/ \E ok \in BOOLEAN : LET j == Local(w).j IN
                         /\ AfterPost(j, ok) # "none" /\ r = [req[w] EXCEPT !.pc = AfterPost(j, ok)]
    BY <1>9 DEF PostMessage
  <2>2. CASE r = Idle
    BY <2>1, <2>2, BecomeSteps, FailSteps, IdleEntry DEF DeliveriesPoints
  <2>3. ASSUME r # Idle PROVE IsEntry(r) /\ r.pc \in DeliveriesPoints /\ r.op = req[w].op
    <3>1. PICK ok, j : /\ ok \in BOOLEAN /\ AfterPost(j, ok) # "none"
                       /\ r = [req[w] EXCEPT !.pc = AfterPost(j, ok)]
      BY <2>1, <2>3
    <3>2. PICK to : to = AfterPost(j, ok)
      OBVIOUS
    <3>3. to \in {"mailed", "log"} /\ r = [req[w] EXCEPT !.pc = to]
      BY <3>1, <3>2 DEF AfterPost
    <3>4. IsEntry(r) /\ r.pc = to /\ r.op = req[w].op
      BY <3>3, EntryFields
    <3> QED BY <3>3, <3>4 DEF DeliveriesPoints
  <2>4. CASE r # Idle
    <3>1. "post" \in DeliveriesPoints
      BY DEF DeliveriesPoints
    <3> QED BY <2>1, <2>3, <2>4, <3>1, BecomeSteps, FailSteps
  <2> QED BY <2>2, <2>4
<1> QED BY <1>1, <1>2, <1>3, <1>4, <1>5, <1>6, <1>7, <1>8, <1>9 DEF DeliveriesNext

\* and of the files.
LEMMA FilesSteps ==
    ASSUME ReqOK, FilesNext
    PROVE  Steps(FilesPoints)
<1>1. CASE \E f \in Uploads : ClientPut(f) \/ FailStalled(f)
  BY <1>1 DEF ClientPut, FailStalled, control, Steps, InScope, ReqOK, IsEntry
<1>2. ASSUME NEW w \in Workers, NEW f \in Uploads, UploadFile(w, f) \/ AvatarUploadUrl(w, f) \/ ScanJob(w, f)
      PROVE  Steps(FilesPoints)
  <2>1. PICK op, pc, v : CallNoting(w, op, pc, v, {}) /\ pc \in FilesPoints
    BY <1>2 DEF UploadFile, AvatarUploadUrl, ScanJob, Call, FilesPoints
  <2> QED BY <2>1, CallSteps
<1>3. ASSUME NEW w \in Workers, Review(w) \/ SweepPending(w) \/ Cleanup(w)
      PROVE  Steps(FilesPoints)
  <2>1. PICK op, pc, v, what : CallNoting(w, op, pc, v, what) /\ pc \in FilesPoints
    <3>1. CASE Review(w)
      BY <3>1 DEF Review, Call, FilesPoints
    <3>2. CASE SweepPending(w)
      BY <3>2 DEF SweepPending, FilesPoints
    <3>3. CASE Cleanup(w)
      BY <3>3 DEF Cleanup, Call, FilesPoints
    <3> QED BY <1>3, <3>1, <3>2, <3>3
  <2> QED BY <2>1, CallSteps
<1>4. ASSUME NEW w \in Workers, PutObject(w) \/ LoadPendingTarget(w) \/ GetVerdict(w) \/ MarkInfected(w)
      PROVE  Steps(FilesPoints)
  <2>1. \/ \E from \in {"put", "load", "scan", "infected"}, to \in FilesPoints : Goto(w, from, to)
        \/ End(w, "load")
        \/ \E from \in {"put", "scan"} : \E kind : FailTo(w, from, kind, Idle)
    <3>1. CASE PutObject(w)
      BY <3>1 DEF PutObject, FilesPoints
    <3>2. CASE LoadPendingTarget(w)
      BY <3>2 DEF LoadPendingTarget, FilesPoints
    <3>3. CASE GetVerdict(w)
      BY <3>3 DEF GetVerdict, FilesPoints
    <3>4. CASE MarkInfected(w)
      BY <3>4 DEF MarkInfected, FilesPoints
    <3> QED BY <1>4, <3>1, <3>2, <3>3, <3>4
  <2> QED BY <2>1, GotoSteps, EndSteps, FailSteps, IdleEntry DEF FilesPoints
<1>5. ASSUME NEW w \in Workers, InsertRow(w) \/ EnqueueScan(w) \/ WriteReview(w) \/ MarkClean(w) \/ TellUploader(w) \/ SweptAll(w)
      PROVE  Steps(FilesPoints)
  <2>1. \/ Goto(w, "row", "enqueueScan")
        \/ \E from \in {"row", "enqueueScan", "review", "clean", "tellUploader", "sweep"} : End(w, from)
        \/ \E from \in {"row", "enqueueScan", "tellUploader"} : \E kind : FailTo(w, from, kind, Idle)
    <3>1. CASE InsertRow(w)
      BY <3>1 DEF InsertRow
    <3>2. CASE EnqueueScan(w)
      BY <3>2 DEF EnqueueScan
    <3>3. CASE WriteReview(w) \/ MarkClean(w) \/ SweptAll(w)
      BY <3>3 DEF WriteReview, MarkClean, SweptAll
    <3>4. CASE TellUploader(w)
      BY <3>4 DEF TellUploader
    <3> QED BY <1>5, <3>1, <3>2, <3>3, <3>4
  <2> QED BY <2>1, GotoSteps, EndSteps, FailSteps, IdleEntry DEF FilesPoints
<1>6. ASSUME NEW w \in Workers, CopyObject(w) \/ RemoveObject(w)
      PROVE  Steps(FilesPoints)
  <2>1. PICK r : r = [req[w] EXCEPT !.pc = "tellUploader"]
    OBVIOUS
  <2>2. IsEntry(r) /\ r.pc \in FilesPoints /\ r.op = req[w].op
    BY <2>1, EntryFields DEF FilesPoints
  <2>3. \/ \E from \in {"copy", "removeMoved"}, to \in {"removeMoved", "tellUploader"} : Goto(w, from, to)
        \/ \E from \in {"copy", "removeMoved"} : FailTo(w, from, "rpc", r)
    BY <1>6, <2>1 DEF CopyObject, RemoveObject
  <2> QED BY <2>2, <2>3, GotoSteps, FailSteps DEF FilesPoints
<1>7. ASSUME NEW w \in Workers, SweepOne(w) \/ ListObjects(w) \/ ReadReferences(w) \/ DeleteOrphan(w) \/ NextPrefix(w)
      PROVE  Steps(FilesPoints)
  <2>1. \/ \E from \in {"sweep", "list", "refs", "delete"}, to \in {"sweep", "list", "refs", "delete"} : \E v : GotoWith(w, from, to, v)
        \/ End(w, "delete")
        \/ \E from \in {"sweep", "delete"} : FailTo(w, from, "rpc", Idle)
    <3>1. CASE SweepOne(w)
      BY <3>1 DEF SweepOne
    <3>2. CASE ListObjects(w) \/ ReadReferences(w)
      BY <3>2 DEF ListObjects, ReadReferences
    <3>3. CASE DeleteOrphan(w)
      BY <3>3 DEF DeleteOrphan
    <3>4. CASE NextPrefix(w)
      BY <3>4 DEF NextPrefix
    <3> QED BY <1>7, <3>1, <3>2, <3>3, <3>4
  <2> QED BY <2>1, GotoWithSteps, EndSteps, FailSteps, IdleEntry DEF FilesPoints
<1> QED BY <1>1, <1>2, <1>3, <1>4, <1>5, <1>6, <1>7 DEF FilesNext

(***************************************************************************)
(* What every part sees of a step of the others                            *)
(***************************************************************************)

\* No worker comes to a point of L, history only grows, and time passes only
\* while no request is in flight.
Elsewhere(L) ==
    /\ ReqOK'
    /\ \A w \in Workers :
         /\ req'[w] = req[w] \/ req'[w].pc \notin L
         /\ req[w].pc \in L => req'[w] = req[w] \/ {"crash", req[w].pc} \subseteq upset'
    /\ upset \subseteq upset' /\ now' >= now /\ scope' = scope /\ now' \in Nat
    /\ now' = now \/ Quiet

\* What holds of the clock and the workers in every part.
Control ==
    /\ ReqOK /\ now \in Nat \ {0} /\ scope \in Scopes
    /\ "overlap" \notin upset =>
         \A w, x \in Workers : req[w].pc # "idle" /\ req[x].pc # "idle" => w = x

\* A crash leaves the worker idle, and is noted with the point it struck.
LEMMA CrashSteps ==
    ASSUME ReqOK, NEW w \in Workers, Crash(w)
    PROVE  Steps({}) /\ req'[w] = Idle /\ req[w].pc \in upset' /\ "crash" \in upset'
<1>1. req' = [req EXCEPT ![w] = Idle] /\ upset' = upset \cup {"crash", req[w].pc} /\ now' = now
      /\ scope' = scope /\ req[w].pc # "idle" /\ faults' = faults + 1
  BY DEF Crash, At
<1>2. req'[w] = Idle /\ \A x \in Workers \ {w} : req'[x] = req[x]
  BY <1>1 DEF ReqOK
<1>3. ReqOK'
  BY <1>1, <1>2, IdleEntry DEF ReqOK
<1>4. InScope => InScope'
  BY <1>1, <1>2, IdleEntry, HandlersAssumption DEF Crash, MayFail, InScope
<1> QED BY <1>1, <1>2, <1>3, <1>4, IdleEntry DEF Steps

\* A step among the points of one part comes to none of another's.
LEMMA StepsElsewhere ==
    ASSUME Control, NEW L, NEW M, Steps(M), L \cap (M \cup {"idle"}) = {}
    PROVE  Elsewhere(L)
  BY DEF Steps, Elsewhere, Control

\* Time passes while no handler runs.
LEMMA LaterElsewhere ==
    ASSUME Control, NEW L, NEW t \in scope.times, Later(t)
    PROVE  Elsewhere(L) /\ Quiet /\ req' = req /\ now' > now
<1>1. t \in Nat
  BY HandlersAssumption DEF Control
<1> QED BY <1>1 DEF Later, Elsewhere, Control, ReqOK, IsEntry

\* The parts one by one: a step is of the part, or elsewhere.
LEMMA NextSteps ==
    ASSUME Control, Next
    PROVE  \/ AccountsNext /\ Steps(AccountsPoints)
              /\ UNCHANGED <<companyVars, ledger, idempotencyVars, deliveryVars, slaVars, fileVars, sponsorVars>>
           \/ CompaniesNext /\ Steps(CompaniesPoints)
              /\ UNCHANGED <<accountVars, ledger, idempotencyVars, deliveryVars, slaVars, fileVars, sponsorVars>>
           \/ CreditNext /\ Steps(CreditPoints)
              /\ UNCHANGED <<accountVars, companyVars, idempotencyVars, deliveryVars, slaVars, fileVars, sponsorVars>>
           \/ IdempotencyNext /\ Steps(IdempotencyPoints)
              /\ UNCHANGED <<accountVars, companyVars, ledger, deliveryVars, slaVars, fileVars, sponsorVars>>
           \/ DeliveriesNext /\ Steps(DeliveriesPoints)
              /\ UNCHANGED <<accountVars, companyVars, ledger, idempotencyVars, slaVars, fileVars, sponsorVars>>
           \/ DisputeSlaNext /\ Steps(SlaPoints)
              /\ UNCHANGED <<accountVars, companyVars, ledger, idempotencyVars, deliveryVars, fileVars, sponsorVars>>
           \/ FilesNext /\ Steps(FilesPoints)
              /\ UNCHANGED <<accountVars, companyVars, ledger, idempotencyVars, deliveryVars, slaVars, sponsorVars>>
           \/ SponsorshipNext /\ Steps(SponsorPoints)
              /\ UNCHANGED <<accountVars, companyVars, ledger, idempotencyVars, deliveryVars, slaVars, fileVars>>
           \/ /\ (\E w \in Workers : Crash(w)) \/ (\E t \in scope.times : Later(t))
              /\ UNCHANGED <<accountVars, companyVars, ledger, idempotencyVars, deliveryVars, slaVars, fileVars, sponsorVars>>
<1>1. ReqOK
  BY DEF Control
<1> QED BY <1>1, AccountsSteps, CompaniesSteps, CreditSteps, IdempotencySteps, DeliveriesSteps, SlaSteps,
           FilesSteps, SponsorSteps DEF Next

\* Such a step keeps the bookkeeping of the requests.
LEMMA ControlStep ==
    ASSUME Control, NEW L, Steps(L)
    PROVE  Control'
<1>1. ReqOK' /\ now' \in Nat \ {0} /\ scope' \in Scopes
  BY DEF Control, Steps
<1>2. ASSUME "overlap" \notin upset', NEW w \in Workers, NEW x \in Workers, req'[w].pc # "idle", req'[x].pc # "idle"
      PROVE  w = x
  <2>1. \A y, z \in Workers : req[y].pc # "idle" /\ req[z].pc # "idle" => y = z
    BY <1>2 DEF Control, Steps
  <2>2. CASE req' = req
    BY <1>2, <2>1, <2>2
  <2>3. ASSUME NEW a \in Workers, \A y \in Workers \ {a} : req'[y] = req[y],
               req[a].pc # "idle" \/ Quiet
        PROVE  w = x
    BY <1>2, <2>1, <2>3 DEF Quiet, At
  <2> QED BY <1>2, <2>2, <2>3 DEF Steps
<1> QED BY <1>1, <1>2 DEF Control

\* The control of the workers is an invariant.
LEMMA ControlNext ==
    ASSUME Control, [Next]_serviceVars
    PROVE  Control'
<1>1. CASE UNCHANGED serviceVars
  BY <1>1 DEF serviceVars, control, Control, ReqOK, IsEntry
<1>2. CASE \E t \in scope.times : Later(t)
  <2>1. PICK t \in scope.times : Later(t)
    BY <1>2
  <2>2. req' = req /\ upset' = upset /\ scope' = scope /\ now' \in Nat \ {0}
    BY <2>1, HandlersAssumption DEF Later, Control
  <2> QED BY <2>2 DEF Control, ReqOK, IsEntry
<1>3. CASE \E w \in Workers : Crash(w)
  BY <1>3, CrashSteps, ControlStep DEF Control
<1>4. CASE \E L : Steps(L)
  BY <1>4, ControlStep
<1>5. CASE Next
  BY <1>2, <1>3, <1>4, <1>5, NextSteps
<1> QED BY <1>1, <1>5

\* At the start no request is under way.
LEMMA ControlStart == ASSUME Init PROVE Control
<1>1. scope \in Scopes /\ now = 1 /\ req = [w \in Workers |-> Idle]
  BY DEF Init, ControlInit
<1>2. \A w \in Workers : req[w] = Idle
  BY <1>1
<1> QED BY <1>1, <1>2, IdleEntry DEF Control, ReqOK

\* A step of the others leaves the workers of this part alone.
LEMMA ElsewhereSame ==
    ASSUME UNCHANGED serviceVars, Control, NEW L
    PROVE  Elsewhere(L)
  BY DEF serviceVars, control, Elsewhere, Control, ReqOK, IsEntry

(***************************************************************************)
(* The credit ledger                                                       *)
(***************************************************************************)

\* A step of the credit ledger, or one elsewhere.
LEMMA CreditMoves ==
    ASSUME Control, [Next]_serviceVars
    PROVE  CreditNext \/ (Elsewhere(CreditPoints) /\ ledger' = ledger)
<1>1. CASE UNCHANGED serviceVars
  BY <1>1, ElsewhereSame DEF serviceVars
<1>2. CASE \E t \in scope.times : Later(t) /\ ledger' = ledger
  BY <1>2, LaterElsewhere
<1>3. ASSUME NEW M, M \in {AccountsPoints, CompaniesPoints, IdempotencyPoints, DeliveriesPoints, SlaPoints,
                          FilesPoints, SponsorPoints, {}}, Steps(M)
      PROVE  Elsewhere(CreditPoints)
  <2>1. CreditPoints \cap (M \cup {"idle"}) = {}
    BY <1>3 DEF CreditPoints, AccountsPoints, CompaniesPoints, IdempotencyPoints, DeliveriesPoints, SlaPoints,
                FilesPoints, SponsorPoints
  <2> QED BY <1>3, <2>1, StepsElsewhere
<1>4. CASE (\E w \in Workers : Crash(w)) /\ ledger' = ledger
  BY <1>3, <1>4, CrashSteps DEF Control
<1> QED BY <1>1, <1>2, <1>3, <1>4, NextSteps

\* The balance after the first k rows.
Balance(rows, k) == IF k = 0 THEN 0 ELSE rows[k].balanceAfter
Amounts == EntryAmounts \cup Charges

\* A ledger numbers its rows, never goes below zero and has each key once.
BookOK(rows) ==
    /\ rows \in Seq(Row)
    /\ \A i \in 1..Len(rows) : rows[i].sequence = i /\ rows[i].balanceAfter >= 0
    /\ \A i, j \in 1..Len(rows) : i # j /\ rows[i].key # 0 => rows[j].key # rows[i].key

\* The row an append is about to insert was computed from one of the ledger's.
Fits(row, rows) ==
    /\ row \in Row /\ row.amount \in Amounts /\ row.amount # 0 /\ row.balanceAfter >= 0
    /\ \E k \in 0..Len(rows) : row.sequence = k + 1 /\ row.balanceAfter = Balance(rows, k) + row.amount

IsAppend(v) == v = [c |-> v.c, amount |-> v.amount, key |-> v.key, attempt |-> v.attempt, row |-> v.row]

CreditHand(w) ==
    req[w].pc \in CreditPoints =>
        /\ IsAppend(req[w].v) /\ req[w].v.c \in Payers /\ req[w].v.key \in EntryKeys \cup {0}
        /\ \/ req[w].op = "entry" /\ req[w].v.amount \in EntryAmounts
           \/ req[w].op = "fee" /\ req[w].v.amount \in Fees
        /\ req[w].pc = "append" => Fits(req[w].v.row, ledger[req[w].v.c])

CreditInv ==
    /\ ledger = [c \in Payers |-> ledger[c]]
    /\ \A c \in Payers : BookOK(ledger[c])
    /\ \A w \in Workers : CreditHand(w)

\* The latest row is the last, and its balance that of the whole ledger.
LEMMA LatestRow ==
    ASSUME NEW rows, BookOK(rows)
    PROVE  /\ Latest(rows).sequence = Len(rows) /\ Latest(rows).balanceAfter = Balance(rows, Len(rows))
           /\ Balance(rows, Len(rows)) \in Nat /\ Len(rows) \in Nat
<1>1. rows \in Seq(Row) /\ Len(rows) \in Nat
  BY DEF BookOK
<1>2. CASE rows = <<>>
  BY <1>2 DEF Latest, Balance
<1>3. CASE rows # <<>>
  <2>1. Len(rows) \in 1..Len(rows) /\ Len(rows) # 0
    BY <1>1, <1>3
  <2>2. PICK n \in Nat : n = Len(rows)
    BY <1>1
  <2>3. rows[n] \in Range(rows) /\ \A x \in Range(rows) : x.sequence <= rows[n].sequence
    BY <1>1, <2>1, <2>2 DEF BookOK, Range
  <2>4. ASSUME NEW r \in Range(rows), \A x \in Range(rows) : x.sequence <= r.sequence
        PROVE  r = rows[n]
    <3>1. PICK i \in 1..Len(rows) : r = rows[i]
      BY <1>1 DEF Range
    <3>2. rows[n].sequence <= r.sequence
      BY <2>3, <2>4
    <3>3. n <= i
      BY <1>1, <2>1, <2>2, <3>1, <3>2 DEF BookOK
    <3> QED BY <2>2, <3>1, <3>3
  <2>5. Latest(rows) = rows[n]
    BY <1>3, <2>3, <2>4 DEF Latest
  <2>6. rows[n] \in Row
    BY <1>1, <2>1, <2>2
  <2>7. rows[n].balanceAfter \in Int
    BY <2>6 DEF Row
  <2> QED BY <2>1, <2>2, <2>5, <2>7 DEF BookOK, Balance
<1> QED BY <1>2, <1>3

\* The lesser of two numbers.
LEMMA LesserOf == \A a, b \in Int : Min({a, b}) = IF a <= b THEN a ELSE b
<1>1. SUFFICES ASSUME NEW a \in Int, NEW b \in Int PROVE Min({a, b}) = IF a <= b THEN a ELSE b
  OBVIOUS
<1>2. PICK m \in Int : m = IF a <= b THEN a ELSE b
  OBVIOUS
<1>3. m \in {a, b} /\ \A x \in {a, b} : m <= x
  BY <1>2
<1>4. \A y \in {a, b} : (\A x \in {a, b} : y <= x) => y = m
  BY <1>2
<1>5. Min({a, b}) = m
  BY <1>3, <1>4 DEF Min
<1> QED BY <1>2, <1>5

\* What append and applyToFee compute never takes the balance below zero.
LEMMA ComputedFits ==
    ASSUME NEW op, NEW amount, NEW balance \in Nat,
           (op = "entry" /\ amount \in EntryAmounts) \/ (op = "fee" /\ amount \in Fees),
           Computed(op, amount, balance) # 0
    PROVE  Computed(op, amount, balance) \in Amounts \cap Int /\ balance + Computed(op, amount, balance) >= 0
<1>1. CASE op = "fee"
  <2>1. amount \in Fees /\ amount \in Nat \ {0}
    BY <1>1, CreditLedgerAssumption
  <2>2. Min({amount, balance}) = IF amount <= balance THEN amount ELSE balance
    BY <2>1, LesserOf
  <2>3. PICK m \in Nat : m = Min({amount, balance}) /\ m <= amount /\ m <= balance
    BY <2>1, <2>2
  <2>4. Computed(op, amount, balance) = -m
    BY <1>1, <2>3 DEF Computed
  <2>5. -m \in (-amount)..(-1)
    BY <2>1, <2>3, <2>4
  <2>6. -m \in Charges
    BY <2>1, <2>5 DEF Charges
  <2> QED BY <2>3, <2>4, <2>6 DEF Amounts
<1>2. CASE op = "entry"
  <2>1. amount \in EntryAmounts /\ amount \in Int \ {0}
    BY <1>2, CreditLedgerAssumption
  <2> QED BY <1>2, <2>1 DEF Computed, Amounts
<1> QED BY <1>1, <1>2

\* A longer ledger keeps the rows an append was computed from.
LEMMA FitsLonger ==
    ASSUME NEW rows, BookOK(rows), NEW new \in Row, NEW row, Fits(row, rows)
    PROVE  Fits(row, Append(rows, new))
<1>1. rows \in Seq(Row) /\ Len(rows) \in Nat
  BY DEF BookOK
<1>2. PICK k \in 0..Len(rows) : row.sequence = k + 1 /\ row.balanceAfter = Balance(rows, k) + row.amount
  BY DEF Fits
<1>3. PICK longer : longer = Append(rows, new)
  OBVIOUS
<1>4. Len(longer) = Len(rows) + 1 /\ \A i \in 1..Len(rows) : longer[i] = rows[i]
  BY <1>1, <1>3
<1>5. k \in 0..Len(longer) /\ Balance(longer, k) = Balance(rows, k)
  BY <1>1, <1>2, <1>4 DEF Balance
<1> QED BY <1>2, <1>3, <1>5 DEF Fits

\* A row that fits and violates no index is the next of the ledger.
LEMMA NextRow ==
    ASSUME NEW rows, BookOK(rows), NEW row, Fits(row, rows), ~UniqueViolation(rows, row)
    PROVE  /\ BookOK(Append(rows, row))
           /\ row \in Row /\ row.amount \in Int /\ row.balanceAfter = Balance(rows, Len(rows)) + row.amount
<1>1. rows \in Seq(Row) /\ Len(rows) \in Nat /\ row \in Row
  BY DEF BookOK, Fits
<1>2. PICK k \in 0..Len(rows) : row.sequence = k + 1 /\ row.balanceAfter = Balance(rows, k) + row.amount
  BY DEF Fits
<1>3. \A i \in 1..Len(rows) : rows[i] \in Range(rows) /\ rows[i].sequence = i
  BY <1>1 DEF Range, BookOK
<1>4. k = Len(rows)
  <2>1. ASSUME k # Len(rows) PROVE FALSE
    <3>1. k + 1 \in 1..Len(rows)
      BY <1>1, <2>1
    <3> QED BY <1>2, <1>3, <3>1 DEF UniqueViolation
  <2> QED BY <2>1
<1>5. PICK longer : longer = Append(rows, row)
  OBVIOUS
<1>6. /\ longer \in Seq(Row) /\ Len(longer) = Len(rows) + 1
      /\ longer[Len(rows) + 1] = row /\ \A i \in 1..Len(rows) : longer[i] = rows[i]
  BY <1>1, <1>5
<1>7. PICK n \in Nat : n = Len(rows)
  BY <1>1
<1>8. \A i \in 1..(n + 1) : longer[i].sequence = i /\ longer[i].balanceAfter >= 0
  <2>1. TAKE i \in 1..(n + 1)
  <2>2. CASE i = n + 1
    BY <1>2, <1>4, <1>6, <1>7, <2>2 DEF Fits
  <2>3. CASE i # n + 1
    <3>1. i \in 1..n
      BY <2>3
    <3> QED BY <1>6, <1>7, <3>1 DEF BookOK
  <2> QED BY <2>2, <2>3
<1>9. \A i, j \in 1..(n + 1) : i # j /\ longer[i].key # 0 => longer[j].key # longer[i].key
  <2>1. SUFFICES ASSUME NEW i \in 1..(n + 1), NEW j \in 1..(n + 1), i # j, longer[i].key # 0,
                        longer[j].key = longer[i].key
                 PROVE  FALSE
    OBVIOUS
  <2>2. ASSUME NEW x \in 1..n, row.key # 0 PROVE rows[x].key # row.key
    BY <1>3, <1>7, <2>2 DEF UniqueViolation
  <2>3. CASE i = n + 1
    <3>1. j \in 1..n
      BY <2>1, <2>3
    <3> QED BY <1>6, <1>7, <2>1, <2>2, <2>3, <3>1
  <2>4. CASE j = n + 1
    <3>1. i \in 1..n
      BY <2>1, <2>4
    <3> QED BY <1>6, <1>7, <2>1, <2>2, <2>4, <3>1
  <2>5. CASE i \in 1..n /\ j \in 1..n
    BY <1>6, <1>7, <2>1, <2>5 DEF BookOK
  <2> QED BY <2>3, <2>4, <2>5
<1>10. BookOK(longer)
  BY <1>6, <1>7, <1>8, <1>9 DEF BookOK
<1>11. row.amount \in Int
  BY <1>1 DEF Row
<1> QED BY <1>1, <1>2, <1>4, <1>5, <1>10, <1>11

\* What one step of the credit part does: take up an append, read, or insert.
CreditTaken(w) ==
    /\ req'[w].pc = "read" /\ IsAppend(req'[w].v) /\ req'[w].v.c \in Payers /\ req'[w].v.key \in EntryKeys \cup {0}
    /\ \/ req'[w].op = "entry" /\ req'[w].v.amount \in EntryAmounts
       \/ req'[w].op = "fee" /\ req'[w].v.amount \in Fees
    /\ ledger' = ledger
CreditEnded(w) == req'[w].pc = "idle" /\ ledger' = ledger
CreditRead(w) ==
    /\ req[w].pc = "read" /\ req'[w].pc = "append" /\ req'[w].op = req[w].op
    /\ LET v == req[w].v
           last == Latest(ledger[v.c])
           amount == Computed(req[w].op, v.amount, last.balanceAfter)
       IN  amount # 0 /\ req'[w].v = [v EXCEPT !.row = [sequence |-> last.sequence + 1, amount |-> amount,
                                      balanceAfter |-> last.balanceAfter + amount, key |-> v.key]]
    /\ ledger' = ledger
CreditAgain(w) ==
    /\ req[w].pc = "append" /\ req'[w].pc = "read" /\ req'[w].op = req[w].op
    /\ req'[w].v = [req[w].v EXCEPT !.attempt = @ + 1]
    /\ ledger' = ledger
CreditInserted(w) ==
    /\ req[w].pc = "append" /\ req'[w].pc = "idle"
    /\ ~UniqueViolation(ledger[req[w].v.c], req[w].v.row)
    /\ ledger' = [ledger EXCEPT ![req[w].v.c] = Append(@, req[w].v.row)]

\* A step of the ledger takes up an entry, reads, tries again, inserts or ends.
LEMMA CreditKinds ==
    ASSUME ReqOK, CreditNext
    PROVE  \E w \in Workers :
             /\ \A x \in Workers \ {w} : req'[x] = req[x]
             /\ CreditTaken(w) \/ CreditEnded(w) \/ CreditRead(w) \/ CreditAgain(w) \/ CreditInserted(w)
<1>1. PICK w \in Workers :
      \/ \E c \in Payers :
           \/ \E amount \in EntryAmounts, k \in EntryKeys \cup {0} : AppendEntry(w, c, amount, k)
           \/ \E fee \in Fees, ref \in EntryKeys : ApplyToFee(w, c, fee, ref)
      \/ ReadLedger(w) \/ InsertEntry(w)
  BY DEF CreditNext
<1> DEFINE Others == \A x \in Workers \ {w} : req'[x] = req[x]
<1>a. \A r : Others \/ ~(req' = [req EXCEPT ![w] = r])
  BY DEF ReqOK
<1>2. ASSUME NEW c \in Payers, NEW op, NEW amount, NEW key, StartAppend(w, op, c, amount, key),
             key \in EntryKeys \cup {0}, (op = "entry" /\ amount \in EntryAmounts) \/ (op = "fee" /\ amount \in Fees)
      PROVE  Others /\ CreditTaken(w)
  <2>1. PICK v : v = [c |-> c, amount |-> amount, key |-> key, attempt |-> 1, row |-> <<>>]
    OBVIOUS
  <2>2. CallNoting(w, op, "read", v, {}) /\ ledger' = ledger
    BY <1>2, <2>1 DEF StartAppend, Call
  <2>3. Steps(CreditPoints) /\ req'[w] = [pc |-> "read", op |-> op, v |-> v]
    BY <2>2, CallSteps DEF CreditPoints
  <2>4. Others
    BY <1>a, <2>2 DEF CallNoting
  <2>5. IsAppend(v) /\ v.c = c /\ v.amount = amount /\ v.key = key
    BY <2>1 DEF IsAppend
  <2>6. req'[w].pc = "read" /\ req'[w].op = op /\ req'[w].v = v
    BY <2>3
  <2> QED BY <1>2, <2>2, <2>4, <2>5, <2>6 DEF CreditTaken
<1>3. CASE ReadLedger(w)
  <2>1. CASE End(w, "read") /\ ledger' = ledger
    BY <1>a, <2>1, EndSteps, IdleEntry DEF CreditEnded, End, Become
  <2>2. ASSUME ~(End(w, "read") /\ ledger' = ledger)
        PROVE  Others /\ CreditRead(w)
    <3>1. PICK v, last, amount, new :
            /\ v = req[w].v /\ last = Latest(ledger[v.c])
            /\ amount = Computed(req[w].op, v.amount, last.balanceAfter) /\ amount # 0
            /\ new = [v EXCEPT !.row = [sequence |-> last.sequence + 1, amount |-> amount,
                          balanceAfter |-> last.balanceAfter + amount, key |-> v.key]]
            /\ GotoWith(w, "read", "append", new) /\ ledger' = ledger
      BY <1>3, <2>2 DEF ReadLedger, Local
    <3>2. Steps(CreditPoints) /\ req[w].pc = "read" /\ req'[w].pc = "append" /\ req'[w].op = req[w].op /\ req'[w].v = new
      BY <3>1, GotoWithSteps DEF CreditPoints
    <3>3. Others
      BY <1>a, <3>1 DEF GotoWith, Become
    <3> QED BY <3>1, <3>2, <3>3 DEF CreditRead
  <2> QED BY <2>1, <2>2
<1>4. CASE InsertEntry(w)
  <2>1. CASE End(w, "append") /\ ledger' = ledger
    BY <1>a, <2>1, EndSteps, IdleEntry DEF CreditEnded, End, Become
  <2>2. ASSUME GotoWith(w, "append", "read", [req[w].v EXCEPT !.attempt = @ + 1]), ledger' = ledger
        PROVE  Others /\ CreditAgain(w)
    <3>1. PICK new : new = [req[w].v EXCEPT !.attempt = @ + 1]
      OBVIOUS
    <3>2. Steps(CreditPoints) /\ req[w].pc = "append" /\ req'[w].pc = "read" /\ req'[w].op = req[w].op /\ req'[w].v = new
      BY <2>2, <3>1, GotoWithSteps DEF CreditPoints
    <3>3. Others
      BY <1>a, <2>2 DEF GotoWith, Become
    <3> QED BY <2>2, <3>1, <3>2, <3>3 DEF CreditAgain
  <2>3. ASSUME ~UniqueViolation(ledger[req[w].v.c], req[w].v.row), End(w, "append"),
               ledger' = [ledger EXCEPT ![req[w].v.c] = Append(@, req[w].v.row)]
        PROVE  Others /\ CreditInserted(w)
    BY <1>a, <2>3, EndSteps, IdleEntry DEF CreditInserted, End, Become
  <2> QED BY <1>4, <2>1, <2>2, <2>3 DEF InsertEntry, Local
<1> QED BY <1>1, <1>2, <1>3, <1>4 DEF AppendEntry, ApplyToFee

\* A row computed from the latest one fits the ledger it was read from.
LEMMA CreditReadFits ==
    ASSUME NEW w \in Workers, CreditInv, CreditRead(w)
    PROVE  /\ IsAppend(req'[w].v) /\ req'[w].v.c = req[w].v.c /\ req'[w].v.key = req[w].v.key
           /\ req'[w].v.amount = req[w].v.amount /\ Fits(req'[w].v.row, ledger[req[w].v.c])
<1>a. PICK v : v = req[w].v
  OBVIOUS
<1>b. PICK last : last = Latest(ledger[v.c])
  OBVIOUS
<1>c. PICK amount : amount = Computed(req[w].op, v.amount, last.balanceAfter)
  OBVIOUS
<1>d. PICK row : row = [sequence |-> last.sequence + 1, amount |-> amount,
                        balanceAfter |-> last.balanceAfter + amount, key |-> v.key]
  OBVIOUS
<1>e. amount # 0 /\ req'[w].v = [v EXCEPT !.row = row]
  BY <1>a, <1>b, <1>c, <1>d DEF CreditRead
<1>1. /\ v = req[w].v /\ last = Latest(ledger[v.c])
      /\ amount = Computed(req[w].op, v.amount, last.balanceAfter) /\ amount # 0
      /\ row = [sequence |-> last.sequence + 1, amount |-> amount,
                balanceAfter |-> last.balanceAfter + amount, key |-> v.key]
      /\ req'[w].v = [v EXCEPT !.row = row]
  BY <1>a, <1>b, <1>c, <1>d, <1>e
<1>2. /\ IsAppend(v) /\ v.c \in Payers /\ v.key \in EntryKeys \cup {0}
      /\ \/ req[w].op = "entry" /\ v.amount \in EntryAmounts
         \/ req[w].op = "fee" /\ v.amount \in Fees
  BY <1>1 DEF CreditInv, CreditHand, CreditRead, CreditPoints
<1>3. PICK rows : rows = ledger[v.c]
  OBVIOUS
<1>4. BookOK(rows)
  BY <1>2, <1>3 DEF CreditInv
<1>5. last.sequence = Len(rows) /\ last.balanceAfter = Balance(rows, Len(rows)) /\ last.balanceAfter \in Nat /\ Len(rows) \in Nat
  BY <1>1, <1>3, <1>4, LatestRow
<1>6. amount \in Amounts \cap Int /\ last.balanceAfter + amount >= 0
  BY <1>1, <1>2, <1>5, ComputedFits
<1>7. row.sequence = Len(rows) + 1 /\ row.amount = amount /\ row.balanceAfter = Balance(rows, Len(rows)) + amount
      /\ row.balanceAfter >= 0
  BY <1>1, <1>5, <1>6
<1>8. row \in Row
  BY <1>1, <1>2, <1>5, <1>6, CreditLedgerAssumption DEF Row
<1>9. Fits(row, rows)
  BY <1>1, <1>5, <1>6, <1>7, <1>8 DEF Fits
<1>10. PICK u : u = req'[w].v
  OBVIOUS
<1>11. IsAppend(u) /\ u.c = v.c /\ u.key = v.key /\ u.amount = v.amount /\ u.row = row
  BY <1>1, <1>2, <1>10 DEF IsAppend
<1> QED BY <1>1, <1>3, <1>9, <1>10, <1>11

\* An insert appends the row in hand to one ledger.
LEMMA CreditInsertOne ==
    ASSUME NEW w \in Workers, CreditInv, CreditInserted(w)
    PROVE  \E c \in Payers : \E row :
             /\ row = req[w].v.row /\ c = req[w].v.c
             /\ ledger' = [ledger EXCEPT ![c] = Append(@, row)]
             /\ \A d \in Payers : ledger'[d] = IF d = c THEN Append(ledger[c], row) ELSE ledger[d]
             /\ Fits(row, ledger[c]) /\ BookOK(ledger[c]) /\ ~UniqueViolation(ledger[c], row)
             /\ ledger' = [d \in Payers |-> ledger'[d]]
<1>1. PICK c, row : row = req[w].v.row /\ c = req[w].v.c
  OBVIOUS
<1>2. c \in Payers /\ Fits(row, ledger[c])
  BY <1>1 DEF CreditInv, CreditHand, CreditInserted, CreditPoints
<1>3. BookOK(ledger[c]) /\ ledger = [d \in Payers |-> ledger[d]]
  BY <1>2 DEF CreditInv
<1>4. ledger' = [ledger EXCEPT ![c] = Append(@, row)] /\ ~UniqueViolation(ledger[c], row)
  BY <1>1 DEF CreditInserted
<1>5. ledger' = [d \in Payers |-> IF d = c THEN Append(ledger[c], row) ELSE ledger[d]]
  BY <1>2, <1>3, <1>4
<1> QED BY <1>1, <1>2, <1>3, <1>4, <1>5

\* A step of the ledger keeps its invariant.
LEMMA CreditStep ==
    ASSUME Control, CreditInv, CreditNext
    PROVE  CreditInv'
<1>1. ReqOK
  BY DEF Control
<1>2. PICK w \in Workers :
        /\ \A x \in Workers \ {w} : req'[x] = req[x]
        /\ CreditTaken(w) \/ CreditEnded(w) \/ CreditRead(w) \/ CreditAgain(w) \/ CreditInserted(w)
  BY <1>1, CreditKinds
<1>3. CASE ledger' = ledger
  <2>1. ASSUME NEW x \in Workers, x # w PROVE CreditHand(x)'
    BY <1>2, <1>3, <2>1 DEF CreditInv, CreditHand
  <2>2. CreditHand(w)'
    <3>1. CASE CreditTaken(w)
      BY <3>1 DEF CreditTaken, CreditHand
    <3>2. CASE CreditEnded(w)
      BY <3>2 DEF CreditEnded, CreditHand, CreditPoints
    <3>3. CASE CreditRead(w)
      <4>1. CreditHand(w) /\ req[w].pc \in CreditPoints
        BY <3>3 DEF CreditInv, CreditRead, CreditPoints
      <4>2. req'[w].pc = "append" /\ req'[w].op = req[w].op
        BY <3>3 DEF CreditRead
      <4> QED BY <1>3, <3>3, <4>1, <4>2, CreditReadFits DEF CreditHand
    <3>4. CASE CreditAgain(w)
      <4>1. CreditHand(w) /\ req[w].pc \in CreditPoints
        BY <3>4 DEF CreditInv, CreditAgain, CreditPoints
      <4>2. PICK v, u : v = req[w].v /\ u = req'[w].v
        OBVIOUS
      <4>3. IsAppend(v) /\ u = [v EXCEPT !.attempt = @ + 1]
        BY <3>4, <4>1, <4>2 DEF CreditHand, CreditAgain
      <4>4. IsAppend(u) /\ u.c = v.c /\ u.key = v.key /\ u.amount = v.amount
        BY <4>3 DEF IsAppend
      <4>5. req'[w].pc = "read" /\ req'[w].op = req[w].op
        BY <3>4 DEF CreditAgain
      <4> QED BY <4>1, <4>2, <4>4, <4>5 DEF CreditHand
    <3>5. CASE CreditInserted(w)
      BY <3>5 DEF CreditInserted, CreditHand, CreditPoints
    <3> QED BY <1>2, <3>1, <3>2, <3>3, <3>4, <3>5
  <2> QED BY <1>3, <2>1, <2>2 DEF CreditInv
<1>4. CASE CreditInserted(w)
  <2>0. PICK c \in Payers : \E row :
             /\ row = req[w].v.row /\ c = req[w].v.c
             /\ \A d \in Payers : ledger'[d] = IF d = c THEN Append(ledger[c], row) ELSE ledger[d]
             /\ Fits(row, ledger[c]) /\ BookOK(ledger[c]) /\ ~UniqueViolation(ledger[c], row)
             /\ ledger' = [d \in Payers |-> ledger'[d]]
    BY <1>4, CreditInsertOne
  <2>1. PICK row :
             /\ row = req[w].v.row /\ c = req[w].v.c
             /\ \A d \in Payers : ledger'[d] = IF d = c THEN Append(ledger[c], row) ELSE ledger[d]
             /\ Fits(row, ledger[c]) /\ BookOK(ledger[c]) /\ ~UniqueViolation(ledger[c], row)
             /\ ledger' = [d \in Payers |-> ledger'[d]]
    BY <2>0
  <2>2. BookOK(Append(ledger[c], row)) /\ row \in Row
    BY <2>1, NextRow
  <2>3. ASSUME NEW d \in Payers PROVE BookOK(ledger'[d])
    BY <2>1, <2>2 DEF CreditInv
  <2>4. ASSUME NEW x \in Workers PROVE CreditHand(x)'
    <3>1. CASE x = w
      BY <1>4, <3>1 DEF CreditInserted, CreditHand, CreditPoints
    <3>2. CASE x # w
      <4>1. req'[x] = req[x] /\ CreditHand(x)
        BY <1>2, <3>2 DEF CreditInv
      <4>2. ASSUME req[x].pc = "append" PROVE Fits(req[x].v.row, ledger'[req[x].v.c])
        <5>1. PICK e, r : e = req[x].v.c /\ r = req[x].v.row
          OBVIOUS
        <5>2. e \in Payers /\ Fits(r, ledger[e])
          BY <4>1, <4>2, <5>1 DEF CreditHand, CreditPoints
        <5>3. Fits(r, ledger'[e])
          BY <2>1, <2>2, <5>2, FitsLonger
        <5> QED BY <5>1, <5>3
      <4> QED BY <4>1, <4>2 DEF CreditHand
    <3> QED BY <3>1, <3>2
  <2> QED BY <2>1, <2>3, <2>4 DEF CreditInv
<1> QED BY <1>2, <1>3, <1>4 DEF CreditTaken, CreditEnded, CreditRead, CreditAgain

\* So does every other step.
LEMMA CreditNextInv ==
    ASSUME Control, CreditInv, [Next]_serviceVars
    PROVE  CreditInv'
<1>1. CASE Elsewhere(CreditPoints) /\ ledger' = ledger
  BY <1>1 DEF Elsewhere, CreditInv, CreditHand
<1> QED BY <1>1, CreditMoves, CreditStep

\* At the start the ledgers are empty.
LEMMA CreditStart == ASSUME Init PROVE CreditInv
<1>1. ledger = [c \in Payers |-> <<>>] /\ \A w \in Workers : req[w].pc = "idle"
  BY IdleEntry DEF Init, CreditInit, ControlInit
<1>2. BookOK(<<>>)
  BY DEF BookOK
<1> QED BY <1>1, <1>2 DEF CreditInv, CreditHand, CreditPoints

(***************************************************************************)
(* The ledger implements prepaid credit                                    *)
(***************************************************************************)

\* The abstract state of the refinement.
AbsBalance == [c \in Payers |-> Latest(ledger[c]).balanceAfter]
AbsUsed == [c \in Payers |-> {r.key : r \in Range(ledger[c])} \ {0}]

\* An empty ledger is a balance of nought.
LEMMA PrepaidStart == ASSUME Init PROVE Prepaid!PrepaidInit
<1>1. ledger = [c \in Payers |-> <<>>]
  BY DEF Init, CreditInit
<1>2. \A c \in Payers : Latest(ledger[c]).balanceAfter = 0 /\ Range(ledger[c]) = {}
  BY <1>1 DEF Latest, Range
<1> QED BY <1>2 DEF Prepaid!PrepaidInit

\* An insert is the abstract Apply of its amount; every other step is none.
LEMMA InsertApplies ==
    ASSUME CreditInv, NEW w \in Workers, CreditInserted(w)
    PROVE  Prepaid!PrepaidNext
<1>0. PICK c \in Payers : \E row :
             /\ \A d \in Payers : ledger'[d] = IF d = c THEN Append(ledger[c], row) ELSE ledger[d]
             /\ Fits(row, ledger[c]) /\ BookOK(ledger[c]) /\ ~UniqueViolation(ledger[c], row)
  BY CreditInsertOne DEF CreditInv, CreditHand, CreditInserted, CreditPoints
<1>1. PICK row :
             /\ \A d \in Payers : ledger'[d] = IF d = c THEN Append(ledger[c], row) ELSE ledger[d]
             /\ Fits(row, ledger[c]) /\ BookOK(ledger[c]) /\ ~UniqueViolation(ledger[c], row)
  BY <1>0
<1>2. PICK rows, longer : rows = ledger[c] /\ longer = Append(rows, row)
  OBVIOUS
<1>3. /\ BookOK(rows) /\ BookOK(longer) /\ row \in Row /\ row.amount \in Int
      /\ row.balanceAfter = Balance(rows, Len(rows)) + row.amount
  BY <1>1, <1>2, NextRow
<1>4. rows \in Seq(Row) /\ Len(rows) \in Nat /\ Len(longer) = Len(rows) + 1 /\ longer[Len(rows) + 1] = row
      /\ \A i \in 1..Len(rows) : longer[i] = rows[i]
  BY <1>2, <1>3 DEF BookOK
<1>5. Latest(longer).balanceAfter = Latest(rows).balanceAfter + row.amount /\ Latest(longer).balanceAfter \in Nat
      /\ Latest(rows).balanceAfter \in Nat
  BY <1>3, <1>4, LatestRow DEF Balance
<1>6. Range(longer) = Range(rows) \cup {row}
  <2>1. longer \in Seq(Row)
    BY <1>3 DEF BookOK
  <2>2. DOMAIN longer = DOMAIN rows \cup {Len(rows) + 1} /\ DOMAIN rows = 1..Len(rows)
    BY <1>4, <2>1
  <2> QED BY <1>4, <2>2 DEF Range
<1>7. row.amount \in Amounts /\ row.amount # 0
  BY <1>1 DEF Fits
<1>8. row.key \in EntryKeys \cup {0} /\ (row.key # 0 => \A r \in Range(rows) : r.key # row.key)
  BY <1>1, <1>2, <1>3 DEF UniqueViolation, Row
<1>9. AbsBalance' = [AbsBalance EXCEPT ![c] = @ + row.amount]
      /\ row.amount # 0 /\ AbsBalance[c] + row.amount >= 0
  <2>1. \A d \in Payers : AbsBalance'[d] = IF d = c THEN AbsBalance[c] + row.amount ELSE AbsBalance[d]
    BY <1>1, <1>2, <1>3, <1>5 DEF AbsBalance
  <2>2. AbsBalance[c] + row.amount >= 0
    BY <1>2, <1>5 DEF AbsBalance
  <2>3. AbsBalance = [d \in Payers |-> AbsBalance[d]] /\ AbsBalance' = [d \in Payers |-> AbsBalance'[d]]
    BY DEF AbsBalance
  <2> QED BY <1>7, <2>1, <2>2, <2>3
<1>10. AbsUsed' = AbsUsed \/ \E k \in EntryKeys \ AbsUsed[c] : AbsUsed' = [AbsUsed EXCEPT ![c] = @ \cup {k}]
  <2>1. \A d \in Payers : AbsUsed'[d] = IF d = c THEN AbsUsed[c] \cup ({row.key} \ {0}) ELSE AbsUsed[d]
    BY <1>1, <1>2, <1>6 DEF AbsUsed
  <2>2. AbsUsed = [d \in Payers |-> AbsUsed[d]] /\ AbsUsed' = [d \in Payers |-> AbsUsed'[d]]
    BY DEF AbsUsed
  <2>3. CASE row.key = 0
    <3>1. \A d \in Payers : AbsUsed'[d] = AbsUsed[d]
      BY <2>1, <2>3
    <3> QED BY <2>2, <3>1
  <2>4. CASE row.key # 0
    <3>1. row.key \in EntryKeys \ AbsUsed[c]
      BY <1>2, <1>8, <2>4 DEF AbsUsed
    <3>2. \A d \in Payers : AbsUsed'[d] = IF d = c THEN AbsUsed[c] \cup {row.key} ELSE AbsUsed[d]
      BY <2>1, <2>4
    <3>3. AbsUsed' = [AbsUsed EXCEPT ![c] = @ \cup {row.key}]
      BY <2>2, <3>2
    <3> QED BY <3>1, <3>3
  <2> QED BY <2>3, <2>4
<1>11. row.amount \in EntryAmounts \cup Charges
  BY <1>7 DEF Amounts
<1>12. Prepaid!Apply(c, row.amount)
  BY <1>9, <1>10 DEF Prepaid!Apply, AbsBalance, AbsUsed
<1> QED BY <1>11, <1>12 DEF Prepaid!PrepaidNext

\* Every step is one of prepaid credit, or leaves balance and used keys alone.
LEMMA PrepaidStep ==
    ASSUME Control, CreditInv, [Next]_serviceVars
    PROVE  [Prepaid!PrepaidNext]_<<AbsBalance, AbsUsed>>
<1>1. ASSUME ledger' = ledger PROVE UNCHANGED <<AbsBalance, AbsUsed>>
  BY <1>1 DEF AbsBalance, AbsUsed
<1>2. CASE CreditNext
  <2>1. ReqOK
    BY DEF Control
  <2>2. PICK w \in Workers : CreditTaken(w) \/ CreditEnded(w) \/ CreditRead(w) \/ CreditAgain(w) \/ CreditInserted(w)
    BY <1>2, <2>1, CreditKinds
  <2>3. CreditInserted(w) \/ ledger' = ledger
    BY <2>2 DEF CreditTaken, CreditEnded, CreditRead, CreditAgain
  <2> QED BY <1>1, <2>3, InsertApplies
<1> QED BY <1>1, <1>2, CreditMoves

\* However appends and fees race for a sequence number, each row that gets into
\* a company's ledger changes its balance by its own amount, never takes it below
\* zero and applies no key twice (CreditLedgerService.append and applyToFee).
THEOREM LedgerImplements == Spec => ImplementsPrepaidCredit
<1> DEFINE Inv == Control /\ CreditInv
<1>1. Init => Inv /\ Prepaid!PrepaidInit
  BY ControlStart, CreditStart, PrepaidStart
<1>2. Inv /\ [Next]_serviceVars => Inv' /\ [Prepaid!PrepaidNext]_<<AbsBalance, AbsUsed>>
  BY ControlNext, CreditNextInv, PrepaidStep
<1> QED BY <1>1, <1>2, PTL DEF Spec, ImplementsPrepaidCredit, Prepaid!PrepaidSpec, AbsBalance, AbsUsed

=============================================================================
