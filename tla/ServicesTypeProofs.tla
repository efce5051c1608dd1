------------------------ MODULE ServicesTypeProofs ------------------------
(***************************************************************************)
(* Proof of the type invariant of the services.  What a handler writes is  *)
(* in its locals by then, so that the types of its locals are part of what *)
(* is proved, beside the invariants of the parts.  With these types, proof *)
(* of the bound on the fees the platform pays.                             *)
(***************************************************************************)
EXTENDS JobsProofs

(***************************************************************************)
(* Types                                                                   *)
(***************************************************************************)

\* What a step notes is known: a failure of the scope, an overlap, a crash or
\* one of the irregularities.
Known == {"overlap"} \cup scope.faults \cup Points \cup Irregularities
Noted == upset' \subseteq upset \cup Known

\* Going on notes nothing.
LEMMA GoesUnnoted ==
    ASSUME NEW w, \/ \E from, to : Goto(w, from, to)
                  \/ \E from, to, v : GotoWith(w, from, to, v)
                  \/ \E from : End(w, from)
                  \/ \E from, r : Become(w, from, r)
    PROVE  Noted
  BY DEF Goto, GotoWith, End, Become, Noted

\* A failure is noted by its kind, which the scope names.
LEMMA FailureNoted ==
    ASSUME NEW w, NEW from, NEW r, NEW kind, FailTo(w, from, kind, r)
    PROVE  Noted
  BY DEF FailTo, MayFail, Noted, Known

\* A request notes what it finds odd.
LEMMA CallNoted ==
    ASSUME NEW w, NEW op, NEW pc, NEW v, NEW what, what \subseteq Irregularities, CallNoting(w, op, pc, v, what)
    PROVE  Noted
  BY DEF CallNoting, Noted, Known

\* Or nothing but an overlap.
LEMMA PlainCallNoted ==
    ASSUME NEW w, NEW op, NEW pc, NEW v, Call(w, op, pc, v)
    PROVE  Noted
<1>1. PICK what : what = {} /\ CallNoting(w, op, pc, v, what)
  BY DEF Call
<1> QED BY <1>1, CallNoted

\* Part by part, what the handlers note is known.
LEMMA SmallPartsNoted ==
    ASSUME CreditNext \/ IdempotencyNext \/ DisputeSlaNext \/ SponsorshipNext
    PROVE  Noted
<1>1. CASE CreditNext
  BY <1>1, PlainCallNoted, GoesUnnoted DEF CreditNext, AppendEntry, ApplyToFee, StartAppend, ReadLedger, InsertEntry
<1>2. CASE IdempotencyNext
  BY <1>2, PlainCallNoted, GoesUnnoted, FailureNoted
     DEF IdempotencyNext, Post, Handle, StoreAnswer, PurgeKeys, DeleteKeys
<1>3. CASE DisputeSlaNext
  BY <1>3, PlainCallNoted, GoesUnnoted, FailureNoted
     DEF DisputeSlaNext, OpenForMilestone, Decide, OpenAppeal, AutoAssign, WriteArbiter, WriteDecision, WriteAppeal,
         FlagOverdueDisputes, FlagOne, TellAdmins, FlaggedAll, NotifyEvidenceDeadlinesClosing, WarnOne, WarnParties, WarnedAll
<1>4. CASE SponsorshipNext
  BY <1>4, PlainCallNoted, GoesUnnoted, FailureNoted DEF SponsorshipNext, Submit, SubmitFeeBump, RecordFee
<1> QED BY <1>1, <1>2, <1>3, <1>4

\* Companies note owners made or unmade outside a transfer.
LEMMA CompaniesNoted == ASSUME CompaniesNext PROVE Noted
<1>1. ASSUME NEW w \in Workers, NEW o \in Bosses, NEW m \in Bosses,
             RemoveMember(w, o, m) \/ SsoLogin(w, o, m) \/ \E role \in {"MEMBER", "OWNER"} : AddMember(w, o, m, role)
      PROVE  Noted
  <2>1. PICK op, pc, v, what : CallNoting(w, op, pc, v, what) /\ what \subseteq Irregularities
    BY <1>1 DEF RemoveMember, SsoLogin, AddMember, Irregularities
  <2> QED BY <2>1, CallNoted
<1>2. ASSUME NEW w \in Workers,
             \/ \E o, m \in Bosses : InitiateTransfer(w, o, m)
             \/ \E m \in Bosses : AcceptTransfer(w, m) \/ CancelTransfer(w, m)
             \/ SupersedeTransfer(w) \/ CreateTransfer(w) \/ HandOver(w) \/ CancelWrite(w)
             \/ InsertMember(w) \/ DeleteMember(w)
      PROVE  Noted
  BY <1>2, PlainCallNoted, GoesUnnoted
     DEF InitiateTransfer, AcceptTransfer, CancelTransfer, SupersedeTransfer, CreateTransfer, HandOver, CancelWrite,
         InsertMember, DeleteMember
<1> QED BY <1>1, <1>2 DEF CompaniesNext

\* Deliveries note that a subscription was removed.
LEMMA DeliveriesNoted == ASSUME DeliveriesNext PROVE Noted
<1>1. CASE Subscribe
  BY <1>1 DEF Subscribe, control, Noted
<1>2. ASSUME NEW w \in Workers, PostMessage(w) PROVE Noted
  <2>1. \E r : Become(w, "post", r) \/ FailTo(w, "post", "rpc", r)
    BY <1>2 DEF PostMessage
  <2> QED BY <2>1, GoesUnnoted, FailureNoted
<1>3. ASSUME NEW w \in Workers, MarkResent(w) \/ RecordDelivery(w) PROVE Noted
  BY <1>3, GoesUnnoted, FailureNoted DEF MarkResent, RecordDelivery
<1>4. ASSUME NEW w \in Workers, NEW j, RemoveScheduled(w, j) PROVE Noted
  <2>1. \E v : CallNoting(w, "remove", "remove", v, {"removed"})
    BY <1>4 DEF RemoveScheduled
  <2> QED BY <2>1, CallNoted DEF Irregularities
<1>5. ASSUME NEW w \in Workers,
             \/ \E t \in Topics : NotifyUser(w, t)
             \/ \E e \in Events : DispatchWebhook(w, e)
             \/ \E i \in DOMAIN log : ResendDelivery(w, i)
             \/ \E j \in queue : TakeJob(w, j)
             \/ ReplayDeliveries(w)
      PROVE  Noted
  BY <1>5, PlainCallNoted DEF NotifyUser, DispatchWebhook, ResendDelivery, TakeJob, ReplayDeliveries
<1>6. ASSUME NEW w \in Workers,
             \/ CreateNote(w) \/ MailNote(w) \/ FindBatch(w) \/ CountBatch(w) \/ OpenBatch(w) \/ PostToChat(w)
             \/ SendWebhook(w) \/ SendAgain(w) \/ MarkMailed(w) \/ RemoveJob(w)
      PROVE  Noted
  BY <1>6, GoesUnnoted DEF CreateNote, MailNote, FindBatch, CountBatch, OpenBatch, PostToChat, SendWebhook,
                           SendAgain, MarkMailed, RemoveJob
<1> QED BY <1>1, <1>2, <1>3, <1>4, <1>5, <1>6 DEF DeliveriesNext

\* Files note that two sweeps ran.
LEMMA FilesNoted == ASSUME FilesNext PROVE Noted
<1>1. ASSUME NEW f \in Uploads, ClientPut(f) \/ FailStalled(f) PROVE Noted
  BY <1>1 DEF ClientPut, FailStalled, control, Noted
<1>2. ASSUME NEW w \in Workers, SweepPending(w) PROVE Noted
  <2>1. PICK v : CallNoting(w, "sweep", "sweep", v, IF Running("sweep") THEN {"twoSweeps"} ELSE {})
    BY <1>2 DEF SweepPending
  <2> QED BY <2>1, CallNoted DEF Irregularities
<1>3. ASSUME NEW w \in Workers,
             \/ \E f \in Uploads : UploadFile(w, f) \/ AvatarUploadUrl(w, f) \/ ScanJob(w, f)
             \/ PutObject(w) \/ InsertRow(w) \/ EnqueueScan(w) \/ Review(w) \/ WriteReview(w)
      PROVE  Noted
  BY <1>3, PlainCallNoted, GoesUnnoted, FailureNoted
     DEF UploadFile, AvatarUploadUrl, ScanJob, PutObject, InsertRow, EnqueueScan, Review, WriteReview
<1>4. ASSUME NEW w \in Workers,
             \/ LoadPendingTarget(w) \/ GetVerdict(w) \/ MarkClean(w) \/ MarkInfected(w)
             \/ CopyObject(w) \/ RemoveObject(w) \/ TellUploader(w)
      PROVE  Noted
  BY <1>4, GoesUnnoted, FailureNoted
     DEF LoadPendingTarget, GetVerdict, MarkClean, MarkInfected, CopyObject, RemoveObject, TellUploader
<1>5. ASSUME NEW w \in Workers,
             \/ SweepOne(w) \/ SweptAll(w) \/ Cleanup(w) \/ ListObjects(w) \/ ReadReferences(w)
             \/ DeleteOrphan(w) \/ NextPrefix(w)
      PROVE  Noted
  BY <1>5, PlainCallNoted, GoesUnnoted, FailureNoted
     DEF SweepOne, SweptAll, Cleanup, ListObjects, ReadReferences, DeleteOrphan, NextPrefix
<1> QED BY <1>1, <1>2, <1>3, <1>4, <1>5 DEF FilesNext

\* Accounts note requests for an anonymised account.
LEMMA AccountsNoted == ASSUME AccountsNext PROVE Noted
<1>1. ASSUME NEW u \in Users, EngagementMoves(u) PROVE Noted
  BY <1>1 DEF EngagementMoves, control, Noted
<1>2. ASSUME NEW w \in Workers, NEW u, NEW op, NEW pc, NEW v, CallOf(w, u, op, pc, v) PROVE Noted
  <2>1. CallNoting(w, op, pc, v, IF user[u].anon THEN {"late"} ELSE {})
    BY <1>2 DEF CallOf
  <2> QED BY <2>1, CallNoted DEF Irregularities
<1>3. ASSUME NEW w \in Workers, NEW u, NEW op, NEW set, Change(w, u, op, set) PROVE Noted
  BY <1>2, <1>3 DEF Change
<1>4. ASSUME NEW w \in Workers, AccountsTake(w) PROVE Noted
  <2>1. ASSUME NEW u \in Users, NEW e \in Emails,
               Register(w, u, e) \/ LoginWithGoogle(w, u, e) \/ RequestEmailChange(w, u, e) \/ SendInvite(w, u, e)
        PROVE  Noted
    BY <1>2, <1>3, <2>1, PlainCallNoted DEF Register, LoginWithGoogle, RequestEmailChange, SendInvite
  <2>2. ASSUME NEW u \in Users,
               \/ \E p \in {1, 2}, code \in {"none", "wrong", "right"} : Login(w, u, p, code)
               \/ \E i \in DOMAIN invites : AcceptTeamInvite(w, u, i)
               \/ RequestErasure(w, u)
        PROVE  Noted
    BY <1>2, <2>2, PlainCallNoted DEF Login, AcceptTeamInvite, RequestErasure
  <2>3. ASSUME NEW u \in Users,
               \/ ResetPassword(w, u, 2) \/ ConfirmEmailChange(w, u) \/ SetDeactivated(w, u)
               \/ GenerateTotpSecret(w, u) \/ EnableTotp(w, u) \/ DisableTotp(w, u)
               \/ \E a \in {1, 2} : RebindStellarAddress(w, u, a)
        PROVE  Noted
    BY <1>3, <2>3 DEF ResetPassword, ConfirmEmailChange, SetDeactivated, GenerateTotpSecret, EnableTotp,
                      DisableTotp, RebindStellarAddress
  <2>4. CASE \/ \E n \in DOMAIN tokens : Refresh(w, n) \/ Logout(w, n)
             \/ \E i \in DOMAIN invites : RevokeInvite(w, i)
             \/ \E d \in deletions : ProcessRequest(w, d)
             \/ AnonymizeDueAccounts(w) \/ EnforceRetention(w)
    BY <1>2, <2>4, PlainCallNoted DEF Refresh, Logout, RevokeInvite, ProcessRequest, AnonymizeDueAccounts, EnforceRetention
  <2> QED BY <1>4, <2>1, <2>2, <2>3, <2>4 DEF AccountsTake
<1>5. ASSUME NEW w \in Workers, AccountsStep(w) PROVE Noted
  <2>1. CASE \/ InsertUser(w) \/ FailRead(w) \/ FailWrite(w) \/ ResetFailedAttempts(w) \/ LinkGoogle(w)
             \/ IssueTokenPair(w) \/ RevokeFamily(w) \/ RotateToken(w) \/ RevokeToken(w) \/ UpdateUser(w)
    BY <2>1, GoesUnnoted DEF InsertUser, FailRead, FailWrite, ResetFailedAttempts, LinkGoogle, IssueTokenPair,
                             RevokeFamily, RotateToken, RevokeToken, UpdateUser
  <2>2. CASE \/ ClearInvites(w) \/ InsertInvite(w) \/ JoinTeam(w) \/ DeleteInvite(w) \/ EraseUser(w)
             \/ MarkProcessed(w) \/ NextBatch(w) \/ PurgeStaleRefreshTokens(w) \/ PurgeProcessedDeletionRequests(w)
    BY <2>2, GoesUnnoted, FailureNoted DEF ClearInvites, InsertInvite, JoinTeam, DeleteInvite, EraseUser,
             MarkProcessed, NextBatch, PurgeStaleRefreshTokens, PurgeProcessedDeletionRequests
  <2>3. CASE AnonymizeUser(w)
    <3>1. \E r : Become(w, "batch", r) \/ FailTo(w, "batch", "rpc", r)
      BY <2>3 DEF AnonymizeUser
    <3> QED BY <3>1, GoesUnnoted, FailureNoted
  <2> QED BY <1>5, <2>1, <2>2, <2>3 DEF AccountsStep
<1> QED BY <1>1, <1>4, <1>5 DEF AccountsNext

\* The types of what the parts share.
ControlTypes == ControlOK(Points, Irregularities) /\ InScope

\* Every step keeps the bookkeeping of the requests typed: their program points are
\* those of the parts, their operations those of the scope.
LEMMA ControlTypesNext ==
    ASSUME Control, ControlTypes, [Next]_serviceVars
    PROVE  ControlTypes'
<1>1. ASSUME NEW L, L \subseteq Points, Steps(L), Noted
      PROVE  ControlTypes'
  <2>1. InScope' /\ now' \in Nat /\ scope' = scope /\ upset' \subseteq Known
    BY <1>1 DEF ControlTypes, ControlOK, Control, Steps, Noted, Known
  <2>2. \A w \in Workers : req'[w].pc \in {"idle"} \cup Points
    BY <1>1 DEF ControlTypes, ControlOK, Steps
  <2> QED BY <2>1, <2>2 DEF ControlTypes, ControlOK, InScope, Known
<1>2. ASSUME NEW t \in scope.times, Later(t) PROVE ControlTypes'
  <2>1. t \in Nat
    BY HandlersAssumption DEF Control
  <2> QED BY <1>2, <2>1 DEF Later, ControlTypes, ControlOK, InScope
<1>3. ASSUME NEW w \in Workers, Crash(w) PROVE ControlTypes'
  <2>1. Steps({}) /\ upset' = upset \cup {"crash", req[w].pc} /\ "crash" \in scope.faults /\ req[w].pc # "idle"
    BY <1>3, CrashSteps DEF Control, Crash, MayFail, At
  <2>2. Noted
    BY <2>1 DEF ControlTypes, ControlOK, Noted, Known
  <2> QED BY <1>1, <2>1, <2>2
<1>4. CASE UNCHANGED serviceVars
  BY <1>4 DEF serviceVars, control, ControlTypes, ControlOK, InScope
<1>5. \A L \in {AccountsPoints, CompaniesPoints, CreditPoints, IdempotencyPoints, DeliveriesPoints, SlaPoints,
                FilesPoints, SponsorPoints} : L \subseteq Points
  BY DEF Points
<1> QED BY <1>1, <1>2, <1>3, <1>4, <1>5, NextSteps, SmallPartsNoted, CompaniesNoted, DeliveriesNoted,
           FilesNoted, AccountsNoted

\* At the start no request is under way.
LEMMA ControlTypesStart == ASSUME Init PROVE ControlTypes
<1>1. \A w \in Workers : req[w].pc = "idle" /\ req[w].op = "none"
  BY IdleEntry DEF Init, ControlInit
<1> QED BY <1>1, HandlersAssumption DEF Init, ControlInit, ControlTypes, ControlOK, InScope

\* The files found infected, and the status of the recruiter's documents.
Reviews == {"NONE", "PENDING", "APPROVED", "REJECTED"}
InfectedLocal(w) == req[w].pc \in {"infected", "copy"} => req[w].v.f \in Infected
FileTypes == kyc \in Reviews /\ quarantined \subseteq Infected /\ \A w \in Workers : InfectedLocal(w)

\* A step that comes to neither point of a file found infected.
LEMMA HealthyStep ==
    ASSUME FileTypes, NEW w \in Workers, Mine(w), req'[w].pc \notin {"infected", "copy"},
           quarantined' = quarantined, kyc' \in Reviews
    PROVE  FileTypes'
  BY DEF FileTypes, InfectedLocal, Mine

\* Nor does one that leaves the verdicts alone.
LEMMA HealthySteps ==
    ASSUME Control, FileTypes, NEW w \in Workers,
           \/ \E f \in Uploads : UploadFile(w, f) \/ AvatarUploadUrl(w, f) \/ ScanJob(w, f)
           \/ PutObject(w) \/ InsertRow(w) \/ EnqueueScan(w) \/ Review(w) \/ WriteReview(w)
           \/ LoadPendingTarget(w) \/ MarkClean(w) \/ RemoveObject(w) \/ TellUploader(w)
           \/ SweepPending(w) \/ SweepOne(w) \/ SweptAll(w)
           \/ Cleanup(w) \/ ListObjects(w) \/ ReadReferences(w) \/ DeleteOrphan(w) \/ NextPrefix(w)
    PROVE  FileTypes'
<1> DEFINE Other_ == FilesPoints \ {"infected", "copy"}
<1>1. quarantined' = quarantined /\ kyc' \in Reviews
  BY DEF FileTypes, Reviews, UploadFile, AvatarUploadUrl, ScanJob, PutObject, InsertRow, EnqueueScan, Review, WriteReview,
         LoadPendingTarget, MarkClean, RemoveObject, TellUploader, SweepPending, SweepOne, SweptAll,
         Cleanup, ListObjects, ReadReferences, DeleteOrphan, NextPrefix, fileVars
<1>2. \/ \E op, pc, v, what : CallNoting(w, op, pc, v, what) /\ pc \in Other_
      \/ \E from \in FilesPoints, to \in Other_ : Goto(w, from, to)
      \/ \E from \in FilesPoints, to \in Other_ : \E v : GotoWith(w, from, to, v)
      \/ \E from \in FilesPoints : End(w, from)
      \/ \E from \in FilesPoints : \E kind : FailTo(w, from, kind, Idle)
      \/ FailTo(w, "removeMoved", "rpc", [req[w] EXCEPT !.pc = "tellUploader"])
  <2>1. CASE \E f \in Uploads : UploadFile(w, f) \/ AvatarUploadUrl(w, f) \/ ScanJob(w, f)
    BY <2>1 DEF UploadFile, AvatarUploadUrl, ScanJob, Call, FilesPoints
  <2>2. CASE Review(w) \/ Cleanup(w)
    BY <2>2 DEF Review, Cleanup, Call, FilesPoints
  <2>3. CASE SweepPending(w)
    BY <2>3 DEF SweepPending, FilesPoints
  <2>4. CASE PutObject(w) \/ InsertRow(w) \/ EnqueueScan(w) \/ WriteReview(w) \/ MarkClean(w)
    BY <2>4 DEF PutObject, InsertRow, EnqueueScan, WriteReview, MarkClean, FilesPoints
  <2>5. CASE LoadPendingTarget(w) \/ RemoveObject(w) \/ TellUploader(w)
    BY <2>5 DEF LoadPendingTarget, RemoveObject, TellUploader, FilesPoints
  <2>6. CASE SweepOne(w) \/ SweptAll(w)
    BY <2>6 DEF SweepOne, SweptAll, FilesPoints
  <2>7. CASE ListObjects(w) \/ ReadReferences(w)
    BY <2>7 DEF ListObjects, ReadReferences, FilesPoints
  <2>8. CASE DeleteOrphan(w) \/ NextPrefix(w)
    BY <2>8 DEF DeleteOrphan, NextPrefix, FilesPoints
  <2> HIDE DEF Other_
  <2> QED BY <2>1, <2>2, <2>3, <2>4, <2>5, <2>6, <2>7, <2>8
<1>3. Mine(w) /\ req'[w].pc \in Other_ \cup {"idle"}
  <2>1. "idle" \notin FilesPoints
    BY DEF FilesPoints
  <2>2. CASE \E op, pc, v, what : CallNoting(w, op, pc, v, what) /\ pc \in Other_
    BY <2>2, CallMine
  <2>3. CASE \E from \in FilesPoints, to \in Other_ : Goto(w, from, to)
    BY <2>1, <2>3, GotoMine
  <2>4. CASE \E from \in FilesPoints, to \in Other_ : \E v : GotoWith(w, from, to, v)
    BY <2>1, <2>4, GotoWithMine
  <2>5. CASE \E from \in FilesPoints : End(w, from)
    BY <2>1, <2>5, EndMine
  <2>6. CASE \E from \in FilesPoints : \E kind : FailTo(w, from, kind, Idle)
    BY <2>1, <2>6, FailOwn
  <2>7. CASE FailTo(w, "removeMoved", "rpc", [req[w] EXCEPT !.pc = "tellUploader"])
    <3>1. PICK r : r = [req[w] EXCEPT !.pc = "tellUploader"]
      OBVIOUS
    <3>2. r.pc = "tellUploader" /\ IsEntry(r) /\ FailTo(w, "removeMoved", "rpc", r)
      BY <2>7, <3>1, EntryFields DEF Control
    <3>3. Mine(w) /\ req'[w] = r
      BY <3>2, FailMine
    <3> QED BY <3>2, <3>3 DEF FilesPoints
  <2> HIDE DEF Other_
  <2> QED BY <1>2, <2>2, <2>3, <2>4, <2>5, <2>6, <2>7
<1>4. req'[w].pc \notin {"infected", "copy"}
  BY <1>3
<1> QED BY <1>1, <1>3, <1>4, HealthyStep

\* Only an infected file is quarantined, and a review leaves one of its statuses.
LEMMA FileTypesNext ==
    ASSUME Control, FileTypes, [Next]_serviceVars
    PROVE  FileTypes'
<1>1. CASE Elsewhere(FilesPoints) /\ UNCHANGED fileVars
  <2>1. ASSUME NEW w \in Workers PROVE InfectedLocal(w)'
    <3>1. req'[w] = req[w] \/ req'[w].pc \notin FilesPoints
      BY <1>1 DEF Elsewhere
    <3> QED BY <3>1 DEF FileTypes, InfectedLocal, FilesPoints
  <2> QED BY <1>1, <2>1 DEF fileVars, FileTypes
<1>2. ASSUME NEW f \in Uploads, ClientPut(f) \/ FailStalled(f) PROVE FileTypes'
  BY <1>2 DEF ClientPut, FailStalled, control, FileTypes, InfectedLocal
<1>3. ASSUME NEW w \in Workers, GetVerdict(w) PROVE FileTypes'
  <2>1. PICK f : f = req[w].v.f
    OBVIOUS
  <2>2. quarantined' = quarantined /\ kyc' = kyc
    BY <1>3 DEF GetVerdict
  <2>3. \/ Goto(w, "scan", "infected") /\ f \in Infected
        \/ Goto(w, "scan", "clean")
        \/ FailTo(w, "scan", "rpc", Idle)
    BY <1>3, <2>1 DEF GetVerdict, Local
  <2>4. CASE Goto(w, "scan", "infected") /\ f \in Infected
    <3>1. Mine(w) /\ req'[w].v = req[w].v
      BY <2>4, GotoMine
    <3> QED BY <2>1, <2>2, <2>4, <3>1 DEF FileTypes, InfectedLocal, Mine
  <2>5. CASE Goto(w, "scan", "clean") \/ FailTo(w, "scan", "rpc", Idle)
    <3>1. Mine(w) /\ req'[w].pc \in {"clean", "idle"}
      BY <2>5, GotoMine, FailOwn
    <3> QED BY <2>2, <3>1, HealthyStep DEF FileTypes
  <2> QED BY <2>3, <2>4, <2>5
<1>4. ASSUME NEW w \in Workers, MarkInfected(w) PROVE FileTypes'
  <2>1. Goto(w, "infected", "copy") /\ quarantined' = quarantined /\ kyc' = kyc
    BY <1>4 DEF MarkInfected
  <2>2. Mine(w) /\ req'[w].v = req[w].v /\ req[w].pc = "infected"
    BY <2>1, GotoMine
  <2> QED BY <2>1, <2>2 DEF FileTypes, InfectedLocal, Mine
<1>5. ASSUME NEW w \in Workers, CopyObject(w) PROVE FileTypes'
  <2>1. PICK r : r = [req[w] EXCEPT !.pc = "tellUploader"]
    OBVIOUS
  <2>2. r.pc = "tellUploader" /\ IsEntry(r)
    BY <2>1, EntryFields DEF Control
  <2>3. \/ Goto(w, "copy", "removeMoved") \/ Goto(w, "copy", "tellUploader") \/ FailTo(w, "copy", "rpc", r)
    BY <1>5, <2>1 DEF CopyObject
  <2>4. Mine(w) /\ req'[w].pc \in {"removeMoved", "tellUploader"}
    BY <2>2, <2>3, GotoMine, FailMine
  <2>5. kyc' = kyc /\ quarantined' \subseteq quarantined \cup {req[w].v.f} /\ req[w].pc = "copy"
    BY <1>5 DEF CopyObject, Local, At
  <2> QED BY <2>4, <2>5 DEF FileTypes, InfectedLocal, Mine
<1> QED BY <1>1, <1>2, <1>3, <1>4, <1>5, HealthySteps, FilesMoves DEF FilesNext

\* How often a scan job was handed out is a number.
AttemptsTyped == unfinished \in [Uploads -> Int]

\* It is counted up and down.
LEMMA AttemptsNext ==
    ASSUME Control, AttemptsTyped, [Next]_serviceVars
    PROVE  AttemptsTyped'
<1>1. ASSUME NEW f, NEW n, unfinished' = unfinished \/ unfinished' = [unfinished EXCEPT ![f] = n],
             f \in Uploads => n \in Int
      PROVE  AttemptsTyped'
  BY <1>1 DEF AttemptsTyped
<1>2. ASSUME NEW f, f \in Uploads => unfinished[f] \in Int,
             \/ UNCHANGED unfinished \/ Enqueued(f) \/ JobDone(f) \/ JobFailed(f)
             \/ unfinished' = [unfinished EXCEPT ![f] = @ + 1]
      PROVE  AttemptsTyped'
  <2>1. CASE UNCHANGED unfinished \/ JobDone(f)
    BY <2>1 DEF JobDone, AttemptsTyped
  <2>2. CASE Enqueued(f)
    <3>1. PICK n : n = IF scanJob[f] = 0 THEN 0 ELSE unfinished[f]
      OBVIOUS
    <3>2. unfinished' = [unfinished EXCEPT ![f] = n]
      BY <2>2, <3>1 DEF Enqueued
    <3>3. f \in Uploads => n \in Int
      BY <1>2, <3>1
    <3> QED BY <1>1, <3>2, <3>3
  <2>3. CASE JobFailed(f) \/ unfinished' = [unfinished EXCEPT ![f] = @ + 1]
    <3>1. PICK less, more : less = unfinished[f] - 1 /\ more = unfinished[f] + 1
      OBVIOUS
    <3>2. unfinished' = [unfinished EXCEPT ![f] = less] \/ unfinished' = [unfinished EXCEPT ![f] = more]
      BY <2>3, <3>1 DEF JobFailed
    <3>3. f \in Uploads => less \in Int /\ more \in Int
      BY <1>2, <3>1
    <3> QED BY <1>1, <3>2, <3>3
  <2> QED BY <1>2, <2>1, <2>2, <2>3
<1>3. \A f \in Uploads : unfinished[f] \in Int
  BY DEF AttemptsTyped
<1>4. CASE UNCHANGED fileVars
  BY <1>4 DEF fileVars, AttemptsTyped
<1>5. ASSUME NEW f \in Uploads, ClientPut(f) \/ FailStalled(f) PROVE AttemptsTyped'
  BY <1>2, <1>3, <1>5 DEF ClientPut, FailStalled, scanVars
<1>6. ASSUME NEW w \in Workers,
             \/ \E f \in Uploads : UploadFile(w, f) \/ AvatarUploadUrl(w, f)
             \/ PutObject(w) \/ InsertRow(w) \/ Review(w) \/ WriteReview(w) \/ MarkInfected(w) \/ CopyObject(w)
             \/ RemoveObject(w) \/ SweepPending(w) \/ SweptAll(w)
             \/ Cleanup(w) \/ ListObjects(w) \/ ReadReferences(w) \/ DeleteOrphan(w) \/ NextPrefix(w)
      PROVE  UNCHANGED unfinished
  BY <1>6 DEF UploadFile, AvatarUploadUrl, PutObject, InsertRow, Review, WriteReview, MarkInfected, CopyObject,
              RemoveObject, SweepPending, SweptAll, Cleanup, ListObjects, ReadReferences, DeleteOrphan, NextPrefix,
              fileVars, scanVars
<1>7. ASSUME NEW w \in Workers, NEW f \in Uploads, ScanJob(w, f) PROVE AttemptsTyped'
  BY <1>2, <1>3, <1>7 DEF ScanJob
<1>8. ASSUME NEW w \in Workers,
             \/ EnqueueScan(w) \/ LoadPendingTarget(w) \/ GetVerdict(w) \/ MarkClean(w) \/ TellUploader(w) \/ SweepOne(w)
      PROVE  AttemptsTyped'
  <2>1. \E f : UNCHANGED unfinished \/ Enqueued(f) \/ JobDone(f) \/ JobFailed(f)
    BY <1>8 DEF EnqueueScan, LoadPendingTarget, GetVerdict, MarkClean, TellUploader, SweepOne
  <2> QED BY <1>2, <1>3, <2>1
<1> QED BY <1>2, <1>3, <1>4, <1>5, <1>6, <1>7, <1>8, FilesMoves DEF FilesNext

(***************************************************************************)
(* Sponsored fees                                                          *)
(***************************************************************************)

\* A step of the sponsored fees, or one elsewhere.
LEMMA SponsorMoves ==
    ASSUME Control, [Next]_serviceVars
    PROVE  SponsorshipNext \/ (Elsewhere(SponsorPoints) /\ UNCHANGED sponsorVars)
<1>1. CASE UNCHANGED serviceVars
  BY <1>1, ElsewhereSame DEF serviceVars
<1>2. CASE (\E t \in scope.times : Later(t)) /\ UNCHANGED sponsorVars
  BY <1>2, LaterElsewhere
<1>3. ASSUME NEW M, M \in {AccountsPoints, CompaniesPoints, IdempotencyPoints, DeliveriesPoints, SlaPoints,
                          FilesPoints, CreditPoints, {}}, Steps(M)
      PROVE  Elsewhere(SponsorPoints)
  <2>1. SponsorPoints \cap (M \cup {"idle"}) = {}
    BY <1>3 DEF CreditPoints, AccountsPoints, CompaniesPoints, IdempotencyPoints, DeliveriesPoints, SlaPoints,
                FilesPoints, SponsorPoints
  <2> QED BY <1>3, <2>1, StepsElsewhere
<1>4. CASE (\E w \in Workers : Crash(w)) /\ UNCHANGED sponsorVars
  BY <1>3, <1>4, CrashSteps DEF Control
<1> QED BY <1>1, <1>2, <1>3, <1>4, NextSteps

FeeLocal(w) == req[w].pc = "record" => req[w].v.fee \in FeesCharged
FeeTypes == SponsorshipOK /\ \A w \in Workers : FeeLocal(w)

\* What is recorded of a fee is what a call was charged.
LEMMA FeeTypesNext ==
    ASSUME Control, FeeTypes, [Next]_serviceVars
    PROVE  FeeTypes'
<1>1. CASE Elsewhere(SponsorPoints) /\ UNCHANGED sponsorVars
  <2>1. ASSUME NEW w \in Workers PROVE FeeLocal(w)'
    <3>1. req'[w] = req[w] \/ req'[w].pc \notin SponsorPoints
      BY <1>1 DEF Elsewhere
    <3> QED BY <3>1 DEF FeeTypes, FeeLocal, SponsorPoints
  <2> QED BY <1>1, <2>1 DEF sponsorVars, FeeTypes, SponsorshipOK
<1>2. Day(now) \in Nat
  BY SponsorshipAssumption DEF Control, Day
<1>3. ASSUME NEW fee \in FeesCharged, NEW rows \in Seq(FeeRow), NEW more, more = Append(rows, [day |-> Day(now), fee |-> fee])
      PROVE  more \in Seq(FeeRow)
  <2>1. [day |-> Day(now), fee |-> fee] \in FeeRow
    BY <1>2, SponsorshipAssumption DEF FeeRow
  <2> QED BY <1>3, <2>1
<1>4. ASSUME NEW w \in Workers, Submit(w) PROVE FeeTypes'
  <2>1. PICK v : CallNoting(w, "sponsor", "submit", v, {})
    BY <1>4 DEF Submit, Call
  <2>2. Mine(w) /\ req'[w].pc = "submit"
    BY <2>1, CallMine
  <2> QED BY <1>4, <2>2 DEF Submit, sponsorVars, FeeTypes, SponsorshipOK, FeeLocal, Mine
<1>5. ASSUME NEW w \in Workers, SubmitFeeBump(w) PROVE FeeTypes'
  <2>1. PICK fee \in FeesCharged :
          /\ GotoWith(w, "submit", "record", [fee |-> fee]) \/ FailTo(w, "submit", "timeout", Idle)
          /\ unrecorded' \in {unrecorded, unrecorded + 1} /\ sponsored' = sponsored
          /\ charged' = Append(charged, [day |-> Day(now), fee |-> fee])
    BY <1>5 DEF SubmitFeeBump
  <2>2. PICK v : v = [fee |-> fee]
    OBVIOUS
  <2>3. Mine(w) /\ (req'[w].pc = "idle" \/ (req'[w].pc = "record" /\ req'[w].v = v))
    BY <2>1, <2>2, GotoWithMine, FailOwn
  <2>4. FeeLocal(w)'
    BY <2>2, <2>3 DEF FeeLocal
  <2>5. charged' \in Seq(FeeRow)
    BY <1>3, <2>1 DEF FeeTypes, SponsorshipOK
  <2>6. SponsorshipOK'
    BY <2>1, <2>5 DEF FeeTypes, SponsorshipOK
  <2>7. ASSUME NEW x \in Workers PROVE FeeLocal(x)'
    <3>1. CASE x = w BY <3>1, <2>4
    <3>2. CASE x # w
      <4>1. req'[x] = req[x]
        BY <3>2, <2>3 DEF Mine
      <4> QED BY <4>1 DEF FeeTypes, FeeLocal
    <3> QED BY <3>1, <3>2
  <2> QED BY <2>6, <2>7 DEF FeeTypes
<1>6. ASSUME NEW w \in Workers, RecordFee(w) PROVE FeeTypes'
  <2>1. /\ End(w, "record") \/ FailTo(w, "record", "db", Idle)
        /\ charged' = charged /\ unrecorded' \in {unrecorded, unrecorded + 1}
        /\ sponsored' \in {sponsored, Append(sponsored, [day |-> Day(now), fee |-> req[w].v.fee])}
    BY <1>6 DEF RecordFee, Local
  <2>2. Mine(w) /\ req'[w].pc = "idle" /\ req[w].pc = "record"
    BY <2>1, EndMine, FailOwn
  <2>3. req[w].v.fee \in FeesCharged
    BY <2>2 DEF FeeTypes, FeeLocal
  <2>4. sponsored' \in Seq(FeeRow)
    BY <1>3, <2>1, <2>3 DEF FeeTypes, SponsorshipOK
  <2> QED BY <2>1, <2>2, <2>4 DEF FeeTypes, SponsorshipOK, FeeLocal, Mine
<1> QED BY <1>1, <1>4, <1>5, <1>6, SponsorMoves DEF SponsorshipNext

(***************************************************************************)
(* Notifications and webhooks                                              *)
(***************************************************************************)

\* The rows of the tables and the jobs in the queue.
NoteRow == [topic : Topics, mailed : BOOLEAN]
BatchRow == [topic : Topics, count : Nat \ {0}, exp : Nat]
JobTyped(j) == j \in Job /\ j.tries < MaxTries
DeliveryRows ==
    /\ notes \in Seq(NoteRow) /\ batches \in Seq(BatchRow)
    /\ \A j \in queue : JobTyped(j)
    /\ subscribed \in BOOLEAN /\ sent \subseteq Events
    /\ \A r \in reached : r.kind \in {"mail", "chat", "hook"}

\* The locals: the notification, the delivery or the job that a worker has in hand.
NoteLocal(w) ==
    LET pc == req[w].pc
        v == req[w].v
    IN  /\ pc \in {"note", "mail", "findBatch", "openBatch", "chat"} => v.t \in Topics /\ v.id \in Nat
        /\ pc \in {"mail", "findBatch", "openBatch", "chat"} => v.n \in Nat
        /\ pc = "enqueue" => v.id \in Nat
        /\ pc \in {"resend", "mark"} => v.id \in Nat
        /\ pc = "post" => JobTyped(v.j)

DeliveryTyped == DeliveryRows /\ \A w \in Workers : NoteLocal(w)

\* A row of a table is replaced, if it is there.
LEMMA RowReplaced ==
    ASSUME NEW S, NEW rows \in Seq(S), NEW k, NEW x, k \in DOMAIN rows => x \in S
    PROVE  [rows EXCEPT ![k] = x] \in Seq(S)
<1>1. CASE k \in 1..Len(rows)
  BY <1>1
<1>2. CASE k \notin DOMAIN rows
  <2>1. [rows EXCEPT ![k] = x] = rows
    <3>1. rows = [i \in DOMAIN rows |-> rows[i]]
      OBVIOUS
    <3> QED BY <1>2, <3>1
  <2> QED BY <2>1
<1> QED BY <1>1, <1>2

\* A job enters the queue before its first try.
LEMMA NewJobTyped ==
    ASSUME NEW id \in Nat, NEW k \in Nat, NEW kind \in {"mail", "chat", "hook"}, NEW ref \in Nat \cup Events
    PROVE  JobTyped(NewJob(<<id, k>>, kind, ref))
<1>1. <<id, k>> \in Seq(Nat)
  OBVIOUS
<1>2. PICK i : i = <<id, k>>
  OBVIOUS
<1>3. NewJob(i, kind, ref) \in Job /\ NewJob(i, kind, ref).tries = 0
  BY <1>1, <1>2 DEF NewJob, Job
<1> QED BY <1>2, <1>3, DeliveriesAssumption DEF JobTyped

\* A step of w.
LEMMA DeliveryTypedStep ==
    ASSUME DeliveryTyped, NEW w \in Workers, Mine(w), DeliveryRows', NoteLocal(w)'
    PROVE  DeliveryTyped'
  BY DEF DeliveryTyped, NoteLocal, Mine

\* The steps of the other parts.
LEMMA DeliveryTypedElsewhere ==
    ASSUME DeliveryTyped, Elsewhere(DeliveriesPoints), UNCHANGED deliveryVars
    PROVE  DeliveryTyped'
<1>1. ASSUME NEW w \in Workers PROVE NoteLocal(w)'
  <2>1. req'[w] = req[w] \/ req'[w].pc \notin DeliveriesPoints
    BY DEF Elsewhere
  <2> QED BY <2>1 DEF DeliveryTyped, NoteLocal, DeliveriesPoints
<1>2. DeliveryRows'
  BY DEF deliveryVars, DeliveryTyped, DeliveryRows
<1> QED BY <1>1, <1>2 DEF DeliveryTyped

\* Taking up an operation.
LEMMA DeliveryCallsTyped ==
    ASSUME Control, DeliveryTyped, calls \in Nat, NEW w \in Workers,
           \/ \E t \in Topics : NotifyUser(w, t)
           \/ \E e \in Events : DispatchWebhook(w, e)
           \/ \E i \in DOMAIN log : ResendDelivery(w, i)
           \/ \E j \in queue : RemoveScheduled(w, j)
           \/ ReplayDeliveries(w)
    PROVE  DeliveryTyped'
<1>1. ASSUME NEW op, NEW pc, NEW v, NEW what, CallNoting(w, op, pc, v, what), UNCHANGED deliveryVars,
             \/ pc = "note" /\ v.t \in Topics /\ v.id \in Nat
             \/ pc = "enqueue" /\ v.id \in Nat
             \/ pc = "resend" /\ v.id \in Nat
             \/ pc = "remove"
      PROVE  DeliveryTyped'
  <2>1. Mine(w) /\ req'[w].pc = pc /\ req'[w].v = v
    BY <1>1, CallMine
  <2>2. DeliveryRows'
    BY <1>1 DEF deliveryVars, DeliveryTyped, DeliveryRows
  <2>3. NoteLocal(w)'
    BY <1>1, <2>1 DEF NoteLocal
  <2> QED BY <2>1, <2>2, <2>3, DeliveryTypedStep
<1>2. ASSUME NEW t \in Topics, NotifyUser(w, t) PROVE DeliveryTyped'
  <2>1. PICK v : v = [t |-> t, id |-> calls]
    OBVIOUS
  <2>2. CallNoting(w, "notify", "note", v, {}) /\ UNCHANGED deliveryVars /\ v.t \in Topics /\ v.id \in Nat
    BY <1>2, <2>1 DEF NotifyUser, Call
  <2> QED BY <1>1, <2>2
<1>3. ASSUME NEW e \in Events, DispatchWebhook(w, e) PROVE DeliveryTyped'
  <2>1. PICK v : v = [e |-> e, id |-> calls]
    OBVIOUS
  <2>2. CallNoting(w, "dispatch", "enqueue", v, {}) /\ UNCHANGED deliveryVars /\ v.id \in Nat
    BY <1>3, <2>1 DEF DispatchWebhook, Call
  <2> QED BY <1>1, <2>2
<1>4. ASSUME NEW i, ResendDelivery(w, i) PROVE DeliveryTyped'
  <2>1. PICK v : v = [todo |-> <<i>>, id |-> calls]
    OBVIOUS
  <2>2. CallNoting(w, "resend", "resend", v, {}) /\ UNCHANGED deliveryVars /\ v.id \in Nat
    BY <1>4, <2>1 DEF ResendDelivery, Call
  <2> QED BY <1>1, <2>2
<1>5. CASE ReplayDeliveries(w)
  <2>1. PICK v : v = [todo |-> [i \in DOMAIN log |-> i], id |-> calls]
    OBVIOUS
  <2>2. CallNoting(w, "replay", "resend", v, {}) /\ UNCHANGED deliveryVars /\ v.id \in Nat
    BY <1>5, <2>1 DEF ReplayDeliveries, Call
  <2> QED BY <1>1, <2>2
<1>6. ASSUME NEW j \in queue, RemoveScheduled(w, j) PROVE DeliveryTyped'
  <2>1. PICK v : CallNoting(w, "remove", "remove", v, {"removed"}) /\ UNCHANGED deliveryVars
    BY <1>6 DEF RemoveScheduled
  <2> QED BY <1>1, <2>1
<1> QED BY <1>2, <1>3, <1>4, <1>5, <1>6

\* Taking up a job counts the attempt.
LEMMA TakeJobTyped ==
    ASSUME Control, DeliveryTyped, NEW w \in Workers, NEW j \in queue, TakeJob(w, j)
    PROVE  DeliveryTyped'
<1>1. PICK again : again = [j EXCEPT !.started = @ + 1]
  OBVIOUS
<1>2. PICK v : v = [j |-> again]
  OBVIOUS
<1>3. CallNoting(w, "job", "post", v, {}) /\ v.j = again
  BY <1>1, <1>2 DEF TakeJob, Call
<1>4. Mine(w) /\ req'[w].pc = "post" /\ req'[w].v = v
  BY <1>3, CallMine
<1>5. JobTyped(again)
  <2>1. j \in Job /\ j.tries < MaxTries
    BY DEF DeliveryTyped, DeliveryRows, JobTyped
  <2>2. /\ again = [id |-> j.id, kind |-> j.kind, ref |-> j.ref, tries |-> j.tries, started |-> j.started + 1]
        /\ j.id \in Seq(Nat) /\ j.kind \in {"mail", "chat", "hook"} /\ j.ref \in Nat \cup Events
        /\ j.tries \in Nat /\ j.started \in Nat
    <3>1. j \in [id : Seq(Nat), kind : {"mail", "chat", "hook"}, ref : Nat \cup Events, tries : Nat, started : Nat]
      BY <2>1 DEF Job
    <3>2. /\ j.id \in Seq(Nat) /\ j.kind \in {"mail", "chat", "hook"} /\ j.ref \in Nat \cup Events
          /\ j.tries \in Nat /\ j.started \in Nat
      BY <3>1
    <3>3. again = [id |-> j.id, kind |-> j.kind, ref |-> j.ref, tries |-> j.tries, started |-> j.started + 1]
      BY <1>1, <3>1
    <3> QED BY <3>2, <3>3
  <2>3. again \in Job
    BY <2>2 DEF Job
  <2>4. again.tries = j.tries
    BY <2>2
  <2> QED BY <2>1, <2>3, <2>4 DEF JobTyped
<1>6. DeliveryRows'
  BY <1>1, <1>5 DEF TakeJob, DeliveryTyped, DeliveryRows
<1>7. NoteLocal(w)'
  BY <1>3, <1>4, <1>5 DEF NoteLocal
<1> QED BY <1>4, <1>6, <1>7, DeliveryTypedStep

\* The steps of a notification.
LEMMA NoteStepsTyped ==
    ASSUME Control, DeliveryTyped, NEW w \in Workers,
           CreateNote(w) \/ MailNote(w) \/ FindBatch(w) \/ CountBatch(w) \/ OpenBatch(w) \/ PostToChat(w)
    PROVE  DeliveryTyped'
<1>1. NoteLocal(w) /\ DeliveryRows
  BY DEF DeliveryTyped
<1>2. CASE CreateNote(w)
  <2>1. PICK v : v = [t |-> req[w].v.t, id |-> req[w].v.id, n |-> Len(notes) + 1]
    OBVIOUS
  <2>2. GotoWith(w, "note", "mail", v)
    BY <1>2, <2>1 DEF CreateNote, Local
  <2>3. Mine(w) /\ req'[w].pc = "mail" /\ req'[w].v = v /\ req[w].pc = "note"
    BY <2>2, GotoWithMine
  <2>4. v.t \in Topics /\ v.id \in Nat /\ v.n \in Nat
    BY <1>1, <2>1, <2>3 DEF NoteLocal, DeliveryRows
  <2>5. PICK row : row = [topic |-> v.t, mailed |-> FALSE]
    OBVIOUS
  <2>6. row \in NoteRow
    BY <2>4, <2>5 DEF NoteRow
  <2>7. notes' = Append(notes, row)
    BY <1>2, <2>1, <2>5 DEF CreateNote, Local
  <2>8. notes' \in Seq(NoteRow)
    BY <1>1, <2>6, <2>7 DEF DeliveryRows
  <2>9. DeliveryRows'
    BY <1>1, <1>2, <2>8 DEF CreateNote, DeliveryRows
  <2>10. NoteLocal(w)'
    BY <2>3, <2>4 DEF NoteLocal
  <2> QED BY <2>3, <2>9, <2>10, DeliveryTypedStep
<1>3. CASE MailNote(w)
  <2>1. Mine(w) /\ req'[w].pc = "findBatch" /\ req'[w].v = req[w].v /\ req[w].pc = "mail"
    BY <1>3, GotoMine DEF MailNote
  <2>2. NoteLocal(w)' /\ req[w].v.id \in Nat /\ req[w].v.n \in Nat
    BY <1>1, <2>1 DEF NoteLocal
  <2>3. JobTyped(NewJob(<<req[w].v.id, 1>>, "mail", req[w].v.n))
    BY <2>2, NewJobTyped
  <2>4. DeliveryRows'
    BY <1>1, <1>3, <2>3 DEF MailNote, Enqueue, Local, DeliveryRows
  <2> QED BY <2>1, <2>2, <2>4, DeliveryTypedStep
<1>4. CASE FindBatch(w)
  <2>1. (\E v : GotoWith(w, "findBatch", "countBatch", v)) \/ Goto(w, "findBatch", "openBatch")
    BY <1>4 DEF FindBatch
  <2>2. Mine(w) /\ req[w].pc = "findBatch"
        /\ (req'[w].pc = "countBatch" \/ (req'[w].pc = "openBatch" /\ req'[w].v = req[w].v))
    BY <2>1, GotoMine, GotoWithMine
  <2>3. NoteLocal(w)'
    BY <1>1, <2>2 DEF NoteLocal
  <2>4. DeliveryRows'
    BY <1>1, <1>4 DEF FindBatch, deliveryVars, DeliveryRows
  <2> QED BY <2>2, <2>3, <2>4, DeliveryTypedStep
<1>5. CASE CountBatch(w)
  <2>1. Mine(w) /\ req'[w].pc = "idle"
    BY <1>5, EndMine DEF CountBatch
  <2>2. NoteLocal(w)'
    BY <2>1 DEF NoteLocal
  <2>3. PICK b : b = req[w].v.b
    OBVIOUS
  <2>4. batches' = [batches EXCEPT ![b].count = @ + 1]
    BY <1>5, <2>3 DEF CountBatch, Local
  <2>5. PICK row : row = [batches[b] EXCEPT !.count = @ + 1]
    OBVIOUS
  <2>6. batches' = [batches EXCEPT ![b] = row]
    BY <2>4, <2>5
  <2>7. b \in DOMAIN batches => batches[b] \in BatchRow
    BY <1>1 DEF DeliveryRows
  <2>8. b \in DOMAIN batches => row \in BatchRow
    BY <2>5, <2>7 DEF BatchRow
  <2>9. batches' \in Seq(BatchRow)
    BY <1>1, <2>6, <2>8, RowReplaced DEF DeliveryRows
  <2>10. DeliveryRows'
    BY <1>1, <1>5, <2>9 DEF CountBatch, DeliveryRows
  <2> QED BY <2>1, <2>2, <2>10, DeliveryTypedStep
<1>6. CASE OpenBatch(w)
  <2>1. Mine(w) /\ req'[w].pc = "chat" /\ req'[w].v = req[w].v /\ req[w].pc = "openBatch"
    BY <1>6, GotoMine DEF OpenBatch
  <2>2. NoteLocal(w)' /\ req[w].v.t \in Topics
    BY <1>1, <2>1 DEF NoteLocal
  <2>3. PICK row : row = [topic |-> req[w].v.t, count |-> 1, exp |-> now + BatchTime]
    OBVIOUS
  <2>4. row \in BatchRow
    BY <2>2, <2>3, DeliveriesAssumption DEF BatchRow, Control
  <2>5. batches' = Append(batches, row)
    BY <1>6, <2>3 DEF OpenBatch, Local
  <2>6. batches' \in Seq(BatchRow)
    BY <1>1, <2>4, <2>5 DEF DeliveryRows
  <2>7. DeliveryRows'
    BY <1>1, <1>6, <2>6 DEF OpenBatch, DeliveryRows
  <2> QED BY <2>1, <2>2, <2>7, DeliveryTypedStep
<1>7. CASE PostToChat(w)
  <2>1. Mine(w) /\ req'[w].pc = "idle" /\ req[w].pc = "chat"
    BY <1>7, EndMine DEF PostToChat
  <2>2. NoteLocal(w)' /\ req[w].v.id \in Nat /\ req[w].v.n \in Nat
    BY <1>1, <2>1 DEF NoteLocal
  <2>3. JobTyped(NewJob(<<req[w].v.id, 2>>, "chat", req[w].v.n))
    BY <2>2, NewJobTyped
  <2>4. DeliveryRows'
    BY <1>1, <1>7, <2>3 DEF PostToChat, Enqueue, Local, DeliveryRows
  <2> QED BY <2>1, <2>2, <2>4, DeliveryTypedStep
<1> QED BY <1>2, <1>3, <1>4, <1>5, <1>6, <1>7

\* The steps of a webhook delivery.
LEMMA WebhookStepsTyped ==
    ASSUME Control, DeliveryInv, DeliveryTyped, NEW w \in Workers,
           SendWebhook(w) \/ SendAgain(w) \/ MarkResent(w) \/ RemoveJob(w) \/ RecordDelivery(w) \/ MarkMailed(w)
    PROVE  DeliveryTyped'
<1>1. NoteLocal(w) /\ DeliveryRows /\ DeliveryLocal(w) /\ log \in Seq(LogRow)
  BY DEF DeliveryTyped, DeliveryInv, DeliveryTypes
<1>2. CASE SendWebhook(w)
  <2>1. Mine(w) /\ req'[w].pc = "idle" /\ req[w].pc = "enqueue"
    BY <1>2, EndMine DEF SendWebhook
  <2>2. NoteLocal(w)' /\ req[w].v.id \in Nat /\ req[w].v.e \in Events
    BY <1>1, <2>1 DEF NoteLocal, DeliveryLocal
  <2>3. JobTyped(NewJob(<<req[w].v.id, 0>>, "hook", req[w].v.e))
    BY <2>2, NewJobTyped
  <2>4. DeliveryRows'
    BY <1>1, <1>2, <2>2, <2>3 DEF SendWebhook, Enqueue, Local, DeliveryRows
  <2> QED BY <2>1, <2>2, <2>4, DeliveryTypedStep
<1>3. CASE SendAgain(w)
  <2>1. Mine(w) /\ req'[w].pc = "mark" /\ req'[w].v = req[w].v /\ req[w].pc = "resend"
    BY <1>3, GotoMine DEF SendAgain
  <2>2. PICK v, i : v = req[w].v /\ i = Head(v.todo)
    OBVIOUS
  <2>3. NoteLocal(w)' /\ v.id \in Nat /\ v.todo \in Seq(1..Len(log)) /\ v.todo # <<>>
    BY <1>1, <2>1, <2>2 DEF NoteLocal, DeliveryLocal
  <2>4. i \in 1..Len(log)
    BY <2>2, <2>3
  <2>5. log[i] \in LogRow
    BY <1>1, <2>4
  <2>6. log[i].event \in Events
    BY <2>5 DEF LogRow
  <2>7. JobTyped(NewJob(<<v.id, i>>, "hook", log[i].event))
    <3>1. v.id \in Nat /\ i \in Nat
      BY <2>3, <2>4
    <3>2. log[i].event \in Nat \cup Events
      BY <2>6
    <3> QED BY <3>1, <3>2, NewJobTyped
  <2>8. DeliveryRows'
    BY <1>1, <1>3, <2>2, <2>7 DEF SendAgain, Enqueue, Local, DeliveryRows
  <2> QED BY <2>1, <2>3, <2>8, DeliveryTypedStep
<1>4. CASE MarkResent(w)
  <2>1. PICK v, rest : v = req[w].v /\ rest = Tail(v.todo)
    OBVIOUS
  <2>2. PICK u : u = [v EXCEPT !.todo = rest]
    OBVIOUS
  <2>3. End(w, "mark") \/ GotoWith(w, "mark", "resend", u)
    BY <1>4, <2>1, <2>2 DEF MarkResent, Local
  <2>4. Mine(w) /\ req[w].pc = "mark" /\ (req'[w].pc = "idle" \/ (req'[w].pc = "resend" /\ req'[w].v = u))
    BY <2>3, EndMine, GotoWithMine
  <2>5. v = [todo |-> v.todo, id |-> v.id] /\ v.id \in Nat
    BY <1>1, <2>1, <2>4 DEF NoteLocal, DeliveryLocal
  <2>6. u.id = v.id
    BY <2>2, <2>5
  <2>7. NoteLocal(w)'
    BY <2>4, <2>5, <2>6 DEF NoteLocal
  <2>8. DeliveryRows'
    BY <1>1, <1>4 DEF MarkResent, DeliveryRows
  <2> QED BY <2>4, <2>7, <2>8, DeliveryTypedStep
<1>5. CASE RemoveJob(w) \/ RecordDelivery(w)
  <2>1. End(w, "remove") \/ End(w, "log") \/ FailTo(w, "log", "db", Idle)
    BY <1>5 DEF RemoveJob, RecordDelivery
  <2>2. Mine(w) /\ req'[w].pc = "idle"
    BY <2>1, EndMine, FailOwn
  <2>3. queue' \subseteq queue /\ UNCHANGED <<notes, batches, subscribed, sent, reached>>
    BY <1>5 DEF RemoveJob, RecordDelivery
  <2>4. DeliveryRows' /\ NoteLocal(w)'
    BY <1>1, <2>2, <2>3 DEF DeliveryRows, NoteLocal
  <2> QED BY <2>2, <2>4, DeliveryTypedStep
<1>6. CASE MarkMailed(w)
  <2>1. Mine(w) /\ req'[w].pc = "idle"
    BY <1>6, EndMine DEF MarkMailed
  <2>2. PICK n : n = req[w].v.j.ref
    OBVIOUS
  <2>3. PICK row : row = [notes[n] EXCEPT !.mailed = TRUE]
    OBVIOUS
  <2>4. notes' = [notes EXCEPT ![n] = row]
    BY <1>6, <2>2, <2>3 DEF MarkMailed, Local
  <2>5. n \in DOMAIN notes => notes[n] \in NoteRow
    BY <1>1 DEF DeliveryRows
  <2>6. n \in DOMAIN notes => row \in NoteRow
    BY <2>3, <2>5 DEF NoteRow
  <2>7. notes' \in Seq(NoteRow)
    BY <1>1, <2>4, <2>6, RowReplaced DEF DeliveryRows
  <2>8. DeliveryRows'
    BY <1>1, <1>6, <2>7 DEF MarkMailed, DeliveryRows
  <2>9. NoteLocal(w)'
    BY <2>1 DEF NoteLocal
  <2> QED BY <2>1, <2>8, <2>9, DeliveryTypedStep
<1> QED BY <1>2, <1>3, <1>4, <1>5, <1>6

\* An attempt: what is handed out again has tries left.
LEMMA PostTyped ==
    ASSUME Control, DeliveryTyped, NEW w \in Workers, PostMessage(w)
    PROVE  DeliveryTyped'
<1>1. NoteLocal(w) /\ DeliveryRows /\ ReqOK
  BY DEF DeliveryTyped, Control
<1>2. PICK j : j = req[w].v.j
  OBVIOUS
<1>3. req[w].pc = "post"
  BY DEF PostMessage, At
<1>4. JobTyped(j)
  BY <1>1, <1>2, <1>3 DEF NoteLocal
<1>5. ASSUME NEW ok \in BOOLEAN, NEW r,
             r = IF AfterPost(j, ok) = "none" THEN Idle ELSE [req[w] EXCEPT !.pc = AfterPost(j, ok)]
      PROVE  r.pc \in {"idle", "mailed", "log"}
  <2>1. PICK to : to = AfterPost(j, ok)
    OBVIOUS
  <2>2. to \in {"none", "mailed", "log"}
    BY <2>1 DEF AfterPost
  <2>3. CASE to = "none"
    BY <1>5, <2>1, <2>3, IdleEntry
  <2>4. CASE to # "none"
    <3>1. r = [req[w] EXCEPT !.pc = to]
      BY <1>5, <2>1, <2>4
    <3> QED BY <1>1, <2>2, <2>4, <3>1, EntryFields
  <2> QED BY <2>3, <2>4
<1>6. PICK good, yes, no :
        /\ good = (j.kind # "hook")
        /\ yes = IF AfterPost(j, good) = "none" THEN Idle ELSE [req[w] EXCEPT !.pc = AfterPost(j, good)]
        /\ no = IF AfterPost(j, FALSE) = "none" THEN Idle ELSE [req[w] EXCEPT !.pc = AfterPost(j, FALSE)]
  OBVIOUS
<1>7. yes.pc \in {"idle", "mailed", "log"} /\ no.pc \in {"idle", "mailed", "log"}
  <2>1. good \in BOOLEAN
    BY <1>6
  <2> QED BY <1>5, <1>6, <2>1
<1>8. Become(w, "post", yes) \/ FailTo(w, "post", "rpc", no)
  BY <1>2, <1>6 DEF PostMessage, Local
<1>9. Mine(w) /\ req'[w].pc \in {"idle", "mailed", "log"}
  BY <1>7, <1>8, BecomeMine, FailMine
<1>10. NoteLocal(w)'
  BY <1>9 DEF NoteLocal
<1>11. PICK again : again = [j EXCEPT !.tries = @ + 1]
  OBVIOUS
<1>12. ~Exhausted(j.tries + 1) => JobTyped(again)
  BY <1>4, <1>11, DeliveriesAssumption DEF JobTyped, Job, Exhausted
<1>13. queue' \subseteq queue \/ (queue' \subseteq queue \cup {again} /\ ~Exhausted(j.tries + 1))
  <2>0. \E ok \in BOOLEAN : queue' = AfterAttempt(j, ok)
    BY <1>2, <1>6 DEF PostMessage, Local
  <2>1. CASE Exhausted(j.tries + 1)
    BY <2>0, <2>1 DEF AfterAttempt
  <2>2. CASE ~Exhausted(j.tries + 1)
    BY <1>11, <2>0, <2>2 DEF AfterAttempt
  <2> QED BY <2>1, <2>2
<1>14. reached' \subseteq reached \cup {[kind |-> j.kind, ref |-> j.ref]}
  BY <1>2 DEF PostMessage, Local
<1>15. UNCHANGED <<notes, batches, subscribed, sent>>
  BY DEF PostMessage
<1>16. \A k \in queue' : JobTyped(k)
  BY <1>1, <1>12, <1>13 DEF DeliveryRows
<1>17. \A r \in reached' : r.kind \in {"mail", "chat", "hook"}
  <2>1. j.kind \in {"mail", "chat", "hook"}
    BY <1>4 DEF JobTyped, Job
  <2>2. [kind |-> j.kind, ref |-> j.ref].kind = j.kind
    OBVIOUS
  <2> QED BY <1>1, <1>14, <2>1, <2>2 DEF DeliveryRows
<1>18. DeliveryRows'
  BY <1>1, <1>15, <1>16, <1>17 DEF DeliveryRows
<1> QED BY <1>9, <1>10, <1>18, DeliveryTypedStep

\* Every step keeps the notifications, the batches, the queue and what was sent typed.
LEMMA DeliveryTypedNext ==
    ASSUME Control, DeliveryInv, DeliveryTyped, calls \in Nat, [Next]_serviceVars
    PROVE  DeliveryTyped'
<1>1. CASE Subscribe
  BY <1>1 DEF Subscribe, control, DeliveryTyped, DeliveryRows, NoteLocal
<1> QED BY <1>1, DeliveryMoves, DeliveryTypedElsewhere, DeliveryCallsTyped, TakeJobTyped, NoteStepsTyped, WebhookStepsTyped,
           PostTyped DEF DeliveriesNext

\* At the start nothing is notified and nothing queued.
LEMMA DeliveryTypedStart == ASSUME Init PROVE DeliveryTyped
<1>1. \A w \in Workers : req[w].pc = "idle"
  BY IdleEntry DEF Init, ControlInit
<1>2. notes = <<>> /\ batches = <<>> /\ queue = {} /\ subscribed = FALSE /\ sent = {} /\ reached = {}
  BY DEF Init, DeliveriesInit
<1>3. notes \in Seq(NoteRow) /\ batches \in Seq(BatchRow)
  BY <1>2
<1> QED BY <1>1, <1>2, <1>3 DEF DeliveryTyped, DeliveryRows, NoteLocal

(***************************************************************************)
(* Accounts                                                                *)
(***************************************************************************)

\* What a field of an account may hold, an account, and the fields of an update.
FieldTyped(f, x) ==
    /\ f \in {"email", "pending"} => x \in Emails \cup {0}
    /\ f \in {"google", "owner"} => x \in Users \cup {0}
    /\ f \in {"pw", "secret", "fails", "locked", "until", "deleted", "address"} => x \in Nat
RowTyped(r) ==
    /\ {r.email, r.pending} \subseteq Emails \cup {0} /\ {r.google, r.owner} \subseteq Users \cup {0}
    /\ {r.pw, r.secret, r.fails, r.locked, r.until, r.deleted, r.address} \subseteq Nat
SetTyped(set) == \A f \in DOMAIN set : FieldTyped(f, set[f])

UsersTyped == \A u \in Users : RowTyped(user[u])
TokensTyped == \A n \in DOMAIN tokens : tokens[n] \in Token
InvitesTyped == \A i \in DOMAIN invites : invites[i] \in Invite
IsDeletion(d) == d = [user |-> d.user, n |-> d.n, at |-> d.at, done |-> d.done] /\ d.user \in Users /\ d.done \in BOOLEAN
DeletionsTyped == engaged \subseteq Users /\ \A d \in deletions : IsDeletion(d)

\* The locals that a handler writes to the tables.
HandTyped(w) ==
    LET pc == req[w].pc
        v == req[w].v
    IN  /\ pc = "insert" => RowTyped(v.r)
        /\ pc = "link" => v.g \in Users
        /\ pc = "update" => SetTyped(v.set)
        /\ pc \in {"clearInvites", "insertInvite"} => v.u \in Users /\ v.e \in Emails
        /\ pc = "join" => v.row.email \in Emails /\ v.row.owner \in Users

AccountTyped ==
    UsersTyped /\ TokensTyped /\ InvitesTyped /\ DeletionsTyped /\ \A w \in Workers : HandTyped(w)

\* The rows that registration and a Google login insert.
LEMMA NewRowTyped ==
    /\ RowTyped(NoUser) /\ \A e \in Emails : RowTyped(NewUser(e))
    /\ \A e \in Emails, g \in Users : RowTyped([NoUser EXCEPT !.known = TRUE, !.email = e, !.google = g])
<1>1. RowTyped(NoUser)
  BY DEF NoUser, RowTyped
<1>2. ASSUME NEW e \in Emails PROVE RowTyped(NewUser(e))
  BY DEF NewUser, NoUser, RowTyped
<1>3. ASSUME NEW e \in Emails, NEW g \in Users
      PROVE  RowTyped([NoUser EXCEPT !.known = TRUE, !.email = e, !.google = g])
  BY DEF NoUser, RowTyped
<1> QED BY <1>1, <1>2, <1>3

(***************************************************************************)
(* The rows of accounts                                                    *)
(***************************************************************************)

\* A row of the users is rewritten.
LEMMA UserWritten ==
    ASSUME AccountRows, UsersTyped, NEW u \in Users, NEW r, RowTyped(r), Write(u, r)
    PROVE  UsersTyped'
<1>1. user' = [x \in Users |-> IF x = u THEN r ELSE user[x]]
  BY DEF AccountRows, Write
<1> QED BY <1>1 DEF UsersTyped

\* Every statement keeps the users typed.
LEMMA UsersTypedStep ==
    ASSUME Control, AccountsInv, AccountTyped, NEW w \in Workers, AccountsStep(w)
    PROVE  UsersTyped'
<1>1. AccountRows /\ AccountLocal(w) /\ HandTyped(w) /\ UsersTyped
  BY DEF AccountsInv, AccountTyped
<1>2. PICK v, u : v = req[w].v /\ u = v.u
  OBVIOUS
<1>3. \A x \in Users : IsAccount(user[x]) /\ RowTyped(user[x])
  BY <1>1 DEF AccountRows, UsersTyped
<1>4. CASE UNCHANGED user
  BY <1>1, <1>4 DEF UsersTyped
<1>5. CASE InsertUser(w)
  <2>1. req[w].pc = "insert" /\ (UNCHANGED user \/ Write(u, v.r))
    BY <1>2, <1>5 DEF InsertUser, Local, At
  <2>2. u \in Users /\ RowTyped(v.r)
    BY <1>1, <1>2, <2>1 DEF AccountLocal, HandTyped
  <2> QED BY <1>1, <1>4, <2>1, <2>2, UserWritten
<1>6. CASE FailWrite(w)
  <2>1. PICK r : r = [user[u] EXCEPT !.fails = v.n, !.locked = IF MustLock(v.n) THEN now + LockTime ELSE @]
    OBVIOUS
  <2>2. End(w, "failWrite") /\ Write(u, r)
    BY <1>2, <1>6, <2>1 DEF FailWrite, Local
  <2>3. u \in Users /\ v.n \in Nat
    BY <1>1, <1>2, <2>2, EndMine DEF AccountLocal
  <2>4. now + LockTime \in Nat
    BY AccountsAssumption DEF Control
  <2>5. PICK l : l = IF MustLock(v.n) THEN now + LockTime ELSE user[u].locked
    OBVIOUS
  <2>6. l \in Nat
    BY <1>3, <2>3, <2>4, <2>5 DEF RowTyped
  <2>7. r = [user[u] EXCEPT !.fails = v.n, !.locked = l]
    BY <2>1, <2>5
  <2>8. RowTyped(r)
    BY <1>3, <2>3, <2>6, <2>7 DEF RowTyped, IsAccount, Fields
  <2> QED BY <1>1, <2>2, <2>3, <2>8, UserWritten
<1>7. CASE ResetFailedAttempts(w)
  <2>1. PICK r : r = [user[u] EXCEPT !.fails = 0, !.locked = 0]
    OBVIOUS
  <2>2. Goto(w, "reset", "issue") /\ Write(u, r)
    BY <1>2, <1>7, <2>1 DEF ResetFailedAttempts, Local
  <2>3. u \in Users
    BY <1>1, <1>2, <2>2, GotoMine DEF AccountLocal
  <2>4. RowTyped(r)
    BY <1>3, <2>1, <2>3 DEF RowTyped, IsAccount, Fields
  <2> QED BY <1>1, <2>2, <2>3, <2>4, UserWritten
<1>8. CASE LinkGoogle(w)
  <2>1. PICK r : r = [user[u] EXCEPT !.google = v.g]
    OBVIOUS
  <2>2. req[w].pc = "link" /\ (UNCHANGED user \/ Write(u, r))
    BY <1>2, <1>8, <2>1 DEF LinkGoogle, Local, At
  <2>3. u \in Users /\ v.g \in Users
    BY <1>1, <1>2, <2>2 DEF AccountLocal, HandTyped
  <2>4. RowTyped(r)
    BY <1>3, <2>1, <2>3 DEF RowTyped, IsAccount, Fields
  <2> QED BY <1>1, <1>4, <2>2, <2>3, <2>4, UserWritten
<1>9. CASE UpdateUser(w)
  <2>1. PICK r : r = Updated(user[u], v.set)
    OBVIOUS
  <2>2. End(w, "update") /\ (UNCHANGED user \/ Write(u, r))
    BY <1>2, <1>9, <2>1 DEF UpdateUser, Local
  <2>3. u \in Users /\ SetTyped(v.set)
    BY <1>1, <1>2, <2>2, EndMine DEF AccountLocal, HandTyped
  <2>4. DOMAIN r = Fields /\ \A f \in Fields : r[f] = IF f \in DOMAIN v.set THEN v.set[f] ELSE user[u][f]
    BY <1>3, <2>1, <2>3 DEF Updated, IsAccount
  <2>5. \A f \in Fields : FieldTyped(f, user[u][f])
    BY <1>3, <2>3 DEF RowTyped, FieldTyped, Fields
  <2>6. \A f \in Fields : FieldTyped(f, r[f])
    BY <2>3, <2>4, <2>5 DEF SetTyped
  <2>7. RowTyped(r)
    BY <2>6 DEF RowTyped, FieldTyped, Fields
  <2> QED BY <1>1, <1>4, <2>2, <2>3, <2>7, UserWritten
<1>10. CASE JoinTeam(w)
  <2>1. PICK s : s = NewUser(v.row.email)
    OBVIOUS
  <2>2. PICK r : r = [s EXCEPT !.owner = v.row.owner]
    OBVIOUS
  <2>3. End(w, "join") /\ (UNCHANGED user \/ Write(u, r))
    BY <1>2, <1>10, <2>1, <2>2 DEF JoinTeam, Local
  <2>4. u \in Users /\ v.row.email \in Emails /\ v.row.owner \in Users
    BY <1>1, <1>2, <2>3, EndMine DEF AccountLocal, HandTyped
  <2>5. RowTyped(s) /\ IsAccount(s)
    BY <2>1, <2>4, NewRowTyped, NewRowFresh DEF IsFresh
  <2>6. RowTyped(r)
    BY <2>2, <2>4, <2>5 DEF RowTyped, IsAccount, Fields
  <2> QED BY <1>1, <1>4, <2>3, <2>4, <2>6, UserWritten
<1>11. CASE EraseUser(w)
  <2>1. PICK r : r = [user[u] EXCEPT !.email = 0, !.google = 0, !.deleted = now]
    OBVIOUS
  <2>2. End(w, "erase") /\ Write(u, r)
    BY <1>2, <1>11, <2>1 DEF EraseUser, Local
  <2>3. u \in Users /\ now \in Nat
    BY <1>1, <1>2, <2>2, EndMine DEF AccountLocal, Control
  <2>4. RowTyped(r)
    BY <1>3, <2>1, <2>3 DEF RowTyped, IsAccount, Fields
  <2> QED BY <1>1, <2>2, <2>3, <2>4, UserWritten
<1>12. CASE AnonymizeUser(w)
  <2>1. req[w].pc = "batch"
    BY <1>12 DEF AnonymizeUser, At
  <2>2. v.todo \subseteq Users
    BY <1>1, <1>2, <2>1 DEF AccountLocal
  <2>3. PICK x \in v.todo : UNCHANGED user \/ Write(x, Anonymized(user[x]))
    BY <1>2, <1>12 DEF AnonymizeUser, Local
  <2>4. RowTyped(Anonymized(user[x])) /\ x \in Users
    BY <1>3, <2>2 DEF Anonymized, RowTyped, IsAccount, Fields
  <2> QED BY <1>1, <1>4, <2>3, <2>4, UserWritten
<1>13. CASE \/ FailRead(w) \/ IssueTokenPair(w) \/ RevokeFamily(w) \/ RotateToken(w) \/ RevokeToken(w)
            \/ ClearInvites(w) \/ InsertInvite(w) \/ DeleteInvite(w) \/ MarkProcessed(w) \/ NextBatch(w)
            \/ PurgeStaleRefreshTokens(w) \/ PurgeProcessedDeletionRequests(w)
  BY <1>4, <1>13 DEF FailRead, IssueTokenPair, RevokeFamily, RotateToken, RevokeToken, ClearInvites, InsertInvite,
                     DeleteInvite, MarkProcessed, NextBatch, PurgeStaleRefreshTokens, PurgeProcessedDeletionRequests,
                     accountVars
<1> QED BY <1>5, <1>6, <1>7, <1>8, <1>9, <1>10, <1>11, <1>12, <1>13 DEF AccountsStep

(***************************************************************************)
(* The tokens                                                              *)
(***************************************************************************)

\* A new token, beside those there are.
LEMMA MintTyped ==
    ASSUME Control, minted \in Nat, NEW u \in Users, NEW family \in Nat, NEW ts, Mint(u, family, ts),
           \A n \in DOMAIN ts : ts[n] \in Token
    PROVE  TokensTyped'
<1>1. PICK t : t = [user |-> u, family |-> family, exp |-> now + RefreshTime, consumed |-> FALSE, revoked |-> FALSE]
  OBVIOUS
<1>2. t \in Token
  BY <1>1, AccountsAssumption DEF Token, Control
<1>3. tokens' = [n \in DOMAIN ts \cup {minted + 1} |-> IF n \in DOMAIN ts THEN ts[n] ELSE t]
  BY <1>1 DEF Mint
<1> QED BY <1>2, <1>3 DEF TokensTyped

\* Every statement keeps the refresh tokens typed.
LEMMA TokensTypedStep ==
    ASSUME Control, AccountsInv, AccountTyped, NEW w \in Workers, AccountsStep(w)
    PROVE  TokensTyped'
<1>1. AccountLocal(w) /\ TokensTyped /\ minted \in Nat
  BY DEF AccountsInv, AccountTyped, TokenRows
<1>2. PICK v : v = req[w].v
  OBVIOUS
<1>3. CASE UNCHANGED tokens
  BY <1>1, <1>3 DEF TokensTyped
<1>4. ASSUME NEW t \in Token PROVE [t EXCEPT !.revoked = TRUE] \in Token /\ [t EXCEPT !.consumed = TRUE] \in Token
  BY DEF Token
<1>5. CASE IssueTokenPair(w)
  <2>1. End(w, "issue") /\ Mint(v.u, minted + 1, tokens)
    BY <1>2, <1>5 DEF IssueTokenPair, Local
  <2>2. v.u \in Users
    BY <1>1, <1>2, <2>1, EndMine DEF AccountLocal
  <2> QED BY <1>1, <2>1, <2>2, MintTyped DEF TokensTyped
<1>6. CASE RotateToken(w)
  <2>1. PICK n : n = v.n
    OBVIOUS
  <2>2. \/ UNCHANGED tokens
        \/ n \in DOMAIN tokens /\ Mint(tokens[n].user, tokens[n].family, [tokens EXCEPT ![n].consumed = TRUE])
    BY <1>2, <1>6, <2>1 DEF RotateToken, Rotatable, Local
  <2>3. CASE n \in DOMAIN tokens /\ Mint(tokens[n].user, tokens[n].family, [tokens EXCEPT ![n].consumed = TRUE])
    <3>1. PICK t : t = tokens[n]
      OBVIOUS
    <3>2. t \in Token
      BY <1>1, <2>3, <3>1 DEF TokensTyped
    <3>3. PICK s : s = [t EXCEPT !.consumed = TRUE]
      OBVIOUS
    <3>4. PICK ts : ts = [tokens EXCEPT ![n] = s]
      OBVIOUS
    <3>5. Mint(t.user, t.family, ts)
      BY <2>3, <3>1, <3>3, <3>4
    <3>6. s \in Token
      BY <1>4, <3>2, <3>3
    <3>7. \A m \in DOMAIN ts : ts[m] \in Token
      BY <1>1, <3>4, <3>6 DEF TokensTyped
    <3>8. t.user \in Users /\ t.family \in Nat
      BY <3>2 DEF Token
    <3> QED BY <1>1, <3>5, <3>7, <3>8, MintTyped
  <2> QED BY <1>3, <2>2, <2>3
<1>7. ASSUME DOMAIN tokens' \subseteq DOMAIN tokens,
             \A n \in DOMAIN tokens' : \/ tokens'[n] = tokens[n]
                                       \/ tokens'[n] = [tokens[n] EXCEPT !.revoked = TRUE]
      PROVE  TokensTyped'
  <2>1. ASSUME NEW n \in DOMAIN tokens', NEW t, t = tokens[n] PROVE tokens'[n] \in Token
    <3>1. t \in Token
      BY <1>1, <1>7, <2>1 DEF TokensTyped
    <3> QED BY <1>4, <1>7, <2>1, <3>1
  <2> QED BY <2>1 DEF TokensTyped
<1>8. CASE RevokeFamily(w)
  BY <1>7, <1>8 DEF RevokeFamily
<1>9. CASE RevokeToken(w)
  <2>1. PICK n, s : n = v.n /\ s = [tokens[n] EXCEPT !.revoked = TRUE]
    OBVIOUS
  <2>2. UNCHANGED tokens \/ (n \in DOMAIN tokens /\ tokens' = [tokens EXCEPT ![n] = s])
    BY <1>2, <1>9, <2>1 DEF RevokeToken, Local
  <2> QED BY <1>3, <1>7, <2>1, <2>2
<1>10. CASE AnonymizeUser(w)
  <2>1. \/ UNCHANGED tokens
        \/ \E u : tokens' = [n \in DOMAIN tokens |-> IF tokens[n].user = u
                               THEN [tokens[n] EXCEPT !.revoked = TRUE] ELSE tokens[n]]
    BY <1>10 DEF AnonymizeUser
  <2> QED BY <1>3, <1>7, <2>1
<1>11. CASE PurgeStaleRefreshTokens(w)
  <2>1. UNCHANGED tokens \/ tokens' = [n \in {m \in DOMAIN tokens : ~Stale(tokens[m])} |-> tokens[n]]
    BY <1>11 DEF PurgeStaleRefreshTokens
  <2> QED BY <1>3, <1>7, <2>1
<1>12. CASE \/ InsertUser(w) \/ FailRead(w) \/ FailWrite(w) \/ ResetFailedAttempts(w) \/ LinkGoogle(w) \/ UpdateUser(w)
            \/ ClearInvites(w) \/ InsertInvite(w) \/ JoinTeam(w) \/ DeleteInvite(w) \/ EraseUser(w)
            \/ MarkProcessed(w) \/ NextBatch(w) \/ PurgeProcessedDeletionRequests(w)
  BY <1>3, <1>12 DEF InsertUser, FailRead, FailWrite, ResetFailedAttempts, LinkGoogle, UpdateUser, ClearInvites,
                     InsertInvite, JoinTeam, DeleteInvite, EraseUser, MarkProcessed, NextBatch,
                     PurgeProcessedDeletionRequests, accountVars
<1> QED BY <1>5, <1>6, <1>8, <1>9, <1>10, <1>11, <1>12 DEF AccountsStep

(***************************************************************************)
(* The invitations and the requests for erasure                            *)
(***************************************************************************)

\* Every statement keeps the invitations typed.
LEMMA InvitesTypedStep ==
    ASSUME Control, AccountTyped, NEW w \in Workers, AccountsStep(w)
    PROVE  InvitesTyped'
<1>1. InvitesTyped /\ HandTyped(w)
  BY DEF AccountTyped
<1>2. PICK v : v = req[w].v
  OBVIOUS
<1>3. CASE UNCHANGED invites
  BY <1>1, <1>3 DEF InvitesTyped
<1>4. CASE ClearInvites(w) \/ DeleteInvite(w)
  <2>1. DOMAIN invites' \subseteq DOMAIN invites /\ \A i \in DOMAIN invites' : invites'[i] = invites[i]
    <3>1. CASE ClearInvites(w)
      BY <3>1 DEF ClearInvites
    <3>2. CASE DeleteInvite(w)
      BY <3>2 DEF DeleteInvite
    <3> QED BY <1>4, <3>1, <3>2
  <2> QED BY <1>1, <2>1 DEF InvitesTyped
<1>5. CASE InsertInvite(w)
  <2>1. PICK row : row = [owner |-> v.u, email |-> v.e, exp |-> now + LinkTime, accepted |-> FALSE]
    OBVIOUS
  <2>2. End(w, "insertInvite")
    BY <1>5 DEF InsertInvite
  <2>3. v.u \in Users /\ v.e \in Emails
    BY <1>1, <1>2, <2>2, EndMine DEF HandTyped
  <2>4. row \in Invite
    BY <2>1, <2>3, AccountsAssumption DEF Invite, Control
  <2>5. invites' = [i \in DOMAIN invites \cup {v.n} |-> IF i \in DOMAIN invites THEN invites[i] ELSE row]
    BY <1>2, <1>5, <2>1 DEF InsertInvite, Local
  <2> QED BY <1>1, <2>4, <2>5 DEF InvitesTyped
<1>6. CASE JoinTeam(w)
  <2>1. PICK i, row : i = v.i /\ row = [invites[i] EXCEPT !.accepted = TRUE]
    OBVIOUS
  <2>2. UNCHANGED invites \/ (i \in DOMAIN invites /\ invites' = [invites EXCEPT ![i] = row])
    BY <1>2, <1>6, <2>1 DEF JoinTeam, Local
  <2>3. CASE i \in DOMAIN invites /\ invites' = [invites EXCEPT ![i] = row]
    <3>1. invites[i] \in Invite
      BY <1>1, <2>3 DEF InvitesTyped
    <3>2. row \in Invite
      BY <2>1, <3>1 DEF Invite
    <3> QED BY <1>1, <2>3, <3>2 DEF InvitesTyped
  <2> QED BY <1>3, <2>2, <2>3
<1>7. CASE \/ InsertUser(w) \/ FailRead(w) \/ FailWrite(w) \/ ResetFailedAttempts(w) \/ LinkGoogle(w)
           \/ IssueTokenPair(w) \/ RevokeFamily(w) \/ RotateToken(w) \/ RevokeToken(w) \/ UpdateUser(w)
           \/ EraseUser(w) \/ MarkProcessed(w) \/ AnonymizeUser(w) \/ NextBatch(w)
           \/ PurgeStaleRefreshTokens(w) \/ PurgeProcessedDeletionRequests(w)
  BY <1>3, <1>7 DEF InsertUser, FailRead, FailWrite, ResetFailedAttempts, LinkGoogle, IssueTokenPair, RevokeFamily,
                    RotateToken, RevokeToken, UpdateUser, EraseUser, MarkProcessed, AnonymizeUser, NextBatch,
                    PurgeStaleRefreshTokens, PurgeProcessedDeletionRequests, accountVars
<1> QED BY <1>4, <1>5, <1>6, <1>7 DEF AccountsStep

\* Every statement keeps the requests for erasure typed.
LEMMA DeletionsTypedStep ==
    ASSUME Control, AccountsInv, AccountTyped, NEW w \in Workers, AccountsStep(w)
    PROVE  DeletionsTyped'
<1>1. DeletionsTyped /\ AccountLocal(w)
  BY DEF AccountTyped, AccountsInv
<1>2. PICK v : v = req[w].v
  OBVIOUS
<1>3. CASE UNCHANGED <<engaged, deletions>>
  BY <1>1, <1>3 DEF DeletionsTyped
<1>4. CASE EraseUser(w)
  <2>1. PICK d : d = [user |-> v.u, n |-> v.n, at |-> now, done |-> FALSE]
    OBVIOUS
  <2>2. End(w, "erase") /\ engaged' = engaged /\ deletions' = deletions \cup {d}
    BY <1>2, <1>4, <2>1 DEF EraseUser, Local
  <2>3. v.u \in Users
    BY <1>1, <1>2, <2>2, EndMine DEF AccountLocal
  <2>4. IsDeletion(d)
    BY <2>1, <2>3 DEF IsDeletion
  <2> QED BY <1>1, <2>2, <2>4 DEF DeletionsTyped
<1>5. CASE MarkProcessed(w)
  <2>1. ASSUME NEW x \in deletions, NEW y, y = [x EXCEPT !.done = TRUE] PROVE IsDeletion(y)
    <3>1. IsDeletion(x)
      BY <1>1 DEF DeletionsTyped
    <3> QED BY <2>1, <3>1 DEF IsDeletion
  <2>2. \A y \in deletions' : \E x \in deletions : y = x \/ y = [x EXCEPT !.done = TRUE]
    BY <1>5 DEF MarkProcessed
  <2>3. engaged' = engaged
    BY <1>5 DEF MarkProcessed
  <2> QED BY <1>1, <2>1, <2>2, <2>3 DEF DeletionsTyped
<1>6. CASE PurgeProcessedDeletionRequests(w)
  <2>1. engaged' = engaged /\ deletions' \subseteq deletions
    BY <1>6 DEF PurgeProcessedDeletionRequests
  <2> QED BY <1>1, <2>1 DEF DeletionsTyped
<1>7. CASE \/ InsertUser(w) \/ FailRead(w) \/ FailWrite(w) \/ ResetFailedAttempts(w) \/ LinkGoogle(w)
           \/ IssueTokenPair(w) \/ RevokeFamily(w) \/ RotateToken(w) \/ RevokeToken(w) \/ UpdateUser(w)
           \/ ClearInvites(w) \/ InsertInvite(w) \/ JoinTeam(w) \/ DeleteInvite(w)
           \/ AnonymizeUser(w) \/ NextBatch(w) \/ PurgeStaleRefreshTokens(w)
  BY <1>3, <1>7 DEF InsertUser, FailRead, FailWrite, ResetFailedAttempts, LinkGoogle, IssueTokenPair, RevokeFamily,
                    RotateToken, RevokeToken, UpdateUser, ClearInvites, InsertInvite, JoinTeam, DeleteInvite,
                    AnonymizeUser, NextBatch, PurgeStaleRefreshTokens, accountVars
<1> QED BY <1>4, <1>5, <1>6, <1>7 DEF AccountsStep

(***************************************************************************)
(* What the handlers have in hand                                          *)
(***************************************************************************)

\* A worker that moved, while the others stayed.
LEMMA HandsTyped ==
    ASSUME AccountTyped, NEW w \in Workers, Mine(w), HandTyped(w)'
    PROVE  \A x \in Workers : HandTyped(x)'
  BY DEF AccountTyped, HandTyped, Mine

\* The points whose locals are of no consequence to the tables.
LEMMA HandAway ==
    ASSUME NEW w \in Workers,
           req'[w].pc \notin {"insert", "link", "update", "clearInvites", "insertInvite", "join"}
    PROVE  HandTyped(w)'
  BY DEF HandTyped

\* A statement hands on what the next one writes.
LEMMA HandsTypedStep ==
    ASSUME Control, AccountTyped, NEW w \in Workers, AccountsStep(w)
    PROVE  \A x \in Workers : HandTyped(x)'
<1>1. CASE ClearInvites(w)
  <2>1. Mine(w) /\ req'[w].pc = "insertInvite" /\ req'[w].v = req[w].v /\ req[w].pc = "clearInvites"
    BY <1>1, GotoMine DEF ClearInvites
  <2>2. HandTyped(w)'
    BY <2>1 DEF HandTyped, AccountTyped
  <2> QED BY <2>1, <2>2, HandsTyped
<1>2. CASE AnonymizeUser(w)
  <2>1. PICK u, r : /\ r = [req[w] EXCEPT !.v.todo = @ \ {u}]
                    /\ Become(w, "batch", r) \/ FailTo(w, "batch", "rpc", r)
    BY <1>2 DEF AnonymizeUser
  <2>2. PICK s : s = [req[w].v EXCEPT !.todo = @ \ {u}]
    OBVIOUS
  <2>3. r = [req[w] EXCEPT !.v = s]
    BY <2>1, <2>2
  <2>4. r.pc = req[w].pc
    BY <2>3, EntryLocals DEF Control
  <2>5. Mine(w) /\ req'[w] = r /\ req[w].pc = "batch"
    BY <2>1, BecomeMine, FailMine
  <2> QED BY <2>4, <2>5, HandAway, HandsTyped
<1>3. CASE PurgeStaleRefreshTokens(w)
  <2>1. PICK r : r = [req[w] EXCEPT !.pc = "purgeRequests"]
    OBVIOUS
  <2>2. r.pc = "purgeRequests"
    BY <2>1, EntryFields DEF Control
  <2>3. Goto(w, "purgeTokens", "purgeRequests") \/ FailTo(w, "purgeTokens", "rpc", r)
    BY <1>3, <2>1 DEF PurgeStaleRefreshTokens
  <2>4. Mine(w) /\ req'[w].pc = "purgeRequests"
    BY <2>2, <2>3, GotoMine, FailMine
  <2> QED BY <2>4, HandAway, HandsTyped
<1>4. ASSUME NEW from \in AccountsPoints, NEW to \in {"issue", "reset", "failWrite", "batch"},
             End(w, from) \/ Goto(w, from, to) \/ \E v : GotoWith(w, from, to, v)
      PROVE  \A x \in Workers : HandTyped(x)'
  <2>1. from # "idle"
    BY DEF AccountsPoints
  <2>2. Mine(w) /\ req'[w].pc \in {"idle", to}
    <3>1. CASE End(w, from)
      BY <2>1, <3>1, EndMine
    <3>2. CASE Goto(w, from, to)
      BY <2>1, <3>2, GotoMine
    <3>3. ASSUME NEW v, GotoWith(w, from, to, v) PROVE Mine(w) /\ req'[w].pc \in {"idle", to}
      BY <2>1, <3>3, GotoWithMine
    <3> QED BY <1>4, <3>1, <3>2, <3>3
  <2> QED BY <2>2, HandAway, HandsTyped
<1>5. {"insert", "failRead", "failWrite", "reset", "link", "issue", "revokeFamily", "rotate", "revoke", "update",
       "insertInvite", "join", "deleteInvite", "erase", "processed", "batch", "purgeRequests"} \subseteq AccountsPoints
  BY DEF AccountsPoints
<1>6. CASE \/ InsertUser(w) \/ FailRead(w) \/ FailWrite(w) \/ ResetFailedAttempts(w) \/ LinkGoogle(w)
  BY <1>4, <1>5, <1>6 DEF InsertUser, FailRead, FailWrite, ResetFailedAttempts, LinkGoogle
<1>7. CASE \/ IssueTokenPair(w) \/ RevokeFamily(w) \/ RotateToken(w) \/ RevokeToken(w) \/ UpdateUser(w)
           \/ InsertInvite(w) \/ JoinTeam(w) \/ DeleteInvite(w)
  BY <1>4, <1>5, <1>7 DEF IssueTokenPair, RevokeFamily, RotateToken, RevokeToken, UpdateUser, InsertInvite, JoinTeam,
                          DeleteInvite
<1>8. CASE \/ EraseUser(w) \/ MarkProcessed(w) \/ NextBatch(w) \/ PurgeProcessedDeletionRequests(w)
  BY <1>4, <1>5, <1>8 DEF EraseUser, MarkProcessed, NextBatch, PurgeProcessedDeletionRequests
<1> QED BY <1>1, <1>2, <1>3, <1>6, <1>7, <1>8 DEF AccountsStep

\* Taking up an operation.
LEMMA HandTaken ==
    ASSUME Control, AccountTyped, NEW w \in Workers, NEW op, NEW pc, NEW v, NEW what, CallNoting(w, op, pc, v, what),
           pc = "insert" => RowTyped(v.r),
           pc = "link" => v.g \in Users,
           pc = "update" => SetTyped(v.set),
           pc \in {"clearInvites", "insertInvite"} => v.u \in Users /\ v.e \in Emails,
           pc = "join" => v.row.email \in Emails /\ v.row.owner \in Users
    PROVE  \A x \in Workers : HandTyped(x)'
<1>1. Mine(w) /\ req'[w].pc = pc /\ req'[w].v = v
  BY CallMine
<1>2. HandTyped(w)'
  BY <1>1 DEF HandTyped
<1> QED BY <1>1, <1>2, HandsTyped

\* The fields that a handler is going to write.
LEMMA SetsTyped ==
    ASSUME Control, AccountTyped, calls \in Nat, NEW w \in Workers, NEW u \in Users,
           \/ \E e \in Emails : RequestEmailChange(w, u, e)
           \/ ResetPassword(w, u, 2) \/ ConfirmEmailChange(w, u) \/ SetDeactivated(w, u)
           \/ GenerateTotpSecret(w, u) \/ EnableTotp(w, u) \/ DisableTotp(w, u)
           \/ \E a \in {1, 2} : RebindStellarAddress(w, u, a)
    PROVE  (\A x \in Workers : HandTyped(x)') /\ UNCHANGED accountVars
<1>1. ASSUME NEW op, NEW set, Change(w, u, op, set), SetTyped(set)
      PROVE  (\A x \in Workers : HandTyped(x)') /\ UNCHANGED accountVars
  <2>1. PICK v, what : v = [u |-> u, set |-> set] /\ what = IF user[u].anon THEN {"late"} ELSE {}
    OBVIOUS
  <2>2. CallNoting(w, op, "update", v, what) /\ UNCHANGED accountVars
    BY <1>1, <2>1 DEF Change, CallOf
  <2>3. SetTyped(v.set)
    BY <1>1, <2>1
  <2> QED BY <2>2, <2>3, HandTaken
<1>2. ASSUME NEW e \in Emails, RequestEmailChange(w, u, e)
      PROVE  (\A x \in Workers : HandTyped(x)') /\ UNCHANGED accountVars
  <2>1. PICK set : set = [pending |-> e, until |-> now + LinkTime]
    OBVIOUS
  <2>2. SetTyped(set)
    BY <2>1, AccountsAssumption DEF SetTyped, FieldTyped, Control
  <2> QED BY <1>1, <1>2, <2>1, <2>2 DEF RequestEmailChange
<1>3. CASE ConfirmEmailChange(w, u)
  <2>1. user[u].pending \in Emails
    BY <1>3 DEF ConfirmEmailChange, AccountTyped, UsersTyped, RowTyped
  <2>2. PICK set : /\ Change(w, u, "email", set)
                   /\ \/ set = [pending |-> 0, until |-> 0]
                      \/ set = [email |-> user[u].pending, pending |-> 0, until |-> 0]
    BY <1>3 DEF ConfirmEmailChange
  <2>3. SetTyped(set)
    BY <2>1, <2>2 DEF SetTyped, FieldTyped
  <2> QED BY <1>1, <2>2, <2>3
<1>4. CASE ResetPassword(w, u, 2) \/ SetDeactivated(w, u) \/ GenerateTotpSecret(w, u) \/ EnableTotp(w, u)
           \/ (\E a \in {1, 2} : RebindStellarAddress(w, u, a))
  <2>1. PICK op, set : /\ Change(w, u, op, set)
                       /\ \/ \E x \in Nat : set = [pw |-> x]
                          \/ \E x : set = [off |-> x]
                          \/ \E x \in Nat : set = [secret |-> x]
                          \/ \E x : set = [totp |-> x]
                          \/ \E x \in Nat : set = [address |-> x]
    BY <1>4 DEF ResetPassword, SetDeactivated, GenerateTotpSecret, EnableTotp, RebindStellarAddress
  <2>2. SetTyped(set)
    BY <2>1 DEF SetTyped, FieldTyped
  <2> QED BY <1>1, <2>1, <2>2
<1>5. CASE DisableTotp(w, u)
  <2>1. PICK set : set = [totp |-> FALSE, secret |-> 0]
    OBVIOUS
  <2>2. SetTyped(set)
    BY <2>1 DEF SetTyped, FieldTyped
  <2> QED BY <1>1, <1>5, <2>1, <2>2 DEF DisableTotp
<1> QED BY <1>2, <1>3, <1>4, <1>5

\* The calls that leave the tables alone: all but the counting of a failed login.
LEMMA CallsTyped ==
    ASSUME Control, AccountTyped, calls \in Nat, NEW w \in Workers, AccountsTake(w)
    PROVE  (\A x \in Workers : HandTyped(x)') /\ UNCHANGED <<user, tokens, invites, engaged, deletions>>
<1> DEFINE Goal_ == (\A x \in Workers : HandTyped(x)') /\ UNCHANGED <<user, tokens, invites, engaged, deletions>>
<1>1. ASSUME NEW u \in Users, NEW e \in Emails, Register(w, u, e) PROVE Goal_
  <2>1. PICK v : v = [u |-> u, r |-> NewUser(e)]
    OBVIOUS
  <2>2. CallNoting(w, "register", "insert", v, {}) /\ UNCHANGED accountVars
    BY <1>1, <2>1 DEF Register, Call
  <2>3. RowTyped(v.r)
    BY <2>1, NewRowTyped
  <2> QED BY <2>2, <2>3, HandTaken DEF accountVars
<1>2. ASSUME NEW g \in Users, NEW e \in Emails, LoginWithGoogle(w, g, e) PROVE Goal_
  <2>1. UNCHANGED accountVars
    BY <1>2 DEF LoginWithGoogle
  <2>2. \/ \E u \in Users :
             Call(w, "google", "insert", [u |-> u, r |-> [NoUser EXCEPT !.known = TRUE, !.email = e, !.google = g]])
        \/ \E x \in Users :
             CallOf(w, x, "google", IF user[x].google = g THEN "reset" ELSE "link", [u |-> x, g |-> g])
    BY <1>2 DEF LoginWithGoogle
  <2>3. ASSUME NEW u \in Users,
               Call(w, "google", "insert", [u |-> u, r |-> [NoUser EXCEPT !.known = TRUE, !.email = e, !.google = g]])
        PROVE  Goal_
    <3>1. PICK r : r = [NoUser EXCEPT !.known = TRUE, !.email = e, !.google = g]
      OBVIOUS
    <3>2. PICK v : v = [u |-> u, r |-> r]
      OBVIOUS
    <3>3. CallNoting(w, "google", "insert", v, {}) /\ RowTyped(v.r)
      BY <2>3, <3>1, <3>2, NewRowTyped DEF Call
    <3> QED BY <2>1, <3>3, HandTaken DEF accountVars
  <2>4. ASSUME NEW x \in Users,
               CallOf(w, x, "google", IF user[x].google = g THEN "reset" ELSE "link", [u |-> x, g |-> g])
        PROVE  Goal_
    <3>1. PICK v, what : v = [u |-> x, g |-> g] /\ what = IF user[x].anon THEN {"late"} ELSE {}
      OBVIOUS
    <3>2. PICK pc : pc \in {"reset", "link"} /\ CallNoting(w, "google", pc, v, what)
      BY <2>4, <3>1 DEF CallOf
    <3>3. v.g \in Users
      BY <3>1
    <3> QED BY <2>1, <3>2, <3>3, HandTaken DEF accountVars
  <2> QED BY <2>2, <2>3, <2>4
<1>3. ASSUME NEW u \in Users, NEW e \in Emails, SendInvite(w, u, e) PROVE Goal_
  <2>1. PICK v : v = [u |-> u, e |-> e, n |-> calls]
    OBVIOUS
  <2>2. CallNoting(w, "invite", "clearInvites", v, {}) /\ UNCHANGED accountVars
    BY <1>3, <2>1 DEF SendInvite, Call
  <2>3. v.u \in Users /\ v.e \in Emails
    BY <2>1
  <2> QED BY <2>2, <2>3, HandTaken DEF accountVars
<1>4. ASSUME NEW u \in Users, NEW i \in DOMAIN invites, AcceptTeamInvite(w, u, i) PROVE Goal_
  <2>1. PICK v : v = [u |-> u, i |-> i, row |-> invites[i]]
    OBVIOUS
  <2>2. CallNoting(w, "join", "join", v, {}) /\ UNCHANGED accountVars
    BY <1>4, <2>1 DEF AcceptTeamInvite, Call
  <2>3. v.row \in Invite
    BY <2>1 DEF AccountTyped, InvitesTyped
  <2>4. v.row.email \in Emails /\ v.row.owner \in Users
    BY <2>3 DEF Invite
  <2> QED BY <2>2, <2>4, HandTaken DEF accountVars
<1>5. ASSUME NEW op, NEW pc, NEW v, NEW what, CallNoting(w, op, pc, v, what),
             pc \in {"reset", "failRead", "rotate", "revokeFamily", "revoke", "deleteInvite", "erase", "processed",
                     "batch", "purgeTokens"},
             UNCHANGED <<user, tokens, invites, engaged, deletions>>
      PROVE  Goal_
  BY <1>5, HandTaken
<1>6. ASSUME NEW u \in Users, NEW p, NEW code, Login(w, u, p, code) PROVE Goal_
  <2>1. PICK pc, v, what : CallNoting(w, "login", pc, v, what) /\ pc \in {"reset", "failRead"}
    BY <1>6 DEF Login, CallOf
  <2>2. UNCHANGED <<user, tokens, invites, engaged, deletions>>
    BY <1>6 DEF Login
  <2> QED BY <1>5, <2>1, <2>2
<1>7. ASSUME \/ \E u \in Users : RequestErasure(w, u)
             \/ \E n \in DOMAIN tokens : Refresh(w, n)
      PROVE  Goal_
  <2>1. PICK op, pc, v, what : CallNoting(w, op, pc, v, what) /\ pc \in {"rotate", "revokeFamily", "erase"}
                               /\ UNCHANGED accountVars
    BY <1>7 DEF RequestErasure, Refresh, CallOf
  <2>2. UNCHANGED <<user, tokens, invites, engaged, deletions>>
    BY <2>1 DEF accountVars
  <2> QED BY <1>5, <2>1, <2>2
<1>8. ASSUME \/ \E n \in DOMAIN tokens : Logout(w, n)
             \/ \E i \in DOMAIN invites : RevokeInvite(w, i)
             \/ \E d \in deletions : ProcessRequest(w, d)
             \/ AnonymizeDueAccounts(w) \/ EnforceRetention(w)
      PROVE  Goal_
  <2>1. PICK op, pc, v : CallNoting(w, op, pc, v, {}) /\ UNCHANGED accountVars
                         /\ pc \in {"revoke", "deleteInvite", "processed", "batch", "purgeTokens"}
    BY <1>8 DEF Logout, RevokeInvite, ProcessRequest, AnonymizeDueAccounts, EnforceRetention, Call
  <2>2. UNCHANGED <<user, tokens, invites, engaged, deletions>>
    BY <2>1 DEF accountVars
  <2> QED BY <1>5, <2>1, <2>2
<1>9. UNCHANGED accountVars => UNCHANGED <<user, tokens, invites, engaged, deletions>>
  BY DEF accountVars
<1> HIDE DEF Goal_
<1>10. ASSUME NEW u \in Users,
              \/ \E e \in Emails : RequestEmailChange(w, u, e)
              \/ ResetPassword(w, u, 2) \/ ConfirmEmailChange(w, u) \/ SetDeactivated(w, u)
              \/ GenerateTotpSecret(w, u) \/ EnableTotp(w, u) \/ DisableTotp(w, u)
              \/ \E a \in {1, 2} : RebindStellarAddress(w, u, a)
       PROVE  Goal_
  BY <1>9, <1>10, SetsTyped DEF Goal_
<1>11. ASSUME NEW u \in Users, NEW e \in Emails,
              Register(w, u, e) \/ LoginWithGoogle(w, u, e) \/ RequestEmailChange(w, u, e) \/ SendInvite(w, u, e)
       PROVE  Goal_
  BY <1>1, <1>2, <1>3, <1>10, <1>11
<1>12. ASSUME NEW u \in Users,
              \/ ResetPassword(w, u, 2) \/ ConfirmEmailChange(w, u) \/ SetDeactivated(w, u)
              \/ GenerateTotpSecret(w, u) \/ EnableTotp(w, u) \/ DisableTotp(w, u)
              \/ \E a \in {1, 2} : RebindStellarAddress(w, u, a)
       PROVE  Goal_
  <2>1. \/ \E e \in Emails : RequestEmailChange(w, u, e)
        \/ ResetPassword(w, u, 2) \/ ConfirmEmailChange(w, u) \/ SetDeactivated(w, u)
        \/ GenerateTotpSecret(w, u) \/ EnableTotp(w, u) \/ DisableTotp(w, u)
        \/ \E a \in {1, 2} : RebindStellarAddress(w, u, a)
    BY <1>12
  <2> QED BY <1>10, <2>1
<1>13. ASSUME NEW u \in Users,
              (\E i \in DOMAIN invites : AcceptTeamInvite(w, u, i)) \/ RequestErasure(w, u)
       PROVE  Goal_
  <2>1. ASSUME NEW i \in DOMAIN invites, AcceptTeamInvite(w, u, i) PROVE Goal_
    BY <1>4, <2>1
  <2>2. CASE RequestErasure(w, u)
    <3>1. \E x \in Users : RequestErasure(w, x)
      BY <2>2
    <3> QED BY <1>7, <3>1
  <2> QED BY <1>13, <2>1, <2>2
<1>14. ASSUME NEW n \in DOMAIN tokens, Refresh(w, n) \/ Logout(w, n) PROVE Goal_
  <2>1. CASE Refresh(w, n)
    <3>1. \E m \in DOMAIN tokens : Refresh(w, m)
      BY <2>1
    <3> QED BY <1>7, <3>1
  <2>2. CASE Logout(w, n)
    <3>1. \E m \in DOMAIN tokens : Logout(w, m)
      BY <2>2
    <3> QED BY <1>8, <3>1
  <2> QED BY <1>14, <2>1, <2>2
<1>15. ASSUME \/ \E i \in DOMAIN invites : RevokeInvite(w, i)
              \/ \E d \in deletions : ProcessRequest(w, d)
              \/ AnonymizeDueAccounts(w) \/ EnforceRetention(w)
       PROVE  Goal_
  BY <1>8, <1>15
<1>16. \/ \E u \in Users :
             \/ \E e \in Emails : \/ Register(w, u, e) \/ LoginWithGoogle(w, u, e)
                                  \/ RequestEmailChange(w, u, e) \/ SendInvite(w, u, e)
             \/ \E p \in {1, 2}, code \in {"none", "wrong", "right"} : Login(w, u, p, code)
             \/ (\/ ResetPassword(w, u, 2) \/ ConfirmEmailChange(w, u) \/ SetDeactivated(w, u)
                 \/ GenerateTotpSecret(w, u) \/ EnableTotp(w, u) \/ DisableTotp(w, u)
                 \/ \E a \in {1, 2} : RebindStellarAddress(w, u, a))
             \/ (\E i \in DOMAIN invites : AcceptTeamInvite(w, u, i)) \/ RequestErasure(w, u)
       \/ \E n \in DOMAIN tokens : Refresh(w, n) \/ Logout(w, n)
       \/ (\/ \E i \in DOMAIN invites : RevokeInvite(w, i)
           \/ \E d \in deletions : ProcessRequest(w, d)
           \/ AnonymizeDueAccounts(w) \/ EnforceRetention(w))
  BY DEF AccountsTake
<1>17. ASSUME NEW u \in Users,
              \/ \E e \in Emails : \/ Register(w, u, e) \/ LoginWithGoogle(w, u, e)
                                   \/ RequestEmailChange(w, u, e) \/ SendInvite(w, u, e)
              \/ \E p \in {1, 2}, code \in {"none", "wrong", "right"} : Login(w, u, p, code)
              \/ (\/ ResetPassword(w, u, 2) \/ ConfirmEmailChange(w, u) \/ SetDeactivated(w, u)
                  \/ GenerateTotpSecret(w, u) \/ EnableTotp(w, u) \/ DisableTotp(w, u)
                  \/ \E a \in {1, 2} : RebindStellarAddress(w, u, a))
              \/ (\E i \in DOMAIN invites : AcceptTeamInvite(w, u, i)) \/ RequestErasure(w, u)
       PROVE  Goal_
  <2>1. CASE \E e \in Emails : \/ Register(w, u, e) \/ LoginWithGoogle(w, u, e)
                               \/ RequestEmailChange(w, u, e) \/ SendInvite(w, u, e)
    BY <1>11, <2>1
  <2>2. CASE \E p \in {1, 2}, code \in {"none", "wrong", "right"} : Login(w, u, p, code)
    BY <1>6, <2>2
  <2>3. CASE \/ ResetPassword(w, u, 2) \/ ConfirmEmailChange(w, u) \/ SetDeactivated(w, u)
             \/ GenerateTotpSecret(w, u) \/ EnableTotp(w, u) \/ DisableTotp(w, u)
             \/ \E a \in {1, 2} : RebindStellarAddress(w, u, a)
    BY <1>12, <2>3
  <2>4. CASE (\E i \in DOMAIN invites : AcceptTeamInvite(w, u, i)) \/ RequestErasure(w, u)
    BY <1>13, <2>4
  <2> QED BY <1>17, <2>1, <2>2, <2>3, <2>4
<1>18. Goal_
  BY <1>14, <1>15, <1>16, <1>17
<1> QED BY <1>18 DEF Goal_

\* Every step keeps the tables of accounts and what is in hand for them typed.
LEMMA AccountTypedNext ==
    ASSUME Control, AccountsInv, AccountTyped, calls \in Nat, [Next]_serviceVars
    PROVE  AccountTyped'
<1>1. CASE Elsewhere(AccountsPoints) /\ UNCHANGED accountVars
  <2>1. ASSUME NEW w \in Workers PROVE HandTyped(w)'
    <3>1. req'[w] = req[w] \/ req'[w].pc \notin AccountsPoints
      BY <1>1 DEF Elsewhere
    <3> QED BY <3>1 DEF AccountTyped, HandTyped, AccountsPoints
  <2> QED BY <1>1, <2>1 DEF accountVars, AccountTyped, UsersTyped, TokensTyped, InvitesTyped, DeletionsTyped
<1>2. ASSUME NEW u \in Users, EngagementMoves(u) PROVE AccountTyped'
  BY <1>2 DEF EngagementMoves, control, AccountTyped, UsersTyped, TokensTyped, InvitesTyped, DeletionsTyped, HandTyped
<1>3. ASSUME NEW w \in Workers, AccountsTake(w) PROVE AccountTyped'
  <2>1. (\A x \in Workers : HandTyped(x)') /\ UNCHANGED <<user, tokens, invites, engaged, deletions>>
    BY <1>3, CallsTyped
  <2> QED BY <2>1 DEF AccountTyped, UsersTyped, TokensTyped, InvitesTyped, DeletionsTyped
<1>4. ASSUME NEW w \in Workers, AccountsStep(w) PROVE AccountTyped'
  BY <1>4, UsersTypedStep, TokensTypedStep, InvitesTypedStep, DeletionsTypedStep, HandsTypedStep DEF AccountTyped
<1> QED BY <1>1, <1>2, <1>3, <1>4, AccountsMoves DEF AccountsNext

\* At the start there are the accounts of the scope.
LEMMA AccountTypedStart == ASSUME Init PROVE AccountTyped
<1>1. /\ user = [u \in Users |-> IF u \in scope.known THEN NewUser(u) ELSE NoUser]
      /\ tokens = <<>> /\ invites = <<>> /\ engaged = {} /\ deletions = {} /\ scope \in Scopes
  BY DEF Init, ControlInit, AccountsInit
<1>2. \A u \in scope.known : u \in Emails
  BY <1>1, AccountsAssumption
<1>3. UsersTyped
  BY <1>1, <1>2, NewRowTyped DEF UsersTyped
<1>4. \A w \in Workers : req[w].pc = "idle"
  BY IdleEntry DEF Init, ControlInit
<1> QED BY <1>1, <1>3, <1>4 DEF AccountTyped, TokensTyped, InvitesTyped, DeletionsTyped, HandTyped

(***************************************************************************)
(* The type invariant of the services                                      *)
(***************************************************************************)

\* At the start there are no files.
LEMMA FileTypesStart == ASSUME Init PROVE FileTypes
<1>1. kyc = "NONE" /\ quarantined = {} /\ \A w \in Workers : req[w].pc = "idle"
  BY IdleEntry DEF Init, FilesInit, ControlInit
<1> QED BY <1>1 DEF FileTypes, Reviews, InfectedLocal

\* Nor was any of their jobs handed out.
LEMMA AttemptsStart == ASSUME Init PROVE AttemptsTyped
  BY DEF Init, FilesInit, AttemptsTyped

\* At the start there are no fees.
LEMMA FeeTypesStart == ASSUME Init PROVE FeeTypes
<1>1. sponsored = <<>> /\ charged = <<>> /\ unrecorded = 0 /\ \A w \in Workers : req[w].pc = "idle"
  BY IdleEntry DEF Init, SponsorshipInit, ControlInit
<1>2. {<<>>} \subseteq Seq(FeeRow)
  OBVIOUS
<1> QED BY <1>1, <1>2 DEF FeeTypes, SponsorshipOK, FeeLocal

\* The operations taken up are counted from nought.
LEMMA CallsCounted == ASSUME ControlTypes PROVE calls \in Nat
<1>1. scope \in Scopes /\ calls \in 0..scope.calls
  BY DEF ControlTypes, ControlOK
<1> QED BY <1>1, HandlersAssumption

\* With the invariant of accounts, these are the types of their tables.
LEMMA AccountsTables == ASSUME AccountsInv, AccountTyped PROVE AccountsOK
<1>1. ASSUME NEW u \in Users
      PROVE  /\ DOMAIN user[u] = DOMAIN NoUser
             /\ user[u].email \in Emails \cup {0} /\ user[u].pending \in Emails \cup {0}
             /\ user[u].google \in Users \cup {0} /\ user[u].owner \in Users \cup {0}
             /\ \A f \in {"pw", "secret", "fails", "locked", "until", "deleted", "address"} : user[u][f] \in Nat
  <2>1. DOMAIN user[u] = Fields
    BY DEF AccountsInv, AccountRows, IsAccount
  <2>2. DOMAIN NoUser = Fields
    BY DEF NoUser, Fields
  <2>3. RowTyped(user[u])
    BY DEF AccountTyped, UsersTyped
  <2> QED BY <2>1, <2>2, <2>3 DEF RowTyped
<1>2. DOMAIN tokens \subseteq 1..minted /\ \A n \in DOMAIN tokens : tokens[n] \in Token
  BY DEF AccountsInv, TokenRows, AccountTyped, TokensTyped
<1>3. missed \in [Users -> Nat] /\ engaged \subseteq Users
  BY DEF AccountsInv, AccountRows, AccountTyped, DeletionsTyped
<1>4. \A i \in DOMAIN invites : invites[i] \in Invite
  BY DEF AccountTyped, InvitesTyped
<1>5. \A d \in deletions : d.user \in Users /\ d.done \in BOOLEAN
  BY DEF AccountTyped, DeletionsTyped, IsDeletion
<1> QED BY <1>1, <1>2, <1>3, <1>4, <1>5 DEF AccountsOK

\* What the parts' invariants say of the types of their tables: deliveries,
LEMMA DeliveryTables == ASSUME DeliveryInv, DeliveryTyped PROVE DeliveriesOK
<1>1. ASSUME NEW S, NEW rows \in Seq(S), NEW i \in DOMAIN rows PROVE rows[i] \in S
  OBVIOUS
<1>2. notes \in Seq(NoteRow) /\ batches \in Seq(BatchRow) /\ log \in Seq(LogRow)
  BY DEF DeliveryTyped, DeliveryRows, DeliveryInv, DeliveryTypes
<1>3. \A n \in DOMAIN notes : notes[n] \in NoteRow
  BY <1>1, <1>2
<1>4. \A b \in DOMAIN batches : batches[b] \in BatchRow
  BY <1>1, <1>2
<1>5. \A i \in DOMAIN log : log[i] \in LogRow
  BY <1>1, <1>2
<1>6. \A n \in DOMAIN notes : notes[n].topic \in Topics /\ notes[n].mailed \in BOOLEAN
  BY <1>3 DEF NoteRow
<1>7. \A b \in DOMAIN batches : batches[b].topic \in Topics /\ batches[b].count \in Nat \ {0}
  BY <1>4 DEF BatchRow
<1>8. \A i \in DOMAIN log : log[i].event \in Events /\ log[i].status \in {"FAILED", "RESENT"}
  BY <1>5 DEF LogRow
<1> QED BY <1>6, <1>7, <1>8 DEF DeliveriesOK, DeliveryTyped, DeliveryRows, JobTyped

\* the clocks of disputes,
LEMMA SlaTables == ASSUME SlaInv PROVE DisputeSlaOK
<1>1. ASSUME NEW d \in Cases
      PROVE  /\ DOMAIN clock[d] = DOMAIN NoCase
             /\ clock[d].status \in {"none", "active", "resolved"} /\ clock[d].stage \in 1..3
             /\ clock[d].appeal \in {"none", "open", "decided"}
             /\ clock[d].sla \in {"ON_TRACK", "OVERDUE", "MET"}
  <2>1. clock[d] \in Case
    BY DEF SlaInv, SlaTypes
  <2> QED BY <2>1 DEF Case, NoCase
<1> QED BY <1>1 DEF SlaInv, SlaTypes, DisputeSlaOK

\* uploaded files,
LEMMA FileTables == ASSUME FilesInv, SweepInv, FileTypes, AttemptsTyped PROVE FilesOK
  BY DEF AttemptsTyped, FilesInv, FileRows, Statuses, SweepInv, ScanRows, FileTypes, Reviews, FilesOK

\* companies, the credit ledger and the idempotency keys.
LEMMA OtherTables ==
    ASSUME CompaniesInv, CreditInv, IdempotencyInv
    PROVE  CompaniesOK /\ CreditOK /\ IdempotencyOK
<1>1. roles \in [Bosses -> [Bosses -> RoleNames]] /\ transfers \in Seq(Transfer)
  BY DEF CompaniesInv, CompanyRowsOK
<1>2. CompaniesOK
  BY <1>1 DEF CompaniesOK, RoleNames
<1>3. ledger = [c \in Payers |-> ledger[c]] /\ \A c \in Payers : ledger[c] \in Seq(Row)
  BY DEF CreditInv, BookOK
<1>4. CreditOK
  BY <1>3 DEF CreditOK
<1> QED BY <1>2, <1>4 DEF IdempotencyInv, IdempotencyTypes, IdempotencyOK

\* The tables of all the services, the program points of their handlers and the
\* bookkeeping of their requests keep their types, whatever handlers overlap, fail
\* or are cut short by a crash: a row that is written from what a handler has in
\* hand is always one its table may hold, however long ago the handler read it.
THEOREM ServicesTyped == Spec => []ServicesTypeOK
<1> DEFINE Tables == /\ AccountsInv /\ CompaniesInv /\ CreditInv /\ IdempotencyInv /\ DeliveryInv /\ SlaInv
                     /\ FilesInv /\ SweepInv
           Typed == Control /\ ControlTypes /\ AccountTyped /\ DeliveryTyped /\ FileTypes /\ AttemptsTyped
                    /\ FeeTypes
<1>1. Init => Tables
  BY AccountsStart, CompaniesStart, CreditStart, IdempotencyStart, DeliveryStart, SlaStart, FilesStart, SweepStart
<1>2. Init => Typed
  BY ControlStart, ControlTypesStart, AccountTypedStart, DeliveryTypedStart, FileTypesStart, AttemptsStart,
     FeeTypesStart
<1>3. Typed /\ Tables /\ [Next]_serviceVars => Tables'
  BY AccountsNextInv, CompaniesNextInv, CreditNextInv, IdempotencyNextInv, DeliveryNextInv, SlaNextInv,
     FilesNextInv, SweepNextInv
<1>4. Typed /\ Tables /\ [Next]_serviceVars => Typed'
  BY CallsCounted, ControlNext, ControlTypesNext, AccountTypedNext, DeliveryTypedNext, FileTypesNext, AttemptsNext,
     FeeTypesNext
<1>5. Typed /\ Tables => ServicesTypeOK
  BY AccountsTables, DeliveryTables, SlaTables, FileTables, OtherTables DEF ServicesTypeOK, ControlTypes, FeeTypes
<1> HIDE DEF Tables, Typed
<1> QED BY <1>1, <1>2, <1>3, <1>4, <1>5, PTL DEF Spec

(***************************************************************************)
(* The bound on sponsored fees                                             *)
(***************************************************************************)

\* A non-empty set of naturals has a least element.
LEMMA LeastNat ==
    ASSUME NEW T \in SUBSET Nat, T # {}
    PROVE  \E x \in T : \A y \in T : x <= y
<1> DEFINE R == OpToRel(<, Nat)
<1>1. IsWellFoundedOn(R, Nat)
  BY NatLessThanWellFounded
<1>2. \A x, y \in Nat : <<y, x>> \in R <=> y < x
  BY DEF OpToRel
<1> HIDE DEF R
<1>3. PICK x \in T : \A y \in T : ~ (<<y, x>> \in R)
  BY <1>1, WFMin
<1>4. ASSUME NEW y \in T PROVE x <= y
  <2>1. x \in Nat /\ y \in Nat
    OBVIOUS
  <2>2. ~ (y < x)
    BY <1>2, <1>3, <2>1
  <2> QED BY <2>1, <2>2
<1> QED BY <1>4

\* What a row adds to the fees of a day, and the function that adds up the first
\* rows: the one `Spent' defines, up to the k-th row.
FeeOn(r, d) == IF r.day = d THEN r.fee ELSE 0
Sums(f, rows, d, k) ==
    f = [n \in 0..k |-> IF n = 0 THEN 0 ELSE f[n - 1] + (IF rows[n].day = d THEN rows[n].fee ELSE 0)]

\* A row adds a natural number.
LEMMA FeeOnNat ==
    ASSUME NEW rows \in Seq(FeeRow), NEW i \in DOMAIN rows, NEW d
    PROVE  FeeOn(rows[i], d) \in Nat
<1>1. rows[i] \in FeeRow
  OBVIOUS
<1> QED BY <1>1 DEF FeeOn, FeeRow

\* The sum of no rows, and that of one row more.
LEMMA SumsAt ==
    ASSUME NEW rows, NEW d, NEW k \in Nat, NEW f, Sums(f, rows, d, k)
    PROVE  f[0] = 0 /\ \A n \in 1..k : f[n] = f[n - 1] + FeeOn(rows[n], d)
<1>1. ASSUME NEW n \in 0..k
      PROVE  f[n] = IF n = 0 THEN 0 ELSE f[n - 1] + (IF rows[n].day = d THEN rows[n].fee ELSE 0)
  BY DEF Sums
<1>2. 0 \in 0..k /\ \A n \in 1..k : n \in 0..k /\ n # 0
  OBVIOUS
<1> QED BY <1>1, <1>2 DEF FeeOn

\* The sums of k rows go on to k + 1 rows.
LEMMA SumsExtend ==
    ASSUME NEW rows \in Seq(FeeRow), NEW d, NEW k \in Nat, k + 1 \in DOMAIN rows,
           NEW f \in [0..k -> Nat], Sums(f, rows, d, k)
    PROVE  \E g \in [0..(k + 1) -> Nat] : Sums(g, rows, d, k + 1)
<1>1. PICK x \in Nat : x = f[k] + FeeOn(rows[k + 1], d)
  BY FeeOnNat
<1>2. PICK g : g = [n \in 0..(k + 1) |-> IF n = k + 1 THEN x ELSE f[n]]
  OBVIOUS
<1>3. \A n \in 0..k : g[n] = f[n] /\ n \in 0..(k + 1)
  BY <1>2
<1>4. g \in [0..(k + 1) -> Nat]
  BY <1>2
<1>5. ASSUME NEW n \in 0..(k + 1)
      PROVE  g[n] = IF n = 0 THEN 0 ELSE g[n - 1] + FeeOn(rows[n], d)
  <2>1. CASE n = 0
    BY <1>3, <2>1, SumsAt
  <2>2. CASE n \in 1..k
    <3>1. n - 1 \in 0..k /\ n \in 0..k /\ n # 0
      BY <2>2
    <3>2. f[n] = f[n - 1] + FeeOn(rows[n], d)
      BY <2>2, SumsAt
    <3> QED BY <1>3, <3>1, <3>2
  <2>3. CASE n = k + 1
    <3>1. n - 1 = k /\ n # 0 /\ k \in 0..k
      BY <2>3
    <3>2. g[n - 1] = f[k]
      BY <1>3, <3>1
    <3>3. g[n] = x
      BY <1>2, <2>3
    <3> QED BY <1>1, <2>3, <3>1, <3>2, <3>3
  <2> QED BY <2>1, <2>2, <2>3
<1>6. g = [n \in 0..(k + 1) |-> g[n]]
  BY <1>2
<1>7. Sums(g, rows, d, k + 1)
  BY <1>5, <1>6 DEF Sums, FeeOn
<1> QED BY <1>4, <1>7

\* There are sums, up to every row: else up to a first row there are none.
LEMMA SumsExist ==
    ASSUME NEW rows \in Seq(FeeRow), NEW d, NEW k \in 0..Len(rows)
    PROVE  \E f \in [0..k -> Nat] : Sums(f, rows, d, k)
<1> DEFINE Bad == {n \in 0..Len(rows) : ~ \E f \in [0..n -> Nat] : Sums(f, rows, d, n)}
<1>1. SUFFICES ASSUME k \in Bad PROVE FALSE
  OBVIOUS
<1>2. Len(rows) \in Nat /\ DOMAIN rows = 1..Len(rows) /\ Bad \subseteq Nat
  OBVIOUS
<1>3. PICK n \in Bad : \A y \in Bad : n <= y
  BY <1>1, <1>2, LeastNat
<1>4. n \in 0..Len(rows) /\ ~ \E f \in [0..n -> Nat] : Sums(f, rows, d, n)
  BY <1>3
<1>5. CASE n = 0
  <2>1. PICK f : f = [m \in 0..0 |-> 0]
    OBVIOUS
  <2>2. f \in [0..0 -> Nat] /\ \A m \in 0..0 : m = 0
    BY <2>1
  <2>3. Sums(f, rows, d, 0)
    BY <2>1, <2>2 DEF Sums
  <2> QED BY <1>4, <1>5, <2>2, <2>3
<1>6. CASE n # 0
  <2>1. PICK m : m = n - 1
    OBVIOUS
  <2>2. m \in 0..Len(rows) /\ m \in Nat /\ n = m + 1 /\ n \in DOMAIN rows /\ ~ (n <= m)
    BY <1>2, <1>4, <1>6, <2>1
  <2>3. m \notin Bad
    BY <1>3, <2>2
  <2>4. PICK f \in [0..m -> Nat] : Sums(f, rows, d, m)
    BY <2>2, <2>3
  <2> QED BY <1>4, <2>2, <2>4, SumsExtend
<1> QED BY <1>5, <1>6

\* Two runs of sums over the same rows are the same as far as both go.
LEMMA SumsAgree ==
    ASSUME NEW rows, NEW more, NEW d, NEW j \in Nat, NEW k \in Nat, NEW m \in Nat, j <= k, j <= m,
           \A i \in 1..j : rows[i] = more[i],
           NEW f, Sums(f, rows, d, k), NEW g, Sums(g, more, d, m)
    PROVE  f[j] = g[j]
<1> DEFINE Bad == {n \in 0..j : f[n] # g[n]}
<1>1. SUFFICES ASSUME j \in Bad PROVE FALSE
  OBVIOUS
<1>2. PICK n \in Bad : \A y \in Bad : n <= y
  <2>1. Bad \subseteq Nat
    OBVIOUS
  <2> QED BY <1>1, <2>1, LeastNat
<1>3. n \in 0..j /\ f[n] # g[n]
  BY <1>2
<1>4. n # 0
  <2>1. f[0] = 0 /\ g[0] = 0
    BY SumsAt
  <2> QED BY <1>3, <2>1
<1>5. PICK p : p = n - 1
  OBVIOUS
<1>6. p \in 0..j /\ ~ (n <= p) /\ n \in 1..j /\ n \in 1..k /\ n \in 1..m
  BY <1>3, <1>4, <1>5
<1>7. f[p] = g[p]
  BY <1>2, <1>6
<1>8. f[n] = f[p] + FeeOn(rows[n], d) /\ g[n] = g[p] + FeeOn(more[n], d)
  BY <1>5, <1>6, SumsAt
<1> QED BY <1>3, <1>6, <1>7, <1>8

\* What was spent is the last of the sums.
LEMMA SpentIs ==
    ASSUME NEW rows \in Seq(FeeRow), NEW d
    PROVE  \E f \in [0..Len(rows) -> Nat] : Sums(f, rows, d, Len(rows)) /\ Spent(rows, d) = f[Len(rows)]
<1>1. PICK k : k = Len(rows)
  OBVIOUS
<1>2. k \in Nat /\ k \in 0..k
  BY <1>1
<1>3. PICK f \in [0..k -> Nat] : Sums(f, rows, d, k)
  BY <1>1, <1>2, SumsExist
<1>4. PICK s : s = CHOOSE sum : Sums(sum, rows, d, k)
  OBVIOUS
<1>5. Sums(s, rows, d, k)
  BY <1>3, <1>4
<1>6. Spent(rows, d) = s[k]
  BY <1>1, <1>4 DEF Spent, Sums
<1>7. s[k] = f[k]
  BY <1>2, <1>3, <1>5, SumsAgree
<1> QED BY <1>1, <1>3, <1>6, <1>7

\* What was spent is a number,
LEMMA SpentNat ==
    ASSUME NEW rows \in Seq(FeeRow), NEW d
    PROVE  Spent(rows, d) \in Nat
<1>1. PICK f \in [0..Len(rows) -> Nat] : Spent(rows, d) = f[Len(rows)]
  BY SpentIs
<1> QED BY <1>1

\* nothing before the first row,
LEMMA SpentNone ==
    ASSUME NEW d PROVE Spent(<<>>, d) = 0
<1>1. <<>> \in Seq(FeeRow) /\ Len(<<>>) = 0
  OBVIOUS
<1>2. PICK rows : rows = <<>>
  OBVIOUS
<1>3. rows \in Seq(FeeRow) /\ Len(rows) = 0
  BY <1>1, <1>2
<1>4. PICK k \in Nat : k = 0
  OBVIOUS
<1>5. PICK f : Sums(f, rows, d, k) /\ Spent(rows, d) = f[k]
  BY <1>3, <1>4, SpentIs
<1>6. f[0] = 0
  BY <1>5, SumsAt
<1> QED BY <1>2, <1>4, <1>5, <1>6

\* and a row adds its fee.
LEMMA SpentMore ==
    ASSUME NEW rows \in Seq(FeeRow), NEW r \in FeeRow, NEW d
    PROVE  Spent(Append(rows, r), d) = Spent(rows, d) + FeeOn(r, d)
<1>1. PICK more : more = Append(rows, r)
  OBVIOUS
<1>2. PICK k \in Nat : k = Len(rows)
  OBVIOUS
<1>3. /\ k \in Nat /\ more \in Seq(FeeRow) /\ Len(more) = k + 1 /\ more[k + 1] = r
      /\ \A i \in 1..k : rows[i] = more[i]
  BY <1>1, <1>2
<1>4. PICK f \in [0..k -> Nat] : Sums(f, rows, d, k) /\ Spent(rows, d) = f[k]
  BY <1>2, SpentIs
<1>5. PICK m \in Nat : m = k + 1
  BY <1>2
<1>6. PICK g \in [0..m -> Nat] : Sums(g, more, d, m) /\ Spent(more, d) = g[m]
  BY <1>3, <1>5, SpentIs
<1>7. k \in Nat /\ k <= k /\ k <= m /\ m \in 1..m /\ m - 1 = k
  BY <1>2, <1>5
<1>8. Sums(g, more, d, m) /\ more[m] = r
  BY <1>3, <1>5, <1>6
<1>9. f[k] = g[k]
  <2>1. \A i \in 1..k : rows[i] = more[i]
    BY <1>3
  <2>2. Sums(f, rows, d, k) /\ Sums(g, more, d, m) /\ k <= k /\ k <= m
    BY <1>4, <1>7, <1>8
  <2> HIDE <1>1, <1>2
  <2> QED BY <2>1, <2>2, SumsAgree
<1>10. \A n \in 1..m : g[n] = g[n - 1] + FeeOn(more[n], d)
  BY <1>8, SumsAt
<1>11. g[m] = g[k] + FeeOn(r, d)
  BY <1>7, <1>8, <1>10
<1> QED BY <1>1, <1>4, <1>5, <1>6, <1>9, <1>11

\* A finite set of numbers has a bound: else a first element has none.
LEMMA FiniteBound ==
    ASSUME NEW T \in SUBSET Nat, IsFiniteSet(T)
    PROVE  \E b \in Nat : \A x \in T : x <= b
<1>1. PICK s \in Seq(T) : \A x \in T : \E n \in 1..Len(s) : s[n] = x
  BY DEF IsFiniteSet
<1>2. Len(s) \in Nat /\ \A n \in 1..Len(s) : s[n] \in Nat
  <2>1. Len(s) \in Nat /\ \A n \in 1..Len(s) : s[n] \in T
    OBVIOUS
  <2>2. \A x \in T : x \in Nat
    OBVIOUS
  <2> QED BY <2>1, <2>2
<1> DEFINE Bad == {n \in 0..Len(s) : ~ \E b \in Nat : \A i \in 1..n : s[i] <= b}
<1>3. Bad = {}
  <2>1. SUFFICES ASSUME Bad # {} PROVE FALSE
    OBVIOUS
  <2>2. Bad \subseteq Nat
    BY <1>2
  <2>3. PICK n \in Bad : \A y \in Bad : n <= y
    BY <2>1, <2>2, LeastNat
  <2>4. n \in 0..Len(s) /\ ~ \E b \in Nat : \A i \in 1..n : s[i] <= b
    BY <2>3
  <2>5. n # 0
    <3>1. n = 0 => \A i \in 1..n : s[i] <= 0
      BY <2>4
    <3> QED BY <2>4, <3>1
  <2>6. PICK m : m = n - 1
    OBVIOUS
  <2>7. m \in 0..Len(s) /\ ~ (n <= m) /\ n = m + 1 /\ n \in 1..Len(s)
    BY <1>2, <2>4, <2>5, <2>6
  <2>8. PICK b \in Nat : \A i \in 1..m : s[i] <= b
    BY <2>3, <2>7
  <2>9. PICK e : e = s[n]
    OBVIOUS
  <2> HIDE DEF Bad
  <2>10. e \in Nat /\ b + e \in Nat
    BY <1>2, <2>7, <2>9
  <2>11. ASSUME NEW i \in 1..n PROVE s[i] <= b + e
    <3>1. s[i] \in Nat
      BY <1>2, <2>7
    <3>2. CASE i = n
      <4>1. s[i] = e
        BY <2>9, <3>2
      <4> QED BY <2>10, <4>1
    <3>3. CASE i # n
      <4>1. i \in 1..m
        BY <2>7, <3>3
      <4>2. s[i] <= b
        BY <2>8, <4>1
      <4> QED BY <2>10, <3>1, <4>2
    <3> QED BY <3>2, <3>3
  <2> QED BY <2>4, <2>10, <2>11
<1>4. Len(s) \in 0..Len(s)
  BY <1>2
<1>5. PICK b \in Nat : \A i \in 1..Len(s) : s[i] <= b
  BY <1>3, <1>4
<1>6. \A x \in T : x <= b
  BY <1>1, <1>5
<1> QED BY <1>6

\* The greatest of finitely many numbers.
LEMMA GreatestOf ==
    ASSUME NEW T \in SUBSET Nat, IsFiniteSet(T), T # {}
    PROVE  Max(T) \in T /\ \A x \in T : x <= Max(T)
<1> DEFINE Bounds == {b \in Nat : \A x \in T : x <= b}
<1>1. Bounds # {} /\ Bounds \subseteq Nat
  BY FiniteBound
<1>2. PICK b \in Bounds : \A y \in Bounds : b <= y
  BY <1>1, LeastNat
<1>3. b \in Nat /\ \A x \in T : x <= b
  BY <1>2
<1>4. b \in T
  <2>1. SUFFICES ASSUME b \notin T PROVE FALSE
    OBVIOUS
  <2>2. PICK x : x \in T
    OBVIOUS
  <2>3. PICK c : c = b - 1
    OBVIOUS
  <2>4. c \in Nat /\ ~ (b <= c)
    BY <1>3, <2>1, <2>2, <2>3
  <2>5. ASSUME NEW y \in T PROVE y <= c
    BY <1>3, <2>1, <2>3
  <2> QED BY <1>2, <2>4, <2>5
<1>5. \A x \in T : b >= x
  BY <1>3
<1>6. \E x \in T : \A y \in T : x >= y
  BY <1>4, <1>5
<1>7. Max(T) \in T /\ \A y \in T : Max(T) >= y
  BY <1>6 DEF Max
<1> QED BY <1>7

\* The largest fee, and what n fees come to at most.
Most == Max(FeesCharged \cup {0})
Times(n) == n * Most

\* It is the largest.
LEMMA MostIs == Most \in Nat /\ \A fee \in FeesCharged : fee \in Nat /\ fee <= Most
<1>1. FeesCharged \cup {0} \subseteq Nat /\ IsFiniteSet(FeesCharged \cup {0}) /\ FeesCharged \cup {0} # {}
  BY SponsorshipAssumption, FS_AddElement
<1>2. Most \in FeesCharged \cup {0} /\ \A x \in FeesCharged \cup {0} : x <= Most
  BY <1>1, GreatestOf DEF Most
<1> QED BY <1>1, <1>2

\* Arithmetic of the fees.
LEMMA TimesIs ==
    ASSUME NEW n \in Nat, NEW m \in Nat
    PROVE  /\ Times(n) \in Nat /\ Times(n + m) = Times(n) + Times(m) /\ Times(1) = Most /\ Times(0) = 0
           /\ n <= m => Times(n) <= Times(m)
<1>1. Most \in Nat
  BY MostIs
<1>2. PICK k : k = Most
  OBVIOUS
<1>3. k \in Nat
  BY <1>1, <1>2
<1>4. n * k \in Nat /\ m * k \in Nat /\ (n + m) * k = n * k + m * k /\ 1 * k = k /\ 0 * k = 0
  BY <1>3
<1>5. ASSUME n <= m PROVE n * k <= m * k
  <2>1. PICK e \in Nat : m = n + e
    <3>1. m - n \in Nat /\ m = n + (m - n)
      BY <1>5
    <3> QED BY <3>1
  <2>2. m * k = n * k + e * k /\ e * k \in Nat
    BY <1>3, <2>1
  <2> QED BY <1>4, <2>2
<1> QED BY <1>2, <1>4, <1>5 DEF Times

\* Adding the stroops of one worker to those of others.
LEMMA PairsCount ==
    ASSUME NEW H, IsFiniteSet(H), NEW w, NEW fee \in Nat, \A k : <<w, k>> \notin H
    PROVE  /\ IsFiniteSet(H \cup ({w} \X (1..fee)))
           /\ Cardinality(H \cup ({w} \X (1..fee))) = Cardinality(H) + fee
<1>1. PICK P : P = {w} \X (1..fee)
  OBVIOUS
<1>2. IsFiniteSet(1..fee) /\ Cardinality(1..fee) = fee
  <2>1. IsFiniteSet(1..fee) /\ Cardinality(1..fee) = IF 1 > fee THEN 0 ELSE fee - 1 + 1
    BY FS_Interval
  <2> QED BY <2>1
<1>3. IsFiniteSet({w}) /\ Cardinality({w}) = 1
  BY FS_Singleton
<1>4. IsFiniteSet(P) /\ Cardinality(P) = fee
  <2>1. IsFiniteSet(P) /\ Cardinality(P) = Cardinality({w}) * Cardinality(1..fee)
    BY <1>1, <1>2, <1>3, FS_Product
  <2> QED BY <1>2, <1>3, <2>1
<1>5. H \cap P = {}
  BY <1>1
<1>6. Cardinality(H \cap P) = 0
  BY <1>5, FS_EmptySet
<1>7. IsFiniteSet(H \cup P) /\ Cardinality(H \cup P) = Cardinality(H) + Cardinality(P) - Cardinality(H \cap P)
  BY <1>4, FS_Union
<1>8. Cardinality(H) \in Nat
  BY FS_CardinalityType
<1> QED BY <1>1, <1>4, <1>6, <1>7, <1>8

\* The workers between the check of the budget and the record of the fee, and the
\* stroops that were charged to them and not recorded yet, as pairs.
UnsettledIn(q) == {w \in Workers : q[w].pc \in SponsorPoints}
HandIn(q) == {p \in Workers \X (1..Most) : q[p[1]].pc = "record" /\ p[2] <= q[p[1]].v.fee}

\* How many they are on a day: nobody carries a fee into the next.
Busy(q, t, d) == IF d = Day(t) THEN Cardinality(UnsettledIn(q)) ELSE 0
Hand(q, t, d) == IF d = Day(t) THEN Cardinality(HandIn(q)) ELSE 0

\* Charges that never will be recorded, at most; "record" in `upset' stands for a crash there.
Lost == unrecorded + (IF "record" \in upset THEN faults ELSE 0)
ChargedOn(d) == \E i \in DOMAIN charged : charged[i].day = d

\* What was charged was recorded, is in hand or is lost; and the last check of a day
\* left room for what every worker not in flight since may have added.
ChargeKnown == \A d \in Nat : Spent(charged, d) <= Spent(sponsored, d) + Hand(req, now, d) + Times(Lost)
CheckKept ==
    \A d \in Nat :
        ChargedOn(d) \/ Busy(req, now, d) # 0 =>
            Spent(sponsored, d) + Times(Busy(req, now, d)) <= SponsorCap - MaxFee + Times(Cardinality(Workers))
SpendInv == ChargeKnown /\ CheckKept /\ faults \in Nat

\* The counts are numbers, and every stroop in hand is one of a worker in flight.
LEMMA CountsOK ==
    ASSUME NEW q
    PROVE  /\ Cardinality(Workers) \in Nat /\ Cardinality(UnsettledIn(q)) \in 0..Cardinality(Workers)
           /\ IsFiniteSet(UnsettledIn(q)) /\ IsFiniteSet(HandIn(q)) /\ Cardinality(HandIn(q)) \in Nat
           /\ Cardinality(HandIn(q)) <= Times(Cardinality(UnsettledIn(q)))
<1>1. IsFiniteSet(Workers) /\ UnsettledIn(q) \subseteq Workers
  BY HandlersAssumption DEF UnsettledIn
<1>2. IsFiniteSet(UnsettledIn(q)) /\ Cardinality(UnsettledIn(q)) <= Cardinality(Workers)
  BY <1>1, FS_Subset
<1>3. Cardinality(Workers) \in Nat /\ Cardinality(UnsettledIn(q)) \in Nat
  BY <1>1, <1>2, FS_CardinalityType
<1>4. IsFiniteSet(1..Most) /\ Cardinality(1..Most) = Most
  <2>1. Most \in Nat
    BY MostIs
  <2>2. IsFiniteSet(1..Most) /\ Cardinality(1..Most) = IF 1 > Most THEN 0 ELSE Most - 1 + 1
    BY <2>1, FS_Interval
  <2> QED BY <2>1, <2>2
<1>5. PICK P : P = UnsettledIn(q) \X (1..Most)
  OBVIOUS
<1>6. IsFiniteSet(P) /\ Cardinality(P) = Times(Cardinality(UnsettledIn(q)))
  BY <1>2, <1>4, <1>5, FS_Product DEF Times
<1>7. HandIn(q) \subseteq P
  BY <1>5 DEF HandIn, UnsettledIn, SponsorPoints
<1>8. IsFiniteSet(HandIn(q)) /\ Cardinality(HandIn(q)) <= Cardinality(P)
  BY <1>6, <1>7, FS_Subset
<1>9. Cardinality(HandIn(q)) \in Nat
  BY <1>8, FS_CardinalityType
<1> QED BY <1>2, <1>3, <1>6, <1>8, <1>9

\* A worker takes up a transaction.
LEMMA OneMoreBusy ==
    ASSUME NEW q, NEW p, NEW w \in Workers, \A x \in Workers \ {w} : p[x] = q[x],
           q[w].pc \notin SponsorPoints, p[w].pc \in SponsorPoints
    PROVE  Cardinality(UnsettledIn(p)) = Cardinality(UnsettledIn(q)) + 1
<1>1. UnsettledIn(p) = UnsettledIn(q) \cup {w} /\ w \notin UnsettledIn(q)
  BY DEF UnsettledIn
<1> QED BY <1>1, CountsOK, FS_AddElement

\* Its fee comes into its hands.
LEMMA OneMoreFee ==
    ASSUME NEW q, NEW p, NEW w \in Workers, \A x \in Workers \ {w} : p[x] = q[x],
           q[w].pc # "record", p[w].pc = "record", p[w].v.fee \in FeesCharged
    PROVE  Cardinality(HandIn(p)) = Cardinality(HandIn(q)) + p[w].v.fee
<1>1. PICK fee \in FeesCharged : fee = p[w].v.fee
  OBVIOUS
<1>2. fee \in Nat /\ fee <= Most /\ Most \in Nat
  BY MostIs
<1>3. HandIn(p) = HandIn(q) \cup ({w} \X (1..fee))
  <2>1. ASSUME NEW x \in Workers, NEW k \in 1..Most
        PROVE  <<x, k>> \in HandIn(p) <=> <<x, k>> \in HandIn(q) \cup ({w} \X (1..fee))
    <3>1. CASE x = w
      BY <1>1, <1>2, <2>1, <3>1 DEF HandIn
    <3>2. CASE x # w
      BY <2>1, <3>2 DEF HandIn
    <3> QED BY <3>1, <3>2
  <2>2. HandIn(p) \subseteq Workers \X (1..Most) /\ HandIn(q) \subseteq Workers \X (1..Most)
    BY DEF HandIn
  <2>3. 1..fee \subseteq 1..Most
    BY <1>2
  <2>4. {w} \X (1..fee) \subseteq Workers \X (1..Most)
    BY <2>3
  <2>5. ASSUME NEW A, NEW B, A \subseteq Workers \X (1..Most), B \subseteq Workers \X (1..Most),
               \A x \in Workers, k \in 1..Most : <<x, k>> \in A <=> <<x, k>> \in B
        PROVE  A = B
    BY <2>5
  <2>6. HandIn(q) \cup ({w} \X (1..fee)) \subseteq Workers \X (1..Most)
    BY <2>2, <2>4
  <2> QED BY <2>1, <2>2, <2>5, <2>6
<1>4. \A k : <<w, k>> \notin HandIn(q)
  BY DEF HandIn
<1>5. IsFiniteSet(HandIn(q))
  BY CountsOK
<1>6. Cardinality(HandIn(q) \cup ({w} \X (1..fee))) = Cardinality(HandIn(q)) + fee
  BY <1>2, <1>4, <1>5, PairsCount
<1> QED BY <1>1, <1>3, <1>6

\* A worker that goes on without a fee leaves what is in hand.
LEMMA SameFees ==
    ASSUME NEW q, NEW p, NEW w \in Workers, \A x \in Workers \ {w} : p[x] = q[x],
           q[w].pc # "record", p[w].pc # "record"
    PROVE  HandIn(p) = HandIn(q)
<1>1. \A x \in Workers : /\ p[x].pc = "record" <=> q[x].pc = "record"
                         /\ p[x].pc = "record" => p[x] = q[x]
  BY DEF HandIn
<1>2. \A s \in Workers \X (1..Most) : s[1] \in Workers
  OBVIOUS
<1> QED BY <1>1, <1>2 DEF HandIn

\* One in flight stays so.
LEMMA SameBusy ==
    ASSUME NEW q, NEW p, NEW w \in Workers, \A x \in Workers \ {w} : p[x] = q[x],
           q[w].pc \in SponsorPoints <=> p[w].pc \in SponsorPoints
    PROVE  UnsettledIn(p) = UnsettledIn(q)
  BY DEF UnsettledIn

\* What is lost only grows, by one with every failure that loses a fee.
LEMMA LostGrows ==
    ASSUME unrecorded \in Nat, unrecorded' \in Nat, unrecorded <= unrecorded', upset \subseteq upset',
           faults \in Nat, faults' \in {faults, faults + 1}
    PROVE  /\ Lost \in Nat /\ Lost' \in Nat /\ Lost <= Lost'
           /\ unrecorded' = unrecorded + 1 => Lost + 1 <= Lost'
           /\ "record" \in upset' /\ faults' = faults + 1 => Lost + 1 <= Lost'
<1> DEFINE x == IF "record" \in upset THEN faults ELSE 0
           y == IF "record" \in upset' THEN faults' ELSE 0
<1>1. x \in Nat /\ y \in Nat /\ x <= y
  OBVIOUS
<1>2. "record" \in upset' /\ faults' = faults + 1 => x + 1 <= y
  OBVIOUS
<1>3. Lost = unrecorded + x /\ Lost' = unrecorded' + y
  BY DEF Lost
<1> HIDE DEF x, y
<1>4. \A a, b, m, n \in Nat : a <= b /\ m <= n =>
        /\ a + m \in Nat /\ b + n \in Nat /\ a + m <= b + n
        /\ b = a + 1 => (a + m) + 1 <= b + n
        /\ m + 1 <= n => (a + m) + 1 <= b + n
  OBVIOUS
<1>5. PICK a \in Nat, b \in Nat : a = unrecorded /\ b = unrecorded'
  OBVIOUS
<1>6. /\ a + x \in Nat /\ b + y \in Nat /\ a + x <= b + y
      /\ b = a + 1 => (a + x) + 1 <= b + y
      /\ x + 1 <= y => (a + x) + 1 <= b + y
  BY <1>1, <1>4, <1>5
<1>7. Lost = a + x /\ Lost' = b + y
  BY <1>3, <1>5
<1> QED BY <1>2, <1>5, <1>6, <1>7

\* The numbers of the invariant.
LEMMA CountsNat ==
    ASSUME NEW q, NEW t, NEW d
    PROVE  /\ Busy(q, t, d) \in Nat /\ Times(Busy(q, t, d)) \in Nat /\ Busy(q, t, d) <= Cardinality(Workers)
           /\ Hand(q, t, d) \in Nat /\ Cardinality(Workers) \in Nat /\ Times(Cardinality(Workers)) \in Nat
           /\ Hand(q, t, d) <= Times(Busy(q, t, d))
<1>1. Busy(q, t, d) \in {0, Cardinality(UnsettledIn(q))}
  BY DEF Busy
<1>2. 0 <= Cardinality(Workers) /\ Cardinality(Workers) \in Nat
      /\ Cardinality(UnsettledIn(q)) \in Nat /\ Cardinality(UnsettledIn(q)) <= Cardinality(Workers)
  BY CountsOK
<1>3. Busy(q, t, d) \in Nat /\ Busy(q, t, d) <= Cardinality(Workers)
  BY <1>1, <1>2
<1>4. Hand(q, t, d) \in Nat /\ Hand(q, t, d) <= Times(Busy(q, t, d))
  <2>1. CASE d = Day(t)
    BY <2>1, CountsOK DEF Hand, Busy
  <2>2. CASE d # Day(t)
    <3>1. Hand(q, t, d) = 0 /\ Busy(q, t, d) = 0
      BY <2>2 DEF Hand, Busy
    <3> QED BY <3>1, TimesIs
  <2> QED BY <2>1, <2>2
<1> QED BY <1>2, <1>3, <1>4, TimesIs

\* A step that charges and records nothing: what leaves a worker's hands is lost.
LEMMA BooksStand ==
    ASSUME SpendInv, SponsorshipOK, SponsorshipOK', sponsored' = sponsored, charged' = charged,
           faults' \in Nat, Lost \in Nat, Lost' \in Nat,
           \A d \in Nat : /\ Hand(req, now, d) + Times(Lost) <= Hand(req', now', d) + Times(Lost')
                          /\ Busy(req', now', d) <= Busy(req, now, d)
    PROVE  SpendInv'
<1>1. ASSUME NEW d \in Nat PROVE Spent(charged', d) <= Spent(sponsored', d) + Hand(req', now', d) + Times(Lost')
  <2>1. Spent(charged, d) <= Spent(sponsored, d) + Hand(req, now, d) + Times(Lost)
    BY DEF SpendInv, ChargeKnown
  <2>2. Spent(charged, d) \in Nat /\ Spent(sponsored, d) \in Nat
    BY SpentNat DEF SponsorshipOK
  <2>3. Hand(req, now, d) \in Nat /\ Hand(req', now', d) \in Nat /\ Times(Lost) \in Nat /\ Times(Lost') \in Nat
    BY CountsNat, TimesIs
  <2>4. Spent(charged', d) = Spent(charged, d) /\ Spent(sponsored', d) = Spent(sponsored, d)
    OBVIOUS
  <2>5. Hand(req, now, d) + Times(Lost) <= Hand(req', now', d) + Times(Lost')
    OBVIOUS
  <2> QED BY <2>1, <2>2, <2>3, <2>4, <2>5
<1>2. ASSUME NEW d \in Nat, ChargedOn(d)' \/ Busy(req', now', d) # 0
      PROVE  Spent(sponsored', d) + Times(Busy(req', now', d)) <= SponsorCap - MaxFee + Times(Cardinality(Workers))
  <2>1. Busy(req, now, d) \in Nat /\ Busy(req', now', d) \in Nat /\ Busy(req', now', d) <= Busy(req, now, d)
    BY CountsNat
  <2>2. ChargedOn(d) \/ Busy(req, now, d) # 0
    BY <1>2, <2>1 DEF ChargedOn
  <2>3. Spent(sponsored, d) + Times(Busy(req, now, d)) <= SponsorCap - MaxFee + Times(Cardinality(Workers))
    BY <2>2 DEF SpendInv, CheckKept
  <2>4. Times(Busy(req', now', d)) <= Times(Busy(req, now, d))
    BY <2>1, TimesIs
  <2>5. Times(Busy(req', now', d)) \in Nat /\ Times(Busy(req, now, d)) \in Nat /\ Times(Cardinality(Workers)) \in Nat
    BY CountsNat
  <2>6. Spent(sponsored, d) \in Nat /\ Spent(sponsored', d) = Spent(sponsored, d)
    BY SpentNat DEF SponsorshipOK
  <2>7. SponsorCap \in Nat /\ MaxFee \in Nat
    BY SponsorshipAssumption
  <2> QED BY <2>3, <2>4, <2>5, <2>6, <2>7
<1> QED BY <1>1, <1>2 DEF SpendInv, ChargeKnown, CheckKept

\* A transaction is charged: its fee is in hand or lost.
LEMMA BooksCharge ==
    ASSUME SpendInv, SponsorshipOK, SponsorshipOK', NEW fee \in FeesCharged, NEW r \in FeeRow,
           r = [day |-> Day(now), fee |-> fee],
           sponsored' = sponsored, charged' = Append(charged, r), faults' \in Nat, Lost \in Nat, Lost' \in Nat,
           Busy(req, now, Day(now)) # 0,
           \A d \in Nat :
             /\ Hand(req, now, d) + Times(Lost) + FeeOn(r, d) <= Hand(req', now', d) + Times(Lost')
             /\ Busy(req', now', d) <= Busy(req, now, d)
    PROVE  SpendInv'
<1>1. ASSUME NEW d \in Nat PROVE Spent(charged', d) <= Spent(sponsored', d) + Hand(req', now', d) + Times(Lost')
  <2>1. Spent(charged, d) <= Spent(sponsored, d) + Hand(req, now, d) + Times(Lost)
    BY DEF SpendInv, ChargeKnown
  <2>2. Spent(charged, d) \in Nat /\ Spent(sponsored, d) \in Nat
    BY SpentNat DEF SponsorshipOK
  <2>3. Hand(req, now, d) \in Nat /\ Hand(req', now', d) \in Nat /\ Times(Lost) \in Nat /\ Times(Lost') \in Nat
    BY CountsNat, TimesIs
  <2>4. Spent(charged', d) = Spent(charged, d) + FeeOn(r, d) /\ Spent(sponsored', d) = Spent(sponsored, d)
    BY SpentMore DEF SponsorshipOK
  <2>5. Hand(req, now, d) + Times(Lost) + FeeOn(r, d) <= Hand(req', now', d) + Times(Lost')
    OBVIOUS
  <2>6. FeeOn(r, d) \in Nat
    BY DEF FeeOn, FeeRow
  <2> QED BY <2>1, <2>2, <2>3, <2>4, <2>5, <2>6
<1>2. ASSUME NEW d \in Nat, ChargedOn(d)' \/ Busy(req', now', d) # 0
      PROVE  Spent(sponsored', d) + Times(Busy(req', now', d)) <= SponsorCap - MaxFee + Times(Cardinality(Workers))
  <2>1. Busy(req, now, d) \in Nat /\ Busy(req', now', d) \in Nat /\ Busy(req', now', d) <= Busy(req, now, d)
    BY CountsNat
  <2>2. ChargedOn(d) \/ Busy(req, now, d) # 0
    <3>1. CASE Busy(req', now', d) # 0
      BY <2>1, <3>1
    <3>2. CASE ChargedOn(d)'
      <4>1. PICK i \in DOMAIN charged' : charged'[i].day = d
        BY <3>2 DEF ChargedOn
      <4>2. charged \in Seq(FeeRow)
        BY DEF SponsorshipOK
      <4>3. (i \in DOMAIN charged /\ charged'[i] = charged[i]) \/ charged'[i] = r
        BY <4>1, <4>2
      <4>4. r.day = Day(now)
        OBVIOUS
      <4> QED BY <4>1, <4>3, <4>4 DEF ChargedOn
    <3> QED BY <1>2, <3>1, <3>2
  <2>3. Spent(sponsored, d) + Times(Busy(req, now, d)) <= SponsorCap - MaxFee + Times(Cardinality(Workers))
    BY <2>2 DEF SpendInv, CheckKept
  <2>4. Times(Busy(req', now', d)) <= Times(Busy(req, now, d))
    BY <2>1, TimesIs
  <2>5. Times(Busy(req', now', d)) \in Nat /\ Times(Busy(req, now, d)) \in Nat /\ Times(Cardinality(Workers)) \in Nat
    BY CountsNat
  <2>6. Spent(sponsored, d) \in Nat /\ Spent(sponsored', d) = Spent(sponsored, d)
    BY SpentNat DEF SponsorshipOK
  <2>7. SponsorCap \in Nat /\ MaxFee \in Nat
    BY SponsorshipAssumption
  <2> QED BY <2>3, <2>4, <2>5, <2>6, <2>7
<1> QED BY <1>1, <1>2 DEF SpendInv, ChargeKnown, CheckKept

\* A fee is recorded: it leaves the hands of its worker, who is done.
LEMMA BooksRecord ==
    ASSUME SpendInv, SponsorshipOK, SponsorshipOK', NEW fee \in FeesCharged, NEW r \in FeeRow,
           r = [day |-> Day(now), fee |-> fee],
           charged' = charged, sponsored' = Append(sponsored, r), faults' \in Nat, Lost \in Nat, Lost' = Lost,
           \A d \in Nat :
             /\ Hand(req, now, d) = Hand(req', now', d) + FeeOn(r, d)
             /\ Busy(req, now, d) = Busy(req', now', d) + (IF d = Day(now) THEN 1 ELSE 0)
    PROVE  SpendInv'
<1>1. ASSUME NEW d \in Nat PROVE Spent(charged', d) <= Spent(sponsored', d) + Hand(req', now', d) + Times(Lost')
  <2>1. Spent(charged, d) <= Spent(sponsored, d) + Hand(req, now, d) + Times(Lost)
    BY DEF SpendInv, ChargeKnown
  <2>2. Spent(charged, d) \in Nat /\ Spent(sponsored, d) \in Nat
    BY SpentNat DEF SponsorshipOK
  <2>3. Hand(req, now, d) \in Nat /\ Hand(req', now', d) \in Nat /\ Times(Lost) \in Nat /\ Times(Lost') = Times(Lost)
    BY CountsNat, TimesIs
  <2>4. Spent(charged', d) = Spent(charged, d) /\ Spent(sponsored', d) = Spent(sponsored, d) + FeeOn(r, d)
    BY SpentMore DEF SponsorshipOK
  <2>5. Hand(req, now, d) = Hand(req', now', d) + FeeOn(r, d)
    OBVIOUS
  <2>6. FeeOn(r, d) \in Nat
    BY DEF FeeOn, FeeRow
  <2> QED BY <2>1, <2>2, <2>3, <2>4, <2>5, <2>6
<1>2. ASSUME NEW d \in Nat, ChargedOn(d)' \/ Busy(req', now', d) # 0
      PROVE  Spent(sponsored', d) + Times(Busy(req', now', d)) <= SponsorCap - MaxFee + Times(Cardinality(Workers))
  <2>1. Busy(req, now, d) \in Nat /\ Busy(req', now', d) \in Nat
        /\ Busy(req, now, d) = Busy(req', now', d) + (IF d = Day(now) THEN 1 ELSE 0)
    BY CountsNat
  <2>2. ChargedOn(d) \/ Busy(req, now, d) # 0
    BY <1>2, <2>1 DEF ChargedOn
  <2>3. Spent(sponsored, d) + Times(Busy(req, now, d)) <= SponsorCap - MaxFee + Times(Cardinality(Workers))
    BY <2>2 DEF SpendInv, CheckKept
  <2>4. Times(Busy(req', now', d)) + FeeOn(r, d) <= Times(Busy(req, now, d))
    <3>1. CASE d = Day(now)
      <4>1. Busy(req, now, d) = Busy(req', now', d) + 1
        BY <2>1, <3>1
      <4>2. Times(Busy(req, now, d)) = Times(Busy(req', now', d)) + Most
        <5>1. PICK b \in Nat : b = Busy(req', now', d)
          BY <2>1
        <5>2. Times(b + 1) = Times(b) + Times(1) /\ Times(1) = Most
          BY TimesIs
        <5> QED BY <4>1, <5>1, <5>2
      <4>3. FeeOn(r, d) <= Most /\ FeeOn(r, d) \in Nat /\ Most \in Nat
        BY MostIs DEF FeeOn
      <4>4. Times(Busy(req', now', d)) \in Nat
        BY CountsNat
      <4> QED BY <4>2, <4>3, <4>4
    <3>2. CASE d # Day(now)
      <4>1. FeeOn(r, d) = 0 /\ Busy(req', now', d) = Busy(req, now, d)
        BY <2>1, <3>2 DEF FeeOn
      <4>2. Times(Busy(req, now, d)) \in Nat
        BY CountsNat
      <4> QED BY <4>1, <4>2
    <3> QED BY <3>1, <3>2
  <2>5. Times(Busy(req', now', d)) \in Nat /\ Times(Busy(req, now, d)) \in Nat /\ Times(Cardinality(Workers)) \in Nat
    BY CountsNat
  <2>6. Spent(sponsored, d) \in Nat /\ Spent(sponsored', d) = Spent(sponsored, d) + FeeOn(r, d) /\ FeeOn(r, d) \in Nat
    BY SpentNat, SpentMore DEF SponsorshipOK, FeeOn, FeeRow
  <2>7. SponsorCap \in Nat /\ MaxFee \in Nat
    BY SponsorshipAssumption
  <2> QED BY <2>3, <2>4, <2>5, <2>6, <2>7
<1> QED BY <1>1, <1>2 DEF SpendInv, ChargeKnown, CheckKept

\* What a step of another part does to the workers of this one: nothing, unless it is a crash.
FeesLeft ==
    /\ upset \subseteq upset' /\ faults' \in {faults, faults + 1}
    /\ now' = now \/ (Quiet /\ req' = req)
    /\ \/ \A w \in Workers : req[w].pc \in SponsorPoints \/ req'[w].pc \in SponsorPoints => req'[w] = req[w]
       \/ /\ now' = now
          /\ \E w \in Workers :
               /\ req[w].pc \in SponsorPoints /\ req'[w].pc \notin SponsorPoints
               /\ \A x \in Workers \ {w} : req'[x] = req[x]
               /\ req[w].pc \in upset' /\ faults' = faults + 1

\* A step of the sponsored fees, or one that leaves them.
LEMMA FeesMove ==
    ASSUME Control, [Next]_serviceVars
    PROVE  SponsorshipNext \/ (FeesLeft /\ UNCHANGED sponsorVars)
<1>1. CASE UNCHANGED serviceVars
  BY <1>1 DEF serviceVars, control, FeesLeft
<1>2. CASE (\E t \in scope.times : Later(t)) /\ UNCHANGED sponsorVars
  BY <1>2 DEF Later, FeesLeft
<1>3. ASSUME NEW M, M \in {AccountsPoints, CompaniesPoints, IdempotencyPoints, DeliveriesPoints, SlaPoints,
                          FilesPoints, CreditPoints, {}}, Steps(M)
      PROVE  FeesLeft
  <2>1. SponsorPoints \cap (M \cup {"idle"}) = {}
    BY <1>3 DEF CreditPoints, AccountsPoints, CompaniesPoints, IdempotencyPoints, DeliveriesPoints, SlaPoints,
                FilesPoints, SponsorPoints
  <2>2. upset \subseteq upset' /\ faults' \in {faults, faults + 1} /\ now' = now
    BY <1>3 DEF Steps
  <2>3. CASE req' = req
    BY <2>2, <2>3 DEF FeesLeft
  <2>4. ASSUME NEW w \in Workers, \A x \in Workers \ {w} : req'[x] = req[x],
               req[w].pc \in M \cup {"idle"} \/ ({"crash", req[w].pc} \subseteq upset' /\ faults' = faults + 1),
               req'[w].pc \in M \cup {"idle"}
        PROVE  FeesLeft
    <3>1. req'[w].pc \notin SponsorPoints
      BY <2>1, <2>4
    <3>2. CASE req[w].pc \in SponsorPoints
      <4>1. req[w].pc \in upset' /\ faults' = faults + 1
        BY <2>1, <2>4, <3>2
      <4> QED BY <2>2, <2>4, <3>1, <3>2, <4>1 DEF FeesLeft
    <3>3. CASE req[w].pc \notin SponsorPoints
      <4>1. \A x \in Workers : req[x].pc \in SponsorPoints \/ req'[x].pc \in SponsorPoints => req'[x] = req[x]
        BY <2>4, <3>1, <3>3
      <4> QED BY <2>2, <4>1 DEF FeesLeft
    <3> QED BY <3>2, <3>3
  <2> QED BY <1>3, <2>3, <2>4 DEF Steps
<1>4. CASE (\E w \in Workers : Crash(w)) /\ UNCHANGED sponsorVars
  BY <1>3, <1>4, CrashSteps DEF Control
<1> QED BY <1>1, <1>2, <1>3, <1>4, NextSteps

\* The bound survives the steps of the other parts and the crashes of its own handlers,
LEMMA SpendLeft ==
    ASSUME SpendInv, FeeTypes, FeesLeft, UNCHANGED sponsorVars
    PROVE  SpendInv'
<1>1. /\ sponsored' = sponsored /\ charged' = charged /\ unrecorded' = unrecorded
      /\ SponsorshipOK /\ SponsorshipOK' /\ unrecorded \in Nat /\ faults \in Nat /\ faults' \in Nat
  BY DEF sponsorVars, FeeTypes, SponsorshipOK, SpendInv, FeesLeft
<1>2. /\ Lost \in Nat /\ Lost' \in Nat /\ Lost <= Lost' /\ unrecorded <= unrecorded'
      /\ "record" \in upset' /\ faults' = faults + 1 => Lost + 1 <= Lost'
  <2>1. unrecorded' \in Nat /\ unrecorded <= unrecorded' /\ upset \subseteq upset' /\ faults' \in {faults, faults + 1}
    BY <1>1 DEF FeesLeft
  <2> QED BY <1>1, <2>1, LostGrows
<1>3. Times(Lost) \in Nat /\ Times(Lost') \in Nat /\ Times(Lost) <= Times(Lost')
  BY <1>2, TimesIs
<1>4. CASE now' # now
  <2>1. Quiet /\ req' = req
    BY <1>4 DEF FeesLeft
  <2>2. UnsettledIn(req) = {} /\ HandIn(req) = {}
    BY <2>1 DEF Quiet, At, UnsettledIn, HandIn, SponsorPoints
  <2>3. \A t, d : Busy(req, t, d) = 0 /\ Hand(req, t, d) = 0
    BY <2>2, FS_EmptySet DEF Busy, Hand
  <2>4. \A d \in Nat : /\ Hand(req, now, d) + Times(Lost) <= Hand(req', now', d) + Times(Lost')
                       /\ Busy(req', now', d) <= Busy(req, now, d)
    BY <1>3, <2>1, <2>3
  <2> QED BY <1>1, <1>2, <2>4, BooksStand
<1>5. ASSUME now' = now,
             \A w \in Workers : req[w].pc \in SponsorPoints \/ req'[w].pc \in SponsorPoints => req'[w] = req[w]
      PROVE  SpendInv'
  <2>1. UnsettledIn(req') = UnsettledIn(req)
    BY <1>5 DEF UnsettledIn
  <2>2. HandIn(req') = HandIn(req)
    <3>1. \A w \in Workers : /\ req'[w].pc = "record" <=> req[w].pc = "record"
                             /\ req'[w].pc = "record" => req'[w] = req[w]
      BY <1>5 DEF SponsorPoints
    <3>2. \A s \in Workers \X (1..Most) : s[1] \in Workers
      OBVIOUS
    <3> QED BY <3>1, <3>2 DEF HandIn
  <2>3. \A d \in Nat : Busy(req', now', d) = Busy(req, now, d) /\ Hand(req', now', d) = Hand(req, now, d)
    BY <1>5, <2>1, <2>2 DEF Busy, Hand
  <2>4. \A d \in Nat : Busy(req, now, d) \in Nat /\ Hand(req, now, d) \in Nat
    BY CountsNat
  <2>5. \A d \in Nat : /\ Hand(req, now, d) + Times(Lost) <= Hand(req', now', d) + Times(Lost')
                       /\ Busy(req', now', d) <= Busy(req, now, d)
    BY <1>3, <2>3, <2>4
  <2> QED BY <1>1, <1>2, <2>5, BooksStand
<1>6. ASSUME NEW w \in Workers, now' = now, req[w].pc \in SponsorPoints, req'[w].pc \notin SponsorPoints,
             \A x \in Workers \ {w} : req'[x] = req[x], req[w].pc = "record" => Lost + 1 <= Lost'
      PROVE  SpendInv'
    <2>1. Cardinality(UnsettledIn(req)) = Cardinality(UnsettledIn(req')) + 1
      <3>1. \A x \in Workers \ {w} : req[x] = req'[x]
        BY <1>6
      <3> QED BY <1>6, <3>1, OneMoreBusy
    <2>2. Cardinality(UnsettledIn(req')) \in Nat
      BY CountsOK
    <2>3. Cardinality(HandIn(req)) + Times(Lost) <= Cardinality(HandIn(req')) + Times(Lost')
      <3>1. CASE req[w].pc # "record"
        <4>1. HandIn(req') = HandIn(req)
          BY <1>6, <3>1, SameFees DEF SponsorPoints
        <4>2. Cardinality(HandIn(req)) \in Nat
          BY CountsOK
        <4> QED BY <1>3, <4>1, <4>2
      <3>2. CASE req[w].pc = "record"
        <4>1. PICK fee \in FeesCharged : fee = req[w].v.fee
          BY <3>2 DEF FeeTypes, FeeLocal
        <4>2. Cardinality(HandIn(req)) = Cardinality(HandIn(req')) + fee
          <5>1. \A x \in Workers \ {w} : req[x] = req'[x]
            BY <1>6
          <5>2. req'[w].pc # "record" /\ req[w].v.fee \in FeesCharged
            BY <1>6, <4>1 DEF SponsorPoints
          <5>3. Cardinality(HandIn(req)) = Cardinality(HandIn(req')) + req[w].v.fee
            BY <3>2, <5>1, <5>2, OneMoreFee
          <5> QED BY <4>1, <5>3
        <4>3. fee <= Most /\ fee \in Nat /\ Most \in Nat /\ Cardinality(HandIn(req')) \in Nat
          BY MostIs, CountsOK
        <4>4. Times(Lost) + Most <= Times(Lost')
          <5>1. Lost + 1 \in Nat /\ Lost + 1 <= Lost'
            BY <1>2, <1>6, <3>2
          <5>2. Times(Lost + 1) = Times(Lost) + Times(1) /\ Times(1) = Most
            BY <1>2, TimesIs
          <5>3. Times(Lost + 1) <= Times(Lost')
            BY <1>2, <5>1, TimesIs
          <5> QED BY <5>2, <5>3
        <4> QED BY <1>3, <4>2, <4>3, <4>4
      <3> QED BY <3>1, <3>2
    <2>4. ASSUME NEW d \in Nat
          PROVE  /\ Hand(req, now, d) + Times(Lost) <= Hand(req', now', d) + Times(Lost')
                 /\ Busy(req', now', d) <= Busy(req, now, d)
      <3>1. CASE d = Day(now)
        BY <1>6, <2>1, <2>2, <2>3, <3>1 DEF Hand, Busy
      <3>2. CASE d # Day(now)
        <4>1. Hand(req, now, d) = 0 /\ Hand(req', now', d) = 0 /\ Busy(req', now', d) = 0 /\ Busy(req, now, d) = 0
          BY <1>6, <3>2 DEF Hand, Busy
        <4> QED BY <1>3, <4>1
      <3> QED BY <3>1, <3>2
    <2> QED BY <1>1, <1>2, <2>4, BooksStand
<1>7. CASE now' = now
  BY <1>2, <1>5, <1>6, <1>7 DEF FeesLeft
<1> QED BY <1>4, <1>7

\* a request that finds room in the budget,
LEMMA SpendSubmit ==
    ASSUME Control, FeeTypes, SpendInv, NEW w \in Workers, Submit(w)
    PROVE  SpendInv'
<1>1. PICK v : CallNoting(w, "sponsor", "submit", v, {})
  BY DEF Submit, Call
<1>2. Mine(w) /\ req'[w].pc = "submit" /\ req[w].pc = "idle"
  BY <1>1, CallMine
<1>3. now' = now /\ faults' = faults /\ upset \subseteq upset'
  BY <1>1 DEF CallNoting
<1>4. sponsored' = sponsored /\ charged' = charged /\ unrecorded' = unrecorded
  BY DEF Submit, sponsorVars
<1>5. faults \in Nat /\ unrecorded \in Nat /\ sponsored \in Seq(FeeRow) /\ charged \in Seq(FeeRow)
  BY DEF SpendInv, FeeTypes, SponsorshipOK
<1>6. Lost \in Nat /\ Lost' \in Nat /\ Lost <= Lost'
  BY <1>3, <1>4, <1>5, LostGrows
<1>7. Times(Lost) \in Nat /\ Times(Lost') \in Nat /\ Times(Lost) <= Times(Lost')
  BY <1>6, TimesIs
<1>8. HandIn(req') = HandIn(req)
  BY <1>2, SameFees DEF Mine
<1>9. \A d \in Nat : Hand(req', now', d) = Hand(req, now, d) /\ Hand(req, now, d) \in Nat
  BY <1>3, <1>8, CountsNat DEF Hand
<1>10. ASSUME NEW d \in Nat PROVE Spent(charged', d) <= Spent(sponsored', d) + Hand(req', now', d) + Times(Lost')
  <2>1. Spent(charged, d) <= Spent(sponsored, d) + Hand(req, now, d) + Times(Lost)
    BY DEF SpendInv, ChargeKnown
  <2>2. Spent(charged, d) \in Nat /\ Spent(sponsored, d) \in Nat
    BY <1>5, SpentNat
  <2>3. Spent(charged', d) = Spent(charged, d) /\ Spent(sponsored', d) = Spent(sponsored, d)
    BY <1>4
  <2> QED BY <1>7, <1>9, <2>1, <2>2, <2>3
<1>11. ASSUME NEW d \in Nat, ChargedOn(d)' \/ Busy(req', now', d) # 0
       PROVE  Spent(sponsored', d) + Times(Busy(req', now', d)) <= SponsorCap - MaxFee + Times(Cardinality(Workers))
  <2>1. Spent(sponsored, d) \in Nat /\ Spent(sponsored', d) = Spent(sponsored, d)
    BY <1>4, <1>5, SpentNat
  <2>2. SponsorCap \in Nat /\ MaxFee \in Nat
    BY SponsorshipAssumption
  <2>3. /\ Busy(req', now', d) \in Nat /\ Cardinality(Workers) \in Nat /\ Busy(req', now', d) <= Cardinality(Workers)
        /\ Times(Busy(req', now', d)) \in Nat /\ Times(Cardinality(Workers)) \in Nat
    BY CountsNat
  <2>4. CASE d = Day(now)
    <3>1. Spent(sponsored, d) + MaxFee <= SponsorCap
      BY <2>4 DEF Submit, WithinBudget
    <3>2. Times(Busy(req', now', d)) <= Times(Cardinality(Workers))
      BY <2>3, TimesIs
    <3> QED BY <2>1, <2>2, <2>3, <3>1, <3>2
  <2>5. CASE d # Day(now)
    <3>1. Busy(req', now', d) = 0 /\ Busy(req, now, d) = 0
      BY <1>3, <2>5 DEF Busy
    <3>2. ChargedOn(d)
      BY <1>4, <1>11, <3>1 DEF ChargedOn
    <3>3. Spent(sponsored, d) + Times(Busy(req, now, d)) <= SponsorCap - MaxFee + Times(Cardinality(Workers))
      BY <3>2 DEF SpendInv, CheckKept
    <3> QED BY <2>1, <3>1, <3>3
  <2> QED BY <2>4, <2>5
<1> QED BY <1>3, <1>5, <1>10, <1>11 DEF SpendInv, ChargeKnown, CheckKept

\* the charge of the network,
LEMMA SpendCharge ==
    ASSUME Control, FeeTypes, FeeTypes', SpendInv, NEW w \in Workers, SubmitFeeBump(w)
    PROVE  SpendInv'
<1>1. PICK fee \in FeesCharged :
          /\ \/ GotoWith(w, "submit", "record", [fee |-> fee]) /\ unrecorded' = unrecorded
             \/ FailTo(w, "submit", "timeout", Idle) /\ unrecorded' = unrecorded + 1
          /\ sponsored' = sponsored /\ charged' = Append(charged, [day |-> Day(now), fee |-> fee])
  BY DEF SubmitFeeBump
<1>2. PICK r : r = [day |-> Day(now), fee |-> fee]
  OBVIOUS
<1>3. fee \in Nat /\ fee <= Most /\ Most \in Nat /\ Day(now) \in Nat /\ r \in FeeRow
  <2>1. Day(now) \in Nat
    BY SponsorshipAssumption DEF Control, Day
  <2> QED BY <1>2, <2>1, MostIs DEF FeeRow
<1>4. SponsorshipOK /\ SponsorshipOK' /\ faults \in Nat /\ unrecorded \in Nat /\ unrecorded' \in Nat
  BY DEF FeeTypes, SponsorshipOK, SpendInv
<1>5. now' = now /\ faults' \in {faults, faults + 1} /\ upset \subseteq upset' /\ Mine(w) /\ req[w].pc = "submit"
  <2>1. (\E v : GotoWith(w, "submit", "record", v)) \/ FailTo(w, "submit", "timeout", Idle)
    BY <1>1
  <2>2. Mine(w) /\ req[w].pc = "submit"
    BY <2>1, GotoWithMine, FailOwn
  <2> QED BY <2>1, <2>2 DEF GotoWith, Become, FailTo
<1>6. unrecorded <= unrecorded'
  BY <1>1, <1>4
<1>7. Lost \in Nat /\ Lost' \in Nat /\ Lost <= Lost' /\ (unrecorded' = unrecorded + 1 => Lost + 1 <= Lost')
  BY <1>4, <1>5, <1>6, LostGrows
<1>8. Times(Lost) \in Nat /\ Times(Lost') \in Nat /\ Times(Lost) <= Times(Lost')
  BY <1>7, TimesIs
<1>9. Cardinality(HandIn(req)) \in Nat /\ Cardinality(HandIn(req')) \in Nat
      /\ Cardinality(UnsettledIn(req)) \in Nat /\ Cardinality(UnsettledIn(req')) \in Nat
  BY CountsOK
<1>10. Cardinality(UnsettledIn(req)) # 0
  <2>1. w \in UnsettledIn(req)
    BY <1>5 DEF UnsettledIn, SponsorPoints
  <2>2. IsFiniteSet(UnsettledIn(req))
    BY CountsOK
  <2> QED BY <2>1, <2>2, FS_EmptySet
<1>11. /\ Cardinality(HandIn(req)) + Times(Lost) + fee <= Cardinality(HandIn(req')) + Times(Lost')
       /\ Cardinality(UnsettledIn(req')) <= Cardinality(UnsettledIn(req))
  <2>1. CASE GotoWith(w, "submit", "record", [fee |-> fee]) /\ unrecorded' = unrecorded
    <3>1. PICK v : v = [fee |-> fee]
      OBVIOUS
    <3>2. req'[w].pc = "record" /\ req'[w].v = v
      BY <2>1, <3>1, GotoWithMine
    <3>3. req'[w].v.fee = fee
      BY <3>1, <3>2
    <3>4. \A x \in Workers \ {w} : req'[x] = req[x]
      BY <1>5 DEF Mine
    <3>5. Cardinality(HandIn(req')) = Cardinality(HandIn(req)) + fee
      <4>1. req[w].pc # "record" /\ req'[w].v.fee \in FeesCharged
        BY <1>5, <3>3
      <4>2. Cardinality(HandIn(req')) = Cardinality(HandIn(req)) + req'[w].v.fee
        BY <3>2, <3>4, <4>1, OneMoreFee
      <4> QED BY <3>3, <4>2
    <3>6. UnsettledIn(req') = UnsettledIn(req)
      BY <1>5, <3>2, <3>4, SameBusy DEF SponsorPoints
    <3> QED BY <1>3, <1>8, <1>9, <3>5, <3>6
  <2>2. CASE FailTo(w, "submit", "timeout", Idle) /\ unrecorded' = unrecorded + 1
    <3>1. req'[w].pc = "idle"
      BY <2>2, FailOwn
    <3>2. \A x \in Workers \ {w} : req'[x] = req[x] /\ req[x] = req'[x]
      BY <1>5 DEF Mine
    <3>3. HandIn(req') = HandIn(req)
      BY <1>5, <3>1, <3>2, SameFees
    <3>4. Cardinality(UnsettledIn(req)) = Cardinality(UnsettledIn(req')) + 1
      <4>1. req'[w].pc \notin SponsorPoints /\ req[w].pc \in SponsorPoints
        BY <1>5, <3>1 DEF SponsorPoints
      <4> QED BY <3>2, <4>1, OneMoreBusy
    <3>5. Times(Lost) + Most <= Times(Lost')
      <4>1. Lost + 1 \in Nat /\ Lost + 1 <= Lost'
        BY <1>7, <2>2
      <4>2. Times(Lost + 1) = Times(Lost) + Times(1) /\ Times(1) = Most
        BY <1>7, TimesIs
      <4>3. Times(Lost + 1) <= Times(Lost')
        BY <1>7, <4>1, TimesIs
      <4> QED BY <4>2, <4>3
    <3> QED BY <1>3, <1>8, <1>9, <3>3, <3>4, <3>5
  <2> QED BY <1>1, <2>1, <2>2
<1>12. ASSUME NEW d \in Nat
       PROVE  /\ Hand(req, now, d) + Times(Lost) + FeeOn(r, d) <= Hand(req', now', d) + Times(Lost')
              /\ Busy(req', now', d) <= Busy(req, now, d)
  <2>1. r.day = Day(now) /\ r.fee = fee
    BY <1>2
  <2>2. CASE d = Day(now)
    BY <1>5, <1>11, <2>1, <2>2 DEF Hand, Busy, FeeOn
  <2>3. CASE d # Day(now)
    <3>1. Hand(req, now, d) = 0 /\ Hand(req', now', d) = 0 /\ Busy(req', now', d) = 0 /\ Busy(req, now, d) = 0
      BY <1>5, <2>3 DEF Hand, Busy
    <3>2. FeeOn(r, d) = 0
      BY <2>1, <2>3 DEF FeeOn
    <3> QED BY <1>8, <3>1, <3>2
  <2> QED BY <2>2, <2>3
<1>13. Busy(req, now, Day(now)) # 0 /\ faults' \in Nat
  BY <1>4, <1>5, <1>10 DEF Busy
<1>14. charged' = Append(charged, r) /\ sponsored' = sponsored
  BY <1>1, <1>2
<1> QED BY <1>2, <1>3, <1>4, <1>7, <1>12, <1>13, <1>14, BooksCharge

\* and the record of it, or its failure.
LEMMA SpendRecord ==
    ASSUME Control, FeeTypes, FeeTypes', SpendInv, NEW w \in Workers, RecordFee(w)
    PROVE  SpendInv'
<1>1. charged' = charged /\ (End(w, "record") \/ FailTo(w, "record", "db", Idle))
  BY DEF RecordFee
<1>2. Mine(w) /\ req'[w].pc = "idle" /\ req[w].pc = "record"
  BY <1>1, EndMine, FailOwn
<1>3. PICK fee \in FeesCharged : fee = req[w].v.fee
  BY <1>2 DEF FeeTypes, FeeLocal
<1>4. PICK r : r = [day |-> Day(now), fee |-> fee]
  OBVIOUS
<1>5. fee \in Nat /\ fee <= Most /\ Most \in Nat /\ Day(now) \in Nat /\ r \in FeeRow
  <2>1. Day(now) \in Nat
    BY SponsorshipAssumption DEF Control, Day
  <2> QED BY <1>4, <2>1, MostIs DEF FeeRow
<1>6. SponsorshipOK /\ SponsorshipOK' /\ faults \in Nat /\ unrecorded \in Nat /\ unrecorded' \in Nat
  BY DEF FeeTypes, SponsorshipOK, SpendInv
<1>7. now' = now /\ faults' \in {faults, faults + 1} /\ upset \subseteq upset'
  BY <1>1 DEF End, Become, FailTo
<1>8. \A x \in Workers \ {w} : req'[x] = req[x] /\ req[x] = req'[x]
  BY <1>2 DEF Mine
<1>9. Cardinality(HandIn(req)) = Cardinality(HandIn(req')) + fee
  <2>1. req'[w].pc # "record" /\ req[w].v.fee \in FeesCharged
    BY <1>2, <1>3
  <2>2. Cardinality(HandIn(req)) = Cardinality(HandIn(req')) + req[w].v.fee
    BY <1>2, <1>8, <2>1, OneMoreFee
  <2> QED BY <1>3, <2>2
<1>10. Cardinality(UnsettledIn(req)) = Cardinality(UnsettledIn(req')) + 1
  <2>1. req'[w].pc \notin SponsorPoints /\ req[w].pc \in SponsorPoints
    BY <1>2 DEF SponsorPoints
  <2> QED BY <1>8, <2>1, OneMoreBusy
<1>11. Cardinality(HandIn(req')) \in Nat /\ Cardinality(UnsettledIn(req')) \in Nat
  BY CountsOK
<1>12. r.day = Day(now) /\ r.fee = fee
  BY <1>4
<1>13. CASE End(w, "record") /\ unrecorded' = unrecorded /\ sponsored' = Append(sponsored, r)
  <2>1. Lost' = Lost
    BY <1>13 DEF End, Become, Lost
  <2>2. Lost \in Nat
    BY <1>6, <1>7, <1>13, LostGrows
  <2>3. ASSUME NEW d \in Nat
        PROVE  /\ Hand(req, now, d) = Hand(req', now', d) + FeeOn(r, d)
               /\ Busy(req, now, d) = Busy(req', now', d) + (IF d = Day(now) THEN 1 ELSE 0)
    <3>1. CASE d = Day(now)
      BY <1>7, <1>9, <1>10, <1>11, <1>12, <3>1 DEF Hand, Busy, FeeOn
    <3>2. CASE d # Day(now)
      <4>1. Hand(req, now, d) = 0 /\ Hand(req', now', d) = 0 /\ Busy(req', now', d) = 0 /\ Busy(req, now, d) = 0
        BY <1>7, <3>2 DEF Hand, Busy
      <4>2. FeeOn(r, d) = 0
        BY <1>12, <3>2 DEF FeeOn
      <4> QED BY <3>2, <4>1, <4>2
    <3> QED BY <3>1, <3>2
  <2>4. faults' \in Nat
    BY <1>6, <1>7
  <2> QED BY <1>1, <1>4, <1>5, <1>6, <1>13, <2>1, <2>2, <2>3, <2>4, BooksRecord
<1>14. CASE FailTo(w, "record", "db", Idle) /\ unrecorded' = unrecorded + 1 /\ sponsored' = sponsored
  <2>1. unrecorded <= unrecorded'
    BY <1>6, <1>14
  <2>2. Lost \in Nat /\ Lost' \in Nat /\ Lost + 1 <= Lost'
    BY <1>6, <1>7, <1>14, <2>1, LostGrows
  <2>3. Times(Lost) \in Nat /\ Times(Lost) + Most <= Times(Lost') /\ Times(Lost') \in Nat
    <3>1. Lost + 1 \in Nat
      BY <2>2
    <3>2. Times(Lost + 1) = Times(Lost) + Times(1) /\ Times(1) = Most
      BY <2>2, TimesIs
    <3>3. Times(Lost + 1) <= Times(Lost')
      BY <2>2, <3>1, TimesIs
    <3> QED BY <2>2, <3>2, <3>3, TimesIs
  <2>4. ASSUME NEW d \in Nat
        PROVE  /\ Hand(req, now, d) + Times(Lost) <= Hand(req', now', d) + Times(Lost')
               /\ Busy(req', now', d) <= Busy(req, now, d)
    <3>1. CASE d = Day(now)
      BY <1>5, <1>7, <1>9, <1>10, <1>11, <2>3, <3>1 DEF Hand, Busy
    <3>2. CASE d # Day(now)
      <4>1. Hand(req, now, d) = 0 /\ Hand(req', now', d) = 0 /\ Busy(req', now', d) = 0 /\ Busy(req, now, d) = 0
        BY <1>7, <3>2 DEF Hand, Busy
      <4> QED BY <1>5, <2>3, <4>1
    <3> QED BY <3>1, <3>2
  <2>5. faults' \in Nat
    BY <1>6, <1>7
  <2> QED BY <1>1, <1>6, <1>14, <2>2, <2>4, <2>5, BooksStand
<1> QED BY <1>3, <1>4, <1>13, <1>14 DEF RecordFee, Local

\* Every step keeps the books of the fees.
LEMMA SpendNext ==
    ASSUME Control, FeeTypes, SpendInv, [Next]_serviceVars
    PROVE  SpendInv'
<1>1. FeeTypes'
  BY FeeTypesNext
<1>2. CASE SponsorshipNext
  BY <1>1, <1>2, SpendSubmit, SpendCharge, SpendRecord DEF SponsorshipNext
<1>3. CASE FeesLeft /\ UNCHANGED sponsorVars
  BY <1>3, SpendLeft
<1> QED BY <1>2, <1>3, FeesMove

\* At the start nothing is charged, recorded or in hand.
LEMMA SpendStart == ASSUME Init PROVE SpendInv
<1>1. sponsored = <<>> /\ charged = <<>> /\ unrecorded = 0 /\ faults = 0 /\ upset = {}
  BY DEF Init, SponsorshipInit, ControlInit
<1>2. \A w \in Workers : req[w].pc = "idle"
  BY IdleEntry DEF Init, ControlInit
<1>3. UnsettledIn(req) = {} /\ HandIn(req) = {}
  BY <1>2 DEF UnsettledIn, HandIn, SponsorPoints
<1>4. \A d : Busy(req, now, d) = 0 /\ Hand(req, now, d) = 0
  BY <1>3, FS_EmptySet DEF Busy, Hand
<1>5. Lost = 0 /\ Times(0) = 0
  BY <1>1, TimesIs DEF Lost
<1>6. ChargeKnown
  BY <1>1, <1>4, <1>5, SpentNone DEF ChargeKnown
<1>7. \A d : ~ ChargedOn(d)
  BY <1>1 DEF ChargedOn
<1> QED BY <1>1, <1>4, <1>6, <1>7 DEF SpendInv, CheckKept

\* What the invariant says of the money.
LEMMA SpendMeans ==
    ASSUME FeeTypes, SpendInv
    PROVE  SpendBounded
<1>1. sponsored \in Seq(FeeRow) /\ charged \in Seq(FeeRow) /\ unrecorded \in Nat /\ faults \in Nat
  BY DEF FeeTypes, SponsorshipOK, SpendInv
<1>2. Lost \in Nat
  BY <1>1 DEF Lost
<1>3. ASSUME NEW d \in {r.day : r \in Range(charged)}
      PROVE  Spent(charged, d) <= SponsorCap - MaxFee + Times(Cardinality(Workers) + Lost)
  <2>1. PICK i \in DOMAIN charged : charged[i].day = d
    BY DEF Range
  <2>2. charged[i] \in FeeRow
    BY <1>1
  <2>3. d \in Nat /\ ChargedOn(d)
    BY <2>1, <2>2 DEF FeeRow, ChargedOn
  <2>4. Spent(charged, d) <= Spent(sponsored, d) + Hand(req, now, d) + Times(Lost)
    BY <2>3 DEF SpendInv, ChargeKnown
  <2>5. Spent(sponsored, d) + Times(Busy(req, now, d)) <= SponsorCap - MaxFee + Times(Cardinality(Workers))
    BY <2>3 DEF SpendInv, CheckKept
  <2>6. /\ Hand(req, now, d) \in Nat /\ Times(Busy(req, now, d)) \in Nat /\ Hand(req, now, d) <= Times(Busy(req, now, d))
        /\ Times(Cardinality(Workers)) \in Nat /\ Cardinality(Workers) \in Nat
    BY CountsNat
  <2>7. Times(Cardinality(Workers) + Lost) = Times(Cardinality(Workers)) + Times(Lost) /\ Times(Lost) \in Nat
    BY <1>2, <2>6, TimesIs
  <2>8. Spent(charged, d) \in Nat /\ Spent(sponsored, d) \in Nat
    BY <1>1, SpentNat
  <2>9. SponsorCap \in Nat /\ MaxFee \in Nat
    BY SponsorshipAssumption
  <2> QED BY <2>4, <2>5, <2>6, <2>7, <2>8, <2>9
<1> QED BY <1>3 DEF SpendBounded, Times, Most, Lost

\* The platform pays at most its daily cap and one fee for each request in flight and
\* for each charge that went unrecorded, for every number of requests and every fee
\* the network charges: the budget is checked on what is recorded, and what was
\* recorded since the last check of a day came from requests then in flight.
THEOREM SpendStaysBounded == Spec => []SpendBounded
<1> DEFINE Spend == Control /\ FeeTypes /\ SpendInv
<1>1. Init => Spend
  BY ControlStart, FeeTypesStart, SpendStart
<1>2. Spend /\ [Next]_serviceVars => Spend'
  BY ControlNext, FeeTypesNext, SpendNext
<1>3. Spend => SpendBounded
  BY SpendMeans
<1> HIDE DEF Spend
<1> QED BY <1>1, <1>2, <1>3, PTL DEF Spec
=============================================================================
