------------------------------- MODULE Files -------------------------------
(***************************************************************************)
(* Uploaded files: dispute evidence, attachments of dispute messages, KYC  *)
(* documents and avatars.  An upload puts an object into the bucket and    *)
(* then writes the row that refers to it; no transaction spans the two.    *)
(* Evidence and attachments are scanned by a queued job, which a sweep     *)
(* queues again where it was lost, and a nightly job deletes the old       *)
(* objects no row refers to.                                               *)
(***************************************************************************)
EXTENDS Handlers

CONSTANTS
    Uploads,      \* pairs of the operation that uploads a file and a number
    Infected,     \* the uploads the scanner finds something in
    ScanAttempts, \* attempts of a scan job
    SweepBatch,   \* SWEEP_BATCH_SIZE
    StaleTime,    \* STALE_PENDING_MS
    GraceTime     \* S3_CLEANUP_GRACE_PERIOD_HOURS

ASSUME FilesAssumption ==
    /\ Uploads \subseteq ({"evidenceFile", "messageFile", "kycFile", "avatarFile"} \X Nat)
    /\ Infected \subseteq Uploads /\ StaleTime \in Nat
    /\ {ScanAttempts, SweepBatch, GraceTime} \subseteq Nat \ {0}

VARIABLES
    object,      \* when the object of each upload was last put, 0 if it is not there
    quarantined, \* the uploads with an object under quarantine/
    file,        \* the row of each upload; that of an avatar is its user's avatarUrl
    kyc,         \* kycStatus of the recruiter
    scanJob,     \* attempts left of the scan job of each upload, 0 without a job
    unfinished,  \* how often that job was handed out and the attempt did not end
    signed,      \* when a presigned upload URL was given out
    placed,      \* history: the uploads whose object was ever put
    swept,       \* history: when the last sweep started, if it queued all it should
    exhausted    \* history: the uploads whose job failed for good since that sweep

fileVars == <<object, quarantined, file, kyc, scanJob, unfinished, signed, placed, swept, exhausted>>
scanVars == <<scanJob, unfinished, swept, exhausted>>

NoFile == [status |-> "none", at |-> 0]
Kind(f) == f[1]
Scanned(f) == Kind(f) \in {"evidenceFile", "messageFile"}

\* The program points of its handlers.
FilesPoints == {"put", "row", "enqueueScan", "review", "load", "scan", "clean", "infected", "copy",
    "removeMoved", "tellUploader", "sweep", "list", "refs", "delete"}

FilesOK ==
    /\ {object, signed} \subseteq [Uploads -> Nat] /\ quarantined \subseteq Infected
    /\ file \in [Uploads -> [status : {"none", "stored", "PENDING", "CLEAN", "INFECTED"}, at : Nat]]
    /\ kyc \in {"NONE", "PENDING", "APPROVED", "REJECTED"} /\ scanJob \in [Uploads -> 0..ScanAttempts]
    /\ unfinished \in [Uploads -> Int] /\ placed \subseteq Uploads /\ exhausted \subseteq Uploads /\ swept \in Nat

FilesInit ==
    /\ object = [f \in Uploads |-> 0] /\ scanJob = object /\ unfinished = object /\ signed = object
    /\ file = [f \in Uploads |-> NoFile] /\ kyc = "NONE" /\ swept = 0
    /\ quarantined = {} /\ placed = {} /\ exhausted = {}

-----------------------------------------------------------------------------
(* Uploads: every one has a key of its own *)

Fresh(f) ==
    /\ f \notin placed /\ signed[f] = 0 /\ file[f] = NoFile
    /\ \A w \in Workers : (req[w].op \in {Kind(f), "avatarUrl"}) => Local(w).f # f

\* uploadEvidence within the evidence window, createMessage with an attachment,
\* submitDocument and uploadAvatar.
UploadFile(w, f) ==
    /\ Fresh(f) /\ (Kind(f) = "kycFile" => kyc # "APPROVED")
    /\ Call(w, Kind(f), "put", [f |-> f])
    /\ UNCHANGED fileVars

PutObject(w) ==
    LET f == Local(w).f
    IN  /\ \/ /\ Goto(w, "put", "row")
              /\ object' = [object EXCEPT ![f] = now] /\ placed' = placed \cup {f}
           \/ FailTo(w, "put", "rpc", Idle) /\ UNCHANGED <<object, placed>>
        /\ UNCHANGED <<quarantined, file, kyc, scanVars, signed>>

\* getAvatarUploadUrl writes the row before its client has put anything.
AvatarUploadUrl(w, f) ==
    /\ Fresh(f) /\ Kind(f) = "avatarFile"
    /\ Call(w, "avatarUrl", "row", [f |-> f])
    /\ UNCHANGED fileVars

\* A document makes the recruiter's KYC pending in the same transaction; an
\* avatar takes the place of the one before.
InsertRow(w) ==
    LET f == Local(w).f
    IN  /\ At(w, "row")
        /\ \/ /\ IF Scanned(f) THEN Goto(w, "row", "enqueueScan") ELSE End(w, "row")
              /\ file' = [g \in Uploads |->
                   IF g = f THEN [status |-> IF Scanned(f) THEN "PENDING" ELSE "stored", at |-> now]
                   ELSE IF Kind(f) = "avatarFile" /\ Kind(g) = "avatarFile" THEN NoFile ELSE file[g]]
              /\ kyc' = IF Kind(f) = "kycFile" THEN "PENDING" ELSE kyc
              /\ signed' = [signed EXCEPT ![f] = IF req[w].op = "avatarUrl" THEN now ELSE @]
           \/ FailTo(w, "row", "db", Idle) /\ UNCHANGED <<file, kyc, signed>>
        /\ UNCHANGED <<object, quarantined, scanVars, placed>>

\* The client puts its avatar while the URL is valid, for an hour.
ClientPut(f) ==
    /\ signed[f] # 0 /\ signed[f] = now
    /\ object' = [object EXCEPT ![f] = now] /\ placed' = placed \cup {f}
    /\ UNCHANGED <<control, quarantined, file, kyc, scanVars, signed>>

\* A job of the same id that is still there is not added again.
Enqueued(f) ==
    /\ scanJob' = [scanJob EXCEPT ![f] = IF @ = 0 THEN ScanAttempts ELSE @]
    /\ unfinished' = [unfinished EXCEPT ![f] = IF scanJob[f] = 0 THEN 0 ELSE @]

EnqueueScan(w) ==
    /\ \/ End(w, "enqueueScan") /\ Enqueued(Local(w).f)
       \/ FailTo(w, "enqueueScan", "rpc", Idle) /\ UNCHANGED <<scanJob, unfinished>>
    /\ UNCHANGED <<object, quarantined, file, kyc, signed, placed, swept, exhausted>>

\* approve and reject: a document was counted, the status is written by id.
Review(w) ==
    /\ kyc = "PENDING"
    /\ Call(w, "review", "review", <<>>)
    /\ UNCHANGED fileVars

WriteReview(w) ==
    /\ End(w, "review") /\ kyc' \in {"APPROVED", "REJECTED"}
    /\ UNCHANGED <<object, quarantined, file, scanVars, signed, placed>>

-----------------------------------------------------------------------------
(* Scanning: one consumer at a time works on a job; one whose consumer died is *)
(* handed out again, and failed and removed when that happens once too often.  *)

Waits(f) == scanJob[f] > 0 /\ \A x \in Workers : req[x].op = "scan" => Local(x).f # f

ScanJob(w, f) ==
    /\ Waits(f) /\ unfinished[f] <= MaxStalled
    /\ Call(w, "scan", "load", [f |-> f])
    /\ unfinished' = [unfinished EXCEPT ![f] = @ + 1]
    /\ UNCHANGED <<object, quarantined, file, kyc, scanJob, signed, placed, swept, exhausted>>

FailStalled(f) ==
    /\ Waits(f) /\ unfinished[f] > MaxStalled
    /\ scanJob' = [scanJob EXCEPT ![f] = 0] /\ exhausted' = exhausted \cup {f}
    /\ UNCHANGED <<control, object, quarantined, file, kyc, unfinished, signed, placed, swept>>

\* Its end, and the end of an attempt that raised.
JobDone(f) == scanJob' = [scanJob EXCEPT ![f] = 0] /\ UNCHANGED <<unfinished, exhausted>>
JobFailed(f) ==
    /\ scanJob' = [scanJob EXCEPT ![f] = @ - 1]
    /\ unfinished' = [unfinished EXCEPT ![f] = @ - 1]
    /\ exhausted' = IF scanJob[f] = 1 THEN exhausted \cup {f} ELSE exhausted

LoadPendingTarget(w) ==
    LET f == Local(w).f
    IN  /\ At(w, "load")
        /\ IF file[f].status = "PENDING"
           THEN Goto(w, "load", "scan") /\ UNCHANGED <<scanJob, unfinished, exhausted>>
           ELSE End(w, "load") /\ JobDone(f)
        /\ UNCHANGED <<object, quarantined, file, kyc, signed, placed, swept>>

\* getObjectBuffer and the scanner, whose errors raise.
GetVerdict(w) ==
    LET f == Local(w).f
    IN  /\ At(w, "scan")
        /\ \/ /\ object[f] > 0
              /\ Goto(w, "scan", IF f \in Infected THEN "infected" ELSE "clean")
              /\ UNCHANGED <<scanJob, unfinished, exhausted>>
           \/ FailTo(w, "scan", "rpc", Idle) /\ JobFailed(f)
        /\ UNCHANGED <<object, quarantined, file, kyc, signed, placed, swept>>

MarkClean(w) ==
    LET f == Local(w).f
    IN  /\ End(w, "clean") /\ JobDone(f)
        /\ file' = [file EXCEPT ![f].status = "CLEAN"]
        /\ UNCHANGED <<object, quarantined, kyc, signed, placed, swept>>

\* The verdict first, with the key the object will have.
MarkInfected(w) ==
    /\ Goto(w, "infected", "copy")
    /\ file' = [file EXCEPT ![Local(w).f].status = "INFECTED"]
    /\ UNCHANGED <<object, quarantined, kyc, scanVars, signed, placed>>

\* moveObject, whose failure is logged.
CopyObject(w) ==
    LET f == Local(w).f
    IN  /\ At(w, "copy")
        /\ \/ object[f] > 0 /\ Goto(w, "copy", "removeMoved") /\ quarantined' = quarantined \cup {f}
           \/ object[f] = 0 /\ Goto(w, "copy", "tellUploader") /\ UNCHANGED quarantined
           \/ FailTo(w, "copy", "rpc", [req[w] EXCEPT !.pc = "tellUploader"]) /\ UNCHANGED quarantined
        /\ UNCHANGED <<object, file, kyc, scanVars, signed, placed>>

RemoveObject(w) ==
    LET f == Local(w).f
    IN  /\ \/ Goto(w, "removeMoved", "tellUploader") /\ object' = [object EXCEPT ![f] = 0]
           \/ FailTo(w, "removeMoved", "rpc", [req[w] EXCEPT !.pc = "tellUploader"]) /\ UNCHANGED object
        /\ UNCHANGED <<quarantined, file, kyc, scanVars, signed, placed>>

\* The uploader is notified; if that raises, the next attempt finds no target.
TellUploader(w) ==
    LET f == Local(w).f
    IN  /\ \/ End(w, "tellUploader") /\ JobDone(f)
           \/ FailTo(w, "tellUploader", "db", Idle) /\ JobFailed(f)
        /\ UNCHANGED <<object, quarantined, file, kyc, signed, placed, swept>>

StalePendingBug(k) ==
    {f \in Uploads : Kind(f) = k /\ file[f].status = "PENDING" /\ file[f].at + StaleTime >= now}
StalePending(k) == {f \in Uploads : Kind(f) = k /\ file[f].status = "PENDING" /\ file[f].at + StaleTime < now}
Batch(k) == kSubset(Min({SweepBatch, Cardinality(StalePending(k))}), StalePending(k))

SweepPending(w) ==
    /\ \E e \in Batch("evidenceFile"), m \in Batch("messageFile") :
         CallNoting(w, "sweep", "sweep",
                    [todo |-> e \cup m, all |-> <<e, m>> = <<StalePending("evidenceFile"), StalePending("messageFile")>>],
                    IF Running("sweep") THEN {"twoSweeps"} ELSE {})
    /\ swept' = 0 /\ exhausted' = {}
    /\ UNCHANGED <<object, quarantined, file, kyc, scanJob, unfinished, signed, placed>>

\* One job at a time; an error ends the run.
SweepOne(w) ==
    LET v == Local(w)
    IN  /\ At(w, "sweep")
        /\ \E f \in v.todo :
             \/ GotoWith(w, "sweep", "sweep", [v EXCEPT !.todo = @ \ {f}]) /\ Enqueued(f) /\ UNCHANGED swept
             \/ FailTo(w, "sweep", "rpc", Idle) /\ swept' = 0 /\ UNCHANGED <<scanJob, unfinished>>
        /\ UNCHANGED <<object, quarantined, file, kyc, signed, placed, exhausted>>

SweptAll(w) ==
    /\ At(w, "sweep") /\ Local(w).todo = {} /\ End(w, "sweep")
    /\ swept' = IF Local(w).all THEN now ELSE 0
    /\ UNCHANGED <<object, quarantined, file, kyc, scanJob, unfinished, signed, placed, exhausted>>

-----------------------------------------------------------------------------
(* The nightly cleanup, one prefix after the other; disputes/ and quarantine/ *)
(* are not among them                                                         *)

Cleaned == <<"avatarFile", "evidenceFile", "kycFile">>

OldEnoughBug(f) == object[f] > 0
OldEnough(f) == object[f] > 0 /\ object[f] + GraceTime <= now
ReferredTo(f) == file[f].status \notin {"none", "INFECTED"}

Cleanup(w) ==
    /\ Call(w, "cleanup", "list", [n |-> 1, todo |-> {}])
    /\ UNCHANGED fileVars

ListObjects(w) ==
    LET v == Local(w)
    IN  /\ GotoWith(w, "list", "refs",
             [v EXCEPT !.todo = {f \in Uploads : Kind(f) = Cleaned[v.n] /\ OldEnough(f)}])
        /\ UNCHANGED fileVars

\* The references are read after the listing.
ReadReferences(w) ==
    LET v == Local(w)
    IN  /\ GotoWith(w, "refs", "delete", [v EXCEPT !.todo = {f \in @ : ~ReferredTo(f)}])
        /\ UNCHANGED fileVars

DeleteOrphan(w) ==
    LET v == Local(w)
    IN  /\ At(w, "delete")
        /\ \E f \in v.todo :
             \/ /\ GotoWith(w, "delete", "delete", [v EXCEPT !.todo = @ \ {f}])
                /\ object' = [object EXCEPT ![f] = 0]
             \/ FailTo(w, "delete", "rpc", Idle) /\ UNCHANGED object
        /\ UNCHANGED <<quarantined, file, kyc, scanVars, signed, placed>>

NextPrefix(w) ==
    LET v == Local(w)
    IN  /\ At(w, "delete") /\ v.todo = {}
        /\ IF v.n < Len(Cleaned) THEN GotoWith(w, "delete", "list", [v EXCEPT !.n = @ + 1])
           ELSE End(w, "delete")
        /\ UNCHANGED fileVars

FilesNext ==
    \/ \E f \in Uploads : ClientPut(f) \/ FailStalled(f)
    \/ \E w \in Workers :
         \/ \E f \in Uploads : UploadFile(w, f) \/ AvatarUploadUrl(w, f) \/ ScanJob(w, f)
         \/ PutObject(w) \/ InsertRow(w) \/ EnqueueScan(w) \/ Review(w) \/ WriteReview(w)
         \/ LoadPendingTarget(w) \/ GetVerdict(w) \/ MarkClean(w) \/ MarkInfected(w)
         \/ CopyObject(w) \/ RemoveObject(w) \/ TellUploader(w)
         \/ SweepPending(w) \/ SweepOne(w) \/ SweptAll(w)
         \/ Cleanup(w) \/ ListObjects(w) \/ ReadReferences(w) \/ DeleteOrphan(w) \/ NextPrefix(w)

-----------------------------------------------------------------------------

\* The nightly cleanup, which lists, reads the references and deletes beside
\* uploads, scans and another run, never deletes an object that was put and that
\* a row refers to.  What is quarantined is kept as well, unless the move
\* failed or the cleanup came upon it.
StoredFilesKept ==
    \A f \in placed :
        /\ ReferredTo(f) => object[f] > 0
        /\ (file[f].status = "INFECTED" /\ {"overlap", "rpc", "crash"} \cap upset = {})
              => (f \in quarantined \/ object[f] > 0)

\* No upload stays out of the queue: once a sweep went through, each upload that
\* was overdue when it started has its verdict or a job, whatever was lost before
\* (a crash between row and job, a failing queue, a job failed for good) and whatever
\* scans and uploads it overlapped, unless its job failed for good since the sweep
\* started (the next sweep's case) or one of two sweeps at a time failed.
UploadsScanned ==
    (~Running("sweep") /\ ("twoSweeps" \in upset => {"rpc", "sweep"} \cap upset = {})) =>
        \A f \in Uploads \ exhausted :
            (file[f].status = "PENDING" /\ file[f].at + StaleTime < swept) => scanJob[f] > 0
=============================================================================
