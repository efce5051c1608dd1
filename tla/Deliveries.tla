----------------------------- MODULE Deliveries -----------------------------
(***************************************************************************)
(* Notifications and webhooks on their way out: a notification is stored,  *)
(* mailed and, once per batch window, posted to the user's chat; an event  *)
(* of an engagement is posted to the company's webhook, whose deliveries   *)
(* are logged, resent and replayed.  All go through Redis queues (BullMQ,  *)
(* external), which hand a job out again after an error, up to a number of *)
(* attempts, and once after the worker that had it died.                   *)
(*                                                                         *)
(* Server-sent events, web push, preferences, payloads and signatures are  *)
(* left out; Slack, Discord and Teams are one chat.                        *)
(***************************************************************************)
EXTENDS Handlers

CONSTANTS
    Topics,    \* pairs of a user and a notification type
    Events,    \* engagement events that a company is told of
    BatchTime, \* batchWindowSeconds
    MaxTries   \* attempts of a job

ASSUME DeliveriesAssumption == BatchTime \in Nat /\ MaxTries \in Nat \ {0}

VARIABLES
    notes,     \* the Notification table, in the order of insertion
    batches,   \* the NotificationBatch table
    queue,     \* jobs that wait, are being worked on or were failed for stalling
    log,       \* the WebhookDelivery table
    subscribed, \* whether the company has a webhook subscription
    sent,      \* history: the webhook events that were put in the queue
    reached    \* history: the jobs whose message its receiver got

deliveryVars == <<notes, batches, queue, log, subscribed, sent, reached>>

\* A job is for a note or an event; `started' counts how often it was handed out
\* and `tries' how many of these attempts ended, with an error.
Job == [id : Seq(Nat), kind : {"mail", "chat", "hook"}, ref : Nat \cup Events, tries : Nat, started : Nat]

\* The program points of its handlers.
DeliveriesPoints == {"note", "mail", "findBatch", "countBatch", "openBatch", "chat", "enqueue",
    "resend", "mark", "post", "mailed", "log", "remove"}

DeliveriesOK ==
    /\ \A n \in DOMAIN notes : notes[n].topic \in Topics /\ notes[n].mailed \in BOOLEAN
    /\ \A b \in DOMAIN batches : batches[b].topic \in Topics /\ batches[b].count \in Nat \ {0}
    /\ \A j \in queue : j \in Job /\ j.tries < MaxTries
    /\ \A i \in DOMAIN log : log[i].event \in Events /\ log[i].status \in {"FAILED", "RESENT"}
    /\ subscribed \in BOOLEAN /\ sent \subseteq Events /\ \A r \in reached : r.kind \in {"mail", "chat", "hook"}

DeliveriesInit ==
    /\ notes = <<>> /\ batches = <<>> /\ queue = {} /\ log = <<>>
    /\ subscribed = FALSE /\ sent = {} /\ reached = {}

NewJob(id, kind, ref) == [id |-> id, kind |-> kind, ref |-> ref, tries |-> 0, started |-> 0]
Enqueue(job) == queue' = queue \cup {job}

-----------------------------------------------------------------------------
(* A notification *)

NotifyUser(w, t) ==
    /\ Call(w, "notify", "note", [t |-> t, id |-> calls])
    /\ UNCHANGED deliveryVars

CreateNote(w) ==
    /\ GotoWith(w, "note", "mail", [t |-> Local(w).t, id |-> Local(w).id, n |-> Len(notes) + 1])
    /\ notes' = Append(notes, [topic |-> Local(w).t, mailed |-> FALSE])
    /\ UNCHANGED <<batches, queue, log, subscribed, sent, reached>>

\* Without an email address, or with this type's emails switched off, no mail.
MailNote(w) ==
    /\ Goto(w, "mail", "findBatch")
    /\ UNCHANGED queue \/ Enqueue(NewJob(<<Local(w).id, 1>>, "mail", Local(w).n))
    /\ UNCHANGED <<notes, batches, log, subscribed, sent, reached>>

OpenBatches(t) == {b \in DOMAIN batches : batches[b].topic = t /\ batches[b].exp > now}

\* An open batch counts the event, which goes no further: nothing ever flushes a
\* batch.  Otherwise a new one is opened, and the event is posted to the chat.
FindBatch(w) ==
    LET open == OpenBatches(Local(w).t)
    IN  /\ At(w, "findBatch")
        /\ \/ \E b \in open : GotoWith(w, "findBatch", "countBatch", [b |-> b])
           \/ open = {} /\ Goto(w, "findBatch", "openBatch")
        /\ UNCHANGED deliveryVars

CountBatch(w) ==
    /\ End(w, "countBatch")
    /\ batches' = [batches EXCEPT ![Local(w).b].count = @ + 1]
    /\ UNCHANGED <<notes, queue, log, subscribed, sent, reached>>

OpenBatch(w) ==
    /\ Goto(w, "openBatch", "chat")
    /\ batches' = Append(batches, [topic |-> Local(w).t, count |-> 1, exp |-> now + BatchTime])
    /\ UNCHANGED <<notes, queue, log, subscribed, sent, reached>>

PostToChat(w) ==
    /\ End(w, "chat") /\ Enqueue(NewJob(<<Local(w).id, 2>>, "chat", Local(w).n))
    /\ UNCHANGED <<notes, batches, log, subscribed, sent, reached>>

-----------------------------------------------------------------------------
(* A webhook event, its resending and replaying *)

DispatchWebhook(w, e) ==
    /\ e \notin sent
    /\ Call(w, "dispatch", "enqueue", [e |-> e, id |-> calls])
    /\ UNCHANGED deliveryVars

SendWebhook(w) ==
    /\ End(w, "enqueue") /\ Enqueue(NewJob(<<Local(w).id, 0>>, "hook", Local(w).e))
    /\ sent' = sent \cup {Local(w).e}
    /\ UNCHANGED <<notes, batches, log, subscribed, reached>>

Subscribe ==
    /\ "replay" \in scope.ops /\ subscribed' = ~subscribed
    /\ UNCHANGED <<control, notes, batches, queue, log, sent, reached>>

\* An administrator resends one delivery, a subscriber all those logged so far.
ResendDelivery(w, i) ==
    /\ Call(w, "resend", "resend", [todo |-> <<i>>, id |-> calls])
    /\ UNCHANGED deliveryVars

ReplayDeliveries(w) ==
    /\ subscribed /\ log # <<>>
    /\ Call(w, "replay", "resend", [todo |-> [i \in DOMAIN log |-> i], id |-> calls])
    /\ UNCHANGED deliveryVars

SendAgain(w) ==
    LET v == Local(w)
    IN  /\ Goto(w, "resend", "mark")
        /\ Enqueue(NewJob(<<v.id, Head(v.todo)>>, "hook", log[Head(v.todo)].event))
        /\ UNCHANGED <<notes, batches, log, subscribed, sent, reached>>

MarkResent(w) ==
    LET rest == Tail(Local(w).todo)
    IN  /\ At(w, "mark")
        /\ IF rest = <<>> THEN End(w, "mark") ELSE GotoWith(w, "mark", "resend", [Local(w) EXCEPT !.todo = rest])
        /\ log' = [log EXCEPT ![Head(Local(w).todo)].status = "RESENT"]
        /\ UNCHANGED <<notes, batches, queue, subscribed, sent, reached>>

-----------------------------------------------------------------------------
(* The queue workers *)

Taken(j) == \E w \in Workers : req[w].op = "job" /\ Local(w).j.id = j.id

\* The worker died once too often: the queue fails the job, and as attempts are
\* left the handler of the failure returns without logging anything.
StalledOut(j) == ~Taken(j) /\ j.started - j.tries > MaxStalled

\* A job that its worker did not finish because it died is handed out again.
TakeJob(w, j) ==
    LET again == [j EXCEPT !.started = @ + 1]
    IN  /\ ~Taken(j) /\ ~StalledOut(j)
        /\ Call(w, "job", "post", [j |-> again])
        /\ queue' = (queue \ {j}) \cup {again}
        /\ UNCHANGED <<notes, batches, log, subscribed, sent, reached>>

ExhaustedBug(tries) == tries > MaxTries
Exhausted(tries) == tries >= MaxTries

AfterPostBug(j, ok) == IF j.kind = "mail" THEN "mailed" ELSE "none"

\* What the outcome of an attempt leaves to do: a mail's errors are swallowed, and
\* the last failed attempt of a delivery is logged.
AfterPost(j, ok) ==
    IF j.kind = "mail" THEN "mailed"
    ELSE IF j.kind = "hook" /\ ~ok /\ Exhausted(j.tries + 1) THEN "log" ELSE "none"

AfterAttempt(j, ok) ==
    IF j.kind = "mail" THEN queue
    ELSE (queue \ {j}) \cup IF ok \/ Exhausted(j.tries + 1) THEN {} ELSE {[j EXCEPT !.tries = @ + 1]}

\* The message is posted.  An error may come without it having reached its
\* receiver, or after (a time-out), and costs an attempt.  An accepted webhook
\* costs one as well: its duration is counted from a startTime that is not defined
\* there, which raises whenever metrics are taken, before a success is logged.
PostMessage(w) ==
    LET j == Local(w).j
        ok == j.kind # "hook"
        got == reached' = reached \cup {[kind |-> j.kind, ref |-> j.ref]}
        next(good) == IF AfterPost(j, good) = "none" THEN Idle ELSE [req[w] EXCEPT !.pc = AfterPost(j, good)]
    IN  /\ At(w, "post")
        /\ \/ Become(w, "post", next(ok)) /\ got /\ queue' = AfterAttempt(j, ok)
           \/ /\ FailTo(w, "post", "rpc", next(FALSE)) /\ (got \/ UNCHANGED reached)
              /\ queue' = AfterAttempt(j, FALSE)
        /\ UNCHANGED <<notes, batches, log, subscribed, sent>>

\* The note is marked as mailed, whether or not the mail went out.
MarkMailed(w) ==
    /\ End(w, "mailed")
    /\ notes' = [notes EXCEPT ![Local(w).j.ref].mailed = TRUE]
    /\ queue' = queue \ {Local(w).j}
    /\ UNCHANGED <<batches, log, subscribed, sent, reached>>

\* Failing to log is logged elsewhere.
RecordDelivery(w) ==
    /\ \/ End(w, "log") /\ log' = Append(log, [event |-> Local(w).j.ref, status |-> "FAILED"])
       \/ FailTo(w, "log", "db", Idle) /\ UNCHANGED log
    /\ UNCHANGED <<notes, batches, queue, subscribed, sent, reached>>

\* An administrator removes a scheduled job: one that waits for its next attempt.
RemoveScheduled(w, j) ==
    /\ j.tries > 0 /\ ~Taken(j) /\ ~StalledOut(j)
    /\ CallNoting(w, "remove", "remove", [j |-> j], {"removed"})
    /\ UNCHANGED deliveryVars

\* A job that a worker has taken in the meantime is locked: its removal raises.
RemoveJob(w) ==
    LET j == Local(w).j
    IN  /\ End(w, "remove")
        /\ queue' = IF Taken(j) THEN queue ELSE {x \in queue : x.id # j.id}
        /\ UNCHANGED <<notes, batches, log, subscribed, sent, reached>>

DeliveriesNext ==
    \/ \E w \in Workers :
         \/ \E t \in Topics : NotifyUser(w, t)
         \/ \E e \in Events : DispatchWebhook(w, e)
         \/ \E i \in DOMAIN log : ResendDelivery(w, i)
         \/ \E j \in queue : TakeJob(w, j) \/ RemoveScheduled(w, j)
         \/ CreateNote(w) \/ MailNote(w) \/ FindBatch(w) \/ CountBatch(w) \/ OpenBatch(w) \/ PostToChat(w)
         \/ SendWebhook(w) \/ ReplayDeliveries(w) \/ SendAgain(w) \/ MarkResent(w)
         \/ PostMessage(w) \/ MarkMailed(w) \/ RecordDelivery(w) \/ RemoveJob(w)
    \/ Subscribe

-----------------------------------------------------------------------------

HookJobs(e) == {j \in queue : j.kind = "hook" /\ j.ref = e}

UnderWay(e) ==
    \/ \E j \in HookJobs(e) : ~StalledOut(j)
    \/ \E w \in Workers : At(w, "log") /\ Local(w).j.ref = e

\* A webhook event that was put in the queue is on its way, has reached its
\* receiver or is in the log of failed deliveries, whatever attempts fail and
\* workers die, with one exception: an event whose job was handed out twice to
\* workers that died is dropped and logged nowhere.  Left aside are behaviours in
\* which an administrator removed a job or a log entry was lost.
EveryEventAccounted ==
    {"removed", "db", "log"} \cap upset = {} =>
        \A e \in sent :
            \/ UnderWay(e)
            \/ [kind |-> "hook", ref |-> e] \in reached
            \/ \E i \in DOMAIN log : log[i].event = e
            \/ \E j \in HookJobs(e) : StalledOut(j)
=============================================================================
