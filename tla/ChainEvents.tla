----------------------------- MODULE ChainEvents -----------------------------
(***************************************************************************)
(* How events of the escrow contract reach the database: the poller        *)
(* (EventsService), the indexer (HorizonIndexerService), the retry job     *)
(* (ChainEventRetryService), the dead-letter queue and the Redis lock      *)
(* (DistributedLockService) that keeps replicas from running one job       *)
(* twice.                                                                  *)
(*                                                                         *)
(* A worker is a cron tick or an admin request in flight on a replica; one *)
(* action is one database statement, transaction or RPC call of it.  What  *)
(* a handler does to milestones and engagements is the count of its runs.  *)
(* Events are numbered in the order of the chain's log, and a ledger's     *)
(* events become visible together.  A fetch that fails returns no events   *)
(* and changes nothing, like a tick that does not win the lock.            *)
(*                                                                         *)
(* An operator whose name ends in Bug is a wrong variant of the definition *)
(* that follows it; no specification uses it.                              *)
(***************************************************************************)
EXTENDS Integers, FiniteSets

CONSTANTS
    Workers,      \* ticks and requests in flight
    Replicas,     \* processes of the backend
    Replica,      \* Replica[w]: the process that runs w
    Duties,       \* Duties[w]: the jobs and requests w may be an instance of
    MaxEvent,     \* bound: events of the contract
    Ledger,       \* Ledger[e]: the ledger that emits event e
    Tx,           \* Tx[e]: hash of the transaction that emits e
    Name,         \* Name[e]: name of the event
    MaxLedger,    \* bound: ledgers
    MaxRows,      \* bound: rows ever created in chain_events
    Lookback,     \* ledgers a fresh cursor starts behind the tip (10)
    FetchLimit,   \* events one RPC call returns at most (100)
    MaxRetries,   \* MAX_RETRIES (5)
    Faults,       \* the kinds of failure that may happen
    MaxFaults     \* bound: number of failures

Events == 1..MaxEvent
RowIds == 1..MaxRows
Crons == {"poll", "index", "retry"}         \* jobs that take the lock
Requests == {"manual", "backfill"}          \* admin routes that do not
Kinds == Crons \cup Requests
FaultKinds == {"handler", "db", "redis", "ttl", "crash"}

ASSUME WorkersAssumption ==
    Replica \in [Workers -> Replicas] /\ Duties \in [Workers -> SUBSET Kinds]
ASSUME ChainAssumption ==
    /\ MaxEvent \in Nat
    /\ Ledger \in [Events -> Nat \ {0}]
    /\ \A e, f \in Events : e < f => Ledger[e] <= Ledger[f]
    /\ DOMAIN Tx = Events /\ DOMAIN Name = Events
ASSUME BoundsAssumption ==
    /\ MaxLedger \in Nat /\ MaxRows \in Nat /\ Lookback \in Nat
    /\ FetchLimit \in Nat /\ MaxRetries \in Nat \ {0} /\ MaxFaults \in Nat
    /\ Faults \subseteq FaultKinds

VARIABLES
    ledger,     \* the latest closed ledger
    rows,       \* table chain_events
    dead,       \* table dead_letter_events, by originalId: the event, or 0
    cursor,     \* lastProcessedLedger of each replica, in memory
    idxCursor,  \* system_config horizon_last_ledger; 0 = no row
    origin,     \* history: the latest ledger a fresh idxCursor started from
    cut,        \* history: events the indexer's cursor passes unread, since an
                \* answer ended at FetchLimit inside their ledger
    lock,       \* is the Redis key of a job set
    run,        \* what each worker is doing
    handled,    \* history: how often the handler of an event ran
    faults      \* failures so far

tables == <<rows, dead>>
vars == <<ledger, tables, cursor, idxCursor, origin, cut, lock, run, handled, faults>>

-----------------------------------------------------------------------------
(* Types *)

Row == [ev : 0..MaxEvent, processed : BOOLEAN, retry : Nat, cooling : BOOLEAN]
NoRow == [ev |-> 0, processed |-> FALSE, retry |-> 0, cooling |-> FALSE]

\* What a loop iterates over: an event of the chain (id = 0), or a row of
\* chain_events as it was when the batch was read.
Item == [ev : 0..MaxEvent, id : 0..MaxRows, retry : Nat, cooling : BOOLEAN]
NoItem == [ev |-> 0, id |-> 0, retry |-> 0, cooling |-> FALSE]

Labels == {"idle", "read", "tip", "fetch", "next", "check", "find", "create",
           "handle", "mark", "fail", "bury", "move", "cursor", "release"}

\* token: the value stored under the lock's key is this run's; row: the
\* chain_events row in hand; top: the indexer's fromLedger, later its maxLedger.
Run == [pc : Labels, kind : Kinds, token : BOOLEAN, todo : SUBSET Item,
        item : Item, row : 0..MaxRows, top : Nat]
Idle == [pc |-> "idle", kind |-> "poll", token |-> FALSE, todo |-> {},
         item |-> NoItem, row |-> 0, top |-> 0]

\* Every variable keeps its type.
TypeOK ==
    /\ ledger \in Nat
    /\ rows \in [RowIds -> Row]
    /\ dead \in [RowIds -> 0..MaxEvent]
    /\ cursor \in [Replicas -> Nat]
    /\ idxCursor \in Nat /\ origin \in Nat /\ cut \subseteq Events
    /\ lock \in [Crons -> BOOLEAN]
    /\ run \in [Workers -> Run]
    /\ handled \in [Events -> Nat]
    /\ faults \in Nat

Init ==
    /\ ledger = 1
    /\ rows = [i \in RowIds |-> NoRow]
    /\ dead = [i \in RowIds |-> 0]
    /\ cursor = [r \in Replicas |-> 1]
    /\ idxCursor = 0 /\ origin = 0 /\ cut = {}
    /\ lock = [k \in Crons |-> FALSE]
    /\ run = [w \in Workers |-> Idle]
    /\ handled = [e \in Events |-> 0]
    /\ faults = 0

-----------------------------------------------------------------------------
(* Control of a worker, the chain and the tables *)

At(w, label) == run[w].pc = label
Become(w, r) == run' = [run EXCEPT ![w] = r]
Goto(w, label) == Become(w, [run[w] EXCEPT !.pc = label])
\* On to the next item of the batch; or out of the loop.
Loop(w) == Become(w, [run[w] EXCEPT !.pc = "next", !.item = NoItem, !.row = 0])
Leave(w) == Become(w, [Idle EXCEPT !.pc = "release", !.kind = run[w].kind,
                                   !.token = run[w].token])
Fault(kind) == kind \in Faults /\ faults < MaxFaults /\ faults' = faults + 1

Larger(a, b) == IF a < b THEN b ELSE a

StartBug == ledger - Lookback

\* Math.max(1, latest - 10)
Start == Larger(1, ledger - Lookback)

\* getEvents: the first FetchLimit events of a range of ledgers.
Fetch(from, to) ==
    LET found == {e \in Events : from <= Ledger[e] /\ Ledger[e] <= to /\ Ledger[e] <= ledger}
    IN  {e \in found : Cardinality({f \in found : f <= e}) <= FetchLimit}

Exists(i) == rows[i].ev # 0
SameTx(e, f) == Tx[e] = Tx[f]
SameKey(e, f) == Tx[e] = Tx[f] /\ Name[e] = Name[f]

\* The rows findFirst may return for (txHash, eventName).
Matching(e) == {i \in RowIds : Exists(i) /\ SameKey(rows[i].ev, e)}

-----------------------------------------------------------------------------
(* DistributedLockService *)

\* A tick of job k wins the lock, or Redis fails and the lock fails open.  The
\* indexer also keeps an isRunning flag per process.
TryAcquireLock(w, k) ==
    /\ At(w, "idle") /\ k \in Duties[w]
    /\ k = "index" => \A v \in Workers :
          ~(Replica[v] = Replica[w] /\ run[v].kind = "index" /\ ~At(v, "idle"))
    /\ \/ /\ ~lock[k] /\ lock' = [lock EXCEPT ![k] = TRUE]
          /\ Become(w, [Idle EXCEPT !.pc = "read", !.kind = k, !.token = TRUE])
          /\ UNCHANGED faults
       \/ /\ Fault("redis")
          /\ Become(w, [Idle EXCEPT !.pc = "read", !.kind = k])
          /\ UNCHANGED lock
    /\ UNCHANGED <<ledger, tables, cursor, idxCursor, origin, cut, handled>>

AfterReleaseBug(r) == [lock EXCEPT ![r.kind] = FALSE]

\* RELEASE_SCRIPT: delete the key only if it holds this run's token.
AfterRelease(r) == IF r.token THEN [lock EXCEPT ![r.kind] = FALSE] ELSE lock

ReleaseLock(w) ==
    /\ At(w, "release")
    /\ \/ run[w].kind \in Crons /\ lock' = AfterRelease(run[w]) /\ UNCHANGED faults
       \/ run[w].kind \in Crons /\ Fault("redis") /\ UNCHANGED lock
       \/ run[w].kind \in Requests /\ UNCHANGED <<lock, faults>>
    /\ Become(w, Idle)
    /\ UNCHANGED <<ledger, tables, cursor, idxCursor, origin, cut, handled>>

\* The TTL of a key runs out: under a slow holder, or after the holder died.
Expire(k) ==
    LET holders == {w \in Workers : run[w].kind = k /\ run[w].token}
    IN  /\ lock[k]
        /\ lock' = [lock EXCEPT ![k] = FALSE]
        /\ IF holders = {} THEN UNCHANGED faults ELSE Fault("ttl")
        /\ run' = [w \in Workers |-> IF w \in holders
                                     THEN [run[w] EXCEPT !.token = FALSE] ELSE run[w]]
        /\ UNCHANGED <<ledger, tables, cursor, idxCursor, origin, cut, handled>>

-----------------------------------------------------------------------------
(* Reading a batch *)

EventItem(e) == [NoItem EXCEPT !.ev = e]
RowItem(i) == [ev |-> rows[i].ev, id |-> i, retry |-> rows[i].retry,
               cooling |-> rows[i].cooling]
Unprocessed == {i \in RowIds : Exists(i) /\ ~rows[i].processed}

BeginBatch(w, todo, top) ==
    IF todo = {} THEN Leave(w)
    ELSE Become(w, [run[w] EXCEPT !.pc = "next", !.todo = todo, !.top = top])

\* One past the last ledger of a batch: the cursor once all of it is stored.
Beyond(from, batch) ==
    IF batch = {} THEN from
    ELSE Larger(from, 1 + Ledger[CHOOSE e \in batch : \A f \in batch : f <= e])

PollEvents(w) ==
    /\ At(w, "read") /\ run[w].kind = "poll"
    /\ BeginBatch(w, {EventItem(e) : e \in Fetch(cursor[Replica[w]], ledger)}, 0)
    /\ UNCHANGED <<ledger, tables, cursor, idxCursor, origin, cut, lock, handled, faults>>

\* The persisted cursor; without a row, the indexer asks for the tip.
ReadCursor(w) ==
    /\ At(w, "read") /\ run[w].kind = "index"
    /\ IF idxCursor = 0 THEN Goto(w, "tip")
       ELSE Become(w, [run[w] EXCEPT !.pc = "fetch", !.top = idxCursor])
    /\ UNCHANGED <<ledger, tables, cursor, idxCursor, origin, cut, lock, handled, faults>>

\* The first cursor, ten ledgers behind the tip; an upsert, whoever was faster.
InitCursor(w) ==
    /\ At(w, "tip")
    /\ idxCursor' = Start /\ origin' = Larger(origin, Start)
    /\ Become(w, [run[w] EXCEPT !.pc = "fetch", !.top = Start])
    /\ UNCHANGED <<ledger, tables, cursor, cut, lock, handled, faults>>

IndexEvents(w) ==
    LET from == run[w].top
        batch == Fetch(from, ledger)
        passed == {e \in Events : from <= Ledger[e] /\ Ledger[e] < Beyond(from, batch)}
    IN  /\ At(w, "fetch")
        /\ BeginBatch(w, {EventItem(e) : e \in batch}, Beyond(from, batch))
        /\ cut' = cut \cup (passed \ batch)
        /\ UNCHANGED <<ledger, tables, cursor, idxCursor, origin, lock, handled, faults>>

CandidatesBug == {i \in Unprocessed : 0 < rows[i].retry /\ rows[i].retry < MaxRetries}
Candidates == {i \in Unprocessed : rows[i].retry < MaxRetries}

RetryUnprocessed(w) ==
    /\ At(w, "read") /\ run[w].kind = "retry"
    /\ BeginBatch(w, {RowItem(i) : i \in Candidates}, 0)
    /\ UNCHANGED <<ledger, tables, cursor, idxCursor, origin, cut, lock, handled, faults>>

\* POST /events/process-unprocessed
ProcessUnprocessedEvents(w) ==
    /\ At(w, "idle") /\ "manual" \in Duties[w]
    /\ Become(w, [Idle EXCEPT !.pc = "next", !.kind = "manual",
                              !.todo = {RowItem(i) : i \in Unprocessed}])
    /\ UNCHANGED <<ledger, tables, cursor, idxCursor, origin, cut, lock, handled, faults>>

\* POST /events/backfill
BackfillEvents(w, from, to) ==
    /\ At(w, "idle") /\ "backfill" \in Duties[w] /\ from <= to
    /\ Become(w, [Idle EXCEPT !.pc = "next", !.kind = "backfill",
                              !.todo = {EventItem(e) : e \in Fetch(from, to)}])
    /\ UNCHANGED <<ledger, tables, cursor, idxCursor, origin, cut, lock, handled, faults>>

-----------------------------------------------------------------------------
(* The loops, processEvent and persistEvent *)

\* An event loop follows the log; a row loop is ordered by ledger only.
Precedes(i, j) == IF i.id = 0 THEN i.ev <= j.ev ELSE Ledger[i.ev] <= Ledger[j.ev]

\* Still inside the backoff after its last failure (isEligible).
BacksOff(item) == item.cooling /\ rows[item.id].cooling

EndBatch(w) ==
    /\ At(w, "next") /\ run[w].todo = {}
    /\ IF run[w].kind = "index" THEN Goto(w, "cursor") ELSE Leave(w)
    /\ UNCHANGED <<ledger, tables, cursor, idxCursor, origin, cut, lock, handled, faults>>

NextItem(w) ==
    /\ At(w, "next")
    /\ \E item \in run[w].todo :
          /\ \A other \in run[w].todo : Precedes(item, other)
          /\ IF run[w].kind = "retry" /\ BacksOff(item)
             THEN Become(w, [run[w] EXCEPT !.todo = @ \ {item}])
             ELSE Become(w, [run[w] EXCEPT
                     !.todo = @ \ {item}, !.item = item,
                     !.pc = IF run[w].kind \in {"index", "backfill"} THEN "find"
                            ELSE "check"])
    /\ UNCHANGED <<ledger, tables, cursor, idxCursor, origin, cut, lock, handled, faults>>

\* The item is dealt with; the poller moves its cursor past the event's ledger.
Advance(w) ==
    cursor' = IF run[w].kind # "poll" THEN cursor
              ELSE [cursor EXCEPT ![Replica[w]] = Larger(@, Ledger[run[w].item.ev] + 1)]

CatchBug(w) == IF run[w].kind = "retry" THEN Goto(w, "fail") ELSE Loop(w)

\* Where an exception is caught: retryUnprocessed records it, the manual route
\* goes on, pollEvents and the indexer give up the rest of the batch.
Catch(w) == CASE run[w].kind = "retry" -> Goto(w, "fail")
              [] run[w].kind = "manual" -> Loop(w)
              [] OTHER -> Leave(w)

\* processEvent skips an event when a row of its transaction is processed.
AlreadyProcessed(e) == \E i \in RowIds : Exists(i) /\ rows[i].processed /\ SameTx(rows[i].ev, e)

CheckProcessed(w) ==
    LET e == run[w].item.ev
    IN  /\ At(w, "check")
        /\ IF AlreadyProcessed(e) THEN Loop(w) /\ Advance(w)
           ELSE Goto(w, "find") /\ UNCHANGED cursor
        /\ UNCHANGED <<ledger, tables, idxCursor, origin, cut, lock, handled, faults>>

FindRow(w) ==
    LET e == run[w].item.ev
        stores == run[w].kind \in {"index", "backfill"}
    IN  /\ At(w, "find")
        /\ \/ Matching(e) = {} /\ Goto(w, "create") /\ UNCHANGED cursor
           \/ Matching(e) # {} /\ stores /\ Loop(w) /\ UNCHANGED cursor
           \/ \E i \in Matching(e) : ~stores /\
                 IF rows[i].processed THEN Loop(w) /\ Advance(w)
                 ELSE /\ Become(w, [run[w] EXCEPT !.pc = "handle", !.row = i])
                      /\ UNCHANGED cursor
        /\ UNCHANGED <<ledger, tables, idxCursor, origin, cut, lock, handled, faults>>

\* Ids are uuids: never used before.
Fresh(i) == ~Exists(i) /\ dead[i] = 0 /\ \A j \in RowIds : j < i => Exists(j) \/ dead[j] # 0

SaveRawEvent(w) ==
    /\ At(w, "create")
    /\ \/ \E i \in RowIds :
             /\ Fresh(i)
             /\ rows' = [rows EXCEPT ![i] = [NoRow EXCEPT !.ev = run[w].item.ev]]
             /\ IF run[w].kind \in {"index", "backfill"} THEN Loop(w)
                ELSE Become(w, [run[w] EXCEPT !.pc = "handle", !.row = i])
             /\ UNCHANGED faults
       \/ Fault("db") /\ Catch(w) /\ UNCHANGED rows
    /\ UNCHANGED <<ledger, dead, cursor, idxCursor, origin, cut, lock, handled>>

HandleBug(w) ==
    /\ At(w, "handle") /\ Goto(w, "mark")
    /\ UNCHANGED <<ledger, tables, cursor, idxCursor, origin, cut, lock, handled, faults>>

\* The handler writes through its own connection, so its effects stay whatever
\* becomes of the transaction around it.
Handle(w) ==
    LET e == run[w].item.ev
    IN  /\ At(w, "handle")
        /\ \/ /\ handled' = [handled EXCEPT ![e] = @ + 1]
              /\ Goto(w, "mark") /\ UNCHANGED faults
           \/ Fault("handler") /\ Catch(w) /\ UNCHANGED handled
        /\ UNCHANGED <<ledger, tables, cursor, idxCursor, origin, cut, lock>>

\* The end of the transaction; updating a row that was deleted throws.
MarkProcessed(w) ==
    LET i == run[w].row
    IN  /\ At(w, "mark")
        /\ \/ /\ Exists(i)
              /\ rows' = [rows EXCEPT ![i].processed = TRUE]
              /\ Loop(w) /\ Advance(w) /\ UNCHANGED faults
           \/ /\ ~Exists(i) /\ Catch(w) /\ UNCHANGED <<rows, cursor, faults>>
           \/ Fault("handler") /\ Catch(w) /\ UNCHANGED <<rows, cursor>>
        /\ UNCHANGED <<ledger, dead, idxCursor, origin, cut, lock, handled>>

\* The indexer's cursor is saved after the whole batch.
WriteCursor(w) ==
    /\ At(w, "cursor")
    /\ idxCursor' = run[w].top
    /\ Leave(w)
    /\ UNCHANGED <<ledger, tables, cursor, origin, cut, lock, handled, faults>>

-----------------------------------------------------------------------------
(* Failures: recordFailure, moveToDeadLetter, and the admin's requeue *)

\* The count is the one of the batch, not of the row; a deleted row throws out
\* of the loop.
RecordFailure(w) ==
    LET i == run[w].item.id
        count == run[w].item.retry + 1
    IN  /\ At(w, "fail")
        /\ \/ /\ Exists(i)
              /\ rows' = [rows EXCEPT ![i].retry = count, ![i].cooling = TRUE]
              /\ IF count >= MaxRetries THEN Goto(w, "bury") ELSE Loop(w)
           \/ ~Exists(i) /\ Leave(w) /\ UNCHANGED rows
        /\ UNCHANGED <<ledger, dead, cursor, idxCursor, origin, cut, lock, handled, faults>>

FindDead(w) ==
    /\ At(w, "bury")
    /\ IF Exists(run[w].item.id) THEN Goto(w, "move") ELSE Loop(w)
    /\ UNCHANGED <<ledger, tables, cursor, idxCursor, origin, cut, lock, handled, faults>>

MoveToDeadLetter(w) ==
    LET i == run[w].item.id
    IN  /\ At(w, "move")
        /\ \/ /\ Exists(i)
              /\ dead' = [dead EXCEPT ![i] = rows[i].ev]
              /\ rows' = [rows EXCEPT ![i] = NoRow]
              /\ Loop(w)
           \/ ~Exists(i) /\ Leave(w) /\ UNCHANGED tables
        /\ UNCHANGED <<ledger, cursor, idxCursor, origin, cut, lock, handled, faults>>

\* AdminDeadLetterService.requeue: creating an id that exists aborts it.
Requeue(i) ==
    /\ dead[i] # 0 /\ ~Exists(i)
    /\ rows' = [rows EXCEPT ![i] = [NoRow EXCEPT !.ev = dead[i]]]
    /\ dead' = [dead EXCEPT ![i] = 0]
    /\ UNCHANGED <<ledger, cursor, idxCursor, origin, cut, lock, run, handled, faults>>

-----------------------------------------------------------------------------
(* The environment *)

CloseLedger ==
    /\ ledger < MaxLedger /\ ledger' = ledger + 1
    /\ UNCHANGED <<tables, cursor, idxCursor, origin, cut, lock, run, handled, faults>>

\* The backoff of a failed row is over.
BackoffOver(i) ==
    /\ rows[i].cooling
    /\ rows' = [rows EXCEPT ![i].cooling = FALSE]
    /\ UNCHANGED <<ledger, dead, cursor, idxCursor, origin, cut, lock, run, handled, faults>>

\* A replica dies and starts again; its keys in Redis outlive it.
Crash(r) ==
    /\ Fault("crash")
    /\ run' = [w \in Workers |-> IF Replica[w] = r THEN Idle ELSE run[w]]
    /\ \E c \in {1, Start} : cursor' = [cursor EXCEPT ![r] = c]
    /\ UNCHANGED <<ledger, tables, idxCursor, origin, cut, lock, handled>>

-----------------------------------------------------------------------------
Continue(w) ==
    \/ PollEvents(w) \/ RetryUnprocessed(w)
    \/ ReadCursor(w) \/ InitCursor(w) \/ IndexEvents(w)
    \/ EndBatch(w) \/ NextItem(w) \/ CheckProcessed(w) \/ FindRow(w)
    \/ SaveRawEvent(w) \/ Handle(w) \/ MarkProcessed(w) \/ WriteCursor(w)
    \/ RecordFailure(w) \/ FindDead(w) \/ MoveToDeadLetter(w) \/ ReleaseLock(w)

Next ==
    \/ \E w \in Workers :
          \/ \E k \in Crons : TryAcquireLock(w, k)
          \/ ProcessUnprocessedEvents(w)
          \/ \E from, to \in 1..MaxLedger : BackfillEvents(w, from, to)
          \/ Continue(w)
    \/ \E i \in RowIds : Requeue(i) \/ BackoffOver(i)
    \/ \E k \in Crons : Expire(k)
    \/ \E r \in Replicas : Crash(r)
    \/ CloseLedger

Spec == Init /\ [][Next]_vars

\* Ticks in flight go on, ledgers close, backoffs and the keys of dead replicas
\* run out.  Cron fires on every replica for ever, so each job wins its lock
\* again and again: strong fairness, since other ticks may hold it in between.
\* Admins are not obliged to do anything.
Fairness ==
    /\ WF_vars(CloseLedger)
    /\ \A w \in Workers : WF_vars(Continue(w))
    /\ \A i \in RowIds : WF_vars(BackoffOver(i))
    /\ \A k \in Crons : WF_vars(Expire(k)) /\ SF_vars(\E w \in Workers : TryAcquireLock(w, k))

FairSpec == Spec /\ Fairness

-----------------------------------------------------------------------------
(* Properties *)

\* chain_events or the dead-letter queue has a row for the event's key.
Stored(e) == \/ Matching(e) # {}
             \/ \E i \in RowIds : dead[i] # 0 /\ SameKey(dead[i], e)

\* The indexer's persisted cursor passes an event, emitted since it was started,
\* that is in neither table only in one case: an answer ended at its limit of
\* FetchLimit events between the event and an earlier one of the same ledger,
\* and the cursor went on to the next ledger.  Nothing else loses an event, how-
\* ever indexers, poller, retries, dead-letter moves and crashes interleave.
CursorCoversStored ==
    /\ \A e \in Events :
          origin <= Ledger[e] /\ Ledger[e] < idxCursor => Stored(e) \/ e \in cut
    /\ \A e \in cut : e > FetchLimit /\ \E f \in Events : f < e /\ Ledger[f] = Ledger[e]

\* processEvent marks a row processed only after a handler for that transaction
\* and event name ran, in whichever worker.
ProcessedMeansHandled ==
    \A i \in RowIds : rows[i].processed =>
        \E e \in Events : SameKey(e, rows[i].ev) /\ handled[e] > 0

\* The lock admits one holder per job: a slow run whose key expired cannot free
\* the key of the run that followed it (releaseLock compares tokens).
OneTokenPerJob ==
    \A v, w \in Workers :
        run[v].token /\ run[w].token /\ run[v].kind = run[w].kind => v = w

\* The retries of the event are used up.
GivenUp(e) == \/ \E i \in RowIds : dead[i] # 0 /\ SameKey(dead[i], e)
              \/ \E i \in Matching(e) : rows[i].retry >= MaxRetries

\* Every event the indexer's first cursor did not skip is routed to its handler,
\* by the poller or by the retry job, or its retries are used up: neither a
\* restart, which forgets the poller's cursor, nor a handler that fails loses it.
\* (Stated for ledgers of at most FetchLimit events: what an answer cuts off is
\* stored by nobody, as CursorCoversStored says.)
EveryEventRouted ==
    \A e \in Events :
        (Ledger[e] <= ledger /\ origin # 0 /\ origin <= Ledger[e])
        ~> (handled[e] > 0 \/ GivenUp(e))
=============================================================================
