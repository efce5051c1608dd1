-------------------------- MODULE ChainEventsProofs --------------------------
(***************************************************************************)
(* Proofs about ChainEvents, for any number of ticks, replicas, events and *)
(* faults: rows are marked processed only after a handler ran, the lock    *)
(* has one holder per job, and the indexer's cursor passes no event that   *)
(* is not stored but those an answer of the RPC server cuts off.           *)
(***************************************************************************)
EXTENDS ChainEvents, TLAPS, WellFoundedInduction, FiniteSetTheorems

\* The event a row of chain_events stands for, which its dead letter keeps.
idents == [i \in RowIds |-> IF rows[i].ev # 0 THEN rows[i].ev ELSE dead[i]]

\* An event with the key of e is in one of the tables.
Known(id, e) == \E i \in RowIds : id[i] # 0 /\ SameKey(id[i], e)

\* The events the persisted cursor may not pass unstored.
expected == {e \in Events : origin <= Ledger[e] /\ e \notin cut}

InHand == {"check", "find", "create", "handle", "mark"}
Indexing(r) ==
    r.kind = "index" /\ r.pc \in {"fetch", "next", "find", "create", "cursor"}

\* The events below the ledger a run has reached are stored, or still to do.
Pending(r, id, o) ==
    \A e \in o : Ledger[e] < r.top =>
        \/ Known(id, e)
        \/ EventItem(e) \in r.todo
        \/ r.pc \in {"find", "create"} /\ r.item.ev = e

\* What a worker relies on, of its own state r, the tables' events id, the
\* handlers' runs h, the indexer's cursor c and the events o it may not pass.
RunOK(r, id, h, c, o) ==
    /\ \A item \in r.todo : item.ev \in Events
    /\ r.pc \in InHand => r.item.ev \in Events
    /\ r.pc \in {"check", "handle", "mark"} => r.kind \notin {"index", "backfill"}
    /\ r.pc \in {"fail", "bury", "move"} => r.kind = "retry"
    /\ r.pc \in {"tip", "fetch", "cursor"} => r.kind = "index"
    /\ r.pc \in {"read", "tip", "fetch", "cursor"} => r.todo = {}
    /\ r.pc \in {"handle", "mark"} =>
          r.row \in RowIds /\ id[r.row] # 0 /\ SameKey(id[r.row], r.item.ev)
    /\ r.pc = "mark" => h[r.item.ev] > 0
    /\ Indexing(r) => c # 0 /\ r.top # 0 /\ Pending(r, id, o)

WorkersOK == \A w \in Workers : RunOK(run[w], idents, handled, idxCursor, expected)

\* Whoever holds a token holds the key of its job, alone.
TokenOK == /\ \A w \in Workers : run[w].token => run[w].kind \in Crons /\ lock[run[w].kind]
           /\ OneTokenPerJob

\* A row is not in both tables.
TablesOK == \A i \in RowIds : rows[i].ev # 0 => dead[i] = 0

\* An event an answer cuts off is past its limit, in the ledger of another.
CutOff(e) == e > FetchLimit /\ \E f \in Events : f < e /\ Ledger[f] = Ledger[e]

\* CursorCoversStored.
CursorOK == /\ \A e \in expected : Ledger[e] < idxCursor => Known(idents, e)
            /\ \A e \in cut : CutOff(e)

IInv == TypeOK /\ WorkersOK /\ TokenOK /\ TablesOK /\ ProcessedMeansHandled /\ CursorOK

-----------------------------------------------------------------------------
(* Tables and fetches *)

\* What no step takes back: rows keep their event, handlers' runs count up, a
\* cursor once written stays written, and no event is expected later than before.
Kept(id, id2, h, h2, c, c2, o, o2) ==
    /\ \A i \in RowIds : id[i] # 0 => id2[i] = id[i]
    /\ \A e \in Events : h[e] > 0 => h2[e] > 0
    /\ c # 0 => c2 # 0
    /\ o2 \subseteq o

\* What a worker relies on survives the steps of others.
LEMMA RunKept ==
    ASSUME NEW r, NEW id, NEW id2, NEW h, NEW h2, NEW c, NEW c2, NEW o, NEW o2,
           Kept(id, id2, h, h2, c, c2, o, o2), RunOK(r, id, h, c, o)
    PROVE  RunOK(r, id2, h2, c2, o2)
<1>1. \A e : Known(id, e) => Known(id2, e)
  BY DEF Kept, Known
<1>2. Indexing(r) => Pending(r, id2, o2)
  BY <1>1 DEF Kept, RunOK, Pending
<1>3. Indexing(r) => c2 # 0 /\ r.top # 0
  BY DEF Kept, RunOK
<1>4. r.pc \in {"handle", "mark"} =>
         r.row \in RowIds /\ id2[r.row] # 0 /\ SameKey(id2[r.row], r.item.ev)
  BY DEF Kept, RunOK
<1>5. r.pc = "mark" => h2[r.item.ev] > 0
  BY DEF Kept, RunOK, InHand
<1> QED BY <1>2, <1>3, <1>4, <1>5 DEF RunOK

\* A non-empty set of event numbers has a greatest element.
LEMMA MaxEventOf ==
    ASSUME NEW T \in SUBSET Events, T # {}
    PROVE  \E x \in T : \A y \in T : y <= x
<1> DEFINE R == OpToRel(<, Nat)
           B == {n \in Nat : \A y \in T : y <= n}
<1>1. IsWellFoundedOn(R, Nat)
  BY NatLessThanWellFounded
<1>2. \A x, y \in Nat : <<y, x>> \in R <=> y < x
  BY DEF OpToRel
<1> HIDE DEF R
<1>3. MaxEvent \in B /\ B \in SUBSET Nat
  BY ChainAssumption DEF Events
<1>4. PICK n \in B : \A m \in B : ~ (<<m, n>> \in R)
  BY <1>1, <1>3, WFMin
<1>5. PICK t \in T : TRUE
  OBVIOUS
<1>6. n \in Nat /\ t \in Nat /\ t >= 1 /\ t <= n
  BY <1>4, <1>5, ChainAssumption DEF Events
<1>7. n - 1 \in Nat /\ n - 1 < n
  BY <1>6
<1>8. n - 1 \notin B
  BY <1>2, <1>4, <1>6, <1>7
<1>9. PICK y \in T : ~ (y <= n - 1)
  BY <1>7, <1>8
<1>10. y = n
  BY <1>4, <1>6, <1>9, ChainAssumption DEF Events
<1> QED BY <1>4, <1>9, <1>10

\* The cursor after a batch: past every event of it, and no further.
LEMMA BeyondSpec ==
    ASSUME NEW from \in Nat, NEW batch \in SUBSET Events
    PROVE  /\ Beyond(from, batch) \in Nat /\ Beyond(from, batch) >= from
           /\ Beyond(from, batch) # from =>
                 \E last \in batch : Beyond(from, batch) = Ledger[last] + 1
<1>1. CASE batch = {}
  BY <1>1 DEF Beyond
<1>2. CASE batch # {}
  <2> DEFINE last == CHOOSE e \in batch : \A f \in batch : f <= e
  <2>1. last \in batch
    BY <1>2, MaxEventOf
  <2>2. Ledger[last] \in Nat
    BY <2>1, ChainAssumption
  <2>3. Beyond(from, batch) = Larger(from, 1 + Ledger[last])
    BY <1>2 DEF Beyond
  <2> HIDE DEF last
  <2> QED BY <2>1, <2>2, <2>3 DEF Larger
<1> QED BY <1>1, <1>2

\* What the cursor passes and the answer lacks was cut off at the answer's limit.
LEMMA FetchCut ==
    ASSUME NEW from \in Nat, NEW to, NEW e \in Events, e \notin Fetch(from, to),
           from <= Ledger[e], Ledger[e] < Beyond(from, Fetch(from, to)),
           to = ledger, ledger \in Nat
    PROVE  CutOff(e)
<1> DEFINE found == {f \in Events : from <= Ledger[f] /\ Ledger[f] <= to
                                    /\ Ledger[f] <= ledger}
           upto(f) == {g \in found : g <= f}
           batch == Fetch(from, to)
<1>1. \A f \in Events : f \in Nat /\ f >= 1 /\ f <= MaxEvent /\ Ledger[f] \in Nat
  BY ChainAssumption DEF Events
<1>2. batch \subseteq Events /\ \A f \in batch : Ledger[f] <= ledger
  BY DEF Fetch
<1>3. PICK last \in batch : Beyond(from, batch) = Ledger[last] + 1
  <2>1. Beyond(from, batch) \in Nat /\ Beyond(from, batch) # from
    BY <1>1, <1>2, BeyondSpec
  <2> QED BY <1>2, <2>1, BeyondSpec
<1>4. Ledger[e] <= Ledger[last] /\ e \in found /\ last \in found
  BY <1>1, <1>2, <1>3 DEF Fetch
<1>5. ASSUME NEW f \in Events
      PROVE  /\ IsFiniteSet(upto(f)) /\ Cardinality(upto(f)) \in Nat
             /\ Cardinality(upto(f)) <= f
  <2>1. upto(f) \subseteq 1..f
    BY <1>1
  <2>2. IsFiniteSet(1..f) /\ Cardinality(1..f) = f
    BY <1>1, FS_Interval
  <2> QED BY <2>1, <2>2, FS_Subset, FS_CardinalityType
<1>6. Cardinality(upto(last)) <= FetchLimit /\ ~(Cardinality(upto(e)) <= FetchLimit)
  BY <1>3, <1>4 DEF Fetch
<1>7. e > FetchLimit
  BY <1>1, <1>5, <1>6, BoundsAssumption
<1>8. last < e
  <2>1. SUFFICES ASSUME e <= last PROVE FALSE
    BY <1>1, <1>2
  <2>2. upto(e) \subseteq upto(last)
    BY <1>1, <1>2, <2>1
  <2>3. Cardinality(upto(e)) <= Cardinality(upto(last))
    BY <1>2, <1>5, <2>2, FS_Subset
  <2> QED BY <1>2, <1>5, <1>6, <2>3, BoundsAssumption
<1>9. Ledger[last] <= Ledger[e]
  BY <1>2, <1>8, ChainAssumption
<1> QED BY <1>1, <1>2, <1>4, <1>7, <1>8, <1>9 DEF CutOff

-----------------------------------------------------------------------------
(* Initial states *)

\* The values of an idle worker are typed.
LEMMA IdleType == NoItem \in Item /\ Idle \in Run /\ 0 \in 0..MaxRows
<1>1. NoItem \in Item
  BY ChainAssumption, BoundsAssumption DEF NoItem, Item
<1> QED BY <1>1, BoundsAssumption DEF Idle, Run, Labels, Kinds, Crons, Requests

\* The invariant holds at the start.
LEMMA IInvInit == Init => IInv
<1> SUFFICES ASSUME Init PROVE IInv
  OBVIOUS
<1>1. NoRow \in Row
  BY ChainAssumption DEF NoRow, Row
<1>2. TypeOK
  BY <1>1, IdleType, ChainAssumption, BoundsAssumption DEF Init, TypeOK
<1>3. WorkersOK
  BY DEF Init, WorkersOK, RunOK, Idle, InHand, Indexing
<1>4. TokenOK
  BY DEF Init, TokenOK, OneTokenPerJob, Idle
<1>5. TablesOK /\ ProcessedMeansHandled
  BY DEF Init, TablesOK, ProcessedMeansHandled, NoRow
<1>6. CursorOK
  BY ChainAssumption DEF Init, CursorOK, expected
<1> QED BY <1>2, <1>3, <1>4, <1>5, <1>6 DEF IInv

-----------------------------------------------------------------------------
(* Steps of a worker *)

\* Worker w becomes r, which it may be as the tables are.
Moves(w, r) ==
    /\ r \in Run /\ Become(w, r)
    /\ r.token = run[w].token /\ r.kind = run[w].kind
    /\ RunOK(r, idents, handled, idxCursor, expected)

\* A worker's step that keeps what the others rely on.
LEMMA WorkerStep ==
    ASSUME IInv, NEW w \in Workers, NEW r \in Run, Become(w, r), UNCHANGED lock,
           r.token => run[w].token /\ r.kind = run[w].kind,
           Kept(idents, idents', handled, handled', idxCursor, idxCursor', expected, expected'),
           RunOK(r, idents', handled', idxCursor', expected')
    PROVE  run' \in [Workers -> Run] /\ WorkersOK' /\ TokenOK'
<1>1. run \in [Workers -> Run]
  BY DEF IInv, TypeOK
<1>2. /\ run' \in [Workers -> Run]
      /\ run'[w] = r
      /\ \A v \in Workers : v # w => run'[v] = run[v]
  BY <1>1 DEF Become
<1>3. ASSUME NEW v \in Workers
      PROVE  RunOK(run[v], idents', handled', idxCursor', expected')
  <2>1. RunOK(run[v], idents, handled, idxCursor, expected)
    BY <1>3 DEF IInv, WorkersOK
  <2> QED BY <2>1, RunKept
<1>4. WorkersOK'
  BY <1>2, <1>3 DEF WorkersOK
<1>5. \A v \in Workers : run'[v].token => run[v].token /\ run'[v].kind = run[v].kind
  BY <1>2
<1>6. TokenOK'
  BY <1>5 DEF IInv, TokenOK, OneTokenPerJob
<1> QED BY <1>2, <1>4, <1>6

\* A worker that moves with a sound run leaves the others' sound.
LEMMA MoveStep ==
    ASSUME IInv, NEW w \in Workers, NEW r, Moves(w, r), UNCHANGED lock,
           Kept(idents, idents', handled, handled', idxCursor, idxCursor', expected, expected')
    PROVE  run' \in [Workers -> Run] /\ WorkersOK' /\ TokenOK'
<1>1. RunOK(r, idents', handled', idxCursor', expected')
  BY RunKept DEF Moves
<1> QED BY <1>1, WorkerStep DEF Moves

\* A step that writes neither table nor the indexer's cursor.
LEMMA QuietStep ==
    ASSUME IInv, NEW w \in Workers, NEW r, Moves(w, r),
           UNCHANGED <<tables, idxCursor, origin, cut, lock, handled, ledger>>,
           cursor' \in [Replicas -> Nat], faults' \in Nat
    PROVE  IInv'
<1>1. UNCHANGED idents
  BY DEF idents, tables
<1>2. Kept(idents, idents', handled, handled', idxCursor, idxCursor', expected, expected')
  BY <1>1 DEF Kept, expected
<1>3. run' \in [Workers -> Run] /\ WorkersOK' /\ TokenOK'
  BY <1>2, MoveStep
<1>4. TypeOK'
  BY <1>3 DEF IInv, TypeOK, tables
<1>5. TablesOK' /\ ProcessedMeansHandled'
  BY DEF IInv, TablesOK, ProcessedMeansHandled, tables
<1>6. CursorOK'
  BY <1>1 DEF IInv, CursorOK, expected
<1> QED BY <1>3, <1>4, <1>5, <1>6 DEF IInv

\* What IInv says of one worker.
LEMMA WorkerFacts ==
    ASSUME IInv, NEW w \in Workers
    PROVE  /\ run[w] \in Run
           /\ RunOK(run[w], idents, handled, idxCursor, expected)
BY DEF IInv, TypeOK, WorkersOK

\* A run that is over relies on nothing.
LEMMA LeaveMoves ==
    ASSUME IInv, NEW w \in Workers, Leave(w)
    PROVE  \E r : Moves(w, r)
<1> DEFINE r == [Idle EXCEPT !.pc = "release", !.kind = run[w].kind, !.token = run[w].token]
<1>1. run[w].kind \in Kinds /\ run[w].token \in BOOLEAN
  BY WorkerFacts DEF Run
<1>2. "release" \in Labels
  BY DEF Labels
<1>3. r \in Run
  BY <1>1, <1>2, IdleType DEF Run
<1>4. RunOK(r, idents, handled, idxCursor, expected)
  BY DEF RunOK, Idle, InHand, Indexing
<1>5. Become(w, r) /\ r.token = run[w].token /\ r.kind = run[w].kind
  BY DEF Leave, Idle
<1> QED BY <1>3, <1>4, <1>5 DEF Moves

\* On to the next item: the indexer only when its item is stored.
LEMMA LoopMoves ==
    ASSUME IInv, NEW w \in Workers, Loop(w),
           run[w].pc \in InHand \cup {"fail", "bury", "move"},
           run[w].kind = "index" => Known(idents, run[w].item.ev)
    PROVE  \E r : Moves(w, r)
<1> DEFINE r == [run[w] EXCEPT !.pc = "next", !.item = NoItem, !.row = 0]
<1>1. run[w] \in Run /\ RunOK(run[w], idents, handled, idxCursor, expected)
  BY WorkerFacts
<1>2. "next" \in Labels
  BY DEF Labels
<1>3. r \in Run
  BY <1>1, <1>2, IdleType DEF Run
<1>4. /\ r.pc = "next" /\ r.kind = run[w].kind /\ r.token = run[w].token
      /\ r.todo = run[w].todo /\ r.top = run[w].top
  BY <1>1 DEF Run
<1>5. Indexing(r) => Indexing(run[w])
  BY <1>1, <1>4 DEF RunOK, Indexing, InHand
<1>6. Indexing(r) => Pending(r, idents, expected)
  BY <1>1, <1>4, <1>5 DEF RunOK, Pending, Indexing
<1>7. RunOK(r, idents, handled, idxCursor, expected)
  BY <1>1, <1>4, <1>5, <1>6 DEF RunOK, InHand
<1> QED BY <1>3, <1>4, <1>7 DEF Moves, Loop

\* Wherever an exception is caught.
LEMMA CatchMoves ==
    ASSUME IInv, NEW w \in Workers, Catch(w), run[w].pc \in InHand
    PROVE  \E r : Moves(w, r)
<1> DEFINE failed == [run[w] EXCEPT !.pc = "fail"]
<1>1. run[w] \in Run /\ RunOK(run[w], idents, handled, idxCursor, expected)
  BY WorkerFacts
<1>2. CASE run[w].kind = "retry"
  <2>1. Become(w, failed)
    BY <1>2 DEF Catch, Goto
  <2>2. failed \in Run
    BY <1>1 DEF Run, Labels
  <2>3. RunOK(failed, idents, handled, idxCursor, expected)
    BY <1>1, <1>2 DEF Run, RunOK, InHand, Indexing
  <2> QED BY <1>1, <2>1, <2>2, <2>3 DEF Moves, Run
<1>3. CASE run[w].kind = "manual"
  BY <1>3, LoopMoves DEF Catch
<1>4. CASE run[w].kind \notin {"retry", "manual"}
  BY <1>4, LeaveMoves DEF Catch
<1> QED BY <1>2, <1>3, <1>4

-----------------------------------------------------------------------------
(* Steps that read *)

\* The items that a loop takes up are typed and stand for their event.
LEMMA ItemTypes ==
    ASSUME IInv
    PROVE  /\ \A e \in Events : EventItem(e) \in Item /\ EventItem(e).ev = e
           /\ \A i \in RowIds : RowItem(i) \in Item /\ RowItem(i).ev = rows[i].ev
           /\ \A i \in RowIds : Exists(i) => rows[i].ev \in Events
           /\ \A e \in Events : Ledger[e] \in Nat
<1>1. \A e \in Events : e \in 0..MaxEvent /\ Ledger[e] \in Nat
  BY ChainAssumption DEF Events
<1>2. \A e \in Events : EventItem(e) \in Item /\ EventItem(e).ev = e
  BY <1>1, IdleType DEF EventItem, Item, NoItem
<1>3. \A i \in RowIds : rows[i] \in Row /\ i \in 0..MaxRows
  BY BoundsAssumption DEF IInv, TypeOK, RowIds
<1>4. \A i \in RowIds : RowItem(i) \in Item /\ RowItem(i).ev = rows[i].ev
  BY <1>3 DEF RowItem, Item, Row
<1>5. \A i \in RowIds : Exists(i) => rows[i].ev \in Events
  BY <1>3, ChainAssumption DEF Exists, Row, Events
<1> QED BY <1>1, <1>2, <1>4, <1>5

\* Moving the poller's cursor past an event keeps its type.
LEMMA AdvanceType ==
    ASSUME IInv, NEW w \in Workers, Advance(w), run[w].pc \in InHand
    PROVE  cursor' \in [Replicas -> Nat]
<1>1. cursor \in [Replicas -> Nat] /\ Replica[w] \in Replicas
  BY WorkersAssumption DEF IInv, TypeOK
<1>2. Ledger[run[w].item.ev] \in Nat
  BY WorkerFacts, ItemTypes DEF RunOK
<1>3. Larger(cursor[Replica[w]], Ledger[run[w].item.ev] + 1) \in Nat
  BY <1>1, <1>2 DEF Larger
<1> QED BY <1>1, <1>3 DEF Advance

\* A batch of the poller or of the retry job.
LEMMA BatchMoves ==
    ASSUME IInv, NEW w \in Workers, NEW todo \in SUBSET Item, NEW top \in Nat,
           BeginBatch(w, todo, top), \A item \in todo : item.ev \in Events,
           run[w].kind # "index"
    PROVE  \E r : Moves(w, r)
<1> DEFINE r == [run[w] EXCEPT !.pc = "next", !.todo = todo, !.top = top]
<1>1. run[w] \in Run
  BY WorkerFacts
<1>2. CASE todo = {}
  BY <1>2, LeaveMoves DEF BeginBatch
<1>3. CASE todo # {}
  <2>1. "next" \in Labels
    BY DEF Labels
  <2>2. r \in Run
    BY <1>1, <2>1 DEF Run
  <2>3. /\ r.pc = "next" /\ r.todo = todo /\ r.top = top
        /\ r.kind = run[w].kind /\ r.token = run[w].token
    BY <1>1 DEF Run
  <2>5. RunOK(r, idents, handled, idxCursor, expected)
    BY <2>3 DEF RunOK, InHand, Indexing
  <2> QED BY <1>3, <2>2, <2>3, <2>5 DEF Moves, BeginBatch
<1> QED BY <1>2, <1>3

\* Below the persisted cursor everything is stored.
LEMMA ReadCursorMoves ==
    ASSUME IInv, NEW w \in Workers, ReadCursor(w)
    PROVE  \E r : Moves(w, r)
<1>1. /\ run[w] \in Run /\ RunOK(run[w], idents, handled, idxCursor, expected)
      /\ run[w].pc = "read" /\ run[w].kind = "index" /\ run[w].todo = {}
  BY WorkerFacts DEF ReadCursor, At, RunOK
<1>2. CASE idxCursor = 0
  <2> DEFINE r == [run[w] EXCEPT !.pc = "tip"]
  <2>1. r \in Run /\ Become(w, r)
    BY <1>1, <1>2 DEF Run, Labels, ReadCursor, Goto
  <2>2. /\ r.pc = "tip" /\ r.kind = run[w].kind /\ r.token = run[w].token
        /\ r.todo = {}
    BY <1>1 DEF Run
  <2>3. RunOK(r, idents, handled, idxCursor, expected)
    BY <1>1, <2>2 DEF RunOK, InHand, Indexing
  <2> QED BY <2>1, <2>2, <2>3 DEF Moves
<1>3. CASE idxCursor # 0
  <2> DEFINE r == [run[w] EXCEPT !.pc = "fetch", !.top = idxCursor]
  <2>1. idxCursor \in Nat /\ "fetch" \in Labels
    BY DEF IInv, TypeOK, Labels
  <2>2. r \in Run /\ Become(w, r)
    BY <1>1, <1>3, <2>1 DEF Run, ReadCursor
  <2>3. /\ r.pc = "fetch" /\ r.kind = run[w].kind /\ r.token = run[w].token
        /\ r.todo = {} /\ r.top = idxCursor
    BY <1>1 DEF Run
  <2>4. Pending(r, idents, expected)
    BY <2>3 DEF IInv, CursorOK, Pending
  <2>5. RunOK(r, idents, handled, idxCursor, expected)
    BY <1>1, <1>3, <2>3, <2>4 DEF RunOK, InHand, Indexing
  <2> QED BY <2>2, <2>3, <2>5 DEF Moves
<1> QED BY <1>2, <1>3

\* The other batches.
LEMMA ReadMoves ==
    ASSUME IInv, NEW w \in Workers, PollEvents(w) \/ RetryUnprocessed(w)
    PROVE  \E r : Moves(w, r)
<1>1. CASE PollEvents(w)
  <2> DEFINE todo == {EventItem(e) : e \in Fetch(cursor[Replica[w]], ledger)}
  <2>1. Fetch(cursor[Replica[w]], ledger) \subseteq Events
    BY DEF Fetch
  <2>2. todo \in SUBSET Item /\ \A item \in todo : item.ev \in Events
    BY <2>1, ItemTypes
  <2>3. BeginBatch(w, todo, 0) /\ run[w].kind # "index"
    BY <1>1 DEF PollEvents
  <2> HIDE DEF todo
  <2> QED BY <2>2, <2>3, BatchMoves
<1>2. CASE RetryUnprocessed(w)
  <2> DEFINE todo == {RowItem(i) : i \in Candidates}
  <2>1. \A i \in Candidates : i \in RowIds /\ Exists(i)
    BY DEF Candidates, Unprocessed
  <2>2. todo \in SUBSET Item /\ \A item \in todo : item.ev \in Events
    BY <2>1, ItemTypes
  <2>3. BeginBatch(w, todo, 0) /\ run[w].kind # "index"
    BY <1>2 DEF RetryUnprocessed
  <2> HIDE DEF todo
  <2> QED BY <2>2, <2>3, BatchMoves
<1> QED BY <1>1, <1>2

\* Taking an item out of the batch.
LEMMA NextMoves ==
    ASSUME IInv, NEW w \in Workers, NextItem(w)
    PROVE  \E r : Moves(w, r)
<1> DEFINE kind == run[w].kind
           label == IF kind \in {"index", "backfill"} THEN "find" ELSE "check"
<1>1. /\ run[w] \in Run /\ RunOK(run[w], idents, handled, idxCursor, expected)
      /\ run[w].pc = "next"
  BY WorkerFacts DEF NextItem, At
<1>2. PICK item \in run[w].todo :
         IF kind = "retry" /\ BacksOff(item)
         THEN Become(w, [run[w] EXCEPT !.todo = @ \ {item}])
         ELSE Become(w, [run[w] EXCEPT !.todo = @ \ {item}, !.item = item, !.pc = label])
  BY DEF NextItem
<1>3. item \in Item /\ item.ev \in Events /\ run[w].todo \ {item} \in SUBSET Item
  BY <1>1, <1>2 DEF Run, RunOK
<1>4. CASE kind = "retry" /\ BacksOff(item)
  <2> DEFINE r == [run[w] EXCEPT !.todo = @ \ {item}]
  <2>1. r \in Run /\ Become(w, r)
    BY <1>1, <1>2, <1>3, <1>4 DEF Run
  <2>2. /\ r.pc = "next" /\ r.kind = "retry" /\ r.token = run[w].token
        /\ r.todo = run[w].todo \ {item}
    BY <1>1, <1>4 DEF Run
  <2>3. RunOK(r, idents, handled, idxCursor, expected)
    BY <1>1, <2>2 DEF RunOK, InHand, Indexing
  <2> QED BY <1>4, <2>1, <2>2, <2>3 DEF Moves
<1>5. CASE ~(kind = "retry" /\ BacksOff(item))
  <2> DEFINE r == [run[w] EXCEPT !.todo = @ \ {item}, !.item = item, !.pc = label]
  <2>1. r \in Run /\ Become(w, r)
    <3>1. label \in Labels
      BY DEF Labels
    <3> HIDE DEF label
    <3> QED BY <1>1, <1>2, <1>3, <1>5, <3>1 DEF Run
  <2>2. /\ r.pc = label /\ r.kind = kind /\ r.token = run[w].token
        /\ r.todo = run[w].todo \ {item} /\ r.item = item /\ r.top = run[w].top
    BY <1>1 DEF Run
  <2>3. Indexing(r) => Pending(r, idents, expected)
    <3>1. SUFFICES ASSUME Indexing(r), NEW e \in expected, Ledger[e] < r.top
                   PROVE  \/ Known(idents, e)
                          \/ EventItem(e) \in r.todo
                          \/ r.pc \in {"find", "create"} /\ r.item.ev = e
      BY DEF Pending
    <3>2. Known(idents, e) \/ EventItem(e) \in run[w].todo
      BY <1>1, <2>2, <3>1 DEF RunOK, Indexing, Pending
    <3>3. kind = "index" /\ label = "find"
      BY <2>2, <3>1 DEF Indexing
    <3>4. EventItem(e).ev = e
      BY ItemTypes DEF expected
    <3> QED BY <2>2, <3>2, <3>3, <3>4
  <2>4. RunOK(r, idents, handled, idxCursor, expected)
    BY <1>1, <1>3, <2>2, <2>3 DEF RunOK, InHand, Indexing
  <2> QED BY <2>1, <2>2, <2>4 DEF Moves
<1> QED BY <1>4, <1>5

\* The end of a batch is such a move.
LEMMA EndMoves ==
    ASSUME IInv, NEW w \in Workers, EndBatch(w)
    PROVE  \E r : Moves(w, r)
<1> DEFINE r == [run[w] EXCEPT !.pc = "cursor"]
<1>1. /\ run[w] \in Run /\ RunOK(run[w], idents, handled, idxCursor, expected)
      /\ run[w].pc = "next" /\ run[w].todo = {}
  BY WorkerFacts DEF EndBatch, At
<1>2. CASE run[w].kind # "index"
  BY <1>2, LeaveMoves DEF EndBatch
<1>3. CASE run[w].kind = "index"
  <2>1. r \in Run
    BY <1>1 DEF Run, Labels
  <2>2. /\ r.pc = "cursor" /\ r.kind = run[w].kind /\ r.token = run[w].token
        /\ r.todo = {} /\ r.top = run[w].top
    BY <1>1 DEF Run
  <2>3. Indexing(r) => Pending(r, idents, expected)
    BY <1>1, <1>3, <2>2 DEF RunOK, Indexing, Pending
  <2>4. RunOK(r, idents, handled, idxCursor, expected)
    BY <1>1, <1>3, <2>2, <2>3 DEF RunOK, InHand, Indexing
  <2> QED BY <1>3, <2>1, <2>2, <2>4 DEF Moves, EndBatch, Goto
<1> QED BY <1>2, <1>3

\* The idempotency check, of a run that is not the indexer's.
LEMMA CheckMoves ==
    ASSUME IInv, NEW w \in Workers, CheckProcessed(w)
    PROVE  (\E r : Moves(w, r)) /\ cursor' \in [Replicas -> Nat]
<1> DEFINE r == [run[w] EXCEPT !.pc = "find"]
<1>1. /\ run[w] \in Run /\ RunOK(run[w], idents, handled, idxCursor, expected)
      /\ run[w].pc = "check"
  BY WorkerFacts DEF CheckProcessed, At
<1>2. run[w].pc \in InHand /\ run[w].kind # "index"
  BY <1>1 DEF InHand, RunOK
<1>3. CASE Loop(w) /\ Advance(w)
  BY <1>2, <1>3, LoopMoves, AdvanceType
<1>4. CASE Goto(w, "find") /\ UNCHANGED cursor
  <2>1. r \in Run
    BY <1>1 DEF Run, Labels
  <2>2. /\ r.pc = "find" /\ r.kind = run[w].kind /\ r.token = run[w].token
        /\ r.todo = run[w].todo /\ r.item = run[w].item
    BY <1>1 DEF Run
  <2>3. RunOK(r, idents, handled, idxCursor, expected)
    BY <1>1, <1>2, <2>2 DEF RunOK, InHand, Indexing
  <2> QED BY <1>4, <2>1, <2>2, <2>3 DEF Moves, Goto, IInv, TypeOK
<1> QED BY <1>3, <1>4 DEF CheckProcessed

\* Looking for the event's row.
LEMMA FindMoves ==
    ASSUME IInv, NEW w \in Workers, FindRow(w)
    PROVE  (\E r : Moves(w, r)) /\ cursor' \in [Replicas -> Nat]
<1>1. /\ run[w] \in Run /\ RunOK(run[w], idents, handled, idxCursor, expected)
      /\ run[w].pc = "find" /\ run[w].pc \in InHand
      /\ cursor \in [Replicas -> Nat]
  BY WorkerFacts DEF FindRow, At, InHand, IInv, TypeOK
<1>2. \A i \in Matching(run[w].item.ev) :
         i \in RowIds /\ idents[i] # 0 /\ SameKey(idents[i], run[w].item.ev)
  BY DEF Matching, Exists, idents
<1>3. CASE Goto(w, "create") /\ UNCHANGED cursor
  <2> DEFINE r == [run[w] EXCEPT !.pc = "create"]
  <2>1. r \in Run
    BY <1>1 DEF Run, Labels
  <2>2. /\ r.pc = "create" /\ r.kind = run[w].kind /\ r.token = run[w].token
        /\ r.todo = run[w].todo /\ r.item = run[w].item /\ r.top = run[w].top
    BY <1>1 DEF Run
  <2>3. Indexing(r) => Pending(r, idents, expected)
    BY <1>1, <2>2 DEF RunOK, Indexing, Pending
  <2>4. RunOK(r, idents, handled, idxCursor, expected)
    BY <1>1, <2>2, <2>3 DEF RunOK, InHand, Indexing
  <2> QED BY <1>1, <1>3, <2>1, <2>2, <2>4 DEF Moves, Goto
<1>4. CASE Matching(run[w].item.ev) # {} /\ Loop(w) /\ UNCHANGED cursor
  <2>1. Known(idents, run[w].item.ev)
    BY <1>2, <1>4 DEF Known
  <2> QED BY <1>1, <1>4, <2>1, LoopMoves
<1>5. ASSUME NEW i \in Matching(run[w].item.ev), run[w].kind \notin {"index", "backfill"},
             Loop(w), Advance(w)
      PROVE  (\E r : Moves(w, r)) /\ cursor' \in [Replicas -> Nat]
  BY <1>1, <1>5, LoopMoves, AdvanceType
<1>6. ASSUME NEW i \in Matching(run[w].item.ev), run[w].kind \notin {"index", "backfill"},
             Become(w, [run[w] EXCEPT !.pc = "handle", !.row = i]), UNCHANGED cursor
      PROVE  (\E r : Moves(w, r)) /\ cursor' \in [Replicas -> Nat]
  <2> DEFINE r == [run[w] EXCEPT !.pc = "handle", !.row = i]
  <2>1. i \in 0..MaxRows /\ "handle" \in Labels
    BY <1>2, BoundsAssumption DEF RowIds, Labels
  <2>2. r \in Run
    BY <1>1, <2>1 DEF Run
  <2>3. /\ r.pc = "handle" /\ r.kind = run[w].kind /\ r.token = run[w].token
        /\ r.todo = run[w].todo /\ r.item = run[w].item /\ r.row = i
    BY <1>1 DEF Run
  <2>4. RunOK(r, idents, handled, idxCursor, expected)
    BY <1>1, <1>2, <1>6, <2>3 DEF RunOK, InHand, Indexing
  <2> QED BY <1>1, <1>6, <2>2, <2>3, <2>4 DEF Moves
<1> QED BY <1>3, <1>4, <1>5, <1>6 DEF FindRow

-----------------------------------------------------------------------------
(* Steps that write *)

\* What a step must keep for the other workers and for the cursor.
StepKept == Kept(idents, idents', handled, handled', idxCursor, idxCursor', expected, expected')

\* Steps of the tables and the chain, when no worker moves.
LEMMA WorkersKept ==
    ASSUME IInv, StepKept, UNCHANGED <<run, lock>>
    PROVE  run' \in [Workers -> Run] /\ WorkersOK' /\ TokenOK'
<1>1. ASSUME NEW v \in Workers
      PROVE  RunOK(run[v], idents', handled', idxCursor', expected')
  <2>1. RunOK(run[v], idents, handled, idxCursor, expected)
    BY <1>1 DEF IInv, WorkersOK
  <2> QED BY <2>1, RunKept DEF StepKept
<1> QED BY <1>1 DEF IInv, TypeOK, WorkersOK, TokenOK, OneTokenPerJob

\* A cursor that stays still covers what is stored.
LEMMA CursorKept ==
    ASSUME IInv, StepKept, UNCHANGED <<idxCursor, origin, cut>>
    PROVE  CursorOK'
<1>1. \A e : Known(idents, e) => Known(idents', e)
  BY DEF StepKept, Kept, Known
<1> QED BY <1>1 DEF IInv, CursorOK, expected

\* A row created under an id never used before.
LEMMA RowCreated ==
    ASSUME IInv, NEW i \in RowIds, NEW e \in Events, Fresh(i),
           rows' = [rows EXCEPT ![i] = [NoRow EXCEPT !.ev = e]],
           UNCHANGED <<dead, handled, idxCursor, origin, cut>>
    PROVE  /\ StepKept /\ idents'[i] = e /\ e # 0
           /\ rows' \in [RowIds -> Row]
           /\ TablesOK' /\ ProcessedMeansHandled'
<1> DEFINE row == [NoRow EXCEPT !.ev = e]
<1>1. e \in 0..MaxEvent /\ e # 0
  BY ChainAssumption DEF Events
<1>2. rows \in [RowIds -> Row] /\ TablesOK /\ ProcessedMeansHandled
  BY DEF IInv, TypeOK
<1>3. row \in Row /\ row.ev = e /\ row.processed = FALSE
  BY <1>1 DEF Row, NoRow
<1>4. rows[i].ev = 0 /\ dead[i] = 0
  BY DEF Fresh, Exists
<1>5. rows'[i] = row /\ \A j \in RowIds : j # i => rows'[j] = rows[j]
  BY <1>2
<1>6. rows' \in [RowIds -> Row]
  BY <1>2, <1>3
<1> HIDE DEF row
<1>7. idents'[i] = e /\ \A j \in RowIds : j # i => idents'[j] = idents[j]
  BY <1>1, <1>3, <1>5 DEF idents
<1>8. idents[i] = 0
  BY <1>4 DEF idents
<1>9. StepKept
  BY <1>7, <1>8 DEF StepKept, Kept, expected
<1>10. TablesOK'
  BY <1>2, <1>4, <1>5 DEF TablesOK
<1>11. ProcessedMeansHandled'
  BY <1>2, <1>3, <1>5 DEF ProcessedMeansHandled
<1> QED BY <1>1, <1>6, <1>7, <1>9, <1>10, <1>11

\* A row whose event stays; processed only if the handler ran.
LEMMA RowChanged ==
    ASSUME IInv, NEW i, NEW row \in Row, rows' = [rows EXCEPT ![i] = row],
           i \in RowIds => row.ev = rows[i].ev,
           i \in RowIds => (row.processed => rows[i].processed
               \/ \E e \in Events : SameKey(e, rows[i].ev) /\ handled[e] > 0),
           UNCHANGED <<dead, handled, idxCursor, origin, cut>>
    PROVE  /\ StepKept /\ rows' \in [RowIds -> Row]
           /\ TablesOK' /\ ProcessedMeansHandled'
<1>1. rows \in [RowIds -> Row] /\ TablesOK /\ ProcessedMeansHandled
  BY DEF IInv, TypeOK
<1>2. rows' \in [RowIds -> Row]
  BY <1>1
<1>3. \A j \in RowIds : rows'[j] = IF j = i THEN row ELSE rows[j]
  BY <1>1
<1>4. \A j \in RowIds : rows'[j].ev = rows[j].ev
  BY <1>3
<1>5. idents' = idents
  BY <1>4 DEF idents
<1>6. StepKept
  BY <1>5 DEF StepKept, Kept, expected
<1>7. TablesOK'
  BY <1>1, <1>4 DEF TablesOK
<1>8. ProcessedMeansHandled'
  BY <1>1, <1>3, <1>4 DEF ProcessedMeansHandled
<1> QED BY <1>2, <1>6, <1>7, <1>8

\* A row that moves between the tables keeps its event.
LEMMA RowMoved ==
    ASSUME IInv, NEW i, NEW row \in Row, NEW old \in 0..MaxEvent,
           rows' = [rows EXCEPT ![i] = row], dead' = [dead EXCEPT ![i] = old],
           ~row.processed,
           i \in RowIds => idents[i] = (IF row.ev # 0 THEN row.ev ELSE old),
           row.ev # 0 => old = 0,
           UNCHANGED <<handled, idxCursor, origin, cut>>
    PROVE  /\ StepKept /\ rows' \in [RowIds -> Row] /\ dead' \in [RowIds -> 0..MaxEvent]
           /\ TablesOK' /\ ProcessedMeansHandled'
<1>1. /\ rows \in [RowIds -> Row] /\ dead \in [RowIds -> 0..MaxEvent]
      /\ TablesOK /\ ProcessedMeansHandled
  BY DEF IInv, TypeOK
<1>2. rows' \in [RowIds -> Row]
  BY <1>1
<1>3. dead' \in [RowIds -> 0..MaxEvent]
  BY <1>1
<1>4. /\ \A j \in RowIds : rows'[j] = IF j = i THEN row ELSE rows[j]
      /\ \A j \in RowIds : dead'[j] = IF j = i THEN old ELSE dead[j]
  BY <1>1
<1>5. idents' = idents
  BY <1>4 DEF idents
<1>6. StepKept
  BY <1>5 DEF StepKept, Kept, expected
<1>7. TablesOK'
  BY <1>1, <1>4 DEF TablesOK
<1>8. ProcessedMeansHandled'
  BY <1>1, <1>4 DEF ProcessedMeansHandled
<1> QED BY <1>2, <1>3, <1>6, <1>7, <1>8

\* The invariant after a step that leaves the indexer's cursor alone.
LEMMA InvAfter ==
    ASSUME IInv, StepKept, UNCHANGED <<ledger, idxCursor, origin, cut, lock>>,
           run' \in [Workers -> Run], WorkersOK', TokenOK',
           rows' \in [RowIds -> Row], dead' \in [RowIds -> 0..MaxEvent],
           cursor' \in [Replicas -> Nat], handled' \in [Events -> Nat], faults' \in Nat,
           TablesOK', ProcessedMeansHandled'
    PROVE  IInv'
BY CursorKept DEF IInv, TypeOK

\* The indexer's batch holds what its cursor will pass, or it was cut off.
LEMMA IndexStep ==
    ASSUME IInv, NEW w \in Workers, IndexEvents(w)
    PROVE  IInv'
<1> DEFINE from == run[w].top
           batch == Fetch(from, ledger)
           todo == {EventItem(e) : e \in batch}
           top == Beyond(from, batch)
           passed == {e \in Events : from <= Ledger[e] /\ Ledger[e] < top}
<1>1. /\ run[w] \in Run /\ RunOK(run[w], idents, handled, idxCursor, expected)
      /\ run[w].pc = "fetch" /\ run[w].kind = "index" /\ run[w].todo = {}
      /\ BeginBatch(w, todo, top) /\ cut' = cut \cup (passed \ batch)
      /\ UNCHANGED <<ledger, tables, cursor, idxCursor, origin, lock, handled, faults>>
  BY WorkerFacts DEF IndexEvents, At, RunOK
<1>2. /\ from \in Nat /\ from # 0 /\ idxCursor # 0 /\ ledger \in Nat
      /\ Pending(run[w], idents, expected)
  BY <1>1 DEF IInv, TypeOK, Run, RunOK, Indexing
<1>3. batch \in SUBSET Events
  BY DEF Fetch
<1>4. top \in Nat /\ top >= from
  BY <1>2, <1>3, BeyondSpec
<1>5. idents' = idents /\ expected' \subseteq expected
  BY <1>1 DEF idents, expected, tables
<1>6. StepKept
  BY <1>1, <1>5 DEF StepKept, Kept
<1>7. run' \in [Workers -> Run] /\ WorkersOK' /\ TokenOK'
  <2>1. CASE todo = {}
    <3>1. PICK r : Moves(w, r)
      BY <1>1, <2>1, LeaveMoves DEF BeginBatch
    <3> QED BY <1>1, <1>6, <3>1, MoveStep DEF StepKept
  <2>2. CASE todo # {}
    <3> DEFINE r == [run[w] EXCEPT !.pc = "next", !.todo = todo, !.top = top]
    <3>1. Become(w, r)
      BY <1>1, <2>2 DEF BeginBatch
    <3>2. todo \in SUBSET Item /\ \A item \in todo : item.ev \in Events
      BY <1>3, ItemTypes
    <3>3. \A e \in expected' : Ledger[e] < top => Known(idents, e) \/ EventItem(e) \in todo
      <4>1. SUFFICES ASSUME NEW e \in expected', Ledger[e] < top
                     PROVE  Known(idents, e) \/ EventItem(e) \in todo
        OBVIOUS
      <4>2. e \in expected /\ e \in Events /\ e \notin passed \ batch
        BY <1>1, <1>5, <4>1 DEF expected
      <4>3. Ledger[e] \in Nat
        BY <4>2, ItemTypes
      <4>4. CASE Ledger[e] < from
        BY <1>1, <1>2, <4>2, <4>4 DEF Pending
      <4>5. CASE ~(Ledger[e] < from)
        BY <1>2, <4>1, <4>2, <4>3, <4>5
      <4> QED BY <4>4, <4>5
    <3> HIDE DEF todo, top, from, batch, passed
    <3>4. r \in Run
      BY <1>1, <1>4, <3>2 DEF Run, Labels
    <3>5. /\ r.pc = "next" /\ r.todo = todo /\ r.top = top
          /\ r.kind = "index" /\ r.token = run[w].token
      BY <1>1 DEF Run
    <3> HIDE DEF r
    <3>6. Pending(r, idents', expected')
      BY <1>5, <3>3, <3>5 DEF Pending
    <3>7. idxCursor' # 0 /\ r.top # 0
      BY <1>1, <1>2, <1>4, <3>5
    <3>8. RunOK(r, idents', handled', idxCursor', expected')
      BY <3>2, <3>5, <3>6, <3>7 DEF RunOK, InHand, Indexing
    <3> QED BY <1>1, <1>6, <3>1, <3>4, <3>5, <3>8, WorkerStep DEF StepKept
  <2> QED BY <2>1, <2>2
<1>8. \A e \in passed \ batch : CutOff(e)
  BY <1>2, FetchCut
<1>9. cut' \subseteq Events
  BY <1>1 DEF IInv, TypeOK
<1>10. CursorOK'
  <2>1. \A e \in cut' : CutOff(e)
    BY <1>1, <1>8 DEF IInv, CursorOK
  <2>2. \A e \in expected' : Ledger[e] < idxCursor' => Known(idents', e)
    BY <1>1, <1>5 DEF IInv, CursorOK
  <2> QED BY <2>1, <2>2 DEF CursorOK
<1> QED BY <1>1, <1>7, <1>9, <1>10
        DEF IInv, TypeOK, TablesOK, ProcessedMeansHandled, tables

\* A raw event is stored once, under its key.
LEMMA SaveStep ==
    ASSUME IInv, NEW w \in Workers, SaveRawEvent(w)
    PROVE  IInv'
<1> DEFINE e == run[w].item.ev
           stores == run[w].kind \in {"index", "backfill"}
<1>1. /\ run[w] \in Run /\ RunOK(run[w], idents, handled, idxCursor, expected)
      /\ run[w].pc = "create" /\ run[w].pc \in InHand /\ e \in Events
      /\ UNCHANGED <<ledger, dead, cursor, idxCursor, origin, cut, lock, handled>>
  BY WorkerFacts DEF SaveRawEvent, At, InHand, RunOK
<1>2. /\ dead \in [RowIds -> 0..MaxEvent] /\ cursor \in [Replicas -> Nat]
      /\ handled \in [Events -> Nat] /\ faults \in Nat
  BY DEF IInv, TypeOK
<1>3. ASSUME NEW i \in RowIds, Fresh(i),
             rows' = [rows EXCEPT ![i] = [NoRow EXCEPT !.ev = e]], UNCHANGED faults,
             IF stores THEN Loop(w)
             ELSE Become(w, [run[w] EXCEPT !.pc = "handle", !.row = i])
      PROVE  IInv'
  <2> HIDE DEF e
  <2>1. /\ StepKept /\ idents'[i] = e /\ e # 0 /\ rows' \in [RowIds -> Row]
        /\ TablesOK' /\ ProcessedMeansHandled'
    BY <1>1, <1>3, RowCreated
  <2>2. CASE stores
    <3> DEFINE r == [run[w] EXCEPT !.pc = "next", !.item = NoItem, !.row = 0]
    <3>1. Become(w, r)
      BY <1>3, <2>2 DEF Loop
    <3>2. "next" \in Labels
      BY DEF Labels
    <3>3. r \in Run
      BY <1>1, <3>2, IdleType DEF Run
    <3>4. /\ r.pc = "next" /\ r.kind = run[w].kind /\ r.token = run[w].token
          /\ r.todo = run[w].todo /\ r.top = run[w].top
      BY <1>1 DEF Run
    <3>5. RunOK(run[w], idents', handled', idxCursor', expected')
      BY <1>1, <2>1, RunKept DEF StepKept
    <3>6. Known(idents', e)
      BY <2>1 DEF Known, SameKey
    <3>7. Indexing(r) => Indexing(run[w])
      BY <1>1, <3>4 DEF Indexing
    <3>8. Indexing(r) => Pending(r, idents', expected')
      <4>1. SUFFICES ASSUME Indexing(r), NEW f \in expected', Ledger[f] < r.top
                     PROVE  Known(idents', f) \/ EventItem(f) \in r.todo
        BY DEF Pending
      <4>2. \/ Known(idents', f) \/ EventItem(f) \in run[w].todo
            \/ run[w].item.ev = f
        BY <3>4, <3>5, <3>7, <4>1 DEF RunOK, Pending
      <4> QED BY <3>4, <3>6, <4>2 DEF e
    <3>9. RunOK(r, idents', handled', idxCursor', expected')
      BY <3>4, <3>5, <3>7, <3>8 DEF RunOK, InHand
    <3>10. run' \in [Workers -> Run] /\ WorkersOK' /\ TokenOK'
      BY <1>1, <2>1, <3>1, <3>3, <3>4, <3>9, WorkerStep DEF StepKept
    <3> QED BY <1>1, <1>2, <1>3, <2>1, <3>10, InvAfter
  <2>3. CASE ~stores
    <3> DEFINE r == [run[w] EXCEPT !.pc = "handle", !.row = i]
    <3>1. Become(w, r)
      BY <1>3, <2>3
    <3>2. i \in 0..MaxRows /\ "handle" \in Labels
      BY BoundsAssumption DEF RowIds, Labels
    <3>3. r \in Run
      BY <1>1, <3>2 DEF Run
    <3>4. /\ r.pc = "handle" /\ r.kind = run[w].kind /\ r.token = run[w].token
          /\ r.todo = run[w].todo /\ r.item = run[w].item /\ r.row = i
      BY <1>1 DEF Run
    <3>5. SameKey(idents'[i], run[w].item.ev) /\ idents'[i] # 0
      BY <2>1 DEF SameKey, e
    <3>6. RunOK(r, idents', handled', idxCursor', expected')
      BY <1>1, <2>3, <3>4, <3>5 DEF RunOK, InHand, Indexing, e
    <3>7. run' \in [Workers -> Run] /\ WorkersOK' /\ TokenOK'
      BY <1>1, <2>1, <3>1, <3>3, <3>4, <3>6, WorkerStep DEF StepKept
    <3> QED BY <1>1, <1>2, <1>3, <2>1, <3>7, InvAfter
  <2> QED BY <2>2, <2>3
<1>4. ASSUME Fault("db"), Catch(w), UNCHANGED rows
      PROVE  IInv'
  <2>1. PICK r : Moves(w, r)
    BY <1>1, <1>4, CatchMoves
  <2>2. faults' \in Nat
    BY <1>2, <1>4 DEF Fault
  <2> QED BY <1>1, <1>2, <1>4, <2>1, <2>2, QuietStep DEF tables
<1> QED BY <1>3, <1>4 DEF SaveRawEvent

\* The handler of the row's event runs.
LEMMA HandleStep ==
    ASSUME IInv, NEW w \in Workers, Handle(w)
    PROVE  IInv'
<1> DEFINE e == run[w].item.ev
<1>1. /\ run[w] \in Run /\ RunOK(run[w], idents, handled, idxCursor, expected)
      /\ run[w].pc = "handle" /\ run[w].pc \in InHand /\ e \in Events
      /\ UNCHANGED <<ledger, tables, cursor, idxCursor, origin, cut, lock>>
  BY WorkerFacts DEF Handle, At, InHand, RunOK
<1>2. /\ rows \in [RowIds -> Row] /\ dead \in [RowIds -> 0..MaxEvent]
      /\ cursor \in [Replicas -> Nat] /\ handled \in [Events -> Nat] /\ faults \in Nat
  BY DEF IInv, TypeOK
<1>3. ASSUME handled' = [handled EXCEPT ![e] = @ + 1], Goto(w, "mark"), UNCHANGED faults
      PROVE  IInv'
  <2> DEFINE r == [run[w] EXCEPT !.pc = "mark"]
  <2>1. handled' \in [Events -> Nat] /\ handled'[e] > 0
    BY <1>1, <1>2, <1>3
  <2>2. \A f \in Events : handled[f] > 0 => handled'[f] > 0
    BY <1>2, <1>3
  <2>3. idents' = idents
    BY <1>1 DEF idents, tables
  <2>4. StepKept
    BY <1>1, <2>2, <2>3 DEF StepKept, Kept, expected
  <2>5. Become(w, r) /\ r \in Run
    BY <1>1, <1>3 DEF Goto, Run, Labels
  <2>6. /\ r.pc = "mark" /\ r.kind = run[w].kind /\ r.token = run[w].token
        /\ r.todo = run[w].todo /\ r.item = run[w].item /\ r.row = run[w].row
    BY <1>1 DEF Run
  <2>7. RunOK(r, idents', handled', idxCursor', expected')
    BY <1>1, <2>1, <2>3, <2>6 DEF RunOK, InHand, Indexing
  <2>8. run' \in [Workers -> Run] /\ WorkersOK' /\ TokenOK'
    BY <1>1, <2>4, <2>5, <2>6, <2>7, WorkerStep DEF StepKept
  <2>9. TablesOK' /\ ProcessedMeansHandled'
    BY <1>1, <2>2 DEF IInv, TablesOK, ProcessedMeansHandled, tables
  <2> QED BY <1>1, <1>2, <1>3, <2>1, <2>4, <2>8, <2>9, InvAfter DEF tables
<1>4. ASSUME Fault("handler"), Catch(w), UNCHANGED handled
      PROVE  IInv'
  <2>1. PICK r : Moves(w, r)
    BY <1>1, <1>4, CatchMoves
  <2>2. faults' \in Nat
    BY <1>2, <1>4 DEF Fault
  <2> QED BY <1>1, <1>2, <1>4, <2>1, <2>2, QuietStep
<1> QED BY <1>3, <1>4 DEF Handle

\* A row is marked after its handler ran.
LEMMA MarkStep ==
    ASSUME IInv, NEW w \in Workers, MarkProcessed(w)
    PROVE  IInv'
<1> DEFINE i == run[w].row
<1>1. /\ run[w] \in Run /\ RunOK(run[w], idents, handled, idxCursor, expected)
      /\ run[w].pc = "mark" /\ run[w].pc \in InHand
      /\ run[w].kind # "index"
      /\ UNCHANGED <<ledger, dead, idxCursor, origin, cut, lock, handled>>
  BY WorkerFacts DEF MarkProcessed, At, InHand, RunOK
<1>2. /\ rows \in [RowIds -> Row] /\ dead \in [RowIds -> 0..MaxEvent]
      /\ cursor \in [Replicas -> Nat] /\ handled \in [Events -> Nat] /\ faults \in Nat
  BY DEF IInv, TypeOK
<1>3. ASSUME Exists(i), rows' = [rows EXCEPT ![i].processed = TRUE],
             Loop(w), Advance(w), UNCHANGED faults
      PROVE  IInv'
  <2> DEFINE row == [rows[i] EXCEPT !.processed = TRUE]
  <2>1. i \in RowIds
    BY <1>1 DEF RunOK
  <2>2. row \in Row /\ row.ev = rows[i].ev
    BY <1>2, <2>1 DEF Row
  <2>3. idents[i] = rows[i].ev
    BY <1>3, <2>1 DEF idents, Exists
  <2>4. \E e \in Events : SameKey(e, rows[i].ev) /\ handled[e] > 0
    BY <1>1, <2>3 DEF RunOK, SameKey
  <2>5. rows' = [rows EXCEPT ![i] = row]
    BY <1>3
  <2> HIDE DEF row, i
  <2>6. /\ StepKept /\ rows' \in [RowIds -> Row]
        /\ TablesOK' /\ ProcessedMeansHandled'
    BY <1>1, <2>2, <2>4, <2>5, RowChanged
  <2>7. PICK r : Moves(w, r)
    BY <1>1, <1>3, LoopMoves
  <2>8. run' \in [Workers -> Run] /\ WorkersOK' /\ TokenOK'
    BY <1>1, <2>6, <2>7, MoveStep DEF StepKept
  <2>9. cursor' \in [Replicas -> Nat]
    BY <1>1, <1>3, AdvanceType
  <2> QED BY <1>1, <1>2, <1>3, <2>6, <2>8, <2>9, InvAfter
<1>4. ASSUME Catch(w), UNCHANGED <<rows, cursor>>, faults' \in Nat
      PROVE  IInv'
  <2>1. PICK r : Moves(w, r)
    BY <1>1, <1>4, CatchMoves
  <2> QED BY <1>1, <1>2, <1>4, <2>1, QuietStep DEF tables
<1>5. Fault("handler") => faults' \in Nat
  BY <1>2 DEF Fault
<1> QED BY <1>2, <1>3, <1>4, <1>5 DEF MarkProcessed

\* The cursor the indexer saves: its whole batch is stored.
LEMMA WriteCursorStep ==
    ASSUME IInv, NEW w \in Workers, WriteCursor(w)
    PROVE  IInv'
<1>1. /\ run[w] \in Run /\ RunOK(run[w], idents, handled, idxCursor, expected)
      /\ run[w].pc = "cursor" /\ run[w].kind = "index" /\ run[w].todo = {}
      /\ UNCHANGED <<ledger, tables, cursor, origin, cut, lock, handled, faults>>
      /\ idxCursor' = run[w].top /\ Leave(w)
  BY WorkerFacts DEF WriteCursor, At, RunOK
<1>2. run[w].top \in Nat /\ run[w].top # 0
  BY <1>1 DEF Run, RunOK, Indexing
<1>3. idents' = idents
  BY <1>1 DEF idents, tables
<1>4. StepKept
  BY <1>1, <1>2, <1>3 DEF StepKept, Kept, expected
<1>5. PICK r : Moves(w, r)
  BY <1>1, LeaveMoves
<1>6. run' \in [Workers -> Run] /\ WorkersOK' /\ TokenOK'
  BY <1>1, <1>4, <1>5, MoveStep DEF StepKept
<1>7. TypeOK'
  BY <1>1, <1>2, <1>6 DEF IInv, TypeOK, tables
<1>8. TablesOK' /\ ProcessedMeansHandled'
  BY <1>1 DEF IInv, TablesOK, ProcessedMeansHandled, tables
<1>9. CursorOK'
  BY <1>1, <1>3 DEF IInv, CursorOK, expected, RunOK, Indexing, Pending
<1> QED BY <1>6, <1>7, <1>8, <1>9 DEF IInv

\* A worker of the retry job moves within its handling of a failure.
LEMMA FailMoves ==
    ASSUME IInv, NEW w \in Workers, NEW label \in {"bury", "move"}, Goto(w, label),
           run[w].pc \in {"fail", "bury"}
    PROVE  \E r : Moves(w, r)
<1> DEFINE r == [run[w] EXCEPT !.pc = label]
<1>1. run[w] \in Run /\ RunOK(run[w], idents, handled, idxCursor, expected)
  BY WorkerFacts
<1>2. label \in Labels
  BY DEF Labels
<1>3. r \in Run /\ Become(w, r)
  BY <1>1, <1>2 DEF Run, Goto
<1>4. /\ r.pc = label /\ r.kind = run[w].kind /\ r.token = run[w].token
      /\ r.todo = run[w].todo
  BY <1>1 DEF Run
<1>5. RunOK(r, idents, handled, idxCursor, expected)
  BY <1>1, <1>4 DEF RunOK, InHand, Indexing
<1> QED BY <1>3, <1>4, <1>5 DEF Moves

\* A failure is recorded on the row in hand.
LEMMA RecordStep ==
    ASSUME IInv, NEW w \in Workers, RecordFailure(w)
    PROVE  IInv'
<1> DEFINE i == run[w].item.id
           count == run[w].item.retry + 1
           row == [rows[i] EXCEPT !.retry = count, !.cooling = TRUE]
<1>1. /\ run[w] \in Run /\ RunOK(run[w], idents, handled, idxCursor, expected)
      /\ run[w].pc = "fail" /\ run[w].kind = "retry"
      /\ UNCHANGED <<ledger, dead, cursor, idxCursor, origin, cut, lock, handled, faults>>
  BY WorkerFacts DEF RecordFailure, At, RunOK
<1>2. /\ rows \in [RowIds -> Row] /\ dead \in [RowIds -> 0..MaxEvent]
      /\ cursor \in [Replicas -> Nat] /\ handled \in [Events -> Nat] /\ faults \in Nat
  BY DEF IInv, TypeOK
<1>3. ASSUME Exists(i), rows' = [rows EXCEPT ![i].retry = count, ![i].cooling = TRUE],
             IF count >= MaxRetries THEN Goto(w, "bury") ELSE Loop(w)
      PROVE  IInv'
  <2>1. PICK r : Moves(w, r)
    <3>1. CASE Goto(w, "bury")
      BY <1>1, <3>1, FailMoves
    <3>2. CASE Loop(w)
      BY <1>1, <3>2, LoopMoves
    <3> QED BY <1>3, <3>1, <3>2
  <2>2. count \in Nat
    BY <1>1 DEF Run, Item
  <2>3. /\ StepKept /\ rows' \in [RowIds -> Row]
        /\ TablesOK' /\ ProcessedMeansHandled'
    <3>1. CASE i \in RowIds
      <4> HIDE DEF i, count
      <4>1. row \in Row /\ row.ev = rows[i].ev /\ row.processed = rows[i].processed
        BY <1>2, <2>2, <3>1 DEF Row
      <4>2. rows' = [rows EXCEPT ![i] = row]
        BY <1>2, <1>3, <3>1
      <4> HIDE DEF row
      <4> QED BY <1>1, <4>1, <4>2, RowChanged
    <3>2. CASE i \notin RowIds
      <4>1. UNCHANGED rows
        BY <1>2, <1>3, <3>2
      <4>2. idents' = idents
        BY <1>1, <4>1 DEF idents
      <4> QED BY <1>1, <1>2, <4>1, <4>2
              DEF IInv, StepKept, Kept, expected, TablesOK, ProcessedMeansHandled
    <3> QED BY <3>1, <3>2
  <2>4. run' \in [Workers -> Run] /\ WorkersOK' /\ TokenOK'
    BY <1>1, <2>1, <2>3, MoveStep DEF StepKept
  <2> QED BY <1>1, <1>2, <2>3, <2>4, InvAfter
<1>4. ASSUME Leave(w), UNCHANGED rows
      PROVE  IInv'
  <2>1. PICK r : Moves(w, r)
    BY <1>4, LeaveMoves
  <2> QED BY <1>1, <1>2, <1>4, <2>1, QuietStep DEF tables
<1> QED BY <1>3, <1>4 DEF RecordFailure

\* A row out of retries moves to the dead letters with its identity.
LEMMA BuryStep ==
    ASSUME IInv, NEW w \in Workers, FindDead(w) \/ MoveToDeadLetter(w)
    PROVE  IInv'
<1> DEFINE i == run[w].item.id
<1>1. /\ run[w] \in Run /\ RunOK(run[w], idents, handled, idxCursor, expected)
      /\ run[w].pc \in {"bury", "move"} /\ run[w].kind = "retry"
      /\ UNCHANGED <<ledger, cursor, idxCursor, origin, cut, lock, handled, faults>>
  BY WorkerFacts DEF FindDead, MoveToDeadLetter, At, RunOK
<1>2. /\ rows \in [RowIds -> Row] /\ dead \in [RowIds -> 0..MaxEvent]
      /\ cursor \in [Replicas -> Nat] /\ handled \in [Events -> Nat] /\ faults \in Nat
  BY DEF IInv, TypeOK
<1>3. ASSUME NEW r, Moves(w, r), UNCHANGED tables
      PROVE  IInv'
  BY <1>1, <1>2, <1>3, QuietStep
<1>4. Leave(w) => \E r : Moves(w, r)
  BY LeaveMoves
<1>5. Loop(w) => \E r : Moves(w, r)
  BY <1>1, LoopMoves
<1>6. CASE FindDead(w)
  <2>1. Goto(w, "move") => \E r : Moves(w, r)
    BY <1>6, FailMoves DEF FindDead, At
  <2> QED BY <1>3, <1>5, <1>6, <2>1 DEF FindDead
<1>7. ASSUME Exists(i), dead' = [dead EXCEPT ![i] = rows[i].ev],
             rows' = [rows EXCEPT ![i] = NoRow], Loop(w)
      PROVE  IInv'
  <2>1. PICK r : Moves(w, r)
    BY <1>5, <1>7
  <2> DEFINE old == IF i \in RowIds THEN rows[i].ev ELSE 0
  <2>2. NoRow \in Row /\ NoRow.ev = 0 /\ ~NoRow.processed
    BY ChainAssumption DEF NoRow, Row
  <2>3. old \in 0..MaxEvent
    BY <1>2, ChainAssumption DEF Row
  <2>4. dead' = [dead EXCEPT ![i] = old]
    BY <1>2, <1>7
  <2>5. i \in RowIds => idents[i] = (IF NoRow.ev # 0 THEN NoRow.ev ELSE old)
    BY <1>7, <2>2 DEF idents, Exists
  <2> HIDE DEF old, i
  <2>6. /\ StepKept /\ rows' \in [RowIds -> Row] /\ dead' \in [RowIds -> 0..MaxEvent]
        /\ TablesOK' /\ ProcessedMeansHandled'
    BY <1>1, <1>7, <2>2, <2>3, <2>4, <2>5, RowMoved
  <2>7. run' \in [Workers -> Run] /\ WorkersOK' /\ TokenOK'
    BY <1>1, <2>1, <2>6, MoveStep DEF StepKept
  <2> QED BY <1>1, <1>2, <2>6, <2>7, InvAfter
<1>8. CASE MoveToDeadLetter(w)
  BY <1>3, <1>4, <1>7, <1>8 DEF MoveToDeadLetter
<1> QED BY <1>6, <1>8

-----------------------------------------------------------------------------
(* Steps of the tables, the chain and the cursor's first value *)

\* Requeueing and the end of a backoff keep the row's event.
LEMMA TableSteps ==
    ASSUME IInv, NEW i \in RowIds, Requeue(i) \/ BackoffOver(i)
    PROVE  IInv'
<1>1. /\ rows \in [RowIds -> Row] /\ dead \in [RowIds -> 0..MaxEvent]
      /\ cursor \in [Replicas -> Nat] /\ handled \in [Events -> Nat] /\ faults \in Nat
      /\ UNCHANGED <<ledger, cursor, idxCursor, origin, cut, lock, run, handled, faults>>
  BY DEF IInv, TypeOK, Requeue, BackoffOver
<1>2. CASE Requeue(i)
  <2> DEFINE row == [NoRow EXCEPT !.ev = dead[i]]
  <2>1. dead[i] \in 0..MaxEvent /\ 0 \in 0..MaxEvent
    BY <1>1, ChainAssumption
  <2>2. row \in Row /\ row.ev = dead[i] /\ row.processed = FALSE
    BY <2>1 DEF Row, NoRow
  <2>3. /\ rows' = [rows EXCEPT ![i] = row] /\ dead' = [dead EXCEPT ![i] = 0]
        /\ idents[i] = dead[i] /\ dead[i] # 0
    BY <1>2 DEF Requeue, idents, Exists
  <2> HIDE DEF row
  <2>4. /\ StepKept /\ rows' \in [RowIds -> Row] /\ dead' \in [RowIds -> 0..MaxEvent]
        /\ TablesOK' /\ ProcessedMeansHandled'
    BY <1>1, <2>1, <2>2, <2>3, RowMoved
  <2> QED BY <1>1, <2>4, WorkersKept, InvAfter
<1>3. CASE BackoffOver(i)
  <2> DEFINE row == [rows[i] EXCEPT !.cooling = FALSE]
  <2>1. row \in Row /\ row.ev = rows[i].ev /\ row.processed = rows[i].processed
    BY <1>1 DEF Row
  <2>2. rows' = [rows EXCEPT ![i] = row] /\ UNCHANGED dead
    BY <1>1, <1>3 DEF BackoffOver
  <2> HIDE DEF row
  <2>3. /\ StepKept /\ rows' \in [RowIds -> Row]
        /\ TablesOK' /\ ProcessedMeansHandled'
    BY <1>1, <2>1, <2>2, RowChanged
  <2> QED BY <1>1, <2>2, <2>3, WorkersKept, InvAfter
<1> QED BY <1>2, <1>3

\* A ledger that closes adds events above every cursor.
LEMMA LedgerStep ==
    ASSUME IInv, CloseLedger
    PROVE  IInv'
<1>1. ledger' \in Nat /\ UNCHANGED <<tables, cursor, idxCursor, origin, cut, lock, run, handled, faults>>
  BY DEF IInv, TypeOK, CloseLedger
<1>2. idents' = idents
  BY <1>1 DEF idents, tables
<1>3. StepKept
  BY <1>1, <1>2 DEF StepKept, Kept, expected
<1>4. WorkersOK' /\ TokenOK' /\ CursorOK'
  BY <1>1, <1>3, WorkersKept, CursorKept
<1> QED BY <1>1, <1>4 DEF IInv, TypeOK, TablesOK, ProcessedMeansHandled, tables

\* A first run starts its cursor at the tip.
LEMMA InitCursorStep ==
    ASSUME IInv, NEW w \in Workers, InitCursor(w)
    PROVE  IInv'
<1> DEFINE r == [run[w] EXCEPT !.pc = "fetch", !.top = Start]
<1>1. /\ idxCursor' = Start /\ origin' = Larger(origin, Start) /\ Become(w, r)
      /\ UNCHANGED <<ledger, tables, cursor, cut, lock, handled, faults>>
  BY DEF InitCursor
<1>2. /\ run[w] \in Run /\ RunOK(run[w], idents, handled, idxCursor, expected)
      /\ run[w].kind = "index" /\ run[w].todo = {}
  BY WorkerFacts DEF InitCursor, At, RunOK
<1>3. Start \in Nat /\ Start # 0 /\ origin \in Nat /\ "fetch" \in Labels
  BY BoundsAssumption DEF IInv, TypeOK, Start, Larger, Labels
<1>4. origin' \in Nat /\ origin <= origin' /\ Start <= origin'
  BY <1>1, <1>3 DEF Larger
<1>5. idents' = idents
  BY <1>1 DEF idents, tables
<1>6. StepKept
  BY <1>1, <1>3, <1>4, <1>5, ItemTypes DEF StepKept, Kept, expected
<1>7. r \in Run
  BY <1>2, <1>3 DEF Run
<1>8. /\ r.pc = "fetch" /\ r.kind = "index" /\ r.token = run[w].token
      /\ r.todo = {} /\ r.top = Start
  BY <1>2 DEF Run
<1> HIDE DEF r
<1>9. Pending(r, idents', expected')
  BY <1>3, <1>4, <1>8, ItemTypes DEF Pending, expected
<1>10. RunOK(r, idents', handled', idxCursor', expected')
  BY <1>1, <1>3, <1>8, <1>9 DEF RunOK, InHand, Indexing
<1>11. run' \in [Workers -> Run] /\ WorkersOK' /\ TokenOK'
  BY <1>1, <1>2, <1>6, <1>7, <1>8, <1>10, WorkerStep DEF StepKept
<1>12. CursorOK'
  BY <1>1, <1>3, <1>4, ItemTypes DEF IInv, CursorOK, expected
<1> QED BY <1>1, <1>3, <1>4, <1>11, <1>12
        DEF IInv, TypeOK, TablesOK, ProcessedMeansHandled, tables

-----------------------------------------------------------------------------
(* Requests, locks and crashes *)

\* An admin's request starts from an idle worker and takes no lock.
LEMMA RequestStep ==
    ASSUME IInv, NEW w \in Workers,
           \/ ProcessUnprocessedEvents(w)
           \/ \E from, to \in 1..MaxLedger : BackfillEvents(w, from, to)
    PROVE  IInv'
<1>1. UNCHANGED <<ledger, tables, cursor, idxCursor, origin, cut, lock, handled, faults>>
  BY DEF ProcessUnprocessedEvents, BackfillEvents
<1>2. ASSUME NEW todo \in SUBSET Item, NEW kind \in Requests,
             \A item \in todo : item.ev \in Events,
             Become(w, [Idle EXCEPT !.pc = "next", !.kind = kind, !.todo = todo])
      PROVE  IInv'
  <2> DEFINE r == [Idle EXCEPT !.pc = "next", !.kind = kind, !.todo = todo]
  <2>1. "next" \in Labels /\ kind \in Kinds /\ kind # "index"
    BY DEF Labels, Kinds, Requests
  <2>2. r \in Run
    BY <1>2, <2>1, IdleType DEF Run
  <2>3. r.pc = "next" /\ r.kind = kind /\ r.token = FALSE /\ r.todo = todo
    BY DEF Idle
  <2>4. idents' = idents
    BY <1>1 DEF idents, tables
  <2>5. StepKept
    BY <1>1, <2>4 DEF StepKept, Kept, expected
  <2>6. RunOK(r, idents', handled', idxCursor', expected')
    BY <1>2, <2>1, <2>3 DEF RunOK, InHand, Indexing
  <2> HIDE DEF r
  <2>7. Become(w, r)
    BY <1>2 DEF r
  <2>8. run' \in [Workers -> Run] /\ WorkersOK' /\ TokenOK'
    BY <1>1, <2>2, <2>3, <2>5, <2>6, <2>7, WorkerStep DEF StepKept
  <2>9. /\ rows' \in [RowIds -> Row] /\ dead' \in [RowIds -> 0..MaxEvent]
        /\ cursor' \in [Replicas -> Nat] /\ handled' \in [Events -> Nat] /\ faults' \in Nat
        /\ TablesOK' /\ ProcessedMeansHandled'
    BY <1>1 DEF IInv, TypeOK, TablesOK, ProcessedMeansHandled, tables
  <2> QED BY <1>1, <2>5, <2>8, <2>9, InvAfter
<1>3. CASE ProcessUnprocessedEvents(w)
  <2> DEFINE todo == {RowItem(i) : i \in Unprocessed}
  <2>1. \A i \in Unprocessed : i \in RowIds /\ Exists(i)
    BY DEF Unprocessed
  <2>2. todo \in SUBSET Item /\ \A item \in todo : item.ev \in Events
    BY <2>1, ItemTypes
  <2>3. Become(w, [Idle EXCEPT !.pc = "next", !.kind = "manual", !.todo = todo])
    BY <1>3 DEF ProcessUnprocessedEvents
  <2> HIDE DEF todo
  <2> QED BY <1>2, <2>2, <2>3 DEF Requests
<1>4. ASSUME NEW from, NEW to, BackfillEvents(w, from, to)
      PROVE  IInv'
  <2> DEFINE todo == {EventItem(e) : e \in Fetch(from, to)}
  <2>1. Fetch(from, to) \subseteq Events
    BY DEF Fetch
  <2>2. todo \in SUBSET Item /\ \A item \in todo : item.ev \in Events
    BY <2>1, ItemTypes
  <2>3. Become(w, [Idle EXCEPT !.pc = "next", !.kind = "backfill", !.todo = todo])
    BY <1>4 DEF BackfillEvents
  <2> HIDE DEF todo
  <2> QED BY <1>2, <2>2, <2>3 DEF Requests
<1> QED BY <1>3, <1>4

\* What is left to show of a step that changes only workers, locks, the
\* poller's cursors and the count of faults.
LEMMA ControlStep ==
    ASSUME IInv, UNCHANGED <<ledger, tables, idxCursor, origin, cut, handled>>,
           cursor' \in [Replicas -> Nat], faults' \in Nat,
           lock' \in [Crons -> BOOLEAN], run' \in [Workers -> Run], TokenOK',
           \A v \in Workers :
               \/ RunOK(run'[v], idents, handled, idxCursor, expected)
               \/ run'[v] = run[v]
    PROVE  IInv'
<1>1. idents' = idents
  BY DEF idents, tables
<1>2. WorkersOK'
  BY <1>1 DEF IInv, WorkersOK, expected
<1>3. CursorOK'
  BY <1>1 DEF IInv, CursorOK, expected
<1> QED BY <1>2, <1>3 DEF IInv, TypeOK, TablesOK, ProcessedMeansHandled, tables

\* A lock is taken with its token; a worker that cannot reach Redis goes on without.
LEMMA AcquireStep ==
    ASSUME IInv, NEW w \in Workers, NEW k \in Crons, TryAcquireLock(w, k)
    PROVE  IInv'
<1>1. /\ run \in [Workers -> Run] /\ lock \in [Crons -> BOOLEAN]
      /\ cursor \in [Replicas -> Nat] /\ faults \in Nat /\ TokenOK
      /\ UNCHANGED <<ledger, tables, cursor, idxCursor, origin, cut, handled>>
  BY DEF IInv, TypeOK, TryAcquireLock
<1>2. PICK r \in Run :
         /\ Become(w, r) /\ r.pc = "read" /\ r.kind = k /\ r.todo = {}
         /\ IF r.token THEN ~lock[k] /\ lock' = [lock EXCEPT ![k] = TRUE] /\ UNCHANGED faults
                       ELSE UNCHANGED lock /\ Fault("redis")
  <2> DEFINE won == [Idle EXCEPT !.pc = "read", !.kind = k, !.token = TRUE]
             open == [Idle EXCEPT !.pc = "read", !.kind = k]
  <2>1. "read" \in Labels /\ k \in Kinds
    BY DEF Labels, Kinds
  <2>2. won \in Run /\ open \in Run
    BY <2>1, IdleType DEF Run
  <2>3. /\ won.pc = "read" /\ won.kind = k /\ won.todo = {} /\ won.token = TRUE
        /\ open.pc = "read" /\ open.kind = k /\ open.todo = {} /\ open.token = FALSE
    BY DEF Idle
  <2>4. \/ /\ ~lock[k] /\ lock' = [lock EXCEPT ![k] = TRUE] /\ UNCHANGED faults
           /\ Become(w, won)
        \/ Fault("redis") /\ UNCHANGED lock /\ Become(w, open)
    BY DEF TryAcquireLock
  <2> HIDE DEF won, open
  <2> QED BY <2>2, <2>3, <2>4
<1>3. RunOK(r, idents, handled, idxCursor, expected)
  BY <1>2 DEF RunOK, InHand, Indexing
<1>4. /\ run' \in [Workers -> Run] /\ run'[w] = r
      /\ \A v \in Workers : v # w => run'[v] = run[v]
  BY <1>1, <1>2 DEF Become
<1>5. lock' \in [Crons -> BOOLEAN] /\ \A j \in Crons : lock[j] => lock'[j]
  BY <1>1, <1>2
<1>6. r.token => lock'[k]
  BY <1>1, <1>2
<1>7. faults' \in Nat
  BY <1>1, <1>2 DEF Fault
<1>8. \A v \in Workers : r.token /\ v # w => ~(run[v].token /\ run[v].kind = k)
  BY <1>1, <1>2 DEF TokenOK
<1>9. TokenOK'
  BY <1>1, <1>2, <1>4, <1>5, <1>6, <1>8 DEF TokenOK, OneTokenPerJob
<1> QED BY <1>1, <1>3, <1>4, <1>5, <1>7, <1>9, ControlStep

\* Only the holder's key is freed.
LEMMA ReleaseStep ==
    ASSUME IInv, NEW w \in Workers, ReleaseLock(w)
    PROVE  IInv'
<1>1. /\ run \in [Workers -> Run] /\ lock \in [Crons -> BOOLEAN]
      /\ cursor \in [Replicas -> Nat] /\ faults \in Nat /\ TokenOK
      /\ UNCHANGED <<ledger, tables, cursor, idxCursor, origin, cut, handled>>
      /\ Become(w, Idle)
  BY DEF IInv, TypeOK, ReleaseLock
<1>2. /\ run' \in [Workers -> Run] /\ run'[w] = Idle
      /\ \A v \in Workers : v # w => run'[v] = run[v]
  BY <1>1, IdleType DEF Become
<1>3. RunOK(Idle, idents, handled, idxCursor, expected) /\ ~Idle.token
  BY DEF Idle, RunOK, InHand, Indexing
<1>4. faults' \in Nat /\ (lock' = lock \/ lock' = AfterRelease(run[w]))
  BY <1>1 DEF ReleaseLock, Fault
<1>5. /\ lock' \in [Crons -> BOOLEAN]
      /\ \A k \in Crons : lock[k] /\ ~(run[w].token /\ run[w].kind = k) => lock'[k]
  BY <1>1, <1>4 DEF AfterRelease
<1>6. ASSUME NEW v \in Workers, run'[v].token
      PROVE  run'[v] = run[v] /\ run[v].kind \in Crons /\ lock'[run[v].kind]
  <2>1. v # w /\ run'[v] = run[v]
    BY <1>2, <1>3, <1>6
  <2>2. run[v].kind \in Crons /\ lock[run[v].kind]
    BY <1>1, <1>6, <2>1 DEF TokenOK
  <2>3. ~(run[w].token /\ run[w].kind = run[v].kind)
    BY <1>1, <1>6, <2>1 DEF TokenOK, OneTokenPerJob
  <2> QED BY <1>5, <2>1, <2>2, <2>3
<1>7. TokenOK'
  BY <1>1, <1>6 DEF TokenOK, OneTokenPerJob
<1> QED BY <1>1, <1>2, <1>3, <1>4, <1>5, <1>7, ControlStep

\* A lock that expires frees its key.
LEMMA ExpireStep ==
    ASSUME IInv, NEW k \in Crons, Expire(k)
    PROVE  IInv'
<1> DEFINE holders == {w \in Workers : run[w].kind = k /\ run[w].token}
<1>1. /\ run \in [Workers -> Run] /\ lock \in [Crons -> BOOLEAN]
      /\ cursor \in [Replicas -> Nat] /\ faults \in Nat /\ TokenOK
      /\ UNCHANGED <<ledger, tables, cursor, idxCursor, origin, cut, handled>>
      /\ lock' = [lock EXCEPT ![k] = FALSE]
      /\ run' = [w \in Workers |-> IF w \in holders
                                   THEN [run[w] EXCEPT !.token = FALSE] ELSE run[w]]
  BY DEF IInv, TypeOK, Expire
<1>2. faults' \in Nat
  BY <1>1 DEF Expire, Fault
<1>3. ASSUME NEW v \in Workers
      PROVE  /\ run'[v] \in Run
             /\ run'[v].token => run'[v] = run[v] /\ run[v].kind # k
             /\ RunOK(run'[v], idents, handled, idxCursor, expected)
  <2>1. run[v] \in Run /\ RunOK(run[v], idents, handled, idxCursor, expected)
    BY WorkerFacts
  <2>2. CASE v \notin holders
    BY <1>1, <2>1, <2>2
  <2>3. CASE v \in holders
    <3> DEFINE r == [run[v] EXCEPT !.token = FALSE]
    <3>1. run'[v] = r
      BY <1>1, <2>3
    <3>2. /\ r.pc = run[v].pc /\ r.kind = run[v].kind /\ r.token = FALSE
          /\ r.todo = run[v].todo /\ r.item = run[v].item
          /\ r.row = run[v].row /\ r.top = run[v].top /\ r \in Run
      BY <2>1 DEF Run
    <3>3. RunOK(r, idents, handled, idxCursor, expected)
      BY <2>1, <3>2 DEF RunOK, Indexing, Pending
    <3> QED BY <3>1, <3>2, <3>3
  <2> QED BY <2>2, <2>3
<1>4. run' \in [Workers -> Run]
  BY <1>1, <1>3
<1>5. lock' \in [Crons -> BOOLEAN] /\ \A j \in Crons : j # k => lock'[j] = lock[j]
  BY <1>1
<1>6. TokenOK'
  BY <1>1, <1>3, <1>5 DEF TokenOK, OneTokenPerJob
<1> QED BY <1>1, <1>2, <1>3, <1>4, <1>5, <1>6, ControlStep

\* A replica that stops leaves its workers idle.
LEMMA CrashStep ==
    ASSUME IInv, NEW r \in Replicas, Crash(r)
    PROVE  IInv'
<1>1. /\ run \in [Workers -> Run] /\ lock \in [Crons -> BOOLEAN]
      /\ cursor \in [Replicas -> Nat] /\ faults \in Nat /\ TokenOK
      /\ UNCHANGED <<ledger, tables, idxCursor, origin, cut, lock, handled>>
      /\ run' = [w \in Workers |-> IF Replica[w] = r THEN Idle ELSE run[w]]
  BY DEF IInv, TypeOK, Crash
<1>2. faults' \in Nat
  BY <1>1 DEF Crash, Fault
<1>3. Start \in Nat
  BY BoundsAssumption DEF IInv, TypeOK, Start, Larger
<1>4. cursor' \in [Replicas -> Nat]
  BY <1>1, <1>3 DEF Crash
<1>5. \A v \in Workers : run'[v] = run[v] \/ run'[v] = Idle
  BY <1>1
<1>6. RunOK(Idle, idents, handled, idxCursor, expected) /\ ~Idle.token
  BY DEF Idle, RunOK, InHand, Indexing
<1>7. run' \in [Workers -> Run]
  BY <1>1, IdleType
<1>8. TokenOK'
  BY <1>1, <1>5, <1>6 DEF TokenOK, OneTokenPerJob
<1> QED BY <1>1, <1>2, <1>4, <1>5, <1>6, <1>7, <1>8, ControlStep

-----------------------------------------------------------------------------
(* The invariant and the theorems *)

\* The steps that only read change the worker's own run.
LEMMA ReadSteps ==
    ASSUME IInv, NEW w \in Workers,
           \/ PollEvents(w) \/ RetryUnprocessed(w) \/ ReadCursor(w)
           \/ EndBatch(w) \/ NextItem(w) \/ CheckProcessed(w) \/ FindRow(w)
    PROVE  IInv'
<1>1. cursor \in [Replicas -> Nat] /\ faults \in Nat
  BY DEF IInv, TypeOK
<1>2. UNCHANGED <<tables, idxCursor, origin, cut, lock, handled, ledger, faults>>
  BY DEF PollEvents, ReadCursor, RetryUnprocessed, EndBatch, NextItem,
         CheckProcessed, FindRow
<1>3. (\E r : Moves(w, r)) /\ cursor' \in [Replicas -> Nat]
  <2>1. CASE CheckProcessed(w) \/ FindRow(w)
    BY <2>1, CheckMoves, FindMoves
  <2>2. CASE PollEvents(w) \/ RetryUnprocessed(w)
    BY <1>1, <2>2, ReadMoves DEF PollEvents, RetryUnprocessed
  <2>3. CASE ReadCursor(w)
    BY <1>1, <2>3, ReadCursorMoves DEF ReadCursor
  <2>4. CASE EndBatch(w) \/ NextItem(w)
    BY <1>1, <2>4, EndMoves, NextMoves DEF EndBatch, NextItem
  <2> QED BY <2>1, <2>2, <2>3, <2>4
<1> QED BY <1>1, <1>2, <1>3, QuietStep

\* Every step keeps the invariant.
LEMMA IInvStep == IInv /\ [Next]_vars => IInv'
<1> SUFFICES ASSUME IInv, [Next]_vars PROVE IInv'
  OBVIOUS
<1>1. CASE UNCHANGED vars
  BY <1>1 DEF vars, tables, IInv, TypeOK, WorkersOK, idents, expected, TokenOK, OneTokenPerJob,
              TablesOK, ProcessedMeansHandled, CursorOK
<1>2. ASSUME NEW w \in Workers, Continue(w)
      PROVE  IInv'
  BY <1>2, ReadSteps, IndexStep, InitCursorStep, SaveStep, HandleStep, MarkStep, WriteCursorStep,
     RecordStep, BuryStep, ReleaseStep DEF Continue
<1> QED BY <1>1, <1>2, AcquireStep, RequestStep, TableSteps, ExpireStep, CrashStep,
           LedgerStep DEF Next

\* It always holds.
LEMMA IInvAlways == Spec => []IInv
BY IInvInit, IInvStep, PTL DEF Spec

\* Every variable keeps its type.
THEOREM TypeCorrect == Spec => []TypeOK
<1>1. IInv => TypeOK
  BY DEF IInv
<1> QED BY <1>1, IInvAlways, PTL

\* processEvent marks a row processed only after a handler for its transaction
\* and event name ran, whatever fails, crashes or runs twice in between.
THEOREM MarkedAfterHandled == Spec => []ProcessedMeansHandled
<1>1. IInv => ProcessedMeansHandled
  BY DEF IInv
<1> QED BY <1>1, IInvAlways, PTL

\* DistributedLockService: at most one run of a job holds its key, though keys
\* expire under slow holders and Redis fails, since releaseLock compares tokens.
THEOREM OneHolder == Spec => []OneTokenPerJob
<1>1. IInv => OneTokenPerJob
  BY DEF IInv, TokenOK
<1> QED BY <1>1, IInvAlways, PTL

\* The cursor HorizonIndexerService persists passes no event that is in neither
\* table, for any interleaving of jobs, requests, faults and crashes, except one
\* that an answer of the RPC server cuts off: past its limit, in the ledger of an
\* event before it.
THEOREM CursorNeverSkips == Spec => []CursorCoversStored
<1>1. ASSUME NEW e, Known(idents, e)
      PROVE  Stored(e)
  <2>1. PICK i \in RowIds : idents[i] # 0 /\ SameKey(idents[i], e)
    BY <1>1 DEF Known
  <2>2. CASE rows[i].ev # 0
    BY <2>1, <2>2 DEF idents, Stored, Matching, Exists
  <2>3. CASE rows[i].ev = 0
    BY <2>1, <2>3 DEF idents, Stored
  <2> QED BY <2>2, <2>3
<1>2. IInv => CursorCoversStored
  BY <1>1 DEF IInv, CursorOK, CursorCoversStored, CutOff, expected
<1> QED BY <1>2, IInvAlways, PTL
=============================================================================
