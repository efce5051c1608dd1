-------------------------- MODULE EngagementsProofs --------------------------
(***************************************************************************)
(* Proofs about Engagements and IncomingPayments, for every number of      *)
(* workers, engagements, pollers, admins and payments, every split, change *)
(* and due date, and every combination of requests and faults.             *)
(***************************************************************************)
EXTENDS IncomingPayments, TLAPS

-----------------------------------------------------------------------------
(* The inductive invariant, in parts *)

SyncLabels == {"syncChain", "syncRow", "syncWrite", "ack"}

\* What a handler's locals say at each of its labels.
LocalOK(q) ==
    /\ q.pc \notin {"idle", "remindBatch", "check"} => q.e \in Ids
    /\ q.pc \in {"find", "insert", "append"} => q.ps \in Splits \cup {<<>>}
    /\ q.pc = "rewrite" => q.ps \in Changes
    /\ q.pc \in {"syncRow", "syncWrite"} => q.view.st # "None"
    /\ q.pc \in SyncLabels <=> q.op \in EventKinds

\* A transaction with a sender is the call its sender waits for.
TxOK(t) ==
    t.by # 0 => /\ req[t.by].pc = "wait" /\ req[t.by].e = t.e
                /\ req[t.by].op = "accept" <=> t.call = "create"

\* One handler at a time works on the oldest event.
Handling(w) == req[w].op \in EventKinds
EventsOK ==
    \A w \in Workers : Handling(w) =>
        /\ events # <<>> /\ req[w].e = events[1].e /\ req[w].op = events[1].kind
        /\ \A v \in Workers : Handling(v) => v = w

HandlersOK ==
    /\ req \in [Workers -> Request]
    /\ \A w \in Workers : LocalOK(req[w])
    /\ \A t \in net : TxOK(t)
    /\ EventsOK

DueType == [at : Nat, sent : BOOLEAN]
EventType == [kind : EventKinds, e : Ids]
RowsOK ==
    /\ eng \in [Ids -> Row] /\ split \in [Ids -> Seq(Nat)] /\ due \in [Ids -> DueType]
LedgerOK ==
    /\ chain \in [Ids -> Contract] /\ events \in Seq(EventType) /\ net \subseteq Tx
RestOK ==
    /\ report \subseteq Ids
    /\ now \in Nat /\ calls \in Nat /\ faults \in Nat /\ scope \in Scopes
    /\ upset \subseteq {"overlap", "override", "offchain", "bulk", "late", "crash"}

Base == HandlersOK /\ RowsOK /\ LedgerOK /\ RestOK

\* The steps of module IncomingPayments touch of the engagements' variables only the
\* counters of requests and failures.
Apart ==
    /\ UNCHANGED <<rows, ledger, report, req, now, scope, upset>>
    /\ calls' \in Nat /\ faults' \in Nat

-----------------------------------------------------------------------------
(* How a handler moves *)

\* A handler's step changes its own entry only.
LEMMA BecomeFields ==
    ASSUME HandlersOK, NEW w \in Workers, NEW r, Become(w, r)
    PROVE  req'[w] = r /\ \A v \in Workers \ {w} : req'[v] = req[v]
BY DEF HandlersOK, Become

\* Going on keeps what the handler has read.
LEMMA GotoFields ==
    ASSUME HandlersOK, NEW w \in Workers, NEW pc, Goto(w, pc)
    PROVE  /\ \A v \in Workers \ {w} : req'[v] = req[v]
           /\ req'[w].pc = pc /\ req'[w].op = req[w].op /\ req'[w].e = req[w].e
           /\ req'[w].view = req[w].view /\ req'[w].todo = req[w].todo
           /\ req'[w].found = req[w].found
BY DEF HandlersOK, Goto, Become, Request

\* A handler that ends leaves an idle worker.
LEMMA DoneFields ==
    ASSUME HandlersOK, NEW w \in Workers, Done(w)
    PROVE  /\ \A v \in Workers \ {w} : req'[v] = req[v]
           /\ req'[w].pc = "idle" /\ req'[w].op = "none"
BY DEF HandlersOK, Done, Become, Idle

\* An idle worker is typed and has nothing in hand.
LEMMA IdleOK == Idle \in Request /\ LocalOK(Idle)
BY DEF Idle, Request, NoRow, Row, Statuses, Contract, OnChain, LocalOK, SyncLabels,
       EventKinds

\* A handler goes on in any consistent way.
LEMMA BecomeAndSend ==
    ASSUME HandlersOK, LedgerOK, NEW w \in Workers, NEW r \in Request, Become(w, r),
           LocalOK(r),
           \A t \in net' : \/ t \in net /\ t.by # w
                           \/ t.by = 0
                           \/ /\ t.by = w /\ r.pc = "wait" /\ r.e = t.e
                              /\ r.op = "accept" <=> t.call = "create",
           \A v \in Workers \ {w} : Handling(v) => events' # <<>> /\ events'[1] = events[1],
           r.op \in EventKinds =>
              /\ events' # <<>> /\ r.e = events'[1].e /\ r.op = events'[1].kind
              /\ \A v \in Workers \ {w} : ~Handling(v)
    PROVE  HandlersOK'
<1>1. /\ req' \in [Workers -> Request] /\ req'[w] = r
      /\ \A v \in Workers \ {w} : req'[v] = req[v]
  BY DEF Become, HandlersOK
<1>2. \A v \in Workers : LocalOK(req'[v])
  BY <1>1 DEF HandlersOK
<1>3. ASSUME NEW t \in net' PROVE TxOK(t)'
  <2>1. CASE t \in net /\ t.by # w
    <3>1. TxOK(t) /\ t.by \in Workers \cup {0}
      BY <2>1 DEF HandlersOK, LedgerOK, Tx
    <3> QED BY <1>1, <2>1, <3>1 DEF TxOK
  <2>2. CASE ~(t \in net /\ t.by # w)
    BY <1>1, <2>2 DEF TxOK
  <2> QED BY <2>1, <2>2
<1>4. EventsOK'
  <2> SUFFICES ASSUME NEW v \in Workers, req'[v].op \in EventKinds
               PROVE  /\ events' # <<>> /\ req'[v].e = events'[1].e
                      /\ req'[v].op = events'[1].kind
                      /\ \A u \in Workers : req'[u].op \in EventKinds => u = v
    BY DEF EventsOK, Handling
  <2>1. CASE v = w
    BY <1>1, <2>1 DEF Handling
  <2>2. CASE v # w
    <3>1. /\ Handling(v) /\ req'[v] = req[v] /\ events # <<>>
          /\ req[v].e = events[1].e /\ req[v].op = events[1].kind
          /\ \A u \in Workers : Handling(u) => u = v
      BY <1>1, <2>2 DEF HandlersOK, EventsOK, Handling
    <3>2. r.op \notin EventKinds
      BY <2>2, <3>1
    <3> QED BY <1>1, <2>2, <3>1, <3>2 DEF Handling
  <2> QED BY <2>1, <2>2
<1> QED BY <1>1, <1>2, <1>3, <1>4 DEF HandlersOK

\* A worker that does not wait for the contract has no transaction under way.
LEMMA NothingSent ==
    ASSUME HandlersOK, NEW w \in Workers, ~At(w, "wait"), NEW t \in net
    PROVE  t.by # w
BY EngagementsAssumption DEF HandlersOK, TxOK, At

\* A step of one handler that sends nothing and leaves the events alone.
LEMMA BecomeOK ==
    ASSUME HandlersOK, LedgerOK, NEW w \in Workers, NEW r \in Request, Become(w, r),
           LocalOK(r), ~At(w, "wait"), net' = net, events' = events,
           r.op \in EventKinds => r.op = req[w].op /\ r.e = req[w].e
    PROVE  HandlersOK'
<1>1. \A v \in Workers \ {w} : Handling(v) => events' # <<>> /\ events'[1] = events[1]
  BY DEF HandlersOK, EventsOK
<1>2. r.op \in EventKinds =>
        /\ events' # <<>> /\ r.e = events'[1].e /\ r.op = events'[1].kind
        /\ \A v \in Workers \ {w} : ~Handling(v)
  BY DEF HandlersOK, EventsOK, Handling
<1> QED BY <1>1, <1>2, BecomeAndSend, NothingSent

\* Ending keeps the handlers sound.
LEMMA DoneOK ==
    ASSUME HandlersOK, LedgerOK, NEW w \in Workers, Done(w), ~At(w, "wait"), net' = net,
           events' = events
    PROVE  HandlersOK'
BY BecomeOK, IdleOK DEF Done, Idle, EventKinds

\* So does going on to a point whose locals are sound.
LEMMA GotoOK ==
    ASSUME HandlersOK, LedgerOK, NEW w \in Workers, NEW pc,
           [req[w] EXCEPT !.pc = pc] \in Request, Goto(w, pc),
           LocalOK([req[w] EXCEPT !.pc = pc]), ~At(w, "wait"), net' = net, events' = events
    PROVE  HandlersOK'
<1> DEFINE r == [req[w] EXCEPT !.pc = pc]
<1>1. r.op = req[w].op /\ r.e = req[w].e
  BY DEF HandlersOK, Request
<1>2. r \in Request /\ LocalOK(r) /\ Become(w, r)
  BY DEF Goto
<1> HIDE DEF r
<1> QED BY <1>1, <1>2, BecomeOK

-----------------------------------------------------------------------------
(* Types *)

\* Where a jump may go with the locals it keeps.
LEMMA JumpOK ==
    ASSUME NEW q \in Request, LocalOK(q),
           NEW pc \in {"insert", "wait", "activate", "setCancelled", "remindBatch", "ack",
                       "syncWrite"},
           pc # "remindBatch" => q.e \in Ids,
           pc = "insert" => q.pc = "find",
           pc = "syncWrite" => q.pc = "syncRow",
           pc \in SyncLabels <=> q.pc \in SyncLabels
    PROVE  [q EXCEPT !.pc = pc] \in Request /\ LocalOK([q EXCEPT !.pc = pc])
BY DEF Request, LocalOK, SyncLabels

\* Every step of a handler keeps the handlers sound.
LEMMA HandlersStep ==
    ASSUME Base, NEW w \in Workers, Step(w)
    PROVE  HandlersOK'
<1>1. HandlersOK /\ LedgerOK /\ req[w] \in Request /\ LocalOK(req[w])
  BY DEF Base, HandlersOK
<1> USE DEF At
<1>2. ASSUME Done(w), ~At(w, "wait"), net' = net, events' = events PROVE HandlersOK'
  BY <1>1, <1>2, DoneOK
<1>3. ASSUME NEW pc \in {"insert", "activate", "setCancelled", "remindBatch", "ack",
                         "syncWrite"},
             Goto(w, pc), ~At(w, "wait"), net' = net, events' = events,
             pc # "remindBatch" => req[w].e \in Ids,
             pc = "insert" => At(w, "find"), pc = "syncWrite" => At(w, "syncRow"),
             pc \in SyncLabels <=> req[w].pc \in SyncLabels
      PROVE  HandlersOK'
  BY <1>1, <1>3, JumpOK, GotoOK
<1>4. CASE PrepareEngagement(w)
  <2>1. req[w].e \in Ids /\ ~(req[w].pc \in SyncLabels) /\ ~("insert" \in SyncLabels)
    BY <1>1, <1>4 DEF PrepareEngagement, LocalOK, SyncLabels
  <2> QED BY <1>2, <1>3, <1>4, <2>1 DEF PrepareEngagement, ledger
<1>5. CASE InsertEngagement(w)
  BY <1>2, <1>5 DEF InsertEngagement, ledger
<1>6. CASE Activate(w)
  BY <1>2, <1>6 DEF Activate, ledger
<1>7. CASE SetCancelled(w)
  BY <1>2, <1>7 DEF SetCancelled, ledger
<1>8. CASE WriteStatus(w)
  BY <1>2, <1>8 DEF WriteStatus, ledger
<1>9. CASE WriteArchived(w)
  BY <1>2, <1>9 DEF WriteArchived, ledger
<1>10. CASE AppendMilestones(w)
  BY <1>2, <1>10 DEF AppendMilestones, ledger
<1>11. CASE RewritePercents(w)
  BY <1>2, <1>11 DEF RewritePercents, ledger
<1>12. CASE WriteDueDate(w)
  BY <1>2, <1>12 DEF WriteDueDate, ledger
<1>13. CASE Submit(w)
  <2>1. CASE Done(w) /\ net' = net
    BY <1>2, <1>13, <2>1 DEF Submit
  <2>2. CASE Goto(w, "wait")
    <3> DEFINE r == [req[w] EXCEPT !.pc = "wait"]
    <3>1. req[w].e \in Ids /\ ~(req[w].pc \in SyncLabels) /\ ~("wait" \in SyncLabels)
      BY <1>1, <1>13 DEF Submit, LocalOK, SyncLabels
    <3>2. r \in Request /\ LocalOK(r)
      BY <1>1, <3>1, JumpOK
    <3>7. r.pc = "wait" /\ r.e = req[w].e /\ r.op = req[w].op
      BY <1>1 DEF Request
    <3>3. r.op \notin EventKinds
      BY <1>1, <3>1, <3>7 DEF LocalOK
    <3>4. \A t \in net' : \/ t \in net
                         \/ /\ t.by = w /\ t.e = req[w].e
                            /\ req[w].op = "accept" <=> t.call = "create"
      BY <1>13 DEF Submit
    <3>5. events' = events /\ Become(w, r) /\ ~At(w, "wait")
      BY <1>13, <2>2 DEF Submit, Goto
    <3>6. \A v \in Workers \ {w} : Handling(v) => events' # <<>> /\ events'[1] = events[1]
      BY <1>1, <3>5 DEF HandlersOK, EventsOK
    <3> HIDE DEF r
    <3> QED BY <1>1, <3>2, <3>3, <3>4, <3>5, <3>6, <3>7, NothingSent, BecomeAndSend
  <2> QED BY <1>13, <2>1, <2>2 DEF Submit
<1>14. CASE Remind(w)
  <2> DEFINE r(i) == [req[w] EXCEPT !.pc = "remind", !.e = i.e,
                                    !.todo = req[w].todo \ {i}]
  <2>1. /\ Done(w) \/ \E i \in req[w].todo : Become(w, r(i))
        /\ ~At(w, "wait") /\ net' = net /\ events' = events /\ At(w, "remindBatch")
    BY <1>14 DEF Remind, ledger
  <2>2. ASSUME NEW i \in req[w].todo, Become(w, r(i)) PROVE HandlersOK'
    <3>1. req[w].todo \ {i} \in SUBSET Item /\ i.e \in Ids
      BY <1>1 DEF Request, Item
    <3>2. r(i) \in Request
      BY <1>1, <3>1 DEF Request
    <3>3. r(i).pc = "remind" /\ r(i).op = req[w].op /\ r(i).e \in Ids
      BY <1>1, <3>1 DEF Request
    <3>4. req[w].op \notin EventKinds
      BY <1>1, <2>1 DEF LocalOK, SyncLabels
    <3>5. LocalOK(r(i)) /\ r(i).op \notin EventKinds
      BY <3>3, <3>4 DEF LocalOK, SyncLabels
    <3> HIDE DEF r
    <3> QED BY <1>1, <2>1, <2>2, <3>2, <3>5, BecomeOK
  <2> QED BY <1>2, <2>1, <2>2
<1>15. CASE MarkReminded(w)
  BY <1>3, <1>15 DEF MarkReminded, ledger, SyncLabels
<1>16. CASE SyncFromChain(w)
  <2> DEFINE r == [req[w] EXCEPT !.pc = "syncRow", !.view = chain[req[w].e]]
  <2>1. /\ At(w, "syncChain") /\ req[w].e \in Ids /\ net' = net /\ events' = events
        /\ \/ chain[req[w].e].st # "None" /\ Become(w, r)
           \/ Goto(w, "ack")
    BY <1>1, <1>16 DEF SyncFromChain, ledger, LocalOK
  <2>2. chain[req[w].e] \in Contract
    BY <1>1, <2>1 DEF LedgerOK
  <2>3. r \in Request /\ r.op = req[w].op /\ r.e = req[w].e
    BY <1>1, <2>2 DEF Request
  <2>4. chain[req[w].e].st # "None" => LocalOK(r)
    BY <1>1, <2>1, <2>2 DEF LocalOK, Request, SyncLabels
  <2>5. CASE chain[req[w].e].st # "None" /\ Become(w, r)
    <3> HIDE DEF r
    <3> QED BY <1>1, <2>1, <2>3, <2>4, <2>5, BecomeOK
  <2>6. CASE Goto(w, "ack")
    BY <1>3, <2>1, <2>6 DEF SyncLabels
  <2> QED BY <2>1, <2>5, <2>6
<1>17. CASE SyncRow(w)
  <2>1. req[w].e \in Ids /\ req[w].pc \in SyncLabels
    BY <1>1, <1>17 DEF SyncRow, LocalOK, SyncLabels
  <2> QED BY <1>3, <1>17, <2>1 DEF SyncRow, ledger, SyncLabels
<1>18. CASE SyncWrite(w)
  <2>1. req[w].e \in Ids /\ req[w].pc \in SyncLabels
    BY <1>1, <1>18 DEF SyncWrite, LocalOK, SyncLabels
  <2> QED BY <1>3, <1>18, <2>1 DEF SyncWrite, ledger, SyncLabels
<1>19. CASE Acknowledge(w)
  <2>1. Handling(w) /\ Become(w, Idle) /\ net' = net /\ ~At(w, "wait")
    BY <1>1, <1>19 DEF Acknowledge, Handling, LocalOK, SyncLabels, Done
  <2>2. \A v \in Workers \ {w} : ~Handling(v)
    BY <1>1, <2>1 DEF HandlersOK, EventsOK
  <2>3. Idle.op \notin EventKinds
    BY DEF Idle, EventKinds
  <2> QED BY <1>1, <2>1, <2>2, <2>3, IdleOK, NothingSent, BecomeAndSend
<1>20. CASE CheckEngagement(w)
  <2> DEFINE r(i) == [req[w] EXCEPT !.todo = req[w].todo \ {i}]
             f(i) == [req[w] EXCEPT !.todo = req[w].todo \ {i},
                                    !.found = req[w].found \cup {i.e}]
  <2>1. /\ Done(w) \/ \E i \in req[w].todo : Become(w, r(i)) \/ Become(w, f(i))
        /\ ~At(w, "wait") /\ net' = net /\ events' = events /\ At(w, "check")
    BY <1>20 DEF CheckEngagement, ledger
  <2>2. ASSUME NEW i \in req[w].todo, Become(w, r(i)) \/ Become(w, f(i)) PROVE HandlersOK'
    <3>1. /\ req[w].todo \ {i} \in SUBSET Item
          /\ req[w].found \cup {i.e} \in SUBSET Ids
      BY <1>1 DEF Request, Item
    <3>2. r(i) \in Request /\ f(i) \in Request
      BY <1>1, <3>1 DEF Request
    <3>3. /\ r(i).pc = "check" /\ r(i).op = req[w].op
          /\ f(i).pc = "check" /\ f(i).op = req[w].op
      BY <1>1, <2>1 DEF Request
    <3>4. req[w].op \notin EventKinds
      BY <1>1, <2>1 DEF LocalOK, SyncLabels
    <3>5. /\ LocalOK(r(i)) /\ r(i).op \notin EventKinds
          /\ LocalOK(f(i)) /\ f(i).op \notin EventKinds
      BY <3>3, <3>4 DEF LocalOK, SyncLabels
    <3> HIDE DEF r, f
    <3> QED BY <1>1, <2>1, <2>2, <3>2, <3>5, BecomeOK
  <2> QED BY <1>2, <2>1, <2>2
<1> QED BY <1>4, <1>5, <1>6, <1>7, <1>8, <1>9, <1>10, <1>11, <1>12, <1>13, <1>14,
       <1>15, <1>16, <1>17, <1>18, <1>19, <1>20 DEF Step

\* A request of a user, or the run of a job, begins.
LEMMA CallOK ==
    ASSUME HandlersOK, LedgerOK, NEW w \in Workers, NEW op \in Operations, NEW r \in Request,
           NEW what, Call(w, op, r, what), LocalOK(r), r.pc \notin SyncLabels
    PROVE  HandlersOK'
<1> DEFINE q == [r EXCEPT !.op = op]
<1>1. q \in Request /\ q.op = op
  BY DEF Request
<1>2. op \notin EventKinds
  BY DEF Operations, EventKinds
<1>3. LocalOK(q)
  BY <1>2 DEF LocalOK, Request
<1>4. Become(w, q) /\ At(w, "idle") /\ net' = net /\ events' = events
  BY DEF Call, Begin, ledger
<1> HIDE DEF q
<1> QED BY <1>1, <1>2, <1>3, <1>4, BecomeOK DEF At

\* How the request of each kind begins: its locals, and what is known where later
\* steps rely on it.
Starts(r, what) ==
    \/ r.pc \in {"find", "append", "submit", "setArchived", "rewrite", "setDue", "remindBatch"}
    \/ r.pc = "setCancelled" /\ eng[r.e].status = "PENDING_ACCEPTANCE"
    \/ r.pc = "setStatus" /\ what # {}
    \/ /\ r.pc = "check" /\ r.found = {}
       /\ r.todo = {Read(e) : e \in {i \in Ids : eng[i].status \in Live /\ eng[i].tx}}

Calls(w, op, r, what) ==
    /\ Call(w, op, r, what) /\ LocalOK(r) /\ r.pc \notin SyncLabels /\ Starts(r, what)

\* What a worker takes up is an event or one of the operations.
LEMMA TakeCalls ==
    ASSUME Base, NEW w \in Workers, Take(w)
    PROVE  \/ HandleEvent(w)
           \/ \E op \in Operations, r \in Request, what \in SUBSET {"override", "offchain", "bulk"} :
                Calls(w, op, r, what)
<1> DEFINE Called == \E op \in Operations, r \in Request,
                        what \in SUBSET {"override", "offchain", "bulk"} : Calls(w, op, r, what)
<1>1. HandlersOK /\ LedgerOK /\ RowsOK
  BY DEF Base
<1>2. /\ {"create", "preview", "accept", "decline", "cancel", "replace", "admin",
          "archive", "percents", "bulk", "due", "reminder", "reconcile"} \in SUBSET Operations
      /\ Idle \in Request
      /\ Statuses = {"ACTIVE", "REPLACEMENT_REQUESTED", "NONE", "PENDING_ACCEPTANCE",
                     "COMPLETED", "CANCELLED"}
  BY IdleOK DEF Operations, Statuses, Live
<1>20. ASSUME NEW op \in Operations, NEW r \in Request,
              NEW what \in SUBSET {"override", "offchain", "bulk"}, Call(w, op, r, what),
              LocalOK(r), r.pc \notin SyncLabels, Starts(r, what)
       PROVE  Called
  BY <1>20 DEF Calls
<1> HIDE DEF Called
<1>3. ASSUME NEW e \in Ids, NEW ps \in Splits \cup {<<>>},
             CreateEngagement(w, e, ps) \/ Preview(w, e, ps)
      PROVE  Called
  <2> DEFINE r == [Idle EXCEPT !.pc = "find", !.e = e, !.ps = ps]
  <2>1. r \in Request /\ r.pc = "find" /\ LocalOK(r)
    BY <1>2 DEF Idle, Request, LocalOK, SyncLabels, EventKinds
  <2>2. Call(w, "create", r, {}) \/ Call(w, "preview", r, {})
    BY <1>3 DEF CreateEngagement, Preview
  <2> HIDE DEF r
  <2> QED BY <1>2, <1>20, <2>1, <2>2 DEF SyncLabels, Starts
<1>4. ASSUME NEW e \in Ids, NEW ps \in Splits, BulkCreate(w, e, ps) PROVE Called
  <2> DEFINE r == [Idle EXCEPT !.pc = "append", !.e = e, !.ps = ps, !.at = Len(split[e])]
  <2>1. Len(split[e]) \in Nat
    BY <1>1 DEF RowsOK
  <2>2. r \in Request /\ r.pc = "append" /\ LocalOK(r)
    BY <1>2, <2>1 DEF Idle, Request, LocalOK, SyncLabels, EventKinds
  <2>3. Call(w, "bulk", r, {"bulk"})
    BY <1>4 DEF BulkCreate
  <2> HIDE DEF r
  <2> QED BY <1>2, <1>20, <2>2, <2>3 DEF SyncLabels, Starts
<1>5. ASSUME NEW e \in Ids,
             AcceptInvite(w, e) \/ DeclineInvite(w, e) \/ CancelEngagement(w, e)
      PROVE  Called
  <2> DEFINE r == [Idle EXCEPT !.pc = "submit", !.e = e]
             d == [Idle EXCEPT !.pc = "setCancelled", !.e = e]
  <2>1. /\ r \in Request /\ r.pc = "submit" /\ LocalOK(r)
        /\ d \in Request /\ d.pc = "setCancelled" /\ d.e = e /\ LocalOK(d)
    BY <1>2 DEF Idle, Request, LocalOK, SyncLabels, EventKinds
  <2>2. \/ Call(w, "accept", r, {}) \/ Call(w, "cancel", r, {})
        \/ Call(w, "decline", d, {}) /\ eng[e].status = "PENDING_ACCEPTANCE"
    BY <1>5 DEF AcceptInvite, DeclineInvite, CancelEngagement
  <2> HIDE DEF r, d
  <2> QED BY <1>2, <1>20, <2>1, <2>2 DEF SyncLabels, Starts
<1>6. ASSUME NEW e \in Ids, NEW s \in Statuses, NEW op \in Operations,
             NEW what \in SUBSET {"override", "offchain", "bulk"}, what # {},
             Call(w, op, [Idle EXCEPT !.pc = "setStatus", !.e = e,
                                      !.row = [NoRow EXCEPT !.status = s]], what)
      PROVE  Called
  <2> DEFINE row == [NoRow EXCEPT !.status = s]
             r == [Idle EXCEPT !.pc = "setStatus", !.e = e, !.row = row]
  <2>1. row \in Row
    BY DEF NoRow, Row
  <2> HIDE DEF row
  <2>2. r \in Request /\ r.pc = "setStatus" /\ LocalOK(r)
    BY <1>2, <2>1 DEF Idle, Request, LocalOK, SyncLabels, EventKinds
  <2>3. Call(w, op, r, what)
    BY <1>6 DEF row
  <2> HIDE DEF r
  <2> QED BY <1>6, <1>20, <2>2, <2>3 DEF SyncLabels, Starts
<1>7. ASSUME NEW e \in Ids, RequestReplacement(w, e) PROVE Called
  <2>1. {"offchain"} \in SUBSET {"override", "offchain", "bulk"} /\ {"offchain"} # {}
    OBVIOUS
  <2> QED BY <1>2, <1>6, <1>7, <2>1 DEF RequestReplacement
<1>14. ASSUME NEW e \in Ids, NEW s \in Statuses, UpdateStatusByAdmin(w, e, s)
       PROVE  Called
  <2>1. {"override"} \in SUBSET {"override", "offchain", "bulk"} /\ {"override"} # {}
    OBVIOUS
  <2> QED BY <1>2, <1>6, <1>14, <2>1 DEF UpdateStatusByAdmin
<1>8. ASSUME NEW e \in Ids, Archive(w, e) PROVE Called
  <2> DEFINE row == [NoRow EXCEPT !.archived = ~eng[e].archived]
             r == [Idle EXCEPT !.pc = "setArchived", !.e = e, !.row = row]
  <2>1. row \in Row
    BY <1>2 DEF NoRow, Row
  <2> HIDE DEF row
  <2>2. r \in Request /\ r.pc = "setArchived" /\ LocalOK(r)
    BY <1>2, <2>1 DEF Idle, Request, LocalOK, SyncLabels, EventKinds
  <2>3. Call(w, "archive", r, {})
    BY <1>8 DEF Archive, row
  <2> HIDE DEF r
  <2> QED BY <1>2, <1>20, <2>2, <2>3 DEF SyncLabels, Starts
<1>9. ASSUME NEW e \in Ids, NEW c \in Changes, AdjustPercents(w, e, c) PROVE Called
  <2> DEFINE r == [Idle EXCEPT !.pc = "rewrite", !.e = e, !.ps = c]
  <2>1. r \in Request /\ r.pc = "rewrite" /\ LocalOK(r)
    BY <1>2 DEF Idle, Request, LocalOK, SyncLabels, EventKinds
  <2>2. Call(w, "percents", r, {})
    BY <1>9 DEF AdjustPercents
  <2> HIDE DEF r
  <2> QED BY <1>2, <1>20, <2>1, <2>2 DEF SyncLabels, Starts
<1>10. ASSUME NEW e \in Ids, NEW at \in DueDates, SetPlacementDueDate(w, e, at)
       PROVE  Called
  <2> DEFINE r == [Idle EXCEPT !.pc = "setDue", !.e = e, !.at = at]
  <2>1. r \in Request /\ r.pc = "setDue" /\ LocalOK(r)
    BY <1>2, EngagementsAssumption DEF Idle, Request, LocalOK, SyncLabels, EventKinds
  <2>2. Call(w, "due", r, {})
    BY <1>10 DEF SetPlacementDueDate
  <2> HIDE DEF r
  <2> QED BY <1>2, <1>20, <2>1, <2>2 DEF SyncLabels, Starts
<1>11. \A e \in Ids : Read(e) \in Item
  BY <1>1 DEF RowsOK, DueType, Read, Item
<1>12. ASSUME SendPlacementReminders(w) \/ RunReconciliation(w) PROVE Called
  <2> DEFINE soon == {Read(e) : e \in DueSoon}
             all == {Read(e) : e \in {i \in Ids : eng[i].status \in Live /\ eng[i].tx}}
             r == [Idle EXCEPT !.pc = "remindBatch", !.todo = soon]
             c == [Idle EXCEPT !.pc = "check", !.todo = all]
  <2>1. soon \in SUBSET Item /\ all \in SUBSET Item
    BY <1>11 DEF DueSoon
  <2>2. Call(w, "reminder", r, {}) \/ Call(w, "reconcile", c, {})
    BY <1>12 DEF SendPlacementReminders, RunReconciliation
  <2> HIDE DEF soon, all
  <2>3. /\ r \in Request /\ r.pc = "remindBatch" /\ LocalOK(r)
        /\ c \in Request /\ c.pc = "check" /\ LocalOK(c) /\ c.todo = all /\ c.found = {}
    BY <1>2, <2>1 DEF Idle, Request, LocalOK, SyncLabels, EventKinds
  <2> HIDE DEF r, c
  <2>5. Starts(r, {}) /\ Starts(c, {})
    BY <2>3 DEF Starts, all
  <2>6. {} \in SUBSET {"override", "offchain", "bulk"}
    OBVIOUS
  <2>7. "reminder" \in Operations /\ "reconcile" \in Operations
        /\ r.pc \notin SyncLabels /\ c.pc \notin SyncLabels
    BY <1>2, <2>3 DEF SyncLabels
  <2>8. ASSUME Call(w, "reminder", r, {}) PROVE Called
    BY <1>20, <2>3, <2>5, <2>6, <2>7, <2>8
  <2>9. ASSUME Call(w, "reconcile", c, {}) PROVE Called
    BY <1>20, <2>3, <2>5, <2>6, <2>7, <2>9
  <2> QED BY <2>2, <2>8, <2>9
<1> QED BY <1>3, <1>4, <1>5, <1>7, <1>8, <1>9, <1>10, <1>12, <1>14 DEF Take, Called

\* The event at the head of the queue, and what its handler begins with.
LEMMA EventBegins ==
    ASSUME HandlersOK, LedgerOK, NEW w \in Workers, HandleEvent(w)
    PROVE  LET x == events[1] IN
           /\ At(w, "idle") /\ events # <<>> /\ Head(events) = x /\ x \in EventType
           /\ \A v \in Workers : ~Handling(v)
           /\ \E r \in Request :
                /\ Become(w, r) /\ LocalOK(r) /\ r.op = x.kind /\ r.e = x.e
                /\ r.pc = IF x.kind \in {"engagement_created", "milestone_confirmed"}
                          THEN "syncChain" ELSE "ack"
<1> DEFINE x == events[1]
           pc == IF x.kind \in {"engagement_created", "milestone_confirmed"}
                 THEN "syncChain" ELSE "ack"
           r == [Idle EXCEPT !.op = x.kind, !.e = x.e, !.pc = pc]
<1>1. At(w, "idle") /\ events # <<>> /\ \A v \in Workers : ~Handling(v)
  BY DEF HandleEvent, Begin, Handling
<1>2. Head(events) = x /\ x \in EventType
  BY <1>1 DEF LedgerOK
<1>3. x.e \in Ids /\ x.kind \in EventKinds
  BY <1>2 DEF EventType
<1>4. Become(w, r)
  BY <1>2 DEF HandleEvent, Begin
<1>5. pc \in {"syncChain", "ack"}
  OBVIOUS
<1> HIDE DEF x, pc
<1>6. r \in Request /\ r.op = x.kind /\ r.e = x.e /\ r.pc = pc /\ LocalOK(r)
  BY <1>3, <1>5, IdleOK DEF Idle, Request, LocalOK, SyncLabels
<1> HIDE DEF r
<1> QED BY <1>1, <1>2, <1>4, <1>6 DEF x, pc

\* Taking it up keeps the handlers sound.
LEMMA HandlersTake ==
    ASSUME Base, NEW w \in Workers, Take(w)
    PROVE  HandlersOK'
<1>1. HandlersOK /\ LedgerOK
  BY DEF Base
<1>2. ASSUME NEW op \in Operations, NEW r \in Request, NEW what, Calls(w, op, r, what)
      PROVE  HandlersOK'
  BY <1>1, <1>2, CallOK DEF Calls
<1>3. CASE HandleEvent(w)
  <2>1. net' = net /\ events' = events
    BY <1>3 DEF HandleEvent, ledger
  <2>2. At(w, "idle") /\ events # <<>> /\ \A v \in Workers : ~Handling(v)
    BY <1>1, <1>3, EventBegins
  <2>3. PICK r \in Request : Become(w, r) /\ LocalOK(r) /\ r.op = events[1].kind /\ r.e = events[1].e
    BY <1>1, <1>3, EventBegins
  <2>4. \A t \in net' : t \in net /\ t.by # w
    BY <1>1, <2>1, <2>2, NothingSent DEF At
  <2> QED BY <1>1, <2>1, <2>2, <2>3, <2>4, BecomeAndSend
<1> QED BY <1>2, <1>3, TakeCalls

\* So does the network, whether a transaction lands or is given up.
LEMMA HandlersNet ==
    ASSUME Base, NEW t \in net, Land(t) \/ GiveUp(t)
    PROVE  HandlersOK'
<1>1. HandlersOK /\ LedgerOK /\ t \in Tx
  BY DEF Base, LedgerOK
<1>2. \A o \in net' : o \in net \ {t} \/ o.by = 0
  BY <1>1 DEF Land, GiveUp, Tx
<1>3. \A v \in Workers : Handling(v) => events' # <<>> /\ events'[1] = events[1]
  <2>1. \/ events' = events
        \/ \E x \in EventType : events' = Append(events, x)
    <3>1. t.e \in Ids
      BY <1>1 DEF Tx
    <3>2. \/ events' = events
          \/ Emit("engagement_created", t.e) \/ Emit("engagement_cancelled", t.e)
      BY DEF Land, GiveUp
    <3> QED BY <3>1, <3>2 DEF Emit, EventType, EventKinds
  <2> QED BY <1>1, <2>1 DEF HandlersOK, EventsOK, LedgerOK
<1>4. CASE t.by = 0
  <2>1. UNCHANGED req
    BY <1>4 DEF Land, GiveUp
  <2>2. ASSUME NEW o \in net' PROVE TxOK(o)'
    BY <1>1, <1>2, <2>1 DEF HandlersOK, TxOK
  <2>3. EventsOK'
    BY <1>1, <1>3, <2>1 DEF HandlersOK, EventsOK, Handling
  <2> QED BY <1>1, <2>1, <2>2, <2>3 DEF HandlersOK
<1>5. CASE t.by # 0
  <2> DEFINE w == t.by
  <2>1. w \in Workers /\ At(w, "wait") /\ req[w] \in Request /\ LocalOK(req[w])
    BY <1>1, <1>5 DEF HandlersOK, TxOK, Tx, At
  <2>2. ASSUME NEW o \in net' PROVE (o \in net /\ o.by # w) \/ o.by = 0
    <3>1. CASE o \in net \ {t} /\ o.by = w
      <4>1. o.e = t.e /\ (o.call = "create" <=> t.call = "create") /\ o \in Tx
        BY <1>1, <1>5, <3>1 DEF HandlersOK, TxOK, LedgerOK
      <4>2. o = t
        BY <1>1, <3>1, <4>1 DEF Tx
      <4> QED BY <3>1, <4>2
    <3> QED BY <1>2, <3>1
  <2>3. req[w].op \notin EventKinds
    BY <2>1 DEF LocalOK, At, SyncLabels
  <2>4. ASSUME Done(w) PROVE HandlersOK'
    <3>1. Idle.op \notin EventKinds
      BY DEF Idle, EventKinds
    <3> QED BY <1>1, <1>3, <2>1, <2>2, <2>4, <3>1, IdleOK, BecomeAndSend DEF Done
  <2>5. ASSUME NEW pc \in {"activate", "setCancelled"}, Goto(w, pc) PROVE HandlersOK'
    <3> DEFINE r == [req[w] EXCEPT !.pc = pc]
    <3>1. pc \notin SyncLabels /\ req[w].pc \notin SyncLabels /\ req[w].e \in Ids
      BY <2>1 DEF SyncLabels, LocalOK, At
    <3>2. r \in Request /\ LocalOK(r)
      BY <2>1, <3>1, JumpOK
    <3>3. r.op = req[w].op
      BY <2>1 DEF Request
    <3>4. Become(w, r)
      BY <2>5 DEF Goto
    <3> HIDE DEF r
    <3> QED BY <1>1, <1>3, <2>1, <2>2, <2>3, <3>2, <3>3, <3>4, BecomeAndSend
  <2>6. Done(w) \/ Goto(w, "activate") \/ Goto(w, "setCancelled")
    BY <1>5 DEF Land, GiveUp
  <2> QED BY <2>4, <2>5, <2>6
<1> QED BY <1>4, <1>5

\* A status update keeps the rows typed.
LEMMA StatusTyped ==
    ASSUME eng \in [Ids -> Row], NEW e, NEW s \in Statuses, SetStatus(e, s)
    PROVE  eng' \in [Ids -> Row]
BY DEF SetStatus, Row

\* Every step keeps the rows sound.
LEMMA RowsStep ==
    ASSUME Base, NEW w \in Workers, Step(w)
    PROVE  RowsOK'
<1>1. /\ eng \in [Ids -> Row] /\ split \in [Ids -> Seq(Nat)] /\ due \in [Ids -> DueType]
      /\ req[w] \in Request /\ LocalOK(req[w])
  BY DEF Base, HandlersOK, RowsOK
<1>2. \A q \in Splits \cup {<<>>} : q \in Seq(Nat)
  <2>1. <<>> \in Seq(Nat) /\ Splits \subseteq Seq(Nat)
    BY EngagementsAssumption
  <2> QED BY <2>1
<1> USE DEF RowsOK
<1>3. CASE InsertEngagement(w)
  <2>1. req[w].ps \in Seq(Nat)
    BY <1>1, <1>2, <1>3 DEF InsertEngagement, At, LocalOK
  <2>2. split' \in [Ids -> Seq(Nat)] /\ due' = due
    BY <1>1, <1>3, <2>1 DEF InsertEngagement
  <2>3. eng' = eng \/ SetStatus(req[w].e, "PENDING_ACCEPTANCE")
    BY <1>3 DEF InsertEngagement
  <2> QED BY <1>1, <2>2, <2>3, StatusTyped DEF Statuses
<1>4. CASE Activate(w)
  <2>1. \/ eng' = eng
        \/ eng' = [eng EXCEPT ![req[w].e].status = "ACTIVE", ![req[w].e].tx = TRUE]
    BY <1>4 DEF Activate
  <2> DEFINE a == [eng EXCEPT ![req[w].e].status = "ACTIVE"]
  <2>2. a \in [Ids -> Row]
    BY <1>1 DEF Row, Statuses, Live
  <2>3. eng' = eng \/ eng' = [a EXCEPT ![req[w].e].tx = TRUE]
    BY <2>1
  <2>4. [a EXCEPT ![req[w].e].tx = TRUE] \in [Ids -> Row]
    <3> HIDE DEF a
    <3> QED BY <2>2 DEF Row
  <2> HIDE DEF a
  <2>5. eng' \in [Ids -> Row]
    BY <1>1, <2>3, <2>4
  <2> QED BY <1>1, <1>4, <2>5 DEF Activate
<1>5. CASE SetCancelled(w)
  BY <1>1, <1>5, StatusTyped DEF SetCancelled, Statuses
<1>6. CASE WriteStatus(w)
  <2>1. req[w].row.status \in Statuses
    BY <1>1 DEF Request, Row
  <2> QED BY <1>1, <1>6, <2>1, StatusTyped DEF WriteStatus
<1>7. CASE WriteArchived(w)
  <2>1. req[w].row.archived \in BOOLEAN
    BY <1>1 DEF Request, Row
  <2>2. eng' = [eng EXCEPT ![req[w].e].archived = req[w].row.archived]
    BY <1>7 DEF WriteArchived
  <2>3. eng' \in [Ids -> Row]
    BY <1>1, <2>1, <2>2 DEF Row
  <2> QED BY <1>1, <1>7, <2>3 DEF WriteArchived
<1>8. CASE AppendMilestones(w)
  <2> DEFINE e == req[w].e
             s == split[e]
             x == IF Len(s) = req[w].at THEN s \o req[w].ps ELSE s
  <2>1. req[w].ps \in Seq(Nat) /\ e \in Ids
    BY <1>1, <1>2, <1>8 DEF AppendMilestones, At, LocalOK
  <2>2. split' = [split EXCEPT ![e] = x]
    BY <1>8 DEF AppendMilestones
  <2>3. x \in Seq(Nat)
    BY <1>1, <2>1
  <2> HIDE DEF x, e
  <2> QED BY <1>1, <1>8, <2>2, <2>3 DEF AppendMilestones
<1>9. CASE RewritePercents(w)
  <2> DEFINE e == req[w].e
             s == split[e]
             x == Adjusted(s, req[w].ps)
  <2>1. req[w].ps \in Changes /\ e \in Ids
    BY <1>1, <1>9 DEF RewritePercents, At, LocalOK
  <2>2. split' = [split EXCEPT ![e] = x]
    BY <1>9 DEF RewritePercents
  <2>3. x \in Seq(Nat)
    <3>1. s \in Seq(Nat)
      BY <1>1, <2>1
    <3>2. \A n \in DOMAIN req[w].ps : req[w].ps[n] \in Nat
      BY <2>1, EngagementsAssumption
    <3> HIDE DEF s
    <3>3. x \in [1..Len(s) -> Nat] /\ Len(s) \in Nat
      BY <3>1, <3>2 DEF Adjusted
    <3> HIDE DEF x
    <3> QED BY <3>3
  <2> HIDE DEF x, e
  <2> QED BY <1>1, <1>9, <2>2, <2>3 DEF RewritePercents
<1>10. CASE WriteDueDate(w)
  <2>1. req[w].at \in Nat
    BY <1>1 DEF Request
  <2> QED BY <1>1, <1>10, <2>1 DEF WriteDueDate, DueType
<1>11. CASE MarkReminded(w)
  <2>1. due' = [due EXCEPT ![req[w].e].sent = TRUE]
    BY <1>11 DEF MarkReminded
  <2>2. due' \in [Ids -> DueType]
    BY <1>1, <2>1 DEF DueType
  <2> QED BY <1>1, <1>11, <2>2 DEF MarkReminded
<1>12. CASE SyncWrite(w)
  <2> DEFINE e == req[w].e
             x == Synced(eng[e], req[w].view)
  <2>1. e \in Ids /\ req[w].view \in Contract /\ req[w].view.st # "None"
    BY <1>1, <1>12 DEF SyncWrite, At, LocalOK, Request
  <2>2. eng' = [eng EXCEPT ![e] = x]
    BY <1>12 DEF SyncWrite
  <2>3. x \in Row
    <3>1. eng[e] \in Row
      BY <1>1, <2>1
    <3>2. StatusMap(req[w].view.st) \in Statuses /\ req[w].view.released \in Nat
      BY <2>1 DEF StatusMap, Contract, OnChain, Running, Statuses, Live
    <3> QED BY <3>1, <3>2 DEF Synced, Row
  <2> HIDE DEF x, e
  <2> QED BY <1>1, <1>12, <2>2, <2>3 DEF SyncWrite
<1>13. CASE \/ PrepareEngagement(w) \/ Submit(w) \/ Remind(w) \/ SyncFromChain(w)
            \/ SyncRow(w) \/ Acknowledge(w) \/ CheckEngagement(w)
  BY <1>1, <1>13 DEF PrepareEngagement, Submit, Remind, SyncFromChain, SyncRow,
                     Acknowledge, CheckEngagement, rows
<1> QED BY <1>3, <1>4, <1>5, <1>6, <1>7, <1>8, <1>9, <1>10, <1>11, <1>12, <1>13 DEF Step

\* Taking up an operation keeps the rows sound.
LEMMA RowsTake ==
    ASSUME Base, NEW w \in Workers, Take(w)
    PROVE  RowsOK'
<1>1. RowsOK /\ LedgerOK
  BY DEF Base
<1>2. CASE HandleEvent(w)
  <2>1. Head(events) \in EventType
    <3>1. events # <<>>
      BY <1>2 DEF HandleEvent
    <3> QED BY <1>1, <3>1 DEF LedgerOK
  <2>2. Head(events).e \in Ids
    BY <2>1 DEF EventType
  <2>3. eng[Head(events).e].status \in Statuses
    BY <1>1, <2>2 DEF RowsOK, Row
  <2>4. EventStatus(Head(events).kind, eng[Head(events).e].status) \in Statuses
    <3>1. Head(events).kind \in EventKinds
      BY <2>1 DEF EventType
    <3> QED BY <3>1, <2>3 DEF EventStatus, EventKinds, Statuses, Live
  <2>5. PICK s \in Statuses : SetStatus(Head(events).e, s) /\ UNCHANGED <<split, due>>
    BY <1>2, <2>4 DEF HandleEvent
  <2> QED BY <1>1, <2>2, <2>5, StatusTyped DEF RowsOK
<1>3. CASE ~HandleEvent(w)
  <2>1. UNCHANGED rows
    BY <1>3 DEF Take, CreateEngagement, Preview, BulkCreate, AcceptInvite, DeclineInvite,
                CancelEngagement, RequestReplacement, Archive, UpdateStatusByAdmin,
                AdjustPercents, SetPlacementDueDate, SendPlacementReminders,
                RunReconciliation, Call
  <2> QED BY <1>1, <2>1 DEF RowsOK, rows
<1> QED BY <1>2, <1>3

\* The contract emits typed events.
LEMMA EmitTyped ==
    ASSUME events \in Seq(EventType), NEW kind \in EventKinds, NEW e \in Ids, Emit(kind, e)
    PROVE  events' \in Seq(EventType)
BY DEF Emit, EventType

\* Every step keeps the contract, its events and the network typed.
LEMMA LedgerTyped ==
    ASSUME Base, Next
    PROVE  LedgerOK'
<1>1. /\ chain \in [Ids -> Contract] /\ events \in Seq(EventType) /\ net \subseteq Tx
      /\ HandlersOK
  BY DEF Base, LedgerOK
<1>2. ASSUME NEW w \in Workers, Submit(w) PROVE LedgerOK'
  <2>1. req[w].e \in Ids
    BY <1>1, <1>2 DEF Submit, HandlersOK, LocalOK, At
  <2> QED BY <1>1, <1>2, <2>1 DEF Submit, LedgerOK, Tx
<1>3. ASSUME NEW w \in Workers, Acknowledge(w) PROVE LedgerOK'
  <2>1. req[w].op \in EventKinds /\ events # <<>>
    BY <1>1, <1>3 DEF Acknowledge, HandlersOK, LocalOK, At, SyncLabels, EventsOK, Handling
  <2> QED BY <1>1, <1>3, <2>1 DEF Acknowledge, LedgerOK
<1>4. ASSUME NEW w \in Workers, Crash(w) PROVE LedgerOK'
  BY <1>1, <1>4 DEF Crash, LedgerOK, Tx
<1>5. ASSUME NEW w \in Workers, Step(w), ~Submit(w), ~Acknowledge(w) PROVE UNCHANGED ledger
  BY <1>5 DEF Step, PrepareEngagement, InsertEngagement, Activate, SetCancelled,
              WriteStatus, WriteArchived, AppendMilestones, RewritePercents, WriteDueDate,
              Remind, MarkReminded, SyncFromChain, SyncRow, SyncWrite, CheckEngagement
<1>6. ASSUME NEW w \in Workers, Take(w) PROVE UNCHANGED ledger
  BY <1>6 DEF Take, CreateEngagement, Preview, BulkCreate, AcceptInvite, DeclineInvite,
              CancelEngagement, RequestReplacement, Archive, UpdateStatusByAdmin,
              AdjustPercents, SetPlacementDueDate, SendPlacementReminders,
              RunReconciliation, Call, HandleEvent
<1>7. ASSUME NEW t \in net, Land(t) PROVE LedgerOK'
  <2>1. t.e \in Ids /\ net' \subseteq Tx
    BY <1>1, <1>7 DEF Tx, Land
  <2>2. \/ UNCHANGED <<chain, events>>
        \/ /\ chain' = [chain EXCEPT ![t.e].st = "Active"]
           /\ Emit("engagement_created", t.e)
        \/ /\ chain' = [chain EXCEPT ![t.e].st = "Cancelled"]
           /\ Emit("engagement_cancelled", t.e)
    BY <1>7 DEF Land
  <2>3. chain' \in [Ids -> Contract]
    BY <1>1, <2>2 DEF Contract, OnChain, Running
  <2>4. events' \in Seq(EventType)
    BY <1>1, <2>1, <2>2, EmitTyped DEF EventKinds
  <2> QED BY <2>1, <2>3, <2>4 DEF LedgerOK
<1>8. ASSUME NEW t \in net, GiveUp(t) PROVE LedgerOK'
  <2>1. t \in Tx /\ net' = (net \ {t}) \cup {[t EXCEPT !.by = 0]}
    BY <1>1, <1>8 DEF GiveUp
  <2>2. [t EXCEPT !.by = 0] \in Tx
    BY <2>1 DEF Tx
  <2> QED BY <1>1, <1>8, <2>1, <2>2 DEF GiveUp, LedgerOK
<1>9. ASSUME NEW e \in Ids, ReleaseOnChain(e) \/ ReplaceOnChain(e) PROVE LedgerOK'
  <2> DEFINE x == [st |-> IF chain[e].released + 1 = Total THEN "Completed" ELSE chain[e].st,
                   released |-> chain[e].released + 1]
             y == [chain[e] EXCEPT !.st = "ReplacementRequested"]
  <2>1. /\ chain' = [chain EXCEPT ![e] = x] \/ chain' = [chain EXCEPT ![e] = y]
        /\ Emit("milestone_confirmed", e) \/ Emit("replacement_requested", e)
        /\ net' = net
    BY <1>1, <1>9 DEF ReleaseOnChain, ReplaceOnChain
  <2>2. x \in Contract /\ y \in Contract
    BY <1>1 DEF Contract, OnChain, Running
  <2>3. events' \in Seq(EventType)
    BY <1>1, <2>1, EmitTyped DEF EventKinds
  <2> HIDE DEF x, y
  <2> QED BY <1>1, <2>1, <2>2, <2>3 DEF LedgerOK
<1>10. CASE UNCHANGED ledger
  BY <1>1, <1>10 DEF ledger, LedgerOK
<1>11. ASSUME NEW t, Later(t) PROVE UNCHANGED ledger
  BY <1>11 DEF Later
<1> QED BY <1>2, <1>3, <1>4, <1>5, <1>6, <1>7, <1>8, <1>9, <1>10, <1>11 DEF Next

\* And what is counted and noted.
LEMMA RestTyped ==
    ASSUME Base, Next
    PROVE  RestOK'
<1>1. /\ report \subseteq Ids /\ now \in Nat /\ calls \in Nat /\ faults \in Nat
      /\ scope \in Scopes /\ HandlersOK
      /\ upset \subseteq {"overlap", "override", "offchain", "bulk", "late", "crash"}
  BY DEF Base, RestOK
<1> USE DEF RestOK
<1>3. ASSUME NEW w \in Workers, Take(w) PROVE RestOK'
  <2>1. CASE HandleEvent(w)
    BY <1>1, <2>1 DEF HandleEvent, Begin, counters
  <2>2. CASE ~HandleEvent(w)
    <3>1. /\ UNCHANGED <<report, now, faults, scope>> /\ calls' = calls + 1
          /\ upset' \subseteq upset \cup {"overlap", "override", "offchain", "bulk"}
      BY <1>3, <2>2 DEF Take, CreateEngagement, Preview, BulkCreate, AcceptInvite,
              DeclineInvite, CancelEngagement, RequestReplacement, Archive,
              UpdateStatusByAdmin, AdjustPercents, SetPlacementDueDate,
              SendPlacementReminders, RunReconciliation, Call, Begin
    <3> QED BY <1>1, <3>1
  <2> QED BY <2>1, <2>2
<1>4. ASSUME NEW w \in Workers, Step(w) PROVE RestOK'
  <2>1. CASE CheckEngagement(w)
    <3>1. req[w].found \subseteq Ids
      BY <1>1 DEF HandlersOK, Request
    <3>2. /\ report' \in {report, req[w].found} /\ faults' \in {faults, faults + 1}
          /\ UNCHANGED <<now, calls, scope, upset>>
      BY <2>1 DEF CheckEngagement, Fault
    <3> QED BY <1>1, <3>1, <3>2
  <2>2. CASE ~CheckEngagement(w)
    <3>1. /\ UNCHANGED <<report, now, calls, scope>>
          /\ faults' \in {faults, faults + 1}
          /\ upset' \subseteq upset \cup {"crash"}
      BY <1>4, <2>2 DEF Step, PrepareEngagement, InsertEngagement, Activate, SetCancelled,
              WriteStatus, WriteArchived, AppendMilestones, RewritePercents, WriteDueDate,
              Remind, MarkReminded, SyncFromChain, SyncRow, SyncWrite, Acknowledge, Submit,
              Fault, counters
    <3> QED BY <1>1, <3>1
  <2> QED BY <2>1, <2>2
<1>5. ASSUME NEW w \in Workers, Crash(w) PROVE RestOK'
  BY <1>1, <1>5 DEF Crash, Fault
<1>6. ASSUME NEW t \in net, Land(t) \/ GiveUp(t) PROVE RestOK'
  BY <1>1, <1>6 DEF Land, GiveUp, Fault, counters
<1>7. ASSUME NEW e \in Ids, ReleaseOnChain(e) \/ ReplaceOnChain(e) PROVE RestOK'
  BY <1>1, <1>7 DEF ReleaseOnChain, ReplaceOnChain, ContractMove
<1>8. ASSUME NEW t \in scope.times, Later(t) PROVE RestOK'
  <2>1. t \in Nat
    BY <1>1, EngagementsAssumption
  <2> QED BY <1>1, <1>8, <2>1 DEF Later
<1> QED BY <1>3, <1>4, <1>5, <1>6, <1>7, <1>8 DEF Next

\* The types and locals hold at the start.
LEMMA BaseInit == Init => Base
<1> SUFFICES ASSUME Init PROVE Base
  OBVIOUS
<1>1. HandlersOK
  BY IdleOK DEF Init, HandlersOK, EventsOK, Handling, Idle, EventKinds
<1>2. RowsOK
  BY DEF Init, RowsOK, Row, NoRow, Statuses, DueType
<1>3. LedgerOK
  BY DEF Init, LedgerOK, Contract, OnChain
<1>4. RestOK
  BY DEF Init, RestOK
<1> QED BY <1>1, <1>2, <1>3, <1>4 DEF Base

\* They are kept by every step, those of the payments included.
LEMMA BaseStep == Base /\ ([Next]_vars \/ Apart) => Base'
<1>1. ASSUME Base, UNCHANGED <<rows, ledger, report, req, now, scope, upset>>,
             calls' \in Nat, faults' \in Nat
      PROVE  Base'
  <2>1. RestOK'
    BY <1>1 DEF Base, RestOK
  <2>2. HandlersOK' /\ RowsOK' /\ LedgerOK'
    BY <1>1 DEF Base, HandlersOK, EventsOK, Handling, TxOK, RowsOK, LedgerOK, rows, ledger
  <2> QED BY <2>1, <2>2 DEF Base
<1>2. ASSUME Base, Next PROVE Base'
  <2>1. HandlersOK'
    <3>1. HandlersOK /\ LedgerOK
      BY <1>2 DEF Base
    <3>2. ASSUME NEW w \in Workers, Crash(w) PROVE HandlersOK'
      <4>1. \A t \in net' : (t \in net /\ t.by # w) \/ t.by = 0
        <5> SUFFICES ASSUME NEW t \in net
                     PROVE  LET o == [t EXCEPT !.by = IF t.by = w THEN 0 ELSE t.by]
                            IN  (o \in net /\ o.by # w) \/ o.by = 0
          BY <3>2 DEF Crash
        <5>1. t \in Tx
          BY <3>1 DEF LedgerOK
        <5> QED BY <5>1 DEF Tx
      <4>2. Become(w, Idle) /\ events' = events
        BY <3>2 DEF Crash, Done
      <4>3. \A v \in Workers \ {w} : Handling(v) => events' # <<>> /\ events'[1] = events[1]
        BY <3>1, <4>2 DEF HandlersOK, EventsOK
      <4>4. Idle.op \notin EventKinds
        BY DEF Idle, EventKinds
      <4> QED BY <3>1, <4>1, <4>2, <4>3, <4>4, IdleOK, BecomeAndSend
    <3>3. ASSUME NEW e \in Ids, ReleaseOnChain(e) \/ ReplaceOnChain(e) PROVE HandlersOK'
      <4>1. UNCHANGED <<req, net>> /\ \E x \in EventType : events' = Append(events, x)
        BY <3>3 DEF ReleaseOnChain, ReplaceOnChain, Emit, EventType, EventKinds
      <4>2. \A v \in Workers : Handling(v) => events' # <<>> /\ events'[1] = events[1]
        BY <3>1, <4>1 DEF HandlersOK, EventsOK, LedgerOK
      <4> QED BY <3>1, <4>1, <4>2 DEF HandlersOK, EventsOK, Handling, TxOK
    <3>4. ASSUME NEW t, Later(t) PROVE HandlersOK'
      BY <3>1, <3>4 DEF Later, ledger, HandlersOK, EventsOK, Handling, TxOK
    <3> QED BY <1>2, <3>2, <3>3, <3>4, HandlersTake, HandlersStep, HandlersNet DEF Next
  <2>2. RowsOK'
    <3>1. CASE UNCHANGED rows
      BY <1>2, <3>1 DEF Base, RowsOK, rows
    <3>2. ASSUME NEW w \in Workers, Crash(w) PROVE UNCHANGED rows
      BY <3>2 DEF Crash
    <3>3. ASSUME NEW t \in net, Land(t) \/ GiveUp(t) PROVE UNCHANGED rows
      BY <3>3 DEF Land, GiveUp
    <3>4. ASSUME NEW e \in Ids, ReleaseOnChain(e) \/ ReplaceOnChain(e) PROVE UNCHANGED rows
      BY <3>4 DEF ReleaseOnChain, ReplaceOnChain
    <3>5. ASSUME NEW t, Later(t) PROVE UNCHANGED rows
      BY <3>5 DEF Later
    <3> QED BY <1>2, <3>1, <3>2, <3>3, <3>4, <3>5, RowsTake, RowsStep DEF Next
  <2> QED BY <1>2, <2>1, <2>2, LedgerTyped, RestTyped DEF Base
<1> QED BY <1>1, <1>2 DEF vars, rows, ledger, counters, Apart, Base, RestOK

\* They include the type invariant of engagements.
LEMMA BaseTyped == Base => TypeOK
BY DEF Base, HandlersOK, RowsOK, DueType, LedgerOK, EventType, RestOK, TypeOK

-----------------------------------------------------------------------------
(* Incoming payments *)

\* A payment that is not lost; whether a poller has the head of its page in hand.
Stored(n) == n \in matched \/ unmatched[payments[n].tx] # "NONE"
InHand(q) == IF q.pc \in {"find", "create"} THEN 1 ELSE 0

PollType == [pc : {"idle", "fetch", "match", "find", "create", "save"}, last : Nat,
             todo : Seq(Nat)]
PaymentType == [tx : TxHashes, memo : Ids \cup {0}]
AdminType == [pc : {"idle", "write"}, tx : TxHashes \cup {""}, as : Verdicts]

KeyOK == key \in Pollers \cup {""}
AlertsOK == alerted \in [Pollers -> BOOLEAN]

PayTypes ==
    /\ payments \in Seq(PaymentType) /\ Len(payments) <= MaxPayments
    /\ matched \subseteq 1..MaxPayments /\ cursor \in Nat /\ cursor <= Len(payments)
    /\ unmatched \in [TxHashes -> Verdicts \cup {"NONE", "PENDING"}]
    /\ KeyOK /\ AlertsOK
    /\ poller \in [Pollers -> PollType] /\ admin \in [Admins -> AdminType]

\* A poller works through its page in order: what lies before its position is stored,
\* and its page is what follows.
PollerOK(q) ==
    /\ q.last + Len(q.todo) <= Len(payments) + InHand(q)
    /\ \A i \in DOMAIN q.todo : q.todo[i] = q.last + i - InHand(q)
    /\ q.pc \in {"find", "create"} => q.todo # <<>> /\ q.last > 0
    /\ q.pc # "idle" => \A n \in 1..(q.last - InHand(q)) : Stored(n)

PayInv ==
    /\ PayTypes /\ NoTransactionLost
    /\ \A p \in Pollers : PollerOK(poller[p])

\* Alerts that stay remain sound.
LEMMA AlertsStay ==
    ASSUME AlertsOK, UNCHANGED alerted
    PROVE  AlertsOK'
BY DEF AlertsOK

\* A lock that stays or is lost remains sound.
LEMMA KeyStays ==
    ASSUME KeyOK, UNCHANGED key \/ key' = ""
    PROVE  KeyOK'
BY DEF KeyOK

\* The lesser of two numbers.
LEMMA MinOfTwo ==
    ASSUME NEW a \in Nat, NEW b \in Nat
    PROVE  Min({a, b}) = IF a <= b THEN a ELSE b
<1>1. PICK x \in {a, b} : \A y \in {a, b} : x <= y
  OBVIOUS
<1>2. \A z \in {a, b} : (\A y \in {a, b} : z <= y) => z = IF a <= b THEN a ELSE b
  OBVIOUS
<1> QED BY <1>1, <1>2 DEF Min

\* A poller that is not running is sound.
LEMMA NoPollOK ==
    /\ NoPoll \in PollType
    /\ PayTypes => PollerOK(NoPoll)
<1>1. NoPoll \in PollType
  BY DEF NoPoll, PollType
<1>2. ASSUME PayTypes PROVE PollerOK(NoPoll)
  <2>1. payments \in Seq(PaymentType)
    BY <1>2 DEF PayTypes
  <2>2. Len(payments) \in Nat
    BY <2>1
  <2>3. NoPoll.pc = "idle" /\ NoPoll.last = 0 /\ NoPoll.todo = <<>>
    BY DEF NoPoll
  <2> QED BY <2>2, <2>3 DEF PollerOK, InHand
<1> QED BY <1>1, <1>2

\* What is stored stays stored: payments are only appended, and no row of the
\* unmatched ones is deleted.
Grows ==
    /\ Len(payments') >= Len(payments)
    /\ \A n \in 1..Len(payments) : payments'[n] = payments[n]
    /\ matched \subseteq matched'
    /\ \A x \in TxHashes : unmatched[x] # "NONE" => unmatched'[x] # "NONE"

\* A payment that was stored stays stored.
LEMMA StoredGrows ==
    ASSUME PayTypes, Grows, NEW n \in 1..Len(payments), Stored(n)
    PROVE  Stored(n)'
<1>1. payments \in Seq(PaymentType)
  BY DEF PayTypes
<1>2. payments[n] \in PaymentType
  BY <1>1
<1>3. payments[n].tx \in TxHashes
  BY <1>2 DEF PaymentType
<1> QED BY <1>3 DEF Grows, Stored

\* A step that changes one poller, or none.
LEMMA PollersStep ==
    ASSUME PayInv, PayTypes', Grows,
           \A p \in Pollers : poller'[p] = poller[p] \/ PollerOK(poller[p])',
           cursor' = cursor \/ \A n \in 1..cursor' : Stored(n)'
    PROVE  PayInv'
<1>1. PayTypes /\ Len(payments) \in Nat /\ Len(payments') \in Nat
      /\ cursor \in Nat /\ cursor <= Len(payments)
  <2>1. PayTypes /\ payments \in Seq(PaymentType) /\ payments' \in Seq(PaymentType)
        /\ cursor \in Nat /\ cursor <= Len(payments)
    BY DEF PayInv, PayTypes
  <2> QED BY <2>1
<1>2. ASSUME NEW p \in Pollers PROVE PollerOK(poller[p])'
  <2> SUFFICES ASSUME poller'[p] = poller[p] PROVE PollerOK(poller[p])'
    OBVIOUS
  <2> DEFINE q == poller[p]
  <2>1. q \in PollType /\ PollerOK(q)
    BY DEF PayInv, PayTypes
  <2>2. q.last \in Nat /\ Len(q.todo) \in Nat /\ InHand(q) \in {0, 1}
        /\ (InHand(q) = 1 => Len(q.todo) > 0)
    BY <2>1 DEF PollType, InHand, PollerOK
  <2>3. q.last - InHand(q) <= Len(payments)
    BY <1>1, <2>1, <2>2 DEF PollerOK
  <2>4. \A n \in 1..(q.last - InHand(q)) : Stored(n) => Stored(n)'
    BY <1>1, <2>2, <2>3, StoredGrows
  <2> QED BY <1>1, <2>1, <2>2, <2>4 DEF PollerOK, Grows
<1>3. NoTransactionLost'
  <2>1. CASE cursor' = cursor
    <3>1. \A n \in 1..cursor : Stored(n) /\ n \in 1..Len(payments)
      BY <1>1 DEF PayInv, NoTransactionLost, Stored
    <3> QED BY <1>1, <2>1, <3>1, StoredGrows DEF NoTransactionLost, Stored
  <2>2. CASE \A n \in 1..cursor' : Stored(n)'
    BY <2>2 DEF NoTransactionLost, Stored
  <2> QED BY <2>1, <2>2
<1> QED BY <1>2, <1>3 DEF PayInv
\* Taking the first of consecutive numbers off a list.
LEMMA DropHead ==
    ASSUME NEW s \in Seq(Nat), s # <<>>, NEW k \in Int, \A i \in DOMAIN s : s[i] = k + i
    PROVE  /\ Len(s) > 0 /\ Head(s) = k + 1
           /\ Tail(s) \in Seq(Nat) /\ Len(Tail(s)) = Len(s) - 1
           /\ \A i \in DOMAIN Tail(s) : Tail(s)[i] = k + i + 1
<1>1. Len(s) > 0 /\ Len(s) \in Nat /\ DOMAIN s = 1..Len(s)
  OBVIOUS
<1>2. Head(s) = s[1] /\ s[1] = k + 1
  BY <1>1
<1>3. Tail(s) \in Seq(Nat) /\ Len(Tail(s)) = Len(s) - 1
  BY <1>1
<1>4. ASSUME NEW i \in DOMAIN Tail(s) PROVE Tail(s)[i] = k + i + 1
  <2>1. i \in 1..(Len(s) - 1) /\ i + 1 \in DOMAIN s
    BY <1>1, <1>3
  <2>2. Tail(s)[i] = s[i + 1]
    BY <1>1, <2>1
  <2> QED BY <2>1, <2>2
<1> QED BY <1>1, <1>2, <1>3, <1>4

\* What a step of poller p finds of it.
LEMMA PollerFacts ==
    ASSUME PayInv, NEW p \in Pollers
    PROVE  LET q == poller[p] IN
           /\ q \in PollType /\ q = [pc |-> q.pc, last |-> q.last, todo |-> q.todo]
           /\ q.last \in Nat /\ q.todo \in Seq(Nat) /\ Len(q.todo) \in Nat
           /\ PollerOK(q) /\ InHand(q) \in {0, 1}
           /\ q.last <= MaxPayments /\ q.last - InHand(q) <= Len(payments)
           /\ Len(payments) \in Nat /\ payments \in Seq(PaymentType)
           /\ MaxPayments \in Nat /\ Len(payments) <= MaxPayments
           /\ cursor \in Nat /\ cursor <= Len(payments)
<1> DEFINE q == poller[p]
<1>1. q \in PollType /\ PollerOK(q) /\ payments \in Seq(PaymentType)
      /\ Len(payments) <= MaxPayments /\ cursor \in Nat /\ cursor <= Len(payments)
  BY DEF PayInv, PayTypes
<1>2. q = [pc |-> q.pc, last |-> q.last, todo |-> q.todo]
      /\ q.last \in Nat /\ q.todo \in Seq(Nat)
  BY <1>1 DEF PollType
<1>3. Len(q.todo) \in Nat /\ InHand(q) \in {0, 1} /\ (InHand(q) = 1 => Len(q.todo) > 0)
  BY <1>1, <1>2 DEF InHand, PollerOK
<1>4. MaxPayments \in Nat /\ Len(payments) \in Nat
  BY <1>1, PaymentsAssumption
<1>5. q.last + Len(q.todo) <= Len(payments) + InHand(q)
  BY <1>1 DEF PollerOK
<1>6. q.last <= MaxPayments /\ q.last - InHand(q) <= Len(payments)
  BY <1>1, <1>2, <1>3, <1>4, <1>5
<1> QED BY <1>1, <1>2, <1>3, <1>4, <1>6

\* A payment that arrives leaves what the runs rely on.
LEMMA ArrivesStep ==
    ASSUME PayInv, NEW x \in TxHashes, NEW memo \in Ids \cup {0}, PaymentArrives(x, memo)
    PROVE  PayInv'
<1> DEFINE m == [tx |-> x, memo |-> memo]
<1>1. m \in PaymentType /\ payments \in Seq(PaymentType) /\ payments' = Append(payments, m)
      /\ Len(payments) < MaxPayments /\ UNCHANGED <<matched, unmatched, cursor, key, alerted, poller, admin>>
      /\ PayTypes /\ MaxPayments \in Nat
  BY PaymentsAssumption DEF PaymentArrives, PayInv, PayTypes, PaymentType
<1> HIDE DEF m
<1>2. Len(payments) \in Nat /\ Len(payments') = Len(payments) + 1 /\ payments' \in Seq(PaymentType)
      /\ \A n \in 1..Len(payments) : payments'[n] = payments[n]
  BY <1>1
<1>3. Grows
  BY <1>1, <1>2 DEF Grows
<1>4. PayTypes'
  <2>1. matched \subseteq 1..MaxPayments /\ cursor \in Nat /\ cursor <= Len(payments)
        /\ unmatched \in [TxHashes -> Verdicts \cup {"NONE", "PENDING"}]
        /\ KeyOK /\ AlertsOK
        /\ poller \in [Pollers -> PollType] /\ admin \in [Admins -> AdminType]
    BY <1>1 DEF PayTypes
  <2>2. Len(payments') <= MaxPayments /\ cursor <= Len(payments')
    <3>1. PICK k : k = Len(payments)
      OBVIOUS
    <3>2. k \in Nat /\ k < MaxPayments /\ cursor <= k /\ Len(payments') = k + 1
          /\ MaxPayments \in Nat /\ cursor \in Nat
      BY <1>1, <1>2, <2>1, <3>1
    <3> QED BY <3>2
  <2> QED BY <1>1, <1>2, <2>1, <2>2, AlertsStay, KeyStays DEF PayTypes
<1> QED BY <1>1, <1>3, <1>4, PollersStep

\* A poller goes on with q, and what it wrote is of its type.
LEMMA OnePoller ==
    ASSUME PayInv, NEW p \in Pollers, NEW q \in PollType, Poll(p, q), Grows,
           UNCHANGED <<payments, admin>>, matched' \subseteq 1..MaxPayments,
           unmatched' \in [TxHashes -> Verdicts \cup {"NONE", "PENDING"}],
           KeyOK', AlertsOK',
           \/ cursor' = cursor
           \/ /\ cursor' \in Nat /\ cursor' <= Len(payments)
              /\ \A n \in 1..cursor' : Stored(n)',
           PollerOK(q)'
    PROVE  PayInv'
<1>1. PayTypes /\ poller \in [Pollers -> PollType] /\ cursor \in Nat /\ Len(payments) \in Nat
      /\ cursor <= Len(payments) /\ payments \in Seq(PaymentType)
      /\ Len(payments) <= MaxPayments /\ admin \in [Admins -> AdminType]
  BY PollerFacts DEF PayInv, PayTypes
<1>2. poller' \in [Pollers -> PollType] /\ poller'[p] = q
      /\ \A o \in Pollers : o # p => poller'[o] = poller[o]
  BY <1>1 DEF Poll
<1>3. cursor' \in Nat /\ cursor' <= Len(payments')
  <2>1. payments' = payments /\ cursor' \in Nat /\ cursor' <= Len(payments)
    BY <1>1
  <2> QED BY <2>1
<1>4. PayTypes'
  BY <1>1, <1>2, <1>3 DEF PayTypes
<1>5. PollerOK(poller[p])'
  BY <1>2 DEF PollerOK, InHand
<1> QED BY <1>2, <1>4, <1>5, PollersStep

\* What is free to stay as it is.
LEMMA PayFacts ==
    ASSUME PayInv
    PROVE  /\ matched \subseteq 1..MaxPayments
           /\ unmatched \in [TxHashes -> Verdicts \cup {"NONE", "PENDING"}]
           /\ KeyOK /\ AlertsOK
           /\ payments \in Seq(PaymentType) /\ Len(payments) \in Nat
           /\ Len(payments) <= MaxPayments /\ MaxPayments \in Nat
           /\ (UNCHANGED <<payments, matched, unmatched>> => Grows)
<1>1. PayTypes /\ payments \in Seq(PaymentType)
  BY DEF PayInv, PayTypes
<1>2. Len(payments) \in Nat /\ MaxPayments \in Nat
  BY <1>1, PaymentsAssumption
<1>3. UNCHANGED <<payments, matched, unmatched>> => Grows
  BY <1>2 DEF Grows
<1> QED BY <1>1, <1>2, <1>3 DEF PayTypes

\* A run starts at the saved cursor.
LEMMA PollStep ==
    ASSUME PayInv, NEW p \in Pollers, PollIncomingPayments(p)
    PROVE  PayInv'
<1>1. PICK q : Poll(p, q) /\ q = [NoPoll EXCEPT !.pc = "fetch", !.last = cursor]
  BY DEF PollIncomingPayments
<1>2. KeyOK' /\ UNCHANGED <<payments, matched, unmatched, cursor, alerted, admin>>
  BY DEF PollIncomingPayments, KeyOK
<1>3. q.pc = "fetch" /\ q.last = cursor /\ q.todo = <<>>
  BY <1>1 DEF NoPoll
<1>4. q \in PollType
  <2>1. cursor \in Nat /\ NoPoll \in PollType
    BY PollerFacts, NoPollOK
  <2> QED BY <1>1, <2>1 DEF PollType
<1>5. cursor \in Nat /\ Len(payments) \in Nat /\ cursor <= Len(payments)
  BY PollerFacts
<1>6. \A n \in 1..cursor : Stored(n)
  BY DEF PayInv, NoTransactionLost, Stored
<1>7. PollerOK(q)'
  BY <1>2, <1>3, <1>5, <1>6 DEF PollerOK, InHand, Stored
<1> QED BY <1>1, <1>2, <1>4, <1>7, PayFacts, AlertsStay, KeyStays, OnePoller

\* A run fetches the page after its position.
LEMMA FetchStep ==
    ASSUME PayInv, NEW p \in Pollers, FetchPayments(p)
    PROVE  PayInv'
<1> DEFINE old == poller[p]
           from == old.last + 1
           to == Min({Len(payments), old.last + PageSize})
<1>1. PICK page : page = [i \in 1..(to - from + 1) |-> from + i - 1]
  OBVIOUS
<1>2. PICK q : Poll(p, q) /\ q = [old EXCEPT !.pc = "match", !.todo = page]
  BY <1>1 DEF FetchPayments
<1>3. old.pc = "fetch" /\ UNCHANGED <<payments, matched, unmatched, cursor, key, alerted, admin>>
  BY DEF FetchPayments, Polling
<1>4. old \in PollType /\ old.last \in Nat /\ Len(payments) \in Nat /\ PollerOK(old)
  BY PollerFacts
<1>5. old.last <= Len(payments)
  <2>1. InHand(old) = 0 /\ old.last - InHand(old) <= Len(payments)
    BY <1>3, PollerFacts DEF InHand
  <2> HIDE DEF old
  <2> QED BY <1>4, <2>1
<1>6. to \in Nat /\ old.last <= to /\ to <= Len(payments)
  <2>1. PageSize \in Nat /\ old.last + PageSize \in Nat
    BY <1>4, PaymentsAssumption
  <2> HIDE DEF old
  <2> QED BY <1>4, <1>5, <2>1, MinOfTwo
<1>7. to - from + 1 = to - old.last /\ to - old.last \in Nat
  <2> HIDE DEF to
  <2> QED BY <1>4, <1>6
<1>8. page \in Seq(Nat) /\ Len(page) = to - old.last
      /\ \A i \in DOMAIN page : page[i] = old.last + i
  <2>1. page = [i \in 1..(to - old.last) |-> from + i - 1]
    BY <1>1, <1>7
  <2>2. \A i \in 1..(to - old.last) : from + i - 1 = old.last + i /\ from + i - 1 \in Nat
    BY <1>4
  <2>3. PICK len \in Nat : len = to - old.last
    BY <1>7
  <2> HIDE DEF to, from
  <2>4. page \in Seq(Nat) /\ Len(page) = len
    BY <2>1, <2>2, <2>3
  <2>5. DOMAIN page = 1..len /\ \A i \in 1..len : page[i] = from + i - 1
    BY <2>1, <2>3
  <2> QED BY <2>2, <2>3, <2>4, <2>5
<1>9. q.pc = "match" /\ q.last = old.last /\ q.todo = page /\ q \in PollType
  BY <1>2, <1>4, <1>8 DEF PollType
<1>10. \A n \in 1..old.last : Stored(n)
  BY <1>3, <1>4 DEF PollerOK, InHand
<1>11. PollerOK(q)'
  <2> HIDE DEF to, old
  <2> QED BY <1>3, <1>4, <1>6, <1>8, <1>9, <1>10 DEF PollerOK, InHand, Stored
<1> QED BY <1>2, <1>3, <1>9, <1>11, PayFacts, AlertsStay, KeyStays, OnePoller
\* A poller moves past the payment in hand, which is stored.
LEMMA NextPayment ==
    ASSUME PayInv, NEW p \in Pollers, poller[p].pc \in {"find", "create"},
           NEW q \in PollType, q.pc = "match", q.last = poller[p].last,
           q.todo = Tail(poller[p].todo), payments' = payments, Grows,
           NEW n, n = Head(poller[p].todo), Stored(n)'
    PROVE  PollerOK(q)'
<1> DEFINE old == poller[p]
<1>1. old.todo \in Seq(Nat) /\ old.last \in Nat /\ PollerOK(old) /\ Len(payments) \in Nat
      /\ PayTypes /\ old.last - InHand(old) <= Len(payments)
  BY PollerFacts DEF PayInv
<1>2. InHand(old) = 1 /\ n = Head(old.todo)
  BY DEF InHand
<1>3. q.todo = Tail(old.todo) /\ q.last = old.last /\ q.pc = "match" /\ q.last \in Nat
  BY <1>1
<1> HIDE DEF old
<1>4. old.todo # <<>> /\ old.last + Len(old.todo) <= Len(payments) + 1
      /\ \A i \in DOMAIN old.todo : old.todo[i] = old.last + i - 1
      /\ \A m \in 1..(old.last - 1) : Stored(m)
  BY <1>1, <1>2 DEF PollerOK, old
<1>5. PICK k \in Int : k = old.last - 1
  BY <1>1
<1>6. \A i \in DOMAIN old.todo : old.todo[i] = k + i
  <2>1. DOMAIN old.todo \subseteq Nat
    BY <1>1
  <2> QED BY <1>1, <1>4, <1>5, <2>1
<1>7. /\ Len(old.todo) > 0 /\ Head(old.todo) = k + 1
      /\ Tail(old.todo) \in Seq(Nat) /\ Len(Tail(old.todo)) = Len(old.todo) - 1
      /\ \A i \in DOMAIN Tail(old.todo) : Tail(old.todo)[i] = k + i + 1
  BY <1>1, <1>4, <1>6, DropHead
<1>8. n = q.last /\ n = k + 1 /\ Len(old.todo) \in Nat
  BY <1>1, <1>2, <1>3, <1>5, <1>7
<1>9. k <= Len(payments) /\ \A m \in 1..k : m \in 1..Len(payments) /\ Stored(m)
  BY <1>1, <1>2, <1>4, <1>5
<1>10. \A m \in 1..k : Stored(m)'
  BY <1>1, <1>9, StoredGrows
<1>11. \A m \in 1..q.last : Stored(m)'
  <2> SUFFICES ASSUME NEW m \in 1..(k + 1) PROVE Stored(m)'
    BY <1>8
  <2>1. CASE m = n
    BY <2>1
  <2>2. CASE m # n
    BY <1>5, <1>8, <1>10, <2>2
  <2> QED BY <2>1, <2>2
<1>12. q.last + Len(q.todo) <= Len(payments)
  <2>1. PICK a \in Nat, b \in Nat : a = Len(payments) /\ b = Len(old.todo)
    BY <1>1, <1>8
  <2>2. Len(q.todo) = b - 1 /\ q.last + b <= a + 1
    BY <1>3, <1>4, <1>7, <2>1
  <2> QED BY <1>3, <2>1, <2>2
<1>13. \A i \in DOMAIN q.todo : q.todo[i] = q.last + i /\ i \in Nat
  <2>1. DOMAIN Tail(old.todo) \subseteq Nat
    BY <1>7
  <2>2. ASSUME NEW i \in DOMAIN q.todo PROVE q.todo[i] = q.last + i /\ i \in Nat
    <3>1. i \in Nat /\ q.todo[i] = k + i + 1
      BY <1>3, <1>7, <2>1
    <3>2. q.last = k + 1
      BY <1>8
    <3> QED BY <3>1, <3>2
  <2> QED BY <2>2
<1> QED BY <1>3, <1>11, <1>12, <1>13 DEF PollerOK, InHand

\* A payment with the memo of an open engagement is matched.
LEMMA MatchStep ==
    ASSUME PayInv, NEW p \in Pollers, MatchMemo(p)
    PROVE  PayInv'
<1> DEFINE old == poller[p]
           n == Head(old.todo)
           hit == payments[n].memo # 0 /\ Open(payments[n].memo)
<1>1. old.pc = "match" /\ UNCHANGED <<payments, unmatched, cursor, key, alerted, admin>>
  BY DEF MatchMemo, Polling
<1>2. /\ old \in PollType /\ old.todo \in Seq(Nat) /\ old.last \in Nat
      /\ PollerOK(old) /\ Len(payments) \in Nat /\ Len(payments) <= MaxPayments /\ MaxPayments \in Nat
      /\ matched \subseteq 1..MaxPayments
  BY PollerFacts, PayFacts
<1>3. /\ old.last + Len(old.todo) <= Len(payments)
      /\ \A i \in DOMAIN old.todo : old.todo[i] = old.last + i
      /\ \A k \in 1..old.last : Stored(k)
  <2>1. InHand(old) = 0 /\ DOMAIN old.todo \subseteq Nat
    BY <1>1, <1>2 DEF InHand
  <2> HIDE DEF old
  <2> QED BY <1>1, <1>2, <2>1 DEF PollerOK
<1>4. CASE old.todo = <<>>
  <2>1. PICK q : Poll(p, q) /\ q = [old EXCEPT !.pc = "save"]
    BY <1>4 DEF MatchMemo
  <2>2. matched' = matched
    BY <1>4 DEF MatchMemo
  <2>3. q.pc = "save" /\ q.last = old.last /\ q.todo = <<>> /\ q \in PollType
    BY <1>2, <1>4, <2>1 DEF PollType
  <2>4. PollerOK(q)'
    <3>1. old.last <= Len(payments)
      BY <1>2, <1>3, <1>4
    <3> HIDE DEF old
    <3> QED BY <1>1, <1>2, <1>3, <2>2, <2>3, <3>1 DEF PollerOK, InHand, Stored
  <2> QED BY <1>1, <2>1, <2>2, <2>3, <2>4, PayFacts, AlertsStay, KeyStays, OnePoller
<1>5. CASE old.todo # <<>>
  <2>1. /\ Len(old.todo) > 0 /\ Head(old.todo) = old.last + 1
        /\ Tail(old.todo) \in Seq(Nat) /\ Len(Tail(old.todo)) = Len(old.todo) - 1
        /\ \A i \in DOMAIN Tail(old.todo) : Tail(old.todo)[i] = old.last + i + 1
    <3>1. old.last \in Int
      BY <1>2
    <3> HIDE DEF old
    <3> QED BY <1>2, <1>3, <1>5, <3>1, DropHead
  <2>2. PICK q : Poll(p, q) /\ q = [old EXCEPT !.last = n, !.pc = IF hit THEN "match" ELSE "find",
                                      !.todo = IF hit THEN Tail(@) ELSE @]
    BY <1>5 DEF MatchMemo, LastToken
  <2>3. matched' = IF hit THEN matched \cup {n} ELSE matched
    BY <1>5 DEF MatchMemo
  <2>4. q.pc = (IF hit THEN "match" ELSE "find") /\ q.last = n
        /\ q.todo = IF hit THEN Tail(old.todo) ELSE old.todo
    <3> HIDE DEF n, hit
    <3> QED BY <1>2, <2>2 DEF PollType
  <2>5. n \in 1..MaxPayments /\ n \in 1..Len(payments) /\ n = old.last + 1 /\ n \in Nat
    <3>1. Len(old.todo) \in Nat /\ n = old.last + 1
      BY <1>2, <2>1
    <3> HIDE DEF n, old
    <3> QED BY <1>2, <1>3, <2>1, <3>1
  <2>6. q \in PollType
    <3> HIDE DEF n, hit
    <3> QED BY <1>2, <2>1, <2>2, <2>5 DEF PollType
  <2>7. Grows /\ matched' \subseteq 1..MaxPayments
    <3> HIDE DEF n, hit
    <3>1. matched' \subseteq 1..MaxPayments /\ matched \subseteq matched'
      BY <1>2, <2>3, <2>5
    <3> QED BY <1>1, <1>2, <3>1 DEF Grows
  <2>8. \A k \in 1..old.last : Stored(k)'
    <3> HIDE DEF n, hit, old
    <3> QED BY <1>1, <1>3, <2>3 DEF Stored
  <2>9. PollerOK(q)'
    <3>1. CASE hit
      <4>1. q.pc = "match" /\ q.last = n /\ q.todo = Tail(old.todo) /\ n \in matched'
        BY <2>3, <2>4, <3>1
      <4> HIDE DEF n, hit, old
      <4>2. \A k \in 1..q.last : Stored(k)'
        BY <1>2, <2>5, <2>8, <4>1 DEF Stored
      <4>3. Len(old.todo) \in Nat /\ DOMAIN Tail(old.todo) \subseteq Nat
        BY <1>2, <2>1
      <4>4. q.last + Len(q.todo) <= Len(payments)
            /\ \A i \in DOMAIN q.todo : q.todo[i] = q.last + i /\ i \in Nat
        <5>1. q.last + Len(q.todo) <= Len(payments)
          BY <1>2, <1>3, <2>1, <2>5, <4>1, <4>3
        <5>2. ASSUME NEW i \in DOMAIN q.todo PROVE q.todo[i] = q.last + i /\ i \in Nat
          <6>1. i \in DOMAIN Tail(old.todo) /\ i \in Nat /\ q.todo[i] = Tail(old.todo)[i]
            BY <4>1, <4>3, <5>2
          <6>2. Tail(old.todo)[i] = old.last + i + 1 /\ old.last \in Nat /\ q.last = old.last + 1
            BY <1>2, <2>1, <2>5, <4>1, <6>1
          <6> QED BY <6>1, <6>2
        <5> QED BY <5>1, <5>2
      <4> QED BY <1>1, <1>2, <2>5, <4>1, <4>2, <4>4 DEF PollerOK, InHand
    <3>2. CASE ~hit
      <4>1. q.pc = "find" /\ q.last = n /\ q.todo = old.todo
        BY <2>4, <3>2
      <4> HIDE DEF n, hit, old
      <4>2. q.last - 1 = old.last /\ \A k \in 1..(q.last - 1) : Stored(k)'
        BY <1>2, <2>5, <2>8, <4>1
      <4>3. Len(old.todo) \in Nat /\ DOMAIN old.todo \subseteq Nat
        BY <1>2
      <4>4. q.last + Len(q.todo) <= Len(payments) + 1
            /\ \A i \in DOMAIN q.todo : q.todo[i] = q.last + i - 1
        <5>1. q.last + Len(q.todo) <= Len(payments) + 1
          BY <1>2, <1>3, <2>5, <4>1, <4>3
        <5>2. ASSUME NEW i \in DOMAIN q.todo PROVE q.todo[i] = q.last + i - 1
          <6>1. i \in DOMAIN old.todo /\ i \in Nat /\ q.todo[i] = old.todo[i]
            BY <4>1, <4>3, <5>2
          <6>2. old.todo[i] = old.last + i /\ old.last \in Nat /\ q.last = old.last + 1
            BY <1>2, <1>3, <2>5, <4>1, <6>1
          <6> QED BY <6>1, <6>2
        <5> QED BY <5>1, <5>2
      <4>5. q.last > 0
        BY <2>5, <4>1
      <4> QED BY <1>1, <1>5, <4>1, <4>2, <4>4, <4>5 DEF PollerOK, InHand
    <3> QED BY <3>1, <3>2
  <2>10. UNCHANGED <<payments, admin>> /\ key' = key /\ alerted' = alerted /\ unmatched' = unmatched
         /\ cursor' = cursor
    BY <1>1
  <2> HIDE DEF n, hit, old
  <2> QED BY <2>2, <2>6, <2>7, <2>9, <2>10, PayFacts, AlertsStay, KeyStays, OnePoller
<1> QED BY <1>4, <1>5
\* The payment in hand is on Horizon's list.
LEMMA HandFacts ==
    ASSUME PayInv, NEW p \in Pollers, poller[p].pc \in {"find", "create"}
    PROVE  LET n == Head(poller[p].todo) IN
           /\ n = poller[p].last /\ n \in 1..Len(payments) /\ payments[n].tx \in TxHashes
           /\ Tail(poller[p].todo) \in Seq(Nat)
<1> DEFINE old == poller[p]
<1>1. old.todo \in Seq(Nat) /\ old.last \in Nat /\ PollerOK(old) /\ Len(payments) \in Nat
      /\ payments \in Seq(PaymentType)
  BY PollerFacts
<1>2. InHand(old) = 1 /\ old.todo # <<>> /\ old.last > 0
  BY <1>1 DEF InHand, PollerOK
<1> HIDE DEF old
<1>3. old.last + Len(old.todo) <= Len(payments) + 1
      /\ \A i \in DOMAIN old.todo : old.todo[i] = old.last + i - 1
  BY <1>1, <1>2 DEF PollerOK
<1>4. Len(old.todo) \in Nat /\ Len(old.todo) > 0 /\ 1 \in DOMAIN old.todo
      /\ Head(old.todo) = old.todo[1] /\ Tail(old.todo) \in Seq(Nat)
  BY <1>1, <1>2
<1>5. Head(old.todo) = old.last
  BY <1>1, <1>3, <1>4
<1>6. old.last \in 1..Len(payments)
  BY <1>1, <1>2, <1>3, <1>4
<1>7. payments[old.last] \in PaymentType
  BY <1>1, <1>6
<1> QED BY <1>4, <1>5, <1>6, <1>7 DEF old, PaymentType

\* A payment is looked up among the unmatched ones, and passed over if it is there.
LEMMA FindStep ==
    ASSUME PayInv, NEW p \in Pollers, FindUnmatched(p)
    PROVE  PayInv'
<1> DEFINE old == poller[p]
<1>1. PICK n : n = Head(old.todo)
  OBVIOUS
<1>2. old.pc = "find" /\ UNCHANGED <<payments, matched, unmatched, cursor, key, alerted, admin>>
      /\ Poll(p, IF unmatched[payments[n].tx] = "NONE" THEN [old EXCEPT !.pc = "create"]
                 ELSE [old EXCEPT !.pc = "match", !.todo = Tail(@)])
  BY <1>1 DEF FindUnmatched, Polling
<1>3. old \in PollType /\ PollerOK(old) /\ Tail(old.todo) \in Seq(Nat) /\ old.last \in Nat
  BY <1>2, PollerFacts, HandFacts
<1>4. Grows
  BY <1>2, PayFacts
<1>5. CASE unmatched[payments[n].tx] = "NONE"
  <2>1. PICK q : Poll(p, q) /\ q = [old EXCEPT !.pc = "create"]
    BY <1>2, <1>5
  <2>2. q \in PollType /\ q.pc = "create" /\ q.last = old.last /\ q.todo = old.todo
    BY <1>3, <2>1 DEF PollType
  <2>3. PollerOK(q)'
    <3> HIDE DEF old
    <3> QED BY <1>2, <1>3, <2>2 DEF PollerOK, InHand, Stored
  <2> QED BY <1>2, <1>4, <2>1, <2>2, <2>3, PayFacts, AlertsStay, KeyStays, OnePoller
<1>6. CASE unmatched[payments[n].tx] # "NONE"
  <2>1. PICK q : Poll(p, q) /\ q = [old EXCEPT !.pc = "match", !.todo = Tail(@)]
    BY <1>2, <1>6
  <2>2. q \in PollType /\ q.pc = "match" /\ q.last = old.last /\ q.todo = Tail(old.todo)
    BY <1>3, <2>1 DEF PollType
  <2>3. Stored(n)'
    BY <1>2, <1>6 DEF Stored
  <2>4. PollerOK(q)'
    BY <1>1, <1>2, <1>4, <2>2, <2>3, NextPayment
  <2> QED BY <1>2, <1>4, <2>1, <2>2, <2>4, PayFacts, AlertsStay, KeyStays, OnePoller
<1> QED BY <1>5, <1>6

\* A payment without an engagement is stored; one stored meanwhile ends the run.
LEMMA StoreStep ==
    ASSUME PayInv, NEW p \in Pollers, StoreUnmatched(p)
    PROVE  PayInv'
<1> DEFINE old == poller[p]
<1>1. PICK n, x : n = Head(old.todo) /\ x = payments[n].tx
  OBVIOUS
<1>2. old.pc = "create" /\ UNCHANGED <<payments, matched, cursor, alerted, admin>>
  BY DEF StoreUnmatched, Polling
<1>3. old \in PollType /\ Tail(old.todo) \in Seq(Nat) /\ x \in TxHashes
  BY <1>1, <1>2, PollerFacts, HandFacts
<1>4. CASE unmatched[x] = "NONE"
  <2>1. unmatched' = [unmatched EXCEPT ![x] = "PENDING"] /\ key' = key
        /\ Poll(p, [old EXCEPT !.pc = "match", !.todo = Tail(@)])
    BY <1>1, <1>4 DEF StoreUnmatched
  <2>2. PICK q : Poll(p, q) /\ q = [old EXCEPT !.pc = "match", !.todo = Tail(@)]
    BY <2>1
  <2>3. q \in PollType /\ q.pc = "match" /\ q.last = old.last /\ q.todo = Tail(old.todo)
    BY <1>3, <2>2 DEF PollType
  <2>4. unmatched \in [TxHashes -> Verdicts \cup {"NONE", "PENDING"}] /\ Len(payments) \in Nat
    BY PayFacts
  <2>5. unmatched' \in [TxHashes -> Verdicts \cup {"NONE", "PENDING"}] /\ unmatched'[x] = "PENDING"
        /\ \A y \in TxHashes \ {x} : unmatched'[y] = unmatched[y]
    BY <1>3, <2>1, <2>4
  <2>6. Grows
    BY <1>2, <2>4, <2>5 DEF Grows
  <2>7. Stored(n)'
    BY <1>1, <1>2, <2>5 DEF Stored
  <2>8. PollerOK(q)'
    BY <1>1, <1>2, <2>3, <2>6, <2>7, NextPayment
  <2> QED BY <1>2, <2>1, <2>2, <2>3, <2>5, <2>6, <2>8, PayFacts, AlertsStay, KeyStays, OnePoller
<1>5. CASE unmatched[x] # "NONE"
  <2>1. Poll(p, NoPoll) /\ UNCHANGED unmatched /\ (key' = key \/ key' = "")
    BY <1>1, <1>5 DEF StoreUnmatched
  <2>2. PICK q : q = NoPoll
    OBVIOUS
  <2>3. q \in PollType /\ q.pc = "idle" /\ q.todo = <<>> /\ q.last = 0 /\ Len(payments) \in Nat
    BY <2>2, NoPollOK, PollerFacts DEF NoPoll
  <2>4. PollerOK(q)'
    BY <1>2, <2>3 DEF PollerOK, InHand
  <2>5. KeyOK' /\ Grows
    <3>1. KeyOK /\ Grows
      BY <1>2, <2>1, PayFacts
    <3> QED BY <2>1, <3>1, KeyStays
  <2> QED BY <1>2, <2>1, <2>2, <2>3, <2>4, <2>5, PayFacts, AlertsStay, KeyStays, OnePoller
<1> QED BY <1>4, <1>5
\* A poller ends, whether its run is finished or its process stopped.
LEMMA PollerEnds ==
    ASSUME PayInv, NEW p \in Pollers, Poll(p, NoPoll),
           UNCHANGED <<payments, matched, unmatched, admin>>,
           KeyOK', AlertsOK',
           \/ cursor' = cursor
           \/ poller[p].pc = "save" /\ cursor' = poller[p].last
    PROVE  PayInv'
<1>1. PICK q : q = NoPoll
  OBVIOUS
<1>2. q \in PollType /\ q.pc = "idle" /\ q.todo = <<>> /\ q.last = 0 /\ Len(payments) \in Nat
  BY <1>1, NoPollOK, PollerFacts DEF NoPoll
<1>3. PollerOK(q)'
  <2>1. payments' = payments
    OBVIOUS
  <2> QED BY <1>2, <2>1 DEF PollerOK, InHand
<1>4. KeyOK' /\ Grows /\ AlertsOK'
      /\ matched' \subseteq 1..MaxPayments
      /\ unmatched' \in [TxHashes -> Verdicts \cup {"NONE", "PENDING"}]
  BY PayFacts
<1>5. CASE cursor' = cursor
  BY <1>1, <1>2, <1>3, <1>4, <1>5, OnePoller
<1>6. CASE poller[p].pc = "save" /\ cursor' = poller[p].last
  <2>1. InHand(poller[p]) = 0 /\ poller[p].last \in Nat /\ PollerOK(poller[p])
        /\ poller[p].last - InHand(poller[p]) <= Len(payments)
    BY <1>6, PollerFacts DEF InHand
  <2>2. PICK k \in Nat : k = poller[p].last
    BY <2>1
  <2>3. \A n \in 1..k : Stored(n)
    <3>1. \A n \in 1..(poller[p].last - InHand(poller[p])) : Stored(n)
      BY <1>6, <2>1 DEF PollerOK
    <3>2. poller[p].last - InHand(poller[p]) = k
      BY <2>1, <2>2
    <3> QED BY <3>1, <3>2
  <2>4. k <= Len(payments) /\ cursor' = k
    <3>1. poller[p].last - InHand(poller[p]) = k
      BY <2>1, <2>2
    <3>2. k <= Len(payments)
      BY <2>1, <3>1
    <3> QED BY <1>6, <2>2, <3>2
  <2>5. \A n \in 1..cursor' : Stored(n)'
    BY <2>3, <2>4 DEF Stored
  <2>6. cursor' \in Nat /\ cursor' <= Len(payments)
    BY <2>4
  <2> QED BY <1>1, <1>2, <1>3, <1>4, <2>5, <2>6, OnePoller
<1> QED BY <1>5, <1>6

\* The cursor is saved once every payment before it is dealt with.
LEMMA SaveStep ==
    ASSUME PayInv, NEW p \in Pollers, SaveCursor(p)
    PROVE  PayInv'
<1>1. /\ Poll(p, NoPoll) /\ UNCHANGED <<payments, matched, unmatched, admin>>
      /\ poller[p].pc = "save" /\ cursor' = poller[p].last
  BY DEF SaveCursor, Polling
<1>3. KeyOK'
  <2>1. KeyOK /\ (key' = key \/ key' = "")
    BY PayFacts DEF SaveCursor
  <2> QED BY <2>1, KeyStays
<1>2. AlertsOK'
  <2>1. alerted' = [alerted EXCEPT ![p] = Pending >= Threshold] /\ alerted \in [Pollers -> BOOLEAN]
    BY PayFacts DEF SaveCursor, AlertsOK
  <2>2. (Pending >= Threshold) \in BOOLEAN
    OBVIOUS
  <2> QED BY <2>1, <2>2 DEF AlertsOK
<1> QED BY <1>1, <1>2, <1>3, PollerEnds

\* A run that stops leaves the saved cursor where it was.
LEMMA CrashStep ==
    ASSUME PayInv, NEW p \in Pollers, PollerCrash(p)
    PROVE  PayInv'
<1>1. AlertsOK'
  <2>1. alerted' = [alerted EXCEPT ![p] = FALSE] /\ AlertsOK
    BY PayFacts DEF PollerCrash
  <2> QED BY <2>1 DEF AlertsOK
<1>2. KeyOK'
  <2>1. KeyOK /\ key' = key
    BY PayFacts DEF PollerCrash
  <2> QED BY <2>1, KeyStays
<1> QED BY <1>1, <1>2, PollerEnds DEF PollerCrash

\* An admin's request writes the row of an unmatched payment at most.
LEMMA AdminStep ==
    ASSUME PayInv, NEW a \in Admins, NEW r \in AdminType, admin' = [admin EXCEPT ![a] = r],
           UNCHANGED <<payments, matched, cursor, key, alerted, poller>>,
           \/ unmatched' = unmatched
           \/ unmatched' = [unmatched EXCEPT ![admin[a].tx] = admin[a].as]
    PROVE  PayInv'
<1>1. PayTypes /\ admin \in [Admins -> AdminType] /\ Len(payments) \in Nat
      /\ unmatched \in [TxHashes -> Verdicts \cup {"NONE", "PENDING"}]
  BY PollerFacts, PayFacts DEF PayInv, PayTypes
<1>2. admin' \in [Admins -> AdminType] /\ admin[a].as \in Verdicts
  BY <1>1 DEF AdminType
<1>3. /\ unmatched' \in [TxHashes -> Verdicts \cup {"NONE", "PENDING"}]
      /\ \A x \in TxHashes : unmatched'[x] = unmatched[x] \/ unmatched'[x] \in Verdicts
  BY <1>1, <1>2
<1>4. Grows
  BY <1>1, <1>3 DEF Grows, Verdicts
<1>5. PayTypes'
  BY <1>1, <1>2, <1>3, AlertsStay, KeyStays DEF PayTypes
<1> QED BY <1>1, <1>4, <1>5, PollersStep

\* An administrator takes up an unmatched payment.
LEMMA ResolveStep ==
    ASSUME PayInv, NEW a \in Admins, NEW x \in TxHashes, NEW as \in Verdicts, Resolve(a, x, as)
    PROVE  PayInv'
<1>1. [pc |-> "write", tx |-> x, as |-> as] \in AdminType
  BY DEF AdminType
<1> QED BY <1>1, AdminStep DEF Resolve

\* A verdict keeps the payment stored.
LEMMA VerdictStep ==
    ASSUME PayInv, NEW a \in Admins, WriteVerdict(a)
    PROVE  PayInv'
<1>1. NoAdmin \in AdminType
  BY DEF NoAdmin, AdminType, Verdicts
<1> QED BY <1>1, AdminStep DEF WriteVerdict

\* A lock that expires frees the key only.
LEMMA KeyStep ==
    ASSUME PayInv, KeyExpires
    PROVE  PayInv'
<1>1. UNCHANGED <<payments, matched, unmatched, cursor, alerted, poller, admin>> /\ key' = ""
  BY DEF KeyExpires
<1>2. PayTypes /\ Grows
  BY <1>1, PayFacts DEF PayInv
<1>3. PayTypes'
  BY <1>1, <1>2, AlertsStay, KeyStays DEF PayTypes
<1> QED BY <1>1, <1>2, <1>3, PollersStep

\* The steps of the engagements leave the payments alone.
LEMMA PayStay ==
    ASSUME PayInv, UNCHANGED payVars
    PROVE  PayInv'
<1>1. UNCHANGED <<payments, matched, unmatched, cursor, key, alerted, poller, admin>>
  BY DEF payVars
<1>2. PayTypes /\ Grows
  BY <1>1, PayFacts DEF PayInv
<1>3. PayTypes'
  BY <1>1, <1>2, AlertsStay, KeyStays DEF PayTypes
<1> QED BY <1>1, <1>2, <1>3, PollersStep

\* What the payments do to the engagements: nothing, but for the counters.
LEMMA PayMoves ==
    ASSUME Base, PayNext \/ UNCHANGED <<vars, payVars>>
    PROVE  [Next]_vars \/ Apart
<1>1. calls \in Nat /\ faults \in Nat
  BY DEF Base, RestOK
<1>2. ASSUME NEW p \in Pollers, PollerCrash(p) PROVE Apart
  BY <1>1, <1>2 DEF PollerCrash, Fault, Apart
<1>3. ASSUME KeyExpires PROVE Apart
  <2>1. UNCHANGED <<rows, ledger, report, req, now, calls, scope, upset>>
        /\ (faults' = faults \/ faults' = faults + 1)
    BY <1>3 DEF KeyExpires, Fault
  <2> QED BY <1>1, <2>1 DEF Apart
<1>4. ASSUME NEW a \in Admins, NEW x \in TxHashes, NEW as \in Verdicts, Resolve(a, x, as)
      PROVE  Apart
  BY <1>1, <1>4 DEF Resolve, Apart
<1>5. ASSUME NEW a \in Admins, WriteVerdict(a) PROVE UNCHANGED vars
  BY <1>5 DEF WriteVerdict
<1>6. ASSUME NEW x \in TxHashes, NEW memo \in Ids \cup {0}, PaymentArrives(x, memo)
      PROVE  UNCHANGED vars
  BY <1>6 DEF PaymentArrives
<1>7. ASSUME NEW p \in Pollers,
             PollIncomingPayments(p) \/ FetchPayments(p) \/ MatchMemo(p) \/ FindUnmatched(p)
             \/ StoreUnmatched(p) \/ SaveCursor(p)
      PROVE  UNCHANGED vars
  BY <1>7 DEF PollIncomingPayments, FetchPayments, MatchMemo, FindUnmatched, StoreUnmatched,
              SaveCursor
<1>8. UNCHANGED <<vars, payVars>> => UNCHANGED vars
  OBVIOUS
<1> QED BY <1>2, <1>3, <1>4, <1>5, <1>6, <1>7, <1>8 DEF PayNext

\* The invariants hold at the start.
LEMMA PayInit0 == PayInit => Base /\ PayInv
<1> SUFFICES ASSUME PayInit PROVE Base /\ PayInv
  OBVIOUS
<1>1. Init /\ payments = <<>> /\ matched = {} /\ unmatched = [x \in TxHashes |-> "NONE"]
      /\ cursor = 0
      /\ poller = [p \in Pollers |-> NoPoll] /\ admin = [a \in Admins |-> NoAdmin]
  BY DEF PayInit
<1>2. Base
  BY <1>1, BaseInit
<1>3. NoPoll \in PollType /\ NoAdmin \in AdminType
  BY NoPollOK DEF NoAdmin, AdminType, Verdicts
<1>4. payments \in Seq(PaymentType) /\ Len(payments) = 0 /\ MaxPayments \in Nat
  <2>1. MaxPayments \in Nat
    BY PaymentsAssumption
  <2>2. <<>> \in Seq(PaymentType) /\ Len(<<>>) = 0
    OBVIOUS
  <2> QED BY <1>1, <2>1, <2>2
<1>5. PayTypes
  <2>1. Len(payments) <= MaxPayments /\ cursor \in Nat /\ cursor <= Len(payments)
    BY <1>1, <1>4
  <2>2. /\ unmatched \in [TxHashes -> Verdicts \cup {"NONE", "PENDING"}]
        /\ poller \in [Pollers -> PollType] /\ admin \in [Admins -> AdminType]
        /\ matched \subseteq 1..MaxPayments
    BY <1>1, <1>3
  <2>3. KeyOK /\ AlertsOK
    BY DEF PayInit, KeyOK, AlertsOK
  <2> QED BY <1>1, <1>4, <2>1, <2>2, <2>3 DEF PayTypes
<1>6. NoTransactionLost
  <2>1. 1..cursor = {}
    BY <1>1
  <2> QED BY <2>1 DEF NoTransactionLost
<1>7. \A p \in Pollers : PollerOK(poller[p])
  BY <1>1, <1>5, NoPollOK
<1> QED BY <1>2, <1>5, <1>6, <1>7 DEF PayInv

\* Every step keeps the invariant of the payments.
LEMMA PayStep == PayInv /\ (PayNext \/ UNCHANGED <<vars, payVars>>) => PayInv'
<1> SUFFICES ASSUME PayInv, PayNext \/ UNCHANGED <<vars, payVars>> PROVE PayInv'
  OBVIOUS
<1>1. CASE UNCHANGED payVars
  BY <1>1, PayStay
<1> QED BY <1>1, ArrivesStep, PollStep, FetchStep, MatchStep, FindStep, StoreStep, SaveStep,
           CrashStep, KeyStep, ResolveStep, VerdictStep DEF PayNext

\* It includes their types.
LEMMA PayTyped == Base /\ PayInv => PayTypeOK
<1> SUFFICES ASSUME Base, PayInv PROVE PayTypeOK
  OBVIOUS
<1>1. PayTypes /\ TypeOK
  BY BaseTyped DEF PayInv
<1>2. /\ payments \in Seq(PaymentType) /\ matched \subseteq 1..MaxPayments /\ cursor \in Nat
      /\ unmatched \in [TxHashes -> Verdicts \cup {"NONE", "PENDING"}]
      /\ KeyOK /\ AlertsOK
      /\ cursor <= Len(payments) /\ admin \in [Admins -> AdminType]
      /\ Len(payments) <= MaxPayments
  BY <1>1 DEF PayTypes
<1>3. cursor \in 0..MaxPayments
  <2>1. MaxPayments \in Nat /\ Len(payments) \in Nat
    BY PayFacts
  <2> QED BY <1>2, <2>1
<1>4. ASSUME NEW p \in Pollers
      PROVE  /\ poller[p].pc \in {"idle", "fetch", "match", "find", "create", "save"}
             /\ poller[p].last \in 0..MaxPayments
  <2>1. poller[p] \in PollType /\ poller[p].last \in Nat /\ poller[p].last <= MaxPayments
        /\ MaxPayments \in Nat
    BY PollerFacts
  <2>2. poller[p].last \in 0..MaxPayments
    BY <2>1
  <2> QED BY <2>1, <2>2 DEF PollType
<1>5. \A a \in Admins : admin[a].pc \in {"idle", "write"}
  BY <1>2 DEF AdminType
<1> QED BY <1>1, <1>2, <1>3, <1>4, <1>5 DEF PayTypeOK, PaymentType, KeyOK, AlertsOK

\* Both invariants always hold.
LEMMA PayBase == PaySpec => [](Base /\ PayInv)
<1>1. Base /\ PayInv /\ [PayNext]_<<vars, payVars>> => Base' /\ PayInv'
  <2> SUFFICES ASSUME Base, PayInv, [PayNext]_<<vars, payVars>> PROVE Base' /\ PayInv'
    OBVIOUS
  <2> QED BY PayMoves, BaseStep, PayStep
<1> QED BY <1>1, PayInit0, PTL DEF PaySpec

\* The typed state of the engagements and of the payment poller: rows, contracts, the
\* page and the position of each poller, the verdicts of the admins.
THEOREM PayTypeCorrect == PaySpec => []PayTypeOK
BY PayBase, PayTyped, PTL

\* No payment before the saved cursor is lost: pollIncomingPayments saves the cursor
\* last, so a run that crashes, or that meets another run's row, starts again from
\* where the last whole run ended.
THEOREM PaymentsKept == PaySpec => []NoTransactionLost
<1>1. PayInv /\ [PayNext]_<<vars, payVars>> => PayInv'
  BY PayStep
<1>2. PayInv => NoTransactionLost
  BY DEF PayInv
<1> QED BY <1>1, <1>2, PayInit0, PTL DEF PaySpec
-----------------------------------------------------------------------------
(* One worker at a time, unless something overlaps *)

Alone ==
    "overlap" \notin upset => \A w, v \in Workers : At(w, "idle") \/ At(v, "idle") \/ w = v

\* Without a timeout and a crash every transaction has a caller who waits for it.
Awaited == upset \cap {"late", "crash"} = {} => \A t \in net : t.by # 0

\* What a worker has after taking up an operation.
LEMMA CallFields ==
    ASSUME HandlersOK, NEW w \in Workers, NEW op, NEW r \in Request, NEW what,
           Call(w, op, r, what)
    PROVE  /\ At(w, "idle") /\ \A v \in Workers \ {w} : req'[v] = req[v]
           /\ req'[w] = [r EXCEPT !.op = op]
           /\ req'[w].pc = r.pc /\ req'[w].e = r.e /\ req'[w].op = op
           /\ req'[w].todo = r.todo /\ req'[w].found = r.found
           /\ upset \subseteq upset' /\ what \subseteq upset'
           /\ (Busy(w) => "overlap" \in upset')
           /\ UNCHANGED <<eng, split, due, chain, events, net, report>>
<1>1. Become(w, [r EXCEPT !.op = op]) /\ At(w, "idle")
      /\ upset' = upset \cup what \cup (IF Busy(w) THEN {"overlap"} ELSE {})
      /\ UNCHANGED <<eng, split, due, chain, events, net, report>>
  BY DEF Call, Begin, rows, ledger
<1>2. req'[w] = [r EXCEPT !.op = op] /\ \A v \in Workers \ {w} : req'[v] = req[v]
  BY <1>1, BecomeFields
<1>3. req'[w].pc = r.pc /\ req'[w].e = r.e /\ req'[w].op = op
      /\ req'[w].todo = r.todo /\ req'[w].found = r.found
  BY <1>2 DEF Request
<1> QED BY <1>1, <1>2, <1>3

\* Taking up an operation leaves the contract alone, and an overlap is noted.
LEMMA Began ==
    ASSUME Base, NEW w \in Workers, Take(w)
    PROVE  /\ At(w, "idle") /\ \A v \in Workers \ {w} : req'[v] = req[v]
           /\ upset \subseteq upset' /\ (Busy(w) => "overlap" \in upset')
           /\ UNCHANGED <<chain, events, net>>
<1>1. HandlersOK /\ LedgerOK
  BY DEF Base
<1>2. CASE HandleEvent(w)
  <2>1. PICK r : Become(w, r)
    BY <1>1, <1>2, EventBegins
  <2>2. \A v \in Workers \ {w} : req'[v] = req[v]
    BY <1>1, <2>1, BecomeFields
  <2> QED BY <1>2, <2>2 DEF HandleEvent, Begin, ledger
<1>3. ASSUME NEW op \in Operations, NEW r \in Request, NEW what, Calls(w, op, r, what)
      PROVE  /\ At(w, "idle") /\ \A v \in Workers \ {w} : req'[v] = req[v]
             /\ upset \subseteq upset' /\ (Busy(w) => "overlap" \in upset')
             /\ UNCHANGED <<chain, events, net>>
  BY <1>1, <1>3, CallFields DEF Calls
<1> QED BY <1>2, <1>3, TakeCalls

\* A step of a handler leaves the contract alone and sends at most its own transaction.
LEMMA Stepped ==
    ASSUME Base, NEW w \in Workers, Step(w)
    PROVE  /\ ~At(w, "idle") /\ \A v \in Workers \ {w} : req'[v] = req[v]
           /\ upset \subseteq upset' /\ chain' = chain
           /\ \A t \in net' : t \in net \/ t.by = w
<1>1. HandlersOK
  BY DEF Base
<1>2. /\ \/ Done(w) \/ (\E pc : Goto(w, pc)) \/ (\E r : Become(w, r))
      /\ ~At(w, "idle") /\ upset \subseteq upset' /\ chain' = chain
      /\ \A t \in net' : t \in net \/ t.by = w
  <2> USE DEF At, ledger
  <2>1. CASE PrepareEngagement(w)
    BY <2>1 DEF PrepareEngagement
  <2>2. CASE InsertEngagement(w)
    BY <2>2 DEF InsertEngagement
  <2>3. CASE Submit(w)
    BY <2>3 DEF Submit
  <2>4. CASE Activate(w)
    BY <2>4 DEF Activate
  <2>5. CASE SetCancelled(w)
    BY <2>5 DEF SetCancelled
  <2>6. CASE WriteStatus(w)
    BY <2>6 DEF WriteStatus
  <2>7. CASE WriteArchived(w)
    BY <2>7 DEF WriteArchived
  <2>8. CASE AppendMilestones(w)
    BY <2>8 DEF AppendMilestones
  <2>9. CASE RewritePercents(w)
    BY <2>9 DEF RewritePercents
  <2>10. CASE WriteDueDate(w)
    BY <2>10 DEF WriteDueDate
  <2>11. CASE Remind(w)
    BY <2>11 DEF Remind
  <2>12. CASE MarkReminded(w)
    BY <2>12 DEF MarkReminded
  <2>13. CASE SyncFromChain(w)
    BY <2>13 DEF SyncFromChain
  <2>14. CASE SyncRow(w)
    BY <2>14 DEF SyncRow
  <2>15. CASE SyncWrite(w)
    BY <2>15 DEF SyncWrite
  <2>16. CASE Acknowledge(w)
    BY <2>16 DEF Acknowledge
  <2>17. CASE CheckEngagement(w)
    BY <2>17 DEF CheckEngagement
  <2> QED BY <2>1, <2>2, <2>3, <2>4, <2>5, <2>6, <2>7, <2>8, <2>9, <2>10, <2>11, <2>12, <2>13,
             <2>14, <2>15, <2>16, <2>17 DEF Step
<1>3. \E r : Become(w, r)
  BY <1>2 DEF Done, Goto
<1> QED BY <1>1, <1>2, <1>3, BecomeFields
\* The steps of the network, of the contract and of time leave idle workers idle.
LEMMA Elsewhere ==
    ASSUME Base,
           \/ \E w \in Workers : Crash(w)
           \/ \E t \in net : Land(t) \/ GiveUp(t)
           \/ \E e \in Ids : ReleaseOnChain(e) \/ ReplaceOnChain(e)
           \/ \E t \in scope.times : Later(t)
           \/ UNCHANGED vars \/ Apart
    PROVE  /\ \A v \in Workers : req'[v] # req[v] => ~At(v, "idle")
           /\ upset \subseteq upset'
<1>1. HandlersOK /\ LedgerOK
  BY DEF Base
<1>2. ASSUME NEW w \in Workers, Crash(w)
      PROVE  (\A v \in Workers : req'[v] # req[v] => ~At(v, "idle")) /\ upset \subseteq upset'
  BY <1>1, <1>2, DoneFields DEF Crash
<1>3. ASSUME NEW t \in net, Land(t) \/ GiveUp(t)
      PROVE  (\A v \in Workers : req'[v] # req[v] => ~At(v, "idle")) /\ upset \subseteq upset'
  <2>1. upset \subseteq upset'
    BY <1>3 DEF Land, GiveUp
  <2>2. CASE req' = req
    BY <2>1, <2>2
  <2>3. CASE t.by # 0 /\ (Done(t.by) \/ \E pc : Goto(t.by, pc))
    <3>1. t.by \in Workers /\ req[t.by].pc = "wait"
      BY <1>1, <2>3 DEF LedgerOK, HandlersOK, Tx, TxOK
    <3>2. \A v \in Workers \ {t.by} : req'[v] = req[v]
      BY <1>1, <2>3, <3>1, DoneFields, GotoFields
    <3> QED BY <2>1, <3>1, <3>2 DEF At
  <2> QED BY <1>3, <2>2, <2>3 DEF Land, GiveUp
<1>4. ASSUME NEW e \in Ids, ReleaseOnChain(e) \/ ReplaceOnChain(e)
      PROVE  req' = req /\ upset \subseteq upset'
  BY <1>4 DEF ReleaseOnChain, ReplaceOnChain
<1>5. ASSUME NEW t, Later(t) PROVE req' = req /\ upset' = upset
  BY <1>5 DEF Later
<1>6. UNCHANGED vars \/ Apart => req' = req /\ upset' = upset
  BY DEF vars, Apart
<1> QED BY <1>2, <1>3, <1>4, <1>5, <1>6

\* Two handlers at once are an overlap for good.
LEMMA AloneStep ==
    ASSUME Base, Alone, [Next]_vars \/ Apart
    PROVE  Alone'
<1>1. ASSUME upset \subseteq upset', \A v \in Workers : req'[v] # req[v] => ~At(v, "idle")
      PROVE  Alone'
  BY <1>1 DEF Alone, At
<1>2. ASSUME NEW w \in Workers, Step(w) PROVE Alone'
  BY <1>1, <1>2, Stepped
<1>3. ASSUME NEW w \in Workers, Take(w) PROVE Alone'
  <2>1. /\ At(w, "idle") /\ \A v \in Workers \ {w} : req'[v] = req[v]
        /\ (Busy(w) => "overlap" \in upset')
    BY <1>3, Began
  <2>2. CASE Busy(w)
    BY <2>1, <2>2 DEF Alone
  <2>3. CASE ~Busy(w)
    BY <2>1, <2>3 DEF Alone, Busy, At
  <2> QED BY <2>2, <2>3
<1> QED BY <1>1, <1>2, <1>3, Elsewhere DEF Next

\* Without a crash or a late landing, every transaction under way has a sender.
LEMMA AwaitedStep ==
    ASSUME Base, Awaited, [Next]_vars \/ Apart
    PROVE  Awaited'
<1>1. ASSUME upset \subseteq upset', \A t \in net' : t \in net \/ t.by # 0 PROVE Awaited'
  BY <1>1 DEF Awaited
<1>2. ASSUME NEW w \in Workers, Step(w) PROVE Awaited'
  BY <1>1, <1>2, Stepped, EngagementsAssumption
<1>3. ASSUME NEW w \in Workers, Take(w) PROVE Awaited'
  BY <1>1, <1>3, Began
<1>4. ASSUME NEW w \in Workers, Crash(w) PROVE Awaited'
  BY <1>4 DEF Crash, Awaited
<1>5. ASSUME NEW t \in net, Land(t) \/ GiveUp(t) PROVE Awaited'
  <2>1. CASE GiveUp(t)
    BY <2>1 DEF GiveUp, Awaited
  <2>2. CASE Land(t)
    BY <1>1, <2>2 DEF Land
  <2> QED BY <1>5, <2>1, <2>2
<1>6. ASSUME NEW e \in Ids, ReleaseOnChain(e) \/ ReplaceOnChain(e) PROVE Awaited'
  BY <1>1, <1>6 DEF ReleaseOnChain, ReplaceOnChain
<1>7. ASSUME NEW t, Later(t) PROVE Awaited'
  BY <1>1, <1>7 DEF Later, ledger
<1>8. UNCHANGED vars \/ Apart => Awaited'
  BY <1>1 DEF vars, ledger, Apart
<1> QED BY <1>2, <1>3, <1>4, <1>5, <1>6, <1>7, <1>8 DEF Next

-----------------------------------------------------------------------------
(* Reconciliation *)

Calm == upset \cap {"overlap", "late", "crash"} = {}
Agrees(e) == eng[e].status = StatusMap(chain[e].st) /\ eng[e].released = chain[e].released
Left(q) == {i.e : i \in q.todo}

\* The rows still to check are as they were read, and those that were checked agree
\* or are found.
CheckOK(q) ==
    q.pc = "check" =>
        /\ \A i \in q.todo : i.row = eng[i.e]
        /\ \A e \in Ids \ Left(q) :
             eng[e].status \in Live /\ eng[e].tx /\ e \notin q.found => Agrees(e)
Checks == Calm => \A w \in Workers : CheckOK(req[w])

\* The report passes on to its next row.
LEMMA CheckStep ==
    ASSUME Base, NEW w \in Workers, CheckEngagement(w), CheckOK(req[w])
    PROVE  CheckOK(req[w])'
<1> DEFINE q == req[w]
<1>1. /\ q \in Request /\ q.pc = "check" /\ HandlersOK /\ UNCHANGED <<eng, chain>>
      /\ \A i \in q.todo : i.row = eng[i.e] /\ i.e \in Ids
  BY DEF CheckEngagement, At, Base, HandlersOK, CheckOK, rows, ledger, Request, Item
<1>2. CASE Done(w)
  BY <1>1, <1>2, DoneFields DEF CheckOK
<1>3. ASSUME NEW i \in q.todo, Drifts(i.row, chain[i.e]) \/ Fault("rpc"),
             Become(w, [q EXCEPT !.todo = @ \ {i}, !.found = @ \cup {i.e}])
      PROVE  CheckOK(req[w])'
  <2> DEFINE r == [q EXCEPT !.todo = @ \ {i}, !.found = @ \cup {i.e}]
  <2>1. req'[w] = r
    BY <1>1, <1>3, BecomeFields
  <2>2. r.todo = q.todo \ {i} /\ r.found = q.found \cup {i.e}
    BY <1>1 DEF Request
  <2> HIDE DEF r, q
  <2>3. \A e \in Ids \ Left(r) : e \notin r.found => e \in Ids \ Left(q) /\ e \notin q.found
    BY <2>2 DEF Left
  <2> QED BY <1>1, <2>1, <2>2, <2>3 DEF CheckOK, Agrees, Left, q
<1>4. ASSUME NEW i \in q.todo, ~Drifts(i.row, chain[i.e]),
             Become(w, [q EXCEPT !.todo = @ \ {i}])
      PROVE  CheckOK(req[w])'
  <2> DEFINE r == [q EXCEPT !.todo = @ \ {i}]
  <2>1. req'[w] = r
    BY <1>1, <1>4, BecomeFields
  <2>2. r.todo = q.todo \ {i} /\ r.found = q.found
    BY <1>1 DEF Request
  <2>3. Agrees(i.e)
    BY <1>1, <1>4 DEF Drifts, Agrees
  <2> HIDE DEF r, q
  <2>4. \A e \in Ids \ Left(r) : e \in Ids \ Left(q) \/ e = i.e
    BY <2>2 DEF Left
  <2> QED BY <1>1, <2>1, <2>2, <2>3, <2>4 DEF CheckOK, Agrees, Left, q
<1> QED BY <1>2, <1>3, <1>4 DEF CheckEngagement
\* No request but a reconciliation gets to the check.
LEMMA StepsToCheck ==
    ASSUME Base, NEW w \in Workers, Step(w), req'[w].pc = "check"
    PROVE  CheckEngagement(w)
<1>1. HandlersOK
  BY DEF Base
<1>2. ASSUME Done(w) PROVE FALSE
  BY <1>1, <1>2, DoneFields
<1>3. ASSUME NEW pc \in {"insert", "wait", "activate", "setCancelled", "remindBatch", "ack",
                         "syncWrite"}, Goto(w, pc)
      PROVE  FALSE
  BY <1>1, <1>3, GotoFields
<1>4. CASE Remind(w)
  <2>1. PICK i : Become(w, [req[w] EXCEPT !.pc = "remind", !.e = i.e, !.todo = @ \ {i}])
    BY <1>2, <1>4 DEF Remind
  <2>2. [req[w] EXCEPT !.pc = "remind", !.e = i.e, !.todo = @ \ {i}].pc = "remind"
    BY <1>1 DEF HandlersOK, Request
  <2> QED BY <1>1, <2>1, <2>2, BecomeFields
<1>5. CASE SyncFromChain(w)
  <2>1. Become(w, [req[w] EXCEPT !.pc = "syncRow", !.view = chain[req[w].e]])
    BY <1>3, <1>5 DEF SyncFromChain
  <2>2. [req[w] EXCEPT !.pc = "syncRow", !.view = chain[req[w].e]].pc = "syncRow"
    BY <1>1 DEF HandlersOK, Request
  <2> QED BY <1>1, <2>1, <2>2, BecomeFields
<1> QED BY <1>2, <1>3, <1>4, <1>5 DEF Step, PrepareEngagement, InsertEngagement, Submit,
       Activate, SetCancelled, WriteStatus, WriteArchived, AppendMilestones, RewritePercents,
       WriteDueDate, MarkReminded, SyncRow, SyncWrite, Acknowledge

\* While a report runs alone, no other step changes what it has read.
LEMMA ChecksStep ==
    ASSUME Base, Alone, Awaited, Checks, [Next]_vars \/ Apart
    PROVE  Checks'
<1>1. HandlersOK /\ LedgerOK /\ RowsOK
  BY DEF Base
<1>2. SUFFICES ASSUME Calm', NEW w \in Workers, req'[w].pc = "check" PROVE CheckOK(req[w])'
  BY DEF Checks, CheckOK
<1>3. ASSUME UNCHANGED <<eng, chain, upset>>, req'[w] = req[w] PROVE CheckOK(req[w])'
  BY <1>2, <1>3 DEF Checks, CheckOK, Calm, Agrees
<1>4. ASSUME NEW v \in Workers, Take(v) PROVE CheckOK(req[w])'
  <2>1. At(v, "idle") /\ \A u \in Workers \ {v} : req'[u] = req[u]
        /\ (Busy(v) => "overlap" \in upset')
    BY <1>4, Began
  <2>2. v = w
    BY <1>2, <2>1 DEF Busy, At, Calm
  <2>3. CASE HandleEvent(v)
    <3>1. PICK r \in Request : Become(v, r) /\ r.pc \in {"syncChain", "ack"}
      BY <1>1, <2>3, EventBegins
    <3> QED BY <1>1, <1>2, <2>2, <3>1, BecomeFields
  <2>4. ASSUME NEW op \in Operations, NEW r \in Request, NEW what, Calls(v, op, r, what)
        PROVE  CheckOK(req[w])'
    <3>1. req'[w].pc = r.pc /\ req'[w].todo = r.todo /\ UNCHANGED <<eng, chain>>
      <4>1. Call(w, op, r, what)
        BY <2>2, <2>4 DEF Calls
      <4>2. req'[w] = [r EXCEPT !.op = op]
        BY <1>1, <4>1, BecomeFields DEF Call, Begin
      <4>3. [r EXCEPT !.op = op].pc = r.pc /\ [r EXCEPT !.op = op].todo = r.todo
        BY DEF Request
      <4> QED BY <4>1, <4>2, <4>3 DEF Call, rows, ledger
    <3>2. r.todo = {Read(e) : e \in {i \in Ids : eng[i].status \in Live /\ eng[i].tx}}
      BY <1>2, <2>4, <3>1 DEF Calls, Starts
    <3>3. \A e \in Ids : Read(e).e = e /\ Read(e).row = eng[e]
      BY DEF Read
    <3>4. \A i \in r.todo : i.row = eng[i.e]
      BY <3>2, <3>3
    <3>5. \A e \in Ids : eng[e].status \in Live /\ eng[e].tx => \E i \in r.todo : i.e = e
      BY <3>2, <3>3
    <3> QED BY <3>1, <3>4, <3>5 DEF CheckOK, Left
  <2> QED BY <1>4, <2>3, <2>4, TakeCalls
<1>5. ASSUME NEW v \in Workers, Step(v) PROVE CheckOK(req[w])'
  <2>1. ~At(v, "idle") /\ (\A u \in Workers \ {v} : req'[u] = req[u]) /\ upset \subseteq upset'
    BY <1>5, Stepped
  <2>2. Calm
    BY <1>2, <2>1 DEF Calm
  <2>3. v = w
    <3>1. CASE v # w
      <4>1. req[w].pc = "check"
        BY <1>2, <2>1, <3>1
      <4> QED BY <2>1, <2>2, <3>1, <4>1 DEF Alone, At, Calm
    <3> QED BY <3>1
  <2>4. CheckEngagement(w)
    BY <1>2, <1>5, <2>3, StepsToCheck
  <2> QED BY <2>2, <2>4, CheckStep DEF Checks
<1>6. ASSUME NEW v \in Workers, Crash(v) PROVE FALSE
  BY <1>2, <1>6 DEF Crash, Calm
<1>7. ASSUME NEW t \in net, Land(t) PROVE FALSE
  <2>1. upset' = upset /\ Calm
    BY <1>2, <1>7 DEF Land, Calm, counters
  <2>2. t.by # 0 /\ t.by \in Workers
    BY <1>1, <2>1 DEF Awaited, Calm, LedgerOK, Tx
  <2>3. req[t.by].pc = "wait" /\ (Done(t.by) \/ Goto(t.by, "activate") \/ Goto(t.by, "setCancelled"))
    BY <1>1, <1>7, <2>2 DEF Land, HandlersOK, TxOK
  <2>4. \A u \in Workers \ {t.by} : req'[u] = req[u]
    BY <1>1, <2>2, <2>3, DoneFields, GotoFields
  <2>5. req'[t.by].pc # "check"
    BY <1>1, <2>2, <2>3, DoneFields, GotoFields
  <2>6. w # t.by /\ req[w].pc = "check"
    BY <1>2, <2>4, <2>5
  <2> QED BY <2>1, <2>2, <2>3, <2>6 DEF Alone, At, Calm
<1>8. ASSUME NEW t \in net, GiveUp(t) PROVE FALSE
  BY <1>2, <1>8 DEF GiveUp, Calm
<1>9. ASSUME NEW e \in Ids, ReleaseOnChain(e) \/ ReplaceOnChain(e) PROVE FALSE
  <2>1. req' = req /\ upset' = upset \cup ContractMove
    BY <1>9 DEF ReleaseOnChain, ReplaceOnChain
  <2> QED BY <1>2, <2>1 DEF ContractMove, At, Calm
<1>10. ASSUME NEW t, Later(t) PROVE CheckOK(req[w])'
  BY <1>3, <1>10 DEF Later, rows, ledger
<1>11. CASE UNCHANGED vars \/ Apart
  BY <1>3, <1>11 DEF vars, Apart, rows, ledger
<1> QED BY <1>4, <1>5, <1>6, <1>7, <1>8, <1>9, <1>10, <1>11 DEF Next

\* At its end the report has found every live row that differs.
LEMMA MissesNothing == Checks => ReportMissesNothing
BY DEF Checks, Calm, CheckOK, Left, Agrees, ReportMissesNothing, At

\* At the start nothing is under way.
LEMMA IdleInit ==
    ASSUME Init
    PROVE  (\A w \in Workers : req[w].pc = "idle") /\ net = {} /\ events = <<>> /\ upset = {}
BY DEF Init, Idle

\* RunReconciliation compares the contract with the rows it read at its start: run
\* alone, with every transaction answered, it leaves no funded engagement out whose
\* status or payments differ from the contract's.
THEOREM ReportComplete == PaySpec => []ReportMissesNothing
<1>1. PayInit => Alone /\ Awaited /\ Checks
  BY IdleInit DEF PayInit, Alone, Awaited, Checks, CheckOK, At
<1>2. Base /\ Alone /\ Awaited /\ Checks /\ [PayNext]_<<vars, payVars>>
        => (Alone /\ Awaited /\ Checks)'
  <2> SUFFICES ASSUME Base, Alone, Awaited, Checks, [PayNext]_<<vars, payVars>>
               PROVE  Alone' /\ Awaited' /\ Checks'
    OBVIOUS
  <2> QED BY PayMoves, AloneStep, AwaitedStep, ChecksStep
<1> QED BY <1>1, <1>2, PayBase, MissesNothing, PTL DEF PaySpec
-----------------------------------------------------------------------------
(* Rows and contracts *)

SyncKinds == {"engagement_created", "milestone_confirmed"}

\* The events whose handler writes the status by itself.
Writers == {"engagement_cancelled", "replacement_requested"}

\* The handler of an event of this kind brings the row to this status; an engagement
\* completed with a replacement requested stays so in its row.
Fixes(kind, st) ==
    \/ kind = "engagement_cancelled" /\ st = "Cancelled"
    \/ kind = "replacement_requested" /\ st \in {"ReplacementRequested", "Completed"}

\* Of the events of an engagement, the last one that writes the row fixes it.
LastFixes ==
    \A i \in DOMAIN events :
        /\ chain[events[i].e].st # "None"
        /\ /\ events[i].kind \in Writers
           /\ \A j \in DOMAIN events :
                j > i /\ events[j].e = events[i].e => events[j].kind \notin Writers
           => Fixes(events[i].kind, chain[events[i].e].st)

\* An event that writes a row and has not done so yet.
Waiting(i) == /\ events[i].kind \in Writers
              /\ i = 1 => \A w \in Workers : ~At(w, "ack")

HandOK(w) ==
    /\ At(w, "syncChain") \/ At(w, "syncRow") => req[w].op \in SyncKinds
    /\ At(w, "activate") => chain[req[w].e].st = "Active"
    /\ At(w, "setCancelled") => chain[req[w].e].st \in {"None", "Cancelled"}
    /\ ~At(w, "setStatus") /\ ~At(w, "syncWrite")

\* What a row says of the status of its contract.
Says(status, st) == IF st = "Completed" THEN status \in Live ELSE status = StatusMap(st)

\* A row is funded exactly when the contract knows it, but while the acceptance is
\* being written, and it says what the contract says or an event that will correct it
\* is waiting.
RowOK(e) ==
    /\ eng[e].tx => eng[e].status \notin {"NONE", "PENDING_ACCEPTANCE"} /\ chain[e].st # "None"
    /\ chain[e].st # "None" => eng[e].tx \/ \E w \in Workers : At(w, "activate") /\ req[w].e = e
    /\ eng[e].tx => \/ Says(eng[e].status, chain[e].st)
                    \/ \E i \in DOMAIN events : events[i].e = e /\ Waiting(i)

Agreement == upset = {} => (\A w \in Workers : HandOK(w)) /\ \A e \in Ids : RowOK(e)

\* A new event is the last of its engagement, and its handler brings the row up to date.
LEMMA EmitFixes ==
    ASSUME LedgerOK, LastFixes, NEW e \in Ids, NEW kind, Emit(kind, e), chain'[e].st # "None",
           \A o \in Ids : o # e => chain'[o] = chain[o],
           \/ kind \in Writers /\ Fixes(kind, chain'[e].st)
           \/ /\ kind \notin Writers
              /\ \A k \in Writers : Fixes(k, chain[e].st) => Fixes(k, chain'[e].st)
    PROVE  LastFixes'
<1> DEFINE x == [kind |-> kind, e |-> e]
<1>1. events' = Append(events, x) /\ events \in Seq(EventType) /\ x.e = e /\ x.kind = kind
  BY DEF Emit, LedgerOK
<1> HIDE DEF x
<1>2. /\ Len(events) \in Nat /\ Len(events') = Len(events) + 1
      /\ DOMAIN events = 1..Len(events) /\ DOMAIN events' = 1..(Len(events) + 1)
      /\ events'[Len(events) + 1] = x
      /\ \A i \in DOMAIN events : events'[i] = events[i] /\ events[i].e \in Ids
  <2>1. ASSUME NEW i \in DOMAIN events PROVE events[i].e \in Ids
    <3>1. events[i] \in EventType
      BY <1>1
    <3> QED BY <3>1 DEF EventType
  <2> QED BY <1>1, <2>1
<1> SUFFICES ASSUME NEW i \in DOMAIN events'
             PROVE  /\ chain'[events'[i].e].st # "None"
                    /\ /\ events'[i].kind \in Writers
                       /\ \A j \in DOMAIN events' :
                            j > i /\ events'[j].e = events'[i].e => events'[j].kind \notin Writers
                       => Fixes(events'[i].kind, chain'[events'[i].e].st)
  BY DEF LastFixes
<1>3. CASE i = Len(events) + 1
  BY <1>1, <1>2, <1>3
<1>4. CASE i \in DOMAIN events /\ events[i].e = e
  <2>1. Len(events) + 1 > i /\ Len(events) + 1 \in DOMAIN events'
    BY <1>2, <1>4
  <2>2. CASE kind \in Writers
    BY <1>1, <1>2, <1>4, <2>1, <2>2
  <2>3. CASE kind \notin Writers
    <3>1. \A j \in DOMAIN events : j \in DOMAIN events' /\ events'[j] = events[j]
      BY <1>2
    <3> QED BY <1>2, <1>4, <2>3, <3>1 DEF LastFixes
  <2> QED BY <2>2, <2>3
<1>5. CASE i \in DOMAIN events /\ events[i].e # e
  <2>1. \A j \in DOMAIN events : j \in DOMAIN events' /\ events'[j] = events[j]
    BY <1>2
  <2>2. events'[i] = events[i] /\ chain'[events[i].e] = chain[events[i].e]
    BY <1>2, <1>5
  <2> QED BY <1>5, <2>1, <2>2 DEF LastFixes
<1>6. i = Len(events) + 1 \/ i \in DOMAIN events
  BY <1>2
<1> QED BY <1>3, <1>4, <1>5, <1>6

\* Handling the first event leaves the last one of each engagement, if it is another.
LEMMA TailFixes ==
    ASSUME LedgerOK, LastFixes, events # <<>>, events' = Tail(events), chain' = chain
    PROVE  LastFixes'
<1>1. /\ Len(events) \in Nat /\ DOMAIN events = 1..Len(events)
      /\ DOMAIN events' = 1..(Len(events) - 1)
      /\ \A i \in DOMAIN events' : events'[i] = events[i + 1]
  BY DEF LedgerOK
<1> SUFFICES ASSUME NEW i \in DOMAIN events'
             PROVE  /\ chain[events'[i].e].st # "None"
                    /\ /\ events'[i].kind \in Writers
                       /\ \A j \in DOMAIN events' :
                            j > i /\ events'[j].e = events'[i].e => events'[j].kind \notin Writers
                       => Fixes(events'[i].kind, chain[events'[i].e].st)
  BY DEF LastFixes
<1>2. i + 1 \in DOMAIN events /\ events'[i] = events[i + 1]
  BY <1>1
<1>3. ASSUME \A j \in DOMAIN events' :
                j > i /\ events'[j].e = events'[i].e => events'[j].kind \notin Writers,
             NEW k \in DOMAIN events, k > i + 1, events[k].e = events[i + 1].e
      PROVE  events[k].kind \notin Writers
  <2>1. k - 1 \in DOMAIN events' /\ k - 1 > i /\ (k - 1) + 1 = k
    BY <1>1, <1>2, <1>3
  <2> QED BY <1>1, <1>2, <1>3, <2>1
<1> QED BY <1>2, <1>3 DEF LastFixes
\* A handler changes the events only by acknowledging the first.
LEMMA StepEvents ==
    ASSUME Base, NEW w \in Workers, Step(w)
    PROVE  \/ events' = events
           \/ At(w, "ack") /\ Acknowledge(w) /\ events # <<>> /\ events' = Tail(events)
<1>1. CASE Acknowledge(w)
  BY <1>1 DEF Acknowledge, Base, HandlersOK, LocalOK, SyncLabels, EventsOK, Handling, At
<1>2. CASE ~Acknowledge(w)
  BY <1>2 DEF Step, PrepareEngagement, InsertEngagement, Submit, Activate, SetCancelled,
       WriteStatus, WriteArchived, AppendMilestones, RewritePercents, WriteDueDate, Remind,
       MarkReminded, SyncFromChain, SyncRow, SyncWrite, CheckEngagement, ledger
<1> QED BY <1>1, <1>2

\* What the inclusion of a transaction, and what a payment of the contract, do to it.
Lands(t) ==
    \/ UNCHANGED <<chain, events>>
    \/ /\ t.call = "create" /\ chain[t.e].st = "None"
       /\ chain' = [chain EXCEPT ![t.e].st = "Active"] /\ Emit("engagement_created", t.e)
       /\ t.by # 0 => Goto(t.by, "activate")
    \/ /\ t.call = "cancel" /\ chain[t.e].st \in Running
       /\ chain' = [chain EXCEPT ![t.e].st = "Cancelled"] /\ Emit("engagement_cancelled", t.e)
       /\ t.by # 0 => Goto(t.by, "setCancelled")

\* A transaction that lands creates or cancels its engagement, or does nothing.
LEMMA LandMoves ==
    ASSUME Base, NEW t \in net, Land(t)
    PROVE  Lands(t) /\ t.e \in Ids
<1>1. t \in Tx
  BY DEF Base, LedgerOK
<1>2. t.e \in Ids /\ t.call \in {"create", "cancel"}
  BY <1>1 DEF Tx
<1> QED BY <1>2 DEF Land, Lands, Accepts

Pays(e) ==
    /\ chain[e].st \in Running
    /\ \/ \E c \in Contract : /\ chain' = [chain EXCEPT ![e] = c]
                              /\ c.st \in {chain[e].st, "Completed"}
                              /\ Emit("milestone_confirmed", e)
       \/ chain' = [chain EXCEPT ![e].st = "ReplacementRequested"]
          /\ Emit("replacement_requested", e)

\* What milestones do on chain pays or replaces in one engagement.
LEMMA ReleaseMoves ==
    ASSUME Base, NEW e \in Ids, ReleaseOnChain(e) \/ ReplaceOnChain(e)
    PROVE  Pays(e)
<1>1. CASE ReplaceOnChain(e)
  BY <1>1 DEF ReplaceOnChain, Pays, Running
<1>2. CASE ReleaseOnChain(e)
  <2>1. chain[e] \in Contract /\ chain \in [Ids -> Contract]
    BY DEF Base, LedgerOK
  <2>2. PICK c : c = [st |-> IF chain[e].released + 1 = Total THEN "Completed" ELSE chain[e].st,
                      released |-> chain[e].released + 1]
    OBVIOUS
  <2>3. c \in Contract
    BY <2>1, <2>2 DEF Contract, OnChain
  <2>4. chain[e].st \in Running /\ chain' = [chain EXCEPT ![e] = c] /\ Emit("milestone_confirmed", e)
    BY <1>2, <2>2 DEF ReleaseOnChain
  <2>5. c.st \in {chain[e].st, "Completed"}
    BY <2>2
  <2> QED BY <2>3, <2>4, <2>5 DEF Pays
<1> QED BY <1>1, <1>2

\* Every step keeps that the last unhandled event fixes its row.
LEMMA FixesStep ==
    ASSUME Base, LastFixes, [Next]_vars \/ Apart
    PROVE  LastFixes'
<1>1. LedgerOK /\ chain \in [Ids -> Contract]
  BY DEF Base, LedgerOK
<1>2. ASSUME UNCHANGED <<chain, events>> PROVE LastFixes'
  BY <1>2 DEF LastFixes
<1>3. ASSUME NEW w \in Workers, Take(w) PROVE LastFixes'
  BY <1>2, <1>3, Began
<1>4. ASSUME NEW w \in Workers, Step(w) PROVE LastFixes'
  BY <1>1, <1>2, <1>4, StepEvents, Stepped, TailFixes
<1>5. ASSUME NEW w \in Workers, Crash(w) PROVE LastFixes'
  BY <1>2, <1>5 DEF Crash
<1>6. ASSUME NEW t \in net, Land(t) PROVE LastFixes'
  <2>1. Lands(t) /\ t.e \in Ids
    BY <1>6, LandMoves
  <2>2. ASSUME NEW st \in {"Active", "Cancelled"}, chain' = [chain EXCEPT ![t.e].st = st]
        PROVE  chain'[t.e].st = st /\ \A o \in Ids : o # t.e => chain'[o] = chain[o]
    BY <1>1, <2>1, <2>2 DEF Contract
  <2>3. CASE UNCHANGED <<chain, events>>
    BY <1>2, <2>3
  <2>4. CASE /\ chain' = [chain EXCEPT ![t.e].st = "Active"] /\ Emit("engagement_created", t.e)
             /\ chain[t.e].st = "None"
    BY <1>1, <2>1, <2>2, <2>4, EmitFixes DEF Fixes, Writers
  <2>5. CASE chain' = [chain EXCEPT ![t.e].st = "Cancelled"] /\ Emit("engagement_cancelled", t.e)
    BY <1>1, <2>1, <2>2, <2>5, EmitFixes DEF Fixes, Writers
  <2> QED BY <2>1, <2>3, <2>4, <2>5 DEF Lands
<1>7. ASSUME NEW t \in net, GiveUp(t) PROVE LastFixes'
  BY <1>2, <1>7 DEF GiveUp
<1>8. ASSUME NEW e \in Ids, ReleaseOnChain(e) \/ ReplaceOnChain(e) PROVE LastFixes'
  <2>1. Pays(e)
    BY <1>8, ReleaseMoves
  <2>2. CASE chain' = [chain EXCEPT ![e].st = "ReplacementRequested"]
             /\ Emit("replacement_requested", e)
    <3>1. chain'[e].st = "ReplacementRequested" /\ \A o \in Ids : o # e => chain'[o] = chain[o]
      BY <1>1, <2>2 DEF Contract
    <3> QED BY <1>1, <2>2, <3>1, EmitFixes DEF Fixes, Writers
  <2>3. ASSUME NEW c \in Contract, chain' = [chain EXCEPT ![e] = c],
               c.st \in {chain[e].st, "Completed"}, Emit("milestone_confirmed", e)
        PROVE  LastFixes'
    <3>1. chain'[e] = c /\ \A o \in Ids : o # e => chain'[o] = chain[o]
      BY <1>1, <2>3
    <3>2. \A k \in Writers : Fixes(k, chain[e].st) => Fixes(k, c.st)
      BY <2>1, <2>3 DEF Fixes, Pays, Running
    <3>3. c.st # "None"
      BY <2>1, <2>3 DEF Pays, Running
    <3> QED BY <1>1, <2>3, <3>1, <3>2, <3>3, EmitFixes DEF Writers
  <2> QED BY <2>1, <2>2, <2>3 DEF Pays
<1>9. ASSUME NEW t, Later(t) PROVE LastFixes'
  BY <1>2, <1>9 DEF Later, ledger
<1>10. CASE UNCHANGED vars \/ Apart
  BY <1>2, <1>10 DEF vars, Apart, ledger
<1> QED BY <1>3, <1>4, <1>5, <1>6, <1>7, <1>8, <1>9, <1>10 DEF Next
\* The events that are still to write the row of e are carried over.
Carried(e) ==
    \A i \in DOMAIN events : events[i].e = e /\ Waiting(i) =>
        \E k \in DOMAIN events' : events'[k] = events[i] /\ Waiting(k)'

\* A row that neither it, the contract nor its handler changed still agrees.
LEMMA RowKept ==
    ASSUME NEW e \in Ids, RowOK(e), chain'[e] = chain[e], eng'[e].status = eng[e].status,
           eng'[e].tx = eng[e].tx, Carried(e),
           \A w \in Workers : At(w, "activate") /\ req[w].e = e => req'[w] = req[w]
    PROVE  RowOK(e)'
<1>1. eng[e].tx => \/ Says(eng[e].status, chain[e].st)
                   \/ \E i \in DOMAIN events' : events'[i].e = e /\ Waiting(i)'
  BY DEF RowOK, Carried
<1>2. chain[e].st # "None" => eng[e].tx \/ \E w \in Workers : At(w, "activate")' /\ req'[w].e = e
  BY DEF RowOK, At
<1> QED BY <1>1, <1>2 DEF RowOK

\* What is known of a worker who is the only one.
Solo(v) ==
    /\ \A u \in Workers \ {v} : At(u, "idle") /\ req'[u] = req[u]
    /\ upset = {} /\ upset' = {}

\* An idle worker is about to write nothing.
LEMMA IdleHand ==
    ASSUME NEW u \in Workers, At(u, "idle")
    PROVE  HandOK(u)
BY DEF HandOK, At

\* A worker alone with sound locals and rows that agree keep the agreement.
LEMMA SoloStep ==
    ASSUME NEW v \in Workers, Solo(v), HandOK(v)', \A e \in Ids : RowOK(e)'
    PROVE  Agreement'
<1>1. ASSUME NEW u \in Workers PROVE HandOK(u)'
  <2>1. CASE u # v
    BY <2>1 DEF Solo, HandOK, At
  <2> QED BY <2>1
<1> QED BY <1>1 DEF Agreement

\* Nothing is acknowledged, and nobody is about to do it afterwards.
LEMMA CarriedAll ==
    ASSUME NEW v \in Workers, Solo(v), events' = events, req'[v].pc # "ack", NEW e \in Ids
    PROVE  Carried(e)
BY DEF Solo, Carried, Waiting, At

\* An event appended leaves those that carry a row waiting.
LEMMA CarriedMore ==
    ASSUME LedgerOK, NEW v \in Workers, Solo(v), NEW x \in EventType, events' = Append(events, x),
           req'[v].pc # "ack", NEW e \in Ids
    PROVE  /\ Carried(e)
           /\ Len(events) + 1 \in DOMAIN events' /\ events'[Len(events) + 1] = x
           /\ \A i : events'[i].kind \in Writers => Waiting(i)'
<1>1. \A i : events'[i].kind \in Writers => Waiting(i)'
  BY DEF Solo, Waiting, At
<1>2. events \in Seq(EventType) /\ Len(events) \in Nat
  BY DEF LedgerOK
<1>3. /\ \A i \in DOMAIN events : i \in DOMAIN events' /\ events'[i] = events[i]
      /\ Len(events) + 1 \in DOMAIN events' /\ events'[Len(events) + 1] = x
  BY <1>2
<1> QED BY <1>1, <1>3 DEF Carried, Waiting

\* A worker that writes no status, no payment and no transaction hash.
LEMMA SoloKeeps ==
    ASSUME Agreement, NEW v \in Workers, Solo(v), HandOK(v)', chain' = chain, events' = events,
           \A e \in Ids : eng'[e].status = eng[e].status /\ eng'[e].tx = eng[e].tx,
           ~At(v, "activate"), req'[v].pc # "ack"
    PROVE  Agreement'
<1>1. ASSUME NEW e \in Ids PROVE RowOK(e)'
  <2>1. RowOK(e) /\ Carried(e)
    BY CarriedAll DEF Agreement, Solo
  <2>2. \A w \in Workers : ~At(w, "activate")
    BY DEF Solo, At
  <2> QED BY <2>1, <2>2, RowKept
<1> QED BY <1>1, SoloStep

\* With no irregularity, a busy worker is the only one.
LEMMA SoloOf ==
    ASSUME Alone, NEW v \in Workers, ~At(v, "idle"), upset' = {}, upset \subseteq upset',
           \A u \in Workers \ {v} : req'[u] = req[u]
    PROVE  Solo(v)
BY DEF Alone, Solo
Delicate == {"syncChain", "syncRow", "syncWrite", "activate", "setCancelled", "setStatus"}

\* Away from the delicate points nothing is about to be written.
LEMMA PlainHand ==
    ASSUME NEW v \in Workers, req'[v].pc \notin Delicate
    PROVE  HandOK(v)'
BY DEF HandOK, At, Delicate

\* Taking up an operation keeps the agreement.
LEMMA AgreeTake ==
    ASSUME Base, Alone, LastFixes, Agreement, NEW v \in Workers, Take(v), upset' = {}
    PROVE  Agreement'
<1>1. HandlersOK /\ LedgerOK /\ RowsOK
  BY DEF Base
<1>2. /\ At(v, "idle") /\ \A u \in Workers \ {v} : req'[u] = req[u]
      /\ ~Busy(v) /\ upset = {} /\ UNCHANGED <<chain, events>>
  BY Began
<1>3. Solo(v)
  BY <1>2 DEF Solo, Busy
<1>4. \A w \in Workers : At(w, "idle")
  BY <1>2, <1>3 DEF Solo
<1>5. ASSUME NEW op \in Operations, NEW r \in Request,
             NEW what \in SUBSET {"override", "offchain", "bulk"}, Calls(v, op, r, what)
      PROVE  Agreement'
  <2>1. Call(v, op, r, what) /\ LocalOK(r) /\ Starts(r, what)
    BY <1>5 DEF Calls
  <2>2. req'[v].pc = r.pc /\ req'[v].e = r.e /\ eng' = eng /\ what = {}
    BY <1>1, <2>1, CallFields
  <2>3. r.pc \notin {"ack", "activate", "syncChain", "syncRow", "syncWrite", "setStatus"}
    BY <2>1, <2>2 DEF Starts
  <2>4. HandOK(v)'
    <3>1. CASE r.pc # "setCancelled"
      BY <2>2, <2>3, <3>1, PlainHand DEF Delicate
    <3>2. CASE r.pc = "setCancelled"
      <4>1. eng[r.e].status = "PENDING_ACCEPTANCE" /\ r.e \in Ids
        BY <2>1, <3>2 DEF Starts, LocalOK
      <4>2. chain[r.e].st = "None"
        BY <1>2, <1>4, <4>1 DEF Agreement, RowOK, At
      <4> QED BY <1>2, <2>2, <3>2, <4>2 DEF HandOK, At
    <3> QED BY <3>1, <3>2
  <2> QED BY <1>2, <1>3, <2>2, <2>3, <2>4, SoloKeeps DEF At
<1>6. CASE HandleEvent(v)
  <2>0. PICK e, kind : e = events[1].e /\ kind = events[1].kind
    OBVIOUS
  <2> DEFINE status == EventStatus(kind, eng[e].status)
  <2>1. /\ events # <<>> /\ Head(events) = events[1] /\ events[1] \in EventType
        /\ \E r \in Request : /\ Become(v, r) /\ r.e = e /\ r.op = kind
                              /\ r.pc = IF kind \in SyncKinds THEN "syncChain" ELSE "ack"
    BY <1>1, <1>6, <2>0, EventBegins DEF SyncKinds
  <2>2. e \in Ids /\ kind \in EventKinds
    BY <2>0, <2>1 DEF EventType
  <2>3. eng' = [eng EXCEPT ![e].status = status]
    BY <1>6, <2>0, <2>1 DEF HandleEvent, SetStatus
  <2>4. /\ req'[v].pc = (IF kind \in SyncKinds THEN "syncChain" ELSE "ack")
        /\ req'[v].op = kind
    BY <1>1, <2>1, BecomeFields
  <2>5. HandOK(v)'
    BY <2>4 DEF HandOK, At
  <2>6. eng \in [Ids -> Row] /\ 1 \in DOMAIN events
    BY <1>1, <2>1 DEF RowsOK, LedgerOK
  <2>7. /\ eng'[e].status = status /\ eng'[e].tx = eng[e].tx
        /\ \A o \in Ids : o # e => eng'[o] = eng[o]
    <3> HIDE DEF status
    <3> QED BY <2>2, <2>3, <2>6 DEF Row
  <2>8. CASE kind \in SyncKinds
    <3>1. status = eng[e].status
      BY <2>8 DEF SyncKinds, EventStatus
    <3>2. \A o \in Ids : eng'[o].status = eng[o].status /\ eng'[o].tx = eng[o].tx
      BY <2>7, <3>1
    <3> QED BY <1>2, <1>3, <2>4, <2>5, <2>8, <3>2, SoloKeeps DEF At
  <2>9. CASE kind \notin SyncKinds
    <3>1. \/ kind = "engagement_cancelled" /\ status = "CANCELLED"
          \/ kind = "replacement_requested" /\ status = "REPLACEMENT_REQUESTED"
      BY <2>2, <2>9 DEF EventKinds, SyncKinds, EventStatus
    <3> HIDE DEF status
    <3>2. \A i : i # 1 /\ events'[i].kind \in Writers => Waiting(i)'
      BY DEF Waiting
    <3>3. ASSUME NEW o \in Ids, o # e PROVE RowOK(o)'
      <4>1. RowOK(o)
        BY <1>2 DEF Agreement
      <4>2. Carried(o)
        BY <1>2, <2>0, <3>2, <3>3 DEF Carried, Waiting
      <4> QED BY <1>2, <1>4, <2>7, <3>3, <4>1, <4>2, RowKept DEF At
    <3>4. RowOK(e)'
      <4>1. RowOK(e) /\ chain[e].st # "None" /\ eng[e].tx
        BY <1>2, <1>4, <2>0, <2>2, <2>6 DEF Agreement, RowOK, LastFixes, At
      <4>2. \/ Says(eng'[e].status, chain'[e].st)
            \/ \E i \in DOMAIN events' : events'[i].e = e /\ Waiting(i)'
        <5>1. CASE \A j \in DOMAIN events : j > 1 /\ events[j].e = e => events[j].kind \notin Writers
          <6>1. Fixes(kind, chain[e].st)
            BY <2>0, <2>6, <3>1, <5>1 DEF LastFixes, Writers
          <6> QED BY <1>2, <2>7, <3>1, <6>1 DEF Fixes, StatusMap, Says, Live
        <5>2. CASE \E j \in DOMAIN events : j > 1 /\ events[j].e = e /\ events[j].kind \in Writers
          BY <1>2, <3>2, <5>2
        <5> QED BY <5>1, <5>2
      <4> QED BY <1>2, <2>7, <3>1, <4>1, <4>2 DEF RowOK
    <3> QED BY <1>3, <2>5, <3>3, <3>4, SoloStep
  <2> QED BY <2>8, <2>9
<1> QED BY <1>5, <1>6, TakeCalls
\* Steps that leave the status alone keep it.
LEMMA AgreePlain ==
    ASSUME Base, Agreement, NEW v \in Workers, Solo(v),
           \/ PrepareEngagement(v) \/ AppendMilestones(v) \/ RewritePercents(v) \/ WriteDueDate(v)
           \/ Remind(v) \/ MarkReminded(v) \/ CheckEngagement(v) \/ Submit(v) \/ WriteArchived(v)
    PROVE  Agreement'
<1>1. HandlersOK /\ LedgerOK /\ RowsOK /\ req[v] \in Request
  BY DEF Base, HandlersOK
<1>2. ~At(v, "activate") /\ UNCHANGED <<chain, events>>
  BY DEF At, ledger, PrepareEngagement, AppendMilestones, RewritePercents, WriteDueDate,
         Remind, MarkReminded, CheckEngagement, Submit, WriteArchived
<1>3. \A e \in Ids : eng'[e].status = eng[e].status /\ eng'[e].tx = eng[e].tx
  <2>1. CASE WriteArchived(v)
    BY <1>1, <2>1 DEF WriteArchived, RowsOK, Row
  <2>2. CASE ~WriteArchived(v)
    BY <2>2 DEF PrepareEngagement, AppendMilestones, RewritePercents, WriteDueDate, Remind,
                MarkReminded, CheckEngagement, Submit, rows
  <2> QED BY <2>1, <2>2
<1>4. req'[v].pc \in {"idle", "insert", "remindBatch", "remind", "check", "wait"}
  <2>1. ASSUME Done(v) PROVE req'[v].pc = "idle"
    BY <1>1, <2>1, DoneFields
  <2>2. ASSUME NEW pc, Goto(v, pc) PROVE req'[v].pc = pc
    BY <1>1, <2>2, GotoFields
  <2>3. CASE Remind(v)
    <3>1. PICK i : Done(v) \/ Become(v, [req[v] EXCEPT !.pc = "remind", !.e = i.e, !.todo = @ \ {i}])
      BY <2>3 DEF Remind
    <3>2. [req[v] EXCEPT !.pc = "remind", !.e = i.e, !.todo = @ \ {i}].pc = "remind"
      BY <1>1 DEF Request
    <3> QED BY <1>1, <2>1, <3>1, <3>2, BecomeFields
  <2>4. CASE CheckEngagement(v)
    <3>1. PICK i, f : Done(v) \/ Become(v, [req[v] EXCEPT !.todo = @ \ {i}, !.found = f])
                      \/ Become(v, [req[v] EXCEPT !.todo = @ \ {i}])
      BY <2>4 DEF CheckEngagement
    <3>2. /\ [req[v] EXCEPT !.todo = @ \ {i}, !.found = f].pc = "check"
          /\ [req[v] EXCEPT !.todo = @ \ {i}].pc = "check"
      BY <1>1, <2>4 DEF Request, CheckEngagement, At
    <3> QED BY <1>1, <2>1, <3>1, <3>2, BecomeFields
  <2> QED BY <2>1, <2>2, <2>3, <2>4 DEF PrepareEngagement, AppendMilestones, RewritePercents,
             WriteDueDate, MarkReminded, Submit, WriteArchived
<1>5. HandOK(v)'
  BY <1>4, PlainHand DEF Delicate
<1> QED BY <1>2, <1>3, <1>4, <1>5, SoloKeeps

\* The row of one engagement is written; the others are as they were.
LEMMA OneRow ==
    ASSUME Base, Agreement, NEW v \in Workers, Solo(v), HandOK(v)', UNCHANGED <<chain, events>>,
           req'[v].pc # "ack", NEW e \in Ids, RowOK(e)',
           At(v, "activate") => req[v].e = e,
           \A o \in Ids : o # e => eng'[o] = eng[o]
    PROVE  Agreement'
<1>1. ASSUME NEW o \in Ids, o # e PROVE RowOK(o)'
  <2>1. RowOK(o) /\ Carried(o)
    BY CarriedAll DEF Agreement, Solo
  <2>2. \A w \in Workers : ~(At(w, "activate") /\ req[w].e = o)
    BY <1>1 DEF Solo, At
  <2> QED BY <1>1, <2>1, <2>2, RowKept
<1> QED BY <1>1, SoloStep

\* A new row awaits acceptance, and the contract knows nothing of it yet.
LEMMA AgreeInsert ==
    ASSUME Base, Agreement, NEW v \in Workers, Solo(v), InsertEngagement(v)
    PROVE  Agreement'
<1> DEFINE e == req[v].e
<1>1. /\ HandlersOK /\ eng \in [Ids -> Row] /\ LocalOK(req[v]) /\ At(v, "insert")
      /\ Done(v) /\ UNCHANGED <<chain, events>>
  BY DEF Base, HandlersOK, RowsOK, InsertEngagement, ledger
<1>2. PICK f \in Ids : f = e
  BY <1>1 DEF LocalOK, At
<1>3. req'[v].pc = "idle" /\ HandOK(v)'
  BY <1>1, DoneFields, PlainHand DEF Delicate
<1>4. CASE eng' = eng
  BY <1>1, <1>3, <1>4, SoloKeeps DEF At
<1>5. CASE eng[f].status = "NONE" /\ eng' = [eng EXCEPT ![f].status = "PENDING_ACCEPTANCE"]
  <2>1. eng'[f].tx = eng[f].tx /\ \A o \in Ids : o # f => eng'[o] = eng[o]
    BY <1>1, <1>5 DEF Row
  <2>2. \A w \in Workers : ~At(w, "activate")
    BY <1>1 DEF Solo, At
  <2>3. ~eng[f].tx /\ chain[f].st = "None"
    BY <1>5, <2>2 DEF Agreement, Solo, RowOK
  <2>4. RowOK(f)'
    BY <1>1, <2>1, <2>3 DEF RowOK
  <2> QED BY <1>1, <1>3, <2>1, <2>2, <2>4, OneRow
<1> QED BY <1>2, <1>4, <1>5 DEF InsertEngagement, Exists, SetStatus

\* An engagement is activated once the contract has it.
LEMMA AgreeActivate ==
    ASSUME Base, Agreement, NEW v \in Workers, Solo(v), Activate(v)
    PROVE  Agreement'
<1>1. /\ HandlersOK /\ eng \in [Ids -> Row] /\ LocalOK(req[v]) /\ At(v, "activate")
      /\ Done(v) /\ UNCHANGED <<chain, events>>
  BY DEF Base, HandlersOK, RowsOK, Activate, ledger
<1>2. PICK f \in Ids : f = req[v].e
  BY <1>1 DEF LocalOK, At
<1>3. req'[v].pc = "idle" /\ HandOK(v)'
  BY <1>1, DoneFields, PlainHand DEF Delicate
<1>4. eng' = [eng EXCEPT ![f].status = "ACTIVE", ![f].tx = TRUE]
  BY <1>2 DEF Activate, Solo
<1>5. PICK row : row = [eng[f] EXCEPT !.status = "ACTIVE"]
  OBVIOUS
<1>6. row \in Row /\ row.status = "ACTIVE"
  BY <1>1, <1>5 DEF Row, Statuses, Live
<1>7. eng'[f] = [row EXCEPT !.tx = TRUE] /\ \A o \in Ids : o # f => eng'[o] = eng[o]
  BY <1>1, <1>4, <1>5
<1>8. eng'[f].status = "ACTIVE" /\ eng'[f].tx
  BY <1>6, <1>7 DEF Row
<1>9. chain[f].st = "Active" /\ RowOK(f)
  BY <1>1, <1>2 DEF Agreement, Solo, HandOK
<1>10. RowOK(f)'
  BY <1>1, <1>8, <1>9 DEF RowOK, StatusMap, Says
<1> QED BY <1>1, <1>2, <1>3, <1>7, <1>10, OneRow

\* A row is cancelled after the contract was.
LEMMA AgreeCancelled ==
    ASSUME Base, Agreement, NEW v \in Workers, Solo(v), SetCancelled(v)
    PROVE  Agreement'
<1>1. /\ HandlersOK /\ eng \in [Ids -> Row] /\ LocalOK(req[v]) /\ At(v, "setCancelled")
      /\ Done(v) /\ UNCHANGED <<chain, events>>
  BY DEF Base, HandlersOK, RowsOK, SetCancelled, ledger
<1>2. PICK f \in Ids : f = req[v].e
  BY <1>1 DEF LocalOK, At
<1>3. req'[v].pc = "idle" /\ HandOK(v)'
  BY <1>1, DoneFields, PlainHand DEF Delicate
<1>4. /\ eng'[f].status = "CANCELLED" /\ eng'[f].tx = eng[f].tx
      /\ \A o \in Ids : o # f => eng'[o] = eng[o]
  BY <1>1, <1>2 DEF SetCancelled, SetStatus, Row
<1>5. chain[f].st \in {"None", "Cancelled"} /\ RowOK(f)
  BY <1>1, <1>2 DEF Agreement, Solo, HandOK
<1>6. \A w \in Workers : ~At(w, "activate")
  BY <1>1 DEF Solo, At
<1>7. RowOK(f)'
  BY <1>1, <1>4, <1>5, <1>6 DEF RowOK, StatusMap, Says
<1> QED BY <1>1, <1>3, <1>4, <1>6, <1>7, OneRow
\* A synchronisation reads the contract and the row, and ends there: the row is funded.
LEMMA AgreeSyncRead ==
    ASSUME Base, LastFixes, Agreement, NEW v \in Workers, Solo(v), SyncFromChain(v) \/ SyncRow(v)
    PROVE  Agreement'
<1>1. /\ HandlersOK /\ req[v] \in Request /\ LocalOK(req[v]) /\ UNCHANGED <<eng, chain, events>>
      /\ ~At(v, "activate") /\ EventsOK /\ LedgerOK /\ ~At(v, "idle")
      /\ At(v, "syncChain") \/ At(v, "syncRow")
  BY DEF Base, HandlersOK, SyncFromChain, SyncRow, rows, ledger, At
<1>2. /\ req[v].op \in SyncKinds /\ req[v].op \in EventKinds
      /\ events # <<>> /\ req[v].e = events[1].e /\ req[v].op = events[1].kind
      /\ 1 \in DOMAIN events
  <2>1. req[v].op \in SyncKinds /\ req[v].op \in EventKinds
    BY <1>1 DEF Agreement, Solo, HandOK, SyncKinds, EventKinds
  <2> QED BY <1>1, <2>1 DEF EventsOK, Handling, LedgerOK
<1>3. chain[req[v].e].st # "None" /\ eng[req[v].e].tx
  <2>1. PICK f \in Ids : f = req[v].e
    BY <1>1 DEF LocalOK, At
  <2>2. chain[f].st # "None"
    BY <1>2, <2>1 DEF LastFixes
  <2>3. \A w \in Workers : ~At(w, "activate")
    BY <1>1 DEF Solo, At
  <2> QED BY <2>1, <2>2, <2>3 DEF Agreement, Solo, RowOK
<1>4. ASSUME NEW e \in Ids PROVE Carried(e)
  <2>1. ASSUME NEW i \in DOMAIN events, Waiting(i) PROVE Waiting(i)'
    <3>1. i # 1
      BY <1>2, <2>1 DEF Waiting, SyncKinds, Writers
    <3> QED BY <1>1, <2>1, <3>1 DEF Waiting
  <2> QED BY <1>1, <2>1 DEF Carried
<1>5. HandOK(v)'
  <2>1. CASE SyncFromChain(v)
    <3>1. PICK r : r = [req[v] EXCEPT !.pc = "syncRow", !.view = chain[req[v].e]]
      OBVIOUS
    <3>2. req'[v] = r
      BY <1>1, <1>3, <2>1, <3>1, BecomeFields DEF SyncFromChain
    <3>3. r.pc = "syncRow" /\ r.op = req[v].op
      BY <1>1, <3>1 DEF Request
    <3> QED BY <1>2, <3>2, <3>3 DEF HandOK, At
  <2>2. CASE SyncRow(v)
    <3>1. Goto(v, "ack")
      BY <1>3, <2>2 DEF SyncRow
    <3> QED BY <1>1, <3>1, GotoFields, PlainHand DEF Delicate
  <2> QED BY <2>1, <2>2
<1>6. ASSUME NEW e \in Ids PROVE RowOK(e)'
  <2>1. RowOK(e)
    BY DEF Agreement, Solo
  <2>2. \A w \in Workers : ~At(w, "activate")
    BY <1>1 DEF Solo, At
  <2> QED BY <1>1, <1>4, <2>1, <2>2, RowKept
<1> QED BY <1>5, <1>6, SoloStep

\* An event is acknowledged after its handler gave the row the contract's status.
LEMMA AgreeAck ==
    ASSUME Base, Agreement, NEW v \in Workers, Solo(v), Acknowledge(v)
    PROVE  Agreement'
<1>1. /\ HandlersOK /\ LocalOK(req[v]) /\ EventsOK /\ LedgerOK /\ At(v, "ack") /\ Done(v)
      /\ UNCHANGED <<eng, chain>>
  BY DEF Base, HandlersOK, Acknowledge, rows
<1>2. events # <<>> /\ events' = Tail(events)
  BY <1>1 DEF Acknowledge, LocalOK, SyncLabels, EventsOK, Handling, At
<1>3. req'[v].pc = "idle" /\ HandOK(v)'
  BY <1>1, DoneFields, PlainHand DEF Delicate
<1>4. \A i : events'[i].kind \in Writers => Waiting(i)'
  BY <1>3 DEF Solo, Waiting, At
<1>5. ASSUME NEW e \in Ids PROVE Carried(e)
  <2>1. SUFFICES ASSUME NEW i \in DOMAIN events, Waiting(i)
                 PROVE  \E k \in DOMAIN events' : events'[k] = events[i]
    BY <1>4 DEF Carried, Waiting
  <2>2. i # 1
    BY <1>1, <2>1 DEF Waiting
  <2>3. i - 1 \in DOMAIN events' /\ events'[i - 1] = events[i]
    BY <1>1, <1>2, <2>1, <2>2 DEF LedgerOK
  <2> QED BY <2>3
<1>6. ASSUME NEW e \in Ids PROVE RowOK(e)'
  <2>1. RowOK(e) /\ Carried(e)
    BY <1>5 DEF Agreement, Solo
  <2>2. \A w \in Workers : ~At(w, "activate")
    BY <1>1 DEF Solo, At
  <2> QED BY <1>1, <2>1, <2>2, RowKept
<1> QED BY <1>3, <1>6, SoloStep

\* Every step of a handler keeps the agreement.
LEMMA AgreeStepW ==
    ASSUME Base, Alone, LastFixes, Agreement, NEW v \in Workers, Step(v), upset' = {}
    PROVE  Agreement'
<1>1. Solo(v)
  BY Stepped, SoloOf
<1>2. ~WriteStatus(v) /\ ~SyncWrite(v)
  BY <1>1 DEF WriteStatus, SyncWrite, Agreement, Solo, HandOK
<1> QED BY <1>1, <1>2, AgreePlain, AgreeInsert, AgreeActivate, AgreeCancelled, AgreeSyncRead,
           AgreeAck DEF Step
\* A transaction that lands emits the event that carries its change.
LEMMA AgreeLand ==
    ASSUME Base, Alone, Awaited, Agreement, NEW t \in net, Land(t), upset' = {}
    PROVE  Agreement'
<1>1. HandlersOK /\ LedgerOK /\ chain \in [Ids -> Contract] /\ t \in Tx
  BY DEF Base, LedgerOK
<1>2. UNCHANGED <<eng, upset>> /\ upset = {} /\ Lands(t) /\ t.e \in Ids
  BY LandMoves DEF Land, rows, counters
<1>3. PICK u \in Workers : u = t.by /\ u # 0
  BY <1>1, <1>2 DEF Awaited, Tx
<1>4. At(u, "wait") /\ req[u].e = t.e
  BY <1>1, <1>3 DEF HandlersOK, TxOK, At
<1>5. Done(u) \/ Goto(u, "activate") \/ Goto(u, "setCancelled")
  BY <1>3 DEF Land
<1>6. /\ \A v \in Workers \ {u} : req'[v] = req[v]
      /\ req'[u].pc \in {"idle", "activate", "setCancelled"}
  BY <1>1, <1>5, DoneFields, GotoFields
<1>7. Solo(u)
  BY <1>2, <1>4, <1>6, SoloOf DEF At
<1>8. \A w \in Workers : ~At(w, "activate")
  BY <1>4, <1>7 DEF Solo, At
<1>9. \A e \in Ids : RowOK(e)
  BY <1>2 DEF Agreement
<1>10. CASE UNCHANGED <<chain, events>>
  <2>1. HandOK(u)'
    <3>1. Done(u)
      BY <1>1, <1>2, <1>3, <1>10 DEF Land, Emit, LedgerOK
    <3> QED BY <1>1, <3>1, DoneFields, PlainHand DEF Delicate
  <2> QED BY <1>2, <1>6, <1>7, <1>8, <1>10, <2>1, SoloKeeps
<1>11. ASSUME NEW st \in {"Active", "Cancelled"},
              NEW kind \in {"engagement_created", "engagement_cancelled"},
              chain' = [chain EXCEPT ![t.e].st = st], Emit(kind, t.e),
              st = "Active" => /\ Goto(u, "activate") /\ chain[t.e].st = "None"
                               /\ kind = "engagement_created",
              st = "Cancelled" => /\ Goto(u, "setCancelled") /\ chain[t.e].st \in Running
                                  /\ kind = "engagement_cancelled"
       PROVE  Agreement'
  <2> DEFINE x == [kind |-> kind, e |-> t.e]
  <2>1. /\ chain'[t.e].st = st
        /\ \A o \in Ids : o # t.e => chain'[o] = chain[o]
    BY <1>1, <1>2, <1>11 DEF Contract
  <2>2. x \in EventType /\ events' = Append(events, x) /\ x.e = t.e /\ x.kind = kind
    BY <1>2, <1>11 DEF EventType, EventKinds, Emit
  <2> HIDE DEF x
  <2>3. /\ \A e \in Ids : Carried(e)
        /\ Len(events) + 1 \in DOMAIN events' /\ events'[Len(events) + 1] = x
        /\ \A i : events'[i].kind \in Writers => Waiting(i)'
    BY <1>1, <1>2, <1>6, <1>7, <2>2, CarriedMore
  <2>4. /\ st = "Active" => req'[u].pc = "activate" /\ req'[u].e = t.e
        /\ st = "Cancelled" => req'[u].pc = "setCancelled" /\ req'[u].e = t.e
    BY <1>1, <1>4, <1>11, GotoFields
  <2>5. HandOK(u)'
    BY <2>1, <2>4 DEF HandOK, At
  <2>6. ASSUME NEW o \in Ids, o # t.e PROVE RowOK(o)'
    BY <1>2, <1>8, <1>9, <2>1, <2>3, <2>6, RowKept
  <2>7. RowOK(t.e)'
    <3>1. PICK f \in Ids : f = t.e
      BY <1>2
    <3>2. RowOK(f) /\ chain'[f].st = st /\ st # "None"
      BY <1>9, <2>1, <3>1
    <3>4. eng'[f].tx => eng'[f].status \notin {"NONE", "PENDING_ACCEPTANCE"}
      BY <1>2, <3>2 DEF RowOK
    <3>5. eng'[f].tx \/ \E w \in Workers : At(w, "activate")' /\ req'[w].e = f
      <4>1. CASE st = "Active"
        BY <2>4, <3>1, <4>1 DEF At
      <4>2. CASE st = "Cancelled"
        BY <1>2, <1>8, <1>11, <3>1, <3>2, <4>2 DEF RowOK, Running
      <4> QED BY <4>1, <4>2
    <3>6. eng'[f].tx => \E i \in DOMAIN events' : events'[i].e = f /\ Waiting(i)'
      <4>1. CASE st = "Active"
        BY <1>2, <1>11, <3>1, <3>2, <4>1 DEF RowOK
      <4>2. CASE st = "Cancelled"
        BY <1>11, <2>2, <2>3, <3>1, <4>2 DEF Writers
      <4> QED BY <4>1, <4>2
    <3>7. RowOK(f)'
      BY <3>2, <3>4, <3>5, <3>6 DEF RowOK
    <3>8. t.e = f
      BY <3>1
    <3> QED BY <3>7, <3>8
  <2> QED BY <1>7, <2>5, <2>6, <2>7, SoloStep
<1> QED BY <1>2, <1>3, <1>10, <1>11 DEF Lands

\* So does what the milestones do on chain.
LEMMA AgreeChain ==
    ASSUME Base, Agreement, NEW e \in Ids, ReleaseOnChain(e) \/ ReplaceOnChain(e), upset' = {}
    PROVE  Agreement'
<1>1. LedgerOK /\ chain \in [Ids -> Contract]
  BY DEF Base, LedgerOK
<1>2. /\ UNCHANGED <<eng, req>> /\ upset' = upset \cup ContractMove /\ Pays(e)
  BY ReleaseMoves DEF ReleaseOnChain, ReplaceOnChain, rows
<1>3. upset = {} /\ \A w \in Workers : At(w, "idle")
  BY <1>2 DEF ContractMove
<1>4. \A w \in Workers : HandOK(w)' /\ ~At(w, "activate") /\ ~At(w, "ack")
  BY <1>2, <1>3 DEF HandOK, At
<1>6. ASSUME NEW c, NEW kind \in {"milestone_confirmed", "replacement_requested"},
             chain' = [chain EXCEPT ![e] = c], c.st # "None", Emit(kind, e),
             \/ kind \in Writers
             \/ c.st \in {chain[e].st, "Completed"}
      PROVE  Agreement'
  <2> DEFINE x == [kind |-> kind, e |-> e]
  <2>1. chain'[e] = c /\ \A o \in Ids : o # e => chain'[o] = chain[o]
    BY <1>1, <1>6
  <2>2. x \in EventType /\ events' = Append(events, x) /\ x.e = e /\ x.kind = kind
    BY <1>6 DEF EventType, EventKinds, Emit
  <2> HIDE DEF x
  <2>3. /\ Len(events) + 1 \in DOMAIN events' /\ events'[Len(events) + 1] = x
        /\ \A i \in DOMAIN events : i \in DOMAIN events' /\ events'[i] = events[i]
    BY <1>1, <2>2 DEF LedgerOK
  <2>4. \A i : events'[i].kind \in Writers => Waiting(i)'
    BY <1>2, <1>4 DEF Waiting, At
  <2>5. \A o \in Ids : Carried(o) /\ RowOK(o)
    BY <1>3, <2>3, <2>4 DEF Carried, Waiting, Agreement
  <2>6. ASSUME NEW o \in Ids, o # e PROVE RowOK(o)'
    BY <1>2, <1>4, <2>1, <2>5, <2>6, RowKept
  <2>7. RowOK(e)'
    <3>1. RowOK(e) /\ chain[e].st \in Running /\ chain[e].st # "None"
      BY <1>2, <2>5 DEF Pays, Running
    <3>2. eng'[e].tx /\ eng'[e].status \notin {"NONE", "PENDING_ACCEPTANCE"}
      BY <1>2, <1>4, <3>1 DEF RowOK
    <3>3. \/ Says(eng'[e].status, chain'[e].st)
          \/ \E i \in DOMAIN events' : events'[i].e = e /\ Waiting(i)'
      <4>1. CASE kind \in Writers
        BY <2>2, <2>3, <2>4, <4>1
      <4>2. CASE kind \notin Writers
        <5>1. CASE Says(eng[e].status, chain[e].st)
          BY <1>2, <1>6, <2>1, <3>1, <4>2, <5>1 DEF Says, StatusMap, Running, Live
        <5>2. CASE ~Says(eng[e].status, chain[e].st)
          <6>1. PICK i \in DOMAIN events : events[i].e = e /\ Waiting(i)
            BY <1>2, <3>1, <3>2, <5>2 DEF RowOK
          <6> QED BY <2>5, <6>1 DEF Carried
        <5> QED BY <5>1, <5>2
      <4> QED BY <4>1, <4>2
    <3> QED BY <1>6, <2>1, <3>2, <3>3 DEF RowOK
  <2> QED BY <1>4, <2>6, <2>7 DEF Agreement
<1>7. CASE chain' = [chain EXCEPT ![e].st = "ReplacementRequested"]
           /\ Emit("replacement_requested", e)
  <2>1. PICK c : c = [chain[e] EXCEPT !.st = "ReplacementRequested"]
    OBVIOUS
  <2>2. c.st = "ReplacementRequested"
    BY <1>1, <2>1 DEF Contract
  <2>3. chain' = [chain EXCEPT ![e] = c]
    BY <1>7, <2>1
  <2> QED BY <1>6, <1>7, <2>2, <2>3 DEF Writers
<1>8. ASSUME NEW c \in Contract, chain' = [chain EXCEPT ![e] = c],
             c.st \in {chain[e].st, "Completed"}, Emit("milestone_confirmed", e)
      PROVE  Agreement'
  <2>1. c.st # "None"
    BY <1>2, <1>8 DEF Pays, Running
  <2> QED BY <1>6, <1>8, <2>1
<1> QED BY <1>2, <1>7, <1>8 DEF Pays

\* Every step keeps the agreement.
LEMMA AgreeStep ==
    ASSUME Base, Alone, Awaited, LastFixes, Agreement, [Next]_vars \/ Apart
    PROVE  Agreement'
<1>1. CASE upset' # {}
  BY <1>1 DEF Agreement
<1> SUFFICES ASSUME upset' = {} PROVE Agreement'
  BY <1>1
<1>2. ASSUME UNCHANGED <<eng, chain, events, req, upset>> PROVE Agreement'
  BY <1>2 DEF Agreement, HandOK, RowOK, At, Waiting
<1>3. ASSUME NEW w \in Workers, Crash(w) PROVE FALSE
  BY <1>3 DEF Crash
<1>4. ASSUME NEW t \in net, GiveUp(t) PROVE FALSE
  BY <1>4 DEF GiveUp
<1>5. ASSUME NEW t, Later(t) PROVE Agreement'
  BY <1>2, <1>5 DEF Later, rows, ledger
<1>6. CASE UNCHANGED vars \/ Apart
  BY <1>2, <1>6 DEF vars, Apart, rows, ledger
<1> QED BY <1>3, <1>4, <1>5, <1>6, AgreeTake, AgreeStepW, AgreeLand, AgreeChain DEF Next

\* With nothing under way, agreement is what the run checks.
LEMMA QuietAgrees ==
    ASSUME Agreement
    PROVE  RowAgrees
<1> SUFFICES ASSUME Quiet, upset = {}, NEW e \in Ids
             PROVE  /\ eng[e].tx <=> chain[e].st # "None"
                    /\ eng[e].tx => Says(eng[e].status, chain[e].st)
  BY DEF RowAgrees, Says
<1>1. RowOK(e) /\ DOMAIN events = {} /\ \A w \in Workers : ~At(w, "activate")
  BY DEF Agreement, Quiet, At
<1> QED BY <1>1 DEF RowOK

\* When nothing irregular happened, a row is funded exactly when the contract knows
\* the engagement, and each change of status but completion is followed by an event
\* or a request that writes it: acceptInvite, cancelEngagement and the handlers of
\* EventsService do, while syncFromChain never reaches its write.
THEOREM RowsFollow == PaySpec => []RowAgrees
<1>1. PayInit => Alone /\ Awaited /\ LastFixes /\ Agreement
  <2> SUFFICES ASSUME PayInit PROVE Alone /\ Awaited /\ LastFixes /\ Agreement
    OBVIOUS
  <2>1. (\A w \in Workers : At(w, "idle")) /\ net = {} /\ events = <<>>
    BY IdleInit DEF PayInit, At
  <2>2. \A e \in Ids : ~eng[e].tx /\ chain[e].st = "None"
    BY DEF PayInit, Init, NoRow
  <2> QED BY <2>1, <2>2 DEF Alone, Awaited, LastFixes, Agreement, HandOK, RowOK, At
<1>2. Base /\ Alone /\ Awaited /\ LastFixes /\ Agreement /\ [PayNext]_<<vars, payVars>>
        => (Alone /\ Awaited /\ LastFixes /\ Agreement)'
  <2> SUFFICES ASSUME Base, Alone, Awaited, LastFixes, Agreement, [PayNext]_<<vars, payVars>>
               PROVE  Alone' /\ Awaited' /\ LastFixes' /\ Agreement'
    OBVIOUS
  <2> QED BY PayMoves, AloneStep, AwaitedStep, FixesStep, AgreeStep
<1> QED BY <1>1, <1>2, PayBase, QuietAgrees, PTL DEF PaySpec

=============================================================================
