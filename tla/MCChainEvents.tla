---------------------------- MODULE MCChainEvents ----------------------------
(* Instances of ChainEvents for TLC: two ticks in flight, on two replicas.   *)
EXTENDS ChainEvents, TLC

CONSTANTS w1, w2, r1, r2

MCReplica == w1 :> r1 @@ w2 :> r2

\* What overlaps: poller and retry job, indexer and either of them, two
\* indexers, the admin routes and the poller.
MCDuties == w1 :> {"poll", "index"} @@ w2 :> {"retry", "index", "manual", "backfill"}

\* The three jobs, the indexer beside the other two.
CronDuties == w1 :> {"poll", "retry"} @@ w2 :> {"index"}

\* Two events of one ledger, in two transactions or in one.
MCLedger == <<2, 2>>
MCName == <<"dispute_resolved", "milestone_confirmed">>
TwoTx == <<"t1", "t2">>
OneTx == <<"t1", "t1">>

\* Three events of one ledger, of which an answer of two cuts off the last.
CutLedger == <<2, 2, 2>>
CutName == <<"dispute_resolved", "milestone_confirmed", "dispute_raised">>
ThreeTx == <<"t1", "t2", "t3">>
=============================================================================
