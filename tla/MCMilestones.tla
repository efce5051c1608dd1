---------------------------- MODULE MCMilestones ----------------------------
(* Constants of the run of module Milestones. *)
EXTENDS Milestones

\* Proofs and approvals one after another or in parallel; the review window at
\* half, nine tenths and all of it; a partial release with every failure of its
\* payment; a retention with replacement and disputes; an admin in between.
MCScopes ==
    {[ops |-> {"submit", "reject", "approve", "chain"}, kind |-> "PLACEMENT",
      times |-> {}, faults |-> {"rpc"}, calls |-> 5],
     [ops |-> {"submit", "reject", "chain", "sla"}, kind |-> "PLACEMENT",
      times |-> {5, 9, 10}, faults |-> {"slow", "crash", "expire"}, calls |-> 3],
     [ops |-> {"chain", "release"}, kind |-> "PLACEMENT", times |-> {},
      faults |-> {"rpc", "timeout", "expire", "crash"}, calls |-> 5],
     [ops |-> {"retention", "chain", "dispute", "replace"}, kind |-> "RETENTION",
      times |-> {9, 10}, faults |-> {"reorder", "timeout"}, calls |-> 3],
     [ops |-> {"submit", "approve", "admin"}, kind |-> "PLACEMENT",
      times |-> {}, faults |-> {}, calls |-> 4],
     [ops |-> {"retention", "submit", "approve", "chain"}, kind |-> "RETENTION",
      times |-> {10}, faults |-> {}, calls |-> 4]}
=============================================================================
