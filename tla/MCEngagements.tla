--------------------------- MODULE MCEngagements ---------------------------
(* Constants of the runs of modules Engagements and IncomingPayments. *)
EXTENDS IncomingPayments, TLC

MCSplits == {<<60, 40>>}
MCChanges == {(1 :> 50 @@ 2 :> 50), (1 :> 70), (2 :> 40)}
MCFaults == {"rpc", "timeout", "crash"}

\* The invitation with every failure; what happens to a funded engagement; the
\* nightly report; percentages; due dates and reminders; payments.
MCScopes ==
    {[ops |-> {"create", "accept", "decline", "cancel"}, faults |-> MCFaults, calls |-> 4, times |-> {}],
     [ops |-> {"create", "accept", "release", "replace", "cancel"}, faults |-> {"rpc"}, calls |-> 5,
      times |-> {}],
     [ops |-> {"create", "accept", "release", "reconcile", "admin"}, faults |-> {"rpc"}, calls |-> 5,
      times |-> {}],
     [ops |-> {"create", "preview", "percents", "bulk", "archive"}, faults |-> {}, calls |-> 4, times |-> {}],
     [ops |-> {"create", "due", "reminder"}, faults |-> {"crash"}, calls |-> 5, times |-> {2, 4}],
     [ops |-> {"create", "decline", "payments", "resolve"}, faults |-> {"crash", "timeout"},
      calls |-> 2, times |-> {}]}
\* Instances, admins and transactions are alike.
MCSymmetry == Permutations(Pollers) \cup Permutations(Admins) \cup Permutations(TxHashes)
=============================================================================
