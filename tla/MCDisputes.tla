----------------------------- MODULE MCDisputes -----------------------------
(***************************************************************************)
(* Instances of Disputes for TLC: one milestone, and either two arbiters,  *)
(* so that an appeal finds a second one, or one, so that it finds nobody.  *)
(***************************************************************************)
EXTENDS Disputes, TLC

CONSTANTS w1, w2

OneMilestone == {1}
OneArbiter == {1}
TwoArbiters == {1, 2}
OneEligible == [m \in OneMilestone |-> OneArbiter]
BothEligible == [m \in OneMilestone |-> TwoArbiters]
WorkerSymmetry == Permutations(Workers)
=============================================================================
