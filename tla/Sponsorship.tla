---------------------------- MODULE Sponsorship ----------------------------
(***************************************************************************)
(* Fees the platform pays for its users: a signed transaction is wrapped   *)
(* in one that the platform pays for, if the fees recorded since midnight  *)
(* leave room for another; it is submitted, and its fee is recorded.       *)
(***************************************************************************)
EXTENDS Handlers

CONSTANTS
    SponsorCap,  \* FEE_SPONSORSHIP_DAILY_CAP_XLM
    MaxFee,      \* FEE_SPONSORSHIP_MAX_FEE_STROOPS
    FeesCharged, \* bound: what the network charges for one transaction
    DayTime      \* a UTC day

ASSUME SponsorshipAssumption ==
    /\ {SponsorCap, MaxFee} \subseteq Nat /\ DayTime \in Nat \ {0}
    /\ FeesCharged \subseteq Nat \ {0} /\ IsFiniteSet(FeesCharged)

VARIABLES
    sponsored, \* the rows of sponsored fees
    charged,   \* the fees the platform's account was charged
    unrecorded     \* history: the charges that will never be recorded

sponsorVars == <<sponsored, charged, unrecorded>>
FeeRow == [day : Nat, fee : Nat]
\* The program points of its handlers.
SponsorPoints == {"submit", "record"}

SponsorshipOK == {sponsored, charged} \subseteq Seq(FeeRow) /\ unrecorded \in Nat
SponsorshipInit == sponsored = <<>> /\ charged = <<>> /\ unrecorded = 0

Day(t) == t \div DayTime
Spent(rows, d) ==
    LET sum[n \in 0..Len(rows)] ==
            IF n = 0 THEN 0 ELSE sum[n - 1] + (IF rows[n].day = d THEN rows[n].fee ELSE 0)
    IN  sum[Len(rows)]

WithinBudgetBug(spent) == spent <= SponsorCap
WithinBudget(spent) == spent + MaxFee <= SponsorCap

\* assertWithinBudget; sponsorship is enabled.
Submit(w) ==
    /\ WithinBudget(Spent(sponsored, Day(now)))
    /\ Call(w, "sponsor", "submit", <<>>)
    /\ UNCHANGED sponsorVars

\* Horizon may also answer too late: the transaction is in, the call has raised.
SubmitFeeBump(w) ==
    \E fee \in FeesCharged :
      /\ \/ GotoWith(w, "submit", "record", [fee |-> fee]) /\ UNCHANGED unrecorded
         \/ FailTo(w, "submit", "timeout", Idle) /\ unrecorded' = unrecorded + 1
      /\ charged' = Append(charged, [day |-> Day(now), fee |-> fee])
      /\ UNCHANGED sponsored

RecordFee(w) ==
    /\ \/ /\ End(w, "record") /\ UNCHANGED unrecorded
          /\ sponsored' = Append(sponsored, [day |-> Day(now), fee |-> Local(w).fee])
       \/ FailTo(w, "record", "db", Idle) /\ unrecorded' = unrecorded + 1 /\ UNCHANGED sponsored
    /\ UNCHANGED charged

SponsorshipNext == \E w \in Workers : Submit(w) \/ SubmitFeeBump(w) \/ RecordFee(w)

-----------------------------------------------------------------------------

\* The platform pays at most its daily cap and one fee for each request that
\* was in flight at once or whose charge went unrecorded, the last check having
\* left room for the largest.
SpendBounded ==
    LET most == Max(FeesCharged \cup {0})
        lost == unrecorded + (IF "record" \in upset THEN faults ELSE 0)
    IN  \A d \in {r.day : r \in Range(charged)} :
            Spent(charged, d) <= SponsorCap - MaxFee + (Cardinality(Workers) + lost) * most
=============================================================================
