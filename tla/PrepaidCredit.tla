---------------------------- MODULE PrepaidCredit ----------------------------
(***************************************************************************)
(* What the credit ledger promises: a balance per company that changes in  *)
(* one step, never goes below zero, and to which a keyed entry is applied  *)
(* at most once.                                                           *)
(***************************************************************************)
EXTENDS Integers

CONSTANTS Accounts, Amounts, Keys

VARIABLES
    balance,  \* of each account
    used      \* the keys each account has applied

PrepaidInit == balance = [c \in Accounts |-> 0] /\ used = [c \in Accounts |-> {}]

\* Apply a signed amount, under a key or under none.
Apply(c, amount) ==
    /\ amount # 0 /\ balance[c] + amount >= 0
    /\ balance' = [balance EXCEPT ![c] = @ + amount]
    /\ \/ UNCHANGED used
       \/ \E k \in Keys \ used[c] : used' = [used EXCEPT ![c] = @ \cup {k}]

PrepaidNext == \E c \in Accounts, amount \in Amounts : Apply(c, amount)

PrepaidSpec == PrepaidInit /\ [][PrepaidNext]_<<balance, used>>
=============================================================================
