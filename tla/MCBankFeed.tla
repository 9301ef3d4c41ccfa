----------------------------- MODULE MCBankFeed -----------------------------
(* Instances of BankFeed for TLC. *)
EXTENDS BankFeed, TLC

CONSTANTS a1

\* One account: what a sync does with other accounts is, for this one, a delay
\* before, between or after its own steps.  All payments look the same.
OnlyAccount == [x \in Payments |-> a1]
OneLook == [x \in Payments |-> "same"]

Symmetry == Permutations(Payments) \cup Permutations(Proc)
=============================================================================
