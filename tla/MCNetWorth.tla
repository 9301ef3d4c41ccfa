---------------------------- MODULE MCNetWorth ----------------------------
(* Instance of NetWorth for TLC: what requests may ask for, and symmetry. *)
EXTENDS NetWorth, TLC

CONSTANTS Euro, Forint, a1

\* A cent of which half is owned, so that two of them are a cent, and a debt in
\* another currency that follows the bank account, in use or not.
InputRows ==
    {[value |-> 1, currency |-> Euro, share |-> 5000, link |-> None, active |-> TRUE],
     [value |-> 0, currency |-> Forint, share |-> -5000, link |-> a1, active |-> TRUE],
     [value |-> 0, currency |-> Forint, share |-> -5000, link |-> a1, active |-> FALSE]}

Overdrawn == {-3}
OwnedOrOwed == {5000, -5000}

Symmetry == Permutations(Proc) \cup Permutations(Items)
=============================================================================
