------------------------------ MODULE MCBanking ------------------------------
(* Instances of Banking for TLC. *)
EXTENDS Banking, TLC

Symmetry == Permutations(Connections) \cup Permutations(Sessions) \cup Permutations(Accounts)
            \cup Permutations(Expenses) \cup Permutations(Proc) \cup Permutations(Refs)
            \cup Permutations(Amounts)
=============================================================================
