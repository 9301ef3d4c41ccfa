-------------------------- MODULE MCLoginRateLimit --------------------------
(* Small instances of LoginRateLimit. *)
EXTENDS LoginRateLimit, TLC

Symmetry == Permutations(Addresses) \cup Permutations(Accounts) \cup Permutations(Threads)
=============================================================================
