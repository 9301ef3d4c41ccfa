------------------------------ MODULE MCTodoWork ------------------------------
(* Instances of TodoWork for TLC. *)
EXTENDS TodoWork, TLC

Symmetry == Permutations(Contents) \cup Permutations(Messages) \cup Permutations(Proc)
=============================================================================
