------------------------ MODULE MCRefreshSessions ------------------------
(* Small instances of RefreshSessions. *)
EXTENDS RefreshSessions, TLC

Symmetry == Permutations(Users) \cup Permutations(Families) \cup
            Permutations(Tokens) \cup Permutations(Devices) \cup Permutations(Proc)
=============================================================================
