--------------------------- MODULE MCAccountSessions ---------------------------
(* Instances of AccountSessions for TLC: users are interchangeable, and so    *)
(* are addresses, passwords, families and threads.                            *)
EXTENDS AccountSessions, TLC

Symmetry == Permutations(Users) \cup Permutations(Emails) \cup Permutations(Secrets)
            \cup Permutations(Families) \cup Permutations(Proc)
=============================================================================
