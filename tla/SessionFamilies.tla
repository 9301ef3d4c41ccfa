-------------------------- MODULE SessionFamilies --------------------------
(***************************************************************************)
(* What the refresh-session repository promises its callers, without       *)
(* rows, locks, statements or clocks: a login opens a family, a family has *)
(* one current token, a rotation spends it for a new one, and families     *)
(* end.  Nothing else happens to them: an ended family is never opened or  *)
(* rotated again, and a token that was spent never becomes current.        *)
(***************************************************************************)
CONSTANTS Families, Tokens, None

VARIABLES
    opened,    \* families some login has opened
    current,   \* family -> its current token, None before it opens and after it ends
    spent      \* tokens that were current once

vars == <<opened, current, spent>>

Issued == spent \cup {current[f] : f \in Families}

Without(D) == [f \in Families |-> IF f \in D THEN None ELSE current[f]]

CurrentOf(D) == {current[f] : f \in D} \ {None}

\* A login opens f with t and ends the families D of the same device.
Open(f, t, D) ==
    /\ f \notin opened
    /\ t \notin Issued
    /\ opened' = opened \cup {f}
    /\ current' = [Without(D) EXCEPT ![f] = t]
    /\ spent' = spent \cup CurrentOf(D)

Rotate(f, t) ==
    /\ current[f] # None
    /\ t \notin Issued
    /\ current' = [current EXCEPT ![f] = t]
    /\ spent' = spent \cup {current[f]}
    /\ UNCHANGED opened

\* A logout, a replay, an expiry or a revocation ends the families D at once.
End(D) ==
    /\ current' = Without(D)
    /\ spent' = spent \cup CurrentOf(D)
    /\ UNCHANGED opened

Init ==
    /\ opened = {}
    /\ current = [f \in Families |-> None]
    /\ spent = {}

Next ==
    \/ \E D \in SUBSET opened : End(D)
    \/ \E f \in Families, t \in Tokens : Rotate(f, t) \/ \E D \in SUBSET opened : Open(f, t, D)

Spec == Init /\ [][Next]_vars
=============================================================================
