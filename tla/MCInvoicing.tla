----------------------------- MODULE MCInvoicing -----------------------------
(* Instances of Invoicing for TLC. *)
EXTENDS Invoicing, TLC

\* Nothing to pay; half a unit at 0.01; one unit at 0.01 with a tax of 50%
\* beside a line that is rounded down.
MCItemLists == {<<[quantity |-> 1000, price |-> 0, rate |-> 2000]>>,
                <<[quantity |-> 500, price |-> 1, rate |-> 0]>>,
                <<[quantity |-> 1000, price |-> 1, rate |-> 5000],
                  [quantity |-> 499, price |-> 1, rate |-> 0]>>}

Symmetry == Permutations(Businesses) \cup Permutations(Clients) \cup Permutations(Invoices)
            \cup Permutations(Payments) \cup Permutations(Assets)
=============================================================================
