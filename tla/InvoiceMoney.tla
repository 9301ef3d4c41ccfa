---------------------------- MODULE InvoiceMoney ----------------------------
(***************************************************************************)
(* The arithmetic of invoice items (app/services/invoice_service.py).      *)
(* Decimals have a fixed number of digits, which the request model and the *)
(* columns enforce, and are integers in their smallest unit here: a price  *)
(* in cents, a quantity in thousandths, a tax rate in hundredths of a      *)
(* percent.                                                                *)
(***************************************************************************)
EXTENDS Integers, Functions

\* A line as requested; the price of a line of a credit note is negative.
Item == [quantity: Nat \ {0}, price: Nat, rate: Nat]

Line == [quantity: Nat \ {0}, price: Int, rate: Nat]

Mutant_HalfUpwards(n, d) == (2 * n + d) \div (2 * d)

\* n / d rounded to an integer, as ROUND_HALF_UP does it: a half is rounded
\* away from zero.
RoundHalfUp(n, d) == IF n >= 0 THEN (2 * n + d) \div (2 * d) ELSE -((d - 2 * n) \div (2 * d))

NetTotal(line) == RoundHalfUp(line.quantity * line.price, 1000)

ItemTax(line) == RoundHalfUp(NetTotal(line) * line.rate, 10000)

GrossTotal(line) == NetTotal(line) + ItemTax(line)

\* calculate_invoice_items: the lines with the multiplier, and their total.
Priced(line, multiplier) == [line EXCEPT !.price = @ * multiplier]

Lines(items, multiplier) == [k \in DOMAIN items |-> Priced(items[k], multiplier)]

Total(lines) == SumFunction([k \in DOMAIN lines |-> GrossTotal(lines[k])])
=============================================================================
