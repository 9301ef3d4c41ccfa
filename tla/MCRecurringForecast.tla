------------------------ MODULE MCRecurringForecast ------------------------
(* Instance of RecurringForecast for TLC: the years 2024 (a leap year) to   *)
(* 2026, with commitments that begin on days other months do not have.      *)
EXTENDS RecurringForecast, TLC

\* Days before each month of a year without leap day.
Before == <<0, 31, 59, 90, 120, 151, 181, 212, 243, 273, 304, 334>>

\* 1 January 2024 is day 1.
FirstDay ==
    [m \in 0..36 |-> 365 * (m \div 12) + Before[(m % 12) + 1] + (IF m >= 2 THEN 2 ELSE 1)]

Date(y, m, d) == FirstDay[12 * (y - 2024) + m - 1] + d - 1

SweepDays == Date(2024, 1, 29)..Date(2024, 3, 3) \cup Date(2024, 12, 29)..Date(2025, 1, 2)
             \cup Date(2025, 2, 26)..Date(2025, 4, 1)

InputRows ==
    LET row(f, start, end, active) ==
          [amount |-> IF f = "DAILY" THEN 1 ELSE 3, frequency |-> f, start |-> start,
           end |-> end, active |-> active]
    IN  {row("MONTHLY", Date(2024, 1, 31), None, TRUE),
         row("MONTHLY", Date(2024, 1, 30), Date(2025, 2, 28), TRUE),
         row("MONTHLY", Date(2024, 12, 31), Date(2025, 3, 30), FALSE),
         row("MONTHLY", Date(2025, 1, 15), None, TRUE),
         row("YEARLY", Date(2024, 2, 29), None, TRUE),
         row("YEARLY", Date(2024, 2, 29), Date(2026, 2, 28), TRUE),
         row("YEARLY", Date(2024, 3, 1), Date(2025, 3, 2), TRUE),
         row("WEEKLY", Date(2024, 1, 4), Date(2025, 2, 27), TRUE),
         row("WEEKLY", Date(2024, 12, 30), None, TRUE),
         row("DAILY", Date(2024, 12, 30), Date(2025, 3, 1), TRUE),
         row("DAILY", Date(2024, 2, 28), None, FALSE),
         row("MONTHLY", Date(2025, 3, 1), Date(2025, 2, 1), TRUE)}

Symmetry == Permutations(Ids)
=============================================================================
