------------------------- MODULE RecurringForecast -------------------------
(***************************************************************************)
(* Recurring expenses and the forecast of what they will cost              *)
(* (app/services/recurring_forecast_service.py, with the CRUD of           *)
(* app/api/recurring_expenses.py and its repository).                      *)
(*                                                                         *)
(* Dates are day numbers.  The calendar is a constant: the day on which    *)
(* each month begins, months being counted from the first of a year.  It   *)
(* ends, as Python's dates do.  Amounts are integers in the smallest unit. *)
(***************************************************************************)
EXTENDS Integers, FiniteSets, Functions

CONSTANTS
    Ids,
    First,          \* the first day of each month; its last value ends the calendar
    MaxMonth,       \* the last month
    Inputs,         \* the commitments that requests may contain
    Sweep,          \* the days on which forecasts are asked for
    Horizons,       \* the values of horizon_days
    None

Months == 0..MaxMonth

Days == First[0]..First[MaxMonth + 1] - 1

ASSUME CalendarAssumption ==
    /\ MaxMonth \in Nat
    /\ First \in [0..MaxMonth + 1 -> Int]
    /\ \A m \in Months, n \in 0..MaxMonth + 1 : m < n => First[n] - First[m] >= 28 * (n - m)
    /\ \A d \in Days : \E m \in Months : First[m] <= d /\ d < First[m + 1]

Frequencies == {"DAILY", "WEEKLY", "MONTHLY", "YEARLY"}

Row == [amount: Nat, frequency: Frequencies, start: Days, end: Days \cup {None}, active: BOOLEAN]

ASSUME InputAssumption ==
    /\ Inputs \subseteq Row /\ Sweep \subseteq Days /\ Horizons \subseteq Nat \ {0}
    /\ None \notin Int /\ None \notin Row
    /\ \A d \in Sweep, h \in Horizons : d + h \in Days

VARIABLES
    expense,    \* recurring_expenses: a row, or None
    today

vars == <<expense, today>>

-----------------------------------------------------------------------------
(* Dates. *)

MonthOf == [d \in Days |-> CHOOSE m \in Months : First[m] <= d /\ d < First[m + 1]]

YearOf(d) == MonthOf[d] \div 12

DayOf(d) == d - First[MonthOf[d]] + 1

Length(m) == First[m + 1] - First[m]

\* date(year, month, min(day, monthrange(year, month)[1]))
Clamped(m, day) == First[m] + (IF day <= Length(m) THEN day ELSE Length(m)) - 1

-----------------------------------------------------------------------------
(* Definitions called Mutant_... are deliberate mistakes that nothing refers *)
(* to: each replaces the definition after it to see a property fail.         *)

\* Frequencies are counted in days or in months.
Step(f) == CASE f = "DAILY" -> 1 [] f = "WEEKLY" -> 7 [] f = "MONTHLY" -> 1 [] f = "YEARLY" -> 12

InDays(f) == f \in {"DAILY", "WEEKLY"}

\* _occurrence_date
Occurrence(start, f, n) ==
    IF InDays(f) THEN start + Step(f) * n
    ELSE Clamped(MonthOf[start] + Step(f) * n, DayOf(start))

\* The indexes whose dates exist; beyond them Python raises an error.
IsIndex(start, f, n) ==
    IF InDays(f) THEN start + Step(f) * n \in Days ELSE MonthOf[start] + Step(f) * n \in Months

NotNegative(n) == IF n < 0 THEN 0 ELSE n

Mutant_FirstIndex(start, f, from) ==
    IF from <= start THEN 0
    ELSE CASE f = "DAILY"   -> from - start
           [] f = "WEEKLY"  -> (from - start) \div 7
           [] f = "MONTHLY" -> MonthOf[from] - MonthOf[start]
           [] f = "YEARLY"  -> YearOf(from) - YearOf(start) + 1

\* _first_candidate_index
FirstIndex(start, f, from) ==
    IF from <= start THEN 0
    ELSE CASE f = "DAILY"   -> from - start
           [] f = "WEEKLY"  -> NotNegative((from - start) \div 7)
           [] f = "MONTHLY" -> NotNegative(MonthOf[from] - MonthOf[start] - 1)
           [] f = "YEARLY"  -> NotNegative(YearOf(from) - YearOf(start) - 1)

EffectiveEnd(r, to) == IF r.end # None /\ r.end < to THEN r.end ELSE to

\* The loop of count_occurrences goes through the dates from the first candidate
\* on and ends at the first one past the end.  Every step is a day at least.
Counted(r, from, to) ==
    LET first == FirstIndex(r.start, r.frequency, from)
        date(n) == Occurrence(r.start, r.frequency, n)
    IN  {n \in first..to - r.start :
            /\ IsIndex(r.start, r.frequency, n)
            /\ \A k \in first..n : date(k) <= EffectiveEnd(r, to)
            /\ date(n) >= from}

\* It raises an error for a range that ends before it begins.
CanCount(from, to) == from <= to

\* count_occurrences
Count(r, from, to) ==
    IF to < r.start \/ (r.end # None /\ from > r.end) THEN 0
    ELSE Cardinality(Counted(r, from, to))

-----------------------------------------------------------------------------
(* build_recurring_coverage.  It counts three ranges of a commitment: the horizon,  *)
(* the contract (start..end) and what is left (d..end).  Reserves are quotients of  *)
(* the totals.                                                                      *)

Through(d, h) == d + h - 1

HorizonTotal(r, d, h) == r.amount * Count(r, d, Through(d, h))

\* What is left of a commitment cannot be counted after its end, and the error is
\* not caught: the whole forecast fails.
CoverageFails(d) ==
    \E e \in Ids :
        expense[e] # None /\ expense[e].end # None /\ ~CanCount(d, expense[e].end)

Mutant_Included(e, d, h) == expense[e] # None /\ Count(expense[e], d, Through(d, h)) > 0

Included(e, d, h) ==
    expense[e] # None /\ expense[e].active /\ Count(expense[e], d, Through(d, h)) > 0

CoveredTotal(d, h) ==
    SumFunction([e \in {x \in Ids : Included(x, d, h)} |-> HorizonTotal(expense[e], d, h)])

-----------------------------------------------------------------------------
(* The rows: single statements, scoped by user. *)

Mutant_IsAccepted(r) == TRUE

\* RecurringExpenseInput.validate_date_range
IsAccepted(r) == r.end # None => r.end >= r.start

CreateOne ==
    \E e \in Ids, r \in Inputs :
        /\ expense[e] = None
        /\ IsAccepted(r)
        /\ expense' = [expense EXCEPT ![e] = r]
        /\ UNCHANGED today

UpdateOne ==
    \E e \in Ids, r \in Inputs :
        /\ expense[e] # None
        /\ IsAccepted(r)
        /\ expense' = [expense EXCEPT ![e] = r]
        /\ UNCHANGED today

DeleteOne ==
    \E e \in Ids :
        /\ expense[e] # None
        /\ expense' = [expense EXCEPT ![e] = None]
        /\ UNCHANGED today

NewDay ==
    /\ today + 1 \in Sweep
    /\ today' = today + 1
    /\ UNCHANGED expense

Init == expense = [e \in Ids |-> None] /\ today \in Sweep

Next == CreateOne \/ UpdateOne \/ DeleteOne \/ NewDay

Spec == Init /\ [][Next]_vars

-----------------------------------------------------------------------------
(* Properties. *)

TypeOK ==
    /\ expense \in [Ids -> {r \in Row : r.end # None => r.end >= r.start} \cup {None}]
    /\ today \in Sweep

\* What a commitment means, without counting: a payment is due every day, every
\* seventh day, or on the day of its start in every month or year - on the last
\* day of a month that is too short for it.
IsDue(r, d) ==
    /\ r.start <= d /\ (r.end # None => d <= r.end)
    /\ \/ r.frequency = "DAILY"
       \/ r.frequency = "WEEKLY" /\ (d - r.start) % 7 = 0
       \/ /\ r.frequency \in {"MONTHLY", "YEARLY"}
          /\ r.frequency = "YEARLY" => (MonthOf[d] - MonthOf[r.start]) % 12 = 0
          /\ \/ DayOf(d) = DayOf(r.start)
             \/ DayOf(d) = Length(MonthOf[d]) /\ DayOf(d) < DayOf(r.start)

DueDays(r, from, to) == {d \in from..to : IsDue(r, d)}

\* The forecast counts the payments that are due, none skipped by the index it
\* starts from and none counted past the end: within the horizon, in a contract
\* and in what is left of it.
CountIsExact ==
    \A e \in Ids : expense[e] # None =>
        LET r == expense[e]
            exact(from, to) == Count(r, from, to) = Cardinality(DueDays(r, from, to))
        IN  /\ \A h \in Horizons : exact(today, Through(today, h))
            /\ r.end # None => exact(r.start, r.end)
            /\ r.end # None /\ CanCount(today, r.end) => exact(today, r.end)

\* What is covered is what falls due, cent by cent, of commitments not paused,
\* when there is an answer.
CoveredIsWhatFallsDue ==
    ~CoverageFails(today) =>
        \A h \in Horizons :
            LET cents(e) == {<<e, d, k>> : d \in DueDays(expense[e], today, Through(today, h)),
                                         k \in 1..expense[e].amount}
                active == {e \in Ids : expense[e] # None /\ expense[e].active}
            IN  CoveredTotal(today, h) = Cardinality(UNION {cents(e) : e \in active})

\* README.md:31: the forecast respects the end dates of commitments.  A
\* commitment that has ended is none of its business.
ForecastRespectsEnds == ~CoverageFails(today)
=============================================================================
