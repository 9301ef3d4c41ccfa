---------------------- MODULE RecurringForecastProofs ----------------------
(***************************************************************************)
(* CountIsExact and CoveredIsWhatFallsDue for every calendar and all       *)
(* commitments.  A payment is due on the dates of the occurrences; the     *)
(* loop of count_occurrences counts the occurrences of its range, because  *)
(* dates increase with the index and those before the first candidate are  *)
(* before the range.  The cents of different payments are different, so    *)
(* that the sum of the totals is the size of the set of all cents due.     *)
(***************************************************************************)
EXTENDS RecurringForecast, FiniteSetTheorems, WellFoundedInduction, TLAPS

-----------------------------------------------------------------------------
(* The calendar. *)

LEMMA MonthTypes ==
  /\ MaxMonth \in Nat
  /\ \A m \in 0..MaxMonth + 1 : First[m] \in Int
  /\ \A m \in Months : m \in Nat /\ m + 1 \in 0..MaxMonth + 1 /\ m \in 0..MaxMonth + 1
  /\ \A d \in Days : d \in Int
BY CalendarAssumption DEF Months, Days

LEMMA MonthsIncrease ==
  ASSUME NEW m \in Months, NEW n \in 0..MaxMonth + 1, m < n
  PROVE  First[n] - First[m] >= 28 * (n - m)
BY CalendarAssumption

\* Every day is in one month.
LEMMA MonthOfDay ==
  ASSUME NEW d \in Days
  PROVE  /\ MonthOf[d] \in Months
         /\ First[MonthOf[d]] <= d /\ d < First[MonthOf[d] + 1]
<1> DEFINE In(m) == First[m] <= d /\ d < First[m + 1]
<1>1. \E m \in Months : In(m)
  BY CalendarAssumption
<1>2. MonthOf[d] = CHOOSE m \in Months : In(m)
  BY DEF MonthOf
<1>3. (CHOOSE m \in Months : In(m)) \in Months /\ In(CHOOSE m \in Months : In(m))
  BY <1>1
<1> QED BY <1>2, <1>3

LEMMA MonthIsUnique ==
  ASSUME NEW d \in Days, NEW m \in Months, First[m] <= d, d < First[m + 1]
  PROVE  MonthOf[d] = m
<1>1. /\ MonthOf[d] \in Months /\ m \in Nat /\ MonthOf[d] \in Nat /\ d \in Int
      /\ First[MonthOf[d]] <= d /\ d < First[MonthOf[d] + 1]
  BY MonthOfDay, MonthTypes
<1>2. CASE MonthOf[d] < m
  <2>1. m # MonthOf[d] + 1 => First[m] - First[MonthOf[d] + 1] >= 28 * (m - (MonthOf[d] + 1))
    BY <1>1, <1>2, MonthsIncrease, MonthTypes DEF Months
  <2>2. First[MonthOf[d] + 1] <= First[m]
    BY <1>1, <1>2, <2>1, MonthTypes
  <2> QED BY <1>1, <2>2, MonthTypes
<1>3. CASE m < MonthOf[d]
  <2>1. MonthOf[d] # m + 1 => First[MonthOf[d]] - First[m + 1] >= 28 * (MonthOf[d] - (m + 1))
    BY <1>1, <1>3, MonthsIncrease, MonthTypes DEF Months
  <2>2. First[m + 1] <= First[MonthOf[d]]
    BY <1>1, <1>3, <2>1, MonthTypes
  <2> QED BY <1>1, <2>2, MonthTypes
<1> QED BY <1>1, <1>2, <1>3

\* A month lies within the calendar.
LEMMA MonthsAreDays ==
  ASSUME NEW m \in Months
  PROVE  First[m]..First[m + 1] - 1 \subseteq Days /\ Length(m) \in Nat /\ Length(m) >= 28
<1>1. m \in Nat /\ MaxMonth \in Nat /\ m <= MaxMonth
  BY MonthTypes DEF Months
<1>2. First[m] \in Int /\ First[m + 1] \in Int /\ First[0] \in Int /\ First[MaxMonth + 1] \in Int
  BY <1>1, MonthTypes
<1>3. First[m + 1] - First[m] >= 28 * ((m + 1) - m)
  BY <1>1, MonthsIncrease, MonthTypes
<1>4. m # 0 => First[m] - First[0] >= 28 * (m - 0)
  BY <1>1, MonthsIncrease, MonthTypes DEF Months
<1>5. m # MaxMonth => First[MaxMonth + 1] - First[m + 1] >= 28 * ((MaxMonth + 1) - (m + 1))
  BY <1>1, MonthsIncrease, MonthTypes DEF Months
<1>6. First[0] <= First[m] /\ First[m + 1] <= First[MaxMonth + 1]
  BY <1>1, <1>2, <1>4, <1>5
<1>7. First[m + 1] - First[m] >= 28
  BY <1>1, <1>2, <1>3
<1>8. First[m]..First[m + 1] - 1 \subseteq Days
  BY <1>2, <1>6 DEF Days
<1> QED BY <1>2, <1>7, <1>8 DEF Length

LEMMA DayOfDay ==
  ASSUME NEW d \in Days
  PROVE  DayOf(d) \in Nat /\ 1 <= DayOf(d) /\ DayOf(d) <= Length(MonthOf[d])
BY MonthOfDay, MonthTypes DEF DayOf, Length

LEMMA ClampedIsInMonth ==
  ASSUME NEW m \in Months, NEW k \in Nat, 1 <= k
  PROVE  /\ Clamped(m, k) \in Days /\ MonthOf[Clamped(m, k)] = m
         /\ First[m] <= Clamped(m, k) /\ Clamped(m, k) < First[m + 1]
<1>1. First[m] \in Int /\ First[m + 1] \in Int /\ Length(m) \in Nat /\ Length(m) >= 28
  BY MonthTypes, MonthsAreDays
<1>2. Clamped(m, k) \in Int /\ First[m] <= Clamped(m, k) /\ Clamped(m, k) < First[m + 1]
  BY <1>1 DEF Clamped, Length
<1>3. Clamped(m, k) \in Days
  BY <1>1, <1>2, MonthsAreDays
<1> QED BY <1>2, <1>3, MonthIsUnique

-----------------------------------------------------------------------------
(* Occurrences. *)

LEMMA OccurrenceTypes ==
  ASSUME NEW s \in Days, NEW f \in Frequencies, NEW n \in Nat, IsIndex(s, f, n)
  PROVE  Occurrence(s, f, n) \in Days
<1>1. CASE InDays(f)
  BY <1>1 DEF Occurrence, IsIndex
<1>2. CASE ~InDays(f)
  BY <1>2, DayOfDay, ClampedIsInMonth DEF Occurrence, IsIndex
<1> QED BY <1>1, <1>2

LEMMA StepTypes ==
  ASSUME NEW f \in Frequencies
  PROVE  Step(f) \in Nat /\ Step(f) >= 1
BY DEF Step, Frequencies

\* The first occurrence is the start.
LEMMA StartOccurs ==
  ASSUME NEW s \in Days, NEW f \in Frequencies
  PROVE  IsIndex(s, f, 0) /\ Occurrence(s, f, 0) = s
<1>1. s \in Int /\ Step(f) * 0 = 0 /\ MonthOf[s] \in Months /\ MonthOf[s] \in Nat
  BY MonthTypes, MonthOfDay, StepTypes
<1>2. Clamped(MonthOf[s], DayOf(s)) = s
  BY <1>1, DayOfDay, MonthTypes DEF Clamped, DayOf
<1> QED BY <1>1, <1>2 DEF IsIndex, Occurrence

\* Indexes are counted from 0.
LEMMA IndexesAreInitial ==
  ASSUME NEW s \in Days, NEW f \in Frequencies, NEW n \in Nat, IsIndex(s, f, n),
         NEW k \in 0..n
  PROVE  k \in Nat /\ IsIndex(s, f, k)
<1>1. Step(f) \in Nat /\ k \in Nat /\ k <= n /\ s \in Int
  BY StepTypes, MonthTypes
<1>2. Step(f) * k <= Step(f) * n /\ Step(f) * k \in Nat /\ Step(f) * n \in Nat
  BY <1>1 DEF Step, Frequencies
<1>3. CASE InDays(f)
  BY <1>1, <1>2, <1>3, MonthTypes DEF IsIndex, Days
<1>4. CASE ~InDays(f)
  BY <1>1, <1>2, <1>4, MonthTypes, MonthOfDay DEF IsIndex, Months
<1> QED BY <1>1, <1>3, <1>4

\* Dates increase with the index, by at least a day each.
LEMMA OccurrencesIncrease ==
  ASSUME NEW s \in Days, NEW f \in Frequencies, NEW i \in Nat, NEW j \in Nat, i < j,
         IsIndex(s, f, i), IsIndex(s, f, j)
  PROVE  Occurrence(s, f, j) - Occurrence(s, f, i) >= j - i
<1>1. CASE InDays(f)
  BY <1>1, MonthTypes DEF InDays, Occurrence, Step, Frequencies
<1>2. CASE ~InDays(f)
  <2> DEFINE a == MonthOf[s] + Step(f) * i
             b == MonthOf[s] + Step(f) * j
  <2>1. a \in Months /\ b \in Months
    BY <1>2 DEF IsIndex
  <2>2. a \in Nat /\ b \in Nat /\ b - a >= j - i
    BY <1>2, <2>1, MonthTypes, MonthOfDay DEF InDays, Step, Frequencies
  <2>3. /\ Occurrence(s, f, i) = Clamped(a, DayOf(s))
        /\ Occurrence(s, f, j) = Clamped(b, DayOf(s))
    BY <1>2 DEF Occurrence
  <2> HIDE DEF a, b
  <2>4. /\ Clamped(a, DayOf(s)) \in Int /\ Clamped(a, DayOf(s)) < First[a + 1]
        /\ Clamped(b, DayOf(s)) \in Int /\ First[b] <= Clamped(b, DayOf(s))
    BY <2>1, DayOfDay, ClampedIsInMonth, MonthTypes
  <2>5. a + 1 # b => First[b] - First[a + 1] >= 28 * (b - (a + 1))
    BY <2>1, <2>2, MonthsIncrease, MonthTypes DEF Months
  <2>6. First[b] \in Int /\ First[a + 1] \in Int
    BY <2>1, MonthTypes
  <2>7. First[b] - First[a + 1] >= b - (a + 1)
    BY <2>2, <2>5, <2>6
  <2> QED BY <2>2, <2>3, <2>4, <2>6, <2>7
<1> QED BY <1>1, <1>2

-----------------------------------------------------------------------------
(* The loop. *)

LEMMA FirstIndexType ==
  ASSUME NEW s \in Days, NEW f \in Frequencies, NEW from \in Days
  PROVE  FirstIndex(s, f, from) \in Nat
<1>1. /\ s \in Int /\ from \in Int
      /\ MonthOf[s] \in Nat /\ MonthOf[from] \in Nat /\ YearOf(s) \in Nat /\ YearOf(from) \in Nat
  BY MonthTypes, MonthOfDay DEF YearOf
<1> QED BY <1>1 DEF FirstIndex, NotNegative, Frequencies

LEMMA EarlierMonth ==
  ASSUME NEW d \in Days, NEW m \in Months, m < MonthOf[d], NEW k \in Nat, 1 <= k
  PROVE  Clamped(m, k) < d
<1>1. /\ Clamped(m, k) \in Int /\ Clamped(m, k) < First[m + 1] /\ d \in Int
      /\ MonthOf[d] \in Months /\ MonthOf[d] \in Nat /\ m \in Nat /\ First[MonthOf[d]] <= d
  BY ClampedIsInMonth, MonthTypes, MonthOfDay
<1>2. m + 1 # MonthOf[d] => First[MonthOf[d]] - First[m + 1] >= 28 * (MonthOf[d] - (m + 1))
  BY <1>1, MonthsIncrease, MonthTypes DEF Months
<1>3. First[MonthOf[d]] \in Int /\ First[m + 1] \in Int
  BY <1>1, MonthTypes
<1>4. First[m + 1] <= First[MonthOf[d]]
  BY <1>1, <1>2, <1>3
<1> QED BY <1>1, <1>3, <1>4

\* _first_candidate_index skips no date of the range.
LEMMA NothingIsSkipped ==
  ASSUME NEW s \in Days, NEW f \in Frequencies, NEW from \in Days,
         NEW n \in Nat, n < FirstIndex(s, f, from), IsIndex(s, f, n)
  PROVE  Occurrence(s, f, n) < from
<1>1. /\ s \in Int /\ from \in Int /\ MonthOf[s] \in Nat /\ MonthOf[from] \in Nat
      /\ DayOf(s) \in Nat /\ 1 <= DayOf(s) /\ ~(from <= s)
  BY MonthTypes, MonthOfDay, DayOfDay DEF FirstIndex
<1>2. CASE f = "DAILY"
  BY <1>1, <1>2 DEF FirstIndex, Occurrence, InDays, Step
<1>3. CASE f = "WEEKLY"
  <2>1. n < (from - s) \div 7
    BY <1>1, <1>3 DEF FirstIndex, NotNegative
  <2>2. s + 7 * n < from
    BY <1>1, <2>1
  <2> QED BY <1>3, <2>2 DEF Occurrence, InDays, Step
<1>4. ASSUME ~InDays(f), MonthOf[s] + Step(f) * n < MonthOf[from]
      PROVE  Occurrence(s, f, n) < from
  BY <1>1, <1>4, EarlierMonth DEF Occurrence, IsIndex
<1>5. CASE f = "MONTHLY"
  <2>1. n < MonthOf[from] - MonthOf[s] - 1
    BY <1>1, <1>5 DEF FirstIndex, NotNegative
  <2>2. ~InDays(f) /\ Step(f) = 1
    BY <1>5 DEF InDays, Step
  <2> QED BY <1>1, <1>4, <2>1, <2>2
<1>6. CASE f = "YEARLY"
  <2>1. n < (MonthOf[from] \div 12) - (MonthOf[s] \div 12) - 1
    BY <1>1, <1>6 DEF FirstIndex, NotNegative, YearOf
  <2>2. ~InDays(f) /\ Step(f) = 12
    BY <1>6 DEF InDays, Step
  <2>3. MonthOf[s] + 12 * n < MonthOf[from]
    BY <1>1, <2>1
  <2> QED BY <1>4, <2>2, <2>3
<1> QED BY <1>2, <1>3, <1>5, <1>6 DEF Frequencies

LEMMA EndTypes ==
  ASSUME NEW r \in Row, NEW to \in Int
  PROVE  /\ r.start \in Days /\ r.frequency \in Frequencies /\ r.start \in Int
         /\ r.end # None => r.end \in Days /\ r.end \in Int
         /\ EffectiveEnd(r, to) \in Int /\ EffectiveEnd(r, to) <= to
         /\ \A d \in Int : d <= EffectiveEnd(r, to) <=> d <= to /\ (r.end # None => d <= r.end)
BY MonthTypes DEF Row, EffectiveEnd

\* The loop counts the occurrences within its range.
LEMMA CountedAreInRange ==
  ASSUME NEW r \in Row, NEW from \in Days, NEW to \in Int
  PROVE  Counted(r, from, to) =
            {n \in Nat : /\ IsIndex(r.start, r.frequency, n)
                         /\ from <= Occurrence(r.start, r.frequency, n)
                         /\ Occurrence(r.start, r.frequency, n) <= EffectiveEnd(r, to)}
<1> DEFINE s == r.start  f == r.frequency  first == FirstIndex(s, f, from)
           last == EffectiveEnd(r, to)
<1>1. /\ s \in Days /\ s \in Int /\ f \in Frequencies /\ first \in Nat /\ from \in Int
      /\ last \in Int /\ last <= to
  BY EndTypes, FirstIndexType, MonthTypes
<1>2. Counted(r, from, to) =
         {n \in first..to - s :
            /\ IsIndex(s, f, n)
            /\ \A k \in first..n : Occurrence(s, f, k) <= last
            /\ Occurrence(s, f, n) >= from}
  BY DEF Counted
<1> HIDE DEF s, f, first, last
<1>3. ASSUME NEW n \in first..to - s, \A k \in first..n : Occurrence(s, f, k) <= last
      PROVE  n \in Nat /\ Occurrence(s, f, n) <= last
  BY <1>1, <1>3
<1>4. ASSUME NEW n \in Nat, IsIndex(s, f, n), from <= Occurrence(s, f, n),
             Occurrence(s, f, n) <= last
      PROVE  n \in first..to - s /\ \A k \in first..n : Occurrence(s, f, k) <= last
  <2>1. Occurrence(s, f, n) \in Int
    BY <1>1, <1>4, OccurrenceTypes, MonthTypes
  <2>2. first <= n
    BY <1>1, <1>4, <2>1, NothingIsSkipped DEF first, s, f
  <2>3. n <= to - s
    <3>1. n # 0 => Occurrence(s, f, n) - Occurrence(s, f, 0) >= n - 0
      BY <1>1, <1>4, StartOccurs, OccurrencesIncrease
    <3>2. Occurrence(s, f, 0) = s
      BY <1>1, StartOccurs
    <3> QED BY <1>1, <1>4, <2>1, <3>1, <3>2
  <2>4. ASSUME NEW k \in first..n
        PROVE  Occurrence(s, f, k) <= last
    <3>1. k \in 0..n /\ k \in Nat
      BY <1>1
    <3>2. IsIndex(s, f, k)
      BY <1>1, <1>4, <3>1, IndexesAreInitial
    <3>3. Occurrence(s, f, k) \in Int
      BY <1>1, <3>1, <3>2, OccurrenceTypes, MonthTypes
    <3>4. k # n => Occurrence(s, f, n) - Occurrence(s, f, k) >= n - k
      BY <1>1, <1>4, <3>1, <3>2, OccurrencesIncrease
    <3> QED BY <1>1, <1>4, <2>1, <3>1, <3>3, <3>4
  <2> QED BY <1>1, <2>2, <2>3, <2>4
<1>5. ASSUME NEW n \in Nat, IsIndex(s, f, n)
      PROVE  from <= Occurrence(s, f, n) <=> Occurrence(s, f, n) >= from
  BY <1>1, <1>5, OccurrenceTypes, MonthTypes
<1>6. Counted(r, from, to) =
        {n \in Nat : /\ IsIndex(s, f, n) /\ from <= Occurrence(s, f, n)
                     /\ Occurrence(s, f, n) <= last}
  BY <1>2, <1>3, <1>4, <1>5
<1> QED BY <1>6 DEF s, f, last

-----------------------------------------------------------------------------
(* Payments are due on the dates of the occurrences. *)

Occurs(r, d) ==
    \E n \in Nat : IsIndex(r.start, r.frequency, n) /\ Occurrence(r.start, r.frequency, n) = d

LEMMA OccursLater ==
  ASSUME NEW r \in Row, NEW d \in Days, Occurs(r, d)
  PROVE  r.start <= d
<1>1. PICK n \in Nat : /\ IsIndex(r.start, r.frequency, n)
                       /\ Occurrence(r.start, r.frequency, n) = d
  BY DEF Occurs
<1>2. r.start \in Days /\ r.frequency \in Frequencies /\ r.start \in Int /\ d \in Int
  BY MonthTypes DEF Row
<1>3. IsIndex(r.start, r.frequency, 0) /\ Occurrence(r.start, r.frequency, 0) = r.start
  BY <1>2, StartOccurs
<1>4. n # 0 => d - r.start >= n - 0
  BY <1>1, <1>2, <1>3, OccurrencesIncrease
<1> QED BY <1>1, <1>2, <1>3, <1>4

\* Days of a month that are the clamped day k.
LEMMA ClampedDay ==
  ASSUME NEW d \in Days, NEW k \in Nat, 1 <= k
  PROVE  Clamped(MonthOf[d], k) = d
            <=> DayOf(d) = k \/ (DayOf(d) = Length(MonthOf[d]) /\ DayOf(d) < k)
<1>1. /\ d \in Int /\ MonthOf[d] \in Months /\ First[MonthOf[d]] \in Int
      /\ Length(MonthOf[d]) \in Nat /\ DayOf(d) \in Nat /\ DayOf(d) <= Length(MonthOf[d])
  BY MonthTypes, MonthOfDay, MonthsAreDays, DayOfDay
<1>2. d = First[MonthOf[d]] + DayOf(d) - 1
  BY <1>1 DEF DayOf
<1> QED BY <1>1, <1>2 DEF Clamped

LEMMA MonthsAreOrdered ==
  ASSUME NEW d \in Days, NEW e \in Days, d <= e
  PROVE  MonthOf[d] <= MonthOf[e]
<1>1. /\ MonthOf[d] \in Months /\ MonthOf[e] \in Months /\ MonthOf[d] \in Nat /\ MonthOf[e] \in Nat
      /\ d \in Int /\ e \in Int /\ First[MonthOf[d]] <= d /\ e < First[MonthOf[e] + 1]
      /\ First[MonthOf[d]] \in Int /\ First[MonthOf[e] + 1] \in Int
  BY MonthTypes, MonthOfDay
<1> SUFFICES ASSUME MonthOf[e] < MonthOf[d] PROVE FALSE
  BY <1>1
<1>2. MonthOf[e] + 1 # MonthOf[d] =>
         First[MonthOf[d]] - First[MonthOf[e] + 1] >= 28 * (MonthOf[d] - (MonthOf[e] + 1))
  BY <1>1, MonthsIncrease, MonthTypes DEF Months
<1>3. First[MonthOf[e] + 1] <= First[MonthOf[d]]
  BY <1>1, <1>2
<1> QED BY <1>1, <1>3

\* The index at which a day of the n-th month or so after the start may occur.
LEMMA OccursInMonth ==
  ASSUME NEW r \in Row, ~InDays(r.frequency), NEW d \in Days, NEW n \in Nat,
         MonthOf[d] = MonthOf[r.start] + Step(r.frequency) * n
  PROVE  IsIndex(r.start, r.frequency, n)
         /\ (Occurrence(r.start, r.frequency, n) = d
               <=> \/ DayOf(d) = DayOf(r.start)
                   \/ DayOf(d) = Length(MonthOf[d]) /\ DayOf(d) < DayOf(r.start))
<1>1. r.start \in Days /\ MonthOf[d] \in Months
  BY MonthOfDay DEF Row
<1>2. DayOf(r.start) \in Nat /\ 1 <= DayOf(r.start)
  BY <1>1, DayOfDay
<1> QED BY <1>1, <1>2, ClampedDay DEF IsIndex, Occurrence

LEMMA OccurrenceMonth ==
  ASSUME NEW r \in Row, ~InDays(r.frequency), NEW n \in Nat,
         IsIndex(r.start, r.frequency, n)
  PROVE  MonthOf[Occurrence(r.start, r.frequency, n)] = MonthOf[r.start] + Step(r.frequency) * n
<1>1. r.start \in Days
  BY DEF Row
<1>2. DayOf(r.start) \in Nat /\ 1 <= DayOf(r.start)
  BY <1>1, DayOfDay
<1> QED BY <1>2, ClampedIsInMonth DEF IsIndex, Occurrence

LEMMA DueIsOccurrence ==
  ASSUME NEW r \in Row, NEW d \in Days
  PROVE  IsDue(r, d) <=> Occurs(r, d) /\ (r.end # None => d <= r.end)
<1> DEFINE s == r.start  f == r.frequency
           onDay == \/ DayOf(d) = DayOf(s)
                    \/ DayOf(d) = Length(MonthOf[d]) /\ DayOf(d) < DayOf(s)
<1>1. s \in Days /\ s \in Int /\ f \in Frequencies /\ d \in Int
      /\ MonthOf[s] \in Nat /\ MonthOf[d] \in Nat
  BY MonthTypes, MonthOfDay DEF Row
<1>2. Occurs(r, d) => s <= d
  BY OccursLater
<1>3. CASE f = "DAILY"
  <2>1. s <= d => IsIndex(s, f, d - s) /\ Occurrence(s, f, d - s) = d /\ d - s \in Nat
    BY <1>1, <1>3 DEF IsIndex, Occurrence, InDays, Step
  <2>2. s <= d => Occurs(r, d)
    BY <2>1 DEF Occurs
  <2> QED BY <1>1, <1>2, <1>3, <2>2 DEF IsDue
<1>4. CASE f = "WEEKLY"
  <2>1. ASSUME s <= d, (d - s) % 7 = 0
        PROVE  Occurs(r, d)
    <3>1. (d - s) \div 7 \in Nat /\ s + 7 * ((d - s) \div 7) = d
      BY <1>1, <2>1
    <3> QED BY <1>4, <3>1 DEF Occurs, IsIndex, Occurrence, InDays, Step
  <2>2. ASSUME Occurs(r, d)
        PROVE  (d - s) % 7 = 0
    <3>1. PICK n \in Nat : s + 7 * n = d
      BY <1>4, <2>2 DEF Occurs, Occurrence, InDays, Step
    <3> QED BY <1>1, <3>1
  <2> QED BY <1>1, <1>2, <1>4, <2>1, <2>2 DEF IsDue
<1>5. CASE f = "MONTHLY"
  <2>1. ~InDays(f) /\ Step(f) = 1
    BY <1>5 DEF InDays, Step
  <2>2. ASSUME s <= d, onDay
        PROVE  Occurs(r, d)
    <3>1. /\ MonthOf[d] - MonthOf[s] \in Nat
          /\ MonthOf[d] = MonthOf[s] + Step(f) * (MonthOf[d] - MonthOf[s])
      BY <1>1, <2>1, <2>2, MonthsAreOrdered
    <3> QED BY <2>1, <2>2, <3>1, OccursInMonth DEF Occurs
  <2>3. ASSUME Occurs(r, d)
        PROVE  onDay
    BY <2>1, <2>3, OccurrenceMonth, OccursInMonth DEF Occurs
  <2> QED BY <1>1, <1>2, <1>5, <2>2, <2>3 DEF IsDue
<1>6. CASE f = "YEARLY"
  <2>1. ~InDays(f) /\ Step(f) = 12
    BY <1>6 DEF InDays, Step
  <2>2. ASSUME s <= d, onDay, (MonthOf[d] - MonthOf[s]) % 12 = 0
        PROVE  Occurs(r, d)
    <3>1. MonthOf[s] <= MonthOf[d]
      BY <1>1, <2>2, MonthsAreOrdered
    <3>2. PICK n \in Nat : n = (MonthOf[d] - MonthOf[s]) \div 12
      BY <1>1, <3>1
    <3>3. MonthOf[d] = MonthOf[s] + Step(f) * n
      BY <1>1, <2>1, <2>2, <3>2
    <3> QED BY <2>1, <2>2, <3>3, OccursInMonth DEF Occurs
  <2>3. ASSUME Occurs(r, d)
        PROVE  onDay /\ (MonthOf[d] - MonthOf[s]) % 12 = 0
    <3>1. PICK n \in Nat : IsIndex(s, f, n) /\ Occurrence(s, f, n) = d
      BY <2>3 DEF Occurs
    <3>2. MonthOf[d] = MonthOf[s] + Step(f) * n
      BY <2>1, <3>1, OccurrenceMonth
    <3>3. onDay
      BY <2>1, <3>1, <3>2, OccursInMonth
    <3>4. (MonthOf[d] - MonthOf[s]) % 12 = 0
      BY <1>1, <2>1, <3>2
    <3> QED BY <3>3, <3>4
  <2> QED BY <1>1, <1>2, <1>6, <2>2, <2>3 DEF IsDue
<1> QED BY <1>1, <1>3, <1>4, <1>5, <1>6 DEF Frequencies

-----------------------------------------------------------------------------
(* The count. *)

\* The loop counts one index for every day on which a payment is due.
LEMMA CountedMatchDueDays ==
  ASSUME NEW r \in Row, NEW from \in Days, NEW to \in Days
  PROVE  Cardinality(Counted(r, from, to)) = Cardinality(DueDays(r, from, to))
<1> DEFINE s == r.start  f == r.frequency
           S == Counted(r, from, to)
           T == DueDays(r, from, to)
           date == [n \in S |-> Occurrence(s, f, n)]
<1>1. s \in Days /\ f \in Frequencies /\ from \in Int /\ to \in Int
  BY MonthTypes DEF Row
<1>2. S = {n \in Nat : /\ IsIndex(s, f, n) /\ from <= Occurrence(s, f, n)
                      /\ Occurrence(s, f, n) <= EffectiveEnd(r, to)}
  BY <1>1, CountedAreInRange
<1>3. from..to \subseteq Days
  BY <1>1, MonthTypes, CalendarAssumption DEF Days
<1> HIDE DEF S, s, f
<1>4. ASSUME NEW n \in S
      PROVE  Occurrence(s, f, n) \in T
  <2>1. n \in Nat /\ IsIndex(s, f, n) /\ from <= Occurrence(s, f, n)
        /\ Occurrence(s, f, n) <= EffectiveEnd(r, to)
    BY <1>2, <1>4
  <2>2. Occurrence(s, f, n) \in Days /\ Occurrence(s, f, n) \in Int
    BY <1>1, <2>1, OccurrenceTypes, MonthTypes
  <2>3. /\ Occurrence(s, f, n) <= to
        /\ r.end # None => Occurrence(s, f, n) <= r.end
    BY <1>1, <2>1, <2>2, EndTypes
  <2>4. Occurs(r, Occurrence(s, f, n))
    BY <2>1 DEF Occurs, s, f
  <2>5. IsDue(r, Occurrence(s, f, n))
    BY <2>2, <2>3, <2>4, DueIsOccurrence
  <2> QED BY <1>1, <2>1, <2>2, <2>3, <2>5 DEF DueDays
<1>5. ASSUME NEW i \in S, NEW j \in S, i # j
      PROVE  date[i] # date[j]
  <2>1. /\ i \in Nat /\ j \in Nat /\ IsIndex(s, f, i) /\ IsIndex(s, f, j)
        /\ Occurrence(s, f, i) \in Int /\ Occurrence(s, f, j) \in Int
    BY <1>1, <1>2, OccurrenceTypes, MonthTypes
  <2>2. /\ i < j => Occurrence(s, f, j) - Occurrence(s, f, i) >= j - i
        /\ j < i => Occurrence(s, f, i) - Occurrence(s, f, j) >= i - j
    BY <1>1, <2>1, OccurrencesIncrease
  <2>3. Occurrence(s, f, i) # Occurrence(s, f, j)
    BY <1>5, <2>1, <2>2
  <2> QED BY <2>3
<1>6. ASSUME NEW d \in T
      PROVE  \E n \in S : date[n] = d
  <2>1. d \in from..to /\ d \in Days /\ d \in Int /\ IsDue(r, d)
    BY <1>3, MonthTypes DEF DueDays
  <2>2. Occurs(r, d) /\ (r.end # None => d <= r.end)
    BY <2>1, DueIsOccurrence
  <2>3. PICK n \in Nat : IsIndex(s, f, n) /\ Occurrence(s, f, n) = d
    BY <2>2 DEF Occurs, s, f
  <2>4. d <= EffectiveEnd(r, to)
    BY <1>1, <2>1, <2>2, EndTypes
  <2>5. n \in S
    BY <1>1, <1>2, <2>1, <2>3, <2>4
  <2> QED BY <2>3, <2>5
<1>7. date \in Bijection(S, T)
  <2>1. date \in [S -> T]
    BY <1>4
  <2> HIDE DEF T
  <2>2. date \in Injection(S, T)
    BY <1>5, <2>1 DEF Injection, IsInjective
  <2>3. date \in Surjection(S, T)
    BY <1>6, <2>1 DEF Surjection
  <2> QED BY <2>2, <2>3 DEF Bijection
<1>8. IsFiniteSet(S)
  <2>1. FirstIndex(s, f, from) \in Int /\ to - s \in Int
    BY <1>1, FirstIndexType, MonthTypes
  <2>2. IsFiniteSet(FirstIndex(s, f, from)..to - s)
    BY <2>1, FS_Interval
  <2>3. S \subseteq FirstIndex(s, f, from)..to - s
    BY DEF S, Counted, s, f
  <2> QED BY <2>2, <2>3, FS_Subset
<1> HIDE DEF T, date
<1>9. Cardinality(T) = Cardinality(S)
  BY <1>7, <1>8, FS_Bijection DEF ExistsBijection
<1> QED BY <1>9 DEF S, T

LEMMA CountIsDueDays ==
  ASSUME NEW r \in Row, NEW from \in Days, NEW to \in Days
  PROVE  Count(r, from, to) = Cardinality(DueDays(r, from, to))
<1>1. from \in Int /\ to \in Int /\ r.start \in Int /\ (r.end # None => r.end \in Int)
  BY EndTypes, MonthTypes
<1>2. CASE to < r.start \/ (r.end # None /\ from > r.end)
  <2>1. DueDays(r, from, to) = {}
    BY <1>1, <1>2 DEF DueDays, IsDue
  <2> QED BY <1>2, <2>1, FS_EmptySet DEF Count
<1>3. CASE ~(to < r.start \/ (r.end # None /\ from > r.end))
  BY <1>3, CountedMatchDueDays DEF Count
<1> QED BY <1>2, <1>3

-----------------------------------------------------------------------------
LEMMA TypeInv == Spec => []TypeOK
<1>1. Init => TypeOK
  BY DEF Init, TypeOK
<1>2. TypeOK /\ [Next]_vars => TypeOK'
  <2> SUFFICES ASSUME TypeOK, [Next]_vars PROVE TypeOK'
    OBVIOUS
  <2>1. CASE CreateOne
    BY <2>1, InputAssumption DEF CreateOne, TypeOK, IsAccepted
  <2>2. CASE UpdateOne
    BY <2>2, InputAssumption DEF UpdateOne, TypeOK, IsAccepted
  <2>3. CASE DeleteOne
    BY <2>3 DEF DeleteOne, TypeOK
  <2>4. CASE NewDay
    BY <2>4 DEF NewDay, TypeOK
  <2>5. CASE UNCHANGED vars
    BY <2>5 DEF vars, TypeOK
  <2> QED BY <2>1, <2>2, <2>3, <2>4, <2>5 DEF Next
<1> QED BY <1>1, <1>2, PTL DEF Spec

\* Rows are valid in every state, end dates included.
THEOREM ForecastTypeCorrect == Spec => []TypeOK
  BY TypeInv

\* count_occurrences counts the payments that are due, in every calendar whose
\* months have at least 28 days, for every commitment and every range asked for.
THEOREM ForecastCountsExactly == Spec => []CountIsExact
<1>1. TypeOK => CountIsExact
  <2> SUFFICES ASSUME TypeOK, NEW e \in Ids, expense[e] # None
               PROVE  LET r == expense[e]
                          exact(from, to) == Count(r, from, to) = Cardinality(DueDays(r, from, to))
                      IN  /\ \A h \in Horizons : exact(today, Through(today, h))
                          /\ r.end # None => exact(r.start, r.end)
                          /\ r.end # None /\ CanCount(today, r.end) => exact(today, r.end)
    BY DEF CountIsExact
  <2> DEFINE r == expense[e]
  <2>1. r \in Row /\ today \in Days
    BY InputAssumption DEF TypeOK
  <2>2. r.start \in Days /\ (r.end # None => r.end \in Days)
    BY <2>1 DEF Row
  <2>3. ASSUME NEW h \in Horizons
        PROVE  Through(today, h) \in Days
    <3>1. today + h \in Days /\ h \in Nat /\ h >= 1
      BY InputAssumption DEF TypeOK
    <3> QED BY <2>1, <3>1, MonthTypes DEF Through, Days
  <2> HIDE DEF r
  <2>4. \A h \in Horizons : Count(r, today, Through(today, h))
                               = Cardinality(DueDays(r, today, Through(today, h)))
    BY <2>1, <2>3, CountIsDueDays
  <2>5. r.end # None => /\ Count(r, r.start, r.end) = Cardinality(DueDays(r, r.start, r.end))
                        /\ Count(r, today, r.end) = Cardinality(DueDays(r, today, r.end))
    BY <2>1, <2>2, CountIsDueDays
  <2> QED BY <2>4, <2>5 DEF r
<1> QED BY <1>1, TypeInv, PTL

-----------------------------------------------------------------------------
(* What falls due, and its sum.  The lemmas on sums repeat those of         *)
(* InvoicingProofs, which is about other variables.                         *)

\* g is the sum of f over each subset of S: the recursion of SumFunction.
IsSum(g, f, S) ==
    g = [s \in SUBSET S |-> IF s = {} THEN 0
                            ELSE f[CHOOSE x \in s : TRUE] + g[s \ {CHOOSE x \in s : TRUE}]]

\* SumFunction is such a sum, if there is one.
LEMMA SumUnfolds ==
  ASSUME NEW f, \E g : IsSum(g, f, DOMAIN f)
  PROVE  \E g : IsSum(g, f, DOMAIN f) /\ SumFunction(f) = g[DOMAIN f]
<1> DEFINE sum[s \in SUBSET DOMAIN f] ==
      IF s = {} THEN 0
      ELSE f[CHOOSE x \in s : TRUE] + sum[s \ {CHOOSE x \in s : TRUE}]
<1>1. SumFunction(f) = sum[DOMAIN f]
  BY DEF SumFunction, SumFunctionOnSet, FoldFunctionOnSet, MapThenFoldSet
<1>2. sum = CHOOSE g : IsSum(g, f, DOMAIN f)
  BY DEF IsSum
<1> HIDE DEF sum
<1>3. IsSum(sum, f, DOMAIN f)
  BY <1>2, Zenon
<1> QED BY <1>1, <1>3

\* A nonempty set of finite sets has a minimal one.
LEMMA MinimalSubset ==
  ASSUME NEW S, IsFiniteSet(S), NEW T, T \subseteq SUBSET S, T # {}
  PROVE  \E x \in T : \A y \in T : y \subseteq x => y = x
<1>1. T \subseteq FiniteSubsetsOf(S)
  BY FS_FiniteSubsetsOfFinite
<1>2. PICK x \in T : \A y \in T : ~ (<<y, x>> \in StrictSubsetOrdering(S))
  BY <1>1, FS_StrictSubsetOrderingWellFounded, WFMin, Zenon
<1> QED BY <1>2 DEF StrictSubsetOrdering

Chosen(s) == CHOOSE x \in s : TRUE

LEMMA ChosenIsIn == \A s : s # {} => Chosen(s) \in s
  BY DEF Chosen

LEMMA SumUnfoldsOnce ==
  ASSUME NEW g, NEW f, NEW S, IsSum(g, f, S), NEW s, s \in SUBSET S
  PROVE  g[s] = IF s = {} THEN 0 ELSE f[Chosen(s)] + g[s \ {Chosen(s)}]
<1>1. g = [r \in SUBSET S |-> IF r = {} THEN 0 ELSE f[Chosen(r)] + g[r \ {Chosen(r)}]]
  BY DEF IsSum, Chosen
<1> QED BY <1>1

LEMMA SumOfEmpty ==
  ASSUME NEW g, NEW f, NEW S, IsSum(g, f, S)
  PROVE  g[{}] = 0
<1>1. g[{}] = IF {} = {} THEN 0 ELSE f[Chosen({})] + g[{} \ {Chosen({})}]
  BY SumUnfoldsOnce
<1> QED BY <1>1

LEMMA SumNext ==
  ASSUME NEW g, NEW f, NEW S, IsSum(g, f, S), NEW s, s \in SUBSET S, s # {}
  PROVE  /\ Chosen(s) \in s
         /\ g[s] = f[Chosen(s)] + g[s \ {Chosen(s)}]
<1>1. g[s] = IF s = {} THEN 0 ELSE f[Chosen(s)] + g[s \ {Chosen(s)}]
  BY SumUnfoldsOnce
<1> QED BY <1>1, ChosenIsIn

\* Functions that agree on a set have the same sum over it.
LEMMA SumsAgree ==
  ASSUME NEW g, NEW f, NEW S, IsSum(g, f, S), NEW h, NEW e, NEW T, IsSum(h, e, T),
         NEW U, IsFiniteSet(U), U \subseteq S, U \subseteq T, \A x \in U : f[x] = e[x]
  PROVE  g[U] = h[U]
<1> DEFINE Bad == {s \in SUBSET U : g[s] # h[s]}
<1> SUFFICES ASSUME Bad # {} PROVE FALSE
  OBVIOUS
<1>0. Bad \subseteq SUBSET U
  OBVIOUS
<1> HIDE DEF Bad
<1>1. PICK s \in Bad : \A r \in Bad : r \subseteq s => r = s
  BY <1>0, MinimalSubset
<1>2. s \in SUBSET U /\ s \in SUBSET S /\ s \in SUBSET T /\ g[s] # h[s]
  BY <1>0 DEF Bad
<1>3. s = {} => g[s] = 0 /\ h[s] = 0
  <2>1. s = {} => g[s] = 0
    BY SumOfEmpty
  <2>2. s = {} => h[s] = 0
    BY SumOfEmpty
  <2> QED BY <2>1, <2>2
<1>4. s # {}
  BY <1>2, <1>3
<1>5. PICK c \in s : c = Chosen(s) /\ g[s] = f[c] + g[s \ {c}]
  <2>1. Chosen(s) \in s /\ g[s] = f[Chosen(s)] + g[s \ {Chosen(s)}]
    BY <1>2, <1>4, SumNext
  <2> QED BY <2>1
<1>6. h[s] = e[c] + h[s \ {c}]
  <2>1. h[s] = e[Chosen(s)] + h[s \ {Chosen(s)}]
    BY <1>2, <1>4, SumNext
  <2> QED BY <1>5, <2>1
<1>7. s \ {c} \notin Bad /\ s \ {c} \in SUBSET U
  BY <1>1, <1>2, <1>5
<1>8. g[s \ {c}] = h[s \ {c}]
  BY <1>7 DEF Bad
<1>9. f[c] = e[c]
  BY <1>2, <1>5
<1> QED BY <1>2, <1>5, <1>6, <1>8, <1>9


\* The sum of the sizes of disjoint sets is the size of their union.
LEMMA SumOfSizes ==
  ASSUME NEW f, IsFiniteSet(DOMAIN f), NEW C,
         \A x \in DOMAIN f : IsFiniteSet(C[x]) /\ f[x] = Cardinality(C[x]),
         \A x, y \in DOMAIN f : x # y => C[x] \cap C[y] = {}
  PROVE  SumFunction(f) = Cardinality(UNION {C[x] : x \in DOMAIN f})
<1> DEFINE S == DOMAIN f
           Pile(s) == UNION {C[x] : x \in s}
           h == [s \in SUBSET S |-> Cardinality(Pile(s))]
<1>1. ASSUME NEW s \in SUBSET S
      PROVE  IsFiniteSet(Pile(s))
  <2> DEFINE sets == {C[x] : x \in s}
             image == [x \in s |-> C[x]]
  <2>1. IsFiniteSet(s)
    BY FS_Subset
  <2>2. image \in Surjection(s, sets)
    BY DEF Surjection
  <2>3. \A X \in sets : IsFiniteSet(X)
    OBVIOUS
  <2> HIDE DEF sets, image
  <2>4. IsFiniteSet(sets)
    BY <2>1, <2>2, FS_Surjection
  <2>5. IsFiniteSet(UNION sets)
    BY <2>3, <2>4, FS_UNION
  <2> QED BY <2>5 DEF sets
<1>2. ASSUME NEW s \in SUBSET S, s # {}
      PROVE  h[s] = f[Chosen(s)] + h[s \ {Chosen(s)}]
  <2> DEFINE c == Chosen(s)
             rest == s \ {c}
  <2>1. c \in s
    BY <1>2, ChosenIsIn
  <2>2. Pile(s) = C[c] \cup Pile(rest)
    BY <2>1
  <2>3. C[c] \cap Pile(rest) = {}
    <3>1. ASSUME NEW x \in rest PROVE C[c] \cap C[x] = {}
      <4>1. x \in S /\ c \in S /\ x # c
        BY <2>1
      <4> QED BY <4>1
    <3> QED BY <3>1
  <2>4. rest \in SUBSET S /\ s \in SUBSET S /\ c \in S
    BY <2>1
  <2>5. IsFiniteSet(C[c]) /\ IsFiniteSet(Pile(rest)) /\ f[c] = Cardinality(C[c])
    BY <1>1, <2>4
  <2>6. h[s] = Cardinality(Pile(s)) /\ h[rest] = Cardinality(Pile(rest))
    BY <2>4
  <2> HIDE DEF Pile, h, c, rest
  <2>7. Cardinality(Pile(s)) = Cardinality(C[c]) + Cardinality(Pile(rest)) - Cardinality({})
    BY <2>2, <2>3, <2>5, FS_Union
  <2>8. Cardinality(C[c]) \in Int /\ Cardinality(Pile(rest)) \in Int /\ Cardinality({}) = 0
    BY <2>5, FS_CardinalityType, FS_EmptySet
  <2>9. h[s] = f[c] + h[rest]
    BY <2>5, <2>6, <2>7, <2>8
  <2> QED BY <2>9 DEF c, rest
<1>3. h[{}] = 0
  <2>1. Pile({}) = {}
    OBVIOUS
  <2> QED BY <2>1, FS_EmptySet
<1>4. IsSum(h, f, S)
  <2>1. \A s \in SUBSET S : h[s] = IF s = {} THEN 0 ELSE f[Chosen(s)] + h[s \ {Chosen(s)}]
    BY <1>2, <1>3
  <2>2. h = [s \in SUBSET S |-> h[s]]
    OBVIOUS
  <2> HIDE DEF h
  <2>3. h = [s \in SUBSET S |-> IF s = {} THEN 0 ELSE f[Chosen(s)] + h[s \ {Chosen(s)}]]
    BY <2>1, <2>2
  <2> QED BY <2>3 DEF IsSum, Chosen
<1>5. PICK g : IsSum(g, f, DOMAIN f) /\ SumFunction(f) = g[DOMAIN f]
  BY <1>4, SumUnfolds
<1>6. h[S] = Cardinality(Pile(S))
  OBVIOUS
<1> HIDE DEF h
<1>7. g[DOMAIN f] = h[DOMAIN f]
  BY <1>4, <1>5, SumsAgree
<1> QED BY <1>5, <1>6, <1>7

-----------------------------------------------------------------------------
\* The cents of the payments of e that are due in a range.
Cents(e, from, to) ==
    {<<e, d, k>> : d \in DueDays(expense[e], from, to), k \in 1..expense[e].amount}

LEMMA DueDaysAreFinite ==
  ASSUME NEW r, NEW from \in Int, NEW to \in Int
  PROVE  IsFiniteSet(DueDays(r, from, to))
<1>1. DueDays(r, from, to) \subseteq from..to
  BY DEF DueDays
<1> QED BY <1>1, FS_Interval, FS_Subset

\* One cent for each payment due and each cent of the amount.
LEMMA CentsOf ==
  ASSUME TypeOK, NEW e \in Ids, expense[e] # None, NEW from \in Days, NEW to \in Days
  PROVE  /\ IsFiniteSet(Cents(e, from, to))
         /\ Cardinality(Cents(e, from, to)) = expense[e].amount * Count(expense[e], from, to)
         /\ Count(expense[e], from, to) \in Nat
         /\ Count(expense[e], from, to) = 0 => Cents(e, from, to) = {}
<1> DEFINE r == expense[e]
           due == DueDays(r, from, to)
           pairs == due \X (1..r.amount)
           cents == Cents(e, from, to)
           cent == [p \in pairs |-> <<e, p[1], p[2]>>]
<1>1. r \in Row /\ from \in Int /\ to \in Int
  BY MonthTypes DEF TypeOK
<1>2. r.amount \in Nat
  BY <1>1 DEF Row
<1>3. IsFiniteSet(due) /\ Cardinality(due) \in Nat
  BY <1>1, DueDaysAreFinite, FS_CardinalityType
<1>4. Count(r, from, to) = Cardinality(due)
  BY <1>1, CountIsDueDays
<1>5. IsFiniteSet(pairs) /\ Cardinality(pairs) = Cardinality(due) * r.amount
  <2>1. IsFiniteSet(1..r.amount) /\ Cardinality(1..r.amount) = r.amount
    <3>1. \A n \in Nat : IsFiniteSet(1..n) /\ Cardinality(1..n) = n
      <4> TAKE n \in Nat
      <4> QED BY FS_Interval
    <3> HIDE DEF r
    <3> QED BY <1>2, <3>1
  <2> HIDE DEF due
  <2> QED BY <1>3, <2>1, FS_Product
<1>6. cent \in Bijection(pairs, cents)
  <2>1. cent \in [pairs -> cents]
    BY DEF Cents
  <2>2. \A p, q \in pairs : cent[p] = cent[q] => p = q
    OBVIOUS
  <2>3. \A c \in cents : \E p \in pairs : cent[p] = c
    <3>1. ASSUME NEW d \in due, NEW k \in 1..r.amount
          PROVE  \E p \in pairs : cent[p] = <<e, d, k>>
      <4>1. <<d, k>> \in pairs /\ cent[<<d, k>>] = <<e, d, k>>
        OBVIOUS
      <4> QED BY <4>1
    <3> HIDE DEF cent, pairs
    <3> QED BY <3>1 DEF Cents
  <2> HIDE DEF cent, pairs, cents
  <2> QED BY <2>1, <2>2, <2>3 DEF Bijection, Injection, Surjection, IsInjective
<1>7. IsFiniteSet(cents) /\ Cardinality(cents) = Cardinality(pairs)
  <2> HIDE DEF cent, pairs, cents
  <2> QED BY <1>5, <1>6, FS_Bijection DEF ExistsBijection
<1>8. Cardinality(due) = 0 => cents = {}
  <2>1. Cardinality(due) = 0 => due = {}
    BY <1>3, FS_EmptySet
  <2> QED BY <2>1 DEF Cents
<1>9. \A m, n \in Nat : m * n = n * m
  OBVIOUS
<1> HIDE DEF r, due, pairs, cents, cent
<1>10. Cardinality(cents) = r.amount * Count(r, from, to)
  BY <1>2, <1>3, <1>4, <1>5, <1>7, <1>9
<1> QED BY <1>3, <1>4, <1>7, <1>8, <1>10 DEF r, cents

\* Only finitely many commitments are stored.
Stored == {e \in Ids : expense[e] # None}

StoredAreFinite == IsFiniteSet(Stored)

LEMMA FiniteInv == Spec => []StoredAreFinite
<1>1. Init => StoredAreFinite
  <2> SUFFICES ASSUME Init PROVE StoredAreFinite
    OBVIOUS
  <2>1. Stored = {}
    BY DEF Init, Stored
  <2> QED BY <2>1, FS_EmptySet DEF StoredAreFinite
<1>2. TypeOK /\ StoredAreFinite /\ [Next]_vars => StoredAreFinite'
  <2> SUFFICES ASSUME TypeOK, StoredAreFinite, [Next]_vars PROVE StoredAreFinite'
    OBVIOUS
  <2>1. Stored' = Stored \/ \E e \in Ids : Stored' \subseteq Stored \cup {e}
    <3>1. CASE CreateOne \/ UpdateOne \/ DeleteOne
      <4>1. PICK e \in Ids : \E r : expense' = [expense EXCEPT ![e] = r]
        BY <3>1 DEF CreateOne, UpdateOne, DeleteOne
      <4>2. \A x \in Ids : x # e => expense'[x] = expense[x]
        BY <4>1 DEF TypeOK
      <4> QED BY <4>2 DEF Stored
    <3>2. CASE NewDay \/ UNCHANGED vars
      BY <3>2 DEF NewDay, vars, Stored
    <3> QED BY <3>1, <3>2 DEF Next
  <2> QED BY <2>1, FS_AddElement, FS_Subset DEF StoredAreFinite
<1> QED BY <1>1, <1>2, TypeInv, PTL DEF Spec

\* The total of the forecast is what falls due within the horizon, cent by
\* cent, for any number of commitments and every calendar
\* (build_recurring_coverage).
THEOREM ForecastCoversWhatFallsDue == Spec => []CoveredIsWhatFallsDue
<1>1. TypeOK /\ StoredAreFinite => CoveredIsWhatFallsDue
  <2> SUFFICES ASSUME TypeOK, StoredAreFinite, NEW h \in Horizons
               PROVE  CoveredTotal(today, h) =
                        Cardinality(UNION {Cents(e, today, Through(today, h)) :
                                              e \in {x \in Ids : expense[x] # None /\ expense[x].active}})
    BY DEF CoveredIsWhatFallsDue, Cents
  <2> DEFINE to == Through(today, h)
             active == {x \in Ids : expense[x] # None /\ expense[x].active}
             included == {x \in Ids : Included(x, today, h)}
             total == [e \in included |-> HorizonTotal(expense[e], today, h)]
             cents == [e \in active |-> Cents(e, today, to)]
  <2>1. today \in Days /\ to \in Days
    <3>1. today \in Days /\ today + h \in Days /\ h \in Nat /\ h >= 1
      BY InputAssumption DEF TypeOK
    <3> QED BY <3>1, MonthTypes DEF Through, Days
  <2>2. CoveredTotal(today, h) = SumFunction(total)
    BY DEF CoveredTotal
  <2>3. included \subseteq active /\ IsFiniteSet(included)
    <3>1. included \subseteq active
      BY DEF Included
    <3>2. included \subseteq Stored
      BY <3>1 DEF Stored
    <3> QED BY <3>1, <3>2, FS_Subset DEF StoredAreFinite
  <2>4. ASSUME NEW e \in active
        PROVE  /\ IsFiniteSet(Cents(e, today, to))
               /\ Cardinality(Cents(e, today, to)) = HorizonTotal(expense[e], today, h)
               /\ e \notin included => Cents(e, today, to) = {}
    <3>1. /\ IsFiniteSet(Cents(e, today, to))
          /\ Cardinality(Cents(e, today, to)) = expense[e].amount * Count(expense[e], today, to)
          /\ Count(expense[e], today, to) \in Nat
          /\ Count(expense[e], today, to) = 0 => Cents(e, today, to) = {}
      <4> HIDE DEF to
      <4> QED BY <2>1, CentsOf
    <3>2. e \notin included => ~(Count(expense[e], today, to) > 0)
      BY DEF Included
    <3> HIDE DEF to
    <3>3. e \notin included => Count(expense[e], today, to) = 0
      BY <3>1, <3>2
    <3> QED BY <3>1, <3>3 DEF HorizonTotal, to
  <2>5. \A e \in active : cents[e] = Cents(e, today, to)
    OBVIOUS
  <2>6. \A x, y \in active : x # y => Cents(x, today, to) \cap Cents(y, today, to) = {}
    BY DEF Cents
  <2>7. SumFunction(total) = Cardinality(UNION {cents[x] : x \in DOMAIN total})
    <3>1. DOMAIN total = included /\ \A e \in included : total[e] = HorizonTotal(expense[e], today, h)
      OBVIOUS
    <3> HIDE DEF total, cents, included, active, to
    <3>2. \A x \in DOMAIN total : IsFiniteSet(cents[x]) /\ total[x] = Cardinality(cents[x])
      BY <2>3, <2>4, <2>5, <3>1
    <3>3. \A x, y \in DOMAIN total : x # y => cents[x] \cap cents[y] = {}
      BY <2>3, <2>5, <2>6, <3>1
    <3> QED BY <2>3, <3>1, <3>2, <3>3, SumOfSizes
  <2>8. UNION {cents[x] : x \in DOMAIN total} = UNION {Cents(e, today, to) : e \in active}
    <3>1. DOMAIN total = included
      OBVIOUS
    <3> HIDE DEF total, cents, included, active, to
    <3> QED BY <2>3, <2>4, <2>5, <3>1
  <2> HIDE DEF total, cents, to
  <2> QED BY <2>2, <2>7, <2>8 DEF to
<1> QED BY <1>1, TypeInv, FiniteInv, PTL
=============================================================================
