--------------------------- MODULE InvoicingProofs ---------------------------
(***************************************************************************)
(* Theorems of InvoiceMoney and Invoicing: what rounding does with a       *)
(* credited line and with a credited total, and the invariants of          *)
(* numbering, of references between rows, of issued invoices, of payments  *)
(* and of credit notes, for any number of businesses, clients, invoices,   *)
(* payments, years and prefixes, and for invoices of any finite length.    *)
(***************************************************************************)
EXTENDS Invoicing, FiniteSetTheorems, WellFoundedInduction, TLAPS

-----------------------------------------------------------------------------
(* Money. *)

\* Rounding is symmetric: the sign may be applied before or after it.
LEMMA RoundingIsOdd ==
    ASSUME NEW n \in Int, NEW d \in {1000, 10000}
    PROVE  RoundHalfUp(-n, d) = -RoundHalfUp(n, d)
  <1>1. CASE d = 1000
    BY <1>1 DEF RoundHalfUp
  <1>2. CASE d = 10000
    BY <1>2 DEF RoundHalfUp
  <1> QED BY <1>1, <1>2

LEMMA RoundingIsInt ==
    ASSUME NEW n \in Int, NEW d \in {1000, 10000}
    PROVE  RoundHalfUp(n, d) \in Int
  <1>1. CASE d = 1000
    BY <1>1 DEF RoundHalfUp
  <1>2. CASE d = 10000
    BY <1>2 DEF RoundHalfUp
  <1> QED BY <1>1, <1>2

\* A line of a credit note has exactly the opposite amounts of the line it
\* credits, for every quantity, price and tax rate (multiplier -1 of
\* calculate_invoice_items).
THEOREM CreditedLineCancels ==
    ASSUME NEW line \in Line
    PROVE  /\ NetTotal(Priced(line, -1)) = -NetTotal(line)
           /\ ItemTax(Priced(line, -1)) = -ItemTax(line)
           /\ GrossTotal(Priced(line, -1)) = -GrossTotal(line)
  <1> DEFINE credited == Priced(line, -1)
             worth == line.quantity * line.price
             tax == NetTotal(line) * line.rate
  <1>1. /\ line.quantity \in Int /\ line.price \in Int /\ line.rate \in Int
        /\ credited.quantity = line.quantity /\ credited.rate = line.rate
        /\ credited.price = line.price * (-1)
    <2> HIDE DEF credited, worth, tax
    <2>1. line.quantity \in Int /\ line.price \in Int /\ line.rate \in Int
      BY DEF Line
    <2>2. \A x : LET other == [line EXCEPT !.price = x]
                 IN  other.quantity = line.quantity /\ other.rate = line.rate /\ other.price = x
      BY DEF Line
    <2>3. credited = [line EXCEPT !.price = line.price * (-1)]
      BY Zenon DEF Priced, credited
    <2> QED BY <2>1, <2>2, <2>3, Zenon
  <1>2. worth \in Int /\ credited.quantity * credited.price = -worth
    <2>1. \A q, x \in Int : q * x \in Int /\ q * (x * (-1)) = -(q * x)
      OBVIOUS
    <2> QED BY <1>1, <2>1
  <1>3. NetTotal(line) \in Int /\ NetTotal(credited) = -NetTotal(line)
    <2> HIDE DEF worth, credited
    <2> QED BY <1>2, RoundingIsOdd, RoundingIsInt DEF NetTotal, worth
  <1>4. tax \in Int /\ NetTotal(credited) * credited.rate = -tax
    <2>1. \A n, r \in Int : n * r \in Int /\ (-n) * r = -(n * r)
      OBVIOUS
    <2> HIDE DEF credited
    <2> QED BY <1>1, <1>3, <2>1
  <1>5. ItemTax(line) \in Int /\ ItemTax(credited) = -ItemTax(line)
    <2> HIDE DEF tax, credited
    <2> QED BY <1>4, RoundingIsOdd, RoundingIsInt DEF ItemTax, tax
  <1>6. GrossTotal(credited) = -GrossTotal(line)
    <2> HIDE DEF credited
    <2> QED BY <1>3, <1>5 DEF GrossTotal
  <1> QED BY <1>3, <1>5, <1>6

-----------------------------------------------------------------------------
(* Sums over finite functions.  A sum is defined by taking one element after  *)
(* another; what it is follows by looking at a smallest set for which a claim *)
(* would fail.                                                                *)

\* g is the sum of f over each subset of S: the recursion of SumFunction.
IsSum(g, f, S) ==
    g = [s \in SUBSET S |-> IF s = {} THEN 0
                            ELSE f[CHOOSE x \in s : TRUE] + g[s \ {CHOOSE x \in s : TRUE}]]

\* SumFunction is such a sum, if there is one.
LEMMA SumUnfolds ==
    ASSUME NEW f, \E g : IsSum(g, f, DOMAIN f)
    PROVE  \E g : IsSum(g, f, DOMAIN f) /\ SumFunction(f) = g[DOMAIN f]
  <1> DEFINE sum[s \in SUBSET DOMAIN f] ==
        IF s = {} THEN 0
        ELSE f[CHOOSE x \in s : TRUE] + sum[s \ {CHOOSE x \in s : TRUE}]
  <1>1. SumFunction(f) = sum[DOMAIN f]
    BY DEF SumFunction, SumFunctionOnSet, FoldFunctionOnSet, MapThenFoldSet
  <1>2. sum = CHOOSE g : IsSum(g, f, DOMAIN f)
    BY DEF IsSum
  <1> HIDE DEF sum
  <1>3. IsSum(sum, f, DOMAIN f)
    BY <1>2, Zenon
  <1> QED BY <1>1, <1>3

\* A nonempty set of finite sets has a minimal one.
LEMMA MinimalSubset ==
    ASSUME NEW S, IsFiniteSet(S), NEW T, T \subseteq SUBSET S, T # {}
    PROVE  \E x \in T : \A y \in T : y \subseteq x => y = x
  <1>1. T \subseteq FiniteSubsetsOf(S)
    BY FS_FiniteSubsetsOfFinite
  <1>2. PICK x \in T : \A y \in T : ~ (<<y, x>> \in StrictSubsetOrdering(S))
    BY <1>1, FS_StrictSubsetOrderingWellFounded, WFMin, Zenon
  <1> QED BY <1>2 DEF StrictSubsetOrdering

Chosen(s) == CHOOSE x \in s : TRUE

LEMMA ChosenIsIn == \A s : s # {} => Chosen(s) \in s
    BY DEF Chosen

LEMMA SumUnfoldsOnce ==
    ASSUME NEW g, NEW f, NEW S, IsSum(g, f, S), NEW s, s \in SUBSET S
    PROVE  g[s] = IF s = {} THEN 0 ELSE f[Chosen(s)] + g[s \ {Chosen(s)}]
  <1>1. g = [r \in SUBSET S |-> IF r = {} THEN 0 ELSE f[Chosen(r)] + g[r \ {Chosen(r)}]]
    BY DEF IsSum, Chosen
  <1> QED BY <1>1

LEMMA SumOfEmpty ==
    ASSUME NEW g, NEW f, NEW S, IsSum(g, f, S)
    PROVE  g[{}] = 0
  <1>1. g[{}] = IF {} = {} THEN 0 ELSE f[Chosen({})] + g[{} \ {Chosen({})}]
    BY SumUnfoldsOnce
  <1> QED BY <1>1

LEMMA SumNext ==
    ASSUME NEW g, NEW f, NEW S, IsSum(g, f, S), NEW s, s \in SUBSET S, s # {}
    PROVE  /\ Chosen(s) \in s
           /\ g[s] = f[Chosen(s)] + g[s \ {Chosen(s)}]
  <1>1. g[s] = IF s = {} THEN 0 ELSE f[Chosen(s)] + g[s \ {Chosen(s)}]
    BY SumUnfoldsOnce
  <1> QED BY <1>1, ChosenIsIn

\* Functions that agree on a set have the same sum over it.
LEMMA SumsAgree ==
    ASSUME NEW g, NEW f, NEW S, IsSum(g, f, S), NEW h, NEW e, NEW T, IsSum(h, e, T),
           NEW U, IsFiniteSet(U), U \subseteq S, U \subseteq T, \A x \in U : f[x] = e[x]
    PROVE  g[U] = h[U]
  <1> DEFINE Bad == {s \in SUBSET U : g[s] # h[s]}
  <1> SUFFICES ASSUME Bad # {} PROVE FALSE
    OBVIOUS
  <1>0. Bad \subseteq SUBSET U
    OBVIOUS
  <1> HIDE DEF Bad
  <1>1. PICK s \in Bad : \A r \in Bad : r \subseteq s => r = s
    BY <1>0, MinimalSubset
  <1>2. s \in SUBSET U /\ s \in SUBSET S /\ s \in SUBSET T /\ g[s] # h[s]
    BY <1>0 DEF Bad
  <1>3. s = {} => g[s] = 0 /\ h[s] = 0
    <2>1. s = {} => g[s] = 0
      BY SumOfEmpty
    <2>2. s = {} => h[s] = 0
      BY SumOfEmpty
    <2> QED BY <2>1, <2>2
  <1>4. s # {}
    BY <1>2, <1>3
  <1>5. PICK c \in s : c = Chosen(s) /\ g[s] = f[c] + g[s \ {c}]
    <2>1. Chosen(s) \in s /\ g[s] = f[Chosen(s)] + g[s \ {Chosen(s)}]
      BY <1>2, <1>4, SumNext
    <2> QED BY <2>1
  <1>6. h[s] = e[c] + h[s \ {c}]
    <2>1. h[s] = e[Chosen(s)] + h[s \ {Chosen(s)}]
      BY <1>2, <1>4, SumNext
    <2> QED BY <1>5, <2>1
  <1>7. s \ {c} \notin Bad /\ s \ {c} \in SUBSET U
    BY <1>1, <1>2, <1>5
  <1>8. g[s \ {c}] = h[s \ {c}]
    BY <1>7 DEF Bad
  <1>9. f[c] = e[c]
    BY <1>2, <1>5
  <1> QED BY <1>2, <1>5, <1>6, <1>8, <1>9

\* The recursion defines a function: sums exist.
LEMMA SumExists ==
    ASSUME NEW f, NEW S, IsFiniteSet(S), \A x \in S : f[x] \in Int
    PROVE  \E g \in [SUBSET S -> Int] : IsSum(g, f, S)
  <1> DEFINE Has(s) == \E g \in [SUBSET s -> Int] : IsSum(g, f, s)
             Bad == {s \in SUBSET S : ~Has(s)}
  <1> SUFFICES ASSUME Bad # {} PROVE FALSE
    OBVIOUS
  <1>0. Bad \subseteq SUBSET S
    OBVIOUS
  <1> HIDE DEF Bad
  <1>1. PICK U \in Bad : \A r \in Bad : r \subseteq U => r = U
    BY <1>0, MinimalSubset
  <1>10. U \in SUBSET S /\ IsFiniteSet(U)
    BY <1>0, FS_Subset
  <1> DEFINE V(s) == CHOOSE g : g \in [SUBSET s -> Int] /\ IsSum(g, f, s)
  <1>2. \A s \in SUBSET U : s # U => Has(s)
    <2>1. \A s \in SUBSET U : s # U => s \notin Bad
      BY <1>1
    <2> QED BY <2>1, <1>10 DEF Bad
  <1> HIDE DEF Has
  <1>3. \A s \in SUBSET U : s # U => V(s) \in [SUBSET s -> Int] /\ IsSum(V(s), f, s)
    BY <1>2 DEF Has
  <1> HIDE DEF V
  <1>4. \A s \in SUBSET U : s # U => V(s)[s] \in Int
    BY <1>3
  <1> DEFINE c == Chosen(U)
             new == IF U = {} THEN 0 ELSE f[c] + V(U \ {c})[U \ {c}]
             h == [s \in SUBSET U |-> IF s = U THEN new ELSE V(s)[s]]
  <1>5. U # {} => c \in U /\ U \ {c} \in SUBSET U /\ U \ {c} # U
    BY ChosenIsIn
  <1>6. new \in Int
    BY <1>4, <1>5, <1>10
  <1>7. h \in [SUBSET U -> Int]
    BY <1>4, <1>6
  <1>8. ASSUME NEW s \in SUBSET U
        PROVE  h[s] = IF s = {} THEN 0 ELSE f[Chosen(s)] + h[s \ {Chosen(s)}]
    <2>1. CASE s = U
      BY <1>5, <2>1
    <2>2. CASE s # U /\ s = {}
      BY <1>3, <2>2, SumOfEmpty
    <2>3. CASE s # U /\ s # {}
      <3> DEFINE r == s \ {Chosen(s)}
      <3>1. r \in SUBSET s /\ r \in SUBSET U /\ r # U
        BY <2>3
      <3>2. V(s)[s] = f[Chosen(s)] + V(s)[r]
        <4>0. IsSum(V(s), f, s)
          BY <1>3, <2>3
        <4>1. V(s)[s] = f[Chosen(s)] + V(s)[s \ {Chosen(s)}]
          BY <4>0, <2>3, SumNext
        <4> QED BY <4>1
      <3> HIDE DEF r
      <3>3. IsFiniteSet(r)
        BY <1>10, <3>1, FS_Subset
      <3>4. IsSum(V(s), f, s) /\ IsSum(V(r), f, r)
        BY <1>3, <2>3, <3>1
      <3>5. V(s)[r] = V(r)[r]
        BY <3>1, <3>3, <3>4, SumsAgree
      <3>6. h[s] = V(s)[s] /\ h[r] = V(r)[r]
        BY <2>3, <3>1
      <3> HIDE DEF h
      <3> QED BY <2>3, <3>2, <3>5, <3>6 DEF r
    <2> QED BY <2>1, <2>2, <2>3
  <1> HIDE DEF h
  <1>9. IsSum(h, f, U)
    <2>1. h = [s \in SUBSET U |-> h[s]]
      BY <1>7
    <2>2. h = [s \in SUBSET U |-> IF s = {} THEN 0 ELSE f[Chosen(s)] + h[s \ {Chosen(s)}]]
      BY <1>8, <2>1
    <2> QED BY <2>2 DEF IsSum, Chosen
  <1> QED BY <1>1, <1>7, <1>9 DEF Bad, Has

\* What the other lemmas need to know of SumFunction.
LEMMA SumIs ==
    ASSUME NEW f, IsFiniteSet(DOMAIN f), \A x \in DOMAIN f : f[x] \in Int
    PROVE  \E g \in [SUBSET DOMAIN f -> Int] :
              IsSum(g, f, DOMAIN f) /\ SumFunction(f) = g[DOMAIN f]
  <1>1. PICK g0 \in [SUBSET DOMAIN f -> Int] : IsSum(g0, f, DOMAIN f)
    BY SumExists
  <1>2. PICK g : IsSum(g, f, DOMAIN f) /\ SumFunction(f) = g[DOMAIN f]
    BY <1>1, SumUnfolds
  <1>3. g[DOMAIN f] = g0[DOMAIN f]
    BY <1>1, <1>2, SumsAgree
  <1> QED BY <1>1, <1>2, <1>3

LEMMA SumIsInt ==
    ASSUME NEW f, IsFiniteSet(DOMAIN f), \A x \in DOMAIN f : f[x] \in Int
    PROVE  SumFunction(f) \in Int
  <1>1. PICK g \in [SUBSET DOMAIN f -> Int] : SumFunction(f) = g[DOMAIN f]
    BY SumIs
  <1> QED BY <1>1

LEMMA SumOfNothing ==
    ASSUME NEW f, DOMAIN f = {}
    PROVE  SumFunction(f) = 0
  <1>1. PICK g : IsSum(g, f, DOMAIN f) /\ SumFunction(f) = g[DOMAIN f]
    BY SumIs, FS_EmptySet
  <1> QED BY <1>1, SumOfEmpty

\* g is the sum of the integers that f has over each subset of the finite S.
IsIntSum(g, f, S) ==
    /\ IsFiniteSet(S)
    /\ \A k \in S : f[k] \in Int
    /\ g \in [SUBSET S -> Int]
    /\ IsSum(g, f, S)

\* The order of summation does not matter: any element may be taken first.
LEMMA SumTakes ==
    ASSUME NEW f, NEW S, NEW g, IsIntSum(g, f, S)
    PROVE  \A x \in S : g[S] = f[x] + g[S \ {x}]
  <1>0. /\ IsFiniteSet(S)
        /\ \A k \in S : f[k] \in Int
        /\ g \in [SUBSET S -> Int]
        /\ IsSum(g, f, S)
    BY DEF IsIntSum
  <1> DEFINE Bad == {s \in SUBSET S : \E y \in s : g[s] # f[y] + g[s \ {y}]}
  <1> SUFFICES ASSUME Bad # {} PROVE FALSE
    OBVIOUS
  <1>1. Bad \subseteq SUBSET S
    OBVIOUS
  <1> HIDE DEF Bad
  <1>2. PICK s \in Bad : \A r \in Bad : r \subseteq s => r = s
    BY <1>0, <1>1, MinimalSubset
  <1>3. PICK y \in s : g[s] # f[y] + g[s \ {y}]
    BY DEF Bad
  <1>4. s \in SUBSET S /\ s # {}
    BY <1>1, <1>3
  <1>5. PICK c \in s : g[s] = f[c] + g[s \ {c}]
    <2>1. Chosen(s) \in s /\ g[s] = f[Chosen(s)] + g[s \ {Chosen(s)}]
      BY <1>0, <1>4, SumNext
    <2> QED BY <2>1
  <1>6. c # y /\ c \in S /\ y \in S
    BY <1>3, <1>4, <1>5
  <1>7. s \ {c} \notin Bad /\ s \ {y} \notin Bad
    BY <1>2, <1>3, <1>5
  <1>8. g[s \ {c}] = f[y] + g[(s \ {c}) \ {y}]
    BY <1>3, <1>4, <1>6, <1>7 DEF Bad
  <1>9. g[s \ {y}] = f[c] + g[(s \ {y}) \ {c}]
    BY <1>4, <1>5, <1>6, <1>7 DEF Bad
  <1>10. (s \ {c}) \ {y} = (s \ {y}) \ {c} /\ (s \ {y}) \ {c} \in SUBSET S
    BY <1>4
  <1>11. f[c] \in Int /\ f[y] \in Int /\ g[(s \ {y}) \ {c}] \in Int
    BY <1>0, <1>6, <1>10
  <1>12. \A a, b, w \in Int : a + (b + w) = b + (a + w)
    OBVIOUS
  <1> DEFINE w == g[(s \ {y}) \ {c}]
  <1>13. g[s] = f[c] + (f[y] + w) /\ g[s \ {y}] = f[c] + w
    BY <1>5, <1>8, <1>9, <1>10
  <1>14. w \in Int
    BY <1>11
  <1> HIDE DEF w
  <1> QED BY <1>3, <1>11, <1>12, <1>13, <1>14

\* One summand less.
LEMMA SumRemoves ==
    ASSUME NEW f, IsFiniteSet(DOMAIN f), \A k \in DOMAIN f : f[k] \in Int, NEW x \in DOMAIN f
    PROVE  SumFunction(f) = f[x] + SumFunction([k \in DOMAIN f \ {x} |-> f[k]])
  <1> DEFINE rest == DOMAIN f \ {x}
             e == [k \in rest |-> f[k]]
  <1>1. IsFiniteSet(rest)
    BY FS_RemoveElement
  <1>2. DOMAIN e = rest /\ \A k \in rest : e[k] = f[k] /\ e[k] \in Int
    OBVIOUS
  <1>3. rest \subseteq DOMAIN f
    OBVIOUS
  <1> HIDE DEF e, rest
  <1>4. PICK g \in [SUBSET DOMAIN f -> Int] :
           IsSum(g, f, DOMAIN f) /\ SumFunction(f) = g[DOMAIN f]
    BY SumIs
  <1>5. PICK h \in [SUBSET rest -> Int] : IsSum(h, e, rest) /\ SumFunction(e) = h[rest]
    BY <1>1, <1>2, SumIs
  <1>6. g[DOMAIN f] = f[x] + g[DOMAIN f \ {x}]
    <2>1. IsIntSum(g, f, DOMAIN f)
      BY <1>4 DEF IsIntSum
    <2> QED BY <2>1, SumTakes
  <1>7. g[rest] = h[rest]
    BY <1>1, <1>2, <1>3, <1>4, <1>5, SumsAgree
  <1> QED BY <1>4, <1>5, <1>6, <1>7 DEF e, rest

\* Sums of naturals are naturals, of positive ones positive, of negated ones
\* negated.
LEMMA SumIsNat ==
    ASSUME NEW f, IsFiniteSet(DOMAIN f), \A k \in DOMAIN f : f[k] \in Nat
    PROVE  SumFunction(f) \in Nat
  <1>1. PICK g \in [SUBSET DOMAIN f -> Int] :
           IsSum(g, f, DOMAIN f) /\ SumFunction(f) = g[DOMAIN f]
    BY SumIs
  <1> DEFINE Bad == {s \in SUBSET DOMAIN f : g[s] \notin Nat}
  <1> SUFFICES ASSUME Bad # {} PROVE FALSE
    BY <1>1
  <1>2. Bad \subseteq SUBSET DOMAIN f
    OBVIOUS
  <1> HIDE DEF Bad
  <1>3. PICK s \in Bad : \A r \in Bad : r \subseteq s => r = s
    BY <1>2, MinimalSubset
  <1>4. s \in SUBSET DOMAIN f /\ g[s] \notin Nat
    BY <1>2 DEF Bad
  <1>5. s # {}
    <2> SUFFICES ASSUME s = {} PROVE FALSE
      OBVIOUS
    <2>1. g[{}] = 0
      BY <1>1, SumOfEmpty
    <2>2. g[s] = 0
      BY <2>1, Zenon
    <2> QED BY <1>4, <2>2
  <1>6. PICK c \in s : g[s] = f[c] + g[s \ {c}]
    <2>1. Chosen(s) \in s /\ g[s] = f[Chosen(s)] + g[s \ {Chosen(s)}]
      BY <1>1, <1>4, <1>5, SumNext
    <2> QED BY <2>1
  <1>7. s \ {c} \notin Bad /\ s \ {c} \in SUBSET DOMAIN f
    BY <1>3, <1>4, <1>6
  <1>8. g[s \ {c}] \in Nat /\ f[c] \in Nat
    BY <1>4, <1>7 DEF Bad
  <1> QED BY <1>4, <1>6, <1>8

LEMMA SumIsPositive ==
    ASSUME NEW f, IsFiniteSet(DOMAIN f), \A k \in DOMAIN f : f[k] \in Nat \ {0}, DOMAIN f # {}
    PROVE  SumFunction(f) \in Nat \ {0}
  <1>1. PICK x : x \in DOMAIN f
    OBVIOUS
  <1> DEFINE e == [k \in DOMAIN f \ {x} |-> f[k]]
  <1>2. SumFunction(f) = f[x] + SumFunction(e)
    BY <1>1, SumRemoves
  <1>3. SumFunction(e) \in Nat
    <2>1. IsFiniteSet(DOMAIN e)
      BY FS_RemoveElement
    <2>2. \A k \in DOMAIN e : e[k] \in Nat
      OBVIOUS
    <2> HIDE DEF e
    <2> QED BY <2>1, <2>2, SumIsNat
  <1> QED BY <1>1, <1>2, <1>3

LEMMA SumNegates ==
    ASSUME NEW f, IsFiniteSet(DOMAIN f), \A k \in DOMAIN f : f[k] \in Int,
           NEW e, DOMAIN e = DOMAIN f, \A k \in DOMAIN f : e[k] = -f[k]
    PROVE  SumFunction(e) = -SumFunction(f)
  <1>1. PICK g \in [SUBSET DOMAIN f -> Int] :
           IsSum(g, f, DOMAIN f) /\ SumFunction(f) = g[DOMAIN f]
    BY SumIs
  <1>2. \A k \in DOMAIN e : e[k] \in Int
    OBVIOUS
  <1>3. PICK h \in [SUBSET DOMAIN e -> Int] :
           IsSum(h, e, DOMAIN e) /\ SumFunction(e) = h[DOMAIN e]
    BY <1>2, SumIs
  <1> DEFINE Bad == {s \in SUBSET DOMAIN f : h[s] + g[s] # 0}
  <1> SUFFICES ASSUME Bad # {} PROVE FALSE
    <2>1. DOMAIN f \in SUBSET DOMAIN f /\ h[DOMAIN f] \in Int /\ g[DOMAIN f] \in Int
      BY <1>1, <1>3
    <2> SUFFICES ASSUME Bad = {} PROVE h[DOMAIN f] = -g[DOMAIN f]
      BY <1>1, <1>3
    <2>2. h[DOMAIN f] + g[DOMAIN f] = 0
      BY <2>1
    <2> QED BY <2>1, <2>2
  <1>4. Bad \subseteq SUBSET DOMAIN f
    OBVIOUS
  <1> HIDE DEF Bad
  <1>5. PICK s \in Bad : \A r \in Bad : r \subseteq s => r = s
    BY <1>4, MinimalSubset
  <1>6. s \in SUBSET DOMAIN f /\ s \in SUBSET DOMAIN e /\ h[s] + g[s] # 0
    BY <1>4 DEF Bad
  <1>7. s # {}
    <2> SUFFICES ASSUME s = {} PROVE FALSE
      OBVIOUS
    <2>1. g[{}] = 0 /\ h[{}] = 0
      BY <1>1, <1>3, SumOfEmpty
    <2>2. g[s] = 0 /\ h[s] = 0
      BY <2>1, Zenon
    <2> QED BY <1>6, <2>2
  <1>8. PICK c \in s : c = Chosen(s) /\ g[s] = f[c] + g[s \ {c}]
    <2>1. Chosen(s) \in s /\ g[s] = f[Chosen(s)] + g[s \ {Chosen(s)}]
      BY <1>1, <1>6, <1>7, SumNext
    <2> QED BY <2>1
  <1>9. h[s] = e[c] + h[s \ {c}]
    <2>1. h[s] = e[Chosen(s)] + h[s \ {Chosen(s)}]
      BY <1>3, <1>6, <1>7, SumNext
    <2> QED BY <1>8, <2>1
  <1>10. s \ {c} \notin Bad /\ s \ {c} \in SUBSET DOMAIN f
    BY <1>5, <1>6, <1>8
  <1>11. h[s \ {c}] + g[s \ {c}] = 0 /\ h[s \ {c}] \in Int /\ g[s \ {c}] \in Int /\ f[c] \in Int /\ e[c] = -f[c]
    BY <1>1, <1>3, <1>6, <1>8, <1>10 DEF Bad
  <1> QED BY <1>6, <1>8, <1>9, <1>11

-----------------------------------------------------------------------------
(* The inductive invariant. *)

\* A draft has no number and no snapshot, and is an invoice: credit notes are
\* issued as they are created.
DraftsAreBlank ==
    \A i \in Rows(invoice) : invoice[i].status = "DRAFT" =>
        invoice[i].number = None /\ invoice[i].logo = None

\* The items of an invoice have not been negated.
InvoicesArePlain ==
    \A i \in Rows(invoice) : invoice[i].type = "INVOICE" => invoice[i].items \in Plain

\* The logo of a business is stored under it.
LogosAreOwn ==
    \A b \in Rows(business) : business[b].logo # None => asset[business[b].logo] = b

\* In the year of the counter every number below it has been given out.
CounterIsReached ==
    \A b \in Rows(business) : business[b].year # 0 =>
        1..(business[b].next - 1) \subseteq SeqsIssued(b, business[b].year)

\* Payments are of stored invoices.
PaymentsHaveInvoice == \A k \in Rows(payment) : payment[k].invoice \in Rows(invoice)

\* The total is that of the stored items.
TotalsAreComputed == \A i \in Rows(invoice) : invoice[i].total = Total(invoice[i].items)

\* Credit notes are never drafts.
DraftsCreditNothing ==
    \A i \in Rows(invoice) : invoice[i].status = "DRAFT" =>
        invoice[i].type = "INVOICE" /\ invoice[i].original = None

Types == TypeOK /\ DraftsAreBlank /\ InvoicesArePlain

Numbering == CounterIsReached /\ NumbersHaveNoGaps

Logos == LogosAreOwn /\ SnapshotsKeepTheirLogo

Paying == IsFiniteSet(Rows(payment)) /\ PaymentsHaveInvoice /\ StatusMatchesPayments

Crediting == TotalsAreComputed /\ DraftsCreditNothing /\ CreditsCancel

IInv == Types /\ PartiesBelong /\ Logos /\ Numbering /\ Paying /\ Crediting

-----------------------------------------------------------------------------
(* Types, and what a draft is. *)

LEMMA RowsAre ==
    ASSUME TypeOK
    PROVE  /\ Rows(invoice) = {i \in Invoices : invoice[i] # None}
           /\ Rows(business) = {b \in Businesses : business[b] # None}
           /\ Rows(client) = {c \in Clients : client[c] # None}
           /\ Rows(payment) = {k \in Payments : payment[k] # None}
           /\ \A i \in Rows(invoice) : invoice[i] \in Invoice
           /\ \A b \in Rows(business) : business[b] \in Business
  BY DEF TypeOK, Rows

LEMMA NewItems ==
    ASSUME NEW items \in ItemLists
    PROVE  /\ Lines(items, 1) \in Plain
           /\ Total(Lines(items, 1)) \in -MaxTotal..MaxTotal
  <1>1. Total(Lines(items, 1)) \in 0..MaxTotal /\ MaxTotal \in Nat
    BY InvoicingAssumption
  <1>2. \A n \in 0..MaxTotal : n \in -MaxTotal..MaxTotal
    BY <1>1
  <1> QED BY <1>1, <1>2 DEF Plain

LEMMA GrossTotalIsInt ==
    ASSUME NEW line \in Line
    PROVE  GrossTotal(line) \in Int
  <1>1. \A m, n \in Int : m * n \in Int /\ m + n \in Int
    OBVIOUS
  <1>2. line.quantity \in Int /\ line.price \in Int /\ line.rate \in Int
    BY DEF Line
  <1>3. line.quantity * line.price \in Int
    BY <1>1, <1>2
  <1>4. NetTotal(line) \in Int
    <2> DEFINE worth == line.quantity * line.price
    <2>1. NetTotal(line) = RoundHalfUp(worth, 1000)
      BY DEF NetTotal
    <2> HIDE DEF worth
    <2> QED BY <1>3, <2>1, RoundingIsInt DEF worth
  <1>5. ItemTax(line) \in Int
    <2> DEFINE tax == NetTotal(line) * line.rate
    <2>1. ItemTax(line) = RoundHalfUp(tax, 10000)
      BY DEF ItemTax
    <2>2. tax \in Int
      BY <1>1, <1>2, <1>4
    <2> HIDE DEF tax
    <2> QED BY <2>1, <2>2, RoundingIsInt
  <1> QED BY <1>1, <1>4, <1>5 DEF GrossTotal

\* What the lines of an invoice are: finitely many, none negative.
LEMMA PlainLines ==
    ASSUME NEW items \in Plain
    PROVE  IsFiniteSet(DOMAIN items) /\ \A k \in DOMAIN items : items[k] \in Line
  <1>1. PICK source \in ItemLists : items = Lines(source, 1)
    BY DEF Plain
  <1>2. IsFiniteSet(DOMAIN source) /\ \A k \in DOMAIN source : source[k] \in Item
    BY InvoicingAssumption
  <1>3. ASSUME NEW k \in DOMAIN source PROVE items[k] \in Line
    <2>1. items[k] = Priced(source[k], 1) /\ source[k] \in Item
      BY <1>1, <1>2 DEF Lines
    <2>2. source[k].price * 1 \in Int
      BY <2>1 DEF Item
    <2>3. Priced(source[k], 1) = [source[k] EXCEPT !.price = source[k].price * 1]
      BY <2>1 DEF Priced, Item
    <2> DEFINE price == source[k].price * 1
    <2>4. price \in Int /\ items[k] = [source[k] EXCEPT !.price = price]
      BY <2>1, <2>2, <2>3
    <2> HIDE DEF price
    <2> QED BY <2>1, <2>4 DEF Item, Line
  <1> QED BY <1>1, <1>2, <1>3 DEF Lines

\* The total of a credit note is the opposite of the total it credits, though
\* each line of it is rounded again.
THEOREM CreditedTotalCancels ==
    ASSUME NEW items \in Plain
    PROVE  Total(Lines(items, -1)) = -Total(items)
  <1> DEFINE gross == [k \in DOMAIN items |-> GrossTotal(items[k])]
             credited == [k \in DOMAIN items |-> GrossTotal(Priced(items[k], -1))]
  <1>1. Total(items) = SumFunction(gross)
    BY DEF Total
  <1>2. Total(Lines(items, -1)) = SumFunction(credited)
    <2>1. [k \in DOMAIN Lines(items, -1) |-> GrossTotal(Lines(items, -1)[k])] = credited
      BY DEF Lines
    <2> QED BY <2>1 DEF Total
  <1>3. IsFiniteSet(DOMAIN gross) /\ DOMAIN credited = DOMAIN gross
    BY PlainLines
  <1>4. \A k \in DOMAIN gross : gross[k] \in Int /\ credited[k] = -gross[k]
    <2>1. ASSUME NEW k \in DOMAIN items
          PROVE  GrossTotal(items[k]) \in Int /\ GrossTotal(Priced(items[k], -1)) = -GrossTotal(items[k])
      <3>1. items[k] \in Line
        BY PlainLines
      <3> QED BY <3>1, GrossTotalIsInt, CreditedLineCancels
    <2> QED BY <2>1
  <1> HIDE DEF gross, credited
  <1>5. SumFunction(credited) = -SumFunction(gross)
    BY <1>3, <1>4, SumNegates
  <1> QED BY <1>1, <1>2, <1>5

LEMMA CreditedItems ==
    ASSUME NEW items \in Plain
    PROVE  /\ Lines(items, -1) \in Stored
           /\ Total(Lines(items, -1)) \in -MaxTotal..MaxTotal
  <1>1. Total(items) \in 0..MaxTotal /\ MaxTotal \in Nat
    BY InvoicingAssumption DEF Plain
  <1>2. Total(Lines(items, -1)) = -Total(items)
    BY CreditedTotalCancels
  <1>3. \A n \in 0..MaxTotal : -n \in -MaxTotal..MaxTotal
    BY <1>1
  <1> QED BY <1>1, <1>2, <1>3 DEF Stored

LEMMA NextNumberType ==
    ASSUME TypeOK, NEW b \in Rows(business), NEW y \in Years
    PROVE  /\ NextSeq(b, y) \in Nat \ {0}
           /\ NextNumber(b, y) \in Number /\ NextNumber(b, y) # None
           /\ NextNumber(b, y).seq = NextSeq(b, y) /\ NextNumber(b, y).year = y
           /\ [business EXCEPT ![b] = [@ EXCEPT !.next = NextSeq(b, y) + 1, !.year = y]]
                  \in [Businesses -> Business \cup {None}]
  <1>1. business[b] \in Business /\ business \in [Businesses -> Business \cup {None}]
    BY RowsAre DEF TypeOK
  <1>2. NextSeq(b, y) \in Nat \ {0}
    BY <1>1 DEF NextSeq, Business
  <1>3. NextNumber(b, y) \in Number
    BY <1>1, <1>2 DEF NextNumber, Number, Business
  <1>4. NextNumber(b, y).seq = NextSeq(b, y) /\ NextNumber(b, y).year = y
    BY DEF NextNumber
  <1>5. [business EXCEPT ![b] = [@ EXCEPT !.next = NextSeq(b, y) + 1, !.year = y]]
            \in [Businesses -> Business \cup {None}]
    <2>1. NextSeq(b, y) + 1 \in Nat \ {0}
      BY <1>2
    <2>2. [business[b] EXCEPT !.next = NextSeq(b, y) + 1, !.year = y] \in Business
      BY <1>1, <2>1 DEF Business
    <2> QED BY <1>1, <2>2
  <1> QED BY <1>2, <1>3, <1>4, <1>5, RowAssumption

\* A row is written to the table of invoices.
LEMMA RowWritten ==
    ASSUME Types, NEW i \in Invoices, NEW r \in Invoice,
           r.status = "DRAFT" => r.number = None /\ r.logo = None,
           r.type = "INVOICE" => r.items \in Plain,
           invoice' = [invoice EXCEPT ![i] = r]
    PROVE  /\ invoice' \in [Invoices -> Invoice \cup {None}]
           /\ DraftsAreBlank' /\ InvoicesArePlain'
  <1>1. invoice \in [Invoices -> Invoice \cup {None}]
    BY DEF Types, TypeOK
  <1>2. invoice' \in [Invoices -> Invoice \cup {None}]
    BY <1>1
  <1>3. ASSUME NEW k \in Rows(invoice)'
        PROVE  /\ invoice'[k].status = "DRAFT" => invoice'[k].number = None /\ invoice'[k].logo = None
               /\ invoice'[k].type = "INVOICE" => invoice'[k].items \in Plain
    <2>1. k \in Invoices /\ invoice'[k] # None
      BY <1>2, <1>3 DEF Rows
    <2>2. CASE k = i
      BY <1>1, <2>2
    <2>3. CASE k # i
      BY <1>1, <2>1, <2>3 DEF Types, DraftsAreBlank, InvoicesArePlain, Rows
    <2> QED BY <2>2, <2>3
  <1> QED BY <1>2, <1>3 DEF DraftsAreBlank, InvoicesArePlain

-----------------------------------------------------------------------------
(* What the operations write to the table of invoices. *)

\* Two versions of a row that belong to the same parties.
SameParties(r, s) == r.business = s.business /\ r.client = s.client

\* Counting up writes the counter of one business and nothing else of it.
LEMMA CountUpWrites ==
    ASSUME TypeOK, NEW b \in Rows(business), NEW y \in Years, CountUp(b, y)
    PROVE  /\ \A x \in Rows(business) : business'[x] # None /\ business'[x].logo = business[x].logo
           /\ \A x \in Businesses \ {b} : business'[x] = business[x]
           /\ business'[b].next = NextSeq(b, y) + 1 /\ business'[b].year = y
  <1>1. business \in [Businesses -> Business \cup {None}] /\ business[b] \in Business
    BY RowsAre DEF TypeOK
  <1>2. business' \in [Businesses -> Business \cup {None}]
    BY NextNumberType DEF CountUp
  <1>3. business'[b] = [business[b] EXCEPT !.next = NextSeq(b, y) + 1, !.year = y]
    BY <1>1, RowsAre DEF CountUp
  <1>4. \A x \in Businesses \ {b} : business'[x] = business[x]
    BY <1>1 DEF CountUp
  <1>5. business'[b].next = NextSeq(b, y) + 1 /\ business'[b].year = y /\ business'[b].logo = business[b].logo
    BY <1>1, <1>3 DEF Business
  <1>6. business'[b] # None
    <2>1. [business[b] EXCEPT !.next = NextSeq(b, y) + 1, !.year = y] \in Business
      <3>1. NextSeq(b, y) \in Nat \ {0}
        BY NextNumberType
      <3>2. NextSeq(b, y) + 1 \in Nat \ {0}
        BY <3>1
      <3> QED BY <1>1, <3>2 DEF Business
    <2> QED BY <1>3, <2>1, RowAssumption
  <1> QED BY <1>4, <1>5, <1>6, RowsAre

LEMMA InvoiceRows ==
    ASSUME TypeOK
    PROVE  /\ invoice \in [Invoices -> Invoice \cup {None}]
           /\ Rows(invoice) = {i \in Invoices : invoice[i] # None}
           /\ \A i \in Rows(invoice) : invoice[i] \in Invoice
           /\ None \notin Invoice
  BY RowsAre, RowAssumption DEF TypeOK

LEMMA BusinessOf ==
    ASSUME TypeOK, PartiesBelong, NEW i \in Rows(invoice)
    PROVE  invoice[i].business \in Rows(business) /\ business[invoice[i].business] \in Business
  BY RowsAre DEF PartiesBelong, Invoice

\* A number is written to a draft, from the counter of its business.
LEMMA IssueWrites ==
    ASSUME TypeOK, PartiesBelong, IssueInvoice
    PROVE  \E i \in Rows(invoice), r \in Invoice :
              LET b == invoice[i].business  y == invoice[i].year IN
              /\ invoice' = [invoice EXCEPT ![i] = r]
              /\ invoice[i].status = "DRAFT" /\ r.status = "ISSUED"
              /\ SameParties(r, invoice[i])
              /\ r.type = invoice[i].type /\ r.items = invoice[i].items
              /\ r.number = NextNumber(b, y) /\ r.logo = business[b].logo
              /\ r.total = invoice[i].total /\ r.original = invoice[i].original
              /\ CountUp(b, y) /\ payment' = payment
  <1> DEFINE b(i) == invoice[i].business
             after(i) == [invoice[i] EXCEPT !.status = "ISSUED",
                                            !.number = NextNumber(b(i), invoice[i].year),
                                            !.logo = business[b(i)].logo]
  <1>1. PICK i \in Invoices :
            /\ Ready(i)
            /\ /\ NumberIsFree(b(i), invoice[i].year)
               /\ CountUp(b(i), invoice[i].year)
               /\ invoice' = [invoice EXCEPT ![i] =
                     [@ EXCEPT !.status = "ISSUED", !.number = NextNumber(b(i), invoice[i].year),
                               !.logo = business[b(i)].logo]]
            /\ UNCHANGED <<client, payment, asset, thisYear>>
    BY DEF IssueInvoice
  <1>2. i \in Rows(invoice) /\ invoice[i] \in Invoice /\ invoice[i].status = "DRAFT"
    BY <1>1, InvoiceRows DEF Ready, IsDraft
  <1>3. b(i) \in Rows(business) /\ business[b(i)] \in Business /\ invoice[i].year \in Years
    BY <1>2, BusinessOf DEF Invoice
  <1>4. invoice' = [invoice EXCEPT ![i] = after(i)]
    BY <1>1, <1>2, InvoiceRows
  <1>5. after(i) \in Invoice
    BY <1>2, <1>3, NextNumberType DEF Invoice, Business, Status
  <1>6. /\ SameParties(after(i), invoice[i]) /\ after(i).status = "ISSUED"
        /\ after(i).type = invoice[i].type /\ after(i).items = invoice[i].items
        /\ after(i).number = NextNumber(b(i), invoice[i].year)
        /\ after(i).logo = business[b(i)].logo
        /\ after(i).total = invoice[i].total /\ after(i).original = invoice[i].original
    BY <1>2 DEF Invoice, SameParties
  <1> HIDE DEF after
  <1> QED BY <1>1, <1>2, <1>4, <1>5, <1>6

\* A new row is written for a credit note, and the original is marked.
LEMMA CreditWrites ==
    ASSUME Types, PartiesBelong, CreateCreditNote
    PROVE  \E i \in Rows(invoice), c \in Invoices, r, s \in Invoice :
              LET b == invoice[i].business IN
              /\ invoice[c] = None /\ i # c
              /\ invoice' = [[invoice EXCEPT ![c] = r] EXCEPT ![i] = s]
              /\ r.status = "ISSUED" /\ r.type = "CREDIT_NOTE"
              /\ SameParties(r, invoice[i]) /\ r.logo = invoice[i].logo
              /\ r.number = NextNumber(b, thisYear)
              /\ CountUp(b, thisYear)
              /\ invoice[i].status # "DRAFT" /\ invoice[i].type = "INVOICE"
              /\ r.items = Lines(invoice[i].items, -1)
              /\ r.total = Total(Lines(invoice[i].items, -1)) /\ r.original = i
              /\ s = [invoice[i] EXCEPT !.status = "CREDITED"]
              /\ payment' = payment
  <1> DEFINE b(i) == invoice[i].business
             items(i) == Lines(invoice[i].items, -1)
             credited(i) == [invoice[i] EXCEPT !.status = "CREDITED"]
  <1>1. PICK i, c \in Invoices :
            /\ invoice[i] # None /\ invoice[c] = None
            /\ invoice[i].type = "INVOICE" /\ invoice[i].status \notin {"DRAFT", "CREDITED"}
            /\ /\ NumberIsFree(b(i), thisYear)
               /\ CountUp(b(i), thisYear)
               /\ invoice' = [invoice EXCEPT ![c] = Credit(i), ![i].status = "CREDITED"]
            /\ UNCHANGED <<client, payment, asset, thisYear>>
    BY DEF CreateCreditNote
  <1>2. i \in Rows(invoice) /\ invoice[i] \in Invoice /\ i # c
    BY <1>1, InvoiceRows DEF Types
  <1>3. b(i) \in Rows(business) /\ thisYear \in Years
    BY <1>2, BusinessOf DEF Types, TypeOK
  <1>4. items(i) \in Stored /\ Total(items(i)) \in -MaxTotal..MaxTotal
    BY <1>1, <1>2, CreditedItems DEF Types, InvoicesArePlain
  <1>5. /\ Credit(i) \in Invoice /\ Credit(i).status = "ISSUED" /\ Credit(i).type = "CREDIT_NOTE"
        /\ SameParties(Credit(i), invoice[i]) /\ Credit(i).logo = invoice[i].logo
        /\ Credit(i).number = NextNumber(b(i), thisYear)
        /\ Credit(i).items = items(i) /\ Credit(i).total = Total(items(i)) /\ Credit(i).original = i
    <2>1. NextNumber(b(i), thisYear) \in Number
      BY <1>3, NextNumberType DEF Types
    <2> DEFINE number == NextNumber(b(i), thisYear)
               total == Total(items(i))
    <2>2. Credit(i) = [invoice[i] EXCEPT !.type = "CREDIT_NOTE", !.status = "ISSUED",
                          !.year = thisYear, !.items = items(i), !.total = total,
                          !.number = number, !.original = i]
      BY DEF Credit
    <2>3. number \in Number /\ items(i) \in Stored /\ total \in -MaxTotal..MaxTotal
      BY <1>4, <2>1
    <2> HIDE DEF items, number, total
    <2>4. Credit(i) \in Invoice
      BY <1>2, <1>3, <2>2, <2>3 DEF Invoice, Status
    <2>5. /\ Credit(i).status = "ISSUED" /\ Credit(i).type = "CREDIT_NOTE"
          /\ SameParties(Credit(i), invoice[i]) /\ Credit(i).logo = invoice[i].logo
          /\ Credit(i).number = number
          /\ Credit(i).items = items(i) /\ Credit(i).total = total /\ Credit(i).original = i
      BY <1>2, <2>2 DEF Invoice, SameParties
    <2> QED BY <2>4, <2>5 DEF number, total
  <1>6. credited(i) \in Invoice
    BY <1>2 DEF Invoice, Status
  <1>7. invoice' = [[invoice EXCEPT ![c] = Credit(i)] EXCEPT ![i] = credited(i)]
    BY <1>1, <1>2, InvoiceRows DEF Types
  <1>8. invoice[i].status # "DRAFT" /\ payment' = payment
    BY <1>1
  <1>9. /\ Credit(i).items = Lines(invoice[i].items, -1)
        /\ Credit(i).total = Total(Lines(invoice[i].items, -1))
    BY <1>5
  <1> HIDE DEF items
  <1> QED BY <1>1, <1>2, <1>5, <1>6, <1>7, <1>8, <1>9

\* Recording and deleting a payment write a status, which is neither DRAFT
\* nor CREDITED.
LEMMA PaymentWrites ==
    ASSUME TypeOK, AddPayment \/ DeletePayment
    PROVE  \E i \in Rows(invoice), r \in Invoice :
              /\ invoice' = [invoice EXCEPT ![i] = r]
              /\ \E status \in Status \ {"DRAFT", "CREDITED"} : r = [invoice[i] EXCEPT !.status = status]
              /\ payment' \in [Payments -> Payment \cup {None}]
              /\ UNCHANGED <<business, client, asset, thisYear>>
  <1>1. ASSUME NEW i \in Rows(invoice), NEW status \in Status \ {"DRAFT", "CREDITED"},
               invoice' = [invoice EXCEPT ![i].status = status]
        PROVE  /\ [invoice[i] EXCEPT !.status = status] \in Invoice
               /\ invoice' = [invoice EXCEPT ![i] = [invoice[i] EXCEPT !.status = status]]
    BY <1>1, InvoiceRows DEF Invoice
  <1>2. CASE AddPayment
    <2>1. PICK i \in Invoices, k \in Payments, n \in 1..MaxTotal :
              /\ invoice[i] # None
              /\ payment' = [payment EXCEPT ![k] = [invoice |-> i, amount |-> n]]
              /\ invoice' = [invoice EXCEPT ![i].status =
                                IF Paid(i) + n >= invoice[i].total THEN "PAID" ELSE "PARTIALLY_PAID"]
              /\ UNCHANGED <<business, client, asset, thisYear>>
      BY <1>2 DEF AddPayment
    <2>2. i \in Rows(invoice) /\ [invoice |-> i, amount |-> n] \in Payment
      BY <2>1, InvoiceRows DEF Payment
    <2>3. payment' \in [Payments -> Payment \cup {None}]
      BY <2>1, <2>2 DEF TypeOK
    <2> DEFINE status == IF Paid(i) + n >= invoice[i].total THEN "PAID" ELSE "PARTIALLY_PAID"
    <2>4. status \in Status \ {"DRAFT", "CREDITED"}
      BY DEF Status
    <2>5. invoice' = [invoice EXCEPT ![i].status = status]
      BY <2>1
    <2> HIDE DEF status
    <2> QED BY <1>1, <2>1, <2>2, <2>3, <2>4, <2>5
  <1>3. CASE DeletePayment
    <2>1. PICK i \in Rows(invoice) : \E k \in PaymentsOf(i) :
              /\ payment' = [payment EXCEPT ![k] = None]
              /\ invoice' = [invoice EXCEPT ![i].status =
                                StatusAfter(Paid(i) - payment[k].amount, invoice[i].total)]
              /\ UNCHANGED <<business, client, asset, thisYear>>
      BY <1>3 DEF DeletePayment
    <2>2. PICK k \in PaymentsOf(i) :
              /\ payment' = [payment EXCEPT ![k] = None]
              /\ invoice' = [invoice EXCEPT ![i].status =
                                StatusAfter(Paid(i) - payment[k].amount, invoice[i].total)]
              /\ UNCHANGED <<business, client, asset, thisYear>>
      BY <2>1
    <2>3. payment' \in [Payments -> Payment \cup {None}]
      BY <2>2 DEF TypeOK
    <2>4. StatusAfter(Paid(i) - payment[k].amount, invoice[i].total) \in Status \ {"DRAFT", "CREDITED"}
      BY DEF StatusAfter, Status
    <2> QED BY <1>1, <2>2, <2>3, <2>4
  <1> QED BY <1>2, <1>3

\* An edit writes a draft over a draft, for a client of the business.
LEMMA UpdateWrites ==
    ASSUME TypeOK, UpdateInvoice
    PROVE  \E i \in Rows(invoice), p \in Parties, r \in Invoice :
              /\ invoice' = [invoice EXCEPT ![i] = r]
              /\ invoice[i].status = "DRAFT" /\ r.status = "DRAFT"
              /\ r.business = p[1] /\ r.client = p[2] /\ r.items \in Plain
              /\ r.number = invoice[i].number /\ r.logo = invoice[i].logo
              /\ r.type = invoice[i].type /\ r.original = invoice[i].original
              /\ r.total = Total(r.items)
              /\ UNCHANGED <<business, client, payment, asset, thisYear>>
  <1>1. PICK i \in Invoices, p \in Parties, y \in Years, items \in ItemLists :
            /\ IsDraft(i)
            /\ invoice' = [invoice EXCEPT ![i] =
                  [@ EXCEPT !.business = p[1], !.client = p[2], !.year = y,
                            !.items = Lines(items, 1), !.total = Total(Lines(items, 1))]]
            /\ UNCHANGED <<business, client, payment, asset, thisYear>>
    BY DEF UpdateInvoice
  <1> DEFINE after == [invoice[i] EXCEPT !.business = p[1], !.client = p[2], !.year = y,
                                         !.items = Lines(items, 1),
                                         !.total = Total(Lines(items, 1))]
  <1>2. i \in Rows(invoice) /\ invoice[i] \in Invoice /\ invoice[i].status = "DRAFT"
    BY <1>1, InvoiceRows DEF IsDraft
  <1>3. invoice' = [invoice EXCEPT ![i] = after]
    BY <1>1, InvoiceRows
  <1>4. p[1] \in Businesses /\ p[2] \in Clients
    BY DEF Parties
  <1>5. after \in Invoice /\ after.items \in Plain
    BY <1>2, <1>4, NewItems DEF Invoice, Stored
  <1>6. /\ after.business = p[1] /\ after.client = p[2] /\ after.status = invoice[i].status
        /\ after.number = invoice[i].number /\ after.logo = invoice[i].logo
        /\ after.type = invoice[i].type /\ after.original = invoice[i].original
        /\ after.items = Lines(items, 1) /\ after.total = Total(Lines(items, 1))
    BY <1>2 DEF Invoice
  <1> HIDE DEF after
  <1> QED BY <1>1, <1>2, <1>3, <1>5, <1>6

LEMMA CreateWrites ==
    ASSUME TypeOK, CreateInvoice
    PROVE  \E i \in Invoices, p \in Parties, r \in Invoice :
              /\ invoice[i] = None
              /\ invoice' = [invoice EXCEPT ![i] = r]
              /\ r.status = "DRAFT" /\ r.business = p[1] /\ r.client = p[2]
              /\ r.items \in Plain /\ r.number = None /\ r.logo = None
              /\ r.type = "INVOICE" /\ r.original = None /\ r.total = Total(r.items)
              /\ UNCHANGED <<business, client, payment, asset, thisYear>>
  <1>1. PICK i \in Invoices, p \in Parties, y \in Years, items \in ItemLists :
            /\ invoice[i] = None
            /\ invoice' = [invoice EXCEPT ![i] = Draft(p[1], p[2], y, items)]
            /\ UNCHANGED <<business, client, payment, asset, thisYear>>
    BY DEF CreateInvoice
  <1>2. /\ Draft(p[1], p[2], y, items) \in Invoice
        /\ Draft(p[1], p[2], y, items).number = None
        /\ Draft(p[1], p[2], y, items).logo = None
        /\ Draft(p[1], p[2], y, items).items \in Plain
        /\ Draft(p[1], p[2], y, items).status = "DRAFT"
        /\ Draft(p[1], p[2], y, items).business = p[1]
        /\ Draft(p[1], p[2], y, items).client = p[2]
        /\ Draft(p[1], p[2], y, items).type = "INVOICE"
        /\ Draft(p[1], p[2], y, items).original = None
        /\ Draft(p[1], p[2], y, items).items = Lines(items, 1)
        /\ Draft(p[1], p[2], y, items).total = Total(Lines(items, 1))
    BY NewItems DEF Draft, Invoice, Parties, Status, Stored
  <1> QED BY <1>1, <1>2

LEMMA DeleteWrites ==
    ASSUME TypeOK, DeleteInvoice
    PROVE  \E i \in Rows(invoice) :
              /\ invoice[i].status = "DRAFT"
              /\ invoice' = [invoice EXCEPT ![i] = None]
              /\ UNCHANGED <<business, client, payment, asset, thisYear>>
  BY InvoiceRows DEF DeleteInvoice, IsDraft

-----------------------------------------------------------------------------
(* Types. *)

LEMMA TypesKept ==
    ASSUME Types, PartiesBelong, Next
    PROVE  Types'
  <1>0. /\ invoice \in [Invoices -> Invoice \cup {None}]
        /\ \A i \in Rows(invoice) : i \in Invoices /\ invoice[i] # None /\ invoice[i] \in Invoice
        /\ TypeOK
    BY RowsAre DEF Types, TypeOK, Rows
  <1>1. ASSUME UNCHANGED <<invoice, payment, thisYear>>,
               business' \in [Businesses -> Business \cup {None}],
               client' \in [Clients -> Businesses \cup {None}],
               asset' \in [Assets -> Businesses \cup {None}]
        PROVE  Types'
    BY <1>1 DEF Types, TypeOK, DraftsAreBlank, InvoicesArePlain, Rows
  <1>2. ASSUME NEW i \in Invoices, NEW r \in Invoice,
               invoice' = [invoice EXCEPT ![i] = r],
               r.status = "DRAFT" => r.number = None /\ r.logo = None,
               r.type = "INVOICE" => r.items \in Plain,
               UNCHANGED <<client, asset, thisYear>>,
               business' \in [Businesses -> Business \cup {None}],
               payment' \in [Payments -> Payment \cup {None}]
        PROVE  Types'
    BY <1>0, <1>2, RowWritten DEF Types, TypeOK
  <1>4. CASE CreateBusiness
    <2>1. PICK b \in Businesses, x \in Prefixes :
              business' = [business EXCEPT ![b] = [prefix |-> x, next |-> 1, year |-> 0, logo |-> None]]
      BY <1>4 DEF CreateBusiness
    <2>2. [prefix |-> x, next |-> 1, year |-> 0, logo |-> None] \in Business
      BY DEF Business
    <2>3. business' \in [Businesses -> Business \cup {None}]
      BY <1>0, <2>1, <2>2 DEF TypeOK
    <2> QED BY <1>0, <1>1, <1>4, <2>3 DEF CreateBusiness, TypeOK
  <1>5. CASE UpdateBusiness
    <2>1. business' \in [Businesses -> Business \cup {None}]
      BY <1>0, <1>5, RowsAre DEF UpdateBusiness, TypeOK, Business, Rows
    <2> QED BY <1>0, <1>1, <1>5, <2>1 DEF UpdateBusiness, TypeOK
  <1>6. CASE DeleteBusiness
    <2>1. /\ business' \in [Businesses -> Business \cup {None}]
          /\ client' \in [Clients -> Businesses \cup {None}]
          /\ asset' \in [Assets -> Businesses \cup {None}]
      BY <1>0, <1>6 DEF DeleteBusiness, TypeOK, Rows
    <2> QED BY <1>1, <1>6, <2>1 DEF DeleteBusiness
  <1>7. CASE UpdateLogo
    <2>1. /\ business' \in [Businesses -> Business \cup {None}]
          /\ asset' \in [Assets -> Businesses \cup {None}]
      BY <1>0, <1>7, RowsAre DEF UpdateLogo, TypeOK, Business, Rows
    <2> QED BY <1>0, <1>1, <1>7, <2>1 DEF UpdateLogo, TypeOK
  <1>8. CASE DeleteLogo
    <2>1. business' \in [Businesses -> Business \cup {None}]
      BY <1>0, <1>8, RowsAre DEF DeleteLogo, TypeOK, Business, Rows
    <2> QED BY <1>0, <1>1, <1>8, <2>1 DEF DeleteLogo, TypeOK
  <1>9. CASE DeleteClient
    <2>1. client' \in [Clients -> Businesses \cup {None}]
      BY <1>0, <1>9 DEF DeleteClient, TypeOK
    <2> QED BY <1>0, <1>1, <1>9, <2>1 DEF DeleteClient, TypeOK
  <1>10. CASE CreateInvoice
    BY <1>0, <1>2, <1>10, CreateWrites DEF TypeOK
  <1>11. CASE UpdateInvoice
    BY <1>0, <1>2, <1>11, UpdateWrites DEF Types, DraftsAreBlank, TypeOK
  <1>12. CASE DeleteInvoice
    <2>1. PICK i \in Rows(invoice) :
              /\ invoice[i].status = "DRAFT"
              /\ invoice' = [invoice EXCEPT ![i] = None]
              /\ UNCHANGED <<business, client, payment, asset, thisYear>>
      BY <1>0, <1>12, DeleteWrites
    <2>2. invoice' \in [Invoices -> Invoice \cup {None}]
      BY <1>0, <2>1
    <2>3. Rows(invoice)' \subseteq Rows(invoice) /\ \A k \in Rows(invoice)' : invoice'[k] = invoice[k]
      BY <1>0, <2>1 DEF Rows
    <2> QED BY <1>0, <2>1, <2>2, <2>3 DEF Types, TypeOK, DraftsAreBlank, InvoicesArePlain
  <1>13. CASE IssueInvoice
    <2>1. PICK i \in Rows(invoice), r \in Invoice :
              /\ invoice' = [invoice EXCEPT ![i] = r]
              /\ r.status = "ISSUED" /\ r.type = invoice[i].type /\ r.items = invoice[i].items
              /\ CountUp(invoice[i].business, invoice[i].year)
      BY <1>0, <1>13, IssueWrites
    <2>2. business' \in [Businesses -> Business \cup {None}]
      BY <1>0, <2>1, NextNumberType, BusinessOf DEF CountUp, Invoice
    <2>3. r.type = "INVOICE" => r.items \in Plain
      BY <2>1 DEF Types, InvoicesArePlain
    <2>4. i \in Invoices /\ UNCHANGED <<client, payment, asset, thisYear>>
      BY <1>0, <1>13 DEF IssueInvoice
    <2> QED BY <1>0, <1>2, <2>1, <2>2, <2>3, <2>4 DEF TypeOK
  <1>14. CASE CreateCreditNote
    <2>1. PICK i \in Rows(invoice), c \in Invoices, r \in Invoice, s \in Invoice :
              /\ i # c
              /\ invoice' = [[invoice EXCEPT ![c] = r] EXCEPT ![i] = s]
              /\ r.status = "ISSUED" /\ r.type = "CREDIT_NOTE"
              /\ CountUp(invoice[i].business, thisYear)
              /\ s = [invoice[i] EXCEPT !.status = "CREDITED"]
      BY <1>14, CreditWrites
    <2>2. business' \in [Businesses -> Business \cup {None}]
      BY <1>0, <2>1, NextNumberType, BusinessOf DEF CountUp, TypeOK
    <2>3. /\ s.status = "CREDITED" /\ s.type = invoice[i].type /\ s.items = invoice[i].items
          /\ i \in Invoices
      BY <1>0, <2>1 DEF Invoice
    <2>4. invoice' \in [Invoices -> Invoice \cup {None}]
      BY <1>0, <2>1, <2>3
    <2>5. ASSUME NEW k \in Rows(invoice)'
          PROVE  /\ invoice'[k].status = "DRAFT" => invoice'[k].number = None /\ invoice'[k].logo = None
                 /\ invoice'[k].type = "INVOICE" => invoice'[k].items \in Plain
      <3>1. k \in Invoices /\ invoice'[k] # None
        BY <2>4, <2>5 DEF Rows
      <3>2. CASE k = i
        <4>1. invoice'[k] = s
          BY <1>0, <2>1, <2>3, <3>2
        <4> QED BY <2>3, <4>1 DEF Types, InvoicesArePlain
      <3>3. CASE k = c
        <4>1. invoice'[k] = r
          BY <1>0, <2>1, <3>3
        <4> QED BY <2>1, <4>1
      <3>4. CASE k # i /\ k # c
        BY <1>0, <2>1, <3>1, <3>4 DEF Types, DraftsAreBlank, InvoicesArePlain, Rows
      <3> QED BY <3>2, <3>3, <3>4
    <2>6. UNCHANGED <<client, payment, asset, thisYear>>
      BY <1>14 DEF CreateCreditNote
    <2> QED BY <1>0, <2>2, <2>4, <2>5, <2>6 DEF Types, TypeOK, DraftsAreBlank, InvoicesArePlain
  <1>15. CASE AddPayment \/ DeletePayment
    <2>1. PICK i \in Rows(invoice), r \in Invoice :
              /\ invoice' = [invoice EXCEPT ![i] = r]
              /\ \E status \in Status \ {"DRAFT"} : r = [invoice[i] EXCEPT !.status = status]
              /\ payment' \in [Payments -> Payment \cup {None}]
              /\ UNCHANGED <<business, client, asset, thisYear>>
      BY <1>0, <1>15, PaymentWrites
    <2>2. r.status # "DRAFT" /\ r.type = invoice[i].type /\ r.items = invoice[i].items /\ i \in Invoices
      BY <1>0, <2>1 DEF Invoice
    <2>3. r.type = "INVOICE" => r.items \in Plain
      BY <2>2 DEF Types, InvoicesArePlain
    <2> QED BY <1>0, <1>2, <2>1, <2>2, <2>3 DEF TypeOK
  <1>16. CASE NewYear
    BY <1>0, <1>16 DEF NewYear, Types, TypeOK, DraftsAreBlank, InvoicesArePlain, Rows
  <1> QED
    BY <1>4, <1>5, <1>6, <1>7, <1>8, <1>9, <1>10, <1>11, <1>12, <1>13, <1>14, <1>15, <1>16 DEF Next

-----------------------------------------------------------------------------
(* References between rows. *)

\* While the tables of businesses and clients only grow, rows that keep the
\* parties of a row there was keep belonging.
LEMMA SamePartiesBelong ==
    ASSUME TypeOK, PartiesBelong, invoice' \in [Invoices -> Invoice \cup {None}],
           UNCHANGED client, business' \in [Businesses -> Business \cup {None}],
           \A b \in Rows(business) : business'[b] # None,
           \A k \in Rows(invoice)' : \E j \in Rows(invoice) : SameParties(invoice'[k], invoice[j])
    PROVE  PartiesBelong'
  <1> SUFFICES ASSUME NEW k \in Rows(invoice)'
               PROVE  /\ business'[invoice'[k].business] # None
                      /\ client'[invoice'[k].client] = invoice'[k].business
    BY DEF PartiesBelong
  <1>1. PICK j \in Rows(invoice) : SameParties(invoice'[k], invoice[j])
    OBVIOUS
  <1>2. invoice[j].business \in Rows(business) /\ client[invoice[j].client] = invoice[j].business
    BY BusinessOf DEF PartiesBelong
  <1> QED BY <1>1, <1>2 DEF SameParties

LEMMA PartiesKept ==
    ASSUME Types, Types', PartiesBelong, Next
    PROVE  PartiesBelong'
  <1>0. /\ TypeOK /\ TypeOK' /\ invoice \in [Invoices -> Invoice \cup {None}]
        /\ invoice' \in [Invoices -> Invoice \cup {None}]
        /\ Rows(invoice) = {i \in Invoices : invoice[i] # None}
        /\ Rows(invoice)' = {i \in Invoices : invoice'[i] # None}
        /\ None \notin Invoice
    BY InvoiceRows, RowAssumption DEF Types, TypeOK, Rows
  <1>1. ASSUME \A b \in Rows(business) : business'[b] # None,
               UNCHANGED client,
               \A k \in Rows(invoice)' : \E j \in Rows(invoice) : SameParties(invoice'[k], invoice[j])
        PROVE  PartiesBelong'
    BY <1>0, <1>1, SamePartiesBelong DEF TypeOK
  <1>2. ASSUME NEW i \in Rows(invoice), NEW r \in Invoice,
               invoice' = [invoice EXCEPT ![i] = r], SameParties(r, invoice[i]),
               UNCHANGED client, \A b \in Rows(business) : business'[b] # None
        PROVE  PartiesBelong'
    <2>1. ASSUME NEW k \in Rows(invoice)'
          PROVE  \E j \in Rows(invoice) : SameParties(invoice'[k], invoice[j])
      BY <1>0, <1>2 DEF SameParties
    <2> QED BY <1>1, <1>2, <2>1
  <1>3. ASSUME NEW i \in Invoices, NEW p \in Parties, NEW r \in Invoice,
               invoice' = [invoice EXCEPT ![i] = r], r.business = p[1], r.client = p[2],
               UNCHANGED <<business, client>>
        PROVE  PartiesBelong'
    <2>1. business[p[1]] # None /\ client[p[2]] = p[1]
      BY DEF Parties
    <2> QED BY <1>0, <1>3, <2>1 DEF PartiesBelong
  <1>4. ASSUME UNCHANGED <<invoice, client>>, \A b \in Rows(business) : business'[b] # None
        PROVE  PartiesBelong'
    BY <1>0, <1>1, <1>4 DEF SameParties
  <1>5. CASE CreateBusiness
    BY <1>0, <1>4, <1>5, RowsAre, RowAssumption DEF CreateBusiness, TypeOK, Business
  <1>6. CASE UpdateBusiness \/ UpdateLogo \/ DeleteLogo \/ NewYear
    <2>1. \A b \in Rows(business) : business'[b] # None
      BY <1>0, <1>6, RowsAre, RowAssumption
      DEF UpdateBusiness, UpdateLogo, DeleteLogo, NewYear, TypeOK, Business
    <2> QED BY <1>4, <1>6, <2>1 DEF UpdateBusiness, UpdateLogo, DeleteLogo, NewYear
  <1>7. CASE DeleteBusiness
    <2>1. PICK b \in Rows(business) :
              /\ InvoicesOf(b) = {}
              /\ business' = [business EXCEPT ![b] = None]
              /\ client' = [c \in Clients |-> IF client[c] = b THEN None ELSE client[c]]
              /\ UNCHANGED invoice
      BY <1>7 DEF DeleteBusiness
    <2>2. \A k \in Rows(invoice) : invoice[k].business # b
      BY <2>1 DEF InvoicesOf
    <2>3. \A k \in Rows(invoice) : invoice[k].business \in Businesses /\ invoice[k].client \in Clients
      BY <1>0, InvoiceRows DEF Invoice
    <2> QED BY <1>0, <2>1, <2>2, <2>3 DEF PartiesBelong, TypeOK
  <1>8. CASE DeleteClient
    BY <1>0, <1>8 DEF DeleteClient, PartiesBelong, TypeOK
  <1>9. CASE CreateInvoice
    BY <1>0, <1>3, <1>9, CreateWrites
  <1>10. CASE UpdateInvoice
    BY <1>0, <1>3, <1>10, UpdateWrites
  <1>11. CASE DeleteInvoice
    <2>1. PICK i \in Rows(invoice) :
              /\ invoice' = [invoice EXCEPT ![i] = None]
              /\ UNCHANGED <<business, client, payment, asset, thisYear>>
      BY <1>0, <1>11, DeleteWrites
    <2>2. \A k \in Rows(invoice)' : k \in Rows(invoice) /\ invoice'[k] = invoice[k]
      BY <1>0, <2>1
    <2> QED BY <2>1, <2>2 DEF PartiesBelong
  <1>12. CASE IssueInvoice
    <2>1. PICK i \in Rows(invoice), r \in Invoice :
              /\ invoice' = [invoice EXCEPT ![i] = r]
              /\ SameParties(r, invoice[i])
              /\ CountUp(invoice[i].business, invoice[i].year)
      BY <1>0, <1>12, IssueWrites
    <2>2. \A b \in Rows(business) : business'[b] # None
      BY <1>0, <2>1, CountUpWrites, BusinessOf, InvoiceRows DEF Invoice
    <2>3. UNCHANGED client
      BY <1>12 DEF IssueInvoice
    <2> QED BY <1>2, <2>1, <2>2, <2>3
  <1>13. CASE CreateCreditNote
    <2>1. PICK i \in Rows(invoice), c \in Invoices, r \in Invoice, s \in Invoice :
              /\ i # c /\ invoice' = [[invoice EXCEPT ![c] = r] EXCEPT ![i] = s]
              /\ SameParties(r, invoice[i])
              /\ CountUp(invoice[i].business, thisYear)
              /\ s = [invoice[i] EXCEPT !.status = "CREDITED"]
      BY <1>13, CreditWrites
    <2>2. \A b \in Rows(business) : business'[b] # None
      BY <1>0, <2>1, CountUpWrites, BusinessOf DEF TypeOK
    <2>3. SameParties(s, invoice[i])
      BY <1>0, <2>1, InvoiceRows DEF SameParties, Invoice
    <2>4. ASSUME NEW k \in Rows(invoice)'
          PROVE  \E j \in Rows(invoice) : SameParties(invoice'[k], invoice[j])
      <3>1. CASE k \in {i, c}
        BY <1>0, <2>1, <2>3, <3>1
      <3>2. CASE k \notin {i, c}
        BY <1>0, <2>1, <3>2 DEF SameParties
      <3> QED BY <3>1, <3>2
    <2>5. UNCHANGED client
      BY <1>13 DEF CreateCreditNote
    <2> QED BY <1>1, <2>2, <2>4, <2>5
  <1>14. CASE AddPayment \/ DeletePayment
    <2>1. PICK i \in Rows(invoice), r \in Invoice :
              /\ invoice' = [invoice EXCEPT ![i] = r]
              /\ \E status \in Status \ {"DRAFT"} : r = [invoice[i] EXCEPT !.status = status]
              /\ UNCHANGED <<business, client, asset, thisYear>>
      BY <1>0, <1>14, PaymentWrites
    <2>2. SameParties(r, invoice[i])
      BY <1>0, <2>1, InvoiceRows DEF SameParties, Invoice
    <2> QED BY <1>0, <1>2, <2>1, <2>2, RowsAre
  <1> QED
    BY <1>5, <1>6, <1>7, <1>8, <1>9, <1>10, <1>11, <1>12, <1>13, <1>14 DEF Next

\* The logo of a business, and the one of every invoice, stays stored.
LEMMA LogosKept ==
    ASSUME Types, Types', PartiesBelong, Logos, Next
    PROVE  Logos'
  <1>0. /\ TypeOK /\ TypeOK' /\ invoice \in [Invoices -> Invoice \cup {None}]
        /\ invoice' \in [Invoices -> Invoice \cup {None}]
        /\ Rows(invoice) = {i \in Invoices : invoice[i] # None}
        /\ Rows(invoice)' = {i \in Invoices : invoice'[i] # None}
        /\ \A i \in Rows(invoice) : invoice[i] \in Invoice
        /\ business \in [Businesses -> Business \cup {None}]
        /\ business' \in [Businesses -> Business \cup {None}]
        /\ Rows(business) = {b \in Businesses : business[b] # None}
        /\ Rows(business)' = {b \in Businesses : business'[b] # None}
        /\ \A b \in Rows(business) : business[b] \in Business
        /\ asset \in [Assets -> Businesses \cup {None}]
        /\ None \notin Invoice /\ None \notin Business /\ None \notin Businesses
    BY InvoiceRows, RowAssumption, InvoicingAssumption DEF Types, TypeOK, Rows
  <1>1. ASSUME \A a \in Assets : asset[a] # None => asset'[a] = asset[a],
               \A b \in Rows(business)' : b \in Rows(business) /\ business'[b].logo = business[b].logo,
               \A k \in Rows(invoice)' :
                   \/ invoice'[k].logo = None
                   \/ \E j \in Rows(invoice) :
                         /\ SameParties(invoice'[k], invoice[j])
                         /\ invoice'[k].logo \in {invoice[j].logo, business[invoice[j].business].logo}
        PROVE  Logos'
    <2>1. LogosAreOwn'
      BY <1>0, <1>1 DEF Logos, LogosAreOwn, Business
    <2>2. ASSUME NEW k \in Rows(invoice)', invoice'[k].logo # None
          PROVE  asset'[invoice'[k].logo] = invoice'[k].business
      <3>1. PICK j \in Rows(invoice) :
                /\ SameParties(invoice'[k], invoice[j])
                /\ invoice'[k].logo \in {invoice[j].logo, business[invoice[j].business].logo}
        BY <1>1, <2>2
      <3> DEFINE b == invoice[j].business
      <3>2. b \in Rows(business) /\ b \in Businesses
        BY <1>0, BusinessOf
      <3>3. invoice'[k].logo \in Assets /\ asset[invoice'[k].logo] = b
        BY <1>0, <2>2, <3>1, <3>2 DEF Logos, LogosAreOwn, SnapshotsKeepTheirLogo, Invoice, Business
      <3> QED BY <1>0, <1>1, <3>1, <3>2, <3>3 DEF SameParties
    <2> QED BY <2>1, <2>2 DEF Logos, SnapshotsKeepTheirLogo
  <1>2. ASSUME NEW i \in Invoices, NEW r \in Invoice,
               invoice' = [invoice EXCEPT ![i] = r],
               \/ r.logo = None
               \/ /\ i \in Rows(invoice) /\ SameParties(r, invoice[i])
                  /\ r.logo \in {invoice[i].logo, business[invoice[i].business].logo},
               \A b \in Rows(business)' : b \in Rows(business) /\ business'[b].logo = business[b].logo,
               UNCHANGED asset
        PROVE  Logos'
    <2>1. ASSUME NEW k \in Rows(invoice)'
          PROVE  \/ invoice'[k].logo = None
                 \/ \E j \in Rows(invoice) :
                       /\ SameParties(invoice'[k], invoice[j])
                       /\ invoice'[k].logo \in {invoice[j].logo, business[invoice[j].business].logo}
      <3>1. CASE k = i
        BY <1>0, <1>2, <3>1
      <3>2. CASE k # i
        BY <1>0, <1>2, <3>2 DEF SameParties
      <3> QED BY <3>1, <3>2
    <2> QED BY <1>1, <1>2, <2>1
  <1>3. ASSUME UNCHANGED invoice,
               \A a \in Assets : asset[a] # None => asset'[a] = asset[a],
               \A b \in Rows(business)' :
                   business'[b].logo # None => asset'[business'[b].logo] = b
        PROVE  Logos'
    <2>1. SnapshotsKeepTheirLogo'
      BY <1>0, <1>3 DEF Logos, SnapshotsKeepTheirLogo, Invoice
    <2> QED BY <1>3, <2>1 DEF Logos, LogosAreOwn
  <1>4. CASE CreateBusiness
    BY <1>0, <1>3, <1>4 DEF CreateBusiness, Logos, LogosAreOwn, Business
  <1>5. CASE UpdateBusiness
    BY <1>0, <1>3, <1>5 DEF UpdateBusiness, Logos, LogosAreOwn, Business
  <1>6. CASE UpdateLogo
    BY <1>0, <1>3, <1>6 DEF UpdateLogo, Logos, LogosAreOwn, Business
  <1>7. CASE DeleteLogo
    BY <1>0, <1>3, <1>7 DEF DeleteLogo, Logos, LogosAreOwn, Business
  <1>8. CASE DeleteBusiness
    <2>1. PICK b \in Rows(business) :
              /\ InvoicesOf(b) = {}
              /\ business' = [business EXCEPT ![b] = None]
              /\ asset' = [a \in Assets |-> IF asset[a] = b THEN None ELSE asset[a]]
              /\ UNCHANGED invoice
      BY <1>8 DEF DeleteBusiness
    <2>2. \A k \in Rows(invoice) : invoice[k].business # b
      BY <2>1 DEF InvoicesOf
    <2>3. SnapshotsKeepTheirLogo'
      BY <1>0, <2>1, <2>2 DEF Logos, SnapshotsKeepTheirLogo, Invoice
    <2>4. LogosAreOwn'
      BY <1>0, <2>1 DEF Logos, LogosAreOwn, Business
    <2> QED BY <2>3, <2>4 DEF Logos
  <1>9. CASE DeleteClient \/ NewYear
    BY <1>0, <1>9 DEF DeleteClient, NewYear, Logos, LogosAreOwn, SnapshotsKeepTheirLogo
  <1>10. CASE CreateInvoice
    BY <1>0, <1>2, <1>10, CreateWrites
  <1>11. CASE UpdateInvoice
    BY <1>0, <1>2, <1>11, UpdateWrites DEF Types, DraftsAreBlank
  <1>12. CASE DeleteInvoice
    <2>1. PICK i \in Rows(invoice) :
              /\ invoice' = [invoice EXCEPT ![i] = None]
              /\ UNCHANGED <<business, client, payment, asset, thisYear>>
      BY <1>0, <1>12, DeleteWrites
    <2>2. \A k \in Rows(invoice)' : k \in Rows(invoice) /\ invoice'[k] = invoice[k]
      BY <1>0, <2>1
    <2> QED BY <1>1, <2>1, <2>2 DEF SameParties
  <1>13. CASE IssueInvoice
    <2>1. PICK i \in Rows(invoice), r \in Invoice :
              /\ invoice' = [invoice EXCEPT ![i] = r]
              /\ SameParties(r, invoice[i])
              /\ r.logo = business[invoice[i].business].logo
              /\ CountUp(invoice[i].business, invoice[i].year)
      BY <1>0, <1>13, IssueWrites
    <2>2. \A b \in Rows(business)' : b \in Rows(business) /\ business'[b].logo = business[b].logo
      BY <1>0, <2>1, CountUpWrites, BusinessOf DEF Invoice
    <2>3. UNCHANGED asset
      BY <1>13 DEF IssueInvoice
    <2> QED BY <1>0, <1>2, <2>1, <2>2, <2>3
  <1>14. CASE CreateCreditNote
    <2>1. PICK i \in Rows(invoice), c \in Invoices, r \in Invoice, s \in Invoice :
              /\ i # c /\ invoice' = [[invoice EXCEPT ![c] = r] EXCEPT ![i] = s]
              /\ SameParties(r, invoice[i]) /\ r.logo = invoice[i].logo
              /\ CountUp(invoice[i].business, thisYear)
              /\ s = [invoice[i] EXCEPT !.status = "CREDITED"]
      BY <1>14, CreditWrites
    <2>2. \A b \in Rows(business)' : b \in Rows(business) /\ business'[b].logo = business[b].logo
      BY <1>0, <2>1, CountUpWrites, BusinessOf DEF TypeOK
    <2>3. SameParties(s, invoice[i]) /\ s.logo = invoice[i].logo
      BY <1>0, <2>1 DEF SameParties, Invoice
    <2>4. ASSUME NEW k \in Rows(invoice)'
          PROVE  \E j \in Rows(invoice) :
                     SameParties(invoice'[k], invoice[j]) /\ invoice'[k].logo = invoice[j].logo
      <3>1. CASE k \in {i, c}
        BY <1>0, <2>1, <2>3, <3>1
      <3>2. CASE k \notin {i, c}
        BY <1>0, <2>1, <3>2 DEF SameParties
      <3> QED BY <3>1, <3>2
    <2>5. UNCHANGED asset
      BY <1>14 DEF CreateCreditNote
    <2> QED BY <1>1, <2>2, <2>4, <2>5
  <1>15. CASE AddPayment \/ DeletePayment
    <2>1. PICK i \in Rows(invoice), r \in Invoice :
              /\ invoice' = [invoice EXCEPT ![i] = r]
              /\ \E status \in Status \ {"DRAFT"} : r = [invoice[i] EXCEPT !.status = status]
              /\ UNCHANGED <<business, client, asset, thisYear>>
      BY <1>0, <1>15, PaymentWrites
    <2>2. SameParties(r, invoice[i]) /\ r.logo = invoice[i].logo
      BY <1>0, <2>1 DEF SameParties, Invoice
    <2> QED BY <1>0, <1>2, <2>1, <2>2
  <1> QED
    BY <1>4, <1>5, <1>6, <1>7, <1>8, <1>9, <1>10, <1>11, <1>12, <1>13, <1>14, <1>15 DEF Next

-----------------------------------------------------------------------------
(* Issued invoices and their numbers. *)

LEMMA IssuedKept ==
    ASSUME Types, PartiesBelong, Next, NEW i \in Invoices, Issued(i)
    PROVE  /\ Issued(i)'
           /\ [invoice'[i] EXCEPT !.status = "ISSUED"] = [invoice[i] EXCEPT !.status = "ISSUED"]
  <1>0. /\ TypeOK /\ invoice \in [Invoices -> Invoice \cup {None}]
        /\ Rows(invoice) = {k \in Invoices : invoice[k] # None}
        /\ i \in Rows(invoice) /\ invoice[i] \in Invoice /\ invoice[i].status # "DRAFT"
        /\ None \notin Invoice
    BY InvoiceRows DEF Types, Issued
  <1>1. CASE invoice'[i] = invoice[i]
    BY <1>1 DEF Issued
  <1>2. ASSUME NEW status \in Status \ {"DRAFT"}, invoice'[i] = [invoice[i] EXCEPT !.status = status]
        PROVE  /\ Issued(i)'
               /\ [invoice'[i] EXCEPT !.status = "ISSUED"] = [invoice[i] EXCEPT !.status = "ISSUED"]
    <2>1. invoice'[i] \in Invoice /\ invoice'[i].status = status
      BY <1>0, <1>2 DEF Invoice
    <2>2. Issued(i)'
      BY <1>0, <2>1 DEF Issued
    <2>3. [invoice'[i] EXCEPT !.status = "ISSUED"] = [invoice[i] EXCEPT !.status = "ISSUED"]
      BY <1>0, <1>2 DEF Invoice
    <2> QED BY <2>2, <2>3
  <1>3. CASE CreateInvoice
    BY <1>0, <1>1, <1>3, CreateWrites
  <1>4. CASE UpdateInvoice
    BY <1>0, <1>1, <1>4, UpdateWrites
  <1>5. CASE DeleteInvoice
    BY <1>0, <1>1, <1>5, DeleteWrites
  <1>6. CASE IssueInvoice
    <2>1. PICK k \in Rows(invoice), r \in Invoice :
              invoice[k].status = "DRAFT" /\ invoice' = [invoice EXCEPT ![k] = r]
      BY <1>0, <1>6, IssueWrites
    <2> QED BY <1>0, <1>1, <2>1
  <1>7. CASE CreateCreditNote
    <2>1. PICK k \in Rows(invoice), c \in Invoices, r \in Invoice, s \in Invoice :
              /\ invoice[c] = None /\ invoice' = [[invoice EXCEPT ![c] = r] EXCEPT ![k] = s]
              /\ s = [invoice[k] EXCEPT !.status = "CREDITED"]
      BY <1>7, CreditWrites
    <2>2. CASE i = k
      <3>1. invoice'[i] = [invoice[i] EXCEPT !.status = "CREDITED"]
        BY <1>0, <2>1, <2>2
      <3>2. "CREDITED" \in Status \ {"DRAFT"}
        BY DEF Status
      <3> QED BY <1>2, <3>1, <3>2
    <2>3. CASE i # k
      BY <1>0, <1>1, <2>1, <2>3
    <2> QED BY <2>2, <2>3
  <1>8. CASE AddPayment \/ DeletePayment
    <2>1. PICK k \in Rows(invoice), r \in Invoice :
              /\ invoice' = [invoice EXCEPT ![k] = r]
              /\ \E status \in Status \ {"DRAFT"} : r = [invoice[k] EXCEPT !.status = status]
      BY <1>0, <1>8, PaymentWrites
    <2>2. CASE i = k
      BY <1>0, <1>2, <2>1, <2>2
    <2>3. CASE i # k
      BY <1>0, <1>1, <2>1, <2>3
    <2> QED BY <2>2, <2>3
  <1>9. CASE \/ CreateBusiness \/ UpdateBusiness \/ DeleteBusiness \/ UpdateLogo \/ DeleteLogo
             \/ DeleteClient \/ NewYear
    BY <1>1, <1>9
    DEF CreateBusiness, UpdateBusiness, DeleteBusiness, UpdateLogo, DeleteLogo, DeleteClient, NewYear
  <1> QED BY <1>3, <1>4, <1>5, <1>6, <1>7, <1>8, <1>9 DEF Next

\* Row k carries the number with this year and sequence, of business b.
Carries(k, b, y, s) ==
    /\ invoice[k].business = b /\ invoice[k].number # None
    /\ invoice[k].number.year = y /\ invoice[k].number.seq = s

LEMMA SeqsAreCarried ==
    ASSUME TypeOK, NEW b, NEW y, NEW s
    PROVE  s \in SeqsIssued(b, y) <=> \E k \in Rows(invoice) : Carries(k, b, y, s)
  BY InvoiceRows DEF SeqsIssued, InvoicesOf, Carries

\* Numbers are never taken back.
LEMMA SeqsGrow ==
    ASSUME Types, Types', PartiesBelong, Next, NEW b, NEW y, NEW s \in SeqsIssued(b, y)
    PROVE  s \in SeqsIssued(b, y)'
  <1>1. PICK k \in Rows(invoice) : Carries(k, b, y, s)
    BY SeqsAreCarried DEF Types
  <1>2. k \in Invoices /\ Issued(k) /\ invoice[k] \in Invoice
    BY <1>1, InvoiceRows DEF Types, DraftsAreBlank, Carries, Issued
  <1>3. Issued(k)' /\ [invoice'[k] EXCEPT !.status = "ISSUED"] = [invoice[k] EXCEPT !.status = "ISSUED"]
    BY <1>2, IssuedKept
  <1>4. k \in Rows(invoice)' /\ invoice'[k] \in Invoice
    BY <1>2, <1>3, RowAssumption DEF Types, TypeOK, Rows, Issued
  <1>5. invoice'[k].business = invoice[k].business /\ invoice'[k].number = invoice[k].number
    <2>1. \A r \in Invoice : LET q == [r EXCEPT !.status = "ISSUED"]
                             IN  q.business = r.business /\ q.number = r.number
      BY DEF Invoice
    <2> QED BY <1>2, <1>3, <1>4, <2>1
  <1>6. Carries(k, b, y, s)'
    BY <1>1, <1>5 DEF Carries
  <1>7. TypeOK'
    BY DEF Types
  <1> QED BY <1>4, <1>6, <1>7, InvoiceRows DEF SeqsIssued, InvoicesOf, Carries, Rows, TypeOK

\* A number that is new is the next one of its business and year.
LEMMA SeqsNew ==
    ASSUME Types, Types', PartiesBelong, Next, NEW b, NEW y, NEW s \in SeqsIssued(b, y)'
    PROVE  \/ s \in SeqsIssued(b, y)
           \/ b \in Rows(business) /\ y \in Years /\ CountUp(b, y) /\ s = NextSeq(b, y)
  <1>0. /\ TypeOK /\ TypeOK' /\ invoice \in [Invoices -> Invoice \cup {None}]
        /\ Rows(invoice) = {k \in Invoices : invoice[k] # None}
        /\ Rows(invoice)' = {k \in Invoices : invoice'[k] # None}
        /\ \A k \in Rows(invoice) : invoice[k] \in Invoice
        /\ thisYear \in Years
    BY InvoiceRows DEF Types, TypeOK, Rows
  <1>1. PICK k \in Rows(invoice)' : Carries(k, b, y, s)'
    BY DEF SeqsIssued, InvoicesOf, Carries
  <1>2. ASSUME k \in Rows(invoice),
               invoice'[k].business = invoice[k].business /\ invoice'[k].number = invoice[k].number
        PROVE  s \in SeqsIssued(b, y)
    BY <1>0, <1>1, <1>2, SeqsAreCarried DEF Carries
  <1>3. CASE CreateInvoice
    BY <1>0, <1>1, <1>2, <1>3, CreateWrites DEF Carries
  <1>4. CASE UpdateInvoice
    BY <1>0, <1>1, <1>2, <1>4, UpdateWrites DEF Carries, Types, DraftsAreBlank
  <1>5. CASE DeleteInvoice
    BY <1>0, <1>1, <1>2, <1>5, DeleteWrites
  <1>6. CASE IssueInvoice
    <2>1. PICK i \in Rows(invoice), r \in Invoice :
              /\ invoice' = [invoice EXCEPT ![i] = r]
              /\ SameParties(r, invoice[i])
              /\ r.number = NextNumber(invoice[i].business, invoice[i].year)
              /\ CountUp(invoice[i].business, invoice[i].year)
      BY <1>0, <1>6, IssueWrites
    <2>2. CASE k = i
      <3> DEFINE c == invoice[i].business  z == invoice[i].year
      <3>1. c \in Rows(business) /\ z \in Years
        BY <1>0, BusinessOf DEF Invoice
      <3>2. NextNumber(c, z).seq = NextSeq(c, z) /\ NextNumber(c, z).year = z
        BY DEF NextNumber
      <3>3. invoice'[k] = r
        BY <1>0, <2>1, <2>2
      <3>4. b = c /\ y = z /\ s = NextSeq(c, z)
        BY <1>1, <2>1, <3>2, <3>3 DEF Carries, SameParties
      <3> QED BY <2>1, <3>1, <3>4
    <2>3. CASE k # i
      BY <1>0, <1>2, <2>1, <2>3
    <2> QED BY <2>2, <2>3
  <1>7. CASE CreateCreditNote
    <2>1. PICK i \in Rows(invoice), c \in Invoices, r \in Invoice, t \in Invoice :
              /\ i # c /\ invoice' = [[invoice EXCEPT ![c] = r] EXCEPT ![i] = t]
              /\ SameParties(r, invoice[i])
              /\ r.number = NextNumber(invoice[i].business, thisYear)
              /\ CountUp(invoice[i].business, thisYear)
              /\ t = [invoice[i] EXCEPT !.status = "CREDITED"]
      BY <1>7, CreditWrites
    <2>2. CASE k = c
      <3>1. invoice[i].business \in Rows(business)
        BY <1>0, BusinessOf
      <3>2. invoice'[k] = r
        BY <1>0, <2>1, <2>2
      <3>3. /\ NextNumber(invoice[i].business, thisYear).seq = NextSeq(invoice[i].business, thisYear)
            /\ NextNumber(invoice[i].business, thisYear).year = thisYear
        BY DEF NextNumber
      <3>4. b = invoice[i].business /\ y = thisYear /\ s = NextSeq(b, y)
        BY <1>1, <2>1, <3>2, <3>3 DEF Carries, SameParties
      <3> QED BY <1>0, <2>1, <3>1, <3>4
    <2>3. CASE k = i
      <3>1. invoice'[k] = t
        BY <1>0, <2>1, <2>3
      <3>2. t.business = invoice[i].business /\ t.number = invoice[i].number
        BY <1>0, <2>1 DEF Invoice
      <3> QED BY <1>2, <2>3, <3>1, <3>2
    <2>4. CASE k \notin {i, c}
      BY <1>0, <1>2, <2>1, <2>4
    <2> QED BY <2>2, <2>3, <2>4
  <1>8. CASE AddPayment \/ DeletePayment
    <2>1. PICK i \in Rows(invoice), r \in Invoice :
              /\ invoice' = [invoice EXCEPT ![i] = r]
              /\ \E status \in Status \ {"DRAFT"} : r = [invoice[i] EXCEPT !.status = status]
      BY <1>0, <1>8, PaymentWrites
    <2>2. r.business = invoice[i].business /\ r.number = invoice[i].number
      BY <1>0, <2>1 DEF Invoice
    <2> QED BY <1>0, <1>2, <2>1, <2>2
  <1>9. CASE \/ CreateBusiness \/ UpdateBusiness \/ DeleteBusiness \/ UpdateLogo \/ DeleteLogo
             \/ DeleteClient \/ NewYear
    BY <1>0, <1>2, <1>9
    DEF CreateBusiness, UpdateBusiness, DeleteBusiness, UpdateLogo, DeleteLogo, DeleteClient, NewYear
  <1> QED BY <1>3, <1>4, <1>5, <1>6, <1>7, <1>8, <1>9 DEF Next

\* Whoever counts up gives the number out.
LEMMA CountedIsIssued ==
    ASSUME Types, Types', PartiesBelong, IssueInvoice \/ CreateCreditNote
    PROVE  \E b \in Rows(business), y \in Years : CountUp(b, y) /\ NextSeq(b, y) \in SeqsIssued(b, y)'
  <1>0. /\ TypeOK /\ invoice \in [Invoices -> Invoice \cup {None}]
        /\ \A k \in Rows(invoice) : k \in Invoices /\ invoice[k] \in Invoice
        /\ thisYear \in Years
    BY InvoiceRows DEF Types, TypeOK
  <1>1. ASSUME NEW k \in Invoices, NEW r \in Invoice, invoice'[k] = r,
               NEW b \in Rows(business), NEW y \in Years, r.business = b, r.number = NextNumber(b, y)
        PROVE  NextSeq(b, y) \in SeqsIssued(b, y)'
    <2>1. NextNumber(b, y).seq = NextSeq(b, y) /\ NextNumber(b, y).year = y /\ NextNumber(b, y) # None
      BY <1>0, NextNumberType
    <2>2. k \in Rows(invoice)'
      BY <1>1, RowAssumption DEF Rows, Types, TypeOK
    <2> SUFFICES ASSUME NEW s, s = NextSeq(b, y)
                 PROVE  s \in SeqsIssued(b, y)'
      OBVIOUS
    <2>3. Carries(k, b, y, s)'
      BY <1>0, <1>1, <2>1 DEF Carries
    <2> QED BY <2>2, <2>3 DEF SeqsIssued, InvoicesOf, Carries
  <1>2. CASE IssueInvoice
    <2>1. PICK i \in Rows(invoice), r \in Invoice :
              /\ invoice' = [invoice EXCEPT ![i] = r]
              /\ SameParties(r, invoice[i])
              /\ r.number = NextNumber(invoice[i].business, invoice[i].year)
              /\ CountUp(invoice[i].business, invoice[i].year)
      BY <1>0, <1>2, IssueWrites
    <2>2. invoice[i].business \in Rows(business) /\ invoice[i].year \in Years /\ i \in Invoices
      BY <1>0, BusinessOf DEF Invoice
    <2>3. invoice'[i] = r
      BY <1>0, <2>1
    <2>4. r.business = invoice[i].business
      BY <2>1 DEF SameParties
    <2> QED BY <1>1, <2>1, <2>2, <2>3, <2>4
  <1>3. CASE CreateCreditNote
    <2>1. PICK i \in Rows(invoice), c \in Invoices, r \in Invoice, t \in Invoice :
              /\ i # c /\ invoice' = [[invoice EXCEPT ![c] = r] EXCEPT ![i] = t]
              /\ SameParties(r, invoice[i])
              /\ r.number = NextNumber(invoice[i].business, thisYear)
              /\ CountUp(invoice[i].business, thisYear)
      BY <1>3, CreditWrites
    <2>2. invoice[i].business \in Rows(business)
      BY <1>0, BusinessOf
    <2>3. invoice'[c] = r
      BY <1>0, <2>1
    <2>4. r.business = invoice[i].business
      BY <2>1 DEF SameParties
    <2> QED BY <1>0, <1>1, <2>1, <2>2, <2>3, <2>4
  <1> QED BY <1>2, <1>3

\* The counter of a business that counts nothing up stays as it is, or is the
\* one of a new business.
LEMMA CountersStay ==
    ASSUME TypeOK, Next, ~IssueInvoice, ~CreateCreditNote, NEW b \in Rows(business)'
    PROVE  \/ business'[b].year = 0
           \/ /\ b \in Rows(business)
              /\ business'[b].next = business[b].next /\ business'[b].year = business[b].year
  <1>0. /\ business \in [Businesses -> Business \cup {None}]
        /\ Rows(business) = {x \in Businesses : business[x] # None}
        /\ \A x \in Rows(business) : business[x] \in Business
    BY RowsAre DEF TypeOK
  <1>1. CASE CreateBusiness
    BY <1>0, <1>1 DEF CreateBusiness, Rows
  <1>2. CASE UpdateBusiness
    BY <1>0, <1>2 DEF UpdateBusiness, Rows, Business
  <1>3. CASE DeleteBusiness
    BY <1>0, <1>3 DEF DeleteBusiness, Rows
  <1>4. CASE UpdateLogo
    BY <1>0, <1>4 DEF UpdateLogo, Rows, Business
  <1>5. CASE DeleteLogo
    BY <1>0, <1>5 DEF DeleteLogo, Rows, Business
  <1>6. CASE \/ DeleteClient \/ CreateInvoice \/ UpdateInvoice \/ DeleteInvoice
             \/ AddPayment \/ DeletePayment \/ NewYear
    BY <1>0, <1>6
    DEF DeleteClient, CreateInvoice, UpdateInvoice, DeleteInvoice, AddPayment, DeletePayment,
        NewYear, Rows
  <1> QED BY <1>1, <1>2, <1>3, <1>4, <1>5, <1>6 DEF Next

\* What is below the next number has been given out.
LEMMA BelowNextIsIssued ==
    ASSUME TypeOK, CounterIsReached, NEW b \in Rows(business), NEW y \in Years,
           NEW s \in 1..NextSeq(b, y), s # NextSeq(b, y)
    PROVE  s \in SeqsIssued(b, y)
  <1>1. business[b] \in Business /\ y # 0 /\ NextSeq(b, y) \in Nat
    BY RowsAre, NextNumberType, InvoicingAssumption DEF TypeOK
  <1>2. business[b].year = y /\ NextSeq(b, y) = business[b].next
    BY <1>1 DEF NextSeq
  <1>3. s \in 1..(business[b].next - 1)
    BY <1>1, <1>2
  <1> QED BY <1>1, <1>2, <1>3 DEF CounterIsReached

LEMMA NumberingKept ==
    ASSUME Types, Types', PartiesBelong, Numbering, Next
    PROVE  Numbering'
  <1>0. /\ TypeOK /\ TypeOK' /\ CounterIsReached /\ NumbersHaveNoGaps
        /\ Rows(business) = {x \in Businesses : business[x] # None}
        /\ Rows(business)' = {x \in Businesses : business'[x] # None}
    BY RowsAre DEF Types, Numbering, TypeOK, Rows
  <1>1. ASSUME NEW b \in Rows(business), NEW y \in Years,
               NextSeq(b, y) \in SeqsIssued(b, y)'
        PROVE  1..NextSeq(b, y) \subseteq SeqsIssued(b, y)'
    BY <1>0, <1>1, BelowNextIsIssued, SeqsGrow
  <1>2. ASSUME NEW b \in Rows(business)', NEW y \in Years, NEW s \in SeqsIssued(b, y)'
        PROVE  1..s \subseteq SeqsIssued(b, y)'
    <2>1. CASE s \in SeqsIssued(b, y)
      <3>1. PICK k \in Rows(invoice) : Carries(k, b, y, s)
        BY <1>0, <2>1, SeqsAreCarried
      <3>2. b \in Rows(business)
        BY <1>0, <3>1, BusinessOf DEF Carries
      <3>3. 1..s \subseteq SeqsIssued(b, y)
        BY <1>0, <2>1, <3>2 DEF NumbersHaveNoGaps
      <3> QED BY <3>3, SeqsGrow
    <2>2. CASE s \notin SeqsIssued(b, y)
      BY <1>1, <1>2, <2>2, SeqsNew
    <2> QED BY <2>1, <2>2
  <1>3. ASSUME NEW b \in Rows(business)', NEW y, y = business'[b].year, y # 0
        PROVE  1..(business'[b].next - 1) \subseteq SeqsIssued(b, y)'
    <2>1. ASSUME b \in Rows(business),
                 business'[b].next = business[b].next, business'[b].year = business[b].year
          PROVE  1..(business'[b].next - 1) \subseteq SeqsIssued(b, y)'
      <3>1. 1..(business[b].next - 1) \subseteq SeqsIssued(b, y)
        BY <1>0, <1>3, <2>1 DEF CounterIsReached
      <3> QED BY <2>1, <3>1, SeqsGrow
    <2>2. CASE ~IssueInvoice /\ ~CreateCreditNote
      BY <1>0, <1>3, <2>1, <2>2, CountersStay
    <2>3. CASE IssueInvoice \/ CreateCreditNote
      <3>1. PICK c \in Rows(business), z \in Years : CountUp(c, z) /\ NextSeq(c, z) \in SeqsIssued(c, z)'
        BY <2>3, CountedIsIssued
      <3>2. CASE b = c
        <4>1. business'[b].next = NextSeq(c, z) + 1 /\ y = z
          BY <1>0, <1>3, <3>1, <3>2, CountUpWrites
        <4>2. NextSeq(c, z) \in Nat
          BY <1>0, NextNumberType
        <4>3. business'[b].next - 1 = NextSeq(c, z)
          BY <4>1, <4>2
        <4> QED BY <1>1, <3>1, <3>2, <4>1, <4>3
      <3>3. CASE b # c
        <4>1. b \in Businesses \ {c} /\ business'[b] = business[b]
          BY <1>0, <1>3, <3>1, <3>3, CountUpWrites
        <4> QED BY <1>0, <1>3, <2>1, <4>1
      <3> QED BY <3>2, <3>3
    <2> QED BY <2>2, <2>3
  <1> QED BY <1>2, <1>3 DEF Numbering, CounterIsReached, NumbersHaveNoGaps

-----------------------------------------------------------------------------
(* Payments. *)

\* The payments of an invoice in a table of payments, and what they add up to.
PaymentsIn(table, i) == {k \in Rows(table) : table[k].invoice = i}

PaidIn(table, i) == SumFunction([k \in PaymentsIn(table, i) |-> table[k].amount])

LEMMA PaidInIs ==
    ASSUME NEW table \in [Payments -> Payment \cup {None}], IsFiniteSet(Rows(table)), NEW i
    PROVE  /\ PaidIn(table, i) \in Nat
           /\ PaymentsIn(table, i) # {} => PaidIn(table, i) > 0
           /\ PaymentsIn(table, i) = {} => PaidIn(table, i) = 0
  <1> DEFINE amounts == [k \in PaymentsIn(table, i) |-> table[k].amount]
  <1>1. IsFiniteSet(DOMAIN amounts)
    <2>1. PaymentsIn(table, i) \subseteq Rows(table)
      BY DEF PaymentsIn
    <2> QED BY <2>1, FS_Subset
  <1>2. \A k \in DOMAIN amounts : amounts[k] \in Nat \ {0}
    <2>1. ASSUME NEW k \in PaymentsIn(table, i) PROVE table[k].amount \in Nat \ {0}
      <3>1. table[k] \in Payment /\ MaxTotal \in Nat
        BY InvoicingAssumption DEF PaymentsIn, Rows
      <3> QED BY <3>1 DEF Payment
    <2> QED BY <2>1
  <1>3. PaidIn(table, i) = SumFunction(amounts) /\ DOMAIN amounts = PaymentsIn(table, i)
    BY DEF PaidIn
  <1> HIDE DEF amounts
  <1>4. SumFunction(amounts) \in Nat
    BY <1>1, <1>2, SumIsNat
  <1>5. DOMAIN amounts # {} => SumFunction(amounts) \in Nat \ {0}
    BY <1>1, <1>2, SumIsPositive
  <1>6. DOMAIN amounts = {} => SumFunction(amounts) = 0
    BY SumOfNothing
  <1> QED BY <1>3, <1>4, <1>5, <1>6

\* One payment more, or less.
LEMMA PaidWith ==
    ASSUME NEW table \in [Payments -> Payment \cup {None}], IsFiniteSet(Rows(table)),
           NEW with \in [Payments -> Payment \cup {None}], NEW k \in Payments,
           table[k] = None, with[k] \in Payment,
           \A j \in Payments : j # k => with[j] = table[j]
    PROVE  LET i == with[k].invoice IN
           /\ Rows(with) = Rows(table) \cup {k} /\ k \notin Rows(table)
           /\ PaymentsIn(with, i) = PaymentsIn(table, i) \cup {k}
           /\ PaidIn(with, i) = PaidIn(table, i) + with[k].amount
           /\ \A j : j # i => /\ PaymentsIn(with, j) = PaymentsIn(table, j)
                              /\ PaidIn(with, j) = PaidIn(table, j)
  <1> DEFINE i == with[k].invoice
             new == [j \in PaymentsIn(with, i) |-> with[j].amount]
             rest == [j \in DOMAIN new \ {k} |-> new[j]]
  <1>1. /\ with[k] # None
        /\ Rows(with) = Rows(table) \cup {k} /\ k \notin Rows(table)
    <2>1. with[k] # None
      BY RowAssumption
    <2> QED BY <2>1 DEF Rows
  <1>2. PaymentsIn(with, i) = PaymentsIn(table, i) \cup {k} /\ k \notin PaymentsIn(table, i)
    BY <1>1 DEF PaymentsIn, Rows
  <1>3. ASSUME NEW j, j # i
        PROVE  PaymentsIn(with, j) = PaymentsIn(table, j) /\ PaidIn(with, j) = PaidIn(table, j)
    <2>1. PaymentsIn(with, j) = PaymentsIn(table, j)
      BY <1>1, <1>3 DEF PaymentsIn, Rows
    <2>2. \A x \in PaymentsIn(table, j) : with[x] = table[x]
      BY <1>1 DEF PaymentsIn, Rows
    <2>3. [x \in PaymentsIn(with, j) |-> with[x].amount] = [x \in PaymentsIn(table, j) |-> table[x].amount]
      BY <2>1, <2>2
    <2> QED BY <2>1, <2>3, Zenon DEF PaidIn
  <1>4. PaidIn(with, i) = with[k].amount + PaidIn(table, i)
    <2>1. IsFiniteSet(PaymentsIn(with, i))
      <3>1. PaymentsIn(table, i) \subseteq Rows(table)
        BY DEF PaymentsIn
      <3>2. IsFiniteSet(PaymentsIn(table, i))
        BY <3>1, FS_Subset
      <3> QED BY <1>2, <3>2, FS_AddElement
    <2>2. \A j \in PaymentsIn(with, i) : with[j].amount \in Int
      <3>1. ASSUME NEW j \in PaymentsIn(with, i) PROVE with[j].amount \in Int
        <4>1. with[j] \in Payment /\ MaxTotal \in Nat
          BY InvoicingAssumption DEF PaymentsIn, Rows
        <4> QED BY <4>1 DEF Payment
      <3> QED BY <3>1
    <2>3. /\ IsFiniteSet(DOMAIN new) /\ \A j \in DOMAIN new : new[j] \in Int
          /\ k \in DOMAIN new /\ new[k] = with[k].amount
      BY <1>2, <2>1, <2>2
    <2>4. rest = [j \in PaymentsIn(table, i) |-> table[j].amount]
      <3>1. DOMAIN new \ {k} = PaymentsIn(table, i)
        BY <1>2
      <3>2. \A j \in PaymentsIn(table, i) : new[j] = table[j].amount
        BY <1>2 DEF PaymentsIn, Rows
      <3> QED BY <3>1, <3>2
    <2>5. SumFunction(new) = PaidIn(with, i)
      BY DEF PaidIn
    <2>6. SumFunction(rest) = PaidIn(table, i)
      BY <2>4, Zenon DEF PaidIn
    <2> HIDE DEF new
    <2>7. SumFunction(new) = new[k] + SumFunction(rest)
      BY <2>3, SumRemoves
    <2> QED BY <2>3, <2>5, <2>6, <2>7
  <1>5. PaidIn(with, i) = PaidIn(table, i) + with[k].amount
    <2>1. PaidIn(table, i) \in Nat /\ with[k].amount \in Int
      <3>1. MaxTotal \in Nat
        BY InvoicingAssumption
      <3> QED BY <3>1, PaidInIs DEF Payment
    <2> QED BY <1>4, <2>1
  <1> QED BY <1>1, <1>2, <1>3, <1>5

\* What StatusMatchesPayments says of one row.
Matches(row, own, paid) ==
    /\ own # {} => paid <= row.total
    /\ row.status \in {"DRAFT", "ISSUED"} => own = {}
    /\ row.status = "PARTIALLY_PAID" => 0 < paid /\ paid < row.total
    /\ row.status = "PAID" => paid = row.total

LEMMA PayingIs ==
    /\ StatusMatchesPayments <=>
          \A i \in Rows(invoice) : Matches(invoice[i], PaymentsIn(payment, i), PaidIn(payment, i))
    /\ PaymentsHaveInvoice =>
          \A i : i \notin Rows(invoice) => PaymentsIn(payment, i) = {}
    /\ \A i : PaymentsOf(i) = PaymentsIn(payment, i) /\ Paid(i) = PaidIn(payment, i)
  <1>1. \A i : PaymentsOf(i) = PaymentsIn(payment, i)
    BY DEF PaymentsOf, PaymentsIn
  <1>2. \A i : Paid(i) = PaidIn(payment, i)
    BY <1>1, Zenon DEF Paid, PaidIn
  <1>3. PaymentsHaveInvoice => \A i : i \notin Rows(invoice) => PaymentsIn(payment, i) = {}
    BY DEF PaymentsHaveInvoice, PaymentsIn
  <1>4. StatusMatchesPayments <=>
          \A i \in Rows(invoice) : Matches(invoice[i], PaymentsIn(payment, i), PaidIn(payment, i))
    BY <1>1, <1>2 DEF StatusMatchesPayments, Matches
  <1> QED BY <1>1, <1>2, <1>3, <1>4

\* The same of the next state.
LEMMA PayingIsNext ==
    ASSUME NEW rows, rows = Rows(invoice)',
           \A i \in rows : Matches(invoice'[i], PaymentsIn(payment', i), PaidIn(payment', i))
    PROVE  StatusMatchesPayments'
  <1>1. \A i : PaymentsOf(i)' = PaymentsIn(payment', i)
    BY DEF PaymentsOf, PaymentsIn
  <1>2. \A i : Paid(i)' = PaidIn(payment', i)
    BY <1>1, Zenon DEF Paid, PaidIn
  <1> QED BY <1>1, <1>2 DEF StatusMatchesPayments, Matches

\* While payments stay, it is enough that rows keep their totals and payments
\* keep their rows, and that what gets a status or is written or deleted has none.
LEMMA PayingStays ==
    ASSUME TypeOK, Paying, UNCHANGED payment,
           \A i \in Rows(invoice) :
              \/ i \in Rows(invoice)' /\ invoice'[i] = invoice[i]
              \/ i \in Rows(invoice)' /\ invoice'[i].total = invoice[i].total
                 /\ invoice'[i].status = "CREDITED"
              \/ invoice[i].status = "DRAFT"
                 /\ (i \in Rows(invoice)' => invoice'[i].status \in {"DRAFT", "ISSUED"}),
           \A i \in Rows(invoice)' : i \notin Rows(invoice) =>
              invoice'[i].status \in {"DRAFT", "ISSUED"}
    PROVE  Paying'
  <1>1. /\ IsFiniteSet(Rows(payment)) /\ PaymentsHaveInvoice
        /\ \A i \in Rows(invoice) : Matches(invoice[i], PaymentsIn(payment, i), PaidIn(payment, i))
        /\ \A i : i \notin Rows(invoice) => PaymentsIn(payment, i) = {}
        /\ Rows(payment)' = Rows(payment)
    BY PayingIs DEF Paying, Rows
  <1>2. \A i \in Rows(invoice) : invoice[i].status = "DRAFT" => PaymentsIn(payment, i) = {}
    BY <1>1 DEF Matches
  <1>3. PaymentsHaveInvoice'
    <2>1. ASSUME NEW k \in Rows(payment) PROVE payment[k].invoice \in Rows(invoice)'
      <3>1. payment[k].invoice \in Rows(invoice)
        BY <1>1 DEF PaymentsHaveInvoice
      <3>2. PaymentsIn(payment, payment[k].invoice) # {}
        BY DEF PaymentsIn
      <3> QED BY <1>2, <3>1, <3>2
    <2> QED BY <1>1, <2>1 DEF PaymentsHaveInvoice
  <1>4. ASSUME NEW i \in Rows(invoice)'
        PROVE  Matches(invoice'[i], PaymentsIn(payment', i), PaidIn(payment', i))
    <2>1. PaymentsIn(payment', i) = PaymentsIn(payment, i) /\ PaidIn(payment', i) = PaidIn(payment, i)
      OBVIOUS
    <2>2. CASE PaymentsIn(payment, i) = {} /\ invoice'[i].status \in {"DRAFT", "ISSUED"}
      BY <2>1, <2>2 DEF Matches
    <2>3. CASE i \in Rows(invoice) /\ invoice'[i] = invoice[i]
      BY <1>1, <2>1, <2>3
    <2>4. CASE i \in Rows(invoice) /\ invoice'[i].total = invoice[i].total /\ invoice'[i].status = "CREDITED"
      BY <1>1, <2>1, <2>4 DEF Matches
    <2> QED BY <1>1, <1>2, <2>2, <2>3, <2>4
  <1>5. StatusMatchesPayments'
    BY <1>4, PayingIsNext
  <1> QED BY <1>1, <1>3, <1>5 DEF Paying

\* A payment is added or deleted, and the status written that Matches.
LEMMA PayingMoves ==
    ASSUME TypeOK, Paying, payment' \in [Payments -> Payment \cup {None}],
           NEW i \in Rows(invoice), NEW r \in Invoice,
           invoice' = [invoice EXCEPT ![i] = r],
           IsFiniteSet(Rows(payment)'), \A k \in Rows(payment)' : payment'[k].invoice \in Rows(invoice),
           \A j : j # i => /\ PaymentsIn(payment', j) = PaymentsIn(payment, j)
                           /\ PaidIn(payment', j) = PaidIn(payment, j),
           Matches(r, PaymentsIn(payment', i), PaidIn(payment', i))
    PROVE  Paying'
  <1>1. /\ Rows(invoice)' = Rows(invoice) /\ invoice'[i] = r
        /\ \A j \in Rows(invoice) : j # i => invoice'[j] = invoice[j]
    BY InvoiceRows DEF Rows
  <1>2. PaymentsHaveInvoice'
    BY <1>1 DEF PaymentsHaveInvoice
  <1>3. \A j \in Rows(invoice) : Matches(invoice[j], PaymentsIn(payment, j), PaidIn(payment, j))
    BY PayingIs DEF Paying
  <1>4. ASSUME NEW j \in Rows(invoice)
        PROVE  Matches(invoice'[j], PaymentsIn(payment', j), PaidIn(payment', j))
    <2>1. CASE j = i
      BY <1>1, <2>1
    <2>2. CASE j # i
      BY <1>1, <1>3, <2>2
    <2> QED BY <2>1, <2>2
  <1>5. StatusMatchesPayments'
    BY <1>1, <1>4, PayingIsNext
  <1> QED BY <1>2, <1>5 DEF Paying

LEMMA PayingKept ==
    ASSUME Types, PartiesBelong, Paying, Next
    PROVE  Paying'
  <1>0. /\ TypeOK /\ invoice \in [Invoices -> Invoice \cup {None}] /\ None \notin Invoice
        /\ Rows(invoice) = {k \in Invoices : invoice[k] # None}
        /\ \A k \in Rows(invoice) : invoice[k] \in Invoice
        /\ IsFiniteSet(Rows(payment)) /\ PaymentsHaveInvoice
        /\ payment \in [Payments -> Payment \cup {None}]
    BY InvoiceRows DEF Types, Paying, TypeOK
  <1>1. CASE UNCHANGED <<invoice, payment>>
    BY <1>0, <1>1, PayingStays DEF Rows
  <1>2. ASSUME NEW i \in Invoices, NEW r \in Invoice, invoice' = [invoice EXCEPT ![i] = r]
        PROVE  /\ Rows(invoice)' = Rows(invoice) \cup {i} /\ invoice'[i] = r
               /\ \A j \in Rows(invoice) : j # i => invoice'[j] = invoice[j]
    BY <1>0, <1>2 DEF Rows
  <1>3. CASE CreateInvoice
    <2>1. PICK i \in Invoices, r \in Invoice :
              /\ invoice[i] = None /\ invoice' = [invoice EXCEPT ![i] = r]
              /\ r.status = "DRAFT" /\ payment' = payment
      BY <1>0, <1>3, CreateWrites
    <2> QED BY <1>0, <1>2, <2>1, PayingStays
  <1>4. CASE UpdateInvoice
    <2>1. PICK i \in Rows(invoice), r \in Invoice :
              /\ invoice' = [invoice EXCEPT ![i] = r] /\ invoice[i].status = "DRAFT"
              /\ r.status = "DRAFT" /\ payment' = payment
      BY <1>0, <1>4, UpdateWrites
    <2>2. /\ Rows(invoice)' = Rows(invoice) /\ invoice'[i] = r
          /\ \A j \in Rows(invoice) : j # i => invoice'[j] = invoice[j]
      BY <1>0, <1>2, <2>1
    <2> QED BY <1>0, <2>1, <2>2, PayingStays
  <1>5. CASE DeleteInvoice
    <2>1. PICK i \in Rows(invoice) :
              /\ invoice' = [invoice EXCEPT ![i] = None] /\ invoice[i].status = "DRAFT"
              /\ payment' = payment
      BY <1>0, <1>5, DeleteWrites
    <2>2. /\ Rows(invoice)' = Rows(invoice) \ {i}
          /\ \A j \in Rows(invoice) : j # i => invoice'[j] = invoice[j]
      BY <1>0, <2>1 DEF Rows
    <2> QED BY <1>0, <2>1, <2>2, PayingStays
  <1>6. CASE IssueInvoice
    <2>1. PICK i \in Rows(invoice), r \in Invoice :
              /\ invoice' = [invoice EXCEPT ![i] = r] /\ invoice[i].status = "DRAFT"
              /\ r.status = "ISSUED" /\ payment' = payment
      BY <1>0, <1>6, IssueWrites
    <2>2. /\ Rows(invoice)' = Rows(invoice) /\ invoice'[i] = r
          /\ \A j \in Rows(invoice) : j # i => invoice'[j] = invoice[j]
      BY <1>0, <1>2, <2>1
    <2> QED BY <1>0, <2>1, <2>2, PayingStays
  <1>7. CASE CreateCreditNote
    <2>1. PICK i \in Rows(invoice), c \in Invoices, r, s \in Invoice :
              /\ invoice[c] = None /\ i # c
              /\ invoice' = [[invoice EXCEPT ![c] = r] EXCEPT ![i] = s]
              /\ r.status = "ISSUED" /\ s = [invoice[i] EXCEPT !.status = "CREDITED"]
              /\ payment' = payment
      BY <1>7, CreditWrites
    <2>2. /\ Rows(invoice)' = Rows(invoice) \cup {c} /\ invoice'[c] = r /\ invoice'[i] = s
          /\ \A j \in Rows(invoice) : j # i => invoice'[j] = invoice[j]
      BY <1>0, <2>1 DEF Rows
    <2>3. s.total = invoice[i].total /\ s.status = "CREDITED"
      BY <1>0, <2>1 DEF Invoice
    <2> QED BY <1>0, <2>1, <2>2, <2>3, PayingStays
  <1>8. CASE AddPayment
    <2>1. PICK i \in Invoices, k \in Payments, n \in 1..MaxTotal :
              /\ invoice[i] # None /\ payment[k] = None
              /\ invoice[i].type = "INVOICE" /\ invoice[i].status \in {"ISSUED", "PARTIALLY_PAID"}
              /\ n <= invoice[i].total - Paid(i)
              /\ payment' = [payment EXCEPT ![k] = [invoice |-> i, amount |-> n]]
              /\ invoice' = [invoice EXCEPT ![i].status =
                                IF Paid(i) + n >= invoice[i].total THEN "PAID" ELSE "PARTIALLY_PAID"]
      BY <1>8 DEF AddPayment
    <2> DEFINE status == IF Paid(i) + n >= invoice[i].total THEN "PAID" ELSE "PARTIALLY_PAID"
               r == [invoice[i] EXCEPT !.status = status]
               p == [invoice |-> i, amount |-> n]
    <2>2. /\ i \in Rows(invoice) /\ invoice[i] \in Invoice /\ invoice[i].total \in Int /\ n \in Nat \ {0}
          /\ MaxTotal \in Nat
      BY <1>0, <2>1, InvoicingAssumption DEF Invoice
    <2>3. p \in Payment /\ p.invoice = i /\ p.amount = n
      BY <2>1, <2>2 DEF Payment
    <2>4. /\ payment' \in [Payments -> Payment \cup {None}]
          /\ payment'[k] = p /\ \A j \in Payments : j # k => payment'[j] = payment[j]
      BY <1>0, <2>1, <2>3
    <2> HIDE DEF p
    <2>5. /\ Rows(payment') = Rows(payment) \cup {k}
          /\ PaymentsIn(payment', i) = PaymentsIn(payment, i) \cup {k}
          /\ PaidIn(payment', i) = PaidIn(payment, i) + n
          /\ \A j : j # i => /\ PaymentsIn(payment', j) = PaymentsIn(payment, j)
                             /\ PaidIn(payment', j) = PaidIn(payment, j)
      <3>1. payment'[k] \in Payment /\ payment'[k].invoice = i /\ payment'[k].amount = n
        BY <2>3, <2>4
      <3>2. /\ IsFiniteSet(Rows(payment)) /\ payment \in [Payments -> Payment \cup {None}]
            /\ payment[k] = None /\ \A j \in Payments : j # k => payment'[j] = payment[j]
        BY <1>0, <2>1, <2>4
      <3> QED BY <2>4, <3>1, <3>2, PaidWith
    <2>6. Rows(payment)' = Rows(payment) \cup {k} /\ IsFiniteSet(Rows(payment)')
      <3>1. Rows(payment)' = Rows(payment')
        BY DEF Rows
      <3> QED BY <1>0, <2>5, <3>1, FS_AddElement
    <2>7. \A x \in Rows(payment)' : payment'[x].invoice \in Rows(invoice)
      <3>1. ASSUME NEW x \in Rows(payment) PROVE payment'[x].invoice \in Rows(invoice)
        BY <1>0, <2>1, <2>4 DEF PaymentsHaveInvoice, Rows
      <3> QED BY <2>2, <2>3, <2>4, <2>6, <3>1
    <2>8. status \in Status /\ r \in Invoice /\ r.status = status /\ r.total = invoice[i].total
      BY <2>2 DEF Status, Invoice
    <2>9. invoice' = [invoice EXCEPT ![i] = r]
      BY <1>0, <2>1
    <2>10. Matches(r, PaymentsIn(payment', i), PaidIn(payment', i))
      <3>1. Paid(i) = PaidIn(payment, i) /\ PaidIn(payment, i) \in Nat
        BY <1>0, PayingIs, PaidInIs
      <3>2. PaidIn(payment', i) <= r.total /\ PaidIn(payment', i) > 0
        <4>1. n <= invoice[i].total - Paid(i) /\ PaidIn(payment', i) = PaidIn(payment, i) + n
          BY <2>1, <2>5
        <4> HIDE DEF r, status
        <4> QED BY <2>2, <2>8, <3>1, <4>1
      <3>3. status = IF PaidIn(payment', i) >= r.total THEN "PAID" ELSE "PARTIALLY_PAID"
        BY <2>5, <2>8, <3>1
      <3> HIDE DEF r, status
      <3>4. PaidIn(payment', i) \in Int /\ r.total \in Int
        BY <2>2, <2>5, <2>8, <3>1
      <3> QED BY <2>8, <3>2, <3>3, <3>4 DEF Matches
    <2> HIDE DEF r, status
    <2> QED BY <1>0, <2>2, <2>4, <2>5, <2>6, <2>7, <2>8, <2>9, <2>10, PayingMoves
  <1>9. CASE DeletePayment
    <2>1. PICK i \in Rows(invoice) : \E k \in PaymentsOf(i) :
              /\ payment' = [payment EXCEPT ![k] = None]
              /\ invoice' = [invoice EXCEPT ![i].status =
                                StatusAfter(Paid(i) - payment[k].amount, invoice[i].total)]
      BY <1>9 DEF DeletePayment
    <2>2. PICK k \in PaymentsOf(i) :
              /\ payment' = [payment EXCEPT ![k] = None]
              /\ invoice' = [invoice EXCEPT ![i].status =
                                StatusAfter(Paid(i) - payment[k].amount, invoice[i].total)]
      BY <2>1
    <2> DEFINE status == StatusAfter(Paid(i) - payment[k].amount, invoice[i].total)
               r == [invoice[i] EXCEPT !.status = status]
    <2>3. /\ invoice[i] \in Invoice /\ invoice[i].total \in Int
          /\ k \in Payments /\ payment[k] \in Payment /\ payment[k].invoice = i
          /\ payment[k].amount \in Nat \ {0} /\ k \in PaymentsIn(payment, i)
      <3>1. k \in Payments /\ payment[k] \in Payment /\ payment[k].invoice = i
        BY <1>0 DEF PaymentsOf, Rows
      <3>2. payment[k].amount \in Nat \ {0}
        BY <3>1, InvoicingAssumption DEF Payment
      <3>3. invoice[i] \in Invoice /\ invoice[i].total \in Int
        BY <1>0, InvoicingAssumption DEF Invoice
      <3> QED BY <3>1, <3>2, <3>3, PayingIs
    <2>4. /\ payment' \in [Payments -> Payment \cup {None}]
          /\ payment'[k] = None /\ \A j \in Payments : j # k => payment[j] = payment'[j]
      BY <1>0, <2>2, <2>3
    <2>5. Rows(payment') \subseteq Rows(payment) /\ IsFiniteSet(Rows(payment'))
      <3>1. Rows(payment') \subseteq Rows(payment)
        BY <1>0, <2>4 DEF Rows
      <3> QED BY <1>0, <3>1, FS_Subset
    <2>6. /\ PaymentsIn(payment, i) = PaymentsIn(payment', i) \cup {k}
          /\ PaidIn(payment, i) = PaidIn(payment', i) + payment[k].amount
          /\ \A j : j # i => /\ PaymentsIn(payment, j) = PaymentsIn(payment', j)
                             /\ PaidIn(payment, j) = PaidIn(payment', j)
      BY <1>0, <2>3, <2>4, <2>5, PaidWith
    <2>7. /\ IsFiniteSet(Rows(payment)')
          /\ \A x \in Rows(payment)' : payment'[x].invoice \in Rows(invoice)
      <3>1. Rows(payment)' = Rows(payment')
        BY DEF Rows
      <3>2. ASSUME NEW x \in Rows(payment') PROVE payment'[x].invoice \in Rows(invoice)
        BY <1>0, <2>4, <2>5 DEF PaymentsHaveInvoice, Rows
      <3> QED BY <2>5, <3>1, <3>2
    <2>8. status \in Status /\ r \in Invoice /\ r.status = status /\ r.total = invoice[i].total
      BY <2>3 DEF Status, Invoice, StatusAfter
    <2>9. invoice' = [invoice EXCEPT ![i] = r]
      BY <1>0, <2>2
    <2>10. Matches(r, PaymentsIn(payment', i), PaidIn(payment', i))
      <3> DEFINE paid == PaidIn(payment', i)
                 own == PaymentsIn(payment', i)
      <3>1. Paid(i) = PaidIn(payment, i) /\ paid \in Nat
        BY <2>4, <2>5, PayingIs, PaidInIs
      <3>2. Paid(i) - payment[k].amount = paid
        BY <2>3, <2>6, <3>1
      <3>3. own # {} => paid > 0
        BY <2>4, <2>5, PaidInIs
      <3>4. PaidIn(payment, i) <= invoice[i].total
        BY <2>3, PayingIs DEF Paying, Matches
      <3>5. paid < r.total /\ r.total \in Int
        BY <2>3, <2>6, <2>8, <3>1, <3>4
      <3>6. r.status = StatusAfter(paid, r.total)
        BY <2>8, <3>2
      <3> HIDE DEF paid, own, r, status
      <3> QED BY <3>1, <3>3, <3>5, <3>6 DEF Matches, StatusAfter, paid, own
    <2> HIDE DEF r, status
    <2> QED BY <1>0, <2>4, <2>6, <2>7, <2>8, <2>9, <2>10, PayingMoves
  <1>10. CASE \/ CreateBusiness \/ UpdateBusiness \/ DeleteBusiness \/ UpdateLogo \/ DeleteLogo
              \/ DeleteClient \/ NewYear
    BY <1>1, <1>10
    DEF CreateBusiness, UpdateBusiness, DeleteBusiness, UpdateLogo, DeleteLogo, DeleteClient, NewYear
  <1> QED BY <1>3, <1>4, <1>5, <1>6, <1>7, <1>8, <1>9, <1>10 DEF Next

-----------------------------------------------------------------------------
(* Credit notes. *)

\* The invoice that a row credits: issued, of the same business, over the
\* opposite amount.
Cancels(rows, r) ==
    /\ r.original \in Rows(rows) /\ rows[r.original].status # "DRAFT"
    /\ rows[r.original].business = r.business
    /\ rows[r.original].total = -r.total

CreditsOf(rows) ==
    /\ \A c \in Rows(rows) : rows[c].type = "CREDIT_NOTE" => Cancels(rows, rows[c])
    /\ \A i \in Rows(rows) : rows[i].status = "CREDITED" => \E c \in Rows(rows) : rows[c].original = i

LEMMA CreditingIs ==
    ASSUME TypeOK
    PROVE  CreditsCancel <=> CreditsOf(invoice)
  <1>1. \A i \in Invoices \cup {None} : i # None /\ Issued(i) <=>
            i \in Rows(invoice) /\ invoice[i].status # "DRAFT"
    BY RowsAre, InvoicingAssumption DEF Issued
  <1>2. \A c \in Rows(invoice) : invoice[c].original \in Invoices \cup {None}
    BY RowsAre DEF Invoice
  <1> QED BY <1>1, <1>2 DEF CreditsCancel, CreditsOf, Cancels

LEMMA CreditingIsNext ==
    ASSUME TypeOK', CreditsOf(invoice')
    PROVE  CreditsCancel'
  <1>1. /\ Rows(invoice') = {i \in Invoices : invoice'[i] # None} /\ Rows(invoice)' = Rows(invoice')
        /\ \A i \in Rows(invoice') : invoice'[i] \in Invoice
    BY DEF TypeOK, Rows
  <1>2. \A i \in Invoices \cup {None} : i # None /\ Issued(i)' <=>
            i \in Rows(invoice') /\ invoice'[i].status # "DRAFT"
    BY <1>1, InvoicingAssumption DEF Issued
  <1>3. \A c \in Rows(invoice') : invoice'[c].original \in Invoices \cup {None}
    BY <1>1 DEF Invoice
  <1> QED BY <1>1, <1>2, <1>3 DEF CreditsCancel, CreditsOf, Cancels

\* Issued rows stay, all but their status.
LEMMA IssuedRowsStay ==
    ASSUME Types, PartiesBelong, Next, NEW i \in Rows(invoice), invoice[i].status # "DRAFT"
    PROVE  /\ i \in Rows(invoice') /\ invoice'[i].status # "DRAFT"
           /\ invoice'[i].type = invoice[i].type /\ invoice'[i].business = invoice[i].business
           /\ invoice'[i].total = invoice[i].total /\ invoice'[i].original = invoice[i].original
           /\ invoice'[i].items = invoice[i].items
  <1>1. i \in Invoices /\ Issued(i) /\ invoice[i] \in Invoice
    BY InvoiceRows DEF Types, Issued
  <1>2. /\ Issued(i)'
        /\ [invoice'[i] EXCEPT !.status = "ISSUED"] = [invoice[i] EXCEPT !.status = "ISSUED"]
    BY <1>1, IssuedKept
  <1>3. TypeOK'
    BY TypesKept DEF Types
  <1>4. i \in Rows(invoice') /\ invoice'[i].status # "DRAFT" /\ invoice'[i] \in Invoice
    BY <1>1, <1>2, <1>3 DEF Issued, TypeOK, Rows
  <1> QED BY <1>1, <1>2, <1>4 DEF Invoice

\* What a step may do to the rows, as far as credits are concerned.
Written(i, r) ==
    /\ r.total = Total(r.items)
    /\ r.status = "DRAFT" => r.type = "INVOICE" /\ r.original = None
    /\ r.type = "CREDIT_NOTE" => r.status # "DRAFT" /\ Cancels(invoice, r)
    /\ r.status = "CREDITED" => i \in Rows(invoice) /\ invoice[i].status = "CREDITED"

LEMMA CreditingStays ==
    ASSUME Types, PartiesBelong, Crediting, Next,
           \A i \in Rows(invoice') :
              \/ i \in Rows(invoice) /\ invoice'[i] = invoice[i]
              \/ Written(i, invoice'[i])
    PROVE  Crediting'
  <1>0. /\ TypeOK /\ TypeOK' /\ Rows(invoice)' = Rows(invoice')
        /\ TotalsAreComputed /\ DraftsCreditNothing /\ CreditsOf(invoice)
        /\ Rows(invoice) \subseteq Invoices /\ Rows(invoice') \subseteq Invoices /\ None \notin Invoices
    BY TypesKept, CreditingIs, RowsAre, InvoicingAssumption DEF Types, Crediting, TypeOK, Rows
  <1>1. ASSUME NEW r, Cancels(invoice, r)
        PROVE  Cancels(invoice', r)
    <2>1. r.original \in Rows(invoice) /\ invoice[r.original].status # "DRAFT"
      BY <1>1 DEF Cancels
    <2> QED BY <1>1, <2>1, IssuedRowsStay DEF Cancels
  <1>2. \A c \in Rows(invoice') : invoice'[c].type = "CREDIT_NOTE" => Cancels(invoice', invoice'[c])
    BY <1>0, <1>1 DEF Written, CreditsOf
  <1>3. ASSUME NEW i \in Rows(invoice'), invoice'[i].status = "CREDITED"
        PROVE  \E c \in Rows(invoice') : invoice'[c].original = i
    <2>1. i \in Rows(invoice) /\ invoice[i].status = "CREDITED"
      BY <1>3 DEF Written
    <2>2. PICK c \in Rows(invoice) : invoice[c].original = i
      BY <1>0, <2>1 DEF CreditsOf
    <2>3. invoice[c].status # "DRAFT"
      BY <1>0, <2>1, <2>2 DEF DraftsCreditNothing
    <2> QED BY <2>2, <2>3, IssuedRowsStay
  <1>4. CreditsCancel'
    BY <1>0, <1>2, <1>3, CreditingIsNext DEF CreditsOf
  <1>5. TotalsAreComputed' /\ DraftsCreditNothing'
    BY <1>0 DEF TotalsAreComputed, DraftsCreditNothing, Written
  <1> QED BY <1>4, <1>5 DEF Crediting

LEMMA CreditingKept ==
    ASSUME Types, PartiesBelong, Crediting, Next
    PROVE  Crediting'
  <1>0. /\ TypeOK /\ invoice \in [Invoices -> Invoice \cup {None}] /\ None \notin Invoice
        /\ Rows(invoice) = {k \in Invoices : invoice[k] # None}
        /\ \A k \in Rows(invoice) : invoice[k] \in Invoice
        /\ TotalsAreComputed /\ DraftsCreditNothing /\ CreditsOf(invoice) /\ InvoicesArePlain
    BY InvoiceRows, CreditingIs DEF Types, Crediting
  <1>1. CASE UNCHANGED invoice
    BY <1>1, CreditingStays DEF Rows
  <1>2. ASSUME NEW i \in Invoices, NEW r \in Invoice, invoice' = [invoice EXCEPT ![i] = r],
               Written(i, r)
        PROVE  Crediting'
    <2>1. Rows(invoice') = Rows(invoice) \cup {i} /\ invoice'[i] = r
      BY <1>0, <1>2 DEF Rows
    <2>2. \A j \in Rows(invoice) : j # i => invoice'[j] = invoice[j]
      BY <1>0, <1>2
    <2> QED BY <1>2, <2>1, <2>2, CreditingStays
  <1>3. CASE CreateInvoice
    <2>1. PICK i \in Invoices, r \in Invoice :
              /\ invoice' = [invoice EXCEPT ![i] = r] /\ r.status = "DRAFT"
              /\ r.type = "INVOICE" /\ r.original = None /\ r.total = Total(r.items)
      BY <1>0, <1>3, CreateWrites
    <2> QED BY <1>2, <2>1 DEF Written
  <1>4. CASE UpdateInvoice
    <2>1. PICK i \in Rows(invoice), r \in Invoice :
              /\ invoice' = [invoice EXCEPT ![i] = r]
              /\ invoice[i].status = "DRAFT" /\ r.status = "DRAFT"
              /\ r.type = invoice[i].type /\ r.original = invoice[i].original
              /\ r.total = Total(r.items)
      BY <1>0, <1>4, UpdateWrites
    <2>2. r.type = "INVOICE" /\ r.original = None
      BY <1>0, <2>1 DEF DraftsCreditNothing
    <2> QED BY <1>0, <1>2, <2>1, <2>2 DEF Written
  <1>5. CASE DeleteInvoice
    <2>1. PICK i \in Rows(invoice) : invoice' = [invoice EXCEPT ![i] = None]
      BY <1>0, <1>5, DeleteWrites
    <2>2. /\ Rows(invoice') \subseteq Rows(invoice)
          /\ \A j \in Rows(invoice') : invoice'[j] = invoice[j]
      BY <1>0, <2>1 DEF Rows
    <2> QED BY <2>2, CreditingStays
  <1>6. CASE IssueInvoice
    <2>1. PICK i \in Rows(invoice), r \in Invoice :
              /\ invoice' = [invoice EXCEPT ![i] = r]
              /\ invoice[i].status = "DRAFT" /\ r.status = "ISSUED"
              /\ r.type = invoice[i].type /\ r.items = invoice[i].items
              /\ r.total = invoice[i].total
      BY <1>0, <1>6, IssueWrites
    <2>2. r.type = "INVOICE" /\ r.total = Total(r.items)
      BY <1>0, <2>1 DEF DraftsCreditNothing, TotalsAreComputed
    <2> QED BY <1>0, <1>2, <2>1, <2>2 DEF Written
  <1>7. CASE AddPayment \/ DeletePayment
    <2>1. PICK i \in Rows(invoice), r \in Invoice, status \in Status \ {"DRAFT", "CREDITED"} :
              invoice' = [invoice EXCEPT ![i] = r] /\ r = [invoice[i] EXCEPT !.status = status]
      BY <1>0, <1>7, PaymentWrites
    <2>2. /\ r.status = status /\ r.total = invoice[i].total /\ r.items = invoice[i].items
          /\ r.type = invoice[i].type /\ r.business = invoice[i].business
          /\ r.original = invoice[i].original
      BY <1>0, <2>1 DEF Invoice
    <2>3. r.total = Total(r.items)
      BY <1>0, <2>2 DEF TotalsAreComputed
    <2>4. r.type = "CREDIT_NOTE" => Cancels(invoice, r)
      BY <1>0, <2>2 DEF CreditsOf, Cancels
    <2> QED BY <1>0, <1>2, <2>1, <2>2, <2>3, <2>4 DEF Written
  <1>8. CASE CreateCreditNote
    <2>1. PICK i \in Rows(invoice), c \in Invoices, r, s \in Invoice :
              /\ invoice[c] = None /\ i # c
              /\ invoice' = [[invoice EXCEPT ![c] = r] EXCEPT ![i] = s]
              /\ r.status = "ISSUED" /\ r.type = "CREDIT_NOTE"
              /\ SameParties(r, invoice[i])
              /\ invoice[i].status # "DRAFT" /\ invoice[i].type = "INVOICE"
              /\ r.items = Lines(invoice[i].items, -1)
              /\ r.total = Total(Lines(invoice[i].items, -1)) /\ r.original = i
              /\ s = [invoice[i] EXCEPT !.status = "CREDITED"]
      BY <1>8, CreditWrites
    <2>2. /\ Rows(invoice') = Rows(invoice) \cup {c} /\ c \notin Rows(invoice)
          /\ invoice'[c] = r /\ invoice'[i] = s
          /\ \A j \in Rows(invoice) : j # i => invoice'[j] = invoice[j]
      BY <1>0, <2>1 DEF Rows
    <2>3. /\ s.type = "INVOICE" /\ s.total = invoice[i].total /\ s.items = invoice[i].items
          /\ s.status = "CREDITED" /\ s.business = invoice[i].business
          /\ invoice[i].total \in Int
      BY <1>0, <2>1, InvoicingAssumption DEF Invoice
    <2>4. r.total = -invoice[i].total /\ r.total = Total(r.items)
      BY <1>0, <2>1, CreditedTotalCancels DEF InvoicesArePlain, TotalsAreComputed
    <2>5. Cancels(invoice', r)
      <3>1. invoice[i].total = -r.total
        BY <2>3, <2>4
      <3> QED BY <2>1, <2>2, <2>3, <3>1 DEF Cancels, SameParties
    <2>6. /\ TypeOK' /\ Rows(invoice)' = Rows(invoice')
          /\ Rows(invoice) \subseteq Invoices /\ None \notin Invoices
      BY <1>0, TypesKept, InvoicingAssumption DEF Types, Rows
    <2>7. ASSUME NEW j \in Rows(invoice'), invoice'[j].type = "CREDIT_NOTE"
          PROVE  Cancels(invoice', invoice'[j])
      <3>1. CASE j = c
        BY <2>2, <2>5, <3>1
      <3>2. CASE j # c
        <4>1. j \in Rows(invoice) /\ j # i /\ invoice'[j] = invoice[j]
          BY <2>2, <2>3, <2>7, <3>2
        <4>2. Cancels(invoice, invoice[j])
          BY <1>0, <2>7, <4>1 DEF CreditsOf
        <4>3. invoice[j].original \in Rows(invoice) /\ invoice[invoice[j].original].status # "DRAFT"
          BY <4>2 DEF Cancels
        <4> QED BY <4>1, <4>2, <4>3, IssuedRowsStay DEF Cancels
      <3> QED BY <3>1, <3>2
    <2>8. ASSUME NEW j \in Rows(invoice'), invoice'[j].status = "CREDITED"
          PROVE  \E k \in Rows(invoice') : invoice'[k].original = j
      <3>1. CASE j = i
        BY <2>1, <2>2, <3>1
      <3>2. CASE j # i
        <4>1. j \in Rows(invoice) /\ invoice[j].status = "CREDITED"
          BY <2>1, <2>2, <2>8, <3>2
        <4>2. PICK k \in Rows(invoice) : invoice[k].original = j
          BY <1>0, <4>1 DEF CreditsOf
        <4>3. invoice[k].status # "DRAFT"
          BY <1>0, <2>6, <4>1, <4>2 DEF DraftsCreditNothing
        <4> QED BY <4>2, <4>3, IssuedRowsStay
      <3> QED BY <3>1, <3>2
    <2>9. CreditsCancel'
      BY <2>6, <2>7, <2>8, CreditingIsNext DEF CreditsOf
    <2>10. TotalsAreComputed'
      <3>1. s.total = Total(s.items)
        BY <1>0, <2>3 DEF TotalsAreComputed
      <3> QED BY <1>0, <2>2, <2>4, <2>6, <3>1 DEF TotalsAreComputed
    <2>11. DraftsCreditNothing'
      BY <1>0, <2>1, <2>2, <2>3, <2>6 DEF DraftsCreditNothing
    <2> QED BY <2>9, <2>10, <2>11 DEF Crediting
  <1>9. CASE \/ CreateBusiness \/ UpdateBusiness \/ DeleteBusiness \/ UpdateLogo \/ DeleteLogo
             \/ DeleteClient \/ NewYear
    BY <1>1, <1>9
    DEF CreateBusiness, UpdateBusiness, DeleteBusiness, UpdateLogo, DeleteLogo, DeleteClient, NewYear
  <1> QED BY <1>3, <1>4, <1>5, <1>6, <1>7, <1>8, <1>9 DEF Next

-----------------------------------------------------------------------------
LEMMA InitInv == Init => IInv
  <1> SUFFICES ASSUME Init PROVE IInv
    OBVIOUS
  <1>1. /\ business \in [Businesses -> Business] /\ \A b \in Businesses : business[b].year = 0
        /\ \A b \in Businesses : business[b].logo = None
    <2> DEFINE first == CHOOSE x \in Prefixes : TRUE
    <2>1. first \in Prefixes
      BY InvoicingAssumption
    <2>2. business = [b \in Businesses |-> [prefix |-> first, next |-> 1, year |-> 0, logo |-> None]]
      BY DEF Init
    <2> HIDE DEF first
    <2> QED BY <2>1, <2>2 DEF Business
  <1>2. /\ Rows(invoice) = {}
        /\ \A b, y : SeqsIssued(b, y) = {}
    BY DEF Init, Rows, SeqsIssued, InvoicesOf
  <1>3. TypeOK
    BY <1>1 DEF Init, TypeOK
  <1> HIDE DEF Init
  <1>4. LogosAreOwn /\ CounterIsReached
    BY <1>1, RowsAre, <1>3 DEF LogosAreOwn, CounterIsReached
  <1>5. Paying /\ Crediting
    <2>1. Rows(payment) = {}
      BY DEF Init, Rows
    <2> QED
      BY <1>2, <2>1, FS_EmptySet
      DEF Paying, PaymentsHaveInvoice, StatusMatchesPayments, Crediting, TotalsAreComputed,
          DraftsCreditNothing, CreditsCancel
  <1> QED
    BY <1>2, <1>3, <1>4, <1>5
    DEF IInv, Types, DraftsAreBlank, InvoicesArePlain, PartiesBelong, Logos, SnapshotsKeepTheirLogo,
        Numbering, NumbersHaveNoGaps

LEMMA NextInv ==
    ASSUME IInv, [Next]_vars
    PROVE  IInv'
  <1>1. CASE Next
    BY <1>1, TypesKept, PartiesKept, LogosKept, NumberingKept, PayingKept, CreditingKept DEF IInv
  <1>2. CASE UNCHANGED vars
    <2>1. Paying' /\ Crediting'
      BY <1>2
      DEF vars, IInv, Paying, PaymentsHaveInvoice, StatusMatchesPayments, PaymentsOf, Paid, Crediting,
          TotalsAreComputed, DraftsCreditNothing, CreditsCancel, Issued, Rows
    <2> QED
      BY <1>2, <2>1
      DEF vars, IInv, Types, TypeOK, DraftsAreBlank, InvoicesArePlain, PartiesBelong, Logos, LogosAreOwn,
          SnapshotsKeepTheirLogo, Numbering, CounterIsReached, NumbersHaveNoGaps, SeqsIssued, InvoicesOf, Rows
  <1> QED BY <1>1, <1>2

LEMMA InductiveInv == Spec => []IInv
  BY InitInv, NextInv, PTL DEF Spec

\* Rows are well-typed in every state: a credited total stays within the
\* bounds of the total it credits, and a number is given out from 1.
THEOREM InvoicingTypeCorrect == Spec => []TypeOK
  <1>1. IInv => TypeOK
    BY DEF IInv, Types
  <1> QED BY <1>1, InductiveInv, PTL

\* The numbers of a business and a year never have a gap
\* (_next_invoice_number under the lock of the business).
THEOREM NumbersNeverHaveGaps == Spec => []NumbersHaveNoGaps
  <1>1. IInv => NumbersHaveNoGaps
    BY DEF IInv, Numbering
  <1> QED BY <1>1, InductiveInv, PTL

\* No business or client is deleted under an invoice, and no draft is moved
\* to a client of another business.
THEOREM PartiesAlwaysBelong == Spec => []PartiesBelong
  <1>1. IInv => PartiesBelong
    BY DEF IInv
  <1> QED BY <1>1, InductiveInv, PTL

\* The logo of an issued invoice stays stored whatever the business does with
\* its own.
THEOREM LogosStay == Spec => []SnapshotsKeepTheirLogo
  <1>1. IInv => SnapshotsKeepTheirLogo
    BY DEF IInv, Logos
  <1> QED BY <1>1, InductiveInv, PTL

\* An issued invoice changes nothing but its status, and is never deleted.
THEOREM IssuedNeverChanges == Spec => IssuedIsImmutable
  <1> DEFINE Unchanging == \A i \in Invoices : Issued(i) =>
                 /\ Issued(i)'
                 /\ [invoice'[i] EXCEPT !.status = "ISSUED"] = [invoice[i] EXCEPT !.status = "ISSUED"]
  <1>1. ASSUME IInv, [Next]_vars
        PROVE  [Unchanging]_vars
    BY <1>1, IssuedKept DEF IInv
  <1> HIDE DEF Unchanging
  <1>2. Spec => [][Unchanging]_vars
    BY <1>1, InductiveInv, PTL DEF Spec
  <1> QED BY <1>2 DEF IssuedIsImmutable, Unchanging

\* The status of an invoice agrees with the payments recorded for it, and they
\* never exceed its total, for any number of payments in any order
\* (create_payment and delete_payment under the lock of the invoice).
THEOREM StatusAlwaysMatches == Spec => []StatusMatchesPayments
  <1>1. IInv => StatusMatchesPayments
    BY DEF IInv, Paying
  <1> QED BY <1>1, InductiveInv, PTL

\* A credit note cancels its original to the cent whatever the lines are, and
\* only an invoice that has one is CREDITED (create_credit_note).
THEOREM CreditsAlwaysCancel == Spec => []CreditsCancel
  <1>1. IInv => CreditsCancel
    BY DEF IInv, Crediting
  <1> QED BY <1>1, InductiveInv, PTL
=============================================================================
