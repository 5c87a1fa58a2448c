-------------------------- MODULE ArithmeticProofs --------------------------
(***************************************************************************)
(* The hours of a month, for every month, every set of times and shifts    *)
(* and every profile; the loops that propose missing breaks and the        *)
(* repeated request, for every set of stored times.                        *)
(***************************************************************************)
EXTENDS Arithmetic, BreakSegmentsProofs

-----------------------------------------------------------------------------
(* Sums.  SumFunctionOnSet is a recursive function on the subsets of a     *)
(* finite set: it exists, and it takes one element after another.          *)

Picked(s) == CHOOSE x \in s : TRUE
Sums(f, S, g) ==
  g = [s \in SUBSET S |-> IF s = {} THEN 0 ELSE f[Picked(s)] + g[s \ {Picked(s)}]]
SumsUpTo(f, S, n, g) ==
  /\ DOMAIN g = SUBSET S
  /\ \A s \in SUBSET S : Cardinality(s) <= n =>
       g[s] = IF s = {} THEN 0 ELSE f[Picked(s)] + g[s \ {Picked(s)}]

LEMMA PickedSmaller ==
  ASSUME NEW s, IsFiniteSet(s), s # {}
  PROVE  /\ Picked(s) \in s /\ IsFiniteSet(s \ {Picked(s)})
         /\ Cardinality(s) \in Nat \ {0} /\ Cardinality(s \ {Picked(s)}) = Cardinality(s) - 1
<1>1. Picked(s) \in s
  BY DEF Picked
<1>. QED
  BY <1>1, FS_RemoveElement, FS_EmptySet, FS_CardinalityType

LEMMA SumsExist ==
  ASSUME NEW f, NEW S, IsFiniteSet(S)
  PROVE  \E g : Sums(f, S, g)
<1>. DEFINE None == {n \in Nat : ~ \E g : SumsUpTo(f, S, n, g)}
<1>0. \A s \in SUBSET S : IsFiniteSet(s) /\ Cardinality(s) \in Nat
  BY FS_Subset, FS_CardinalityType
<1>1. None = {}
  <2>. SUFFICES ASSUME None # {} PROVE FALSE
    OBVIOUS
  <2>1. PICK m : m = Min(None)
    OBVIOUS
  <2>2. m \in None /\ \A x \in None : m <= x
    BY <2>1, MinOfNat
  <2>3. CASE m = 0
    <3>1. PICK g : g = [s \in SUBSET S |-> 0]
      OBVIOUS
    <3>2. \A s \in SUBSET S : Cardinality(s) <= 0 => s = {}
      BY <1>0, FS_EmptySet
    <3>3. SumsUpTo(f, S, 0, g)
      BY <3>1, <3>2 DEF SumsUpTo
    <3>. QED
      BY <2>2, <2>3, <3>3
  <2>4. CASE m # 0
    <3>1. m - 1 \in Nat /\ m - 1 \notin None
      BY <2>2, <2>4
    <3>2. PICK g : SumsUpTo(f, S, m - 1, g)
      BY <3>1
    <3>3. PICK h : h = [s \in SUBSET S |-> IF s = {} THEN 0 ELSE f[Picked(s)] + g[s \ {Picked(s)}]]
      OBVIOUS
    <3>4. ASSUME NEW s \in SUBSET S, Cardinality(s) <= m - 1
          PROVE  h[s] = g[s]
      BY <3>2, <3>3, <3>4 DEF SumsUpTo
    <3>5. ASSUME NEW s \in SUBSET S, Cardinality(s) <= m
          PROVE  h[s] = IF s = {} THEN 0 ELSE f[Picked(s)] + h[s \ {Picked(s)}]
      <4>1. CASE s = {}
        BY <3>3, <4>1
      <4>2. CASE s # {}
        <5>1. s \ {Picked(s)} \in SUBSET S /\ Cardinality(s \ {Picked(s)}) <= m - 1
          BY <1>0, <2>2, <3>5, <4>2, PickedSmaller
        <5>2. h[s \ {Picked(s)}] = g[s \ {Picked(s)}]
          BY <3>4, <5>1
        <5>. QED
          BY <3>3, <4>2, <5>2
      <4>. QED
        BY <4>1, <4>2
    <3>6. SumsUpTo(f, S, m, h)
      BY <3>3, <3>5 DEF SumsUpTo
    <3>. QED
      BY <2>2, <3>6
  <2>. QED
    BY <2>3, <2>4
<1>2. PICK n \in Nat : n = Cardinality(S)
  BY <1>0
<1>3. PICK g : SumsUpTo(f, S, n, g)
  BY <1>1
<1>4. \A s \in SUBSET S : Cardinality(s) <= n
  BY <1>2, FS_Subset
<1>5. PICK h : h = [s \in SUBSET S |-> IF s = {} THEN 0 ELSE f[Picked(s)] + g[s \ {Picked(s)}]]
  OBVIOUS
<1>6. \A s \in SUBSET S : h[s] = g[s]
  BY <1>3, <1>4, <1>5 DEF SumsUpTo
<1>7. \A s \in SUBSET S : s # {} => h[s \ {Picked(s)}] = g[s \ {Picked(s)}]
  BY <1>6
<1>8. h = [s \in SUBSET S |-> IF s = {} THEN 0 ELSE f[Picked(s)] + h[s \ {Picked(s)}]]
  BY <1>5, <1>7
<1>. QED
  BY <1>8 DEF Sums

LEMMA SumsAgree ==
  ASSUME NEW f, NEW S, IsFiniteSet(S), NEW T \in SUBSET S, NEW g, Sums(f, S, g), NEW h, Sums(f, T, h)
  PROVE  h[T] = g[T]
<1>. DEFINE Bad == {n \in Nat : \E s \in SUBSET T : Cardinality(s) = n /\ h[s] # g[s]}
<1>0. \A s \in SUBSET T : IsFiniteSet(s) /\ Cardinality(s) \in Nat /\ s \in SUBSET S
  BY FS_Subset, FS_CardinalityType
<1>1. Bad = {}
  <2>. SUFFICES ASSUME Bad # {} PROVE FALSE
    OBVIOUS
  <2>1. PICK m : m = Min(Bad)
    OBVIOUS
  <2>2. m \in Bad /\ \A x \in Bad : m <= x
    BY <2>1, MinOfNat
  <2>3. PICK s \in SUBSET T : Cardinality(s) = m /\ h[s] # g[s]
    BY <2>2
  <2>4. s # {}
    BY <1>0, <2>3 DEF Sums
  <2>5. PICK t : t = s \ {Picked(s)}
    OBVIOUS
  <2>6. t \in SUBSET T /\ Cardinality(t) = m - 1 /\ m \in Nat
    BY <1>0, <2>3, <2>4, <2>5, PickedSmaller
  <2>7. h[t] = g[t]
    BY <1>0, <2>2, <2>6
  <2>8. h[s] = f[Picked(s)] + h[t]
    BY <2>4, <2>5 DEF Sums
  <2>9. g[s] = f[Picked(s)] + g[t]
    BY <1>0, <2>4, <2>5 DEF Sums
  <2>. QED
    BY <2>3, <2>7, <2>8, <2>9
<1>. QED
  BY <1>0, <1>1

LEMMA SumStep ==
  ASSUME NEW f, NEW S, IsFiniteSet(S)
  PROVE  SumFunctionOnSet(f, S) =
           IF S = {} THEN 0 ELSE f[Picked(S)] + SumFunctionOnSet(f, S \ {Picked(S)})
<1>1. \A T : SumFunctionOnSet(f, T) = (CHOOSE g : Sums(f, T, g))[T]
  BY DEF SumFunctionOnSet, FoldFunctionOnSet, MapThenFoldSet, Sums, Picked
<1>2. PICK g : g = CHOOSE x : Sums(f, S, x)
  OBVIOUS
<1>3. Sums(f, S, g)
  BY <1>2, SumsExist
<1>4. SumFunctionOnSet(f, S) = g[S]
  BY <1>1, <1>2
<1>5. CASE S = {}
  BY <1>3, <1>4, <1>5 DEF Sums
<1>6. CASE S # {}
  <2>1. PICK T : T = S \ {Picked(S)}
    OBVIOUS
  <2>2. T \in SUBSET S /\ IsFiniteSet(T)
    BY <1>6, <2>1, PickedSmaller
  <2>3. PICK h : h = CHOOSE x : Sums(f, T, x)
    OBVIOUS
  <2>4. Sums(f, T, h)
    BY <2>2, <2>3, SumsExist
  <2>5. h[T] = g[T]
    BY <1>3, <2>2, <2>4, SumsAgree
  <2>6. SumFunctionOnSet(f, T) = h[T]
    BY <1>1, <2>3
  <2>7. g[S] = f[Picked(S)] + g[T]
    BY <1>3, <1>6, <2>1 DEF Sums
  <2>. QED
    BY <1>4, <1>6, <2>1, <2>5, <2>6, <2>7
<1>. QED
  BY <1>5, <1>6

\* Induction along the elements in the order in which they are summed.
LEMMA OneByOne ==
  ASSUME NEW S, IsFiniteSet(S), NEW Good, {} \in Good,
         \A s \in SUBSET S : s # {} /\ s \ {Picked(s)} \in Good => s \in Good
  PROVE  S \in Good
<1>. DEFINE Bad == {n \in Nat : \E s \in SUBSET S : Cardinality(s) = n /\ s \notin Good}
<1>0. \A s \in SUBSET S : IsFiniteSet(s) /\ Cardinality(s) \in Nat
  BY FS_Subset, FS_CardinalityType
<1>1. Bad = {}
  <2>. SUFFICES ASSUME Bad # {} PROVE FALSE
    OBVIOUS
  <2>1. PICK m : m = Min(Bad)
    OBVIOUS
  <2>2. m \in Bad /\ \A x \in Bad : m <= x
    BY <2>1, MinOfNat
  <2>3. PICK s \in SUBSET S : Cardinality(s) = m /\ s \notin Good
    BY <2>2
  <2>4. s # {}
    BY <2>3
  <2>5. PICK t : t = s \ {Picked(s)}
    OBVIOUS
  <2>6. t \in SUBSET S /\ Cardinality(t) = m - 1 /\ m \in Nat \ {0}
    BY <1>0, <2>3, <2>4, <2>5, PickedSmaller
  <2>7. t \in Good
    BY <1>0, <2>2, <2>6
  <2>. QED
    BY <2>3, <2>4, <2>5, <2>7
<1>. QED
  BY <1>0, <1>1

\* The numbers of elements of disjoint sets add up to that of their union.
LEMMA SumOfCounts ==
  ASSUME NEW S, IsFiniteSet(S), NEW M, \A x \in S : IsFiniteSet(M[x]),
         \A x, y \in S : x # y => M[x] \cap M[y] = {},
         NEW f, \A x \in S : f[x] = Cardinality(M[x]),
         NEW V, \A x \in S : M[x] \subseteq V, \A t \in V : \E x \in S : t \in M[x]
  PROVE  IsFiniteSet(V) /\ SumFunctionOnSet(f, S) = Cardinality(V)
<1>. DEFINE U(s) == UNION {M[x] : x \in s}
            Good == {s \in SUBSET S : IsFiniteSet(U(s)) /\ SumFunctionOnSet(f, s) = Cardinality(U(s))}
<1>1. {} \in Good
  <2>1. U({}) = {}
    OBVIOUS
  <2>2. SumFunctionOnSet(f, {}) = 0
    BY SumStep, FS_EmptySet
  <2>. QED
    BY <2>1, <2>2, FS_EmptySet
<1>2. ASSUME NEW s \in SUBSET S, s # {}, s \ {Picked(s)} \in Good
      PROVE  s \in Good
  <2>1. PICK x, t : x = Picked(s) /\ t = s \ {Picked(s)}
    OBVIOUS
  <2>2. x \in s /\ x \in S /\ t \in SUBSET S /\ IsFiniteSet(s)
    BY <1>2, <2>1, FS_Subset, PickedSmaller
  <2>3. U(s) = M[x] \cup U(t) /\ M[x] \cap U(t) = {}
    BY <2>1, <2>2
  <2>4. IsFiniteSet(U(t)) /\ SumFunctionOnSet(f, t) = Cardinality(U(t))
    BY <1>2, <2>1
  <2>. HIDE DEF U
  <2>5. SumFunctionOnSet(f, s) = f[x] + SumFunctionOnSet(f, t)
    BY <1>2, <2>1, <2>2, SumStep
  <2>6. PICK A, B : A = M[x] /\ B = U(t)
    OBVIOUS
  <2>7. IsFiniteSet(A) /\ IsFiniteSet(B) /\ A \cap B = {}
    BY <2>2, <2>3, <2>4, <2>6
  <2>8. IsFiniteSet(A \cup B) /\ Cardinality(A \cup B) = Cardinality(A) + Cardinality(B)
    <3>1. Cardinality(A) \in Nat /\ Cardinality(B) \in Nat
      BY <2>7, FS_CardinalityType
    <3>2. Cardinality(A \cap B) = 0
      BY <2>7, FS_EmptySet
    <3>3. IsFiniteSet(A \cup B) /\ Cardinality(A \cup B) = Cardinality(A) + Cardinality(B) - Cardinality(A \cap B)
      BY <2>7, FS_Union
    <3>. QED
      BY <3>1, <3>2, <3>3
  <2>. QED
    BY <2>2, <2>3, <2>4, <2>5, <2>6, <2>8
<1>. HIDE DEF Good
<1>3. S \in Good
  BY <1>1, <1>2, OneByOne
<1>4. U(S) = V
  OBVIOUS
<1>. HIDE DEF U
<1>. QED
  BY <1>3, <1>4 DEF Good

\* Numbers whose rounded sixths are taken one by one.
LEMMA SumOfTenths ==
  ASSUME NEW S, IsFiniteSet(S), NEW m, NEW r,
         \A x \in S : /\ m[x] \in Nat /\ r[x] \in Int
                      /\ m[x] = 0 => r[x] = 0
                      /\ -2 <= 6 * r[x] - m[x] /\ 6 * r[x] - m[x] <= 3,
         NEW n, n = Cardinality({x \in S : m[x] # 0})
  PROVE  /\ SumFunctionOnSet(m, S) \in Int /\ SumFunctionOnSet(r, S) \in Int /\ n \in Nat
         /\ 6 * SumFunctionOnSet(r, S) - SumFunctionOnSet(m, S) \in (-2 * n) .. (3 * n)
<1>. DEFINE P(s) == {x \in s : m[x] # 0}
            Sm(s) == SumFunctionOnSet(m, s)
            Sr(s) == SumFunctionOnSet(r, s)
            Good == {s \in SUBSET S : /\ Sm(s) \in Int /\ Sr(s) \in Int
                                      /\ -2 * Cardinality(P(s)) <= 6 * Sr(s) - Sm(s)
                                      /\ 6 * Sr(s) - Sm(s) <= 3 * Cardinality(P(s))}
<1>1. {} \in Good
  <2>1. P({}) = {} /\ Sm({}) = 0 /\ Sr({}) = 0
    BY SumStep, FS_EmptySet
  <2>. QED
    BY <2>1, FS_EmptySet
<1>2. ASSUME NEW s \in SUBSET S, s # {}, s \ {Picked(s)} \in Good
      PROVE  s \in Good
  <2>1. PICK x, t : x = Picked(s) /\ t = s \ {Picked(s)}
    OBVIOUS
  <2>2. x \in s /\ x \in S /\ t \in SUBSET S /\ IsFiniteSet(s) /\ IsFiniteSet(t)
    BY <1>2, <2>1, FS_Subset, PickedSmaller
  <2>3. Sm(s) = m[x] + Sm(t) /\ Sr(s) = r[x] + Sr(t)
    BY <1>2, <2>1, <2>2, SumStep
  <2>4. /\ Sm(t) \in Int /\ Sr(t) \in Int
        /\ -2 * Cardinality(P(t)) <= 6 * Sr(t) - Sm(t) /\ 6 * Sr(t) - Sm(t) <= 3 * Cardinality(P(t))
    BY <1>2, <2>1
  <2>5. Cardinality(P(s)) = (IF m[x] = 0 THEN 0 ELSE 1) + Cardinality(P(t)) /\ Cardinality(P(t)) \in Nat
    <3>0. PICK T : T = P(t)
      OBVIOUS
    <3>1. IsFiniteSet(T) /\ Cardinality(T) \in Nat /\ x \notin T
      BY <2>1, <2>2, <3>0, FS_Subset, FS_CardinalityType
    <3>2. CASE m[x] = 0
      <4>1. P(s) = P(t)
        BY <2>1, <2>2, <3>2
      <4>. QED
        BY <3>0, <3>1, <3>2, <4>1
    <3>3. CASE m[x] # 0
      <4>1. P(s) = T \cup {x}
        BY <2>1, <2>2, <3>0, <3>3
      <4>2. Cardinality(T \cup {x}) = Cardinality(T) + 1
        BY <3>1, FS_AddElement
      <4>3. Cardinality(P(s)) = 1 + Cardinality(P(t)) /\ Cardinality(P(t)) \in Nat
        <5>. HIDE DEF P
        <5>. QED
          BY <3>0, <3>1, <4>1, <4>2
      <4>. QED
        BY <3>3, <4>3
    <3>. QED
      BY <3>2, <3>3
  <2>6. PICK a \in Nat, b \in Int : a = m[x] /\ b = r[x] /\ (a = 0 => b = 0) /\ -2 <= 6 * b - a /\ 6 * b - a <= 3
    BY <2>2
  <2>. HIDE DEF P, Sm, Sr
  <2>7. PICK c \in Nat, u \in Int, v \in Int :
          /\ c = Cardinality(P(t)) /\ u = Sm(t) /\ v = Sr(t)
          /\ -2 * c <= 6 * v - u /\ 6 * v - u <= 3 * c
    BY <2>4, <2>5
  <2>8. /\ a + u \in Int /\ b + v \in Int
        /\ -2 * ((IF a = 0 THEN 0 ELSE 1) + c) <= 6 * (b + v) - (a + u)
        /\ 6 * (b + v) - (a + u) <= 3 * ((IF a = 0 THEN 0 ELSE 1) + c)
    BY <2>6, <2>7
  <2>. QED
    BY <2>3, <2>5, <2>6, <2>7, <2>8
<1>. HIDE DEF Good
<1>3. S \in Good
  BY <1>1, <1>2, OneByOne
<1>4. n \in Nat
  BY FS_Subset, FS_CardinalityType
<1>. QED
  BY <1>3, <1>4 DEF Good

LEMMA SumOfIntegers ==
  ASSUME NEW S, IsFiniteSet(S), NEW f, \A x \in S : f[x] \in Int
  PROVE  SumFunctionOnSet(f, S) \in Int
<1>. DEFINE Good == {s \in SUBSET S : SumFunctionOnSet(f, s) \in Int}
<1>0. SumFunctionOnSet(f, {}) = 0
  BY SumStep, FS_EmptySet
<1>1. {} \in Good
  BY <1>0, FS_EmptySet
<1>2. ASSUME NEW s \in SUBSET S, s # {}, s \ {Picked(s)} \in Good
      PROVE  s \in Good
  BY <1>2, SumStep, FS_Subset, PickedSmaller
<1>. HIDE DEF Good
<1>3. S \in Good
  BY <1>1, <1>2, OneByOne
<1>. QED
  BY <1>3 DEF Good

\* The same number, as often as there are elements.
LEMMA SumOfEqual ==
  ASSUME NEW S, IsFiniteSet(S), NEW c \in {80, 480}, NEW f, \A x \in S : f[x] = c
  PROVE  SumFunctionOnSet(f, S) = c * Cardinality(S)
<1>. DEFINE Good == {s \in SUBSET S : SumFunctionOnSet(f, s) = c * Cardinality(s)}
<1>0. SumFunctionOnSet(f, {}) = 0
  BY SumStep, FS_EmptySet
<1>1. {} \in Good
  BY <1>0, FS_EmptySet
<1>2. ASSUME NEW s \in SUBSET S, s # {}, s \ {Picked(s)} \in Good
      PROVE  s \in Good
  <2>1. PICK x, t : x = Picked(s) /\ t = s \ {Picked(s)}
    OBVIOUS
  <2>2. x \in S /\ IsFiniteSet(s)
    BY <1>2, <2>1, FS_Subset, PickedSmaller
  <2>3. Cardinality(s) \in Nat /\ Cardinality(t) = Cardinality(s) - 1
    BY <1>2, <2>1, <2>2, PickedSmaller
  <2>4. SumFunctionOnSet(f, s) = c + SumFunctionOnSet(f, t)
    BY <1>2, <2>1, <2>2, SumStep
  <2>5. SumFunctionOnSet(f, t) = c * Cardinality(t)
    BY <1>2, <2>1
  <2>6. CASE c = 80
    BY <2>3, <2>4, <2>5, <2>6
  <2>7. CASE c = 480
    BY <2>3, <2>4, <2>5, <2>7
  <2>. QED
    BY <2>6, <2>7
<1>. HIDE DEF Good
<1>3. S \in Good
  BY <1>1, <1>2, OneByOne
<1>. QED
  BY <1>3 DEF Good

-----------------------------------------------------------------------------
(* The operators as TimeMetrics has them. *)

LEMMA HoursCardinality ==
  ASSUME NEW S
  PROVE  Hours!Cardinality(S) = Cardinality(S)
BY DEF Hours!Cardinality, Cardinality

LEMMA HoursPairs ==
  ASSUME NEW S
  PROVE  Hours!pair_event_rows(S) = pair_event_rows(S)
<1>1. \A t : Hours!DayOf(t) = DayOf(t)
  BY DEF Hours!DayOf, Hours!DayMinutes, DayOf, DayMinutes
<1>2. \A d : Hours!OfDay(S, d) = OfDay(S, d)
  BY <1>1 DEF Hours!OfDay, OfDay
<1>3. \A T : Hours!DayPairs(T) = DayPairs(T)
  BY HoursCardinality DEF Hours!DayPairs, DayPairs
<1>. QED
  BY <1>1, <1>2, <1>3 DEF Hours!pair_event_rows, pair_event_rows

LEMMA HoursSum ==
  ASSUME NEW f
  PROVE  Hours!SumFunction(f) = SumFunctionOnSet(f, DOMAIN f)
BY DEF Hours!SumFunction, Hours!SumFunctionOnSet, Hours!FoldFunctionOnSet, Hours!MapThenFoldSet,
       SumFunctionOnSet, FoldFunctionOnSet, MapThenFoldSet

LEMMA NothingToSum ==
  ASSUME NEW f, DOMAIN f = {}
  PROVE  Hours!SumFunction(f) = 0
BY HoursSum, SumStep, FS_EmptySet

LEMMA HoursMax ==
  ASSUME NEW a \in Int, NEW b \in Int
  PROVE  Hours!Max({a, b}) = IF a >= b THEN a ELSE b
<1>1. PICK m : m = CHOOSE x \in {a, b} : \A y \in {a, b} : x >= y
  OBVIOUS
<1>2. m \in {a, b} /\ \A y \in {a, b} : m >= y
  BY <1>1
<1>. QED
  BY <1>1, <1>2 DEF Hours!Max

LEMMA HoursMin ==
  ASSUME NEW a \in Int, NEW b \in Int
  PROVE  Hours!Min({a, b}) = IF a <= b THEN a ELSE b
<1>1. PICK m : m = CHOOSE x \in {a, b} : \A y \in {a, b} : x <= y
  OBVIOUS
<1>2. m \in {a, b} /\ \A y \in {a, b} : m <= y
  BY <1>1
<1>. QED
  BY <1>1, <1>2 DEF Hours!Min

-----------------------------------------------------------------------------
(* The days of an interval. *)

\* An interval that lies inside day d has one part, itself, on day d.
Inside(i, d) ==
  /\ i = <<i[1], i[2]>> /\ i[1] \in Nat /\ i[2] \in Nat /\ i[1] < i[2]
  /\ d \in Nat /\ DayMinutes * d <= i[1] /\ i[2] <= DayMinutes * (d + 1)

LEMMA OneDay ==
  ASSUME NEW i, NEW d, Inside(i, d), NEW e, Inside(i, e)
  PROVE  d = e
<1>1. PICK a \in Nat, b \in Nat : a = i[1] /\ b = i[2]
  BY DEF Inside
<1>2. a < b /\ d \in Nat /\ 1440 * d <= a /\ b <= 1440 * (d + 1) /\ e \in Nat /\ 1440 * e <= a /\ b <= 1440 * (e + 1)
  BY <1>1 DEF Inside, DayMinutes
<1>. QED
  BY <1>2

LEMMA DayStarts ==
  ASSUME NEW t \in Nat, NEW d \in Nat
  PROVE  DayOf(t) = d <=> (DayMinutes * d <= t /\ t < DayMinutes * (d + 1))
BY DEF DayOf, DayMinutes

LEMMA OnePart ==
  ASSUME NEW i, NEW d, Inside(i, d)
  PROVE  Hours!split_by_day(i) = {<<d, i>>}
<1>. DEFINE P(e) == <<e, <<Hours!Max({i[1], e * 1440}), Hours!Min({i[2], (e + 1) * 1440})>>>>
<1>1. PICK a \in Nat, b \in Nat : a = i[1] /\ b = i[2] /\ a < b /\ 1440 * d <= a /\ b <= 1440 * (d + 1) /\ i = <<a, b>>
  BY DEF Inside, DayMinutes
<1>2. d \in Nat /\ DayOf(a) = d /\ DayOf(b) \in d .. d + 1
  BY <1>1 DEF Inside, DayOf, DayMinutes
<1>3. Hours!DayOf(i[1]) = d /\ Hours!DayOf(i[2]) = DayOf(b)
  BY <1>1, <1>2 DEF Hours!DayOf, Hours!DayMinutes, DayOf, DayMinutes
<1>4. Hours!split_by_day(i) = {q \in {P(e) : e \in d .. DayOf(b)} : q[2][1] < q[2][2]}
  BY <1>3 DEF Hours!split_by_day, Hours!DayMinutes
<1>5. P(d) = <<d, i>>
  <2>1. PICK x \in Int, y \in Int : x = d * 1440 /\ y = (d + 1) * 1440
    BY <1>2
  <2>2. Hours!Max({a, x}) = a /\ Hours!Min({b, y}) = b
    BY <1>1, <1>2, <2>1, HoursMax, HoursMin
  <2>. QED
    BY <1>1, <2>1, <2>2
<1>6. ~ (P(d + 1)[2][1] < P(d + 1)[2][2])
  <2>1. PICK x \in Int, y \in Int : x = (d + 1) * 1440 /\ y = ((d + 1) + 1) * 1440
    BY <1>2
  <2>2. Hours!Max({a, x}) = x /\ Hours!Min({b, y}) = b
    BY <1>1, <1>2, <2>1, HoursMax, HoursMin
  <2>3. P(d + 1) = <<d + 1, <<x, b>>>>
    BY <1>1, <2>1, <2>2
  <2>. QED
    BY <1>1, <1>2, <2>1, <2>3
<1>7. (P(d))[2][1] < (P(d))[2][2]
  BY <1>1, <1>5
<1>. HIDE DEF P
<1>8. \A e \in d .. DayOf(b) : e = d \/ e = d + 1
  BY <1>2
<1>. QED
  BY <1>2, <1>4, <1>5, <1>6, <1>7, <1>8

Parts(I, d) == {q[2] : q \in {q \in UNION {Hours!split_by_day(i) : i \in I} : q[1] = d}}

\* The parts of day d are the intervals inside it.
LEMMA PartsOfDay ==
  ASSUME NEW I, \A i \in I : \E e : Inside(i, e), NEW d
  PROVE  Parts(I, d) = {i \in I : Inside(i, d)}
<1>. DEFINE Q == {q \in UNION {Hours!split_by_day(i) : i \in I} : q[1] = d}
<1>1. ASSUME NEW q \in Q
      PROVE  q[2] \in I /\ Inside(q[2], d)
  <2>1. PICK i \in I : q \in Hours!split_by_day(i)
    OBVIOUS
  <2>2. PICK e : Inside(i, e)
    OBVIOUS
  <2>3. q = <<e, i>>
    BY <2>1, <2>2, OnePart
  <2>. QED
    BY <2>2, <2>3
<1>2. ASSUME NEW i \in I, Inside(i, d)
      PROVE  <<d, i>> \in Q
  BY <1>2, OnePart
<1>3. ASSUME NEW i \in I, Inside(i, d)
      PROVE  i \in {q[2] : q \in Q}
  <2>. HIDE DEF Q
  <2>1. PICK q : q = <<d, i>>
    OBVIOUS
  <2>2. q \in Q /\ q[2] = i
    BY <1>2, <1>3, <2>1
  <2>. QED
    BY <2>2
<1>. HIDE DEF Q
<1>4. Parts(I, d) = {q[2] : q \in Q}
  BY DEF Parts, Q
<1>. QED
  BY <1>1, <1>3, <1>4

\* What is recorded: intervals inside days that have facts of their source.
LEMMA IntervalsInside ==
  ASSUME NEW source \in Hours!Sources, input \in Cases, NEW i \in Hours!Intervals(source)
  PROVE  \E d \in Hours!Facts(source) : Inside(i, d)
<1>0. PICK c \in Cases : c = input
  OBVIOUS
<1>1. c.times \subseteq Nat
  BY HoursAssumption DEF Hours!CasesAssumption
<1>2. CASE source = "ATTENDANCE"
  <2>1. i \in pair_event_rows(c.times)
    BY <1>0, <1>2, HoursPairs DEF Hours!Intervals
  <2>2. /\ i[1] \in c.times /\ i[2] \in c.times /\ i = <<i[1], i[2]>> /\ i[1] < i[2]
        /\ DayOf(i[1]) = DayOf(i[2])
    BY <1>1, <2>1, PairRows
  <2>3. PICK d : d = DayOf(i[1])
    OBVIOUS
  <2>4. d \in Nat /\ DayMinutes * d <= i[1] /\ i[2] <= DayMinutes * (d + 1)
    BY <1>1, <2>2, <2>3 DEF DayOf, DayMinutes
  <2>5. Hours!DayOf(i[1]) = d
    BY <2>3 DEF Hours!DayOf, Hours!DayMinutes, DayOf, DayMinutes
  <2>6. d \in Hours!Facts(source)
    BY <1>0, <1>2, <2>2, <2>5 DEF Hours!Facts
  <2>. QED
    BY <1>1, <2>2, <2>4, <2>6 DEF Inside
<1>3. CASE source # "ATTENDANCE"
  <2>1. source = "SHIFT_PLAN"
    BY <1>3 DEF Hours!Sources
  <2>2. PICK d \in DOMAIN c.shifts : c.shifts[d] # <<>> /\ i = c.shifts[d]
    BY <1>0, <1>3 DEF Hours!Intervals, Hours!Hidden
  <2>3. /\ c.shifts[d] \in Nat \X Nat
        /\ 1440 * d <= c.shifts[d][1] /\ c.shifts[d][1] < c.shifts[d][2]
        /\ c.shifts[d][2] <= 1440 * (d + 1) /\ d \in Nat
    BY <2>2, HoursAssumption DEF Hours!CasesAssumption, Hours!DayMinutes
  <2>4. Inside(i, d)
    BY <2>2, <2>3 DEF Inside, DayMinutes
  <2>5. d \in Hours!Facts(source)
    BY <1>0, <2>1, <2>2 DEF Hours!Facts, Hours!RowDays
  <2>. QED
    BY <2>4, <2>5
<1>. QED
  BY <1>2, <1>3

-----------------------------------------------------------------------------
(* The minutes of intervals, one by one. *)

Span(i) == i[1] .. i[2] - 1
AllMinutes(I) == UNION {Span(i) : i \in I}

\* Finitely many intervals inside days, no two of which share a minute.
Calendar(I) ==
  /\ IsFiniteSet(I)
  /\ \A i \in I : \E e : Inside(i, e)
  /\ \A i, j \in I : i # j => Span(i) \cap Span(j) = {}

LEMMA MinuteInside ==
  ASSUME NEW i, NEW d, Inside(i, d), NEW t \in Span(i)
  PROVE  t \in Nat /\ DayOf(t) = d /\ d \in Nat /\ DayMinutes * d <= t /\ t < DayMinutes * (d + 1)
<1>1. PICK a \in Nat, b \in Nat : a = i[1] /\ b = i[2] /\ 1440 * d <= a /\ b <= 1440 * (d + 1) /\ d \in Nat
  BY DEF Inside, DayMinutes
<1>2. t \in Nat /\ 1440 * d <= t /\ t < 1440 * (d + 1)
  BY <1>1 DEF Span
<1>. QED
  BY <1>1, <1>2, DayStarts DEF DayMinutes

\* Two pairs of one employment's times share no minute.
LEMMA PairsApart ==
  ASSUME NEW S \in SUBSET Nat, NEW p \in pair_event_rows(S), NEW q \in pair_event_rows(S), p # q
  PROVE  Span(p) \cap Span(q) = {}
<1>1. /\ p[1] \in S /\ p[2] \in S /\ p = <<p[1], p[2]>> /\ p[1] < p[2]
      /\ \A x \in S : ~ (p[1] < x /\ x < p[2])
  BY PairRows
<1>2. /\ q[1] \in S /\ q[2] \in S /\ q = <<q[1], q[2]>> /\ q[1] < q[2]
      /\ \A x \in S : ~ (q[1] < x /\ x < q[2])
  BY PairRows
<1>3. PICK a \in Nat, b \in Nat, c \in Nat, d \in Nat : a = p[1] /\ b = p[2] /\ c = q[1] /\ d = q[2]
  BY <1>1, <1>2
<1>4. a # c \/ b # d
  BY <1>1, <1>2, <1>3
<1>5. /\ ~ (a < c /\ c < b) /\ ~ (a < d /\ d < b) /\ ~ (c < a /\ a < d) /\ ~ (c < b /\ b < d)
      /\ a < b /\ c < d
  BY <1>1, <1>2, <1>3
<1>6. ~ \E t \in Int : a <= t /\ t < b /\ c <= t /\ t < d
  BY <1>4, <1>5
<1>. QED
  BY <1>3, <1>6 DEF Span

\* The times of a month pair into a calendar, and its shifts are one.
LEMMA IntervalsCalendar ==
  ASSUME NEW source \in Hours!Sources, input \in Cases
  PROVE  Calendar(Hours!Intervals(source))
<1>0. PICK c \in Cases : c = input
  OBVIOUS
<1>1. PICK I : I = Hours!Intervals(source)
  OBVIOUS
<1>2. \A i \in I : \E e : Inside(i, e)
  BY <1>1, IntervalsInside
<1>3. CASE source = "ATTENDANCE"
  <2>1. c.times \subseteq Nat /\ IsFiniteSet(c.times)
    BY HoursAssumption DEF Hours!CasesAssumption, Hours!IsFiniteSet, IsFiniteSet
  <2>2. I = pair_event_rows(c.times)
    BY <1>0, <1>1, <1>3, HoursPairs DEF Hours!Intervals
  <2>3. I \subseteq c.times \X c.times
    BY <2>1, <2>2, PairRows
  <2>4. IsFiniteSet(I)
    BY <2>1, <2>3, FS_Product, FS_Subset
  <2>5. \A i, j \in I : i # j => Span(i) \cap Span(j) = {}
    BY <2>1, <2>2, PairsApart
  <2>. QED
    BY <1>1, <1>2, <2>4, <2>5 DEF Calendar
<1>4. CASE source # "ATTENDANCE"
  <2>1. PICK D : D = {d \in DOMAIN c.shifts : c.shifts[d] # <<>>}
    OBVIOUS
  <2>2. IsFiniteSet(DOMAIN c.shifts)
    BY HoursAssumption DEF Hours!CasesAssumption, Hours!IsFiniteSet, IsFiniteSet
  <2>3. IsFiniteSet(D)
    BY <2>1, <2>2, FS_Subset
  <2>4. I = {c.shifts[d] : d \in D}
    BY <1>0, <1>1, <1>4, <2>1 DEF Hours!Intervals, Hours!Hidden
  <2>5. PICK f : f = [d \in D |-> c.shifts[d]]
    OBVIOUS
  <2>6. f \in Surjection(D, I)
    BY <2>4, <2>5 DEF Surjection
  <2>7. IsFiniteSet(I)
    BY <2>3, <2>6, FS_Surjection
  <2>8. ASSUME NEW d \in D
        PROVE  Inside(c.shifts[d], d)
    <3>1. /\ c.shifts[d] \in Nat \X Nat
          /\ 1440 * d <= c.shifts[d][1] /\ c.shifts[d][1] < c.shifts[d][2]
          /\ c.shifts[d][2] <= 1440 * (d + 1) /\ d \in Nat
      BY <2>1, HoursAssumption DEF Hours!CasesAssumption, Hours!DayMinutes
    <3>. QED
      BY <3>1 DEF Inside, DayMinutes
  <2>9. ASSUME NEW i \in I, NEW j \in I, NEW t, t \in Span(i), t \in Span(j)
        PROVE  i = j
    <3>1. PICK d \in D, e \in D : i = c.shifts[d] /\ j = c.shifts[e]
      BY <2>4
    <3>2. DayOf(t) = d /\ DayOf(t) = e
      BY <2>8, <2>9, <3>1, MinuteInside
    <3>. QED
      BY <3>1, <3>2
  <2>10. \A i, j \in I : i # j => Span(i) \cap Span(j) = {}
    BY <2>9
  <2>. QED
    BY <1>1, <1>2, <2>7, <2>10 DEF Calendar
<1>. QED
  BY <1>3, <1>4

\* The minutes of a kind K on day d, and what the parts of the day have of them.
OnDay(I, K, d) == {t \in AllMinutes(I) : t \in K /\ DayOf(t) = d}

LEMMA DayCounts ==
  ASSUME NEW I, Calendar(I), NEW d, NEW K, NEW f,
         \A i \in {i \in I : Inside(i, d)} : f[i] = Cardinality({t \in Span(i) : t \in K})
  PROVE  /\ IsFiniteSet(OnDay(I, K, d))
         /\ SumFunctionOnSet(f, {i \in I : Inside(i, d)}) = Cardinality(OnDay(I, K, d))
<1>1. PICK P : P = {i \in I : Inside(i, d)}
  OBVIOUS
<1>2. PICK M : M = [i \in P |-> {t \in Span(i) : t \in K}]
  OBVIOUS
<1>3. IsFiniteSet(P)
  BY <1>1, FS_Subset DEF Calendar
<1>4. ASSUME NEW i \in P PROVE IsFiniteSet(M[i])
  <2>1. IsFiniteSet(Span(i))
    <3>1. i[1] \in Int /\ i[2] - 1 \in Int
      BY <1>1 DEF Inside
    <3>. QED
      BY <3>1, FS_Interval DEF Span
  <2>2. M[i] \in SUBSET Span(i)
    BY <1>2
  <2>. QED
    BY <2>1, <2>2, FS_Subset
<1>5. \A i, j \in P : i # j => M[i] \cap M[j] = {}
  BY <1>1, <1>2 DEF Calendar
<1>6. \A i \in P : f[i] = Cardinality(M[i])
  BY <1>1, <1>2
<1>7. /\ \A i \in P : M[i] \subseteq OnDay(I, K, d)
      /\ \A t \in OnDay(I, K, d) : \E i \in P : t \in M[i]
  <2>1. ASSUME NEW i \in P, NEW t \in M[i]
        PROVE  t \in OnDay(I, K, d)
    <3>1. t \in Span(i) /\ t \in K /\ Inside(i, d) /\ i \in I
      BY <1>1, <1>2, <2>1
    <3>. QED
      BY <3>1, MinuteInside DEF OnDay, AllMinutes
  <2>2. ASSUME NEW t \in OnDay(I, K, d)
        PROVE  \E i \in P : t \in M[i]
    <3>1. PICK i \in I : t \in Span(i) /\ t \in K /\ DayOf(t) = d
      BY DEF OnDay, AllMinutes
    <3>2. PICK e : Inside(i, e)
      BY DEF Calendar
    <3>3. e = d
      BY <3>1, <3>2, MinuteInside
    <3>. QED
      BY <1>1, <1>2, <3>1, <3>2, <3>3
  <2>. QED
    BY <2>1, <2>2
<1>8. PICK V : V = OnDay(I, K, d)
  OBVIOUS
<1>9. IsFiniteSet(V) /\ SumFunctionOnSet(f, P) = Cardinality(V)
  BY <1>3, <1>4, <1>5, <1>6, <1>7, <1>8, SumOfCounts
<1>. QED
  BY <1>1, <1>8, <1>9

LEMMA RunLength ==
  ASSUME NEW x \in Int, NEW y \in Int, NEW R, R = x .. y - 1
  PROVE  /\ IsFiniteSet(R)
         /\ y <= x => Cardinality(R) = 0
         /\ x < y => Cardinality(R) = y - x
<1>1. PICK z \in Int : z = y - 1
  OBVIOUS
<1>2. IsFiniteSet(x .. z) /\ Cardinality(x .. z) = IF x > z THEN 0 ELSE z - x + 1
  BY FS_Interval
<1>. QED
  BY <1>1, <1>2

LEMMA OverlapLength ==
  ASSUME NEW i, NEW from \in Int, NEW to \in Int, NEW x \in Int, NEW y \in Int, i[1] \in Int, i[2] \in Int,
         x = (IF i[1] >= from THEN i[1] ELSE from), y = (IF i[2] <= to THEN i[2] ELSE to)
  PROVE  Hours!overlap_minutes(i, from, to) = IF y <= x THEN 0 ELSE y - x
<1>1. Hours!Max({i[1], from}) = x
  BY HoursMax
<1>2. Hours!Min({i[2], to}) = y
  BY HoursMin
<1>3. PICK n \in Int : n = y - x
  OBVIOUS
<1>4. Hours!overlap_minutes(i, from, to) = Hours!Max({0, n})
  BY <1>1, <1>2, <1>3, Zenon DEF Hours!overlap_minutes
<1>5. Hours!Max({0, n}) = IF 0 >= n THEN 0 ELSE n
  BY HoursMax
<1>. QED
  BY <1>3, <1>4, <1>5

\* The minutes of day d from lo to hi on the clock are those from s to e.
Window(d, lo, hi, s, e) ==
  /\ lo \in Int /\ hi \in Int /\ 0 <= lo /\ lo <= hi /\ hi <= 1440
  /\ s \in Int /\ e \in Int /\ s = d * 1440 + lo /\ e = d * 1440 + hi

LEMMA OverlapRun ==
  ASSUME NEW i, NEW d, Inside(i, d), NEW lo, NEW hi, NEW s, NEW e, Window(d, lo, hi, s, e)
  PROVE  \E x, y \in Int : /\ {t \in Span(i) : lo <= t % 1440 /\ t % 1440 < hi} = x .. y - 1
                           /\ y <= x => Hours!overlap_minutes(i, s, e) = 0
                           /\ x < y => Hours!overlap_minutes(i, s, e) = y - x
<1>. DEFINE A == {t \in Span(i) : lo <= t % 1440 /\ t % 1440 < hi}
<1>1. PICK a \in Nat, b \in Nat : a = i[1] /\ b = i[2] /\ a < b /\ 1440 * d <= a /\ b <= 1440 * (d + 1) /\ d \in Nat
  BY DEF Inside, DayMinutes
<1>2. /\ lo \in Int /\ hi \in Int /\ 0 <= lo /\ lo <= hi /\ hi <= 1440
      /\ s \in Int /\ e \in Int /\ s = d * 1440 + lo /\ e = d * 1440 + hi
  BY DEF Window
<1>3. PICK x \in Int, y \in Int : x = (IF a >= s THEN a ELSE s) /\ y = (IF b <= e THEN b ELSE e)
  BY <1>1, <1>2
<1>4. ASSUME NEW t \in a .. b - 1 PROVE t % 1440 = t - 1440 * d
  BY <1>1
<1>5. Span(i) = a .. b - 1
  BY <1>1 DEF Span
<1>6. A = x .. y - 1
  <2>1. ASSUME NEW t \in a .. b - 1
        PROVE  (lo <= t % 1440 /\ t % 1440 < hi) <=> (s <= t /\ t < e)
    BY <1>1, <1>2, <1>4
  <2>2. A = {t \in a .. b - 1 : s <= t /\ t < e}
    BY <1>5, <2>1
  <2>. HIDE DEF A
  <2>. QED
    BY <1>1, <1>2, <1>3, <2>2
<1>7. /\ x = (IF i[1] >= s THEN i[1] ELSE s) /\ y = (IF i[2] <= e THEN i[2] ELSE e)
      /\ i[1] \in Int /\ i[2] \in Int /\ s \in Int /\ e \in Int
  BY <1>1, <1>2, <1>3
<1>8. Hours!overlap_minutes(i, s, e) = IF y <= x THEN 0 ELSE y - x
  BY <1>7, OverlapLength
<1>9. /\ y <= x => Hours!overlap_minutes(i, s, e) = 0
      /\ x < y => Hours!overlap_minutes(i, s, e) = y - x
  <2>1. y <= x => ~ (x < y)
    OBVIOUS
  <2>2. x < y => ~ (y <= x)
    OBVIOUS
  <2>. QED
    BY <1>8, <2>1, <2>2, Zenon
<1>. WITNESS x \in Int, y \in Int
<1>. QED
  BY <1>6, <1>9, Zenon

LEMMA OverlapCounts ==
  ASSUME NEW i, NEW d, Inside(i, d), NEW lo, NEW hi, NEW s, NEW e, Window(d, lo, hi, s, e)
  PROVE  \E A : /\ A = {t \in Span(i) : lo <= t % 1440 /\ t % 1440 < hi}
                /\ IsFiniteSet(A) /\ Hours!overlap_minutes(i, s, e) = Cardinality(A)
<1>1. PICK x \in Int, y \in Int : /\ {t \in Span(i) : lo <= t % 1440 /\ t % 1440 < hi} = x .. y - 1
                                  /\ y <= x => Hours!overlap_minutes(i, s, e) = 0
                                  /\ x < y => Hours!overlap_minutes(i, s, e) = y - x
  BY OverlapRun
<1>2. PICK R : R = x .. y - 1
  OBVIOUS
<1>3. /\ IsFiniteSet(R)
      /\ y <= x => Cardinality(R) = 0
      /\ x < y => Cardinality(R) = y - x
  BY <1>2, RunLength
<1>4. Hours!overlap_minutes(i, s, e) = Cardinality(R)
  BY <1>1, <1>3
<1>. QED
  BY <1>1, <1>2, <1>3, <1>4

\* The minutes of a kind, whatever the month.
OfKindAt(p, y, k) ==
  CASE k = "total" -> Nat
    [] k = "afternoon" -> {t \in Nat : p.afternoon <= t % 1440 /\ t % 1440 < 1320}
    [] k = "night" -> {t \in Nat : t % 1440 < 360 \/ 1320 <= t % 1440}
    [] k = "weekend" -> {t \in Nat : DayOf(t) % 7 \in {6, 0}}
    [] k = "public_holiday" -> {t \in Nat : Hours!is_czech_public_holiday(y, DayOf(t))}

LEMMA SpanNat ==
  ASSUME NEW i, NEW d, Inside(i, d)
  PROVE  /\ Span(i) \subseteq Nat /\ IsFiniteSet(Span(i)) /\ Cardinality(Span(i)) = i[2] - i[1]
<1>1. PICK a \in Nat, b \in Nat : a = i[1] /\ b = i[2] /\ a < b
  BY DEF Inside
<1>2. IsFiniteSet(a .. b - 1) /\ Cardinality(a .. b - 1) = IF a > b - 1 THEN 0 ELSE (b - 1) - a + 1
  BY FS_Interval
<1>. QED
  BY <1>1, <1>2 DEF Span

LEMMA NightCounts ==
  ASSUME NEW i, NEW d, Inside(i, d)
  PROVE  Hours!overlap_minutes(i, d * 1440, d * 1440 + 360)
           + Hours!overlap_minutes(i, d * 1440 + 1320, d * 1440 + 1440)
         = Cardinality({t \in Span(i) : t % 1440 < 360 \/ 1320 <= t % 1440})
<1>1. PICK A, B : /\ A = {t \in Span(i) : 0 <= t % 1440 /\ t % 1440 < 360}
                  /\ B = {t \in Span(i) : 1320 <= t % 1440 /\ t % 1440 < 1440}
  OBVIOUS
<1>0. PICK x \in Int, y \in Int, z \in Int, w \in Int :
        /\ x = d * 1440 /\ y = d * 1440 + 360 /\ z = d * 1440 + 1320 /\ w = d * 1440 + 1440
        /\ x = d * 1440 + 0
  BY DEF Inside
<1>2. IsFiniteSet(A) /\ Hours!overlap_minutes(i, x, y) = Cardinality(A)
  <2>1. PICK lo \in Int, hi \in Int : lo = 0 /\ hi = 360
    OBVIOUS
  <2>2. Window(d, lo, hi, x, y)
    BY <1>0, <2>1 DEF Window
  <2>3. PICK X : /\ X = {t \in Span(i) : lo <= t % 1440 /\ t % 1440 < hi}
                 /\ IsFiniteSet(X) /\ Hours!overlap_minutes(i, x, y) = Cardinality(X)
    BY <2>2, OverlapCounts
  <2>. QED
    BY <1>1, <2>1, <2>3
<1>3. IsFiniteSet(B) /\ Hours!overlap_minutes(i, z, w) = Cardinality(B)
  <2>1. PICK lo \in Int, hi \in Int : lo = 1320 /\ hi = 1440
    OBVIOUS
  <2>2. Window(d, lo, hi, z, w)
    BY <1>0, <2>1 DEF Window
  <2>3. PICK X : /\ X = {t \in Span(i) : lo <= t % 1440 /\ t % 1440 < hi}
                 /\ IsFiniteSet(X) /\ Hours!overlap_minutes(i, z, w) = Cardinality(X)
    BY <2>2, OverlapCounts
  <2>. QED
    BY <1>1, <2>1, <2>3
<1>5. \A t \in Span(i) : t \in Nat
  BY SpanNat
<1>6. A \cap B = {} /\ {t \in Span(i) : t % 1440 < 360 \/ 1320 <= t % 1440} = A \cup B
  BY <1>1, <1>5
<1>7. Cardinality(A) \in Nat /\ Cardinality(B) \in Nat /\ Cardinality(A \cap B) = 0
  <2>1. Cardinality(A) \in Nat /\ Cardinality(B) \in Nat
    BY <1>2, <1>3, FS_CardinalityType
  <2>2. Cardinality(A \cap B) = 0
    BY <1>6, FS_EmptySet
  <2>. QED
    BY <2>1, <2>2
<1>8. Cardinality(A \cup B) = Cardinality(A) + Cardinality(B) - Cardinality(A \cap B)
  BY <1>2, <1>3, FS_Union
<1>9. Cardinality(A \cup B) = Cardinality(A) + Cardinality(B)
  BY <1>7, <1>8
<1>. QED
  BY <1>0, <1>2, <1>3, <1>6, <1>9

\* What calculate_daily_metrics returns for a day: its minutes of every kind, counted.
DayHours(p, y, I, d) ==
  IF p.type = "TASK_SHIFT_BASED" THEN Hours!NoMetrics
  ELSE [k \in Hours!Keys |->
          IF k \in Hours!Counted(p)
          THEN Hours!metric_value(Cardinality(OnDay(I, OfKindAt(p, y, k), d)))
          ELSE Hours!Hidden]

LEMMA DayTotal ==
  ASSUME NEW I, Calendar(I), NEW d
  PROVE  Hours!SumFunction([i \in {i \in I : Inside(i, d)} |-> i[2] - i[1]]) = Cardinality(OnDay(I, Nat, d))
<1>1. PICK P : P = {i \in I : Inside(i, d)}
  OBVIOUS
<1>2. PICK f : f = [i \in P |-> i[2] - i[1]]
  OBVIOUS
<1>3. ASSUME NEW i \in P PROVE f[i] = Cardinality({t \in Span(i) : t \in Nat})
  <2>1. {t \in Span(i) : t \in Nat} = Span(i)
    BY <1>1, SpanNat
  <2>. QED
    BY <1>1, <1>2, <2>1, SpanNat
<1>4. SumFunctionOnSet(f, P) = Cardinality(OnDay(I, Nat, d))
  BY <1>1, <1>3, DayCounts
<1>. QED
  BY <1>1, <1>2, <1>4, HoursSum

LEMMA DayAfternoon ==
  ASSUME NEW I, Calendar(I), NEW d, NEW p, p.afternoon \in 0 .. 1319, NEW y
  PROVE  Hours!AfternoonMinutes(p, {i \in I : Inside(i, d)}, d)
           = Cardinality(OnDay(I, OfKindAt(p, y, "afternoon"), d))
<1>1. PICK P : P = {i \in I : Inside(i, d)}
  OBVIOUS
<1>2. PICK f : f = [i \in P |-> Hours!overlap_minutes(i, d * 1440 + p.afternoon, d * 1440 + 1320)]
  OBVIOUS
<1>3. PICK K : K = OfKindAt(p, y, "afternoon")
  OBVIOUS
<1>4. PICK a \in Int : a = p.afternoon /\ 0 <= a /\ a <= 1320
  OBVIOUS
<1>5. ASSUME NEW i \in P PROVE f[i] = Cardinality({t \in Span(i) : t \in K})
  <2>1. {t \in Span(i) : t \in K} = {t \in Span(i) : a <= t % 1440 /\ t % 1440 < 1320}
    BY <1>1, <1>3, <1>4, SpanNat DEF OfKindAt
  <2>2. PICK A : A = {t \in Span(i) : a <= t % 1440 /\ t % 1440 < 1320}
    OBVIOUS
  <2>3. Inside(i, d) /\ d \in Nat
    BY <1>1 DEF Inside
  <2>4. PICK s \in Int, e \in Int : s = d * 1440 + a /\ e = d * 1440 + 1320
    BY <2>3
  <2>5. Hours!overlap_minutes(i, s, e) = Cardinality(A)
    <3>1. PICK hi \in Int : hi = 1320
      OBVIOUS
    <3>2. Window(d, a, hi, s, e)
      BY <1>4, <2>4, <3>1 DEF Window
    <3>3. PICK X : /\ X = {t \in Span(i) : a <= t % 1440 /\ t % 1440 < hi}
                   /\ IsFiniteSet(X) /\ Hours!overlap_minutes(i, s, e) = Cardinality(X)
      BY <2>3, <2>4, <3>2, OverlapCounts
    <3>. QED
      BY <2>2, <3>1, <3>3
  <2>6. f[i] = Hours!overlap_minutes(i, s, e)
    BY <1>2, <1>4, <2>4
  <2>. QED
    BY <2>1, <2>2, <2>5, <2>6
<1>6. SumFunctionOnSet(f, P) = Cardinality(OnDay(I, K, d))
  BY <1>1, <1>5, DayCounts
<1>. QED
  BY <1>1, <1>2, <1>3, <1>6, HoursSum DEF Hours!AfternoonMinutes, Hours!DayMinutes

LEMMA DayNight ==
  ASSUME NEW I, Calendar(I), NEW d, NEW p, NEW y
  PROVE  Hours!NightMinutes({i \in I : Inside(i, d)}, d)
           = Cardinality(OnDay(I, OfKindAt(p, y, "night"), d))
<1>1. PICK P : P = {i \in I : Inside(i, d)}
  OBVIOUS
<1>2. PICK f : f = [i \in P |-> Hours!overlap_minutes(i, d * 1440, d * 1440 + 360)
                                  + Hours!overlap_minutes(i, d * 1440 + 1320, d * 1440 + 1440)]
  OBVIOUS
<1>3. PICK K : K = OfKindAt(p, y, "night")
  OBVIOUS
<1>4. ASSUME NEW i \in P PROVE f[i] = Cardinality({t \in Span(i) : t \in K})
  <2>1. {t \in Span(i) : t \in K} = {t \in Span(i) : t % 1440 < 360 \/ 1320 <= t % 1440}
    BY <1>1, <1>3, SpanNat DEF OfKindAt
  <2>. QED
    BY <1>1, <1>2, <2>1, NightCounts
<1>5. SumFunctionOnSet(f, P) = Cardinality(OnDay(I, K, d))
  BY <1>1, <1>4, DayCounts
<1>. QED
  BY <1>1, <1>2, <1>3, <1>5, HoursSum DEF Hours!NightMinutes, Hours!DayMinutes

\* A kind that takes whole days has all minutes of such a day and none of another.
LEMMA WholeDays ==
  ASSUME NEW I, Calendar(I), NEW d, NEW K, NEW yes \in BOOLEAN,
         \A t \in Nat : DayOf(t) = d => (t \in K <=> yes)
  PROVE  Cardinality(OnDay(I, K, d)) = IF yes THEN Cardinality(OnDay(I, Nat, d)) ELSE 0
<1>1. \A t \in AllMinutes(I) : t \in Nat
  BY SpanNat DEF AllMinutes, Calendar
<1>2. OnDay(I, K, d) = IF yes THEN OnDay(I, Nat, d) ELSE {}
  BY <1>1 DEF OnDay
<1>. QED
  BY <1>2, FS_EmptySet

LEMMA DayOfKinds ==
  ASSUME NEW I, Calendar(I), NEW d \in Int, NEW p, p.afternoon \in 0 .. 1319, NEW y
  PROVE  Hours!calculate_daily_metrics(p, y, d, I) = DayHours(p, y, I, d)
<1>. DEFINE n(k) == Cardinality(OnDay(I, OfKindAt(p, y, k), d))
<1>1. PICK P : P = {i \in I : Inside(i, d)}
  OBVIOUS
<1>2. Parts(I, d) = P
  BY <1>1, PartsOfDay DEF Calendar
<1>3. PICK total : total = Hours!SumFunction([i \in P |-> i[2] - i[1]])
  OBVIOUS
<1>4. total = n("total")
  BY <1>1, <1>3, DayTotal DEF OfKindAt
<1>5. Hours!AfternoonMinutes(p, P, d) = n("afternoon")
  BY <1>1, DayAfternoon
<1>6. Hours!NightMinutes(P, d) = n("night")
  BY <1>1, DayNight
<1>7. (IF Hours!weekday(d) >= 5 THEN total ELSE 0) = n("weekend")
  <2>1. PICK yes \in BOOLEAN : yes <=> d % 7 \in {6, 0}
    OBVIOUS
  <2>2. Hours!weekday(d) >= 5 <=> yes
    <3>1. (d + 6) % 7 >= 5 <=> d % 7 \in {6, 0}
      OBVIOUS
    <3>. QED
      BY <2>1, <3>1 DEF Hours!weekday
  <2>3. \A t \in Nat : DayOf(t) = d => (t \in OfKindAt(p, y, "weekend") <=> yes)
    BY <2>1 DEF OfKindAt
  <2>4. PICK K : K = OfKindAt(p, y, "weekend")
    OBVIOUS
  <2>5. Cardinality(OnDay(I, K, d)) = IF yes THEN Cardinality(OnDay(I, Nat, d)) ELSE 0
    BY <2>3, <2>4, WholeDays
  <2>6. n("total") = Cardinality(OnDay(I, Nat, d))
    BY DEF OfKindAt
  <2>. QED
    BY <1>4, <2>2, <2>4, <2>5, <2>6
<1>8. (IF Hours!is_czech_public_holiday(y, d) THEN total ELSE 0) = n("public_holiday")
  <2>1. PICK yes \in BOOLEAN : yes <=> Hours!is_czech_public_holiday(y, d)
    OBVIOUS
  <2>3. \A t \in Nat : DayOf(t) = d => (t \in OfKindAt(p, y, "public_holiday") <=> yes)
    BY <2>1 DEF OfKindAt
  <2>4. PICK K : K = OfKindAt(p, y, "public_holiday")
    OBVIOUS
  <2>5. Cardinality(OnDay(I, K, d)) = IF yes THEN Cardinality(OnDay(I, Nat, d)) ELSE 0
    BY <2>3, <2>4, WholeDays
  <2>6. n("total") = Cardinality(OnDay(I, Nat, d))
    BY DEF OfKindAt
  <2>. QED
    BY <1>4, <2>1, <2>4, <2>5, <2>6
<1>. HIDE DEF n
<1>9. \A k \in Hours!Keys :
        n(k) = CASE k = "total" -> total
                 [] k = "afternoon" -> Hours!AfternoonMinutes(p, P, d)
                 [] k = "night" -> Hours!NightMinutes(P, d)
                 [] k = "weekend" -> IF Hours!weekday(d) >= 5 THEN total ELSE 0
                 [] k = "public_holiday" -> IF Hours!is_czech_public_holiday(y, d) THEN total ELSE 0
  BY <1>4, <1>5, <1>6, <1>7, <1>8 DEF Hours!Keys
<1>10. Hours!calculate_daily_metrics(p, y, d, I)
         = IF p.type = "TASK_SHIFT_BASED" THEN Hours!NoMetrics
           ELSE [k \in Hours!Keys |->
                   IF k \in Hours!Counted(p) THEN Hours!metric_value(n(k)) ELSE Hours!Hidden]
  <2>. DEFINE body(Q, k) ==
                CASE k = "total" -> Hours!SumFunction([i \in Q |-> i[2] - i[1]])
                  [] k = "afternoon" -> Hours!AfternoonMinutes(p, Q, d)
                  [] k = "night" -> Hours!NightMinutes(Q, d)
                  [] k = "weekend" -> IF Hours!weekday(d) >= 5
                                      THEN Hours!SumFunction([i \in Q |-> i[2] - i[1]]) ELSE 0
                  [] k = "public_holiday" -> IF Hours!is_czech_public_holiday(y, d)
                                             THEN Hours!SumFunction([i \in Q |-> i[2] - i[1]]) ELSE 0
  <2>1. Hours!calculate_daily_metrics(p, y, d, I)
          = IF p.type = "TASK_SHIFT_BASED" THEN Hours!NoMetrics
            ELSE [k \in Hours!Keys |->
                    IF k \in Hours!Counted(p) THEN Hours!metric_value(body(Parts(I, d), k)) ELSE Hours!Hidden]
    BY DEF Hours!calculate_daily_metrics, Parts
  <2>2. \A k \in Hours!Keys : body(P, k) = n(k)
    BY <1>3, <1>9 DEF Hours!Keys
  <2>. HIDE DEF body
  <2>. QED
    BY <1>2, <2>1, <2>2
<1>. QED
  BY <1>10 DEF DayHours, n

-----------------------------------------------------------------------------
(* The hours of a month. *)

LEMMA OrdinalBase ==
  ASSUME NEW y \in Nat, NEW m \in 1 .. 12
  PROVE  \E b \in Int : \A d \in Int : Hours!Ordinal(y, m, d) = b + d
<1>1. PICK f : f = [k \in 1 .. m - 1 |-> Hours!DaysIn(y, k)]
  OBVIOUS
<1>2. IsFiniteSet(1 .. m - 1)
  BY FS_Interval
<1>3. \A k \in 1 .. m - 1 : f[k] \in Int
  BY <1>1 DEF Hours!DaysIn
<1>4. PICK n \in Int : n = Hours!SumFunction(f)
  BY <1>1, <1>2, <1>3, HoursSum, SumOfIntegers
<1>5. PICK q \in Int : q = 365 * (y - 1) + ((y - 1) \div 4) - ((y - 1) \div 100) + ((y - 1) \div 400)
  OBVIOUS
<1>6. \A d : Hours!Ordinal(y, m, d) = q + n + d
  BY <1>1, <1>4, <1>5 DEF Hours!Ordinal
<1>7. PICK b \in Int : b = q + n
  OBVIOUS
<1>8. \A d \in Int : Hours!Ordinal(y, m, d) = b + d
  BY <1>6, <1>7
<1>. QED
  BY <1>8

LEMMA MonthDays ==
  ASSUME NEW y \in Nat, NEW m \in 1 .. 12, NEW D, D = Hours!_month_range(y, m)
  PROVE  D \subseteq Int /\ IsFiniteSet(D) /\ D # {}
<1>1. PICK b \in Int : \A d \in Int : Hours!Ordinal(y, m, d) = b + d
  BY OrdinalBase
<1>2. PICK n \in Int : n = Hours!DaysIn(y, m) /\ n >= 28
  BY DEF Hours!DaysIn
<1>3. PICK u \in Int, v \in Int : u = b + 1 /\ v = b + n
  OBVIOUS
<1>4. D = u .. v
  BY <1>1, <1>2, <1>3 DEF Hours!_month_range
<1>5. IsFiniteSet(u .. v)
  BY FS_Interval
<1>6. u \in u .. v
  BY <1>2, <1>3
<1>. QED
  BY <1>4, <1>5, <1>6

LEMMA RoundedTenths ==
  ASSUME NEW n \in Nat
  PROVE  LET r == Hours!round_minutes_to_tenths(n)
         IN  r \in Int /\ (n = 0 => r = 0) /\ -2 <= 6 * r - n /\ 6 * r - n <= 3
BY DEF Hours!round_minutes_to_tenths

\* The days of a set of minutes.
LEMMA DaysOfMinutes ==
  ASSUME NEW I, Calendar(I), NEW K, NEW D, IsFiniteSet(D),
         NEW M, M = {t \in AllMinutes(I) : t \in K /\ DayOf(t) \in D},
         \A d \in D : IsFiniteSet(OnDay(I, K, d))
  PROVE  {d \in D : Cardinality(OnDay(I, K, d)) # 0} = {DayOf(t) : t \in M}
<1>1. ASSUME NEW d \in D
      PROVE  Cardinality(OnDay(I, K, d)) # 0 <=> \E t \in M : DayOf(t) = d
  <2>1. Cardinality(OnDay(I, K, d)) # 0 <=> OnDay(I, K, d) # {}
    <3>1. PICK X : X = OnDay(I, K, d)
      OBVIOUS
    <3>2. IsFiniteSet(X)
      BY <3>1
    <3>3. Cardinality(X) = 0 <=> X = {}
      BY <3>2, FS_EmptySet
    <3>. QED
      BY <3>1, <3>3
  <2>2. OnDay(I, K, d) # {} <=> \E t \in M : DayOf(t) = d
    BY DEF OnDay
  <2>. QED
    BY <2>1, <2>2
<1>2. \A t \in M : DayOf(t) \in D
  OBVIOUS
<1>. QED
  BY <1>1, <1>2

InMonth(I, K, D) == {t \in AllMinutes(I) : t \in K /\ DayOf(t) \in D}

LEMMA MonthCounts ==
  ASSUME NEW D, IsFiniteSet(D), NEW I, NEW K, \A d \in D : IsFiniteSet(OnDay(I, K, d)),
         NEW f, \A d \in D : f[d] = Cardinality(OnDay(I, K, d))
  PROVE  SumFunctionOnSet(f, D) = Cardinality(InMonth(I, K, D))
<1>1. PICK X : X = [d \in D |-> OnDay(I, K, d)]
  OBVIOUS
<1>2. PICK V : V = InMonth(I, K, D)
  OBVIOUS
<1>3. \A d, e \in D : d # e => X[d] \cap X[e] = {}
  BY <1>1 DEF OnDay
<1>4. \A d \in D : X[d] \subseteq V
  BY <1>1, <1>2 DEF OnDay, InMonth
<1>5. \A t \in V : \E d \in D : t \in X[d]
  BY <1>1, <1>2 DEF OnDay, InMonth
<1>6. \A d \in D : IsFiniteSet(X[d])
  BY <1>1
<1>7. \A d \in D : f[d] = Cardinality(X[d])
  BY <1>1
<1>8. IsFiniteSet(V) /\ SumFunctionOnSet(f, D) = Cardinality(V)
  BY <1>3, <1>4, <1>5, <1>6, <1>7, SumOfCounts
<1>. QED
  BY <1>2, <1>8

Month(D, I, p, y, k) ==
  /\ D \subseteq Int /\ IsFiniteSet(D) /\ D # {} /\ Calendar(I)
  /\ p.type # "TASK_SHIFT_BASED" /\ k \in Hours!Keys /\ k \in Hours!Counted(p)
Summed(D, I, p, y, k, M, n, sum) ==
  /\ M = {t \in AllMinutes(I) : t \in OfKindAt(p, y, k) /\ DayOf(t) \in D}
  /\ n = Cardinality({DayOf(t) : t \in M})
  /\ sum = Hours!_sum([d \in D |-> DayHours(p, y, I, d)], k)

LEMMA MonthSummed ==
  ASSUME NEW D, NEW I, NEW p, NEW y, NEW k, Month(D, I, p, y, k),
         NEW M, NEW n, NEW sum, Summed(D, I, p, y, k, M, n, sum)
  PROVE  sum[1] = Cardinality(M) /\ 6 * sum[2] - sum[1] \in (-2 * n) .. (3 * n)
<1>1. PICK daily : daily = [d \in D |-> DayHours(p, y, I, d)]
  OBVIOUS
<1>2. sum = Hours!_sum(daily, k)
  BY <1>1 DEF Summed
<1>3. /\ D \subseteq Int /\ IsFiniteSet(D) /\ D # {} /\ Calendar(I)
      /\ p.type # "TASK_SHIFT_BASED" /\ k \in Hours!Keys /\ k \in Hours!Counted(p)
  BY DEF Month
<1>4. M = {t \in AllMinutes(I) : t \in OfKindAt(p, y, k) /\ DayOf(t) \in D}
  BY DEF Summed
<1>5. n = Cardinality({DayOf(t) : t \in M})
  BY DEF Summed
<1>. USE <1>1, <1>2, <1>3, <1>4, <1>5
<1>6. PICK K : K = OfKindAt(p, y, k)
  OBVIOUS
<1>7. PICK X : X = [d \in D |-> OnDay(I, K, d)]
  OBVIOUS
<1>8. PICK f, r : /\ f = [d \in D |-> Cardinality(OnDay(I, K, d))]
                  /\ r = [d \in D |-> Hours!round_minutes_to_tenths(f[d])]
  OBVIOUS
<1>9. ASSUME NEW d \in D
      PROVE  IsFiniteSet(X[d]) /\ f[d] = Cardinality(X[d]) /\ f[d] \in Nat
  <2>1. PICK P : P = {i \in I : Inside(i, d)}
    OBVIOUS
  <2>2. PICK g : g = [i \in P |-> Cardinality({t \in Span(i) : t \in K})]
    OBVIOUS
  <2>3. \A i \in {i \in I : Inside(i, d)} : g[i] = Cardinality({t \in Span(i) : t \in K})
    BY <2>1, <2>2
  <2>4. IsFiniteSet(OnDay(I, K, d))
    BY <2>3, DayCounts
  <2>. QED
    BY <1>7, <1>8, <2>4, FS_CardinalityType
<1>10. ASSUME NEW d \in D
      PROVE  daily[d] # Hours!NoMetrics /\ daily[d][k] = <<f[d], r[d]>> /\ daily[d][k] # Hours!Hidden
  <2>1. daily[d] = [j \in Hours!Keys |->
          IF j \in Hours!Counted(p) THEN Hours!metric_value(Cardinality(OnDay(I, OfKindAt(p, y, j), d)))
          ELSE Hours!Hidden]
    BY DEF DayHours
  <2>2. "total" \in DOMAIN daily[d] /\ "total" \notin DOMAIN Hours!NoMetrics
    BY <2>1 DEF Hours!Keys, Hours!NoMetrics
  <2>3. daily[d][k] = Hours!metric_value(Cardinality(OnDay(I, K, d)))
    BY <1>6, <2>1
  <2>4. daily[d][k] = <<f[d], r[d]>>
    BY <1>8, <2>3 DEF Hours!metric_value
  <2>5. <<f[d], r[d]>> # <<>>
    OBVIOUS
  <2>. QED
    BY <2>2, <2>4, <2>5 DEF Hours!Hidden
<1>11. PICK days : days = {d \in DOMAIN daily : daily[d] # Hours!NoMetrics /\ daily[d][k] # Hours!Hidden}
  OBVIOUS
<1>12. days = D
  BY <1>10, <1>11
<1>13. f = [d \in days |-> daily[d][k][1]] /\ r = [d \in days |-> daily[d][k][2]]
  BY <1>8, <1>10, <1>12
<1>14. sum = <<Hours!SumFunction(f), Hours!SumFunction(r)>>
  BY <1>11, <1>12, <1>13 DEF Hours!_sum
<1>15. sum[1] = SumFunctionOnSet(f, D) /\ sum[2] = SumFunctionOnSet(r, D)
  BY <1>8, <1>14, HoursSum
<1>16. SumFunctionOnSet(f, D) = Cardinality(M)
  <2>1. \A d \in D : IsFiniteSet(OnDay(I, K, d))
    BY <1>7, <1>9
  <2>2. \A d \in D : f[d] = Cardinality(OnDay(I, K, d))
    BY <1>8
  <2>3. InMonth(I, K, D) = M
    BY <1>6 DEF InMonth
  <2>4. SumFunctionOnSet(f, D) = Cardinality(InMonth(I, K, D))
    BY <2>1, <2>2, MonthCounts
  <2>. QED
    BY <2>3, <2>4
<1>17. {d \in D : f[d] # 0} = {DayOf(t) : t \in M}
  <2>1. \A d \in D : IsFiniteSet(OnDay(I, K, d))
    BY <1>7, <1>9
  <2>2. {d \in D : Cardinality(OnDay(I, K, d)) # 0} = {DayOf(t) : t \in M}
    <3>1. M = {t \in AllMinutes(I) : t \in K /\ DayOf(t) \in D}
      BY <1>6
    <3>. QED
      BY <2>1, <3>1, DaysOfMinutes, Zenon
  <2>. QED
    BY <1>8, <2>2
<1>18. n = Cardinality({d \in D : f[d] # 0})
  BY <1>17
<1>19. \A d \in D : /\ f[d] \in Nat /\ r[d] \in Int
                    /\ f[d] = 0 => r[d] = 0
                    /\ -2 <= 6 * r[d] - f[d] /\ 6 * r[d] - f[d] <= 3
  BY <1>8, <1>9, RoundedTenths
<1>20. 6 * SumFunctionOnSet(r, D) - SumFunctionOnSet(f, D) \in (-2 * n) .. (3 * n)
  BY <1>18, <1>19, SumOfTenths
<1>. QED
  BY <1>15, <1>16, <1>20

\* The kinds of TimeMetrics, minute by minute.
LEMMA KindsAgree ==
  ASSUME NEW source \in Hours!Sources, input \in Cases, NEW k \in Hours!Keys,
         NEW I, I = Hours!Intervals(source), NEW p, p = profile, NEW y, y = input.year,
         NEW D, D = Hours!_month_range(input.year, input.month)
  PROVE  Hours!OfKind(k, Hours!Minutes(source)) = {t \in AllMinutes(I) : t \in OfKindAt(p, y, k) /\ DayOf(t) \in D}
<1>1. PICK N : N = {t \in AllMinutes(I) : DayOf(t) \in D}
  OBVIOUS
<1>2. \A t : Hours!DayOf(t) = DayOf(t)
  BY DEF Hours!DayOf, Hours!DayMinutes, DayOf, DayMinutes
<1>3. Hours!Minutes(source) = N
  BY <1>1, <1>2 DEF Hours!Minutes, AllMinutes, Span
<1>4. Calendar(I)
  BY IntervalsCalendar
<1>5. \A t \in AllMinutes(I) : t \in Nat
  BY <1>4, SpanNat DEF AllMinutes, Calendar
<1>6. CASE k = "total"
  BY <1>1, <1>3, <1>5, <1>6 DEF Hours!OfKind, OfKindAt
<1>7. CASE k = "afternoon"
  BY <1>1, <1>3, <1>5, <1>7 DEF Hours!OfKind, OfKindAt, Hours!DayMinutes
<1>8. CASE k = "night"
  BY <1>1, <1>3, <1>5, <1>8 DEF Hours!OfKind, OfKindAt, Hours!DayMinutes
<1>9. CASE k = "weekend"
  BY <1>1, <1>2, <1>3, <1>5, <1>9 DEF Hours!OfKind, OfKindAt
<1>10. CASE k = "public_holiday"
  <2>1. PICK H : H = {d \in {Hours!DayOf(t) : t \in N} : Hours!is_czech_public_holiday(input.year, d)}
    OBVIOUS
  <2>2. Hours!OfKind(k, N) = {t \in N : Hours!DayOf(t) \in H}
    BY <1>10, <2>1 DEF Hours!OfKind
  <2>3. \A t \in N : Hours!DayOf(t) \in H <=> Hours!is_czech_public_holiday(y, DayOf(t))
    BY <1>2, <2>1
  <2>4. OfKindAt(p, y, k) = {t \in Nat : Hours!is_czech_public_holiday(y, DayOf(t))}
    BY <1>10 DEF OfKindAt
  <2>. QED
    BY <1>1, <1>3, <1>5, <2>2, <2>3, <2>4
<1>. QED
  BY <1>6, <1>7, <1>8, <1>9, <1>10 DEF Hours!Keys

\* Nothing is shown of a kind no day has.
LEMMA NothingSummed ==
  ASSUME NEW daily, NEW k, \A d \in DOMAIN daily : daily[d] = Hours!NoMetrics \/ daily[d][k] = Hours!Hidden
  PROVE  Hours!_sum(daily, k) = Hours!Hidden
<1>1. {d \in DOMAIN daily : daily[d] # Hours!NoMetrics /\ daily[d][k] # Hours!Hidden} = {}
  OBVIOUS
<1>. QED
  BY <1>1 DEF Hours!_sum

\* One line of the summary, for every source and kind.
CountedRight(source, k, sum) ==
  LET minutes == Hours!OfKind(k, Hours!Minutes(source))
      days == Hours!Cardinality({Hours!DayOf(t) : t \in minutes})
  IN  IF profile.type = "TASK_SHIFT_BASED" \/ k \notin Hours!Counted(profile) THEN sum = Hours!Hidden
      ELSE /\ sum[1] = Hours!Cardinality(minutes)
           /\ 6 * sum[2] - sum[1] \in (-2 * days) .. (3 * days)

LEMMA SummedHours ==
  ASSUME NEW source \in Hours!Sources, input \in Cases, profile \in Profiles, NEW k \in Hours!Keys,
         NEW sum, sum = Hours!_sum(Hours!Computed(source), k)
  PROVE  CountedRight(source, k, sum)
<1>1. PICK I, p, y, D : /\ I = Hours!Intervals(source) /\ p = profile /\ y = input.year
                        /\ D = Hours!_month_range(input.year, input.month)
  OBVIOUS
<1>2. Calendar(I)
  BY <1>1, IntervalsCalendar
<1>3. p.afternoon \in 0 .. 1319
  BY <1>1, HoursAssumption DEF Hours!ProfilesAssumption
<1>4. D \subseteq Int /\ IsFiniteSet(D) /\ D # {}
  <2>1. input.year \in Nat /\ input.month \in 1 .. 12
    BY HoursAssumption DEF Hours!CasesAssumption
  <2>2. PICK m : m = input.month
    OBVIOUS
  <2>3. y \in Nat /\ m \in 1 .. 12 /\ D = Hours!_month_range(y, m)
    BY <1>1, <2>1, <2>2
  <2>. QED
    BY <2>3, MonthDays
<1>5. PICK daily : daily = Hours!Computed(source)
  OBVIOUS
<1>6. daily = [d \in D |-> DayHours(p, y, I, d)]
  <2>1. daily = [d \in D |-> Hours!calculate_daily_metrics(p, y, d, I)]
    BY <1>1, <1>5 DEF Hours!Computed
  <2>2. \A d \in D : Hours!calculate_daily_metrics(p, y, d, I) = DayHours(p, y, I, d)
    BY <1>2, <1>3, <1>4, DayOfKinds
  <2>. QED
    BY <2>1, <2>2
<1>7. CASE p.type = "TASK_SHIFT_BASED" \/ k \notin Hours!Counted(p)
  <2>1. \A d \in DOMAIN daily : daily[d] = Hours!NoMetrics \/ daily[d][k] = Hours!Hidden
    BY <1>6, <1>7 DEF DayHours
  <2>2. sum = Hours!Hidden
    BY <1>5, <2>1, NothingSummed
  <2>. QED
    BY <1>1, <1>7, <2>2 DEF CountedRight
<1>8. CASE ~ (p.type = "TASK_SHIFT_BASED" \/ k \notin Hours!Counted(p))
  <2>1. PICK M : M = {t \in AllMinutes(I) : t \in OfKindAt(p, y, k) /\ DayOf(t) \in D}
    OBVIOUS
  <2>2. PICK n : n = Cardinality({DayOf(t) : t \in M})
    OBVIOUS
  <2>3. sum[1] = Cardinality(M) /\ 6 * sum[2] - sum[1] \in (-2 * n) .. (3 * n)
    <3>1. sum = Hours!_sum(daily, k)
      BY <1>5
    <3>2. p.type # "TASK_SHIFT_BASED"
      BY <1>8
    <3>3. k \in Hours!Counted(p)
      BY <1>8
    <3>4. D \subseteq Int
      BY <1>4
    <3>5. IsFiniteSet(D)
      BY <1>4
    <3>6. D # {}
      BY <1>4
    <3>7. Month(D, I, p, y, k) /\ Summed(D, I, p, y, k, M, n, sum)
      BY <1>2, <1>6, <2>1, <2>2, <3>1, <3>2, <3>3, <3>4, <3>5, <3>6 DEF Month, Summed
    <3>. QED
      BY <3>7, MonthSummed
  <2>4. Hours!OfKind(k, Hours!Minutes(source)) = M
    BY <1>1, <2>1, KindsAgree
  <2>5. Hours!Cardinality(M) = Cardinality(M) /\ Hours!Cardinality({Hours!DayOf(t) : t \in M}) = n
    BY <2>2, HoursCardinality DEF Hours!DayOf, Hours!DayMinutes, DayOf, DayMinutes
  <2>. QED
    BY <1>1, <1>8, <2>3, <2>4, <2>5 DEF CountedRight
<1>. QED
  BY <1>7, <1>8

\* The credits of the days of a month.
Credits ==
  [d \in Hours!_month_range(input.year, input.month) |->
     Hours!calculate_day_status_metrics(profile, IF d \in DOMAIN input.status THEN input.status[d] ELSE "")]

CreditedRight(k, sum) ==
  LET days == {d \in DOMAIN input.status \cap Hours!_month_range(input.year, input.month) : input.status[d] = k}
  IN  sum = IF profile.type = "TASK_SHIFT_BASED" \/ days = {} THEN Hours!Hidden
            ELSE <<480 * Hours!Cardinality(days), 80 * Hours!Cardinality(days)>>

LEMMA SummedCredits ==
  ASSUME input \in Cases, NEW k \in Hours!CreditedStatuses, NEW sum, sum = Hours!_sum(Credits, k)
  PROVE  CreditedRight(k, sum)
<1>1. PICK D, st : D = Hours!_month_range(input.year, input.month) /\ st = input.status
  OBVIOUS
<1>2. PICK days : days = {d \in DOMAIN st \cap D : st[d] = k}
  OBVIOUS
<1>3. IsFiniteSet(days)
  <2>1. input.year \in Nat /\ input.month \in 1 .. 12
    BY HoursAssumption DEF Hours!CasesAssumption
  <2>2. PICK y, m : y = input.year /\ m = input.month
    OBVIOUS
  <2>3. IsFiniteSet(D)
    BY <1>1, <2>1, <2>2, MonthDays
  <2>. QED
    BY <1>2, <2>3, FS_Subset
<1>4. PICK daily : daily = Credits
  OBVIOUS
<1>5. ASSUME NEW d \in D
      PROVE  /\ daily[d] # Hours!NoMetrics
             /\ daily[d][k] = IF profile.type # "TASK_SHIFT_BASED" /\ d \in days THEN <<480, 80>> ELSE <<>>
  <2>1. PICK status : status = IF d \in DOMAIN st THEN st[d] ELSE ""
    OBVIOUS
  <2>2. daily[d] = [j \in Hours!CreditedStatuses |->
          IF profile.type # "TASK_SHIFT_BASED" /\ status = j THEN Hours!metric_value(480) ELSE Hours!Hidden]
    BY <1>1, <1>4, <2>1 DEF Credits, Hours!calculate_day_status_metrics
  <2>3. Hours!metric_value(480) = <<480, 80>>
    BY DEF Hours!metric_value, Hours!round_minutes_to_tenths
  <2>4. status = k <=> d \in days
    BY <1>2, <2>1 DEF Hours!CreditedStatuses
  <2>5. "SICKNESS" \in DOMAIN daily[d] /\ "SICKNESS" \notin DOMAIN Hours!NoMetrics
    BY <2>2 DEF Hours!CreditedStatuses, Hours!NoMetrics
  <2>6. daily[d][k] = IF profile.type # "TASK_SHIFT_BASED" /\ d \in days THEN <<480, 80>> ELSE <<>>
    BY <2>2, <2>3, <2>4 DEF Hours!Hidden
  <2>. QED
    BY <2>5, <2>6
<1>6. DOMAIN daily = D
  BY <1>1, <1>4 DEF Credits
<1>7. CASE profile.type = "TASK_SHIFT_BASED" \/ days = {}
  <2>1. \A d \in DOMAIN daily : daily[d] = Hours!NoMetrics \/ daily[d][k] = Hours!Hidden
    BY <1>5, <1>6, <1>7 DEF Hours!Hidden
  <2>2. sum = Hours!Hidden
    BY <1>4, <2>1, NothingSummed
  <2>. QED
    BY <1>1, <1>2, <1>7, <2>2 DEF CreditedRight
<1>8. CASE ~ (profile.type = "TASK_SHIFT_BASED" \/ days = {})
  <2>1. <<480, 80>> # <<>>
    OBVIOUS
  <2>2. {d \in DOMAIN daily : daily[d] # Hours!NoMetrics /\ daily[d][k] # Hours!Hidden} = days
    BY <1>2, <1>5, <1>6, <1>8, <2>1 DEF Hours!Hidden
  <2>3. PICK f, g : f = [d \in days |-> daily[d][k][1]] /\ g = [d \in days |-> daily[d][k][2]]
    OBVIOUS
  <2>4. sum = <<Hours!SumFunction(f), Hours!SumFunction(g)>>
    BY <1>4, <1>8, <2>2, <2>3 DEF Hours!_sum
  <2>5. \A d \in days : f[d] = 480 /\ g[d] = 80
    BY <1>2, <1>5, <1>8, <2>3
  <2>6. PICK a \in {80, 480}, b \in {80, 480} : a = 480 /\ b = 80
    OBVIOUS
  <2>7. SumFunctionOnSet(f, days) = a * Cardinality(days)
    BY <1>3, <2>5, <2>6, SumOfEqual
  <2>8. SumFunctionOnSet(g, days) = b * Cardinality(days)
    BY <1>3, <2>5, <2>6, SumOfEqual
  <2>9. Hours!SumFunction(f) = SumFunctionOnSet(f, days) /\ Hours!SumFunction(g) = SumFunctionOnSet(g, days)
    BY <2>3, HoursSum
  <2>10. sum = <<480 * Hours!Cardinality(days), 80 * Hours!Cardinality(days)>>
    BY <2>4, <2>6, <2>7, <2>8, <2>9, HoursCardinality
  <2>. QED
    BY <1>1, <1>2, <1>8, <2>10 DEF CreditedRight
<1>. QED
  BY <1>7, <1>8

-----------------------------------------------------------------------------
(* Easter. *)

\* A sum does not depend on the order of its elements.
LEMMA SumWithout ==
  ASSUME NEW S, IsFiniteSet(S), NEW f, \A x \in S : f[x] \in Int, NEW x \in S
  PROVE  SumFunctionOnSet(f, S) = f[x] + SumFunctionOnSet(f, S \ {x})
<1>. DEFINE Right(s) == \A z \in s : SumFunctionOnSet(f, s) = f[z] + SumFunctionOnSet(f, s \ {z})
            Bad == {n \in Nat : \E s \in SUBSET S : Cardinality(s) = n /\ ~ Right(s)}
<1>0. \A s \in SUBSET S : IsFiniteSet(s) /\ Cardinality(s) \in Nat
  BY FS_Subset, FS_CardinalityType
<1>1. Bad = {}
  <2>. SUFFICES ASSUME Bad # {} PROVE FALSE
    OBVIOUS
  <2>1. PICK m : m = Min(Bad)
    OBVIOUS
  <2>2. m \in Bad /\ \A n \in Bad : m <= n
    BY <2>1, MinOfNat
  <2>3. PICK s \in SUBSET S : Cardinality(s) = m /\ ~ Right(s)
    BY <2>2
  <2>4. PICK z \in s : SumFunctionOnSet(f, s) # f[z] + SumFunctionOnSet(f, s \ {z})
    BY <2>3
  <2>5. PICK p : p = Picked(s)
    OBVIOUS
  <2>6. p \in s /\ IsFiniteSet(s) /\ m \in Nat
    BY <1>0, <2>2, <2>5, PickedSmaller
  <2>7. SumFunctionOnSet(f, s) = f[p] + SumFunctionOnSet(f, s \ {p})
    BY <2>4, <2>5, <2>6, SumStep
  <2>8. z # p
    BY <2>4, <2>7
  <2>9. ASSUME NEW v \in s PROVE Right(s \ {v})
    <3>1. PICK t : t = s \ {v}
      OBVIOUS
    <3>2. Cardinality(t) = m - 1 /\ t \in SUBSET S
      BY <2>3, <2>6, <3>1, FS_RemoveElement
    <3>3. Cardinality(t) \notin Bad /\ Cardinality(t) \in Nat
      BY <1>0, <2>2, <2>6, <3>2
    <3>4. Right(t)
      BY <3>2, <3>3
    <3>. QED
      BY <3>1, <3>4
  <2>10. PICK r : r = (s \ {p}) \ {z} /\ r = (s \ {z}) \ {p}
    OBVIOUS
  <2>11. SumFunctionOnSet(f, s \ {p}) = f[z] + SumFunctionOnSet(f, r)
    BY <2>6, <2>8, <2>9, <2>10
  <2>12. SumFunctionOnSet(f, s \ {z}) = f[p] + SumFunctionOnSet(f, r)
    BY <2>6, <2>8, <2>9, <2>10
  <2>13. f[p] \in Int /\ f[z] \in Int /\ SumFunctionOnSet(f, r) \in Int
    <3>1. r \in SUBSET S /\ IsFiniteSet(r) /\ \A v \in r : f[v] \in Int
      BY <1>0, <2>10
    <3>. QED
      BY <2>6, <3>1, SumOfIntegers
  <2>. QED
    BY <2>4, <2>7, <2>11, <2>12, <2>13
<1>2. Right(S)
  BY <1>0, <1>1
<1>. QED
  BY <1>2

LEMMA SumTwo ==
  ASSUME NEW f, f[1] \in Int, f[2] \in Int
  PROVE  SumFunctionOnSet(f, {1, 2}) = f[1] + f[2]
<1>1. SumFunctionOnSet(f, {}) = 0
  BY SumStep, FS_EmptySet
<1>2. PICK A, B : A = {1} /\ B = {1, 2}
  OBVIOUS
<1>3. IsFiniteSet(A) /\ IsFiniteSet(B)
  <2>1. IsFiniteSet(1 .. 2)
    <3>1. PICK lo \in Int, hi \in Int : lo = 1 /\ hi = 2
      OBVIOUS
    <3>2. IsFiniteSet(lo .. hi)
      BY FS_Interval
    <3>. QED
      BY <3>1, <3>2
  <2>2. A \in SUBSET (1 .. 2) /\ B \in SUBSET (1 .. 2)
    BY <1>2
  <2>. QED
    BY <2>1, <2>2, FS_Subset
<1>4. A \ {1} = {} /\ B \ {2} = A /\ 1 \in A /\ 2 \in B
  BY <1>2
<1>5. SumFunctionOnSet(f, A) = f[1] + SumFunctionOnSet(f, A \ {1})
  BY <1>2, <1>3, <1>4, SumWithout
<1>6. SumFunctionOnSet(f, B) = f[2] + SumFunctionOnSet(f, B \ {2})
  BY <1>2, <1>3, <1>4, SumWithout
<1>7. SumFunctionOnSet(f, A) = f[1] + 0
  BY <1>1, <1>4, <1>5
<1>8. SumFunctionOnSet(f, B) = f[2] + (f[1] + 0)
  BY <1>4, <1>6, <1>7
<1>9. f[2] + (f[1] + 0) = f[1] + f[2]
  OBVIOUS
<1>. QED
  BY <1>2, <1>8, <1>9

LEMMA SumThree ==
  ASSUME NEW f, f[1] \in Int, f[2] \in Int, f[3] \in Int
  PROVE  SumFunctionOnSet(f, {1, 2, 3}) = f[1] + f[2] + f[3]
<1>1. SumFunctionOnSet(f, {1, 2}) = f[1] + f[2]
  BY SumTwo
<1>2. PICK C : C = {1, 2, 3}
  OBVIOUS
<1>3. IsFiniteSet(C)
  <2>1. IsFiniteSet(1 .. 3)
    <3>1. PICK lo \in Int, hi \in Int : lo = 1 /\ hi = 3
      OBVIOUS
    <3>2. IsFiniteSet(lo .. hi)
      BY FS_Interval
    <3>. QED
      BY <3>1, <3>2
  <2>2. C \in SUBSET (1 .. 3)
    BY <1>2
  <2>. QED
    BY <2>1, <2>2, FS_Subset
<1>4. C \ {3} = {1, 2} /\ 3 \in C
  BY <1>2
<1>5. SumFunctionOnSet(f, C) = f[3] + SumFunctionOnSet(f, C \ {3})
  BY <1>2, <1>3, <1>4, SumWithout
<1>6. SumFunctionOnSet(f, C) = f[3] + (f[1] + f[2])
  BY <1>1, <1>4, <1>5
<1>7. f[3] + (f[1] + f[2]) = f[1] + f[2] + f[3]
  OBVIOUS
<1>. QED
  BY <1>2, <1>6, <1>7

\* The last day of February.
FebruaryEnd(y) ==
  365 * (y - 1) + ((y - 1) \div 4) - ((y - 1) \div 100) + ((y - 1) \div 400) + 31 + Hours!DaysIn(y, 2)

\* The first quarter: January and March have 31 days.
LEMMA SpringOrdinals ==
  ASSUME NEW y \in Nat
  PROVE  /\ FebruaryEnd(y) \in Int
         /\ \A d \in Int : /\ Hours!Ordinal(y, 3, d) = FebruaryEnd(y) + d
                          /\ Hours!Ordinal(y, 4, d) = FebruaryEnd(y) + 31 + d
<1>1. PICK q \in Int : q = 365 * (y - 1) + ((y - 1) \div 4) - ((y - 1) \div 100) + ((y - 1) \div 400)
  OBVIOUS
<1>2. PICK w \in Int : w = Hours!DaysIn(y, 2)
  BY DEF Hours!DaysIn
<1>3. PICK f, g : f = [k \in 1 .. 3 - 1 |-> Hours!DaysIn(y, k)] /\ g = [k \in 1 .. 4 - 1 |-> Hours!DaysIn(y, k)]
  OBVIOUS
<1>4. DOMAIN f = {1, 2} /\ f[1] = 31 /\ f[2] = w
  BY <1>2, <1>3 DEF Hours!DaysIn
<1>5. DOMAIN g = {1, 2, 3} /\ g[1] = 31 /\ g[2] = w /\ g[3] = 31
  BY <1>2, <1>3 DEF Hours!DaysIn
<1>6. Hours!SumFunction(f) = 31 + w
  <2>2. SumFunctionOnSet(f, {1, 2}) = f[1] + f[2]
    BY <1>4, SumTwo
  <2>. QED
    BY <1>4, <2>2, HoursSum
<1>7. Hours!SumFunction(g) = 62 + w
  <2>1. g[1] \in Int /\ g[2] \in Int /\ g[3] \in Int
    BY <1>5
  <2>2. SumFunctionOnSet(g, {1, 2, 3}) = g[1] + g[2] + g[3]
    BY <2>1, SumThree
  <2>. QED
    BY <1>5, <2>2, HoursSum
<1>8. \A d : Hours!Ordinal(y, 3, d) = q + (31 + w) + d
  BY <1>1, <1>3, <1>6 DEF Hours!Ordinal
<1>9. \A d : Hours!Ordinal(y, 4, d) = q + (62 + w) + d
  BY <1>1, <1>3, <1>7 DEF Hours!Ordinal
<1>10. PICK b \in Int : b = q + 31 + w
  OBVIOUS
<1>11. \A d \in Int : Hours!Ordinal(y, 3, d) = b + d /\ Hours!Ordinal(y, 4, d) = b + 31 + d
  BY <1>8, <1>9, <1>10
<1>12. b = FebruaryEnd(y)
  BY <1>1, <1>2, <1>10 DEF FebruaryEnd
<1>. QED
  BY <1>11, <1>12

\* A year by its cycle of 400 years, its century in it, its cycle of four years in
\* the century and its place in that.
YearParts(y, q, s, u, v) ==
  /\ q \in Nat /\ s \in 0 .. 3 /\ u \in 0 .. 24 /\ v \in 0 .. 3
  /\ y = 400 * q + 100 * s + 4 * u + v

LEMMA YearHasParts ==
  ASSUME NEW y \in Nat
  PROVE  \E q, s, u, v : YearParts(y, q, s, u, v)
<1>1. PICK q \in Nat, r \in 0 .. 399 : y = 400 * q + r
  <2>1. y \div 400 \in Nat /\ y % 400 \in 0 .. 399 /\ y = 400 * (y \div 400) + (y % 400)
    OBVIOUS
  <2>. QED
    BY <2>1
<1>2. PICK s \in 0 .. 3, c \in 0 .. 99 : r = 100 * s + c
  <2>1. r \div 100 \in 0 .. 3 /\ r % 100 \in 0 .. 99 /\ r = 100 * (r \div 100) + (r % 100)
    OBVIOUS
  <2>. QED
    BY <2>1
<1>3. PICK u \in 0 .. 24, v \in 0 .. 3 : c = 4 * u + v
  <2>1. c \div 4 \in 0 .. 24 /\ c % 4 \in 0 .. 3 /\ c = 4 * (c \div 4) + (c % 4)
    OBVIOUS
  <2>. QED
    BY <2>1
<1>4. y = 400 * q + 100 * s + 4 * u + v
  BY <1>1, <1>2, <1>3
<1>5. YearParts(y, q, s, u, v)
  BY <1>4 DEF YearParts
<1>. QED
  BY <1>5, Zenon

LEMMA YearDivisions ==
  ASSUME NEW y \in Nat, NEW q, NEW s, NEW u, NEW v, YearParts(y, q, s, u, v)
  PROVE  /\ y \div 100 = 4 * q + s /\ y % 100 = 4 * u + v /\ y % 4 = v /\ y % 400 = 100 * s + 4 * u + v
         /\ (y - 1) \div 4 = 100 * q + 25 * s + u - (IF v = 0 THEN 1 ELSE 0)
         /\ (y - 1) \div 100 = 4 * q + s - (IF u = 0 /\ v = 0 THEN 1 ELSE 0)
         /\ (y - 1) \div 400 = q - (IF s = 0 /\ u = 0 /\ v = 0 THEN 1 ELSE 0)
<1>1. /\ q \in Nat /\ s \in 0 .. 3 /\ u \in 0 .. 24 /\ v \in 0 .. 3
      /\ y = 400 * q + 100 * s + 4 * u + v
  BY DEF YearParts
<1>2. y \div 100 = 4 * q + s /\ y % 100 = 4 * u + v
  BY <1>1
<1>3. y % 4 = v /\ y % 400 = 100 * s + 4 * u + v
  BY <1>1
<1>4. (y - 1) \div 4 = 100 * q + 25 * s + u - (IF v = 0 THEN 1 ELSE 0)
  BY <1>1
<1>5. (y - 1) \div 100 = 4 * q + s - (IF u = 0 /\ v = 0 THEN 1 ELSE 0)
  BY <1>1
<1>6. (y - 1) \div 400 = q - (IF s = 0 /\ u = 0 /\ v = 0 THEN 1 ELSE 0)
  BY <1>1
<1>. QED
  BY <1>2, <1>3, <1>4, <1>5, <1>6

\* The weekday of the day before the first of March.
LEMMA SpringWeekday ==
  ASSUME NEW y \in Nat, NEW q, NEW s, NEW u, NEW v, YearParts(y, q, s, u, v)
  PROVE  \E w \in Int : FebruaryEnd(y) = 7 * w - 5 - 2 * s - 2 * u + v
<1>1. /\ q \in Nat /\ s \in 0 .. 3 /\ u \in 0 .. 24 /\ v \in 0 .. 3
      /\ y = 400 * q + 100 * s + 4 * u + v
  BY DEF YearParts
<1>2. PICK a \in Int, b \in Int, c \in Int : a = (y - 1) \div 4 /\ b = (y - 1) \div 100 /\ c = (y - 1) \div 400
  OBVIOUS
<1>0. /\ a = 100 * q + 25 * s + u - (IF v = 0 THEN 1 ELSE 0)
      /\ b = 4 * q + s - (IF u = 0 /\ v = 0 THEN 1 ELSE 0)
      /\ c = q - (IF s = 0 /\ u = 0 /\ v = 0 THEN 1 ELSE 0)
  BY <1>2, YearDivisions
<1>3. Hours!Leap(y) <=> (v = 0 /\ (~ (u = 0) \/ s = 0))
  <2>1. y % 4 = v /\ y % 100 = 4 * u + v /\ y % 400 = 100 * s + 4 * u + v
    BY YearDivisions
  <2>. QED
    BY <1>1, <2>1 DEF Hours!Leap
<1>4. PICK f \in Int : f = Hours!DaysIn(y, 2) /\ f = 28 + (IF v = 0 /\ (~ (u = 0) \/ s = 0) THEN 1 ELSE 0)
  BY <1>3 DEF Hours!DaysIn
<1>5. a - b + c + f = 97 * q + 24 * s + u + 28
  BY <1>0, <1>1, <1>4
<1>6. PICK w \in Int : w = 20871 * q + 5218 * s + 209 * u + 52 * v - 43
  BY <1>1
<1>7. 365 * (y - 1) + a - b + c + 31 + f = 7 * w - 5 - 2 * s - 2 * u + v
  BY <1>1, <1>4, <1>5, <1>6
<1>8. FebruaryEnd(y) = 7 * w - 5 - 2 * s - 2 * u + v
  BY <1>2, <1>4, <1>7 DEF FebruaryEnd
<1>. QED
  BY <1>8

\* Two forms of the correction for the moon.
LEMMA MoonCorrection ==
  ASSUME NEW b \in Nat
  PROVE  (b + 1 - ((b + 8) \div 25)) \div 3 = (8 * b + 13) \div 25
<1>1. PICK q \in Nat, r \in 0 .. 24 : b = 25 * q + r
  <2>1. b \div 25 \in Nat /\ b % 25 \in 0 .. 24 /\ b = 25 * (b \div 25) + (b % 25)
    OBVIOUS
  <2>. QED
    BY <2>1
<1>2. PICK z \in 0 .. 1 : z = IF r >= 17 THEN 1 ELSE 0
  OBVIOUS
<1>3. (b + 8) \div 25 = q + z
  BY <1>1, <1>2
<1>4. (b + 1 - (q + z)) \div 3 = 8 * q + ((r + 1 - z) \div 3)
  BY <1>1, <1>2
<1>5. (8 * b + 13) \div 25 = 8 * q + ((8 * r + 13) \div 25)
  BY <1>1
<1>6. (r + 1 - z) \div 3 = (8 * r + 13) \div 25
  BY <1>2
<1>. QED
  BY <1>3, <1>4, <1>5, <1>6

\* The age of the moon and the epact are complements.
Moon(a, z, h, e) ==
  a \in 0 .. 18 /\ z \in Int /\ h = (19 * a + z + 15) % 30 /\ e = (11 * a + 38 - z) % 30

LEMMA MoonAndEpact ==
  ASSUME NEW a, NEW z, NEW h, NEW e, Moon(a, z, h, e)
  PROVE  h \in 0 .. 29 /\ e = IF h <= 23 THEN 23 - h ELSE 53 - h
<1>0. a \in 0 .. 18 /\ z \in Int /\ h = (19 * a + z + 15) % 30 /\ e = (11 * a + 38 - z) % 30
  BY DEF Moon
<1>. USE <1>0
<1>1. PICK k \in Int : 19 * a + z + 15 = 30 * k + h /\ h \in 0 .. 29
  <2>1. PICK x \in Int : x = 19 * a + z + 15
    OBVIOUS
  <2>2. x \div 30 \in Int /\ x % 30 \in 0 .. 29 /\ x = 30 * (x \div 30) + (x % 30)
    OBVIOUS
  <2>. QED
    BY <2>1, <2>2
<1>2. 11 * a + 38 - z = 30 * (a - k) + 53 - h
  BY <1>1
<1>3. PICK j \in Int : j = a - k
  BY <1>1
<1>4. (30 * j + 53 - h) % 30 = IF h <= 23 THEN 23 - h ELSE 53 - h
  BY <1>1
<1>. QED
  BY <1>1, <1>2, <1>3, <1>4

\* The Sunday after the full moon, with the exceptions of both rules.
Sunday(a, h, l, b, w, e, epact, full, m) ==
  /\ a \in 0 .. 18 /\ h \in 0 .. 29 /\ l \in 0 .. 6 /\ b \in Int /\ w \in Int
  /\ b + 22 + h + l = 7 * w
  /\ e = (IF h <= 23 THEN 23 - h ELSE 53 - h)
  /\ epact = (IF (e = 25 /\ a + 1 > 11) \/ e = 24 THEN e + 1 ELSE e)
  /\ full = (IF 44 - epact < 21 THEN 74 - epact ELSE 44 - epact)
  /\ m = (a + 11 * h + 22 * l) \div 451

LEMMA SundayAfter ==
  ASSUME NEW a, NEW h, NEW l, NEW b, NEW w, NEW e, NEW epact, NEW full, NEW m,
         Sunday(a, h, l, b, w, e, epact, full, m)
  PROVE  /\ m \in 0 .. 1
         /\ b + 1 + full + ((6 - ((b + 1 + full + 6) % 7)) % 7) = b + h + l + 22 - 7 * m
<1>0. /\ a \in 0 .. 18 /\ h \in 0 .. 29 /\ l \in 0 .. 6 /\ b \in Int /\ w \in Int
      /\ b + 22 + h + l = 7 * w
      /\ e = (IF h <= 23 THEN 23 - h ELSE 53 - h)
      /\ epact = (IF (e = 25 /\ a + 1 > 11) \/ e = 24 THEN e + 1 ELSE e)
      /\ full = (IF 44 - epact < 21 THEN 74 - epact ELSE 44 - epact)
      /\ m = (a + 11 * h + 22 * l) \div 451
  BY DEF Sunday
<1>. USE <1>0
<1>1. m = IF l = 6 /\ (h = 29 \/ (h = 28 /\ a >= 11)) THEN 1 ELSE 0
  OBVIOUS
<1>2. PICK z \in 0 .. 1 : z = IF h = 29 \/ (h = 28 /\ a >= 11) THEN 1 ELSE 0
  OBVIOUS
<1>3. full = 21 + h - z
  BY <1>2
<1>4. PICK x \in Int : x = b + 1 + full /\ x = 7 * w - l - z
  BY <1>2, <1>3
<1>5. (6 - ((x + 6) % 7)) % 7 = (l + z) % 7
  BY <1>2, <1>4
<1>6. (l + z) % 7 = l + z - 7 * m
  BY <1>1, <1>2
<1>7. x + (l + z - 7 * m) = b + h + l + 22 - 7 * m
  BY <1>1, <1>2, <1>3, <1>4
<1>8. x + ((6 - ((x + 6) % 7)) % 7) = b + h + l + 22 - 7 * m
  BY <1>5, <1>6, <1>7
<1>. QED
  BY <1>1, <1>4, <1>8

LEMMA EasterAgrees ==
  ASSUME NEW y \in Nat
  PROVE  Hours!_easter_sunday(y) = Hours!EasterByEpact(y)
<1>1. PICK q, s, u, v : YearParts(y, q, s, u, v)
  BY YearHasParts
<1>2. q \in Nat /\ s \in 0 .. 3 /\ u \in 0 .. 24 /\ v \in 0 .. 3
  BY <1>1 DEF YearParts
<1>3. PICK b \in Int :
        /\ b = FebruaryEnd(y)
        /\ \A d \in Int : Hours!Ordinal(y, 3, d) = b + d /\ Hours!Ordinal(y, 4, d) = b + 31 + d
  BY SpringOrdinals
<1>4. PICK w \in Int : b = 7 * w - 5 - 2 * s - 2 * u + v
  <2>1. PICK w \in Int : FebruaryEnd(y) = 7 * w - 5 - 2 * s - 2 * u + v
    BY <1>1, SpringWeekday
  <2>. QED
    BY <1>3, <2>1, Zenon
<1>5. PICK a \in 0 .. 18, B \in Nat, c \in 0 .. 99 : a = y % 19 /\ B = y \div 100 /\ c = y % 100
  <2>1. y % 19 \in 0 .. 18 /\ y \div 100 \in Nat /\ y % 100 \in 0 .. 99
    OBVIOUS
  <2>. QED
    BY <2>1, Zenon
<1>6. B = 4 * q + s /\ c = 4 * u + v
  BY <1>1, <1>5, YearDivisions
<1>7. B \div 4 = q /\ B % 4 = s /\ c \div 4 = u /\ c % 4 = v
  BY <1>2, <1>6
<1>8. PICK g \in Int : g = (B + 1 - ((B + 8) \div 25)) \div 3 /\ g = (8 * B + 13) \div 25
  BY MoonCorrection
<1>9. PICK z \in Int : z = B - q - g
  BY <1>2
<1>10. PICK h : h = (19 * a + z + 15) % 30
  OBVIOUS
<1>11. PICK e : e = (11 * a + 38 - z) % 30
  OBVIOUS
<1>12. h \in 0 .. 29 /\ e = IF h <= 23 THEN 23 - h ELSE 53 - h
  <2>1. Moon(a, z, h, e)
    BY <1>10, <1>11, Zenon DEF Moon
  <2>. QED
    BY <2>1, MoonAndEpact, Zenon
<1>13. PICK l \in 0 .. 6, k \in Int : l = (32 + 2 * s + 2 * u - h - v) % 7 /\ 32 + 2 * s + 2 * u - h - v = 7 * k + l
  <2>1. PICK x \in Int : x = 32 + 2 * s + 2 * u - h - v
    BY <1>2, <1>12
  <2>2. x \div 7 \in Int /\ x % 7 \in 0 .. 6 /\ x = 7 * (x \div 7) + (x % 7)
    OBVIOUS
  <2>. QED
    BY <2>1, <2>2
<1>14. PICK W \in Int : b + 22 + h + l = 7 * W
  <2>1. PICK W \in Int : W = w + 7 - k
    OBVIOUS
  <2>2. b + 22 + h + l = 7 * W
    BY <1>2, <1>12, <1>13, <1>4, <2>1
  <2>. QED
    BY <2>2
<1>15. PICK epact : epact = IF (e = 25 /\ a + 1 > 11) \/ e = 24 THEN e + 1 ELSE e
  OBVIOUS
<1>16. PICK full : full = IF 44 - epact < 21 THEN 74 - epact ELSE 44 - epact
  OBVIOUS
<1>17. PICK m : m = (a + 11 * h + 22 * l) \div 451
  OBVIOUS
<1>18. /\ m \in 0 .. 1
       /\ b + 1 + full + ((6 - ((b + 1 + full + 6) % 7)) % 7) = b + h + l + 22 - 7 * m
  <2>1. Sunday(a, h, l, b, W, e, epact, full, m)
    BY <1>12, <1>14, <1>15, <1>16, <1>17, Zenon DEF Sunday
  <2>. QED
    BY <2>1, SundayAfter
<1>19. Hours!_easter_sunday(y) = b + h + l + 22 - 7 * m
  <2>1. PICK n \in Int : n = (h + l + 114) - 7 * m
    BY <1>12, <1>18
  <2>2. (19 * a + B - (B \div 4) - g + 15) % 30 = h
    BY <1>5, <1>7, <1>9, <1>10
  <2>3. (32 + 2 * (B % 4) + 2 * (c \div 4) - h - (c % 4)) % 7 = l
    BY <1>7, <1>13
  <2>4. Hours!_easter_sunday(y) = Hours!Ordinal(y, n \div 31, (n % 31) + 1)
    <3>. DEFINE a1 == y % 19
                b1 == y \div 100
                c1 == y % 100
                g1 == (b1 + 1 - ((b1 + 8) \div 25)) \div 3
                h1 == (19 * a1 + b1 - (b1 \div 4) - g1 + 15) % 30
                l1 == (32 + 2 * (b1 % 4) + 2 * (c1 \div 4) - h1 - (c1 % 4)) % 7
                m1 == (a1 + 11 * h1 + 22 * l1) \div 451
                n1 == (h1 + l1 + 114) - 7 * m1
    <3>1. Hours!_easter_sunday(y) = Hours!Ordinal(y, n1 \div 31, (n1 % 31) + 1)
      BY DEF Hours!_easter_sunday
    <3>. HIDE DEF a1, b1, c1, g1, h1, l1, m1, n1
    <3>2. a1 = a /\ b1 = B /\ c1 = c
      BY <1>5 DEF a1, b1, c1
    <3>3. g1 = g
      BY <1>8, <3>2, Zenon DEF g1
    <3>4. h1 = h
      BY <2>2, <3>2, <3>3, Zenon DEF h1
    <3>5. l1 = l
      BY <2>3, <3>2, <3>4, Zenon DEF l1
    <3>6. m1 = m
      BY <1>17, <3>2, <3>4, <3>5, Zenon DEF m1
    <3>7. n1 = n
      BY <2>1, <3>4, <3>5, <3>6, Zenon DEF n1
    <3>. QED
      BY <3>1, <3>7, Zenon
  <2>5. n \in 107 .. 149
    BY <1>12, <1>18, <2>1
  <2>6. CASE n <= 123
    <3>1. n \div 31 = 3 /\ (n % 31) + 1 = n - 92
      BY <2>5, <2>6
    <3>2. Hours!Ordinal(y, 3, n - 92) = b + (n - 92)
      BY <1>3, <2>1
    <3>. QED
      BY <1>12, <1>18, <2>1, <2>4, <3>1, <3>2
  <2>7. CASE n > 123
    <3>1. n \div 31 = 4 /\ (n % 31) + 1 = n - 123
      BY <2>5, <2>7
    <3>2. Hours!Ordinal(y, 4, n - 123) = b + 31 + (n - 123)
      BY <1>3, <2>1
    <3>. QED
      BY <1>12, <1>18, <2>1, <2>4, <3>1, <3>2
  <2>. QED
    BY <2>1, <2>6, <2>7
<1>20. Hours!EasterByEpact(y) = b + 1 + full + ((6 - ((b + 1 + full + 6) % 7)) % 7)
  <2>1. (3 * (B + 1)) \div 4 - 12 = B - q - 12
    BY <1>2, <1>6
  <2>2. (8 * (B + 1) + 5) \div 25 - 5 = g - 5
    BY <1>8
  <2>3. (11 * (a + 1) + 20 + (g - 5) - (B - q - 12)) % 30 = e
    BY <1>2, <1>9, <1>11
  <2>4. Hours!Ordinal(y, 3, 1) = b + 1
    BY <1>3
  <2>. DEFINE golden == (y % 19) + 1
              century == (y \div 100) + 1
              skipped == ((3 * century) \div 4) - 12
              moon == ((8 * century + 5) \div 25) - 5
              e1 == (11 * golden + 20 + moon - skipped) % 30
              epact1 == IF (e1 = 25 /\ golden > 11) \/ e1 = 24 THEN e1 + 1 ELSE e1
              full1 == IF 44 - epact1 < 21 THEN 74 - epact1 ELSE 44 - epact1
              after == Hours!Ordinal(y, 3, 1) + full1
  <2>5. Hours!EasterByEpact(y) = after + ((6 - Hours!weekday(after)) % 7)
    BY DEF Hours!EasterByEpact
  <2>. HIDE DEF golden, century, skipped, moon, e1, epact1, full1, after
  <2>6. golden = a + 1 /\ century = B + 1
    BY <1>5 DEF golden, century
  <2>7. skipped = B - q - 12 /\ moon = g - 5
    BY <2>1, <2>2, <2>6, Zenon DEF skipped, moon
  <2>8. e1 = e
    BY <2>3, <2>6, <2>7, Zenon DEF e1
  <2>9. epact1 = epact
    BY <1>15, <2>6, <2>8, Zenon DEF epact1
  <2>10. full1 = full
    BY <1>16, <2>9, Zenon DEF full1
  <2>11. after = b + 1 + full
    BY <2>4, <2>10, Zenon DEF after
  <2>. QED
    BY <2>5, <2>11, Zenon DEF Hours!weekday
<1>. QED
  BY <1>18, <1>19, <1>20

-----------------------------------------------------------------------------
(* The stored rows. *)

\* A day without intervals has no minutes of any kind.
LEMMA EmptyDay ==
  ASSUME NEW p, NEW y, NEW d, NEW I, \A i \in I : \E e : Inside(i, e), ~ \E i \in I : Inside(i, d)
  PROVE  Hours!calculate_daily_metrics(p, y, d, I) = Hours!empty_daily_metrics(p)
<1>1. Parts(I, d) = {}
  BY PartsOfDay
<1>2. /\ Hours!SumFunction([i \in {} |-> i[2] - i[1]]) = 0
      /\ Hours!AfternoonMinutes(p, {}, d) = 0
      /\ Hours!NightMinutes({}, d) = 0
  BY NothingToSum DEF Hours!AfternoonMinutes, Hours!NightMinutes
<1>. QED
  BY <1>1, <1>2 DEF Parts, Hours!calculate_daily_metrics, Hours!empty_daily_metrics, Hours!Keys

\* The rows are what the calculation returns, or none where there is nothing.
Stored ==
  [source \in Hours!Sources |->
     IF Hours!month_summary_source_presence(source) /\ profile.type # "TASK_SHIFT_BASED"
     THEN Hours!Computed(source) ELSE <<>>]

LEMMA ReadBack ==
  ASSUME input \in Cases, rows = Stored, NEW source \in Hours!Sources
  PROVE  [d \in Hours!_month_range(input.year, input.month) |-> Hours!_stored_metrics(source, d)]
           = Hours!Computed(source)
<1>. DEFINE days == Hours!_month_range(input.year, input.month)
<1>1. PICK I : I = Hours!Intervals(source)
  OBVIOUS
<1>2. \A i \in I : \E e \in Hours!Facts(source) : Inside(i, e)
  BY <1>1, IntervalsInside
<1>. SUFFICES ASSUME NEW d \in days
              PROVE  Hours!_stored_metrics(source, d)
                       = Hours!calculate_daily_metrics(profile, input.year, d, Hours!Intervals(source))
  BY DEF Hours!Computed
<1>3. rows[source] = IF Hours!month_summary_source_presence(source) /\ profile.type # "TASK_SHIFT_BASED"
                     THEN Hours!Computed(source) ELSE <<>>
  BY DEF Stored
<1>4. CASE Hours!month_summary_source_presence(source) /\ profile.type # "TASK_SHIFT_BASED"
  BY <1>3, <1>4 DEF Hours!_stored_metrics, Hours!Computed
<1>5. CASE profile.type = "TASK_SHIFT_BASED"
  <2>1. DOMAIN rows[source] = {}
    BY <1>3, <1>5
  <2>. QED
    BY <1>5, <2>1 DEF Hours!_stored_metrics, Hours!empty_daily_metrics, Hours!calculate_daily_metrics
<1>6. CASE ~ Hours!month_summary_source_presence(source)
  <2>1. DOMAIN rows[source] = {}
    BY <1>3, <1>6
  <2>2. Hours!_stored_metrics(source, d) = Hours!empty_daily_metrics(profile)
    BY <2>1 DEF Hours!_stored_metrics
  <2>3. d \notin Hours!Facts(source)
    BY <1>6 DEF Hours!month_summary_source_presence
  <2>4. ~ \E i \in I : Inside(i, d)
    <3>1. ASSUME NEW i \in I, Inside(i, d), NEW e, Inside(i, e)
          PROVE  e = d
      BY <3>1, OneDay
    <3>. QED
      BY <1>2, <2>3, <3>1
  <2>5. PICK p, y : p = profile /\ y = input.year
    OBVIOUS
  <2>6. Hours!calculate_daily_metrics(p, y, d, I) = Hours!empty_daily_metrics(p)
    BY <1>2, <2>4, EmptyDay
  <2>. QED
    BY <1>1, <2>2, <2>5, <2>6
<1>. QED
  BY <1>4, <1>5, <1>6

\* Nothing but the recorded month and the profile goes into the rows.
LEMMA StoredSame ==
  ASSUME input' = input, profile' = profile
  PROVE  Stored' = Stored /\ \A source \in Hours!Sources : Hours!Computed(source)' = Hours!Computed(source)
<1>1. \A source \in Hours!Sources : Hours!Intervals(source)' = Hours!Intervals(source)
  BY DEF Hours!Intervals
<1>2. \A source \in Hours!Sources : Hours!Computed(source)' = Hours!Computed(source)
  BY <1>1 DEF Hours!Computed
<1>3. \A source \in Hours!Sources :
        Hours!month_summary_source_presence(source)' = Hours!month_summary_source_presence(source)
  BY DEF Hours!month_summary_source_presence, Hours!Facts, Hours!RowDays, Hours!StatusDays
<1>. QED
  BY <1>2, <1>3 DEF Stored

\* The rows and what is shown come from the recorded month.
RowsStored ==
  part = "hours" =>
    /\ input \in Cases /\ profile \in Profiles
    /\ rows = Hours!Unsynced \/ rows = Stored
    /\ Hours!StoredAsComputed

LEMMA RowsStart == AllInit => RowsStored
BY DEF AllInit, RowsStored, Hours!Init, Hours!StoredAsComputed

LEMMA RowsKept == RowsStored /\ [AllNext]_allVars => RowsStored'
<1>. SUFFICES ASSUME RowsStored, [AllNext]_allVars, part' = "hours"
              PROVE  RowsStored'
  BY DEF RowsStored
<1>1. part = "hours" /\ ([Hours!Next]_hours)
  BY DEF AllNext, SplitPresence, AddBreaks, CountHours, allVars
<1>2. /\ input \in Cases /\ profile \in Profiles
      /\ rows = Hours!Unsynced \/ rows = Stored
      /\ Hours!StoredAsComputed
  BY <1>1 DEF RowsStored
<1>3. input' = input /\ profile' = profile
  BY <1>1 DEF hours, Hours!Next, Hours!sync_employment_month_metrics, Hours!build_month_summary
<1>4. Stored' = Stored /\ \A source \in Hours!Sources : Hours!Computed(source)' = Hours!Computed(source)
  BY <1>3, StoredSame
<1>5. CASE Hours!sync_employment_month_metrics
  <2>1. rows' = Stored /\ shown' = shown
    BY <1>5 DEF Hours!sync_employment_month_metrics, Stored
  <2>2. Hours!StoredAsComputed'
    BY <1>2, <1>4, <2>1 DEF Hours!StoredAsComputed
  <2>. QED
    BY <1>2, <1>3, <1>4, <2>1, <2>2 DEF RowsStored
<1>6. CASE Hours!build_month_summary
  <2>1. rows' = rows /\ rows = Stored
    BY <1>2, <1>6 DEF Hours!build_month_summary
  <2>2. shown'.days = [source \in Hours!Sources |->
                         [d \in Hours!_month_range(input.year, input.month) |-> Hours!_stored_metrics(source, d)]]
    BY <1>6 DEF Hours!build_month_summary
  <2>3. \A source \in Hours!Sources : shown'.days[source] = Hours!Computed(source)
    BY <1>2, <2>1, <2>2, ReadBack
  <2>4. Hours!StoredAsComputed'
    BY <1>4, <2>3 DEF Hours!StoredAsComputed
  <2>. QED
    BY <1>2, <1>3, <1>4, <2>1, <2>4 DEF RowsStored
<1>7. CASE UNCHANGED hours
  <2>1. rows' = rows /\ shown' = shown
    BY <1>7 DEF hours
  <2>2. Hours!StoredAsComputed'
    BY <1>2, <1>4, <2>1 DEF Hours!StoredAsComputed
  <2>. QED
    BY <1>2, <1>3, <1>4, <2>1, <2>2 DEF RowsStored
<1>. QED
  BY <1>1, <1>5, <1>6, <1>7 DEF Hours!Next

\* build_month_summaries reads from the rows sync_employment_month_metrics has written
\* what the calculation returns, day by day: for every month, also one without facts
\* and without rows, every set of times, every plan and every profile.
THEOREM RowsAreTheCalculation == AllSpec => []StoredAsComputed
<1>1. RowsStored => StoredAsComputed
  BY DEF RowsStored, StoredAsComputed
<1>. QED
  BY <1>1, RowsStart, RowsKept, PTL DEF AllSpec

-----------------------------------------------------------------------------
(* The summary. *)

HoursRight == part = "hours" => Hours!MatchesReference

LEMMA HoursRightKept == RowsStored /\ HoursRight /\ [AllNext]_allVars => HoursRight'
<1>. SUFFICES ASSUME RowsStored, HoursRight, [AllNext]_allVars, part' = "hours"
              PROVE  Hours!MatchesReference'
  BY DEF HoursRight
<1>1. part = "hours" /\ ([Hours!Next]_hours)
  BY DEF AllNext, SplitPresence, AddBreaks, CountHours, allVars
<1>2. /\ input \in Cases /\ profile \in Profiles
      /\ rows = Hours!Unsynced \/ rows = Stored
  BY <1>1 DEF RowsStored
<1>3. input' = input /\ profile' = profile
  BY <1>1 DEF hours, Hours!Next, Hours!sync_employment_month_metrics, Hours!build_month_summary
<1>4. \A source \in Hours!Sources, k \in Hours!Keys :
        Hours!OfKind(k, Hours!Minutes(source))' = Hours!OfKind(k, Hours!Minutes(source))
  BY <1>3 DEF Hours!OfKind, Hours!Minutes, Hours!Intervals
<1>5. CASE Hours!build_month_summary
  <2>1. rows = Stored
    BY <1>2, <1>5 DEF Hours!build_month_summary
  <2>2. \A source \in Hours!Sources, k \in Hours!Keys :
          shown'.sums[source][k] =
            Hours!_sum([d \in Hours!_month_range(input.year, input.month) |-> Hours!_stored_metrics(source, d)], k)
    BY <1>5 DEF Hours!build_month_summary
  <2>3. \A k \in Hours!CreditedStatuses : shown'.credits[k] = Hours!_sum(Credits, k)
    BY <1>5 DEF Hours!build_month_summary, Credits
  <2>4. ASSUME NEW source \in Hours!Sources, NEW k \in Hours!Keys
        PROVE  CountedRight(source, k, shown'.sums[source][k])
    <3>1. shown'.sums[source][k] = Hours!_sum(Hours!Computed(source), k)
      BY <1>2, <2>1, <2>2, ReadBack
    <3>2. PICK sum : sum = Hours!_sum(Hours!Computed(source), k)
      OBVIOUS
    <3>3. CountedRight(source, k, sum)
      BY <1>2, <3>2, SummedHours
    <3>. QED
      BY <3>1, <3>2, <3>3
  <2>5. Hours!HoursCounted'
    BY <1>3, <1>4, <2>4 DEF Hours!HoursCounted, CountedRight
  <2>6. ASSUME NEW k \in Hours!CreditedStatuses
        PROVE  CreditedRight(k, shown'.credits[k])
    <3>1. PICK sum : sum = Hours!_sum(Credits, k)
      OBVIOUS
    <3>2. CreditedRight(k, sum)
      BY <1>2, <3>1, SummedCredits
    <3>. QED
      BY <2>3, <3>1, <3>2
  <2>7. Hours!DaysCredited'
    BY <1>3, <2>6 DEF Hours!DaysCredited, CreditedRight
  <2>8. Hours!_easter_sunday(input.year) = Hours!EasterByEpact(input.year)
    <3>1. PICK y : y = input.year
      OBVIOUS
    <3>2. y \in Nat
      BY <1>2, <3>1, HoursAssumption DEF Hours!CasesAssumption
    <3>. QED
      BY <3>1, <3>2, EasterAgrees
  <2>9. (Hours!_easter_sunday(input.year) = Hours!EasterByEpact(input.year))'
    BY <1>3, <2>8
  <2>. QED
    BY <2>5, <2>7, <2>9 DEF Hours!MatchesReference
<1>6. CASE shown' = shown
  <2>1. Hours!MatchesReference
    BY <1>1 DEF HoursRight
  <2>2. Hours!HoursCounted => Hours!HoursCounted'
    BY <1>3, <1>4, <1>6 DEF Hours!HoursCounted
  <2>3. Hours!DaysCredited => Hours!DaysCredited'
    BY <1>3, <1>6 DEF Hours!DaysCredited
  <2>. QED
    BY <1>3, <1>6, <2>1, <2>2, <2>3 DEF Hours!MatchesReference
<1>. QED
  BY <1>1, <1>5, <1>6 DEF Hours!Next, Hours!sync_employment_month_metrics, hours

\* The hours of every month, by every kind, are its minutes counted one by one; their
\* tenths, rounded day by day, are off by at most half a tenth for every day with such
\* minutes; full days are credited with eight hours; and Easter, which decides two of
\* the holidays, is the Sunday after the full moon in every year.
THEOREM HoursAreCounted == AllSpec => []HoursRight
<1>1. AllInit => HoursRight
  BY DEF AllInit, HoursRight, Hours!Init, Hours!MatchesReference
<1>. QED
  BY <1>1, RowsStart, RowsKept, HoursRightKept, PTL DEF AllSpec

-----------------------------------------------------------------------------
(* The missing breaks.  The operators of MissingBreaks are those of         *)
(* TimeIntervals.                                                           *)

LEMMA MissingCardinality ==
  ASSUME NEW S
  PROVE  Missing!Cardinality(S) = Cardinality(S)
BY DEF Missing!Cardinality, Cardinality

LEMMA MissingFinite ==
  ASSUME NEW S
  PROVE  Missing!IsFiniteSet(S) <=> IsFiniteSet(S)
BY DEF Missing!IsFiniteSet, IsFiniteSet

LEMMA MissingPairs ==
  ASSUME NEW S
  PROVE  Missing!pair_event_rows(S) = pair_event_rows(S)
<1>1. \A t : Missing!DayOf(t) = DayOf(t)
  BY DEF Missing!DayOf, Missing!DayMinutes, DayOf, DayMinutes
<1>2. \A d : Missing!OfDay(S, d) = OfDay(S, d)
  BY <1>1 DEF Missing!OfDay, OfDay
<1>3. \A T : Missing!DayPairs(T) = DayPairs(T)
  BY MissingCardinality DEF Missing!DayPairs, DayPairs
<1>. QED
  BY <1>1, <1>2, <1>3 DEF Missing!pair_event_rows, pair_event_rows

LEMMA MissingSum ==
  ASSUME NEW f
  PROVE  Missing!SumFunction(f) = SumFunctionOnSet(f, DOMAIN f)
BY DEF Missing!SumFunction, Missing!SumFunctionOnSet, Missing!FoldFunctionOnSet, Missing!MapThenFoldSet,
       SumFunctionOnSet, FoldFunctionOnSet, MapThenFoldSet

LEMMA MissingBounds ==
  ASSUME NEW S
  PROVE  Missing!Min(S) = Min(S) /\ Missing!Max(S) = Max(S)
BY DEF Missing!Min, Min, Missing!Max, Max

LEMMA MissingCount ==
  ASSUME NEW d
  PROVE  Missing!break_count(d) = break_count(d)
<1>1. \A b : Missing!BreaksSuffice(d, b) <=> BreaksSuffice(d, b)
  BY DEF Missing!BreaksSuffice, BreaksSuffice, Missing!BreakMinutes, BreakMinutes, Missing!SegmentMinutes, SegmentMinutes
<1>2. (CHOOSE b \in 0 .. d : Missing!BreaksSuffice(d, b) /\ \A c \in 0 .. b - 1 : ~ Missing!BreaksSuffice(d, c))
        = (CHOOSE b \in 0 .. d : BreaksSuffice(d, b) /\ \A c \in 0 .. b - 1 : ~ BreaksSuffice(d, c))
  BY <1>1, Zenon
<1>3. PICK x : x = CHOOSE b \in 0 .. d : BreaksSuffice(d, b) /\ \A c \in 0 .. b - 1 : ~ BreaksSuffice(d, c)
  OBVIOUS
<1>4. x = CHOOSE b \in 0 .. d : Missing!BreaksSuffice(d, b) /\ \A c \in 0 .. b - 1 : ~ Missing!BreaksSuffice(d, c)
  BY <1>2, <1>3, Zenon
<1>5. break_count(d) = IF d <= 360 THEN 0 ELSE x
  BY <1>3 DEF break_count, SegmentMinutes
<1>6. Missing!break_count(d) = IF d <= 360 THEN 0 ELSE x
  BY <1>4 DEF Missing!break_count, Missing!SegmentMinutes
<1>. QED
  BY <1>5, <1>6

LEMMA MissingSessions ==
  ASSUME NEW I
  PROVE  Missing!Sessions(I) = Sessions(I)
<1>1. \A p : Missing!OpensSession(I, p) <=> OpensSession(I, p)
  BY DEF Missing!OpensSession, OpensSession, Missing!BreakMinutes, BreakMinutes
<1>2. \A p : Missing!SessionOf(I, p) = SessionOf(I, p)
  BY <1>1 DEF Missing!SessionOf, SessionOf
<1>. QED
  BY <1>1, <1>2 DEF Missing!Sessions, Sessions

LEMMA MissingOfSession ==
  ASSUME NEW s
  PROVE  /\ Missing!SessionStart(s) = SessionStart(s) /\ Missing!SessionEnd(s) = SessionEnd(s)
         /\ Missing!MissingMinutes(s) = MissingMinutes(s)
         /\ Missing!PauseCount(s) = PauseCount(s)
         /\ \A k : Missing!PauseLength(s, k) = PauseLength(s, k)
         /\ \A n : Missing!Roomy(s, n) = Roomy(s, n)
         /\ \A t, n : Missing!placement(s, t, n) = placement(s, t, n)
         /\ \A k : Missing!Pause(s, k) = Pause(s, k)
<1>1. Missing!SessionStart(s) = SessionStart(s) /\ Missing!SessionEnd(s) = SessionEnd(s)
  BY MissingBounds DEF Missing!SessionStart, SessionStart, Missing!SessionEnd, SessionEnd
<1>2. Missing!ExistingMinutes(s) = ExistingMinutes(s)
  BY <1>1, MissingCardinality DEF Missing!ExistingMinutes, ExistingMinutes
<1>3. Missing!MissingMinutes(s) = MissingMinutes(s)
  BY <1>1, <1>2, MissingCount DEF Missing!MissingMinutes, MissingMinutes, Missing!BreakMinutes, BreakMinutes
<1>4. Missing!PauseCount(s) = PauseCount(s)
  BY <1>3 DEF Missing!PauseCount, PauseCount, Missing!BreakMinutes, BreakMinutes
<1>5. \A k : Missing!PauseLength(s, k) = PauseLength(s, k)
  BY <1>3 DEF Missing!PauseLength, PauseLength, Missing!BreakMinutes, BreakMinutes
<1>6. \A n : Missing!Roomy(s, n) = Roomy(s, n)
  BY DEF Missing!Roomy, Roomy, Missing!Earliest, Earliest, Missing!Latest, Latest
<1>7. ASSUME NEW t, NEW n
      PROVE  Missing!placement(s, t, n) = placement(s, t, n)
  <2>1. PICK R : R = Roomy(s, n)
    OBVIOUS
  <2>2. PICK last : last = CHOOSE p \in R : \A q \in R : q[1] <= p[1]
    OBVIOUS
  <2>3. PICK hit : hit = {p \in R : p[1] + 1 <= t /\ t <= p[2] - n - 1}
    OBVIOUS
  <2>4. PICK c : c = Clamp(t, last[1] + 1, last[2] - n - 1)
    OBVIOUS
  <2>5. c = Missing!Clamp(t, last[1] + 1, last[2] - n - 1)
    BY <2>4 DEF Missing!Clamp, Clamp
  <2>6. placement(s, t, n) = IF hit # {} THEN t ELSE c
    BY <2>1, <2>2, <2>3, <2>4 DEF placement, Earliest, Latest
  <2>7. Missing!placement(s, t, n) = IF hit # {} THEN t ELSE c
    <3>1. R = Missing!Roomy(s, n)
      BY <1>6, <2>1
    <3>. QED
      BY <2>2, <2>3, <2>5, <3>1 DEF Missing!placement, Missing!Earliest, Missing!Latest
  <2>. QED
    BY <2>6, <2>7
<1>8. \A k : Missing!Pause(s, k) = Pause(s, k)
  BY <1>1, <1>5, <1>7 DEF Missing!Pause, Pause, Missing!SegmentMinutes, SegmentMinutes
<1>. QED
  BY <1>1, <1>3, <1>4, <1>5, <1>6, <1>7, <1>8

LEMMA MissingOfIntervals ==
  ASSUME NEW I, NEW lo, NEW hi
  PROVE  Missing!missing_break_event_groups(I, lo, hi) = missing_break_event_groups(I, lo, hi)
<1>1. PICK S : S = Sessions(I)
  OBVIOUS
<1>2. Missing!Sessions(I) = S
  BY <1>1, MissingSessions
<1>. DEFINE D(s) == /\ SessionEnd(s) > lo /\ SessionStart(s) < hi /\ MissingMinutes(s) > 0
                   /\ \A k \in 1 .. PauseCount(s) : Roomy(s, PauseLength(s, k)) # {}
            E(s) == /\ Missing!SessionEnd(s) > lo /\ Missing!SessionStart(s) < hi /\ Missing!MissingMinutes(s) > 0
                   /\ \A k \in 1 .. Missing!PauseCount(s) : Missing!Roomy(s, Missing!PauseLength(s, k)) # {}
            G(s) == [k \in 1 .. PauseCount(s) |-> Pause(s, k)]
            H(s) == [k \in 1 .. Missing!PauseCount(s) |-> Missing!Pause(s, k)]
<1>3. ASSUME NEW s
      PROVE  (D(s) <=> E(s)) /\ G(s) = H(s)
  <2>1. D(s) <=> E(s)
    BY MissingOfSession
  <2>2. G(s) = H(s)
    BY MissingOfSession
  <2>. QED
    BY <2>1, <2>2
<1>4. missing_break_event_groups(I, lo, hi) = {G(s) : s \in {r \in S : D(r)}}
  BY <1>1 DEF missing_break_event_groups
<1>5. Missing!missing_break_event_groups(I, lo, hi) = {H(s) : s \in {r \in S : E(r)}}
  BY <1>2 DEF Missing!missing_break_event_groups
<1>. HIDE DEF D, E, G, H
<1>. QED
  BY <1>3, <1>4, <1>5

-----------------------------------------------------------------------------
(* Intervals in the order of their starts. *)

Timeline(I, n) ==
  /\ Intervals(I, n) /\ IsFiniteSet(I)
  /\ \A p, q \in I : p # q => p[2] <= q[1] \/ q[2] <= p[1]

LEMMA TimesBounded ==
  ASSUME NEW S \in SUBSET Nat, IsFiniteSet(S)
  PROVE  \E n \in Nat : \A x \in S : x <= n
<1>. DEFINE Good == {s \in SUBSET S : \E n \in Nat : \A x \in s : x <= n}
<1>1. {} \in Good
  BY 0 \in Nat
<1>2. ASSUME NEW s \in SUBSET S, s # {}, s \ {Picked(s)} \in Good
      PROVE  s \in Good
  <2>1. PICK n \in Nat : \A x \in s \ {Picked(s)} : x <= n
    BY <1>2
  <2>2. Picked(s) \in s
    BY <1>2 DEF Picked
  <2>3. PICK a \in Nat : a = Picked(s)
    BY <2>2
  <2>4. CASE a <= n
    <3>1. \A x \in s : x <= n
      BY <2>1, <2>3, <2>4
    <3>. QED
      BY <3>1
  <2>5. CASE n < a
    <3>1. \A x \in s : x <= a
      BY <2>1, <2>3, <2>5
    <3>. QED
      BY <3>1
  <2>. QED
    BY <2>4, <2>5
<1>3. S \in Good
  <2>. HIDE DEF Good
  <2>. QED
    BY <1>1, <1>2, OneByOne
<1>. QED
  BY <1>3

LEMMA PairsTimeline ==
  ASSUME NEW S \in SUBSET Nat, IsFiniteSet(S)
  PROVE  \E n \in Nat : Timeline(pair_event_rows(S), n) /\ \A x \in S : x <= n
<1>1. PICK n \in Nat : \A x \in S : x <= n
  BY TimesBounded
<1>2. PICK I : I = pair_event_rows(S)
  OBVIOUS
<1>3. \A p \in I : /\ p[1] \in S /\ p[2] \in S /\ p = <<p[1], p[2]>> /\ p[1] < p[2]
                   /\ \A x \in S : ~ (p[1] < x /\ x < p[2])
  BY <1>2, PairRows
<1>4. I \in SUBSET (S \X S) /\ I \in SUBSET (Nat \X Nat)
  BY <1>3
<1>5. IsFiniteSet(I)
  BY <1>4, FS_Product, FS_Subset
<1>6. ASSUME NEW p \in I, NEW q \in I, p # q
      PROVE  p[2] <= q[1] \/ q[2] <= p[1]
  <2>1. PICK a \in Nat, b \in Nat, c \in Nat, d \in Nat : a = p[1] /\ b = p[2] /\ c = q[1] /\ d = q[2]
    BY <1>3
  <2>2. a # c \/ b # d
    BY <1>3, <1>6, <2>1
  <2>3. /\ ~ (a < c /\ c < b) /\ ~ (a < d /\ d < b) /\ ~ (c < a /\ a < d) /\ ~ (c < b /\ b < d)
        /\ a < b /\ c < d
    BY <1>3, <2>1
  <2>. QED
    BY <2>1, <2>2, <2>3
<1>7. Intervals(I, n)
  BY <1>1, <1>3, <1>4 DEF Intervals
<1>. QED
  BY <1>1, <1>2, <1>5, <1>6, <1>7 DEF Timeline

\* One interval: what Timeline says about it in numbers.
LEMMA TimelinePair ==
  ASSUME NEW I, NEW n, Timeline(I, n), NEW p \in I, NEW q \in I
  PROVE  /\ p[1] \in Nat /\ p[2] \in Nat /\ p[1] < p[2] /\ p[2] <= n /\ n \in Nat
         /\ p[1] < q[1] => p[2] <= q[1]
         /\ p[1] = q[1] => p = q
         /\ p[1] <= q[1] => p[2] <= q[2]
<1>1. p[1] \in Nat /\ p[2] \in Nat /\ p[1] < p[2] /\ p[2] <= n /\ n \in Nat /\ q[1] \in Nat /\ q[2] \in Nat /\ q[1] < q[2]
  BY DEF Timeline, Intervals
<1>2. p = q \/ p[2] <= q[1] \/ q[2] <= p[1]
  BY DEF Timeline
<1>. QED
  BY <1>1, <1>2

LEMMA FirstLast ==
  ASSUME NEW I, NEW n, Timeline(I, n), NEW J \in SUBSET I, J # {}
  PROVE  /\ Missing!FirstOf(J) \in J /\ \A q \in J : Missing!FirstOf(J)[1] <= q[1]
         /\ Missing!LastOf(J) \in J /\ \A q \in J : q[1] <= Missing!LastOf(J)[1]
<1>. DEFINE F == {p[1] : p \in J}
<1>1. F \in SUBSET Nat /\ F # {} /\ n \in Nat /\ \A x \in F : x <= n
  <2>1. \A p \in J : p[1] \in Nat /\ p[1] <= n /\ n \in Nat
    BY TimelinePair
  <2>. QED
    BY <2>1
<1>2. Min(F) \in F /\ (\A x \in F : Min(F) <= x) /\ Max(F) \in F /\ \A x \in F : x <= Max(F)
  BY <1>1, MinOfNat, MaxOfNat
<1>3. \E p \in J : \A q \in J : p[1] <= q[1]
  BY <1>2
<1>4. \E p \in J : \A q \in J : q[1] <= p[1]
  BY <1>2
<1>. HIDE DEF F
<1>. QED
  BY <1>3, <1>4 DEF Missing!FirstOf, Missing!LastOf

-----------------------------------------------------------------------------
(* Grouping: sessions cover the intervals and share none. *)

LEMMA SessionCovers ==
  ASSUME NEW I, NEW n, Timeline(I, n), NEW D \in SUBSET I, NEW q \in D
  PROVE  \E o \in D : OpensSession(D, o) /\ q \in SessionOf(D, o)
<1>. DEFINE O == {o \in D : OpensSession(D, o) /\ o[1] <= q[1]}
<1>1. \A x \in D : x[1] \in Nat
  BY TimelinePair
<1>2. PICK f \in D : \A x \in D : f[1] <= x[1]
  BY FirstLast
<1>3. f \in O
  BY <1>1, <1>2 DEF OpensSession
<1>4. O \in SUBSET I /\ O # {}
  BY <1>3
<1>. HIDE DEF O
<1>5. PICK o \in O : \A x \in O : x[1] <= o[1]
  BY <1>4, FirstLast
<1>. USE DEF O
<1>6. q \in SessionOf(D, o)
  BY <1>1, <1>5 DEF SessionOf
<1>. QED
  BY <1>5, <1>6

LEMMA SessionsApart ==
  ASSUME NEW I, NEW n, Timeline(I, n), NEW D \in SUBSET I, NEW q,
         NEW s \in Sessions(D), NEW r \in Sessions(D), q \in s, q \in r
  PROVE  s = r
<1>1. PICK a \in D : OpensSession(D, a) /\ s = SessionOf(D, a)
  BY DEF Sessions
<1>2. PICK b \in D : OpensSession(D, b) /\ r = SessionOf(D, b)
  BY DEF Sessions
<1>3. a[1] \in Nat /\ b[1] \in Nat
  BY TimelinePair
<1>4. ~ (a[1] < b[1]) /\ ~ (b[1] < a[1])
  BY <1>1, <1>2 DEF SessionOf
<1>5. a = b
  BY <1>3, <1>4, TimelinePair
<1>. QED
  BY <1>1, <1>2, <1>5

LEMMA AllInSessions ==
  ASSUME NEW I, NEW n, Timeline(I, n), NEW D \in SUBSET I
  PROVE  UNION Sessions(D) = D
<1>1. \A s \in Sessions(D) : s \subseteq D
  BY DEF Sessions, SessionOf
<1>2. \A q \in D : \E s \in Sessions(D) : q \in s
  BY SessionCovers DEF Sessions
<1>. QED
  BY <1>1, <1>2

\* The list of sessions S after p, when L is its last session and l the last of that.
Extended(S, L, l, p) ==
  IF p[1] - l[2] >= BreakMinutes THEN S \cup {{p}} ELSE (S \ {L}) \cup {L \cup {p}}

\* The sessions after one more interval, later than all others.
LEMMA OneMore ==
  ASSUME NEW I, NEW n, Timeline(I, n), NEW D \in SUBSET I, NEW p \in I, \A q \in D : q[1] < p[1],
         NEW l \in D, \A q \in D : q[1] <= l[1],
         NEW L \in Sessions(D), l \in L
  PROVE  Sessions(D \cup {p}) = Extended(Sessions(D), L, l, p)
<1>. USE DEF Extended
<1>. DEFINE E == D \cup {p}
<1>0. /\ p[1] \in Nat /\ \A q \in D : q[1] \in Nat /\ q[2] \in Nat /\ q[2] <= l[2]
  BY TimelinePair
<1>1. ASSUME NEW q \in D
      PROVE  OpensSession(E, q) <=> OpensSession(D, q)
  <2>1. ~ (p[1] < q[1])
    BY <1>0
  <2>. QED
    BY <2>1 DEF OpensSession
<1>2. OpensSession(E, p) <=> p[1] - l[2] >= BreakMinutes
  <2>1. ~ (p[1] < p[1])
    BY <1>0
  <2>2. l[1] < p[1] /\ l[2] \in Nat
    BY <1>0
  <2>3. OpensSession(E, p) <=> ~ \E q \in D : p[1] - q[2] < BreakMinutes
    BY <2>1 DEF OpensSession
  <2>. QED
    BY <1>0, <2>2, <2>3 DEF BreakMinutes
<1>3. ASSUME NEW x \in D, NEW q \in D
      PROVE  q \in SessionOf(E, x) <=> q \in SessionOf(D, x)
  <2>1. ~ (p[1] <= q[1])
    BY <1>0
  <2>. QED
    BY <1>1, <2>1 DEF SessionOf
<1>4. CASE p[1] - l[2] >= BreakMinutes
  <2>1. OpensSession(E, p)
    BY <1>2, <1>4
  <2>2. SessionOf(E, p) = {p}
    <3>1. \A q \in D : ~ (p[1] <= q[1])
      BY <1>0
    <3>2. p[1] <= p[1] /\ ~ \E r : p[1] < r[1] /\ r[1] <= p[1] /\ r \in E
      BY <1>0
    <3>. QED
      BY <3>1, <3>2 DEF SessionOf
  <2>3. ASSUME NEW x \in D PROVE SessionOf(E, x) = SessionOf(D, x)
    <3>1. p \notin SessionOf(E, x)
      BY <1>0, <2>1 DEF SessionOf
    <3>2. SessionOf(E, x) \subseteq E /\ SessionOf(D, x) \subseteq D
      BY DEF SessionOf
    <3>. QED
      BY <1>3, <3>1, <3>2
  <2>4. \A t : t \in Sessions(E) <=> t \in Sessions(D) \/ t = {p}
    BY <1>1, <2>1, <2>2, <2>3 DEF Sessions
  <2>. QED
    BY <1>4, <2>4
<1>5. CASE ~ (p[1] - l[2] >= BreakMinutes)
  <2>1. ~ OpensSession(E, p)
    BY <1>2, <1>5
  <2>2. ASSUME NEW x \in D
        PROVE  p \in SessionOf(E, x) <=> l \in SessionOf(D, x)
    <3>1. p \in SessionOf(E, x) <=> ~ \E r \in D : OpensSession(D, r) /\ x[1] < r[1]
      <4>1. x[1] <= p[1] /\ \A r \in D : r[1] <= p[1]
        BY <1>0
      <4>2. p \in E
        OBVIOUS
      <4>. QED
        BY <1>1, <2>1, <4>1, <4>2 DEF SessionOf
    <3>2. l \in SessionOf(D, x) <=> ~ \E r \in D : OpensSession(D, r) /\ x[1] < r[1]
      BY DEF SessionOf
    <3>. QED
      BY <3>1, <3>2
  <2>3. ASSUME NEW x \in D
        PROVE  SessionOf(E, x) = IF l \in SessionOf(D, x) THEN SessionOf(D, x) \cup {p} ELSE SessionOf(D, x)
    <3>1. SessionOf(E, x) \subseteq E /\ SessionOf(D, x) \subseteq D
      BY DEF SessionOf
    <3>. QED
      BY <1>3, <2>2, <3>1
  <2>4. ASSUME NEW x \in D, OpensSession(D, x)
        PROVE  l \in SessionOf(D, x) <=> SessionOf(D, x) = L
    <3>1. SessionOf(D, x) \in Sessions(D)
      BY <2>4 DEF Sessions
    <3>. QED
      BY <3>1, SessionsApart
  <2>5. ASSUME NEW x \in D, OpensSession(D, x)
        PROVE  SessionOf(E, x) = IF SessionOf(D, x) = L THEN L \cup {p} ELSE SessionOf(D, x)
    BY <2>3, <2>4, <2>5
  <2>6. \A t : t \in Sessions(E) <=> \E x \in D : OpensSession(D, x) /\ t = SessionOf(E, x)
    BY <1>1, <2>1 DEF Sessions
  <2>7. \A t : t \in Sessions(D) <=> \E x \in D : OpensSession(D, x) /\ t = SessionOf(D, x)
    BY DEF Sessions
  <2>8. \A t : t \in Sessions(E) <=> \E s \in Sessions(D) : t = IF s = L THEN L \cup {p} ELSE s
    BY <2>5, <2>6, <2>7
  <2>9. \A t : t \in Sessions(E) <=> (t \in Sessions(D) /\ t # L) \/ t = L \cup {p}
    BY <2>8
  <2>. QED
    BY <1>5, <2>9
<1>. QED
  BY <1>4, <1>5

LEMMA GroupStep ==
  ASSUME NEW I, NEW n, Timeline(I, n), NEW D \in SUBSET I, NEW p \in I, \A q \in D : q[1] < p[1],
         sessions = Sessions(D)
  PROVE  Missing!Joined(p) = Sessions(D \cup {p})
<1>1. CASE D = {}
  <2>1. sessions = {}
    BY <1>1 DEF Sessions
  <2>2. p[1] \in Nat
    BY TimelinePair
  <2>3. OpensSession({p}, p) /\ SessionOf({p}, p) = {p}
    BY <2>2 DEF OpensSession, SessionOf
  <2>4. Sessions({p}) = {{p}}
    BY <2>3 DEF Sessions
  <2>. QED
    BY <1>1, <2>1, <2>4 DEF Missing!Joined
<1>2. CASE D # {}
  <2>1. PICK S : S = Sessions(D)
    OBVIOUS
  <2>2. UNION S = D
    BY <2>1, AllInSessions
  <2>3. PICK l : l = Missing!LastOf(D)
    OBVIOUS
  <2>4. l \in D /\ \A q \in D : q[1] <= l[1]
    BY <1>2, <2>3, FirstLast
  <2>5. PICK L : L = Missing!LastSession
    OBVIOUS
  <2>6. L = CHOOSE s \in S : l \in s
    BY <2>1, <2>2, <2>3, <2>5 DEF Missing!LastSession
  <2>7. L \in S /\ l \in L
    BY <2>2, <2>4, <2>6
  <2>8. Missing!LastOf(L) = l
    <3>1. L \in SUBSET I /\ L # {} /\ L \subseteq D
      BY <2>2, <2>7
    <3>2. PICK m : m = Missing!LastOf(L)
      OBVIOUS
    <3>3. m \in L /\ l[1] <= m[1] /\ m[1] <= l[1]
      BY <2>4, <2>7, <3>1, <3>2, FirstLast
    <3>4. l[1] \in Nat /\ m[1] \in Nat /\ (l[1] = m[1] => l = m)
      BY <2>4, <3>1, <3>3, TimelinePair
    <3>. QED
      BY <3>2, <3>3, <3>4
  <2>9. S # {}
    BY <2>7
  <2>10. Sessions(D \cup {p}) = Extended(S, L, l, p)
    <3>1. l \in D /\ (\A q \in D : q[1] <= l[1]) /\ L \in Sessions(D) /\ l \in L
      BY <2>1, <2>4, <2>7
    <3>2. Sessions(D \cup {p}) = Extended(Sessions(D), L, l, p)
      BY <3>1, OneMore
    <3>. QED
      BY <2>1, <3>2
  <2>11. Missing!Joined(p) = Extended(S, L, l, p)
    BY <2>1, <2>5, <2>8, <2>9 DEF Missing!Joined, Missing!BreakMinutes, BreakMinutes, Extended
  <2>. QED
    BY <2>10, <2>11
<1>. QED
  BY <1>1, <1>2

-----------------------------------------------------------------------------
(* One session: its start, its end and the minutes between its intervals. *)

\* The intervals of a session after p, and the minutes up to the first of them.
After(s, p) == {q \in s : p[1] < q[1]}
Between(s, p) == p[2] .. Missing!FirstOf(After(s, p))[1] - 1
Follows(s, p, a, b) ==
  /\ a = p[2] /\ b = Missing!FirstOf(After(s, p))[1] /\ a <= b
  /\ Between(s, p) = a .. b - 1 /\ b < SessionEnd(s)
  /\ \A q \in s : p[1] < q[1] => b <= q[1]

LEMMA SessionEnds ==
  ASSUME NEW I, NEW n, Timeline(I, n), NEW s \in SUBSET I, s # {}
  PROVE  /\ SessionStart(s) = Missing!FirstOf(s)[1] /\ SessionEnd(s) = Missing!LastOf(s)[2]
         /\ SessionStart(s) \in Nat /\ SessionEnd(s) \in Nat /\ SessionStart(s) < SessionEnd(s)
         /\ \A p \in s : SessionStart(s) <= p[1] /\ p[2] <= SessionEnd(s)
<1>1. PICK f : f = Missing!FirstOf(s)
  OBVIOUS
<1>2. PICK l : l = Missing!LastOf(s)
  OBVIOUS
<1>3. f \in s /\ l \in s /\ \A q \in s : f[1] <= q[1] /\ q[1] <= l[1]
  BY <1>1, <1>2, FirstLast
<1>4. \A q \in s : q[1] \in Nat /\ q[2] \in Nat /\ q[1] < q[2] /\ q[2] <= l[2]
  BY <1>3, TimelinePair
<1>5. SessionStart(s) = f[1]
  <2>. DEFINE F == {p[1] : p \in s}
  <2>1. F \in SUBSET Nat /\ F # {} /\ f[1] \in F /\ \A x \in F : f[1] <= x
    BY <1>3, <1>4
  <2>2. PICK m : m = Min(F)
    OBVIOUS
  <2>3. m \in F /\ \A x \in F : m <= x
    BY <2>1, <2>2, MinOfNat
  <2>4. m = f[1]
    <3>1. m \in Nat /\ f[1] \in Nat /\ m <= f[1] /\ f[1] <= m
      BY <2>1, <2>3
    <3>. QED
      BY <3>1
  <2>. QED
    BY <2>2, <2>4 DEF SessionStart
<1>6. SessionEnd(s) = l[2]
  <2>. DEFINE F == {p[2] : p \in s}
  <2>1. F \in SUBSET Nat /\ F # {} /\ l[2] \in F /\ l[2] \in Nat /\ \A x \in F : x <= l[2]
    BY <1>3, <1>4
  <2>2. PICK m : m = Max(F)
    OBVIOUS
  <2>3. m \in F /\ \A x \in F : x <= m
    BY <2>1, <2>2, MaxOfNat
  <2>4. m = l[2]
    <3>1. m \in Nat /\ l[2] \in Nat /\ m <= l[2] /\ l[2] <= m
      BY <2>1, <2>3
    <3>. QED
      BY <3>1
  <2>. QED
    BY <2>2, <2>4 DEF SessionEnd
<1>. QED
  BY <1>1, <1>2, <1>3, <1>4, <1>5, <1>6

LEMMA NextInterval ==
  ASSUME NEW I, NEW n, Timeline(I, n), NEW s \in SUBSET I, NEW p \in s, After(s, p) # {}
  PROVE  \E a, b \in Nat : Follows(s, p, a, b)
<1>1. PICK J : J = After(s, p)
  OBVIOUS
<1>2. J \in SUBSET I /\ J # {}
  BY <1>1 DEF After
<1>3. PICK m : m = Missing!FirstOf(J)
  OBVIOUS
<1>4. m \in J /\ \A q \in J : m[1] <= q[1]
  BY <1>2, <1>3, FirstLast
<1>5. m \in s /\ p[1] < m[1]
  BY <1>1, <1>4 DEF After
<1>6. p[2] \in Nat /\ m[1] \in Nat /\ m[2] \in Nat /\ p[2] <= m[1] /\ m[1] < m[2]
  BY <1>5, TimelinePair
<1>7. m[2] <= SessionEnd(s) /\ SessionEnd(s) \in Nat
  BY <1>5, SessionEnds
<1>8. \A q \in s : p[1] < q[1] => m[1] <= q[1]
  BY <1>1, <1>4 DEF After
<1>. QED
  BY <1>1, <1>3, <1>6, <1>7, <1>8 DEF Between, Follows

LEMMA IntervalSize ==
  ASSUME NEW a \in Nat, NEW b \in Nat, a <= b
  PROVE  IsFiniteSet(a .. b - 1) /\ Cardinality(a .. b - 1) = b - a
<1>1. PICK c \in Int : c = b - 1
  OBVIOUS
<1>2. IsFiniteSet(a .. c) /\ Cardinality(a .. c) = IF a > c THEN 0 ELSE c - a + 1
  BY FS_Interval
<1>. QED
  BY <1>1, <1>2

LEMMA GapsCounted ==
  ASSUME NEW I, NEW n, Timeline(I, n), NEW s \in SUBSET I, s # {},
         NEW T, T = {p \in s : After(s, p) # {}},
         NEW f, \A p \in T : f[p] = Missing!FirstOf(After(s, p))[1] - p[2]
  PROVE  SumFunctionOnSet(f, T) = ExistingMinutes(s)
<1>1. PICK M : M = [p \in T |-> Between(s, p)]
  OBVIOUS
<1>2. PICK V : V = {x \in SessionStart(s) .. SessionEnd(s) - 1 : ~ \E p \in s : p[1] <= x /\ x < p[2]}
  OBVIOUS
<1>3. \A p \in s : p[1] \in Nat /\ p[2] \in Nat /\ p[1] < p[2]
  BY TimelinePair
<1>4. IsFiniteSet(T)
  <2>1. T \in SUBSET I /\ IsFiniteSet(I)
    BY DEF Timeline
  <2>. QED
    BY <2>1, FS_Subset
<1>5. ASSUME NEW p \in T
      PROVE  IsFiniteSet(M[p]) /\ f[p] = Cardinality(M[p]) /\ M[p] \subseteq V
  <2>1. p \in s /\ After(s, p) # {}
    OBVIOUS
  <2>0. PICK a \in Nat, b \in Nat : Follows(s, p, a, b)
    BY <2>1, NextInterval
  <2>2. /\ a = p[2] /\ b = Missing!FirstOf(After(s, p))[1] /\ a <= b
        /\ Between(s, p) = a .. b - 1 /\ b < SessionEnd(s)
        /\ \A q \in s : p[1] < q[1] => b <= q[1]
    BY <2>0 DEF Follows
  <2>3. M[p] = a .. b - 1 /\ f[p] = b - a
    BY <1>1, <2>2
  <2>4. IsFiniteSet(M[p]) /\ f[p] = Cardinality(M[p])
    BY <2>2, <2>3, IntervalSize
  <2>5. ASSUME NEW x \in a .. b - 1
        PROVE  x \in V
    <3>1. SessionStart(s) \in Nat /\ SessionEnd(s) \in Nat /\ SessionStart(s) <= p[1]
      BY <2>1, SessionEnds
    <3>2. x \in SessionStart(s) .. SessionEnd(s) - 1
      BY <1>3, <2>1, <2>2, <3>1
    <3>3. ASSUME NEW q \in s, q[1] <= x, x < q[2]
          PROVE  FALSE
      <4>1. q[1] <= p[1] => q[2] <= p[2]
        BY <2>1, TimelinePair
      <4>. QED
        BY <1>3, <2>1, <2>2, <3>3, <4>1
    <3>. QED
      BY <1>2, <3>2, <3>3
  <2>. QED
    BY <2>3, <2>4, <2>5
<1>6. ASSUME NEW p \in T, NEW q \in T, p[1] < q[1]
      PROVE  M[p] \cap M[q] = {}
  <2>0. PICK a \in Nat, b \in Nat, c \in Nat, d \in Nat : Follows(s, p, a, b) /\ Follows(s, q, c, d)
    BY NextInterval
  <2>1. Between(s, p) = a .. b - 1 /\ \A r \in s : p[1] < r[1] => b <= r[1]
    BY <2>0 DEF Follows
  <2>2. Between(s, q) = c .. d - 1 /\ c = q[2]
    BY <2>0 DEF Follows
  <2>3. b <= q[1] /\ q[1] < c /\ q[1] \in Nat
    BY <1>3, <1>6, <2>1, <2>2
  <2>. QED
    BY <1>1, <2>1, <2>2, <2>3
<1>7. \A p, q \in T : p # q => M[p] \cap M[q] = {}
  <2>. SUFFICES ASSUME NEW p \in T, NEW q \in T, p # q PROVE M[p] \cap M[q] = {}
    OBVIOUS
  <2>1. p[1] \in Nat /\ q[1] \in Nat /\ p[1] # q[1]
    BY TimelinePair
  <2>. QED
    BY <1>6, <2>1
<1>8. ASSUME NEW t \in V
      PROVE  \E p \in T : t \in M[p]
  <2>1. /\ SessionStart(s) = Missing!FirstOf(s)[1] /\ SessionEnd(s) = Missing!LastOf(s)[2]
        /\ SessionStart(s) \in Nat /\ SessionEnd(s) \in Nat
    BY SessionEnds
  <2>2. t \in Nat /\ SessionStart(s) <= t /\ t < SessionEnd(s) /\ ~ \E p \in s : p[1] <= t /\ t < p[2]
    BY <1>2, <2>1
  <2>3. PICK J : J = {p \in s : p[1] <= t}
    OBVIOUS
  <2>4. J # {} /\ J \in SUBSET I
    BY <2>1, <2>2, <2>3, FirstLast
  <2>5. PICK p \in J : \A q \in J : q[1] <= p[1]
    BY <2>4, FirstLast
  <2>6. p \in s /\ p[1] <= t /\ p[2] <= t
    BY <1>3, <2>2, <2>3, <2>5
  <2>7. After(s, p) # {}
    <3>1. PICK l \in s : l = Missing!LastOf(s)
      BY FirstLast
    <3>2. l[1] <= p[1] => l[2] <= p[2]
      BY <2>6, TimelinePair
    <3>3. p[1] < l[1]
      BY <1>3, <2>1, <2>2, <2>6, <3>1, <3>2
    <3>. QED
      BY <3>3 DEF After
  <2>0. PICK a \in Nat, b \in Nat : Follows(s, p, a, b)
    BY <2>6, <2>7, NextInterval
  <2>8. a = p[2] /\ b = Missing!FirstOf(After(s, p))[1] /\ Between(s, p) = a .. b - 1
    BY <2>0 DEF Follows
  <2>9. b > t
    <3>1. Missing!FirstOf(After(s, p)) \in After(s, p)
      <4>1. After(s, p) \in SUBSET I
        BY DEF After
      <4>. QED
        BY <2>7, <4>1, FirstLast
    <3>2. PICK m \in s : m[1] = b /\ p[1] < m[1]
      BY <2>8, <3>1 DEF After
    <3>. QED
      BY <1>3, <2>2, <2>3, <2>5, <2>6, <3>2
  <2>10. p \in T /\ t \in M[p]
    BY <1>1, <2>2, <2>6, <2>7, <2>8, <2>9
  <2>. QED
    BY <2>10
<1>9. SumFunctionOnSet(f, T) = Cardinality(V)
  BY <1>4, <1>5, <1>7, <1>8, SumOfCounts
<1>. QED
  BY <1>2, <1>9 DEF ExistingMinutes

\* The three values of a session that the loop computes.
LEMMA SessionRead ==
  ASSUME NEW I, NEW n, Timeline(I, n), NEW s \in SUBSET I, s # {}, s = Missing!Session
  PROVE  /\ Missing!Start = SessionStart(s) /\ Missing!End = SessionEnd(s)
         /\ Missing!Gaps = ExistingMinutes(s)
<1>1. Missing!Start = SessionStart(s) /\ Missing!End = SessionEnd(s)
  BY SessionEnds DEF Missing!Start, Missing!End
<1>2. PICK T : T = {p \in s : After(s, p) # {}}
  OBVIOUS
<1>3. \A p : Missing!Later(p) = After(s, p)
  BY DEF Missing!Later, After
<1>4. PICK f : f = [p \in T |-> Missing!Max({0, Missing!FirstOf(After(s, p))[1] - p[2]})]
  OBVIOUS
<1>5. Missing!Gaps = Missing!SumFunction(f)
  <2>1. T = {q \in Missing!Session : Missing!Later(q) # {}}
    BY <1>2, <1>3
  <2>2. f = [p \in {q \in Missing!Session : Missing!Later(q) # {}} |->
               Missing!Max({0, Missing!FirstOf(Missing!Later(p))[1] - p[2]})]
    BY <1>3, <1>4, <2>1
  <2>. QED
    BY <2>2 DEF Missing!Gaps
<1>6. ASSUME NEW p \in T
      PROVE  f[p] = Missing!FirstOf(After(s, p))[1] - p[2]
  <2>1. PICK a \in Nat, b \in Nat : Follows(s, p, a, b)
    BY <1>2, NextInterval
  <2>2. a = p[2] /\ b = Missing!FirstOf(After(s, p))[1] /\ a <= b
    BY <2>1 DEF Follows
  <2>3. PICK d \in Nat : d = b - a
    BY <2>2
  <2>4. PICK m : m = CHOOSE x \in {0, d} : \A y \in {0, d} : x >= y
    OBVIOUS
  <2>5. m \in {0, d} /\ \A y \in {0, d} : m >= y
    BY <2>4
  <2>6. Missing!Max({0, d}) = d
    BY <2>4, <2>5 DEF Missing!Max
  <2>. QED
    BY <1>4, <2>2, <2>3, <2>6
<1>7. SumFunctionOnSet(f, T) = ExistingMinutes(s)
  BY <1>2, <1>6, GapsCounted
<1>8. DOMAIN f = T
  BY <1>4
<1>. QED
  BY <1>1, <1>5, <1>7, <1>8, MissingSum

-----------------------------------------------------------------------------
(* Placing: the scan of one more interval, later than those scanned. *)

Hits(p, t, m) == Earliest(p) <= Latest(p, m) /\ Earliest(p) <= t /\ t <= Latest(p, m)

LEMMA ScanOver ==
  ASSUME NEW A, NEW t, NEW m, NEW p \in A, Hits(p, t, m)
  PROVE  Roomy(A, m) # {} /\ placement(A, t, m) = t
<1>1. p \in Roomy(A, m) /\ {q \in Roomy(A, m) : Earliest(q) <= t /\ t <= Latest(q, m)} # {}
  BY DEF Hits, Roomy
<1>. QED
  BY <1>1 DEF placement

OneScanned(A, p, t, m) ==
  IF Earliest(p) <= Latest(p, m)
  THEN Roomy(A \cup {p}, m) # {} /\ placement(A \cup {p}, t, m) = Clamp(t, Earliest(p), Latest(p, m))
  ELSE Roomy(A \cup {p}, m) = Roomy(A, m) /\ placement(A \cup {p}, t, m) = placement(A, t, m)

LEMMA ScanOne ==
  ASSUME NEW I, NEW n, Timeline(I, n), NEW A \in SUBSET I, NEW p \in I, \A q \in A : q[1] < p[1],
         NEW t \in Int, NEW m \in Int, \A q \in A : ~ Hits(q, t, m)
  PROVE  OneScanned(A, p, t, m)
<1>. USE DEF OneScanned
<1>. DEFINE B == A \cup {p}
<1>0. p[1] \in Nat /\ p[2] \in Nat /\ Earliest(p) \in Int /\ Latest(p, m) \in Int
  <2>1. p[1] \in Nat /\ p[2] \in Nat
    BY TimelinePair
  <2>. QED
    BY <2>1 DEF Earliest, Latest
<1>1. CASE Earliest(p) <= Latest(p, m)
  <2>1. p \in Roomy(B, m)
    BY <1>1 DEF Roomy
  <2>2. CASE Hits(p, t, m)
    <3>1. Roomy(B, m) # {} /\ placement(B, t, m) = t
      BY <2>2, ScanOver
    <3>2. Clamp(t, Earliest(p), Latest(p, m)) = t
      BY <1>0, <2>2 DEF Hits, Clamp
    <3>. QED
      BY <1>1, <3>1, <3>2
  <2>3. CASE ~ Hits(p, t, m)
    <3>1. {q \in Roomy(B, m) : Earliest(q) <= t /\ t <= Latest(q, m)} = {}
      BY <2>3 DEF Hits, Roomy
    <3>2. PICK R : R = Roomy(B, m)
      OBVIOUS
    <3>3. PICK l : l = CHOOSE x \in R : \A q \in R : q[1] <= x[1]
      OBVIOUS
    <3>4. \A q \in R : q[1] <= p[1]
      BY <1>0, <3>2, TimelinePair DEF Roomy
    <3>5. l \in R /\ \A q \in R : q[1] <= l[1]
      BY <2>1, <3>2, <3>3, <3>4
    <3>6. l = p
      <4>1. l \in B /\ l[1] \in Nat /\ p[1] <= l[1]
        BY <2>1, <3>2, <3>5, TimelinePair DEF Roomy
      <4>. QED
        BY <1>0, <4>1
    <3>7. placement(B, t, m) = Clamp(t, Earliest(l), Latest(l, m))
      BY <3>1, <3>2, <3>3 DEF placement
    <3>. QED
      BY <1>1, <2>1, <3>6, <3>7
  <2>. QED
    BY <2>2, <2>3
<1>2. CASE ~ (Earliest(p) <= Latest(p, m))
  <2>1. Roomy(B, m) = Roomy(A, m)
    BY <1>2 DEF Roomy
  <2>2. PICK R : R = Roomy(A, m)
    OBVIOUS
  <2>3. PICK l : l = CHOOSE x \in R : \A q \in R : q[1] <= x[1]
    OBVIOUS
  <2>4. PICK H : H = {x \in R : Earliest(x) <= t /\ t <= Latest(x, m)}
    OBVIOUS
  <2>5. PICK c : c = Clamp(t, Earliest(l), Latest(l, m))
    OBVIOUS
  <2>6. placement(A, t, m) = IF H # {} THEN t ELSE c
    BY <2>2, <2>3, <2>4, <2>5 DEF placement
  <2>7. Roomy(B, m) = R
    BY <2>1, <2>2
  <2>8. placement(B, t, m) = IF H # {} THEN t ELSE c
    <3>. HIDE DEF B
    <3>. QED
      BY <2>3, <2>4, <2>5, <2>7 DEF placement
  <2>. QED
    BY <1>2, <2>1, <2>6, <2>8
<1>. QED
  BY <1>1, <1>2

-----------------------------------------------------------------------------
(* The loops keep Missing!IInv. *)

LEMMA TimelineOfTimes ==
  ASSUME Missing!TypeOK
  PROVE  \E n \in Nat : Timeline(Missing!StoredIntervals, n) /\ \A x \in times : x <= n
<1>1. times \in SUBSET Nat /\ IsFiniteSet(times)
  BY MissingFinite DEF Missing!TypeOK
<1>. QED
  BY <1>1, PairsTimeline, MissingPairs DEF Missing!StoredIntervals

\* What a session of the closed form looks like.
Measured(s, I) ==
  /\ s # {} /\ s \in SUBSET I
  /\ SessionStart(s) \in Nat /\ SessionEnd(s) \in Nat /\ SessionStart(s) < SessionEnd(s)
  /\ ExistingMinutes(s) \in Nat
  /\ break_count(SessionEnd(s) - SessionStart(s)) \in Nat
  /\ MissingMinutes(s) \in Int
  /\ MissingMinutes(s) = BreakMinutes * break_count(SessionEnd(s) - SessionStart(s)) - ExistingMinutes(s)

LEMMA SessionMeasured ==
  ASSUME NEW I, NEW n, Timeline(I, n), NEW s \in Sessions(I)
  PROVE  Measured(s, I)
<1>0. Intervals(I, n)
  BY DEF Timeline
<1>1. s # {} /\ s \in SUBSET I /\ MissingMinutes(s) \in Int
  BY <1>0, SessionShape
<1>2. PICK a \in Nat, b \in Nat : a = SessionStart(s) /\ b = SessionEnd(s) /\ a < b
  BY <1>1, SessionEnds
<1>3. PICK d \in Nat : d = b - a
  BY <1>2
<1>4. break_count(d) \in Nat
  BY <1>3, BreakCount, BreakCountSmall DEF SegmentMinutes
<1>5. ExistingMinutes(s) \in Nat
  <2>. DEFINE X == {x \in a .. b - 1 : ~ \E p \in s : p[1] <= x /\ x < p[2]}
  <2>1. IsFiniteSet(a .. b - 1)
    BY <1>2, IntervalSize
  <2>2. IsFiniteSet(X)
    BY <2>1, FS_Subset
  <2>3. Cardinality(X) \in Nat
    BY <2>2, FS_CardinalityType
  <2>4. ExistingMinutes(s) = Cardinality(X)
    BY <1>2 DEF ExistingMinutes
  <2>. QED
    BY <2>3, <2>4
<1>. QED
  BY <1>1, <1>2, <1>3, <1>4, <1>5 DEF Measured, MissingMinutes

LEMMA SessionChosen ==
  ASSUME NEW I, NEW n, Timeline(I, n), sessions \subseteq Sessions(I), sessions # {}
  PROVE  Missing!Session \in sessions
<1>1. PICK S : S = UNION sessions
  OBVIOUS
<1>2. S \in SUBSET I /\ S # {}
  <2>1. \A s \in sessions : s # {} /\ s \in SUBSET I
    BY SessionMeasured DEF Measured
  <2>. QED
    BY <1>1, <2>1
<1>3. Missing!FirstOf(S) \in S
  BY <1>2, FirstLast
<1>4. \E s \in sessions : Missing!FirstOf(UNION sessions) \in s
  BY <1>1, <1>3
<1>. QED
  BY <1>4 DEF Missing!Session

Fits(s) == Missing!Lacking(s) /\ \A k \in 1 .. Missing!PauseCount(s) : Missing!HasRoom(s, k)

LEMMA FoundMore ==
  ASSUME NEW S, NEW R, R \subseteq S, NEW s \in R
  PROVE  Missing!Found(S \ (R \ {s})) =
           IF Fits(s) THEN Missing!Found(S \ R) \cup {Missing!Pauses(s)} ELSE Missing!Found(S \ R)
<1>1. S \ (R \ {s}) = (S \ R) \cup {s}
  OBVIOUS
<1>2. \A T : Missing!Found(T) = {Missing!Pauses(r) : r \in {x \in T : Fits(x)}}
  BY DEF Missing!Found, Fits
<1>. QED
  BY <1>1, <1>2

LEMMA FoundAll ==
  /\ Missing!Found({}) = {}
  /\ Missing!Found(Missing!StoredSessions) = Missing!MissingGroups
<1>1. Missing!Found({}) = {}
  BY DEF Missing!Found
<1>2. Missing!Found(Missing!StoredSessions) = Missing!MissingGroups
  BY DEF Missing!Found, Missing!MissingGroups, Missing!missing_break_event_groups, Missing!StoredSessions,
         Missing!Lacking, Missing!HasRoom, Missing!Pauses
<1>. QED
  BY <1>1, <1>2

LEMMA LoopsIdle ==
  ASSUME Missing!Idle, times \in SUBSET Nat, IsFiniteSet(times)
  PROVE  Missing!IInv
<1>1. Missing!TypeOK
  BY MissingFinite DEF Missing!Idle, Missing!TypeOK, Missing!NoPlacement
<1>. QED
  BY <1>1 DEF Missing!Idle, Missing!IInv, Missing!Grouped, Missing!LookedAt

LEMMA RequestKeeps ==
  ASSUME Missing!IInv, Missing!Request
  PROVE  Missing!IInv'
<1>1. Missing!TypeOK'
  BY DEF Missing!IInv, Missing!Request, Missing!TypeOK, Missing!NoPlacement
<1>2. Missing!StoredIntervals' = Missing!StoredIntervals /\ ordered' = Missing!StoredIntervals
  BY DEF Missing!Request, Missing!StoredIntervals
<1>3. Missing!Sessions({}) = {}
  BY DEF Missing!Sessions
<1>4. Missing!Grouped'
  <2>1. Missing!StoredIntervals' \ ordered' = {}
    BY <1>2
  <2>2. sessions' = {} /\ additions' = {}
    BY DEF Missing!Request
  <2>. QED
    BY <1>2, <1>3, <2>1, <2>2 DEF Missing!Grouped
<1>. QED
  BY <1>1, <1>4 DEF Missing!Request, Missing!IInv, Missing!LookedAt

LEMMA GroupKeeps ==
  ASSUME Missing!IInv, Missing!Group
  PROVE  Missing!IInv'
<1>0. Missing!TypeOK /\ stage = "group" /\ Missing!Grouped
  BY DEF Missing!IInv, Missing!Group
<1>1. PICK I : I = Missing!StoredIntervals
  OBVIOUS
<1>2. PICK n \in Nat : Timeline(I, n)
  BY <1>0, <1>1, TimelineOfTimes
<1>3. /\ ordered \subseteq I /\ additions = {} /\ sessions = Missing!Sessions(I \ ordered)
      /\ \A p \in I \ ordered, q \in ordered : p[1] < q[1]
  BY <1>0, <1>1 DEF Missing!Grouped
<1>4. Missing!StoredIntervals' = I /\ additions' = additions
  BY <1>1 DEF Missing!Group, Missing!StoredIntervals
<1>5. CASE ordered = {}
  <2>1. stage' = "session" /\ sessions' = sessions
    BY <1>5 DEF Missing!Group
  <2>2. Missing!TypeOK'
    BY <1>0, <2>1 DEF Missing!Group, Missing!TypeOK
  <2>3. sessions' = Missing!StoredSessions'
    BY <1>3, <1>4, <1>5, <2>1 DEF Missing!StoredSessions
  <2>4. additions' = Missing!Found(Missing!StoredSessions' \ sessions')
    BY <1>3, <1>4, <2>3, FoundAll
  <2>. QED
    BY <2>1, <2>2, <2>3, <2>4 DEF Missing!IInv, Missing!Grouped, Missing!LookedAt
<1>6. CASE ordered # {}
  <2>1. PICK p : p = Missing!FirstOf(ordered)
    OBVIOUS
  <2>2. p \in ordered /\ \A q \in ordered : p[1] <= q[1]
    BY <1>2, <1>3, <1>6, <2>1, FirstLast
  <2>3. stage' = stage /\ ordered' = ordered \ {p} /\ sessions' = Missing!Joined(p)
    BY <1>6, <2>1 DEF Missing!Group
  <2>4. Missing!TypeOK'
    BY <1>0, <2>3 DEF Missing!Group, Missing!TypeOK
  <2>5. PICK D : D = I \ ordered
    OBVIOUS
  <2>6. D \in SUBSET I /\ p \in I /\ (\A q \in D : q[1] < p[1]) /\ sessions = Sessions(D)
    BY <1>3, <2>2, <2>5, MissingSessions
  <2>7. Missing!Joined(p) = Sessions(D \cup {p})
    BY <1>2, <2>6, GroupStep
  <2>8. I \ ordered' = D \cup {p}
    BY <2>2, <2>3, <2>5, <2>6
  <2>9. sessions' = Missing!Sessions(I \ ordered')
    BY <2>3, <2>7, <2>8, MissingSessions
  <2>10. ASSUME NEW a \in D \cup {p}, NEW q \in ordered \ {p}
         PROVE  a[1] < q[1]
    <3>1. CASE a \in D
      BY <1>3, <2>5, <3>1
    <3>2. CASE a = p
      <4>1. p[1] \in Nat /\ q[1] \in Nat /\ p[1] # q[1]
        BY <1>2, <1>3, <2>6, TimelinePair
      <4>. QED
        BY <2>2, <3>2, <4>1
    <3>. QED
      BY <3>1, <3>2
  <2>11. Missing!Grouped'
    BY <1>3, <1>4, <2>3, <2>8, <2>9, <2>10 DEF Missing!Grouped
  <2>. QED
    BY <1>0, <2>3, <2>4, <2>11 DEF Missing!IInv, Missing!LookedAt
<1>. QED
  BY <1>5, <1>6

\* The session under the loop.
Current(s, I, n) ==
  /\ Timeline(I, n) /\ I = Missing!StoredIntervals
  /\ s = Missing!Session /\ s \in sessions
  /\ s \in Sessions(I) /\ Measured(s, I)
  /\ sessions \subseteq Missing!StoredSessions /\ additions = Missing!Found(Missing!StoredSessions \ sessions)

LEMMA CurrentSession ==
  ASSUME Missing!IInv, stage \in {"session", "scan"}, sessions # {}
  PROVE  \E s, I, n : Current(s, I, n)
<1>0. Missing!TypeOK /\ sessions \subseteq Missing!StoredSessions
      /\ additions = Missing!Found(Missing!StoredSessions \ sessions)
  BY DEF Missing!IInv, Missing!LookedAt
<1>1. PICK I : I = Missing!StoredIntervals
  OBVIOUS
<1>2. PICK n \in Nat : Timeline(I, n)
  BY <1>0, <1>1, TimelineOfTimes
<1>3. sessions \subseteq Sessions(I)
  BY <1>0, <1>1, MissingSessions DEF Missing!StoredSessions
<1>4. PICK s : s = Missing!Session
  OBVIOUS
<1>5. s \in sessions /\ s \in Sessions(I)
  BY <1>2, <1>3, <1>4, SessionChosen
<1>6. Measured(s, I)
  BY <1>2, <1>5, SessionMeasured
<1>. QED
  BY <1>0, <1>1, <1>2, <1>4, <1>5, <1>6 DEF Current

LEMMA CurrentRead ==
  ASSUME NEW s, NEW I, NEW n, Current(s, I, n)
  PROVE  /\ Missing!Start = SessionStart(s) /\ Missing!End = SessionEnd(s)
         /\ Missing!Gaps = ExistingMinutes(s)
         /\ Missing!BreakMinutes * Missing!break_count(Missing!End - Missing!Start) - Missing!Gaps = MissingMinutes(s)
<1>1. Timeline(I, n) /\ s \in SUBSET I /\ s # {} /\ s = Missing!Session
  BY DEF Current, Measured
<1>2. /\ Missing!Start = SessionStart(s) /\ Missing!End = SessionEnd(s)
      /\ Missing!Gaps = ExistingMinutes(s)
  BY <1>1, SessionRead
<1>. QED
  BY <1>2, MissingCount DEF Current, Measured, Missing!BreakMinutes, BreakMinutes

\* A session is done with: what it gives is its group, or nothing.
LEMMA SessionDone ==
  ASSUME NEW s, NEW I, NEW n, Current(s, I, n), stage' = "session", times' = times,
         sessions' = sessions \ {s},
         additions' = IF Fits(s) THEN additions \cup {Missing!Pauses(s)} ELSE additions
  PROVE  Missing!Grouped' /\ Missing!LookedAt'
<1>1. Missing!StoredSessions' = Missing!StoredSessions
  BY DEF Missing!StoredSessions, Missing!StoredIntervals
<1>2. PICK S : S = Missing!StoredSessions
  OBVIOUS
<1>3. sessions \subseteq S /\ additions = Missing!Found(S \ sessions) /\ s \in sessions
  BY <1>2 DEF Current
<1>4. Missing!Found(S \ (sessions \ {s})) =
        IF Fits(s) THEN Missing!Found(S \ sessions) \cup {Missing!Pauses(s)} ELSE Missing!Found(S \ sessions)
  BY <1>3, FoundMore
<1>5. additions' = Missing!Found(S \ sessions')
  BY <1>3, <1>4
<1>. QED
  BY <1>1, <1>2, <1>3, <1>5 DEF Missing!Grouped, Missing!LookedAt

LEMMA LookAtKeeps ==
  ASSUME Missing!IInv, Missing!LookAt
  PROVE  Missing!IInv'
<1>0. /\ Missing!TypeOK /\ stage = "session" /\ Missing!LookedAt
      /\ times' = times /\ requests' = requests /\ pauses' = <<>> /\ placement_at' = Missing!NoPlacement
      /\ ordered' = ordered /\ additions' = additions
  BY DEF Missing!IInv, Missing!LookAt
<1>. DEFINE needed == Missing!break_count(Missing!End - Missing!Start)
            missing == Missing!BreakMinutes * needed - Missing!Gaps
<1>1. CASE sessions = {}
  <2>1. stage' = "commit" /\ sessions' = sessions /\ required' = required /\ remaining' = remaining
    BY <1>1 DEF Missing!LookAt
  <2>2. Missing!TypeOK'
    BY <1>0, <2>1 DEF Missing!TypeOK
  <2>3. Missing!StoredSessions' = Missing!StoredSessions
    BY <1>0 DEF Missing!StoredSessions, Missing!StoredIntervals
  <2>. QED
    BY <1>0, <1>1, <2>1, <2>2, <2>3 DEF Missing!IInv, Missing!Grouped, Missing!LookedAt
<1>2. CASE sessions # {}
  <2>1. PICK s, I, n : Current(s, I, n)
    BY <1>0, <1>2, CurrentSession
  <2>2. /\ Missing!Start = SessionStart(s) /\ Missing!End = SessionEnd(s)
        /\ missing = MissingMinutes(s) /\ needed = break_count(SessionEnd(s) - SessionStart(s))
    BY <2>1, CurrentRead, MissingCount
  <2>3. /\ SessionStart(s) \in Nat /\ SessionEnd(s) \in Nat /\ MissingMinutes(s) \in Int
        /\ break_count(SessionEnd(s) - SessionStart(s)) \in Nat /\ s = Missing!Session
    BY <2>1 DEF Current, Measured
  <2>4. CASE Missing!End <= RangeStart \/ Missing!Start >= RangeEnd \/ missing <= 0
    <3>1. /\ sessions' = sessions \ {s} /\ stage' = stage /\ required' = required /\ remaining' = remaining
      BY <1>2, <2>3, <2>4 DEF Missing!LookAt
    <3>2. Missing!TypeOK'
      BY <1>0, <3>1 DEF Missing!TypeOK
    <3>3. ~ Missing!Lacking(s)
      BY <2>2, <2>3, <2>4, MissingOfSession, MissingAssumption DEF Missing!Lacking, Missing!RangeAssumption
    <3>4. Missing!Grouped' /\ Missing!LookedAt'
      BY <1>0, <2>1, <3>1, <3>3, SessionDone DEF Fits
    <3>. QED
      BY <1>0, <3>1, <3>2, <3>4 DEF Missing!IInv
  <2>5. CASE ~ (Missing!End <= RangeStart \/ Missing!Start >= RangeEnd \/ missing <= 0)
    <3>1. /\ stage' = "scan" /\ required' = needed /\ remaining' = missing /\ scan' = Missing!Session
          /\ sessions' = sessions
      BY <1>2, <2>5 DEF Missing!LookAt
    <3>2. Missing!TypeOK'
      BY <1>0, <2>2, <2>3, <2>5, <3>1 DEF Missing!TypeOK, Missing!NoPlacement
    <3>3. Missing!Session' = s
      BY <2>3, <3>1 DEF Missing!Session
    <3>4. Missing!Lacking(s)
      BY <2>2, <2>3, <2>5, MissingOfSession, MissingAssumption DEF Missing!Lacking, Missing!RangeAssumption
    <3>5. Missing!StoredSessions' = Missing!StoredSessions
      BY <1>0 DEF Missing!StoredSessions, Missing!StoredIntervals
    <3>6. Missing!Placed'
      <4>1. Len(pauses') = 0
        BY <1>0
      <4>2. Missing!Lacking(s)'
        BY <3>4 DEF Missing!Lacking
      <4>3. required' = Missing!break_count(Missing!SessionEnd(s) - Missing!SessionStart(s))
        BY <2>2, <3>1, MissingOfSession, MissingCount
      <4>4. remaining' = Missing!MissingMinutes(s) - Missing!BreakMinutes * Len(pauses') /\ remaining' > 0
        BY <2>2, <2>3, <2>5, <3>1, <4>1, MissingOfSession DEF Missing!BreakMinutes
      <4>. QED
        BY <1>2, <3>1, <3>3, <3>4, <4>1, <4>3, <4>4 DEF Missing!Placed
    <3>7. Missing!Scanned'
      <4>1. scan' = s /\ Missing!Session' \ scan' = {}
        BY <2>3, <3>1, <3>3
      <4>2. \A m : Missing!Roomy({}, m) = {}
        BY DEF Missing!Roomy
      <4>. QED
        BY <1>0, <3>3, <4>1, <4>2 DEF Missing!Scanned
    <3>. QED
      BY <1>0, <3>1, <3>2, <3>5, <3>6, <3>7 DEF Missing!IInv, Missing!Grouped, Missing!LookedAt
  <2>. QED
    BY <2>4, <2>5
<1>. QED
  BY <1>1, <1>2

\* The numbers of a scan: the length sought, the target, and what they mean for an interval.
LEMMA ScanNumbers ==
  ASSUME NEW s, NEW I, NEW n, Current(s, I, n), Missing!TypeOK,
         NEW t, t = Missing!Target, NEW m, m = Missing!Duration
  PROVE  /\ t \in Int /\ m \in Int /\ (remaining > 0 => m > 0)
         /\ t = SessionStart(s) + 360 * (Len(pauses) + 1)
         /\ \A p \in I : /\ Missing!Roomless(p) <=> ~ (Earliest(p) <= Latest(p, m))
                         /\ Missing!ScanStops(p) <=> Hits(p, t, m)
                         /\ Missing!Clamp(t, p[1] + 1, p[2] - m - 1) = Clamp(t, Earliest(p), Latest(p, m))
<1>1. Timeline(I, n) /\ SessionStart(s) \in Nat
  BY DEF Current, Measured
<1>2. Missing!Start = SessionStart(s)
  BY CurrentRead
<1>3. Len(pauses) \in Nat /\ remaining \in Nat
  BY DEF Missing!TypeOK
<1>4. t = SessionStart(s) + 360 * (Len(pauses) + 1)
  BY <1>2 DEF Missing!Target, Missing!SegmentMinutes
<1>5. t \in Int /\ m \in Int /\ (remaining > 0 => m > 0)
  BY <1>1, <1>3, <1>4 DEF Missing!Duration, Missing!BreakMinutes
<1>6. ASSUME NEW p \in I
      PROVE  /\ Missing!Roomless(p) <=> ~ (Earliest(p) <= Latest(p, m))
             /\ Missing!ScanStops(p) <=> Hits(p, t, m)
             /\ Missing!Clamp(t, p[1] + 1, p[2] - m - 1) = Clamp(t, Earliest(p), Latest(p, m))
  <2>1. p[1] \in Nat /\ p[2] \in Nat
    BY <1>1, TimelinePair
  <2>2. Missing!Roomless(p) <=> ~ (Earliest(p) <= Latest(p, m))
    BY <1>5, <2>1 DEF Missing!Roomless, Earliest, Latest
  <2>3. Missing!ScanStops(p) <=> Hits(p, t, m)
    BY <2>2 DEF Missing!ScanStops, Hits, Earliest, Latest
  <2>. QED
    BY <2>2, <2>3 DEF Missing!Clamp, Clamp, Earliest, Latest
<1>. QED
  BY <1>4, <1>5, <1>6

LEMMA ScanKeeps ==
  ASSUME Missing!IInv, Missing!Scan
  PROVE  Missing!IInv'
<1>0. /\ Missing!TypeOK /\ stage = "scan" /\ Missing!LookedAt /\ Missing!Placed /\ Missing!Scanned /\ scan # {}
      /\ times' = times /\ requests' = requests /\ stage' = stage /\ ordered' = ordered /\ sessions' = sessions
      /\ additions' = additions /\ pauses' = pauses /\ required' = required /\ remaining' = remaining
  BY DEF Missing!IInv, Missing!Scan
<1>1. PICK s, I, n : Current(s, I, n)
  <2>1. sessions # {}
    BY <1>0 DEF Missing!Placed
  <2>. QED
    BY <1>0, <2>1, CurrentSession
<1>2. PICK t, m, p : t = Missing!Target /\ m = Missing!Duration /\ p = Missing!FirstOf(scan)
  OBVIOUS
<1>3. Timeline(I, n) /\ s = Missing!Session /\ s \in SUBSET I
  BY <1>1 DEF Current, Measured
<1>4. /\ scan \in SUBSET s
      /\ \A a \in s \ scan, q \in scan : a[1] < q[1]
      /\ \A a \in s \ scan : ~ Missing!ScanStops(a)
      /\ placement_at = IF Missing!Roomy(s \ scan, m) = {} THEN Missing!NoPlacement
                        ELSE Missing!placement(s \ scan, t, m)
  BY <1>0, <1>2, <1>3 DEF Missing!Scanned
<1>5. p \in scan /\ \A q \in scan : p[1] <= q[1]
  <2>1. scan \in SUBSET I
    BY <1>3, <1>4
  <2>. QED
    BY <1>0, <1>2, <1>3, <2>1, FirstLast
<1>6. /\ t \in Int /\ m \in Int
      /\ \A q \in I : /\ Missing!Roomless(q) <=> ~ (Earliest(q) <= Latest(q, m))
                      /\ Missing!ScanStops(q) <=> Hits(q, t, m)
                      /\ Missing!Clamp(t, q[1] + 1, q[2] - m - 1) = Clamp(t, Earliest(q), Latest(q, m))
  BY <1>0, <1>1, <1>2, ScanNumbers
<1>7. /\ placement_at' = IF Missing!Roomless(p) THEN placement_at
                         ELSE Missing!Clamp(t, p[1] + 1, p[2] - m - 1)
      /\ scan' = IF Missing!ScanStops(p) THEN {} ELSE scan \ {p}
  BY <1>2 DEF Missing!Scan
<1>8. Missing!Session' = s /\ Missing!Target' = t /\ Missing!Duration' = m
  <2>1. Missing!Session' = Missing!Session
    BY <1>0 DEF Missing!Session
  <2>2. Missing!Start' = Missing!Start
    BY <2>1 DEF Missing!Start
  <2>. QED
    BY <1>0, <1>2, <1>3, <2>1, <2>2 DEF Missing!Target, Missing!Duration
<1>9. \A q : Missing!ScanStops(q)' <=> Missing!ScanStops(q)
  BY <1>2, <1>8 DEF Missing!ScanStops, Missing!Roomless
<1>10. p \in I /\ p \in s
  BY <1>3, <1>4, <1>5
<1>11. Missing!Scanned'
  <2>1. CASE Missing!ScanStops(p)
    <3>1. Hits(p, t, m)
      BY <1>6, <1>10, <2>1
    <3>2. Roomy(s, m) # {} /\ placement(s, t, m) = t
      BY <1>10, <3>1, ScanOver
    <3>3. p[1] \in Nat /\ p[2] \in Nat
      BY <1>3, <1>10, TimelinePair
    <3>4. placement_at' = t
      BY <1>6, <1>7, <1>10, <3>1, <3>3 DEF Hits, Clamp, Earliest, Latest
    <3>5. scan' = {} /\ s \ scan' = s
      BY <1>7, <2>1
    <3>6. Missing!Roomy(s, m) # {} /\ placement_at' = Missing!placement(s, t, m)
      BY <3>2, <3>4, MissingOfSession
    <3>. QED
      BY <1>8, <3>5, <3>6 DEF Missing!Scanned
  <2>2. CASE ~ Missing!ScanStops(p)
    <3>1. PICK A : A = s \ scan
      OBVIOUS
    <3>2. scan' = scan \ {p} /\ s \ scan' = A \cup {p}
      BY <1>5, <1>7, <1>10, <2>2, <3>1
    <3>3. A \in SUBSET I /\ (\A q \in A : q[1] < p[1]) /\ (\A q \in A : ~ Hits(q, t, m))
      BY <1>3, <1>4, <1>5, <1>6, <3>1
    <3>4. OneScanned(A, p, t, m)
      BY <1>3, <1>6, <1>10, <3>3, ScanOne
    <3>5. placement_at = IF Roomy(A, m) = {} THEN Missing!NoPlacement ELSE placement(A, t, m)
      BY <1>4, <3>1, MissingOfSession
    <3>6. placement_at' = IF Earliest(p) <= Latest(p, m) THEN Clamp(t, Earliest(p), Latest(p, m)) ELSE placement_at
      BY <1>6, <1>7, <1>10
    <3>7. placement_at' = IF Roomy(A \cup {p}, m) = {} THEN Missing!NoPlacement ELSE placement(A \cup {p}, t, m)
      BY <3>4, <3>5, <3>6 DEF OneScanned
    <3>8. placement_at' = IF Missing!Roomy(s \ scan', m) = {} THEN Missing!NoPlacement
                          ELSE Missing!placement(s \ scan', t, m)
      BY <3>2, <3>7, MissingOfSession
    <3>9. \A a \in s \ scan', q \in scan' : a[1] < q[1]
      <4>1. ASSUME NEW q \in scan \ {p} PROVE p[1] < q[1]
        <5>1. p[1] \in Nat /\ q[1] \in Nat /\ p[1] # q[1]
          BY <1>3, <1>4, <1>10, TimelinePair
        <5>. QED
          BY <1>5, <5>1
      <4>. QED
        BY <1>4, <3>1, <3>2, <4>1
    <3>10. \A a \in s \ scan' : ~ Missing!ScanStops(a)'
      BY <1>4, <1>9, <2>2, <3>1, <3>2
    <3>. QED
      BY <1>4, <1>8, <3>2, <3>8, <3>9, <3>10 DEF Missing!Scanned
  <2>. QED
    BY <2>1, <2>2
<1>12. Missing!Placed'
  BY <1>0, <1>3, <1>8 DEF Missing!Placed, Missing!Lacking
<1>13. Missing!StoredSessions' = Missing!StoredSessions
  BY <1>0 DEF Missing!StoredSessions, Missing!StoredIntervals
<1>14. placement_at' \in Nat \cup {Missing!NoPlacement}
  <2>1. CASE Missing!Roomless(p)
    BY <1>0, <1>7, <2>1 DEF Missing!TypeOK
  <2>2. CASE ~ Missing!Roomless(p)
    <3>1. p[1] \in Nat /\ p[2] \in Nat
      BY <1>3, <1>10, TimelinePair
    <3>. QED
      BY <1>6, <1>7, <1>10, <2>2, <3>1 DEF Clamp, Earliest, Latest
  <2>. QED
    BY <2>1, <2>2
<1>15. Missing!TypeOK'
  BY <1>0, <1>14 DEF Missing!TypeOK
<1>. QED
  BY <1>0, <1>11, <1>12, <1>13, <1>15 DEF Missing!IInv, Missing!Grouped, Missing!LookedAt

LEMMA PausesLeft ==
  ASSUME NEW M \in Int, NEW k \in Nat, k >= 1, NEW r \in Nat, r = M - 30 * (k - 1), r > 0
  PROVE  /\ (M + 30 - 1) \div 30 \in Nat /\ k <= (M + 30 - 1) \div 30
         /\ r <= 30 => (M + 30 - 1) \div 30 = k
<1>1. M + 29 = 30 * (k - 1) + (r + 29)
  OBVIOUS
<1>2. PICK c \in Int : c = (M + 29) \div 30
  OBVIOUS
<1>3. 30 * c <= M + 29 /\ M + 29 < 30 * (c + 1)
  BY <1>2
<1>4. k <= c /\ (r <= 30 => c = k)
  BY <1>1, <1>3
<1>. QED
  BY <1>2, <1>4

\* The pause that the loop places next is the next one of the closed form.
NextPlaced(s, k, x, m) ==
  /\ m \in Nat /\ m > 0 /\ m = PauseLength(s, k) /\ m = Missing!Duration /\ m <= 30 /\ m <= remaining
  /\ (m # remaining => m = 30)
  /\ k \in 1 .. PauseCount(s) /\ PauseCount(s) \in Nat /\ (remaining <= 30 => PauseCount(s) = k)
  /\ IF Roomy(s, m) = {} THEN x = Missing!NoPlacement ELSE x \in Nat /\ Pause(s, k) = <<x, x + m>>

LEMMA NextPause ==
  ASSUME NEW s, NEW I, NEW n, Current(s, I, n), Missing!TypeOK, Missing!Placed, Missing!Scanned, scan = {},
         NEW k, k = Len(pauses) + 1
  PROVE  \E m : NextPlaced(s, k, placement_at, m)
<1>1. PICK t, m : t = Missing!Target /\ m = Missing!Duration
  OBVIOUS
<1>2. /\ Timeline(I, n) /\ s = Missing!Session /\ s \in SUBSET I /\ SessionStart(s) \in Nat /\ MissingMinutes(s) \in Int
  BY DEF Current, Measured
<1>3. k \in Nat /\ k >= 1 /\ remaining \in Nat
  BY DEF Missing!TypeOK
<1>4. remaining = MissingMinutes(s) - 30 * (k - 1) /\ remaining > 0
  BY <1>2, <1>3, MissingOfSession DEF Missing!Placed, Missing!BreakMinutes, Missing!TypeOK
<1>5. t \in Int /\ m \in Int /\ m > 0 /\ t = SessionStart(s) + 360 * k
  BY <1>1, <1>4, ScanNumbers
<1>6. m = IF remaining < 30 THEN remaining ELSE 30
  BY <1>1 DEF Missing!Duration, Missing!BreakMinutes
<1>7. m = PauseLength(s, k)
  BY <1>4, <1>6 DEF PauseLength, BreakMinutes
<1>8. /\ PauseCount(s) \in Nat /\ k <= PauseCount(s) /\ (remaining <= 30 => PauseCount(s) = k)
  <2>1. PICK M \in Int : M = MissingMinutes(s)
    BY <1>2
  <2>2. remaining = M - 30 * (k - 1)
    BY <1>4, <2>1
  <2>3. /\ (M + 30 - 1) \div 30 \in Nat /\ k <= (M + 30 - 1) \div 30
        /\ remaining <= 30 => (M + 30 - 1) \div 30 = k
    BY <1>3, <1>4, <2>2, PausesLeft
  <2>4. PauseCount(s) = (M + 30 - 1) \div 30
    BY <2>1 DEF PauseCount, BreakMinutes
  <2>. QED
    BY <2>3, <2>4
<1>9. placement_at = IF Roomy(s, m) = {} THEN Missing!NoPlacement ELSE placement(s, t, m)
  <2>1. s \ scan = s
    OBVIOUS
  <2>. QED
    BY <1>1, <1>2, <2>1, MissingOfSession DEF Missing!Scanned
<1>10. ASSUME Roomy(s, m) # {}
       PROVE  placement_at \in Nat /\ Pause(s, k) = <<placement_at, placement_at + m>>
  <2>0. Intervals(I, n) /\ s \subseteq I
    BY <1>2 DEF Timeline
  <2>1. PICK p \in s : /\ placement(s, t, m) \in Int /\ p[1] < placement(s, t, m)
                       /\ placement(s, t, m) + m < p[2]
    BY <1>5, <1>10, <2>0, PlacementInside
  <2>2. p[1] \in Nat
    BY <1>2, TimelinePair
  <2>3. placement_at = placement(s, t, m)
    BY <1>9, <1>10
  <2>4. Pause(s, k) = <<placement(s, t, m), placement(s, t, m) + m>>
    BY <1>5, <1>7 DEF Pause, SegmentMinutes
  <2>. QED
    BY <2>1, <2>2, <2>3, <2>4
<1>11. NextPlaced(s, k, placement_at, m)
  <2>1. m \in Nat /\ m <= 30 /\ m <= remaining /\ (m # remaining => m = 30) /\ k \in 1 .. PauseCount(s)
    BY <1>3, <1>5, <1>6, <1>8
  <2>. QED
    BY <1>1, <1>5, <1>7, <1>8, <1>9, <1>10, <2>1 DEF NextPlaced
<1>. QED
  BY <1>11

LEMMA PlaceKeeps ==
  ASSUME Missing!IInv, Missing!Place
  PROVE  Missing!IInv'
<1>0. /\ Missing!TypeOK /\ stage = "scan" /\ Missing!LookedAt /\ Missing!Placed /\ Missing!Scanned /\ scan = {}
      /\ times' = times /\ requests' = requests /\ ordered' = ordered /\ required' = required
      /\ placement_at' = Missing!NoPlacement
  BY DEF Missing!IInv, Missing!Place
<1>1. PICK s, I, n : Current(s, I, n)
  <2>1. sessions # {}
    BY <1>0 DEF Missing!Placed
  <2>. QED
    BY <1>0, <2>1, CurrentSession
<1>2. PICK k : k = Len(pauses) + 1
  OBVIOUS
<1>3. PICK x : x = placement_at
  OBVIOUS
<1>4. PICK m : NextPlaced(s, k, x, m)
  BY <1>0, <1>1, <1>2, <1>3, NextPause
<1>5. /\ m \in Nat /\ m > 0 /\ m = PauseLength(s, k) /\ m = Missing!Duration /\ m <= 30 /\ m <= remaining
      /\ (m # remaining => m = 30)
      /\ k \in 1 .. PauseCount(s) /\ PauseCount(s) \in Nat /\ (remaining <= 30 => PauseCount(s) = k)
      /\ IF Roomy(s, m) = {} THEN x = Missing!NoPlacement ELSE x \in Nat /\ Pause(s, k) = <<x, x + m>>
  BY <1>4 DEF NextPlaced
<1>6. /\ s = Missing!Session /\ Missing!Lacking(s) /\ MissingMinutes(s) \in Int
      /\ remaining = MissingMinutes(s) - 30 * (k - 1) /\ remaining \in Nat
      /\ \A j \in 1 .. k - 1 : Missing!HasRoom(s, j) /\ pauses[j] = Missing!Pause(s, j)
      /\ pauses \in Seq(Nat \X Nat) /\ Len(pauses) = k - 1 /\ k \in Nat
  <2>1. s = Missing!Session /\ MissingMinutes(s) \in Int
    BY <1>1 DEF Current, Measured
  <2>2. pauses \in Seq(Nat \X Nat) /\ remaining \in Nat /\ Len(pauses) \in Nat
    BY <1>0 DEF Missing!TypeOK
  <2>3. Len(pauses) = k - 1 /\ k \in Nat
    BY <1>2, <2>2
  <2>. QED
    BY <1>0, <2>1, <2>2, <2>3, MissingOfSession DEF Missing!Placed, Missing!BreakMinutes
<1>7. CASE x = Missing!NoPlacement
  <2>1. /\ stage' = "session" /\ sessions' = sessions \ {s} /\ additions' = additions /\ pauses' = pauses
        /\ remaining' = remaining
    BY <1>3, <1>6, <1>7 DEF Missing!Place
  <2>2. Missing!TypeOK'
    BY <1>0, <2>1 DEF Missing!TypeOK
  <2>3. Roomy(s, m) = {}
    BY <1>5, <1>7 DEF Missing!NoPlacement
  <2>4. ~ Missing!HasRoom(s, k)
    BY <1>5, <2>3, MissingOfSession DEF Missing!HasRoom
  <2>5. ~ Fits(s)
    BY <1>5, <2>4, MissingOfSession DEF Fits
  <2>6. Missing!Grouped' /\ Missing!LookedAt'
    BY <1>0, <1>1, <2>1, <2>5, SessionDone
  <2>. QED
    BY <2>1, <2>2, <2>6 DEF Missing!IInv
<1>8. CASE x # Missing!NoPlacement
  <2>1. Roomy(s, m) # {} /\ x \in Nat /\ Pause(s, k) = <<x, x + m>>
    BY <1>5, <1>8
  <2>2. PICK placed : placed = Append(pauses, <<x, x + m>>)
    OBVIOUS
  <2>3. /\ placed \in Seq(Nat \X Nat) /\ Len(placed) = k /\ placed[k] = <<x, x + m>>
        /\ \A j \in 1 .. k - 1 : placed[j] = pauses[j]
    <3>1. <<x, x + m>> \in Nat \X Nat
      BY <1>5, <2>1
    <3>. QED
      BY <1>6, <2>2, <3>1
  <2>4. /\ remaining' = remaining - m /\ pauses' = placed
        /\ IF remaining' = 0 \/ Len(placed) = required
           THEN /\ stage' = "session" /\ sessions' = sessions \ {s}
                /\ additions' = IF remaining' = 0 THEN additions \cup {placed} ELSE additions
                /\ scan' = scan
           ELSE scan' = s /\ stage' = stage /\ sessions' = sessions /\ additions' = additions
    BY <1>3, <1>5, <1>6, <1>8, <2>2 DEF Missing!Place
  <2>5. \A j \in 1 .. k : Missing!HasRoom(s, j) /\ placed[j] = Missing!Pause(s, j)
    <3>1. Missing!HasRoom(s, k)
      BY <1>5, <2>1, MissingOfSession DEF Missing!HasRoom
    <3>2. placed[k] = Missing!Pause(s, k)
      BY <2>1, <2>3, MissingOfSession
    <3>3. ASSUME NEW j \in 1 .. k, j # k
          PROVE  Missing!HasRoom(s, j) /\ placed[j] = Missing!Pause(s, j)
      <4>1. j \in 1 .. k - 1
        BY <1>6, <3>3
      <4>. QED
        BY <1>6, <2>3, <4>1
    <3>. QED
      BY <3>1, <3>2, <3>3
  <2>6. CASE remaining = m
    <3>1. remaining' = 0 /\ PauseCount(s) = k
      BY <1>5, <2>4, <2>6
    <3>2. placed = Missing!Pauses(s)
      <4>1. Missing!PauseCount(s) = k
        BY <3>1, MissingOfSession
      <4>2. placed = [j \in 1 .. k |-> placed[j]]
        BY <2>3
      <4>. QED
        BY <2>5, <4>1, <4>2 DEF Missing!Pauses
    <3>3. Fits(s)
      BY <1>6, <2>5, <3>1, MissingOfSession DEF Fits
    <3>4. /\ stage' = "session" /\ sessions' = sessions \ {s} /\ additions' = additions \cup {Missing!Pauses(s)}
      BY <2>4, <3>1, <3>2
    <3>5. Missing!Grouped' /\ Missing!LookedAt'
      BY <1>0, <1>1, <3>3, <3>4, SessionDone
    <3>6. Missing!TypeOK'
      BY <1>0, <2>3, <2>4, <3>1, <3>4 DEF Missing!TypeOK
    <3>. QED
      BY <3>4, <3>5, <3>6 DEF Missing!IInv
  <2>7. CASE remaining # m
    <3>1. m = 30 /\ remaining > 30 /\ remaining' \in Nat /\ remaining' > 0
      BY <1>5, <1>6, <2>4, <2>7
    <3>2. required # k
      <4>1. PICK b \in Nat, e \in Nat : b = break_count(SessionEnd(s) - SessionStart(s)) /\ e = ExistingMinutes(s)
        BY <1>1 DEF Current, Measured
      <4>2. MissingMinutes(s) = 30 * b - e
        BY <1>1, <4>1 DEF Current, Measured, BreakMinutes
      <4>3. required = b
        BY <1>0, <1>6, <4>1, MissingOfSession, MissingCount DEF Missing!Placed
      <4>. QED
        BY <1>6, <3>1, <4>2, <4>3
    <3>3. scan' = s /\ stage' = stage /\ sessions' = sessions /\ additions' = additions
      BY <2>3, <2>4, <3>1, <3>2
    <3>4. Missing!TypeOK'
      BY <1>0, <2>3, <2>4, <3>1, <3>3 DEF Missing!TypeOK
    <3>5. Missing!Session' = s
      BY <1>6, <3>3 DEF Missing!Session
    <3>6. Missing!StoredSessions' = Missing!StoredSessions
      BY <1>0 DEF Missing!StoredSessions, Missing!StoredIntervals
    <3>7. Missing!Placed'
      <4>1. sessions' # {} /\ Missing!Lacking(s)'
        BY <1>0, <1>6, <3>3 DEF Missing!Placed, Missing!Lacking
      <4>2. required' = Missing!break_count(Missing!SessionEnd(s) - Missing!SessionStart(s))
        BY <1>0, <1>6 DEF Missing!Placed
      <4>3. remaining' = Missing!MissingMinutes(s) - Missing!BreakMinutes * Len(pauses')
        <5>1. remaining' = MissingMinutes(s) - 30 * k
          BY <1>6, <2>4, <3>1
        <5>. QED
          BY <2>3, <2>4, <5>1, MissingOfSession DEF Missing!BreakMinutes
      <4>4. \A j \in 1 .. Len(pauses') : Missing!HasRoom(s, j) /\ pauses'[j] = Missing!Pause(s, j)
        BY <2>3, <2>4, <2>5
      <4>. QED
        BY <3>1, <3>5, <4>1, <4>2, <4>3, <4>4 DEF Missing!Placed
    <3>8. Missing!Scanned'
      <4>1. scan' = s /\ Missing!Session' \ scan' = {}
        BY <3>3, <3>5
      <4>2. \A l : Missing!Roomy({}, l) = {}
        BY DEF Missing!Roomy
      <4>. QED
        BY <1>0, <3>5, <4>1, <4>2 DEF Missing!Scanned
    <3>. QED
      BY <1>0, <3>3, <3>4, <3>6, <3>7, <3>8 DEF Missing!IInv, Missing!Grouped, Missing!LookedAt
  <2>. QED
    BY <2>6, <2>7
<1>. QED
  BY <1>7, <1>8

LEMMA CommitKeeps ==
  ASSUME Missing!IInv, Missing!Commit
  PROVE  Missing!IInv'
<1>0. /\ Missing!TypeOK /\ stage = "commit" /\ stage' = "idle"
      /\ sessions = {} /\ additions = Missing!Found(Missing!StoredSessions \ sessions)
      /\ requests' = requests + 1 /\ UNCHANGED <<pauses, required, remaining, placement_at>>
      /\ times' = times \cup Missing!Inserted \/ times' = times
  BY DEF Missing!IInv, Missing!LookedAt, Missing!Commit, Missing!work
<1>1. PICK I : I = Missing!StoredIntervals
  OBVIOUS
<1>2. PICK n \in Nat : Timeline(I, n) /\ \A x \in times : x <= n
  BY <1>0, <1>1, TimelineOfTimes
<1>3. additions = missing_break_event_groups(I, RangeStart, RangeEnd)
  <2>1. additions = Missing!MissingGroups
    <3>1. Missing!StoredSessions \ sessions = Missing!StoredSessions
      BY <1>0
    <3>. QED
      BY <1>0, <3>1, FoundAll
  <2>. QED
    BY <1>1, <2>1, MissingOfIntervals DEF Missing!MissingGroups
<1>4. ASSUME NEW g \in additions, NEW k \in DOMAIN g
      PROVE  g[k][1] \in 0 .. n /\ g[k][2] \in 0 .. n
  <2>1. Intervals(I, n)
    BY <1>2 DEF Timeline
  <2>2. /\ g[k][1] \in Int /\ g[k][2] \in Int
        /\ \E p \in I : p[1] < g[k][1] /\ g[k][1] < g[k][2] /\ g[k][2] < p[2]
    BY <1>3, <2>1, MissingBreaksInside
  <2>3. \A p \in I : p[1] \in Nat /\ p[2] \in Nat /\ p[2] <= n
    BY <1>2, TimelinePair
  <2>. QED
    BY <2>2, <2>3
<1>5. Missing!Inserted \subseteq 0 .. n
  BY <1>4 DEF Missing!Inserted, Missing!New
<1>6. times \subseteq 0 .. n
  BY <1>0, <1>2 DEF Missing!TypeOK
<1>7. times' \subseteq 0 .. n
  BY <1>0, <1>5, <1>6
<1>8. IsFiniteSet(times') /\ times' \subseteq Nat
  <2>1. IsFiniteSet(0 .. n)
    BY FS_Interval
  <2>2. PICK T : T = times'
    OBVIOUS
  <2>3. T \in SUBSET (0 .. n)
    BY <1>7, <2>2
  <2>4. IsFiniteSet(T)
    BY <2>1, <2>3, FS_Subset
  <2>5. T \subseteq Nat
    BY <2>3
  <2>. QED
    BY <2>2, <2>4, <2>5
<1>9. Missing!TypeOK'
  BY <1>0, <1>8, MissingFinite DEF Missing!TypeOK
<1>. QED
  BY <1>0, <1>9 DEF Missing!IInv, Missing!Grouped, Missing!LookedAt

LEMMA AddingKeeps == Missing!IInv /\ [Missing!Next]_adding => Missing!IInv'
<1>. SUFFICES ASSUME Missing!IInv, [Missing!Next]_adding PROVE Missing!IInv'
  OBVIOUS
<1>1. CASE UNCHANGED adding
  BY <1>1 DEF adding, Missing!IInv, Missing!TypeOK, Missing!Grouped, Missing!LookedAt, Missing!Placed,
     Missing!Scanned, Missing!StoredSessions, Missing!StoredIntervals, Missing!Session, Missing!Duration,
     Missing!Target, Missing!Start, Missing!ScanStops, Missing!Roomless, Missing!Lacking
<1>. QED
  BY <1>1, RequestKeeps, GroupKeeps, LookAtKeeps, ScanKeeps, PlaceKeeps, CommitKeeps DEF Missing!Next

-----------------------------------------------------------------------------
(* The three algorithms. *)

\* What the proof carries along: the invariants of the loops, and that the stored
\* rows are those of the calculation.
LoopsInv == IInv /\ Missing!IInv /\ RowsStored /\ HoursRight

LEMMA LoopsInvStarts == AllInit => LoopsInv
<1>. SUFFICES ASSUME AllInit PROVE LoopsInv
  OBVIOUS
<1>1. IInv
  BY LoopsStart DEF AllInit
<1>2. Missing!Idle /\ (times = {} \/ times \in History)
  BY DEF AllInit, Missing!Init
<1>3. times \in SUBSET Nat /\ IsFiniteSet(times)
  BY <1>2, MissingAssumption, MissingFinite, FS_EmptySet DEF Missing!HistoryAssumption
<1>4. Missing!IInv
  BY <1>2, <1>3, LoopsIdle
<1>5. HoursRight
  BY DEF AllInit, HoursRight, Hours!Init, Hours!MatchesReference
<1>. QED
  BY <1>1, <1>4, <1>5, RowsStart DEF LoopsInv

LEMMA LoopsInvKept == LoopsInv /\ [AllNext]_allVars => LoopsInv'
<1>. SUFFICES ASSUME LoopsInv, [AllNext]_allVars PROVE LoopsInv'
  OBVIOUS
<1>1. ([Next]_vars) /\ ([Missing!Next]_adding)
  BY DEF AllNext, SplitPresence, AddBreaks, CountHours, allVars
<1>2. IInv' /\ Missing!IInv'
  BY <1>1, LoopsKeep, AddingKeeps DEF LoopsInv
<1>. QED
  BY <1>2, RowsKept, HoursRightKept DEF LoopsInv

\* For every duration, every finite set of stored times and every month, times, shifts
\* and profile: the loops of break_segments and of missing_break_event_groups compute
\* the closed forms with which TimeRecords inserts breaks, and the hours that
\* time_metrics.py adds up are the minutes of the month counted one by one.
THEOREM LoopsMatchReference == AllSpec => []MatchesReference
<1>1. LoopsInv => MatchesReference
  <2>. SUFFICES ASSUME LoopsInv PROVE MatchesReference
    OBVIOUS
  <2>1. MatchesClosedForm
    BY ReturnsClosedForm DEF LoopsInv
  <2>2. Missing!MatchesClosedForm
    <3>. SUFFICES ASSUME stage = "commit" PROVE additions = Missing!MissingGroups
      BY DEF Missing!MatchesClosedForm
    <3>1. sessions = {} /\ additions = Missing!Found(Missing!StoredSessions \ sessions)
      BY DEF LoopsInv, Missing!IInv, Missing!LookedAt
    <3>2. Missing!StoredSessions \ sessions = Missing!StoredSessions
      BY <3>1
    <3>. QED
      BY <3>1, <3>2, FoundAll
  <2>. QED
    BY <2>1, <2>2 DEF LoopsInv, HoursRight, MatchesReference
<1>. QED
  BY <1>1, LoopsInvStarts, LoopsInvKept, PTL DEF AllSpec

-----------------------------------------------------------------------------
(* Pauses inserted into some of the intervals: C are the intervals that are *)
(* cut, from minute x[p] to minute y[p].                                    *)

Cuts(I, C, x, y) ==
  /\ C \in SUBSET I
  /\ \A p \in C : x[p] \in Nat /\ y[p] \in Nat /\ p[1] < x[p] /\ x[p] < y[p] /\ y[p] < p[2]
Points(C, x, y) == {x[p] : p \in C} \cup {y[p] : p \in C}
Split(I, C, x, y) == (I \ C) \cup {<<p[1], x[p]>> : p \in C} \cup {<<y[p], p[2]>> : p \in C}

\* The pairs after the insertion.
LEMMA PairsSplit ==
  ASSUME NEW S \in SUBSET Nat, IsFiniteSet(S), NEW I, I = pair_event_rows(S),
         NEW C, NEW x, NEW y, Cuts(I, C, x, y)
  PROVE  pair_event_rows(S \cup Points(C, x, y)) = Split(I, C, x, y)
<1>1. PICK n \in Nat : Timeline(I, n) /\ \A t \in S : t <= n
  BY PairsTimeline
<1>2. C \in SUBSET I /\ IsFiniteSet(C)
  BY <1>1, FS_Subset DEF Timeline, Cuts
<1>. DEFINE Good == {c \in SUBSET C : pair_event_rows(S \cup Points(c, x, y)) = Split(I, c, x, y)}
<1>3. {} \in Good
  <2>1. Points({}, x, y) = {} /\ Split(I, {}, x, y) = I
    BY DEF Points, Split
  <2>2. S \cup Points({}, x, y) = S
    BY <2>1
  <2>. QED
    BY <2>1, <2>2
<1>4. ASSUME NEW c \in SUBSET C, c # {}, c \ {Picked(c)} \in Good
      PROVE  c \in Good
  <2>1. PICK p \in c : p = Picked(c)
    BY <1>4 DEF Picked
  <2>2. PICK b : b = c \ {p}
    OBVIOUS
  <2>3. PICK R : R = S \cup Points(b, x, y)
    OBVIOUS
  <2>4. PICK J : J = Split(I, b, x, y)
    OBVIOUS
  <2>5. pair_event_rows(R) = J
    BY <1>4, <2>1, <2>2, <2>3, <2>4
  <2>6. \A q \in I : q[1] \in Nat /\ q[2] \in Nat /\ q[2] <= n
    BY <1>1, TimelinePair
  <2>7. R \in SUBSET Nat /\ IsFiniteSet(R)
    <3>1. R \in SUBSET (0 .. n)
      <4>1. \A q \in b : x[q] \in 0 .. n /\ y[q] \in 0 .. n
        BY <1>2, <2>2, <2>6 DEF Cuts
      <4>2. S \subseteq 0 .. n
        BY <1>1
      <4>. QED
        BY <2>3, <4>1, <4>2 DEF Points
    <3>2. IsFiniteSet(0 .. n)
      BY FS_Interval
    <3>3. IsFiniteSet(R)
      BY <3>1, <3>2, FS_Subset
    <3>. QED
      BY <3>1, <3>3
  <2>8. p \in J /\ p \in I /\ x[p] \in Nat /\ y[p] \in Nat /\ p[1] < x[p] /\ x[p] < y[p] /\ y[p] < p[2]
    BY <1>2, <2>2, <2>4 DEF Split, Cuts
  <2>9. pair_event_rows(R \cup {x[p], y[p]}) = (J \ {p}) \cup {<<p[1], x[p]>>, <<y[p], p[2]>>}
    BY <2>5, <2>7, <2>8, PairSplit
  <2>10. R \cup {x[p], y[p]} = S \cup Points(c, x, y)
    BY <2>2, <2>3 DEF Points
  <2>11. \A q \in b : p # <<q[1], x[q]>> /\ p # <<y[q], q[2]>>
    <3>. SUFFICES ASSUME NEW q \in b PROVE p[1] # q[1] /\ p[2] # q[2]
      OBVIOUS
    <3>1. q \in I /\ q # p
      BY <1>2, <2>2
    <3>2. p[1] < p[2] /\ q[1] < q[2] /\ p[1] \in Nat /\ q[1] \in Nat /\ p[2] \in Nat /\ q[2] \in Nat
      BY <1>1, <2>8, <3>1, TimelinePair
    <3>3. p[2] <= q[1] \/ q[2] <= p[1]
      BY <1>1, <2>8, <3>1 DEF Timeline
    <3>. QED
      BY <3>2, <3>3
  <2>12. (J \ {p}) \cup {<<p[1], x[p]>>, <<y[p], p[2]>>} = Split(I, c, x, y)
    <3>1. (I \ b) \ {p} = I \ c
      BY <2>2
    <3>2. {<<q[1], x[q]>> : q \in c} = {<<q[1], x[q]>> : q \in b} \cup {<<p[1], x[p]>>}
      BY <2>2
    <3>3. {<<y[q], q[2]>> : q \in c} = {<<y[q], q[2]>> : q \in b} \cup {<<y[p], p[2]>>}
      BY <2>2
    <3>4. p \notin {<<q[1], x[q]>> : q \in b} /\ p \notin {<<y[q], q[2]>> : q \in b}
      BY <2>11
    <3>. QED
      BY <2>4, <3>1, <3>2, <3>3, <3>4 DEF Split
  <2>. QED
    BY <2>9, <2>10, <2>12
<1>5. \A c \in SUBSET C : c # {} /\ c \ {Picked(c)} \in Good => c \in Good
  BY <1>4
<1>. HIDE DEF Good
<1>6. C \in Good
  BY <1>2, <1>3, <1>5, OneByOne
<1>. QED
  BY <1>6 DEF Good

\* r is what became of the interval q, or a part of it.
Part(r, q, C, x, y) ==
  IF q \in C THEN r = <<q[1], x[q]>> \/ r = <<y[q], q[2]>> ELSE r = q

LEMMA PartNumbers ==
  ASSUME NEW I, NEW n, Timeline(I, n), NEW C, NEW x, NEW y, Cuts(I, C, x, y), NEW q \in I, NEW r, Part(r, q, C, x, y)
  PROVE  /\ r \in Split(I, C, x, y)
         /\ r[1] \in Nat /\ r[2] \in Nat /\ r[1] < r[2] /\ q[1] <= r[1] /\ r[2] <= q[2]
         /\ q[1] \in Nat /\ q[2] \in Nat
<1>1. q[1] \in Nat /\ q[2] \in Nat /\ q[1] < q[2]
  BY TimelinePair
<1>2. CASE q \in C
  <2>1. x[q] \in Nat /\ y[q] \in Nat /\ q[1] < x[q] /\ x[q] < y[q] /\ y[q] < q[2]
    BY <1>2 DEF Cuts
  <2>2. r = <<q[1], x[q]>> \/ r = <<y[q], q[2]>>
    BY <1>2 DEF Part
  <2>3. r \in Split(I, C, x, y)
    BY <1>2, <2>2 DEF Split
  <2>. QED
    BY <1>1, <2>1, <2>2, <2>3
<1>3. CASE q \notin C
  BY <1>1, <1>3 DEF Part, Split
<1>. QED
  BY <1>2, <1>3

LEMMA PartExists ==
  ASSUME NEW I, NEW C, NEW x, NEW y
  PROVE  /\ \A r \in Split(I, C, x, y) : C \in SUBSET I => \E q \in I : Part(r, q, C, x, y)
         /\ \A q \in I : \E r : Part(r, q, C, x, y) /\ r[1] = q[1]
         /\ \A q \in I : \E r : Part(r, q, C, x, y) /\ r[2] = q[2]
<1>1. ASSUME NEW r \in Split(I, C, x, y), C \in SUBSET I
      PROVE  \E q \in I : Part(r, q, C, x, y)
  BY <1>1 DEF Split, Part
<1>2. ASSUME NEW q \in I
      PROVE  (\E r : Part(r, q, C, x, y) /\ r[1] = q[1]) /\ (\E r : Part(r, q, C, x, y) /\ r[2] = q[2])
  <2>1. CASE q \in C
    <3>1. Part(<<q[1], x[q]>>, q, C, x, y) /\ Part(<<y[q], q[2]>>, q, C, x, y)
      BY <2>1 DEF Part
    <3>. QED
      BY <3>1
  <2>2. CASE q \notin C
    BY <2>2 DEF Part
  <2>. QED
    BY <2>1, <2>2
<1>. QED
  BY <1>1, <1>2

-----------------------------------------------------------------------------
(* The sessions after the insertion. *)

\* Where a session began, one begins.
LEMMA OpensStill ==
  ASSUME NEW I, NEW n, Timeline(I, n), NEW C, NEW x, NEW y, Cuts(I, C, x, y), NEW J, J = Split(I, C, x, y),
         NEW o \in I, OpensSession(I, o), NEW f \in J, f[1] = o[1]
  PROVE  OpensSession(J, f)
<1>. SUFFICES ASSUME NEW q \in J, q[1] < f[1], f[1] - q[2] < BreakMinutes
              PROVE  FALSE
  BY DEF OpensSession
<1>1. PICK r \in I : Part(q, r, C, x, y)
  BY PartExists DEF Cuts
<1>2. q[1] \in Nat /\ q[2] \in Nat /\ r[1] <= q[1] /\ q[2] <= r[2] /\ r[1] \in Nat /\ r[2] \in Nat
  BY <1>1, PartNumbers
<1>3. o[1] \in Nat
  BY TimelinePair
<1>4. r[1] < o[1] /\ o[1] - r[2] < BreakMinutes
  BY <1>2, <1>3 DEF BreakMinutes
<1>. QED
  BY <1>4 DEF OpensSession

\* A session begins with the first part of an interval only where one began.
LEMMA OpensBefore ==
  ASSUME NEW I, NEW n, Timeline(I, n), NEW C, NEW x, NEW y, Cuts(I, C, x, y), NEW J, J = Split(I, C, x, y),
         NEW r \in I, NEW f \in J, f[1] = r[1], OpensSession(J, f)
  PROVE  OpensSession(I, r)
<1>. SUFFICES ASSUME NEW q \in I, q[1] < r[1], r[1] - q[2] < BreakMinutes
              PROVE  FALSE
  BY DEF OpensSession
<1>1. PICK l : Part(l, q, C, x, y) /\ l[2] = q[2]
  BY PartExists
<1>2. l \in J /\ l[1] \in Nat /\ l[2] \in Nat /\ l[1] < l[2] /\ q[1] \in Nat
  BY <1>1, PartNumbers
<1>3. q[2] <= r[1] /\ r[1] \in Nat
  BY TimelinePair
<1>4. l[1] < f[1] /\ f[1] - l[2] < BreakMinutes
  BY <1>1, <1>2, <1>3 DEF BreakMinutes
<1>. QED
  BY <1>2, <1>4 DEF OpensSession

\* A session from its opening interval.
Opened(I, s, u) == u \in I /\ OpensSession(I, u) /\ s = SessionOf(I, u)

\* The intervals of a session are those between any two of them; only one opens it.
LEMMA SessionRuns ==
  ASSUME NEW I, NEW n, Timeline(I, n), NEW s, NEW u, Opened(I, s, u)
  PROVE  /\ u \in s /\ s \in Sessions(I) /\ s \in SUBSET I /\ s # {}
         /\ \A q \in s : u[1] <= q[1]
         /\ \A q \in s : OpensSession(I, q) => q = u
         /\ \A p, q \in s : \A r \in I : p[1] <= r[1] /\ r[1] <= q[1] => r \in s
         /\ \A p \in s : \A q \in I : p[1] <= q[1]
              /\ (~ \E r \in I : OpensSession(I, r) /\ p[1] < r[1] /\ r[1] <= q[1]) => q \in s
         /\ SessionStart(s) = u[1]
<1>1. s = {q \in I : u[1] <= q[1] /\ ~ \E r \in I : OpensSession(I, r) /\ u[1] < r[1] /\ r[1] <= q[1]}
  BY DEF Opened, SessionOf
<1>2. \A q \in I : q[1] \in Nat
  BY TimelinePair
<1>3. u \in I /\ OpensSession(I, u)
  BY DEF Opened
<1>4. u \in s /\ s \in Sessions(I) /\ s \in SUBSET I /\ s # {} /\ \A q \in s : u[1] <= q[1]
  BY <1>1, <1>2, <1>3 DEF Sessions, Opened
<1>5. ASSUME NEW q \in s, OpensSession(I, q)
      PROVE  q = u
  <2>1. q[1] = u[1]
    BY <1>1, <1>2, <1>3, <1>5
  <2>. QED
    BY <1>1, <1>3, <2>1, TimelinePair
<1>6. \A p, q \in s : \A r \in I : p[1] <= r[1] /\ r[1] <= q[1] => r \in s
  <2>. SUFFICES ASSUME NEW p \in s, NEW q \in s, NEW r \in I, p[1] <= r[1], r[1] <= q[1]
                PROVE  r \in s
    OBVIOUS
  <2>1. u[1] <= r[1]
    BY <1>1, <1>2, <1>3
  <2>2. ~ \E t \in I : OpensSession(I, t) /\ u[1] < t[1] /\ t[1] <= r[1]
    BY <1>1, <1>2
  <2>. QED
    BY <1>1, <2>1, <2>2
<1>7. ASSUME NEW p \in s, NEW q \in I, p[1] <= q[1],
             ~ \E r \in I : OpensSession(I, r) /\ p[1] < r[1] /\ r[1] <= q[1]
      PROVE  q \in s
  <2>1. u[1] <= q[1]
    BY <1>1, <1>2, <1>3, <1>7
  <2>2. ASSUME NEW t \in I, OpensSession(I, t), u[1] < t[1], t[1] <= q[1]
        PROVE  FALSE
    <3>1. ~ (t[1] <= p[1])
      BY <1>1, <2>2
    <3>2. p[1] < t[1]
      BY <1>1, <1>2, <3>1
    <3>. QED
      BY <1>7, <2>2, <3>2
  <2>. QED
    BY <1>1, <2>1, <2>2
<1>8. SessionStart(s) = u[1]
  <2>1. {p[1] : p \in s} \in SUBSET Nat /\ {p[1] : p \in s} # {}
    BY <1>2, <1>4
  <2>2. PICK m : m = Min({p[1] : p \in s})
    OBVIOUS
  <2>3. m \in {p[1] : p \in s} /\ \A z \in {p[1] : p \in s} : m <= z
    BY <2>1, <2>2, MinOfNat
  <2>4. PICK p \in s : m = p[1]
    BY <2>3
  <2>5. m <= u[1] /\ u[1] <= m
    BY <1>4, <2>3, <2>4
  <2>. QED
    BY <1>2, <1>3, <1>4, <2>2, <2>4, <2>5 DEF SessionStart
<1>. QED
  BY <1>4, <1>5, <1>6, <1>7, <1>8

\* A session after the insertion lies within one from before it.
LEMMA SessionFrom ==
  ASSUME NEW I, NEW n, Timeline(I, n), NEW C, NEW x, NEW y, Cuts(I, C, x, y), NEW J, J = Split(I, C, x, y),
         NEW m, Timeline(J, m), NEW t \in Sessions(J)
  PROVE  \E s, u, f, o : /\ Opened(I, s, u) /\ Opened(J, t, f)
                         /\ o \in s /\ Part(f, o, C, x, y)
                         /\ \A r \in t : \E q \in s : Part(r, q, C, x, y)
<1>1. PICK f \in J : Opened(J, t, f)
  BY DEF Sessions, Opened
<1>2. PICK o \in I : Part(f, o, C, x, y)
  BY PartExists DEF Cuts
<1>3. PICK u \in I : OpensSession(I, u) /\ o \in SessionOf(I, u)
  BY SessionCovers
<1>4. PICK s : s = SessionOf(I, u)
  OBVIOUS
<1>5. Opened(I, s, u) /\ o \in s
  BY <1>3, <1>4 DEF Opened
<1>6. ASSUME NEW r \in t
      PROVE  \E q \in s : Part(r, q, C, x, y)
  <2>1. r \in J /\ f[1] <= r[1] /\ ~ \E z \in J : OpensSession(J, z) /\ f[1] < z[1] /\ z[1] <= r[1]
    BY <1>1, <1>6 DEF Opened, SessionOf
  <2>2. PICK q \in I : Part(r, q, C, x, y)
    BY <2>1, PartExists DEF Cuts
  <2>3. /\ q[1] \in Nat /\ q[2] \in Nat /\ r[1] \in Nat /\ r[2] \in Nat /\ q[1] <= r[1] /\ r[1] < r[2] /\ r[2] <= q[2]
    BY <2>2, PartNumbers
  <2>4. /\ o[1] \in Nat /\ o[2] \in Nat /\ f[1] \in Nat /\ f[2] \in Nat /\ o[1] <= f[1] /\ f[1] < f[2] /\ f[2] <= o[2]
    BY <1>2, PartNumbers
  <2>5. o[1] <= q[1]
    <3>1. q[1] < o[1] => q[2] <= o[1]
      BY TimelinePair
    <3>. QED
      BY <2>1, <2>3, <2>4, <3>1
  <2>6. ASSUME NEW z \in I, OpensSession(I, z), o[1] < z[1], z[1] <= q[1]
        PROVE  FALSE
    <3>1. o[2] <= z[1] /\ z[1] \in Nat
      BY <2>6, TimelinePair
    <3>2. PICK g : Part(g, z, C, x, y) /\ g[1] = z[1]
      BY PartExists
    <3>3. g \in J
      BY <3>2, PartNumbers
    <3>4. OpensSession(J, g)
      BY <2>6, <3>2, <3>3, OpensStill
    <3>5. f[1] < g[1] /\ g[1] <= r[1]
      BY <2>3, <2>4, <2>6, <3>1, <3>2
    <3>. QED
      BY <2>1, <3>3, <3>4, <3>5
  <2>7. q \in s
    BY <1>5, <2>5, <2>6, SessionRuns
  <2>. QED
    BY <2>2, <2>7
<1>. QED
  BY <1>1, <1>2, <1>5, <1>6

\* A session that is not cut stays as it is.
LEMMA UncutStays ==
  ASSUME NEW I, NEW n, Timeline(I, n), NEW C, NEW x, NEW y, Cuts(I, C, x, y), NEW J, J = Split(I, C, x, y),
         NEW m, Timeline(J, m), NEW s, NEW u, Opened(I, s, u), NEW t, NEW f, Opened(J, t, f),
         NEW o \in s, Part(f, o, C, x, y), \A r \in t : \E q \in s : Part(r, q, C, x, y),
         s \cap C = {}
  PROVE  t = s
<1>1. f = o /\ t \subseteq s
  BY DEF Part
<1>2. s \in SUBSET I /\ u \in s /\ \A q \in s : OpensSession(I, q) => q = u
  BY SessionRuns
<1>3. s \subseteq J
  BY <1>2 DEF Split
<1>4. ASSUME NEW q \in s, OpensSession(J, q)
      PROVE  q = u
  <2>1. q \in I /\ q \in J
    BY <1>2, <1>3
  <2>2. OpensSession(I, q)
    BY <1>4, <2>1, OpensBefore
  <2>. QED
    BY <1>2, <2>2
<1>5. f = u
  BY <1>1, <1>4 DEF Opened
<1>6. ASSUME NEW q \in s
      PROVE  q \in t
  <2>1. f[1] <= q[1] /\ q \in J
    BY <1>3, <1>5, SessionRuns
  <2>2. ASSUME NEW z \in J, OpensSession(J, z), f[1] < z[1], z[1] <= q[1]
        PROVE  FALSE
    <3>1. PICK r \in I : Part(z, r, C, x, y)
      BY PartExists DEF Cuts
    <3>2. /\ z[1] \in Nat /\ z[2] \in Nat /\ r[1] <= z[1] /\ z[1] < z[2] /\ z[2] <= r[2] /\ r[1] \in Nat /\ r[2] \in Nat
      BY <3>1, PartNumbers
    <3>3. q \in I /\ u \in I /\ q[1] \in Nat /\ u[1] \in Nat
      BY <1>2, TimelinePair
    <3>4. u[1] <= r[1] /\ r[1] <= q[1]
      <4>1. r[1] < u[1] => r[2] <= u[1]
        BY <3>3, TimelinePair
      <4>. QED
        BY <1>5, <2>2, <3>2, <3>3, <4>1
    <3>5. r \in s
      BY <1>2, <3>4, SessionRuns
    <3>6. z = r
      BY <3>1, <3>5 DEF Part
    <3>7. z = u
      BY <1>4, <2>2, <3>5, <3>6
    <3>. QED
      BY <1>5, <2>2, <3>2, <3>7
  <2>. QED
    BY <2>1, <2>2 DEF Opened, SessionOf
<1>. QED
  BY <1>1, <1>6

\* With a pause shorter than half an hour the session stays one.
LEMMA ShortPauseKeeps ==
  ASSUME NEW I, NEW n, Timeline(I, n), NEW C, NEW x, NEW y, Cuts(I, C, x, y), NEW J, J = Split(I, C, x, y),
         NEW m, Timeline(J, m), NEW s, NEW u, Opened(I, s, u), NEW t, NEW f, Opened(J, t, f),
         NEW o \in s, Part(f, o, C, x, y), \A r \in t : \E q \in s : Part(r, q, C, x, y),
         \A q \in s \cap C : y[q] - x[q] < BreakMinutes
  PROVE  SessionStart(t) = SessionStart(s) /\ SessionEnd(t) = SessionEnd(s)
<1>1. s \in SUBSET I /\ s # {} /\ u \in s /\ \A q \in s : OpensSession(I, q) => q = u
  BY SessionRuns
<1>2. ASSUME NEW q \in s, NEW r \in J, Part(r, q, C, x, y), OpensSession(J, r)
      PROVE  r[1] = u[1]
  <2>1. CASE r[1] = q[1]
    <3>1. OpensSession(I, q)
      BY <1>1, <1>2, <2>1, OpensBefore
    <3>. QED
      BY <1>1, <2>1, <3>1
  <2>2. CASE r[1] # q[1]
    <3>1. q \in C /\ r[1] = y[q]
      BY <1>2, <2>2 DEF Part
    <3>2. x[q] \in Nat /\ y[q] \in Nat /\ q[1] < x[q] /\ x[q] < y[q] /\ y[q] - x[q] < BreakMinutes /\ q[1] \in Nat
      BY <1>1, <3>1, TimelinePair DEF Cuts
    <3>3. PICK g : g = <<q[1], x[q]>>
      OBVIOUS
    <3>4. g \in J /\ g[1] < r[1] /\ r[1] - g[2] < BreakMinutes
      BY <3>1, <3>2, <3>3 DEF Split
    <3>. QED
      BY <1>2, <3>4 DEF OpensSession
  <2>. QED
    BY <2>1, <2>2
<1>3. f \in J /\ f[1] = u[1]
  BY <1>2 DEF Opened
<1>4. SessionStart(t) = SessionStart(s)
  BY <1>3, SessionRuns
<1>5. t \in SUBSET J /\ t # {}
  BY SessionRuns
<1>6. PICK l \in s : l[2] = SessionEnd(s) /\ \A q \in s : q[1] <= l[1]
  BY <1>1, SessionEnds, FirstLast
<1>7. PICK g : Part(g, l, C, x, y) /\ g[2] = l[2]
  BY <1>1, PartExists
<1>8. l \in I /\ g \in J /\ g[1] \in Nat /\ g[2] \in Nat /\ l[1] \in Nat /\ l[1] <= g[1] /\ u[1] \in Nat /\ u[1] <= l[1]
  BY <1>1, <1>6, <1>7, PartNumbers, TimelinePair
<1>9. g \in t
  <2>1. ASSUME NEW z \in J, OpensSession(J, z), f[1] < z[1], z[1] <= g[1]
        PROVE  FALSE
    <3>1. PICK r \in I : Part(z, r, C, x, y)
      BY PartExists DEF Cuts
    <3>2. /\ z[1] \in Nat /\ z[2] \in Nat /\ r[1] <= z[1] /\ z[1] < z[2] /\ z[2] <= r[2] /\ r[1] \in Nat /\ r[2] \in Nat
      BY <3>1, PartNumbers
    <3>3. u[1] <= r[1]
      <4>1. r[1] < u[1] => r[2] <= u[1]
        BY <1>1, TimelinePair
      <4>. QED
        BY <1>3, <1>8, <2>1, <3>2, <4>1
    <3>4. r[1] <= l[1]
      <4>1. l[1] < r[1] => l[2] <= r[1]
        BY <1>8, TimelinePair
      <4>2. g[1] < l[2]
        BY <1>7, <1>8, PartNumbers
      <4>3. l[2] \in Nat
        BY <1>8, TimelinePair
      <4>. QED
        BY <1>8, <2>1, <3>2, <4>1, <4>2, <4>3
    <3>5. r \in s
      BY <1>1, <1>6, <3>3, <3>4, SessionRuns
    <3>6. z[1] = u[1]
      BY <1>2, <2>1, <3>1, <3>5
    <3>. QED
      BY <1>3, <1>8, <2>1, <3>6
  <2>2. f[1] <= g[1]
    BY <1>3, <1>8
  <2>. QED
    BY <1>8, <2>1, <2>2 DEF Opened, SessionOf
<1>10. SessionEnd(t) \in Nat /\ g[2] <= SessionEnd(t)
  BY <1>5, <1>9, SessionEnds
<1>11. PICK h \in t : h[2] = SessionEnd(t)
  BY <1>5, SessionEnds, FirstLast
<1>12. PICK q \in s : Part(h, q, C, x, y)
  OBVIOUS
<1>13. h[2] <= q[2] /\ q[2] <= SessionEnd(s) /\ q[2] \in Nat /\ SessionEnd(s) \in Nat
  BY <1>1, <1>12, PartNumbers, SessionEnds
<1>. QED
  BY <1>4, <1>6, <1>7, <1>10, <1>11, <1>13

\* One short pause that completes the half hour: nothing is missing any more.
LEMMA ShortPauseSettles ==
  ASSUME NEW I, NEW n, Timeline(I, n), NEW C, NEW x, NEW y, Cuts(I, C, x, y), NEW J, J = Split(I, C, x, y),
         NEW m, Timeline(J, m), NEW s, NEW u, Opened(I, s, u), NEW t, NEW f, Opened(J, t, f),
         NEW o \in s, Part(f, o, C, x, y), \A r \in t : \E q \in s : Part(r, q, C, x, y),
         NEW p \in s \cap C, s \cap C = {p}, y[p] - x[p] < BreakMinutes,
         break_count(SessionEnd(s) - SessionStart(s)) = 1,
         ExistingMinutes(s) + (y[p] - x[p]) >= BreakMinutes
  PROVE  MissingMinutes(t) <= 0
<1>1. SessionStart(t) = SessionStart(s) /\ SessionEnd(t) = SessionEnd(s)
  <2>1. \A q \in s \cap C : y[q] - x[q] < BreakMinutes
    OBVIOUS
  <2>. QED
    BY <2>1, ShortPauseKeeps
<1>2. s \in SUBSET I /\ s # {}
  BY SessionRuns
<1>3. PICK a \in Nat, b \in Nat : a = SessionStart(s) /\ b = SessionEnd(s) /\ a < b
  BY <1>2, SessionEnds
<1>4. PICK v \in Nat, w \in Nat : v = x[p] /\ w = y[p] /\ p[1] < v /\ v < w /\ w < p[2]
  BY DEF Cuts
<1>5. p \in I /\ p[1] \in Nat /\ p[2] \in Nat /\ a <= p[1] /\ p[2] <= b
  BY <1>2, <1>3, SessionEnds, TimelinePair
<1>. DEFINE X == {z \in a .. b - 1 : ~ \E q \in s : q[1] <= z /\ z < q[2]}
            Y == {z \in a .. b - 1 : ~ \E q \in t : q[1] <= z /\ z < q[2]}
            Z == v .. w - 1
<1>6. IsFiniteSet(X) /\ IsFiniteSet(Y) /\ IsFiniteSet(Z) /\ Cardinality(Z) = w - v
  <2>1. IsFiniteSet(a .. b - 1)
    BY <1>3, IntervalSize
  <2>2. IsFiniteSet(X)
    BY <2>1, FS_Subset
  <2>3. IsFiniteSet(Y)
    BY <2>1, FS_Subset
  <2>4. IsFiniteSet(Z) /\ Cardinality(Z) = w - v
    BY <1>4, IntervalSize
  <2>. QED
    BY <2>2, <2>3, <2>4
<1>7. X \subseteq Y
  <2>. SUFFICES ASSUME NEW z \in a .. b - 1, NEW r \in t, r[1] <= z, z < r[2]
                PROVE  \E q \in s : q[1] <= z /\ z < q[2]
    OBVIOUS
  <2>1. PICK q \in s : Part(r, q, C, x, y)
    OBVIOUS
  <2>2. q[1] \in Nat /\ q[2] \in Nat /\ r[1] \in Nat /\ r[2] \in Nat /\ q[1] <= r[1] /\ r[2] <= q[2]
    BY <1>2, <2>1, PartNumbers
  <2>. QED
    BY <2>2
<1>8. Z \subseteq Y
  <2>. SUFFICES ASSUME NEW z \in v .. w - 1
                PROVE  z \in a .. b - 1 /\ ~ \E r \in t : r[1] <= z /\ z < r[2]
    OBVIOUS
  <2>1. z \in a .. b - 1
    BY <1>3, <1>4, <1>5
  <2>2. ASSUME NEW r \in t, r[1] <= z, z < r[2]
        PROVE  FALSE
    <3>1. PICK q \in s : Part(r, q, C, x, y)
      OBVIOUS
    <3>2. q \in I /\ q[1] \in Nat /\ q[2] \in Nat /\ r[1] \in Nat /\ r[2] \in Nat /\ q[1] <= r[1] /\ r[2] <= q[2]
      BY <1>2, <3>1, PartNumbers
    <3>3. q = p
      <4>1. q = p \/ q[2] <= p[1] \/ p[2] <= q[1]
        BY <1>5, <3>2 DEF Timeline
      <4>. QED
        BY <1>4, <1>5, <2>2, <3>2, <4>1
    <3>4. r = <<p[1], v>> \/ r = <<w, p[2]>>
      BY <1>4, <3>1, <3>3 DEF Part
    <3>. QED
      BY <1>4, <2>2, <3>4
  <2>. QED
    BY <2>1, <2>2
<1>9. X \cap Z = {}
  BY <1>4, <1>5
<1>10. ExistingMinutes(s) = Cardinality(X) /\ ExistingMinutes(t) = Cardinality(Y)
  BY <1>1, <1>3 DEF ExistingMinutes
<1>. HIDE DEF X, Y, Z
<1>11. Cardinality(X) \in Nat /\ Cardinality(Y) \in Nat
  BY <1>6, FS_CardinalityType
<1>12. PICK U : U = X \cup Z
  OBVIOUS
<1>13. IsFiniteSet(U) /\ Cardinality(U) = Cardinality(X) + (w - v)
  <2>1. Cardinality(X \cap Z) = 0
    BY <1>9, FS_EmptySet
  <2>2. IsFiniteSet(U) /\ Cardinality(U) = Cardinality(X) + Cardinality(Z) - Cardinality(X \cap Z)
    BY <1>6, <1>12, FS_Union
  <2>. QED
    BY <1>4, <1>6, <1>11, <2>1, <2>2
<1>14. Cardinality(U) <= Cardinality(Y)
  <2>1. U \in SUBSET Y
    BY <1>7, <1>8, <1>12
  <2>. QED
    BY <1>6, <2>1, FS_Subset
<1>15. Cardinality(Y) >= 30
  BY <1>4, <1>10, <1>11, <1>13, <1>14 DEF BreakMinutes
<1>16. MissingMinutes(t) = 30 * 1 - Cardinality(Y)
  BY <1>1, <1>10 DEF MissingMinutes, BreakMinutes
<1>. QED
  BY <1>11, <1>15, <1>16

\* A session without a minute of pause is one interval.
LEMMA NoPauseOneInterval ==
  ASSUME NEW S \in SUBSET Nat, IsFiniteSet(S), NEW I, I = pair_event_rows(S), NEW n, Timeline(I, n),
         NEW s, s \in SUBSET I, ExistingMinutes(s) = 0, NEW p \in s
  PROVE  s = {p}
<1>1. ASSUME NEW a \in s, NEW b \in s, a[1] < b[1]
      PROVE  FALSE
  <2>1. a \in I /\ b \in I /\ a[1] \in Nat /\ a[2] \in Nat /\ b[1] \in Nat /\ b[2] \in Nat /\ a[1] < a[2] /\ b[1] < b[2]
        /\ a[2] <= b[1]
    BY <1>1, TimelinePair
  <2>2. SessionStart(s) \in Nat /\ SessionEnd(s) \in Nat /\ SessionStart(s) <= a[1] /\ b[2] <= SessionEnd(s)
    BY SessionEnds
  <2>. DEFINE X == {z \in SessionStart(s) .. SessionEnd(s) - 1 : ~ \E q \in s : q[1] <= z /\ z < q[2]}
  <2>3. ASSUME NEW q \in s, q[1] <= a[2], a[2] < q[2]
        PROVE  FALSE
    <3>1. q \in I /\ q[1] \in Nat /\ q[2] \in Nat /\ a[2] # q[1]
      BY <2>1, PairsSeparate, TimelinePair
    <3>2. q = a \/ q[2] <= a[1] \/ a[2] <= q[1]
      BY <2>1, <3>1 DEF Timeline
    <3>. QED
      BY <2>1, <2>3, <3>1, <3>2
  <2>4. a[2] \in X
    BY <2>1, <2>2, <2>3
  <2>5. IsFiniteSet(X)
    <3>1. IsFiniteSet(SessionStart(s) .. SessionEnd(s) - 1)
      BY <2>2, FS_Interval
    <3>. QED
      BY <3>1, FS_Subset
  <2>6. Cardinality(X) = 0
    BY DEF ExistingMinutes
  <2>. HIDE DEF X
  <2>. QED
    BY <2>4, <2>5, <2>6, FS_EmptySet
<1>2. ASSUME NEW q \in s
      PROVE  q = p
  <2>1. q \in I /\ p \in I /\ q[1] \in Nat /\ p[1] \in Nat
    BY TimelinePair
  <2>2. q[1] = p[1]
    BY <1>1, <2>1
  <2>. QED
    BY <2>1, <2>2, TimelinePair
<1>. QED
  BY <1>2

\* Half an hour between two parts: each is a session of its own.
LEMMA LongPauseParts ==
  ASSUME NEW I, NEW n, Timeline(I, n), NEW C, NEW x, NEW y, Cuts(I, C, x, y), NEW J, J = Split(I, C, x, y),
         NEW m, Timeline(J, m), NEW p \in C, y[p] - x[p] >= BreakMinutes,
         NEW t, NEW f, Opened(J, t, f), \A r \in t : Part(r, p, C, x, y)
  PROVE  t = {<<p[1], x[p]>>} \/ t = {<<y[p], p[2]>>}
<1>1. PICK a \in Nat, b \in Nat, v \in Nat, w \in Nat :
        /\ a = p[1] /\ b = p[2] /\ v = x[p] /\ w = y[p] /\ a < v /\ v < w /\ w < b /\ w - v >= BreakMinutes
        /\ p \in I
  BY TimelinePair DEF Cuts
<1>2. \A r \in t : r = <<a, v>> \/ r = <<w, b>>
  BY <1>1 DEF Part
<1>3. <<w, b>> \in J
  BY <1>1 DEF Split
<1>4. OpensSession(J, <<w, b>>)
  <2>. SUFFICES ASSUME NEW q \in J, q[1] < w, w - q[2] < BreakMinutes
                PROVE  FALSE
    BY DEF OpensSession
  <2>1. PICK r \in I : Part(q, r, C, x, y)
    BY PartExists DEF Cuts
  <2>2. r[1] \in Nat /\ r[2] \in Nat /\ q[1] \in Nat /\ q[2] \in Nat /\ r[1] <= q[1] /\ q[1] < q[2] /\ q[2] <= r[2]
    BY <2>1, PartNumbers
  <2>3. CASE r = p
    <3>1. q = <<a, v>> \/ q = <<w, b>>
      BY <1>1, <2>1, <2>3 DEF Part
    <3>. QED
      BY <1>1, <3>1 DEF BreakMinutes
  <2>4. CASE r # p
    <3>1. r[2] <= a \/ b <= r[1]
      BY <1>1, <2>4 DEF Timeline
    <3>. QED
      BY <1>1, <2>2, <3>1 DEF BreakMinutes
  <2>. QED
    BY <2>3, <2>4
<1>5. f \in t /\ (\A q \in t : f[1] <= q[1]) /\ \A q \in t : OpensSession(J, q) => q = f
  BY SessionRuns
<1>6. CASE f = <<w, b>>
  <2>1. <<a, v>> \notin t
    BY <1>1, <1>5, <1>6
  <2>. QED
    BY <1>1, <1>2, <1>5, <1>6, <2>1
<1>7. CASE f = <<a, v>>
  <2>1. <<w, b>> \notin t
    BY <1>1, <1>4, <1>5, <1>7
  <2>. QED
    BY <1>1, <1>2, <1>5, <1>7, <2>1
<1>. QED
  BY <1>2, <1>5, <1>6, <1>7

\* A session of one interval of at most six hours lacks nothing.
LEMMA ShortIntervalSettled ==
  ASSUME NEW a \in Nat, NEW b \in Nat, a < b, b - a <= SegmentMinutes, NEW t, t = {<<a, b>>}
  PROVE  MissingMinutes(t) <= 0
<1>1. PICK n : n = b
  OBVIOUS
<1>2. Timeline(t, n)
  <2>1. IsFiniteSet(t)
    BY FS_Singleton
  <2>. QED
    BY <1>1, <2>1 DEF Timeline, Intervals
<1>3. SessionStart(t) \in Nat /\ SessionEnd(t) \in Nat /\ SessionStart(t) = a /\ SessionEnd(t) = b
  <2>1. PICK q \in t, r \in t : SessionStart(t) = q[1] /\ SessionEnd(t) = r[2]
    BY <1>2, SessionEnds, FirstLast
  <2>. QED
    BY <2>1
<1>4. break_count(b - a) = 0
  BY BreakCountSmall
<1>5. ExistingMinutes(t) \in Nat
  <2>. DEFINE X == {z \in a .. b - 1 : ~ \E p \in t : p[1] <= z /\ z < p[2]}
  <2>1. IsFiniteSet(X)
    BY IntervalSize, FS_Subset
  <2>2. Cardinality(X) \in Nat
    BY <2>1, FS_CardinalityType
  <2>. QED
    BY <1>3, <2>2 DEF ExistingMinutes
<1>. QED
  BY <1>3, <1>4, <1>5 DEF MissingMinutes, BreakMinutes

-----------------------------------------------------------------------------
(* One break settles a session. *)

Fit(s, lo, hi) ==
  /\ SessionEnd(s) > lo /\ SessionStart(s) < hi /\ MissingMinutes(s) > 0
  /\ \A k \in 1 .. PauseCount(s) : Roomy(s, PauseLength(s, k)) # {}

\* The one pause of the session, from v to w inside its interval p.
PauseOf(s, p, v, w) ==
  /\ PauseCount(s) = 1 /\ Pause(s, 1) = <<v, w>> /\ v \in Nat /\ w \in Nat
  /\ p \in s /\ p[1] < v /\ v < w /\ w < p[2]
  /\ w - v + ExistingMinutes(s) = 30 /\ ExistingMinutes(s) \in Nat
  /\ break_count(SessionEnd(s) - SessionStart(s)) = 1

LEMMA OnePause ==
  ASSUME NEW I, NEW n, Timeline(I, n), NEW s \in Sessions(I), NEW lo, NEW hi, Fit(s, lo, hi),
         break_count(SessionEnd(s) - SessionStart(s)) <= 1
  PROVE  \E p, v, w : PauseOf(s, p, v, w)
<1>1. Measured(s, I)
  BY SessionMeasured
<1>2. PICK a \in Nat, b \in Nat, e \in Nat, c \in Nat :
        /\ a = SessionStart(s) /\ b = SessionEnd(s) /\ e = ExistingMinutes(s) /\ c = break_count(b - a)
        /\ MissingMinutes(s) = 30 * c - e
  BY <1>1 DEF Measured, BreakMinutes
<1>3. c = 1 /\ 30 - e > 0
  BY <1>2 DEF Fit
<1>4. PICK l \in Nat : l = 30 - e /\ l >= 1 /\ l <= 30
  BY <1>3
<1>5. PauseCount(s) = 1 /\ PauseLength(s, 1) = l
  BY <1>2, <1>3, <1>4 DEF PauseCount, PauseLength, BreakMinutes
<1>6. Roomy(s, l) # {}
  <2>1. 1 \in 1 .. PauseCount(s)
    BY <1>5
  <2>. QED
    BY <1>5, <2>1 DEF Fit
<1>7. PICK x : x = placement(s, a + 360 * 1, l)
  OBVIOUS
<1>8. Pause(s, 1) = <<x, x + l>>
  BY <1>2, <1>5, <1>7 DEF Pause, SegmentMinutes
<1>9. PICK p \in s : x \in Int /\ p[1] < x /\ x + l < p[2]
  <2>1. Intervals(I, n) /\ s \subseteq I
    BY <1>1 DEF Timeline, Measured
  <2>2. PICK g \in Int : g = a + 360 * 1
    OBVIOUS
  <2>3. x = placement(s, g, l)
    BY <1>7, <2>2
  <2>. QED
    BY <1>4, <1>6, <2>1, <2>3, PlacementInside
<1>10. p[1] \in Nat
  BY <1>1, TimelinePair DEF Measured
<1>. QED
  BY <1>2, <1>3, <1>4, <1>5, <1>8, <1>9, <1>10 DEF PauseOf

\* Without any pause before, the parts on either side last six hours at most.
LEMMA LongPauseEnds ==
  ASSUME NEW s, NEW p, NEW v, NEW w, PauseOf(s, p, v, w), ExistingMinutes(s) = 0, s = {p},
         NEW lo, NEW hi, Fit(s, lo, hi), NEW a \in Nat, NEW b \in Nat, p = <<a, b>>
  PROVE  v - a <= 360 /\ b - w <= 360
<1>1. /\ PauseCount(s) = 1 /\ Pause(s, 1) = <<v, w>> /\ v \in Nat /\ w \in Nat
      /\ a < v /\ v < w /\ w < b /\ w - v = 30 /\ break_count(SessionEnd(s) - SessionStart(s)) = 1
  BY DEF PauseOf
<1>2. SessionStart(s) = a /\ SessionEnd(s) = b
  <2>1. Timeline(s, b)
    <3>1. IsFiniteSet(s)
      BY FS_Singleton
    <3>. QED
      BY <1>1, <3>1 DEF Timeline, Intervals
  <2>2. PICK q \in s, r \in s : SessionStart(s) = q[1] /\ SessionEnd(s) = r[2]
    BY <2>1, SessionEnds, FirstLast
  <2>. QED
    BY <2>2
<1>3. b - a > 360 /\ b - a <= 750
  <2>1. PICK d \in Nat : d = b - a /\ break_count(d) = 1
    BY <1>1, <1>2
  <2>2. d > SegmentMinutes
    BY <2>1, BreakCountSmall DEF SegmentMinutes
  <2>3. BreaksSuffice(d, 1)
    BY <2>1, <2>2, BreakCount
  <2>. QED
    BY <2>1, <2>2, <2>3 DEF BreaksSuffice, SegmentMinutes, BreakMinutes
<1>4. MissingMinutes(s) = 30
  BY <1>1 DEF MissingMinutes, BreakMinutes
<1>5. PauseLength(s, 1) = 30
  BY <1>4 DEF PauseLength, BreakMinutes
<1>6. Roomy(s, 30) = {p} /\ a + 1 <= b - 31
  <2>1. 1 \in 1 .. PauseCount(s)
    BY <1>1
  <2>2. Roomy(s, 30) # {}
    BY <1>5, <2>1 DEF Fit
  <2>. QED
    BY <2>2 DEF Roomy, Earliest, Latest
<1>7. v = placement(s, a + 360, 30)
  BY <1>1, <1>2, <1>5 DEF Pause, SegmentMinutes
<1>8. PICK R : R = Roomy(s, 30)
  OBVIOUS
<1>9. PICK last : last = CHOOSE q \in R : \A r \in R : r[1] <= q[1]
  OBVIOUS
<1>10. last = p
  <2>1. \E q \in R : \A r \in R : r[1] <= q[1]
    BY <1>6, <1>8
  <2>2. last \in R
    BY <1>9, <2>1
  <2>. QED
    BY <1>6, <1>8, <2>2
<1>11. PICK hit : hit = {q \in R : q[1] + 1 <= a + 360 /\ a + 360 <= q[2] - 30 - 1}
  OBVIOUS
<1>12. v = IF hit # {} THEN a + 360 ELSE Clamp(a + 360, last[1] + 1, last[2] - 30 - 1)
  BY <1>7, <1>8, <1>9, <1>11 DEF placement, Earliest, Latest
<1>13. hit # {} <=> a + 360 <= b - 31
  <2>1. R = {p} /\ p[1] = a /\ p[2] = b
    BY <1>6, <1>8
  <2>2. \A q : q \in hit <=> q = p /\ a + 1 <= a + 360 /\ a + 360 <= b - 30 - 1
    BY <1>11, <2>1
  <2>3. hit # {} <=> a + 360 <= b - 30 - 1
    BY <2>2
  <2>. QED
    BY <2>3
<1>14. last[1] = a /\ last[2] = b
  BY <1>10
<1>15. v = IF a + 360 <= b - 31 THEN a + 360 ELSE b - 31
  BY <1>6, <1>12, <1>13, <1>14 DEF Clamp
<1>. QED
  BY <1>1, <1>3, <1>15

\* After the pauses of all fitting sessions are inserted, no session fits.
LEMMA OneBreakEach ==
  ASSUME NEW S \in SUBSET Nat, IsFiniteSet(S), NEW I, I = pair_event_rows(S), NEW lo, NEW hi,
         \A s \in Sessions(I) : break_count(SessionEnd(s) - SessionStart(s)) <= 1,
         NEW F, F = {s \in Sessions(I) : Fit(s, lo, hi)},
         NEW P, P = UNION {{Pause(s, 1)[1], Pause(s, 1)[2]} : s \in F},
         NEW t \in Sessions(pair_event_rows(S \cup P))
  PROVE  ~ Fit(t, lo, hi)
<1>1. PICK n \in Nat : Timeline(I, n) /\ \A z \in S : z <= n
  BY PairsTimeline
<1>2. PICK h : h = [s \in F |-> CHOOSE p : PauseOf(s, p, Pause(s, 1)[1], Pause(s, 1)[2])]
  OBVIOUS
<1>3. ASSUME NEW s \in F
      PROVE  PauseOf(s, h[s], Pause(s, 1)[1], Pause(s, 1)[2])
  <2>1. PICK p, v, w : PauseOf(s, p, v, w)
    BY <1>1, OnePause
  <2>2. Pause(s, 1)[1] = v /\ Pause(s, 1)[2] = w
    BY <2>1 DEF PauseOf
  <2>3. \E q : PauseOf(s, q, Pause(s, 1)[1], Pause(s, 1)[2])
    BY <2>1, <2>2
  <2>. QED
    BY <1>2, <2>3
<1>4. \A s \in F : s \in Sessions(I) /\ s \in SUBSET I /\ h[s] \in s
  BY <1>1, <1>3, SessionMeasured DEF Measured, PauseOf
<1>5. PICK C : C = {h[s] : s \in F}
  OBVIOUS
<1>6. PICK own : own = [p \in C |-> CHOOSE s \in F : p \in s]
  OBVIOUS
<1>7. ASSUME NEW s \in F, NEW r \in F, h[r] \in s
      PROVE  r = s
  BY <1>1, <1>4, <1>7, SessionsApart
<1>8. ASSUME NEW s \in F
      PROVE  h[s] \in C /\ own[h[s]] = s /\ s \cap C = {h[s]}
  <2>1. h[s] \in C
    BY <1>5
  <2>2. own[h[s]] \in F /\ h[s] \in own[h[s]]
    BY <1>4, <1>6, <2>1
  <2>3. own[h[s]] = s
    BY <1>7, <2>2
  <2>4. s \cap C = {h[s]}
    BY <1>4, <1>5, <1>7
  <2>. QED
    BY <2>1, <2>3, <2>4
<1>9. PICK x, y : x = [p \in C |-> Pause(own[p], 1)[1]] /\ y = [p \in C |-> Pause(own[p], 1)[2]]
  OBVIOUS
<1>10. \A s \in F : x[h[s]] = Pause(s, 1)[1] /\ y[h[s]] = Pause(s, 1)[2]
  BY <1>8, <1>9
<1>11. \A s \in F : PauseOf(s, h[s], x[h[s]], y[h[s]])
  BY <1>3, <1>10
<1>12. Cuts(I, C, x, y)
  BY <1>4, <1>5, <1>11 DEF Cuts, PauseOf
<1>13. Points(C, x, y) = P
  BY <1>5, <1>10 DEF Points
<1>14. PICK J : J = Split(I, C, x, y)
  OBVIOUS
<1>15. pair_event_rows(S \cup P) = J
  BY <1>12, <1>13, <1>14, PairsSplit
<1>16. PICK m : Timeline(J, m)
  <2>1. \A q \in I : q[1] \in Nat /\ q[2] \in Nat /\ q[2] <= n
    BY <1>1, TimelinePair
  <2>2. \A q \in C : x[q] \in 0 .. n /\ y[q] \in 0 .. n
    BY <1>12, <2>1 DEF Cuts
  <2>3. P \subseteq 0 .. n
    BY <1>13, <2>2 DEF Points
  <2>4. S \subseteq 0 .. n
    BY <1>1
  <2>5. PICK T : T = S \cup P
    OBVIOUS
  <2>6. T \in SUBSET (0 .. n)
    BY <2>3, <2>4, <2>5
  <2>7. T \in SUBSET Nat /\ IsFiniteSet(T)
    <3>1. IsFiniteSet(0 .. n)
      BY FS_Interval
    <3>2. IsFiniteSet(T)
      BY <2>6, <3>1, FS_Subset
    <3>. QED
      BY <2>6, <3>2
  <2>. QED
    BY <1>15, <2>5, <2>7, PairsTimeline
<1>17. PICK s, u, f, o : /\ Opened(I, s, u) /\ Opened(J, t, f)
                         /\ o \in s /\ Part(f, o, C, x, y)
                         /\ \A r \in t : \E q \in s : Part(r, q, C, x, y)
  BY <1>1, <1>12, <1>14, <1>15, <1>16, SessionFrom
<1>18. s \in Sessions(I) /\ s \in SUBSET I
  BY <1>1, <1>17, SessionRuns
<1>19. CASE s \notin F
  <2>1. s \cap C = {}
    <3>. SUFFICES ASSUME NEW r \in F, h[r] \in s PROVE FALSE
      BY <1>5
    <3>1. r = s
      BY <1>1, <1>4, <1>18, SessionsApart
    <3>. QED
      BY <1>19, <3>1
  <2>2. t = s
    BY <1>1, <1>12, <1>14, <1>16, <1>17, <2>1, UncutStays
  <2>. QED
    BY <1>18, <1>19, <2>2
<1>20. CASE s \in F
  <2>1. PICK p : p = h[s]
    OBVIOUS
  <2>2. PauseOf(s, p, x[p], y[p]) /\ p \in C /\ s \cap C = {p} /\ p \in s
    BY <1>4, <1>8, <1>11, <1>20, <2>1
  <2>3. PICK v \in Nat, w \in Nat : v = x[p] /\ w = y[p] /\ w - v + ExistingMinutes(s) = 30 /\ ExistingMinutes(s) \in Nat
    BY <2>2 DEF PauseOf
  <2>4. CASE ExistingMinutes(s) > 0
    <3>1. y[p] - x[p] < BreakMinutes /\ ExistingMinutes(s) + (y[p] - x[p]) >= BreakMinutes
      BY <2>3, <2>4 DEF BreakMinutes
    <3>2. break_count(SessionEnd(s) - SessionStart(s)) = 1
      BY <2>2 DEF PauseOf
    <3>3. MissingMinutes(t) <= 0
      BY <1>1, <1>12, <1>14, <1>16, <1>17, <2>2, <3>1, <3>2, ShortPauseSettles
    <3>. QED
      BY <1>1, <1>15, <1>16, <3>3, SessionMeasured DEF Fit, Measured
  <2>5. CASE ExistingMinutes(s) = 0
    <3>1. s = {p}
      BY <1>1, <1>18, <2>2, <2>5, NoPauseOneInterval
    <3>2. PICK a \in Nat, b \in Nat : p = <<a, b>> /\ a = p[1] /\ b = p[2]
      BY <1>18, <2>2, PairRows
    <3>3. v - a <= 360 /\ b - w <= 360
      BY <1>20, <2>2, <2>3, <2>5, <3>1, <3>2, LongPauseEnds
    <3>4. a < v /\ w < b
      BY <2>2, <2>3, <3>2 DEF PauseOf
    <3>5. t = {<<a, v>>} \/ t = {<<w, b>>}
      <4>1. y[p] - x[p] >= BreakMinutes
        BY <2>3, <2>5 DEF BreakMinutes
      <4>2. \A r \in t : Part(r, p, C, x, y)
        BY <1>17, <3>1
      <4>3. t = {<<p[1], x[p]>>} \/ t = {<<y[p], p[2]>>}
        BY <1>1, <1>12, <1>14, <1>16, <1>17, <2>2, <4>1, <4>2, LongPauseParts
      <4>. QED
        BY <2>3, <3>2, <4>3
    <3>6. MissingMinutes(t) <= 0
      BY <3>3, <3>4, <3>5, ShortIntervalSettled DEF SegmentMinutes
    <3>. QED
      BY <1>1, <1>15, <1>16, <3>6, SessionMeasured DEF Fit, Measured
  <2>. QED
    BY <2>3, <2>4, <2>5
<1>. QED
  BY <1>19, <1>20

\* The times the request inserts are the pauses of the fitting sessions.
LEMMA InsertedPauses ==
  ASSUME Missing!TypeOK, additions = Missing!MissingGroups, NEW I, I = pair_event_rows(times),
         \A s \in Sessions(I) : break_count(SessionEnd(s) - SessionStart(s)) <= 1,
         NEW F, F = {s \in Sessions(I) : Fit(s, RangeStart, RangeEnd)}
  PROVE  Missing!Inserted = UNION {{Pause(s, 1)[1], Pause(s, 1)[2]} : s \in F}
<1>1. times \in SUBSET Nat /\ IsFiniteSet(times)
  BY MissingFinite DEF Missing!TypeOK
<1>2. PICK n \in Nat : Timeline(I, n)
  BY <1>1, PairsTimeline
<1>. DEFINE G(s) == [k \in 1 .. PauseCount(s) |-> Pause(s, k)]
<1>3. additions = {G(s) : s \in F}
  <2>1. additions = missing_break_event_groups(I, RangeStart, RangeEnd)
    BY MissingPairs, MissingOfIntervals DEF Missing!MissingGroups, Missing!StoredIntervals
  <2>. QED
    BY <2>1 DEF missing_break_event_groups, Fit
<1>4. ASSUME NEW s \in F
      PROVE  /\ DOMAIN G(s) = {1} /\ G(s)[1] = Pause(s, 1)
             /\ Pause(s, 1)[1] \notin times /\ Pause(s, 1)[2] \notin times
  <2>1. PICK p, v, w : PauseOf(s, p, v, w)
    BY <1>2, OnePause
  <2>2. /\ PauseCount(s) = 1 /\ Pause(s, 1) = <<v, w>> /\ v \in Nat /\ w \in Nat
        /\ p \in s /\ p[1] < v /\ v < w /\ w < p[2]
    BY <2>1 DEF PauseOf
  <2>3. p \in I
    BY <1>2, <2>2, SessionMeasured DEF Measured
  <2>4. p[1] \in Nat /\ p[2] \in Nat /\ \A z \in times : ~ (p[1] < z /\ z < p[2])
    BY <1>1, <2>3, PairRows
  <2>5. v \notin times /\ w \notin times
    BY <2>2, <2>4
  <2>6. DOMAIN G(s) = 1 .. 1 /\ G(s)[1] = Pause(s, 1)
    BY <2>2
  <2>. QED
    BY <2>2, <2>5, <2>6
<1>. HIDE DEF G
<1>5. \A s \in F : Missing!New(G(s)) = {1}
  BY <1>4 DEF Missing!New
<1>. DEFINE H(g) == UNION {{g[k][1], g[k][2]} : k \in Missing!New(g)}
<1>6. \A s \in F : H(G(s)) = {Pause(s, 1)[1], Pause(s, 1)[2]}
  BY <1>4, <1>5
<1>7. Missing!Inserted = UNION {H(g) : g \in additions}
  BY DEF Missing!Inserted
<1>. HIDE DEF H
<1>8. {H(g) : g \in additions} = {H(G(s)) : s \in F}
  BY <1>3
<1>9. {H(G(s)) : s \in F} = {{Pause(s, 1)[1], Pause(s, 1)[2]} : s \in F}
  BY <1>6
<1>. QED
  BY <1>7, <1>8, <1>9

\* A request that completes where every session needed at most one break leaves
\* nothing for a second one, for every finite set of stored times and every range.
THEOREM SecondRequestFindsNothing == AllSpec => OneBreakSettles
<1>1. ASSUME LoopsInv, [AllNext]_allVars
      PROVE  [stage = "commit" /\ Missing!Unique
              /\ (\A s \in Missing!StoredSessions :
                    Missing!break_count(Missing!SessionEnd(s) - Missing!SessionStart(s)) <= 1)
              => Missing!MissingGroups' = {}]_(Missing!vars)
  <2>. SUFFICES ASSUME Missing!vars' # Missing!vars, stage = "commit", Missing!Unique,
                       \A s \in Missing!StoredSessions :
                         Missing!break_count(Missing!SessionEnd(s) - Missing!SessionStart(s)) <= 1
                PROVE  Missing!MissingGroups' = {}
    OBVIOUS
  <2>1. Missing!Next
    BY <1>1 DEF AllNext, SplitPresence, AddBreaks, CountHours, allVars, adding, Missing!vars, Missing!work
  <2>2. times' = times \cup Missing!Inserted
    BY <2>1 DEF Missing!Next, Missing!Request, Missing!Group, Missing!LookAt, Missing!Scan, Missing!Place, Missing!Commit
  <2>3. Missing!TypeOK /\ additions = Missing!MissingGroups
    <3>1. Missing!TypeOK /\ sessions = {} /\ additions = Missing!Found(Missing!StoredSessions \ sessions)
      BY <1>1 DEF LoopsInv, Missing!IInv, Missing!LookedAt
    <3>2. Missing!StoredSessions \ sessions = Missing!StoredSessions
      BY <3>1
    <3>. QED
      BY <3>1, <3>2, FoundAll
  <2>4. PICK S : S = times
    OBVIOUS
  <2>5. S \in SUBSET Nat /\ IsFiniteSet(S)
    BY <2>3, <2>4, MissingFinite DEF Missing!TypeOK
  <2>6. PICK I : I = pair_event_rows(S)
    OBVIOUS
  <2>7. \A s \in Sessions(I) : break_count(SessionEnd(s) - SessionStart(s)) <= 1
    BY <2>4, <2>6, MissingPairs, MissingSessions, MissingOfSession, MissingCount
       DEF Missing!StoredSessions, Missing!StoredIntervals
  <2>8. PICK F : F = {s \in Sessions(I) : Fit(s, RangeStart, RangeEnd)}
    OBVIOUS
  <2>9. PICK P : P = UNION {{Pause(s, 1)[1], Pause(s, 1)[2]} : s \in F}
    OBVIOUS
  <2>10. Missing!Inserted = P
    BY <2>3, <2>4, <2>6, <2>7, <2>8, <2>9, InsertedPauses
  <2>11. PICK J : J = pair_event_rows(S \cup P)
    OBVIOUS
  <2>12. \A t \in Sessions(J) : ~ Fit(t, RangeStart, RangeEnd)
    BY <2>5, <2>6, <2>7, <2>8, <2>9, <2>11, OneBreakEach
  <2>13. missing_break_event_groups(J, RangeStart, RangeEnd) = {}
    BY <2>12 DEF missing_break_event_groups, Fit
  <2>14. Missing!MissingGroups' = missing_break_event_groups(J, RangeStart, RangeEnd)
    <3>1. times' = S \cup P
      BY <2>2, <2>4, <2>10
    <3>2. Missing!MissingGroups' = Missing!missing_break_event_groups(Missing!pair_event_rows(times'), RangeStart, RangeEnd)
      BY DEF Missing!MissingGroups, Missing!StoredIntervals
    <3>. QED
      BY <2>11, <3>1, <3>2, MissingPairs, MissingOfIntervals
  <2>. QED
    BY <2>13, <2>14
<1>. QED
  BY <1>1, LoopsInvStarts, LoopsInvKept, PTL DEF AllSpec, OneBreakSettles, Missing!OneBreakSettles
=============================================================================
