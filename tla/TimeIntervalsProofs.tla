------------------------ MODULE TimeIntervalsProofs ------------------------
(***************************************************************************)
(* Facts about the operators of TimeIntervals, for every set of instants:  *)
(* where automatic breaks and missing breaks are put, which days a change  *)
(* of the pairing touches, and what two times inside an interval do to it. *)
(***************************************************************************)
EXTENDS TimeIntervals, TLAPS, FiniteSetTheorems, WellFoundedInduction

-----------------------------------------------------------------------------
(* Extrema of sets of naturals. *)

\* A nonempty set of naturals has a least element, and Min chooses it.
LEMMA MinOfNat ==
  ASSUME NEW S \in SUBSET Nat, S # {}
  PROVE  Min(S) \in S /\ \A x \in S : Min(S) <= x
<1>1. PICK m \in S : \A y \in S : ~ (<<y, m>> \in OpToRel(<, Nat))
  BY NatLessThanWellFounded, WFMin, Zenon
<1>2. OpToRel(<, Nat) = {p \in Nat \X Nat : p[1] < p[2]}
  BY Zenon DEF OpToRel
<1>3. \A y \in Nat : y < m => <<y, m>> \in {p \in Nat \X Nat : p[1] < p[2]}
  OBVIOUS
<1>4. \A y \in S : m <= y
  <2>. SUFFICES ASSUME NEW y \in S, y < m
                PROVE  FALSE
    OBVIOUS
  <2>. QED
    BY <1>1, <1>2, <1>3
<1>. QED
  BY <1>4 DEF Min

\* A nonempty bounded set of naturals has a greatest element, and Max chooses it.
LEMMA MaxOfNat ==
  ASSUME NEW S \in SUBSET Nat, S # {}, NEW n \in Nat, \A x \in S : x <= n
  PROVE  Max(S) \in S /\ \A x \in S : x <= Max(S)
<1>. DEFINE T == {n - x : x \in S}
<1>1. T \in SUBSET Nat /\ T # {}
  <2>1. \A x \in S : n - x \in Nat
    OBVIOUS
  <2>. QED
    BY <2>1
<1>2. Min(T) \in T /\ \A y \in T : Min(T) <= y
  BY <1>1, MinOfNat
<1>3. PICK m \in S : Min(T) = n - m
  BY <1>2
<1>4. \A x \in S : m >= x
  <2>. TAKE x \in S
  <2>1. n - m <= n - x
    BY <1>2, <1>3
  <2>. QED
    BY <2>1
<1>. QED
  BY <1>4 DEF Max

-----------------------------------------------------------------------------
(* Days. *)

\* An instant between two instants of one day belongs to that day.
LEMMA DayBetween ==
  ASSUME NEW s \in Nat, NEW t \in Nat, NEW e \in Nat, s <= t, t <= e, DayOf(s) = DayOf(e)
  PROVE  DayOf(t) = DayOf(s)
BY DEF DayOf, DayMinutes

LEMMA DayOfNat ==
  ASSUME NEW t \in Nat
  PROVE  DayOf(t) \in Nat
BY DEF DayOf, DayMinutes

-----------------------------------------------------------------------------
(* Automatic breaks. *)

\* break_segments finds a number of breaks for every presence of more than 360
\* minutes: the work that is left fills every segment and overfills none.
LEMMA BreakCount ==
  ASSUME NEW d \in Nat, d > SegmentMinutes
  PROVE  break_count(d) \in 0 .. d /\ BreaksSuffice(d, break_count(d))
<1>. DEFINE B == {b \in 0 .. d : BreaksSuffice(d, b)}
            w == (d + 29) \div 390
<1>1. w \in B
  BY DEF SegmentMinutes, BreakMinutes, BreaksSuffice
<1>2. B \in SUBSET Nat /\ B # {}
  BY <1>1
<1>3. Min(B) \in B /\ \A b \in B : Min(B) <= b
  BY <1>2, MinOfNat
<1>. HIDE DEF w
<1>4. \A c \in 0 .. Min(B) - 1 : ~ BreaksSuffice(d, c)
  BY <1>3
<1>. QED
  BY <1>3, <1>4 DEF break_count, SegmentMinutes

LEMMA BreakCountSmall ==
  ASSUME NEW d \in Int, d <= SegmentMinutes
  PROVE  break_count(d) = 0
BY DEF break_count

\* Every boundary of an automatic break lies strictly inside the interval: there is
\* work before the first break and after the last one.
LEMMA AutomaticBreaksInside ==
  ASSUME NEW s \in Nat, NEW e \in Nat, s < e, NEW t \in automatic_break_events(s, e)
  PROVE  t \in Nat /\ s < t /\ t < e
<1>. DEFINE d == e - s
            b == break_count(d)
<1>1. d \in Nat
  OBVIOUS
<1>2. PICK k \in 1 .. b : t \in {BreakStart(s, e, k), BreakStart(s, e, k) + BreakMinutes}
  BY DEF automatic_break_events
<1>3. d > SegmentMinutes
  BY <1>1, <1>2, BreakCountSmall DEF SegmentMinutes
<1>4. b \in Nat /\ BreaksSuffice(d, b)
  BY <1>1, <1>3, BreakCount
<1>5. BreakStart(s, e, k) = s + WorkedAfter(d, k) + BreakMinutes * (k - 1)
  BY DEF BreakStart
<1>. HIDE DEF d, b
<1>6. /\ WorkedAfter(d, k) \in Int
      /\ 1 <= WorkedAfter(d, k)
      /\ WorkedAfter(d, k) <= d - BreakMinutes * b - (b + 1 - k)
  BY <1>1, <1>2, <1>4 DEF WorkedAfter, BreaksSuffice, SegmentMinutes, BreakMinutes, b
<1>7. k <= b /\ 1 <= k /\ k \in Int
  BY <1>2, <1>4
<1>8. e = s + d
  BY DEF d
<1>. QED
  BY <1>1, <1>2, <1>4, <1>5, <1>6, <1>7, <1>8 DEF BreakMinutes

-----------------------------------------------------------------------------
(* Pairing. *)

\* A paired interval runs forward, between two stored times of one day, and no
\* stored time lies inside it.
LEMMA PairRows ==
  ASSUME NEW S \in SUBSET Nat, NEW p \in pair_event_rows(S)
  PROVE  /\ p[1] \in S /\ p[2] \in S /\ p = <<p[1], p[2]>>
         /\ p[1] < p[2]
         /\ DayOf(p[1]) = DayOf(p[2])
         /\ \A x \in S : ~ (p[1] < x /\ x < p[2])
<1>1. PICK d \in {DayOf(t) : t \in S} : p \in DayPairs(OfDay(S, d))
  BY DEF pair_event_rows
<1>2. p \in OfDay(S, d) \X OfDay(S, d) /\ p[1] < p[2]
  BY <1>1 DEF DayPairs
<1>3. p[1] \in S /\ p[2] \in S /\ DayOf(p[1]) = d /\ DayOf(p[2]) = d /\ p = <<p[1], p[2]>>
  BY <1>2 DEF OfDay
<1>4. ASSUME NEW x \in S, p[1] < x, x < p[2]
      PROVE  FALSE
  <2>1. DayOf(x) = d
    BY <1>3, <1>4, DayBetween
  <2>2. x \in OfDay(S, d)
    BY <2>1 DEF OfDay
  <2>. QED
    BY <1>1, <1>4, <2>2 DEF DayPairs
<1>. QED
  BY <1>2, <1>3, <1>4

\* A time stored strictly inside a paired interval makes that interval disappear, so
\* its day is one of the changed days.
LEMMA SplitPairChangesDay ==
  ASSUME NEW S \in SUBSET Nat, NEW A \in SUBSET Nat, NEW T \in SUBSET Nat,
         NEW p \in pair_event_rows(S), NEW x \in A, p[1] < x, x < p[2]
  PROVE  DayOf(x) \in changed_event_days(interval_signatures(S),
                                         interval_signatures(S \cup A), T)
<1>1. /\ p[1] \in Nat /\ p[2] \in Nat /\ DayOf(p[1]) = DayOf(p[2])
  BY PairRows
<1>2. DayOf(x) = DayOf(p[1])
  BY <1>1, DayBetween
<1>3. p \notin pair_event_rows(S \cup A)
  BY PairRows
<1>4. p \in interval_signatures(S) \ interval_signatures(S \cup A)
  BY <1>3 DEF interval_signatures
<1>. QED
  BY <1>2, <1>4 DEF changed_event_days

\* Only the days of stored or requested times can change.
LEMMA ChangedDaysOfTimes ==
  ASSUME NEW S \in SUBSET Nat, NEW R \in SUBSET Nat, NEW T \in SUBSET Nat,
         NEW d \in changed_event_days(interval_signatures(S), interval_signatures(R), T)
  PROVE  \E t \in S \cup R \cup T : DayOf(t) = d
<1>1. CASE \E t \in T : d = DayOf(t)
  BY <1>1
<1>2. CASE \E p \in pair_event_rows(S) \cup pair_event_rows(R) : d = DayOf(p[1])
  BY <1>2, PairRows
<1>. QED
  BY <1>1, <1>2 DEF changed_event_days, interval_signatures

-----------------------------------------------------------------------------
(* Missing breaks. *)

\* What the intervals of one employment look like to missing_break_event_groups.
Intervals(I, n) ==
  /\ I \in SUBSET (Nat \X Nat)
  /\ n \in Nat
  /\ \A p \in I : p[1] < p[2] /\ p[2] <= n

LEMMA SessionShape ==
  ASSUME NEW I, NEW n, Intervals(I, n), NEW s \in Sessions(I)
  PROVE  /\ s # {} /\ s \subseteq I
         /\ SessionStart(s) \in Nat /\ SessionEnd(s) \in Nat
         /\ MissingMinutes(s) \in Int
<1>1. PICK o \in I : s = SessionOf(I, o)
  BY DEF Sessions
<1>2. s \subseteq I
  BY <1>1 DEF SessionOf
<1>3. o \in s
  BY <1>1 DEF SessionOf, Intervals
<1>4. SessionStart(s) \in Nat
  <2>1. {p[1] : p \in s} \in SUBSET Nat /\ {p[1] : p \in s} # {}
    BY <1>2, <1>3 DEF Intervals
  <2>. QED
    BY <2>1, MinOfNat DEF SessionStart
<1>5. SessionEnd(s) \in Nat
  <2>1. /\ {p[2] : p \in s} \in SUBSET Nat /\ {p[2] : p \in s} # {}
        /\ n \in Nat /\ \A x \in {p[2] : p \in s} : x <= n
    BY <1>2, <1>3 DEF Intervals
  <2>. QED
    BY <2>1, MaxOfNat DEF SessionEnd
<1>. DEFINE d == SessionEnd(s) - SessionStart(s)
<1>6. break_count(d) \in Nat
  <2>1. CASE d <= SegmentMinutes
    BY <1>4, <1>5, <2>1, BreakCountSmall
  <2>2. CASE d > SegmentMinutes
    BY <1>4, <1>5, <2>2, BreakCount DEF SegmentMinutes
  <2>. QED
    BY <1>4, <1>5, <2>1, <2>2 DEF SegmentMinutes
<1>7. ExistingMinutes(s) \in Nat
  <2>. DEFINE R == SessionStart(s) .. SessionEnd(s) - 1
              X == {x \in R : ~ \E p \in s : p[1] <= x /\ x < p[2]}
  <2>1. IsFiniteSet(R)
    BY <1>4, <1>5, FS_Interval
  <2>2. IsFiniteSet(X)
    BY <2>1, FS_Subset
  <2>3. Cardinality(X) \in Nat
    BY <2>2, FS_CardinalityType
  <2>. QED
    BY <2>3 DEF ExistingMinutes
<1>. QED
  BY <1>2, <1>3, <1>4, <1>5, <1>6, <1>7 DEF MissingMinutes, BreakMinutes

\* A placed pause has a minute of work on either side, inside one interval.
LEMMA PlacementInside ==
  ASSUME NEW I, NEW m, Intervals(I, m), NEW s, s \subseteq I,
         NEW target \in Int, NEW n \in Int, n >= 1, Roomy(s, n) # {}
  PROVE  \E p \in s : /\ placement(s, target, n) \in Int
                      /\ p[1] < placement(s, target, n)
                      /\ placement(s, target, n) + n < p[2]
<1>. DEFINE hit == {p \in Roomy(s, n) : Earliest(p) <= target /\ target <= Latest(p, n)}
            last == CHOOSE p \in Roomy(s, n) : \A q \in Roomy(s, n) : q[1] <= p[1]
<1>1. CASE hit # {}
  <2>1. placement(s, target, n) = target
    BY <1>1 DEF placement
  <2>2. PICK p \in s : Earliest(p) <= target /\ target <= Latest(p, n)
    BY <1>1 DEF Roomy
  <2>3. p[1] \in Nat /\ p[2] \in Nat
    BY DEF Intervals
  <2>. QED
    BY <2>1, <2>2, <2>3 DEF Earliest, Latest
<1>2. CASE hit = {}
  <2>. DEFINE F == {p[1] : p \in Roomy(s, n)}
  <2>1. /\ F \in SUBSET Nat /\ F # {} /\ m \in Nat /\ \A x \in F : x <= m
    BY DEF Intervals, Roomy
  <2>2. Max(F) \in F /\ \A x \in F : x <= Max(F)
    BY <2>1, MaxOfNat
  <2>3. \E p \in Roomy(s, n) : \A q \in Roomy(s, n) : q[1] <= p[1]
    BY <2>2
  <2>4. last \in Roomy(s, n)
    BY <2>3
  <2>5. placement(s, target, n) = Clamp(target, Earliest(last), Latest(last, n))
    BY <1>2 DEF placement
  <2>. HIDE DEF last
  <2>6. last \in s /\ last[1] \in Nat /\ last[2] \in Nat /\ Earliest(last) <= Latest(last, n)
    BY <2>4 DEF Roomy, Intervals
  <2>. QED
    BY <2>5, <2>6 DEF Clamp, Earliest, Latest
<1>. QED
  BY <1>1, <1>2

\* Every pause that add_missing_breaks may insert lies strictly inside one of the
\* recorded intervals; it never reaches into a neighbouring pause or a free day.
THEOREM MissingBreaksInside ==
  ASSUME NEW I, NEW n, Intervals(I, n), NEW lo, NEW hi,
         NEW g \in missing_break_event_groups(I, lo, hi), NEW k \in DOMAIN g
  PROVE  /\ g[k][1] \in Int /\ g[k][2] \in Int
         /\ \E p \in I : p[1] < g[k][1] /\ g[k][1] < g[k][2] /\ g[k][2] < p[2]
<1>1. PICK s \in Sessions(I) :
        /\ \A j \in 1 .. PauseCount(s) : Roomy(s, PauseLength(s, j)) # {}
        /\ g = [j \in 1 .. PauseCount(s) |-> Pause(s, j)]
  BY DEF missing_break_event_groups
<1>2. k \in 1 .. PauseCount(s) /\ g[k] = Pause(s, k)
  BY <1>1
<1>3. s \subseteq I /\ SessionStart(s) \in Nat /\ MissingMinutes(s) \in Int
  BY SessionShape
<1>. DEFINE l == PauseLength(s, k)
            x == placement(s, SessionStart(s) + SegmentMinutes * k, l)
<1>4. l \in Int /\ l >= 1
  BY <1>2, <1>3 DEF PauseLength, PauseCount, BreakMinutes
<1>5. SessionStart(s) + SegmentMinutes * k \in Int
  BY <1>2, <1>3 DEF SegmentMinutes
<1>6. Roomy(s, l) # {}
  BY <1>1, <1>2
<1>7. Pause(s, k) = <<x, x + l>>
  BY DEF Pause
<1>. HIDE DEF l
<1>8. \E p \in s : x \in Int /\ p[1] < x /\ x + l < p[2]
  BY <1>3, <1>4, <1>5, <1>6, PlacementInside
<1>. HIDE DEF x
<1>. QED
  BY <1>2, <1>3, <1>4, <1>7, <1>8 DEF Intervals

-----------------------------------------------------------------------------
(* Two more times inside an interval. *)

\* Of one day's times: the interval is cut in two and the others stay.
LEMMA DayPairsSplit ==
  ASSUME NEW D \in SUBSET Nat, IsFiniteSet(D), NEW a \in Nat, NEW b \in Nat, <<a, b>> \in DayPairs(D),
         NEW x \in Nat, NEW y \in Nat, a < x, x < y, y < b
  PROVE  DayPairs(D \cup {x, y}) = (DayPairs(D) \ {<<a, b>>}) \cup {<<a, x>>, <<y, b>>}
<1>. DEFINE E == D \cup {x, y}
            N(t) == {z \in D : z < t}
            M(t) == {z \in E : z < t}
            Even(S) == Cardinality(S) % 2 = 0
<1>1. a \in D /\ b \in D /\ Even(N(a)) /\ \A z \in D : z <= a \/ b <= z
  BY DEF DayPairs
<1>2. x \notin D /\ y \notin D
  BY <1>1
<1>3. \A t \in Nat : IsFiniteSet(N(t)) /\ Cardinality(N(t)) \in Nat
  <2>. SUFFICES ASSUME NEW t \in Nat PROVE IsFiniteSet(N(t)) /\ Cardinality(N(t)) \in Nat
    OBVIOUS
  <2>1. N(t) \in SUBSET D
    OBVIOUS
  <2>2. IsFiniteSet(N(t))
    BY <2>1, FS_Subset
  <2>. QED
    BY <2>2, FS_CardinalityType
<1>4. ASSUME NEW t \in D
      PROVE  Even(M(t)) <=> Even(N(t))
  <2>1. CASE t <= a
    <3>1. M(t) = N(t)
      BY <2>1
    <3>. QED
      BY <3>1
  <2>2. CASE b <= t
    <3>1. M(t) = (N(t) \cup {x}) \cup {y}
      BY <2>2
    <3>2. PICK S : S = N(t)
      OBVIOUS
    <3>3. x \notin S /\ y \notin S \cup {x} /\ IsFiniteSet(S) /\ Cardinality(S) \in Nat
      BY <1>2, <1>3, <3>2
    <3>4. PICK Q : Q = S \cup {x}
      OBVIOUS
    <3>5. IsFiniteSet(Q) /\ Cardinality(Q) = Cardinality(S) + 1
      BY <3>3, <3>4, FS_AddElement
    <3>6. Cardinality(Q \cup {y}) = Cardinality(Q) + 1
      BY <3>3, <3>4, <3>5, FS_AddElement
    <3>. QED
      <4>1. M(t) = Q \cup {y}
        BY <3>1, <3>2, <3>4
      <4>2. PICK k \in Nat : k = Cardinality(S)
        BY <3>3
      <4>3. Cardinality(N(t)) = k /\ Cardinality(M(t)) = k + 2
        BY <3>2, <3>5, <3>6, <4>1, <4>2
      <4>. QED
        BY <4>3
  <2>. QED
    BY <1>1, <2>1, <2>2
<1>5. ~ Even(M(x)) /\ Even(M(y))
  <2>0. \A z \in D : z < x <=> z < a \/ z = a
    BY <1>1
  <2>1. M(x) = N(a) \cup {a} /\ M(y) = (N(a) \cup {a}) \cup {x}
    <3>1. \A z \in D : z < y <=> z < a \/ z = a
      BY <1>1
    <3>2. M(x) = {z \in D : z < x} /\ N(a) \cup {a} = {z \in D : z < a \/ z = a}
      BY <1>1
    <3>3. M(y) = {z \in D : z < y} \cup {x}
      OBVIOUS
    <3>. QED
      BY <2>0, <3>1, <3>2, <3>3
  <2>2. PICK S : S = N(a)
    OBVIOUS
  <2>3. a \notin S /\ x \notin S \cup {a} /\ IsFiniteSet(S) /\ Cardinality(S) \in Nat
    BY <1>2, <1>3, <2>2
  <2>4. PICK Q : Q = S \cup {a}
    OBVIOUS
  <2>5. IsFiniteSet(Q) /\ Cardinality(Q) = Cardinality(S) + 1
    BY <2>3, <2>4, FS_AddElement
  <2>6. Cardinality(Q \cup {x}) = Cardinality(Q) + 1
    BY <2>3, <2>4, <2>5, FS_AddElement
  <2>7. PICK k \in Nat : k = Cardinality(S)
    BY <2>3
  <2>8. k % 2 = 0
    BY <1>1, <2>2, <2>7
  <2>9. M(x) = Q /\ M(y) = Q \cup {x}
    BY <2>1, <2>2, <2>4
  <2>10. Cardinality(M(x)) = k + 1 /\ Cardinality(M(y)) = k + 2
    BY <2>5, <2>6, <2>7, <2>9
  <2>. QED
    BY <2>8, <2>10
<1>6. DayPairs(D) = {q \in D \X D : q[1] < q[2] /\ Even(N(q[1])) /\ ~ \E z \in D : q[1] < z /\ z < q[2]}
  BY DEF DayPairs
<1>7. DayPairs(E) = {q \in E \X E : q[1] < q[2] /\ Even(M(q[1])) /\ ~ \E z \in E : q[1] < z /\ z < q[2]}
  BY DEF DayPairs
<1>. HIDE DEF Even, N, M
<1>. DEFINE R == (DayPairs(D) \ {<<a, b>>}) \cup {<<a, x>>, <<y, b>>}
<1>8. ASSUME NEW u \in Nat, NEW v \in Nat, <<u, v>> \in DayPairs(E)
      PROVE  <<u, v>> \in R
  <2>1. u \in E /\ v \in E /\ u < v /\ Even(M(u)) /\ \A z \in E : z <= u \/ v <= z
    BY <1>7, <1>8
  <2>2. u # x
    BY <1>5, <2>1
  <2>3. CASE u = y
    <3>1. v = b
      BY <1>1, <2>1, <2>3
    <3>. QED
      BY <2>3, <3>1
  <2>4. CASE u = a
    <3>1. v = x
      BY <1>1, <2>1, <2>4
    <3>. QED
      BY <2>4, <3>1
  <2>5. CASE u \in D /\ u # a
    <3>1. Even(N(u))
      BY <1>4, <2>1, <2>5
    <3>2. v \in D
      BY <1>1, <2>1, <2>5
    <3>. QED
      BY <1>6, <2>1, <2>5, <3>1, <3>2
  <2>. QED
    BY <2>1, <2>2, <2>3, <2>4, <2>5
<1>9. ASSUME NEW u \in Nat, NEW v \in Nat, <<u, v>> \in R
      PROVE  <<u, v>> \in DayPairs(E)
  <2>1. CASE u = a /\ v = x
    BY <1>1, <1>4, <1>7, <2>1
  <2>2. CASE u = y /\ v = b
    BY <1>1, <1>5, <1>7, <2>2
  <2>3. CASE <<u, v>> \in DayPairs(D) /\ (u # a \/ v # b)
    <3>1. u \in D /\ v \in D /\ u < v /\ Even(N(u)) /\ \A z \in D : z <= u \/ v <= z
      BY <1>6, <2>3
    <3>2. Even(M(u))
      BY <1>4, <3>1
    <3>3. v <= a \/ b <= u
      BY <1>1, <2>3, <3>1
    <3>4. \A z \in E : z <= u \/ v <= z
      BY <3>1, <3>3
    <3>. QED
      BY <1>7, <3>1, <3>2, <3>4
  <2>. QED
    BY <1>9, <2>1, <2>2, <2>3
<1>10. DayPairs(E) \subseteq Nat \X Nat /\ R \subseteq Nat \X Nat
  <2>1. DayPairs(E) \subseteq Nat \X Nat
    BY <1>7
  <2>2. DayPairs(D) \subseteq Nat \X Nat
    BY <1>6
  <2>3. R \subseteq Nat \X Nat
    BY <2>2
  <2>. QED
    BY <2>1, <2>3
<1>. HIDE DEF E, R
<1>11. DayPairs(E) = R
  <2>1. \A q \in Nat \X Nat : q = <<q[1], q[2]>> /\ q[1] \in Nat /\ q[2] \in Nat
    OBVIOUS
  <2>2. \A q \in Nat \X Nat : q \in DayPairs(E) <=> q \in R
    BY <1>8, <1>9, <2>1
  <2>. QED
    BY <1>10, <2>2
<1>. QED
  BY <1>11 DEF E, R

\* The pairs of a day are those of its times.
LEMMA PairOfDay ==
  ASSUME NEW S \in SUBSET Nat, NEW q, NEW d
  PROVE  q \in pair_event_rows(S) /\ DayOf(q[1]) = d <=> q \in DayPairs(OfDay(S, d))
<1>1. ASSUME q \in DayPairs(OfDay(S, d))
      PROVE  q \in pair_event_rows(S) /\ DayOf(q[1]) = d
  BY <1>1 DEF DayPairs, OfDay, pair_event_rows
<1>2. ASSUME q \in pair_event_rows(S), DayOf(q[1]) = d
      PROVE  q \in DayPairs(OfDay(S, d))
  <2>1. PICK e \in {DayOf(t) : t \in S} : q \in DayPairs(OfDay(S, e))
    BY <1>2 DEF pair_event_rows
  <2>2. DayOf(q[1]) = e
    BY <2>1 DEF DayPairs, OfDay
  <2>. QED
    BY <1>2, <2>1, <2>2
<1>. QED
  BY <1>1, <1>2

LEMMA PairSplit ==
  ASSUME NEW S \in SUBSET Nat, IsFiniteSet(S), NEW p \in pair_event_rows(S),
         NEW x \in Nat, NEW y \in Nat, p[1] < x, x < y, y < p[2]
  PROVE  pair_event_rows(S \cup {x, y}) = (pair_event_rows(S) \ {p}) \cup {<<p[1], x>>, <<y, p[2]>>}
<1>1. PICK a \in Nat, b \in Nat : a = p[1] /\ b = p[2] /\ p = <<a, b>> /\ DayOf(a) = DayOf(b)
  BY PairRows
<1>2. PICK d : d = DayOf(a)
  OBVIOUS
<1>3. DayOf(x) = d /\ DayOf(y) = d
  BY <1>1, <1>2, DayBetween
<1>4. PICK D : D = OfDay(S, d)
  OBVIOUS
<1>5. D \in SUBSET Nat /\ IsFiniteSet(D) /\ <<a, b>> \in DayPairs(D)
  <2>1. D \in SUBSET S
    BY <1>4 DEF OfDay
  <2>2. <<a, b>> \in DayPairs(D)
    BY <1>1, <1>2, <1>4, PairOfDay
  <2>. QED
    BY <2>1, <2>2, FS_Subset
<1>6. PICK R : R = S \cup {x, y}
  OBVIOUS
<1>7. OfDay(R, d) = D \cup {x, y}
  BY <1>3, <1>4, <1>6 DEF OfDay
<1>8. DayPairs(D \cup {x, y}) = (DayPairs(D) \ {<<a, b>>}) \cup {<<a, x>>, <<y, b>>}
  BY <1>1, <1>5, DayPairsSplit
<1>9. \A e : e # d => OfDay(R, e) = OfDay(S, e)
  BY <1>3, <1>6 DEF OfDay
<1>10. R \in SUBSET Nat
  BY <1>6
<1>11. ASSUME NEW q
       PROVE  q \in pair_event_rows(R) <=> q \in (pair_event_rows(S) \ {p}) \cup {<<a, x>>, <<y, b>>}
  <2>1. PICK e : e = DayOf(q[1])
    OBVIOUS
  <2>2. q \in pair_event_rows(R) <=> q \in DayPairs(OfDay(R, e))
    BY <1>10, <2>1, PairOfDay
  <2>3. q \in pair_event_rows(S) <=> q \in DayPairs(OfDay(S, e))
    BY <2>1, PairOfDay
  <2>4. CASE e # d
    <3>1. q # p /\ q # <<a, x>> /\ q # <<y, b>>
      BY <1>1, <1>2, <1>3, <2>1, <2>4
    <3>. QED
      BY <1>9, <2>2, <2>3, <2>4, <3>1
  <2>5. CASE e = d
    BY <1>1, <1>4, <1>7, <1>8, <2>2, <2>3, <2>5
  <2>. QED
    BY <2>4, <2>5
<1>. QED
  BY <1>1, <1>6, <1>11

\* No interval begins where another one ends.
LEMMA PairsSeparate ==
  ASSUME NEW S \in SUBSET Nat, IsFiniteSet(S), NEW p \in pair_event_rows(S), NEW q \in pair_event_rows(S)
  PROVE  p[2] # q[1]
<1>. SUFFICES ASSUME p[2] = q[1] PROVE FALSE
  OBVIOUS
<1>1. PICK a \in Nat, b \in Nat : a = p[1] /\ b = p[2] /\ p = <<a, b>> /\ a < b /\ DayOf(a) = DayOf(b)
  BY PairRows
<1>2. PICK D : D = OfDay(S, DayOf(a))
  OBVIOUS
<1>3. p \in DayPairs(D) /\ q \in DayPairs(D)
  BY <1>1, <1>2, PairOfDay
<1>. DEFINE N(t) == {z \in D : z < t}
<1>4. a \in D /\ b \in D /\ (\A z \in D : z <= a \/ b <= z) /\ D \in SUBSET Nat
  <2>1. D \in SUBSET Nat
    BY <1>2 DEF OfDay
  <2>2. a \in D /\ b \in D /\ ~ \E z \in D : a < z /\ z < b
    BY <1>1, <1>3 DEF DayPairs
  <2>. QED
    BY <2>1, <2>2
<1>5. Cardinality(N(a)) % 2 = 0 /\ Cardinality(N(b)) % 2 = 0
  BY <1>1, <1>3 DEF DayPairs
<1>6. N(b) = N(a) \cup {a} /\ a \notin N(a)
  <2>1. \A z \in D : z < b <=> z < a \/ z = a
    BY <1>1, <1>4
  <2>2. N(a) \cup {a} = {z \in D : z < a \/ z = a}
    BY <1>4
  <2>3. a \notin N(a)
    OBVIOUS
  <2>. QED
    BY <2>1, <2>2, <2>3
<1>7. PICK A : A = N(a)
  OBVIOUS
<1>8. IsFiniteSet(A)
  <2>1. A \in SUBSET S
    BY <1>2, <1>7 DEF OfDay
  <2>. QED
    BY <2>1, FS_Subset
<1>9. Cardinality(A) \in Nat /\ Cardinality(A \cup {a}) = Cardinality(A) + 1
  BY <1>6, <1>7, <1>8, FS_AddElement, FS_CardinalityType
<1>10. PICK k \in Nat : k % 2 = 0 /\ (k + 1) % 2 = 0
  BY <1>5, <1>6, <1>7, <1>9
<1>. QED
  BY <1>10
=============================================================================
