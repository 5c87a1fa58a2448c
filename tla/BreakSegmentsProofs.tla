------------------------ MODULE BreakSegmentsProofs ------------------------
(***************************************************************************)
(* The loops of break_segments and automatic_break_events, for presences   *)
(* of any length: the segments are legal and the closed forms, on which    *)
(* the proofs about TimeRecords rest, are what the loops compute.          *)
(***************************************************************************)
EXTENDS BreakSegments, TimeIntervalsProofs, SequenceTheorems

-----------------------------------------------------------------------------
(* The closed forms. *)

\* The search stops at the smallest number of breaks that suffices.
LEMMA FirstThatSuffices ==
  ASSUME NEW d \in Nat, d > SegmentMinutes, NEW b \in 0 .. d,
         BreaksSuffice(d, b), \A c \in 0 .. b - 1 : ~ BreaksSuffice(d, c)
  PROVE  break_count(d) = b
<1>. DEFINE Smallest(x) == BreaksSuffice(d, x) /\ \A c \in 0 .. x - 1 : ~ BreaksSuffice(d, c)
<1>1. ~ (d <= SegmentMinutes)
  BY DEF SegmentMinutes
<1>2. break_count(d) = CHOOSE x \in 0 .. d : Smallest(x)
  BY <1>1 DEF break_count
<1>3. PICK n : n = CHOOSE x \in 0 .. d : Smallest(x)
  OBVIOUS
<1>4. n \in 0 .. d /\ Smallest(n)
  BY <1>3
<1>5. ~ (n < b) /\ ~ (b < n)
  BY <1>4
<1>. QED
  BY <1>2, <1>3, <1>4, <1>5

\* A segment that leaves one minute to every later one.
Segment(reserved) == IF SegmentMinutes < reserved THEN SegmentMinutes ELSE reserved

\* The minutes worked before and after segment k, for a number of breaks that suffices:
\* every segment has from one to 360 minutes, takes what NextSegment takes, and the
\* last one ends the work.
LEMMA Worked ==
  ASSUME NEW d \in Nat, NEW b \in Nat, break_count(d) = b, BreaksSuffice(d, b),
         NEW k \in 1 .. b + 1
  PROVE  /\ WorkedBefore(d, k) \in Nat /\ WorkedAfter(d, k) \in Nat
         /\ WorkedAfter(d, k) - WorkedBefore(d, k) \in 1 .. SegmentMinutes
         /\ WorkedAfter(d, k) <= d - BreakMinutes * b - (b + 1 - k)
         /\ k = b + 1 => WorkedAfter(d, k) = d - BreakMinutes * b
         /\ WorkedBefore(d, k + 1) = WorkedAfter(d, k)
         /\ WorkedAfter(d, k) - WorkedBefore(d, k)
              = Segment(d - BreakMinutes * b - WorkedBefore(d, k) - (b + 1 - k))
<1>. DEFINE T == d - 30 * b
            W(j) == IF 360 * j <= T - (b + 1 - j) THEN 360 * j ELSE T - (b + 1 - j)
            V == IF k = 1 THEN 0 ELSE W(k - 1)
<1>1. T \in Int /\ b + 1 <= T /\ T <= 360 * (b + 1)
  BY DEF BreaksSuffice, BreakMinutes, SegmentMinutes
<1>2. WorkedAfter(d, k) = W(k) /\ WorkedAfter(d, k - 1) = W(k - 1)
  BY DEF WorkedAfter, BreakMinutes, SegmentMinutes
<1>3. WorkedBefore(d, k) = V
  BY <1>2 DEF WorkedBefore
<1>4. WorkedBefore(d, k + 1) = WorkedAfter(d, k)
  BY DEF WorkedBefore
<1>. HIDE DEF T
<1>5. /\ V \in Nat /\ W(k) \in Nat /\ W(k) - V \in 1 .. 360
      /\ W(k) <= T - (b + 1 - k)
      /\ k = b + 1 => W(k) = T
  BY <1>1
<1>6. W(k) - V = IF 360 < T - V - (b + 1 - k) THEN 360 ELSE T - V - (b + 1 - k)
  BY <1>1
<1>7. T = d - BreakMinutes * b /\ SegmentMinutes = 360
  BY DEF T, BreakMinutes, SegmentMinutes
<1>. HIDE DEF V, W
<1>. QED
  BY <1>2, <1>3, <1>4, <1>5, <1>6, <1>7 DEF Segment

\* A presence of no minutes is one segment of none.
LEMMA NothingWorked ==
  /\ break_count(0) = 0
  /\ WorkedAfter(0, 1) = 0 /\ WorkedBefore(0, 1) = 0
BY DEF break_count, WorkedAfter, WorkedBefore, SegmentMinutes, BreakMinutes

-----------------------------------------------------------------------------
(* The loops. *)

LEMMA LoopsStart == Init => IInv
<1>. SUFFICES ASSUME Init PROVE IInv
  OBVIOUS
<1>. USE DurationAssumption
<1>1. duration \in Nat /\ duration \in 0 .. duration /\ 0 \in 0 .. duration
  BY DEF Init
<1>2. segments \in Seq(0 .. duration) /\ result \in Seq(0 .. duration)
  <2>1. <<duration>> \in Seq(0 .. duration) /\ <<>> \in Seq(0 .. duration)
    BY <1>1
  <2>2. segments \in {<<duration>>, <<>>} /\ result = <<>>
    BY DEF Init
  <2>. QED
    BY <2>1, <2>2
<1>3. TypeOK
  BY <1>1, <1>2 DEF Init, TypeOK
<1>4. Searched
  <2>1. CASE duration <= SegmentMinutes
    <3>1. break_count(duration) = 0
      BY <1>1, <2>1, BreakCountSmall
    <3>2. duration > 0 => BreaksSuffice(duration, 0)
      BY <1>1, <2>1 DEF BreaksSuffice, SegmentMinutes, BreakMinutes
    <3>. QED
      BY <2>1, <3>1, <3>2 DEF Init, Searched
  <2>2. CASE ~ (duration <= SegmentMinutes)
    BY <1>1, <2>2 DEF Init, Searched, SegmentMinutes
  <2>. QED
    BY <2>1, <2>2
<1>5. Divided
  <2>1. CASE duration <= SegmentMinutes
    <3>1. segments = <<duration>> /\ pc = "walk" /\ breaks = 0
      BY <2>1 DEF Init
    <3>2. DOMAIN segments = {1} /\ Len(segments) = 1 /\ segments[1] = duration
      BY <3>1
    <3>3. duration = WorkedAfter(duration, 1) - WorkedBefore(duration, 1)
      <4>1. break_count(duration) = 0
        BY <1>1, <2>1, BreakCountSmall
      <4>. QED
        BY <1>1, <2>1, <4>1 DEF WorkedAfter, WorkedBefore, SegmentMinutes, BreakMinutes
    <3>. QED
      BY <3>1, <3>2, <3>3 DEF Divided
  <2>2. CASE ~ (duration <= SegmentMinutes)
    BY <2>2 DEF Init, Divided
  <2>. QED
    BY <2>1, <2>2
<1>6. Walked
  <2>1. breaks = 0 /\ result = <<>> /\ cursor = 0 /\ pc # "done"
    BY DEF Init
  <2>2. WorkedBefore(duration, 1) = 0
    BY DEF WorkedBefore
  <2>3. 0 \in 0 .. breaks
    BY <2>1
  <2>4. Len(result) = 2 * 0 /\ cursor = WorkedBefore(duration, 0 + 1) + BreakMinutes * 0
    BY <2>1, <2>2 DEF BreakMinutes
  <2>5. 1 .. 0 = {}
    OBVIOUS
  <2>. QED
    BY <2>1, <2>3, <2>4, <2>5 DEF Walked
<1>. QED
  BY <1>3, <1>4, <1>5, <1>6 DEF IInv

LEMMA SearchKeeps ==
  ASSUME IInv, Search
  PROVE  IInv'
<1>. USE DurationAssumption
<1>. DEFINE work == duration - breaks * BreakMinutes
<1>1. /\ duration \in Nat /\ duration \in 0 .. MaxDuration /\ breaks \in 0 .. duration
      /\ duration > SegmentMinutes
      /\ \A b \in 0 .. breaks - 1 : ~ BreaksSuffice(duration, b)
      /\ segments = <<>> /\ pc = "search"
  BY DEF IInv, TypeOK, Searched, Divided, Search
<1>2. SearchEnds(work) <=> BreaksSuffice(duration, breaks)
  BY <1>1 DEF SearchEnds, BreaksSuffice, BreakMinutes, SegmentMinutes
<1>3. UNCHANGED <<duration, segments, cursor, result>>
  BY DEF Search
<1>4. /\ Len(result) = 0 /\ cursor = WorkedBefore(duration, 1)
  <2>1. PICK m \in 0 .. breaks :
          /\ Len(result) = 2 * m
          /\ cursor = WorkedBefore(duration, m + 1) + BreakMinutes * m
          /\ pc \in {"search", "divide"} => m = 0
    BY DEF IInv, Walked
  <2>2. m = 0
    BY <1>1, <2>1
  <2>3. WorkedBefore(duration, 1) = 0
    BY DEF WorkedBefore
  <2>. QED
    BY <2>1, <2>2, <2>3 DEF BreakMinutes
<1>5. ASSUME pc' \in {"search", "divide"}, breaks' \in Nat
      PROVE  Walked'
  <2>1. 0 \in 0 .. breaks' /\ 1 .. 0 = {}
    BY <1>5
  <2>2. Len(result') = 2 * 0 /\ cursor' = WorkedBefore(duration', 0 + 1) + BreakMinutes * 0
    <3>1. WorkedBefore(duration, 1) = 0
      BY DEF WorkedBefore
    <3>. QED
      BY <1>3, <1>4, <3>1 DEF BreakMinutes
  <2>. QED
    BY <1>5, <2>1, <2>2 DEF Walked
<1>6. CASE SearchEnds(work)
  <2>1. /\ pc' = "divide" /\ breaks' = breaks
        /\ remaining_work' = work /\ remaining_segments' = breaks + 1
    BY <1>6 DEF Search
  <2>2. break_count(duration) = breaks /\ BreaksSuffice(duration, breaks)
    BY <1>1, <1>2, <1>6, FirstThatSuffices
  <2>3. work \in 0 .. duration
    BY <1>1, <1>6 DEF SearchEnds, BreakMinutes
  <2>4. TypeOK'
    BY <1>1, <1>3, <2>1, <2>3 DEF IInv, TypeOK
  <2>5. Searched'
    BY <1>1, <1>3, <2>1, <2>2 DEF Searched
  <2>6. Divided'
    <3>1. Len(segments') = 0 /\ DOMAIN segments' = {}
      BY <1>1, <1>3
    <3>2. WorkedBefore(duration', 1) = 0
      BY DEF WorkedBefore
    <3>3. work = duration - BreakMinutes * breaks - 0
      BY <1>1 DEF BreakMinutes
    <3>. QED
      BY <1>1, <1>3, <2>1, <3>1, <3>2, <3>3 DEF Divided, SegmentMinutes
  <2>. QED
    BY <1>1, <1>5, <2>1, <2>4, <2>5, <2>6 DEF IInv
<1>7. CASE ~ SearchEnds(work)
  <2>1. /\ pc' = "search" /\ breaks' = IF breaks < duration THEN breaks + 1 ELSE breaks
        /\ UNCHANGED <<remaining_work, remaining_segments>>
    BY <1>1, <1>7 DEF Search
  <2>2. ~ BreaksSuffice(duration, breaks)
    BY <1>2, <1>7
  <2>3. breaks' \in 0 .. duration /\ breaks <= breaks'
    BY <1>1, <2>1
  <2>4. TypeOK'
    BY <1>1, <1>3, <2>1, <2>3 DEF IInv, TypeOK
  <2>5. Searched'
    <3>1. \A b \in 0 .. breaks' - 1 : b \in 0 .. breaks - 1 \/ b = breaks
      BY <1>1, <2>1
    <3>. QED
      BY <1>1, <1>3, <2>1, <2>2, <3>1 DEF Searched
  <2>6. Divided'
    BY <1>1, <1>3, <2>1 DEF Divided
  <2>. QED
    BY <1>1, <1>5, <2>1, <2>3, <2>4, <2>5, <2>6 DEF IInv
<1>. QED
  BY <1>6, <1>7

LEMMA DivideKeeps ==
  ASSUME IInv, Divide
  PROVE  IInv'
<1>. USE DurationAssumption
<1>1. /\ duration \in Nat /\ breaks \in Nat /\ duration > 0
      /\ break_count(duration) = breaks /\ BreaksSuffice(duration, breaks)
      /\ pc = "divide" /\ segments \in Seq(0 .. duration)
      /\ Len(segments) \in Nat /\ remaining_segments \in Nat
      /\ remaining_segments = breaks + 1 - Len(segments)
      /\ remaining_work = duration - BreakMinutes * breaks - WorkedBefore(duration, Len(segments) + 1)
  BY DEF IInv, TypeOK, Searched, Divided, Divide
<1>2. UNCHANGED <<duration, breaks, cursor, result>>
  BY DEF Divide
<1>3. CASE remaining_segments > 0
  <2>. DEFINE k == Len(segments) + 1
              x == NextSegment
  <2>1. /\ pc' = pc /\ segments' = Append(segments, x)
        /\ remaining_work' = remaining_work - x /\ remaining_segments' = remaining_segments - 1
    BY <1>3 DEF Divide
  <2>2. k \in 1 .. breaks + 1
    BY <1>1, <1>3
  <2>3. /\ WorkedBefore(duration, k) \in Nat /\ WorkedAfter(duration, k) \in Nat
        /\ WorkedAfter(duration, k) - WorkedBefore(duration, k) \in 1 .. SegmentMinutes
        /\ WorkedAfter(duration, k) <= duration - BreakMinutes * breaks - (breaks + 1 - k)
        /\ WorkedBefore(duration, k + 1) = WorkedAfter(duration, k)
        /\ WorkedAfter(duration, k) - WorkedBefore(duration, k)
             = Segment(duration - BreakMinutes * breaks - WorkedBefore(duration, k) - (breaks + 1 - k))
    <3>. HIDE DEF k
    <3>. QED
      BY <1>1, <2>2, Worked
  <2>4. x = WorkedAfter(duration, k) - WorkedBefore(duration, k)
    <3>1. remaining_work - (remaining_segments - 1)
            = duration - BreakMinutes * breaks - WorkedBefore(duration, k) - (breaks + 1 - k)
      BY <1>1, <2>3 DEF BreakMinutes
    <3>. QED
      BY <2>3, <3>1 DEF NextSegment, Segment
  <2>. HIDE DEF x
  <2>5. x \in 0 .. duration /\ remaining_work - x \in 0 .. duration
        /\ remaining_work - x = duration - BreakMinutes * breaks - WorkedAfter(duration, k)
    <3>1. PICK v \in Nat, w \in Nat : v = WorkedBefore(duration, k) /\ w = WorkedAfter(duration, k)
      BY <2>3
    <3>2. /\ x = w - v /\ x \in 1 .. 360 /\ w <= duration - 30 * breaks
          /\ remaining_work = duration - 30 * breaks - v
      <4>1. x = w - v /\ x \in 1 .. 360
        BY <2>3, <2>4, <3>1 DEF SegmentMinutes
      <4>2. remaining_work = duration - 30 * breaks - v
        BY <1>1, <3>1 DEF BreakMinutes
      <4>3. w <= duration - 30 * breaks - (breaks + 1 - k)
        BY <2>3, <3>1 DEF BreakMinutes
      <4>. QED
        BY <1>1, <2>2, <4>1, <4>2, <4>3
    <3>3. x \in 0 .. duration /\ remaining_work - x \in 0 .. duration
          /\ remaining_work - x = duration - 30 * breaks - w
      BY <1>1, <3>2
    <3>. QED
      BY <3>1, <3>3 DEF BreakMinutes
  <2>6. /\ segments' \in Seq(0 .. duration) /\ Len(segments') = k
        /\ DOMAIN segments = 1 .. k - 1 /\ DOMAIN segments' = 1 .. k
        /\ \A j \in 1 .. k - 1 : segments'[j] = segments[j]
        /\ segments'[k] = x
    BY <1>1, <2>1, <2>5
  <2>7. TypeOK'
    BY <1>1, <1>2, <1>3, <2>1, <2>5, <2>6 DEF IInv, TypeOK
  <2>8. Searched'
    BY <1>1, <1>2, <2>1 DEF IInv, Searched
  <2>9. Divided'
    <3>1. ASSUME NEW j \in 1 .. k
          PROVE  segments'[j] = WorkedAfter(duration, j) - WorkedBefore(duration, j)
      <4>1. CASE j = k
        BY <2>4, <2>6, <4>1
      <4>2. CASE j # k
        <5>1. j \in 1 .. k - 1
          BY <1>1, <4>2
        <5>. QED
          BY <2>6, <5>1 DEF IInv, Divided
      <4>. QED
        BY <4>1, <4>2
    <3>2. remaining_segments' = breaks + 1 - k
      BY <1>1, <2>1
    <3>3. remaining_work' = duration - BreakMinutes * breaks - WorkedBefore(duration, k + 1)
      BY <2>1, <2>3, <2>5
    <3>. HIDE DEF k
    <3>. QED
      BY <1>1, <1>2, <2>1, <2>6, <3>1, <3>2, <3>3 DEF Divided
  <2>10. Walked'
    BY <1>1, <1>2, <2>1 DEF IInv, Walked
  <2>. QED
    BY <2>7, <2>8, <2>9, <2>10 DEF IInv
<1>4. CASE ~ (remaining_segments > 0)
  <2>1. pc' = "walk" /\ UNCHANGED <<segments, remaining_work, remaining_segments>>
    BY <1>4 DEF Divide
  <2>2. Len(segments) = breaks + 1
    BY <1>1, <1>4
  <2>3. TypeOK'
    BY <1>2, <2>1 DEF IInv, TypeOK
  <2>4. Searched'
    BY <1>1, <1>2, <2>1 DEF IInv, Searched
  <2>5. Divided'
    BY <1>2, <2>1, <2>2 DEF IInv, Divided
  <2>6. Walked'
    <3>1. pc' # "done"
      BY <2>1
    <3>. QED
      BY <1>1, <1>2, <2>1, <3>1 DEF IInv, Walked
  <2>. QED
    BY <2>3, <2>4, <2>5, <2>6 DEF IInv
<1>. QED
  BY <1>3, <1>4

LEMMA WalkKeeps ==
  ASSUME IInv, Walk
  PROVE  IInv'
<1>. USE DurationAssumption
<1>1. /\ duration \in Nat /\ breaks \in Nat
      /\ break_count(duration) = breaks /\ (duration > 0 => BreaksSuffice(duration, breaks))
      /\ breaks > 0 => duration > 0
      /\ pc = "walk" /\ segments \in Seq(0 .. duration) /\ Len(segments) = breaks + 1
      /\ result \in Seq(0 .. duration)
      /\ \A j \in DOMAIN segments : segments[j] = WorkedAfter(duration, j) - WorkedBefore(duration, j)
  BY DEF IInv, TypeOK, Searched, Divided, Walk, SegmentMinutes
<1>2. UNCHANGED <<duration, breaks, remaining_work, remaining_segments, segments>>
  BY DEF Walk
<1>3. PICK m \in 0 .. breaks :
        /\ Len(result) = 2 * m
        /\ cursor = WorkedBefore(duration, m + 1) + BreakMinutes * m
        /\ \A k \in 1 .. m : /\ result[2 * k - 1] = BreakStart(0, duration, k)
                             /\ result[2 * k] = BreakStart(0, duration, k) + BreakMinutes
  BY DEF IInv, Walked
<1>4. Len(result) \div 2 + 1 = m + 1
  BY <1>1, <1>3
<1>5. CASE breaks > 0 /\ WalkContinues(m + 1)
  <2>. DEFINE k == m + 1
              start == cursor + segments[k]
              stop == start + BreakMinutes
  <2>1. k \in 1 .. breaks /\ k \in 1 .. breaks + 1 /\ k \in DOMAIN segments
    BY <1>1, <1>5 DEF WalkContinues
  <2>2. pc' = pc /\ result' = result \o <<start, stop>> /\ cursor' = stop
    BY <1>4, <1>5 DEF Walk, BreakAfterSegment
  <2>3. /\ WorkedBefore(duration, k) \in Nat /\ WorkedAfter(duration, k) \in Nat
        /\ WorkedAfter(duration, k) <= duration - BreakMinutes * breaks - (breaks + 1 - k)
        /\ WorkedBefore(duration, k + 1) = WorkedAfter(duration, k)
    BY <1>1, <1>5, <2>1, Worked
  <2>4. segments[k] = WorkedAfter(duration, k) - WorkedBefore(duration, k)
    BY <1>1, <2>1
  <2>5. start = WorkedAfter(duration, k) + BreakMinutes * (k - 1)
    BY <1>3, <2>3, <2>4 DEF BreakMinutes
  <2>6. start = BreakStart(0, duration, k)
    <3>1. duration - 0 = duration
      BY <1>1
    <3>. QED
      BY <2>3, <2>5, <3>1 DEF BreakStart, BreakMinutes
  <2>7. stop = WorkedBefore(duration, k + 1) + BreakMinutes * k
    BY <2>3, <2>5 DEF BreakMinutes
  <2>8. start \in 0 .. duration /\ stop \in 0 .. duration
    <3>1. PICK w \in Nat : w = WorkedAfter(duration, k)
      BY <2>3
    <3>2. w <= duration - 30 * breaks - (breaks + 1 - k)
      BY <2>3, <3>1 DEF BreakMinutes
    <3>3. start = w + 30 * m /\ stop = w + 30 * m + 30
      BY <2>5, <3>1 DEF BreakMinutes
    <3>4. m + 1 <= breaks /\ m \in Nat
      BY <1>1, <2>1
    <3>. HIDE DEF start, stop
    <3>. QED
      BY <1>1, <3>2, <3>3, <3>4
  <2>. HIDE DEF start, stop
  <2>9. /\ result' \in Seq(0 .. duration) /\ Len(result') = 2 * k
        /\ \A n \in 1 .. 2 * m : result'[n] = result[n]
        /\ result'[2 * k - 1] = start /\ result'[2 * k] = stop
    <3>1. PICK pair : pair = <<start, stop>>
      OBVIOUS
    <3>2. pair \in Seq(0 .. duration) /\ Len(pair) = 2 /\ pair[1] = start /\ pair[2] = stop
      BY <2>8, <3>1
    <3>3. /\ result' \in Seq(0 .. duration) /\ Len(result') = 2 * m + 2
          /\ \A n \in 1 .. Len(result) : result'[n] = result[n]
          /\ \A n \in 1 .. Len(pair) : result'[Len(result) + n] = pair[n]
      <4>1. result' = result \o pair
        BY <2>2, <3>1
      <4>2. /\ result \o pair \in Seq(0 .. duration)
            /\ Len(result \o pair) = Len(result) + Len(pair)
            /\ \A i \in 1 .. Len(result) + Len(pair) :
                 (result \o pair)[i] = IF i <= Len(result) THEN result[i] ELSE pair[i - Len(result)]
        BY <1>1, <3>2, ConcatProperties
      <4>3. Len(result) \in Nat /\ Len(pair) = 2
        BY <1>1, <3>2
      <4>4. \A n \in 1 .. Len(result) : n \in 1 .. Len(result) + Len(pair) /\ n <= Len(result)
        BY <4>3
      <4>5. \A n \in 1 .. Len(pair) : /\ Len(result) + n \in 1 .. Len(result) + Len(pair)
                                      /\ ~ (Len(result) + n <= Len(result))
                                      /\ Len(result) + n - Len(result) = n
        BY <4>3
      <4>6. \A n \in 1 .. Len(result) : result'[n] = result[n]
        BY <4>1, <4>2, <4>4
      <4>7. \A n \in 1 .. Len(pair) : result'[Len(result) + n] = pair[n]
        BY <4>1, <4>2, <4>5
      <4>8. result' \in Seq(0 .. duration) /\ Len(result') = 2 * m + 2
        BY <1>3, <4>1, <4>2, <4>3
      <4>. QED
        BY <4>6, <4>7, <4>8
    <3>4. 2 * k - 1 = Len(result) + 1 /\ 2 * k = Len(result) + 2 /\ 1 \in 1 .. 2 /\ 2 \in 1 .. 2
      BY <1>3
    <3>5. result'[2 * k - 1] = start /\ result'[2 * k] = stop
      BY <3>2, <3>3, <3>4
    <3>. QED
      BY <1>3, <3>3, <3>5
  <2>10. TypeOK'
    BY <1>2, <2>2, <2>8, <2>9 DEF IInv, TypeOK
  <2>11. Searched' /\ Divided'
    BY <1>1, <1>2, <2>2 DEF IInv, Searched, Divided
  <2>12. Walked'
    <3>1. ASSUME NEW j \in 1 .. k
          PROVE  /\ result'[2 * j - 1] = BreakStart(0, duration, j)
                 /\ result'[2 * j] = BreakStart(0, duration, j) + BreakMinutes
      <4>1. CASE j = k
        BY <2>6, <2>9, <4>1 DEF stop
      <4>2. CASE j # k
        <5>1. j \in 1 .. m /\ 2 * j - 1 \in 1 .. 2 * m /\ 2 * j \in 1 .. 2 * m
          BY <4>2
        <5>. QED
          BY <1>3, <2>9, <5>1
      <4>. QED
        BY <4>1, <4>2
    <3>2. k \in 0 .. breaks'
      BY <1>2, <2>1
    <3>3. pc' = "walk"
      BY <1>1, <2>2
    <3>. HIDE DEF k
    <3>. QED
      BY <1>2, <2>2, <2>7, <2>9, <3>1, <3>2, <3>3 DEF Walked
  <2>. QED
    BY <2>10, <2>11, <2>12 DEF IInv
<1>6. CASE ~ (breaks > 0 /\ WalkContinues(m + 1))
  <2>1. pc' = "done" /\ UNCHANGED <<cursor, result>>
    BY <1>4, <1>6 DEF Walk
  <2>2. m = breaks
    BY <1>1, <1>6 DEF WalkContinues
  <2>3. TypeOK' /\ Searched' /\ Divided'
    BY <1>1, <1>2, <2>1 DEF IInv, TypeOK, Searched, Divided
  <2>4. Walked'
    BY <1>2, <1>3, <2>1, <2>2 DEF Walked
  <2>. QED
    BY <2>3, <2>4 DEF IInv
<1>. QED
  BY <1>5, <1>6

LEMMA LoopsKeep == IInv /\ [Next]_vars => IInv'
<1>. SUFFICES ASSUME IInv, [Next]_vars PROVE IInv'
  OBVIOUS
<1>1. CASE Search
  BY <1>1, SearchKeeps
<1>2. CASE Divide
  BY <1>2, DivideKeeps
<1>3. CASE Walk
  BY <1>3, WalkKeeps
<1>4. CASE UNCHANGED vars
  BY <1>4 DEF vars, IInv, TypeOK, Searched, Divided, Walked
<1>. QED
  BY <1>1, <1>2, <1>3, <1>4 DEF Next, Returned

-----------------------------------------------------------------------------
(* What the loops return. *)

LEMMA ReturnsLegal == IInv => SegmentsLegal
<1>. SUFFICES ASSUME IInv, pc = "done" PROVE
       /\ Len(segments) = breaks + 1
       /\ \A k \in DOMAIN segments :
            segments[k] <= SegmentMinutes /\ (duration > 0 => segments[k] >= 1)
       /\ cursor + segments[Len(segments)] = duration
  BY DEF SegmentsLegal
<1>1. /\ duration \in Nat /\ breaks \in Nat /\ Len(segments) = breaks + 1
      /\ break_count(duration) = breaks /\ (duration > 0 => BreaksSuffice(duration, breaks))
      /\ breaks = 0 \/ duration > 0
      /\ segments \in Seq(0 .. duration)
      /\ \A j \in DOMAIN segments : segments[j] = WorkedAfter(duration, j) - WorkedBefore(duration, j)
  BY DurationAssumption DEF IInv, TypeOK, Searched, Divided, SegmentMinutes
<1>2. DOMAIN segments = 1 .. breaks + 1 /\ breaks + 1 \in 1 .. breaks + 1
  BY <1>1
<1>3. cursor = WorkedBefore(duration, breaks + 1) + BreakMinutes * breaks
  BY DEF IInv, Walked
<1>4. CASE duration > 0
  <2>1. ASSUME NEW k \in 1 .. breaks + 1
        PROVE  segments[k] \in 1 .. SegmentMinutes
    <3>1. WorkedAfter(duration, k) - WorkedBefore(duration, k) \in 1 .. SegmentMinutes
      BY <1>1, <1>4, Worked
    <3>. QED
      BY <1>1, <1>2, <3>1
  <2>2. /\ segments[breaks + 1] = WorkedAfter(duration, breaks + 1) - WorkedBefore(duration, breaks + 1)
        /\ WorkedBefore(duration, breaks + 1) \in Nat
        /\ WorkedAfter(duration, breaks + 1) = duration - BreakMinutes * breaks
    BY <1>1, <1>2, <1>4, Worked
  <2>3. cursor + segments[breaks + 1] = duration
    BY <1>1, <1>3, <2>2 DEF BreakMinutes
  <2>. QED
    <3>1. \A k \in DOMAIN segments : segments[k] <= SegmentMinutes /\ segments[k] >= 1
      <4>. SUFFICES ASSUME NEW k \in 1 .. breaks + 1
                    PROVE  segments[k] <= SegmentMinutes /\ segments[k] >= 1
        BY <1>2
      <4>1. segments[k] \in 1 .. SegmentMinutes
        BY <2>1
      <4>. QED
        BY <4>1 DEF SegmentMinutes
    <3>. QED
      BY <1>1, <2>3, <3>1
<1>5. CASE duration = 0
  BY <1>1, <1>2, <1>3, <1>5, NothingWorked DEF BreakMinutes, SegmentMinutes
<1>. QED
  BY <1>1, <1>4, <1>5

LEMMA ReturnsClosedForm == IInv => MatchesClosedForm
<1>. SUFFICES ASSUME IInv, pc = "done" PROVE
       /\ breaks = break_count(duration)
       /\ \A k \in DOMAIN segments :
            segments[k] = WorkedAfter(duration, k) - WorkedBefore(duration, k)
       /\ {result[n] : n \in DOMAIN result} = automatic_break_events(0, duration)
  BY DEF MatchesClosedForm
<1>1. /\ breaks = break_count(duration) /\ breaks \in Nat /\ duration \in Nat
      /\ result \in Seq(0 .. duration)
      /\ \A k \in DOMAIN segments : segments[k] = WorkedAfter(duration, k) - WorkedBefore(duration, k)
  BY DurationAssumption DEF IInv, TypeOK, Searched, Divided
<1>2. /\ Len(result) = 2 * breaks
      /\ \A k \in 1 .. breaks : /\ result[2 * k - 1] = BreakStart(0, duration, k)
                                /\ result[2 * k] = BreakStart(0, duration, k) + BreakMinutes
  BY DEF IInv, Walked
<1>3. DOMAIN result = 1 .. 2 * breaks
  BY <1>1, <1>2
<1>4. \A n \in 1 .. 2 * breaks : \E k \in 1 .. breaks : n = 2 * k - 1 \/ n = 2 * k
  <2>. SUFFICES ASSUME NEW n \in 1 .. 2 * breaks
                PROVE  \E k \in 1 .. breaks : n = 2 * k - 1 \/ n = 2 * k
    OBVIOUS
  <2>1. (n + 1) \div 2 \in 1 .. breaks /\ (n = 2 * ((n + 1) \div 2) - 1 \/ n = 2 * ((n + 1) \div 2))
    BY <1>1
  <2>. QED
    BY <2>1
<1>5. \A k \in 1 .. breaks : 2 * k - 1 \in 1 .. 2 * breaks /\ 2 * k \in 1 .. 2 * breaks
  BY <1>1
<1>6. automatic_break_events(0, duration)
        = UNION {{BreakStart(0, duration, k), BreakStart(0, duration, k) + BreakMinutes} :
                   k \in 1 .. breaks}
  <2>1. duration - 0 = duration
    BY <1>1
  <2>. QED
    BY <1>1, <2>1 DEF automatic_break_events
<1>7. {result[n] : n \in DOMAIN result} \subseteq automatic_break_events(0, duration)
  BY <1>2, <1>3, <1>4, <1>6
<1>8. automatic_break_events(0, duration) \subseteq {result[n] : n \in DOMAIN result}
  BY <1>2, <1>3, <1>5, <1>6
<1>. QED
  BY <1>1, <1>7, <1>8

\* break_segments splits a presence of any length legally: no stretch of work is
\* longer than six hours, none is empty, and work and breaks fill the presence.
THEOREM SplitIsLegal == Spec => []SegmentsLegal
<1>1. Init => IInv
  BY LoopsStart
<1>2. IInv /\ [Next]_vars => IInv'
  BY LoopsKeep
<1>3. IInv => SegmentsLegal
  BY ReturnsLegal
<1>. QED
  BY <1>1, <1>2, <1>3, PTL DEF Spec

\* The loops of break_segments and automatic_break_events compute the closed forms
\* with which TimeRecords inserts automatic breaks.
THEOREM SplitIsClosedForm == Spec => []MatchesClosedForm
<1>1. Init => IInv
  BY LoopsStart
<1>2. IInv /\ [Next]_vars => IInv'
  BY LoopsKeep
<1>3. IInv => MatchesClosedForm
  BY ReturnsClosedForm
<1>. QED
  BY <1>1, <1>2, <1>3, PTL DEF Spec
=============================================================================
