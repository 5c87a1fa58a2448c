--------------------------- MODULE BreakSegments ---------------------------
(***************************************************************************)
(* break_segments and automatic_break_events (time_intervals.py), loop by  *)
(* loop: a search for the number of breaks, a division of the work into    *)
(* segments, and a walk that turns segments into break boundaries.  The    *)
(* result is compared with the closed forms of TimeIntervals, on which     *)
(* TimeRecords and its proofs rest.                                        *)
(***************************************************************************)
EXTENDS TimeIntervals, Sequences

CONSTANT
  MaxDuration   \* bound: the longest presence, in minutes; a day has 1440

ASSUME DurationAssumption == MaxDuration \in Nat

VARIABLES
  pc,                  \* the loop the call is in
  duration,            \* duration_minutes
  breaks,
  remaining_work, remaining_segments,
  segments,
  cursor, result       \* of automatic_break_events, started at minute 0

vars == <<pc, duration, breaks, remaining_work, remaining_segments, segments, cursor, result>>

\* The search never needs more breaks than minutes.
TypeOK ==
  /\ pc \in {"search", "divide", "walk", "done"}
  /\ duration \in 0 .. MaxDuration
  /\ breaks \in 0 .. duration
  /\ remaining_work \in 0 .. duration
  /\ remaining_segments \in 0 .. breaks + 1
  /\ segments \in Seq(0 .. duration)
  /\ cursor \in 0 .. duration
  /\ result \in Seq(0 .. duration)

\* Presences of at most 360 minutes return early with one segment.
Init ==
  /\ duration \in 0 .. MaxDuration
  /\ breaks = 0 /\ remaining_work = 0 /\ remaining_segments = 0
  /\ cursor = 0 /\ result = <<>>
  /\ IF duration <= SegmentMinutes
     THEN pc = "walk" /\ segments = <<duration>>
     ELSE pc = "search" /\ segments = <<>>

\* The exit test; the mutated one would ask for full segments before the last.
FullSegmentTest(work) ==
  work >= breaks * SegmentMinutes + 1 /\ work <= (breaks + 1) * SegmentMinutes
SearchEnds(work) == work >= breaks + 1 /\ work <= (breaks + 1) * SegmentMinutes

Search ==
  LET work == duration - breaks * BreakMinutes
  IN  /\ pc = "search"
      /\ IF SearchEnds(work)
         THEN /\ pc' = "divide"
              /\ remaining_work' = work
              /\ remaining_segments' = breaks + 1
              /\ UNCHANGED breaks
         ELSE \* bound: from `duration' breaks on no work is left and the loop is endless
              /\ breaks' = IF breaks < duration THEN breaks + 1 ELSE breaks
              /\ UNCHANGED <<pc, remaining_work, remaining_segments>>
      /\ UNCHANGED <<duration, segments, cursor, result>>

GreedySegment ==
  IF SegmentMinutes < remaining_work THEN SegmentMinutes ELSE remaining_work
NextSegment ==
  LET reserved == remaining_work - (remaining_segments - 1)
  IN  IF SegmentMinutes < reserved THEN SegmentMinutes ELSE reserved

Divide ==
  /\ pc = "divide"
  /\ IF remaining_segments > 0
     THEN /\ segments' = Append(segments, NextSegment)
          /\ remaining_work' = remaining_work - NextSegment
          /\ remaining_segments' = remaining_segments - 1
          /\ UNCHANGED pc
     ELSE /\ pc' = "walk"
          /\ UNCHANGED <<segments, remaining_work, remaining_segments>>
  /\ UNCHANGED <<duration, breaks, cursor, result>>

\* for segment in segments[:-1]: the k-th walk step reads segment k
BreakAfterSegment(k) == <<cursor + segments[k], cursor + segments[k] + BreakMinutes>>

WalkContinues(k) == k < Len(segments)

Walk ==
  LET k == Len(result) \div 2 + 1
  IN  /\ pc = "walk"
      /\ IF breaks > 0 /\ WalkContinues(k)
         THEN /\ result' = result \o BreakAfterSegment(k)
              /\ cursor' = BreakAfterSegment(k)[2]
              /\ UNCHANGED pc
         ELSE pc' = "done" /\ UNCHANGED <<cursor, result>>
      /\ UNCHANGED <<duration, breaks, remaining_work, remaining_segments, segments>>

\* the call has returned
Returned == pc = "done" /\ UNCHANGED vars

Next == Search \/ Divide \/ Walk \/ Returned

Spec == Init /\ [][Next]_vars /\ WF_vars(Next)

-----------------------------------------------------------------------------
\* The law the split is about: no stretch of work is longer than six hours, none is
\* empty (a zero-minute presence aside), and work and breaks fill the presence: the
\* last segment starts where the last break ends and ends with the presence.
SegmentsLegal ==
  pc = "done" =>
    /\ Len(segments) = breaks + 1
    /\ \A k \in DOMAIN segments :
         segments[k] <= SegmentMinutes /\ (duration > 0 => segments[k] >= 1)
    /\ cursor + segments[Len(segments)] = duration

\* The loops compute what the closed forms of TimeIntervals say.
WorkedBefore(d, k) == IF k = 1 THEN 0 ELSE WorkedAfter(d, k - 1)
MatchesClosedForm ==
  pc = "done" =>
    /\ breaks = break_count(duration)
    /\ \A k \in DOMAIN segments :
         segments[k] = WorkedAfter(duration, k) - WorkedBefore(duration, k)
    /\ {result[n] : n \in DOMAIN result} = automatic_break_events(0, duration)

-----------------------------------------------------------------------------
\* Why the loops are right, loop by loop.  The search has refused every smaller
\* number of breaks.
Searched ==
  IF pc = "search" THEN duration > SegmentMinutes /\ \A b \in 0 .. breaks - 1 : ~ BreaksSuffice(duration, b)
  ELSE breaks = break_count(duration) /\ (breaks = 0 \/ duration > SegmentMinutes)
       /\ (duration > 0 => BreaksSuffice(duration, breaks))

\* The division has given out the segments of the closed form.
Divided ==
  /\ \A k \in DOMAIN segments : segments[k] = WorkedAfter(duration, k) - WorkedBefore(duration, k)
  /\ pc = "search" => segments = <<>>
  /\ pc = "divide" =>
       /\ duration > 0 /\ remaining_segments = breaks + 1 - Len(segments)
       /\ remaining_work = duration - BreakMinutes * breaks - WorkedBefore(duration, Len(segments) + 1)
  /\ pc \in {"walk", "done"} => Len(segments) = breaks + 1

\* The walk has made the first m breaks and is at the end of the last of them.
Walked ==
  \E m \in 0 .. breaks :
    /\ Len(result) = 2 * m
    /\ cursor = WorkedBefore(duration, m + 1) + BreakMinutes * m
    /\ \A k \in 1 .. m : /\ result[2 * k - 1] = BreakStart(0, duration, k)
                         /\ result[2 * k] = BreakStart(0, duration, k) + BreakMinutes
    /\ pc \in {"search", "divide"} => m = 0
    /\ pc = "done" => m = breaks

IInv == TypeOK /\ Searched /\ Divided /\ Walked
=============================================================================
