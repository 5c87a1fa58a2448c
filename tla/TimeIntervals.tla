--------------------------- MODULE TimeIntervals ---------------------------
(***************************************************************************)
(* The pure time arithmetic of the backend (app/services/time_intervals.py *)
(* and the impact detection of app/services/attendance_mutations.py).      *)
(*                                                                         *)
(* A local wall-clock instant is a number of minutes, 1440 to the day, so  *)
(* that day d starts at minute 1440 * d.  The stored attendance events of  *)
(* one employment are a SET of instants: the table has a unique constraint *)
(* on (employment_id, occurred_at), and every algorithm below first sorts. *)
(* An interval is a pair <<start, end>>.                                   *)
(*                                                                         *)
(* The two loops of the source are written here in closed form, without    *)
(* recursion, so that facts about them can be proved.  BreakSegments runs  *)
(* the loops of break_segments step by step and compares; MissingBreaks    *)
(* does the same for the search loop of missing_break_event_groups.        *)
(***************************************************************************)
EXTENDS Integers, FiniteSets, FiniteSetsExt

DayMinutes == 1440
BreakMinutes == 30
SegmentMinutes == 360

\* prague_now(occurred_at).date()
DayOf(t) == t \div DayMinutes

\* the instants of S on day d: one bucket of by_day
OfDay(S, d) == {t \in S : DayOf(t) = d}

-----------------------------------------------------------------------------
\* One day's times in chronological order, (1st, 2nd), (3rd, 4th), ...; an odd
\* last time stays unpaired.
DayPairs(T) ==
  {p \in T \X T :
     /\ p[1] < p[2]
     /\ Cardinality({x \in T : x < p[1]}) % 2 = 0
     /\ ~ \E x \in T : p[1] < x /\ x < p[2]}

\* Every local day is paired on its own.
pair_event_rows(S) == UNION {DayPairs(OfDay(S, d)) : d \in {DayOf(t) : t \in S}}

interval_signatures(S) == pair_event_rows(S)

\* The days a mutation touches: the days of the explicit timestamps and of every
\* interval that appears or disappears (an interval lies inside one day).
changed_event_days(before, after, timestamps) ==
  {DayOf(t) : t \in timestamps}
    \cup {DayOf(p[1]) : p \in (before \ after) \cup (after \ before)}

-----------------------------------------------------------------------------
\* The exit test of the search loop of break_segments after b increments.
BreaksSuffice(d, b) ==
  /\ d - BreakMinutes * b >= b + 1
  /\ d - BreakMinutes * b <= SegmentMinutes * (b + 1)

\* How many breaks break_segments puts into d minutes of presence.
break_count(d) ==
  IF d <= SegmentMinutes THEN 0
  ELSE CHOOSE b \in 0 .. d :
         BreaksSuffice(d, b) /\ \A c \in 0 .. b - 1 : ~ BreaksSuffice(d, c)

\* Minutes worked in the first k of the break_count(d) + 1 segments: each segment
\* takes 360 minutes but leaves one minute to every later one.
WorkedAfter(d, k) ==
  LET b == break_count(d)
      full == SegmentMinutes * k
      left == d - BreakMinutes * b - (b + 1 - k)
  IN  IF full <= left THEN full ELSE left

\* Both boundary times of every pause put into the interval from s to e.
BreakStart(s, e, k) == s + WorkedAfter(e - s, k) + BreakMinutes * (k - 1)
automatic_break_events(s, e) ==
  UNION {{BreakStart(s, e, k), BreakStart(s, e, k) + BreakMinutes} :
           k \in 1 .. break_count(e - s)}

-----------------------------------------------------------------------------
\* Sessions: maximal runs of intervals whose gaps are shorter than 30 minutes.
OpensSession(I, p) == ~ \E q \in I : q[1] < p[1] /\ p[1] - q[2] < BreakMinutes
SessionOf(I, p) ==
  {q \in I : /\ p[1] <= q[1]
             /\ ~ \E r \in I : OpensSession(I, r) /\ p[1] < r[1] /\ r[1] <= q[1]}
Sessions(I) == {SessionOf(I, p) : p \in {q \in I : OpensSession(I, q)}}

SessionStart(s) == Min({p[1] : p \in s})
SessionEnd(s) == Max({p[2] : p \in s})

\* Minutes between the intervals of the session: the pauses already recorded.
ExistingMinutes(s) ==
  Cardinality({x \in SessionStart(s) .. SessionEnd(s) - 1 :
                 ~ \E p \in s : p[1] <= x /\ x < p[2]})

\* Minutes of pause the session still lacks, negative when it has more than enough.
MissingMinutes(s) ==
  BreakMinutes * break_count(SessionEnd(s) - SessionStart(s)) - ExistingMinutes(s)

\* The missing minutes are cut into pauses of 30 minutes and a shorter last one.
PauseCount(s) == (MissingMinutes(s) + BreakMinutes - 1) \div BreakMinutes
PauseLength(s, k) ==
  LET remaining == MissingMinutes(s) - BreakMinutes * (k - 1)
  IN  IF remaining < BreakMinutes THEN remaining ELSE BreakMinutes

\* A pause of n minutes fits into p with a minute of work on either side.
Earliest(p) == p[1] + 1
Latest(p, n) == p[2] - n - 1
Roomy(s, n) == {p \in s : Earliest(p) <= Latest(p, n)}
Clamp(x, lo, hi) == IF x < lo THEN lo ELSE IF x > hi THEN hi ELSE x

\* The scan over the session stops at an interval that has room at the target;
\* without one, the last roomy interval wins, as near to the target as it allows.
placement(s, target, n) ==
  LET hit == {p \in Roomy(s, n) : Earliest(p) <= target /\ target <= Latest(p, n)}
      last == CHOOSE p \in Roomy(s, n) : \A q \in Roomy(s, n) : q[1] <= p[1]
  IN  IF hit # {} THEN target ELSE Clamp(target, Earliest(last), Latest(last, n))

\* The k-th pause of a session, aimed at k * 360 minutes after its start.
Pause(s, k) ==
  LET n == PauseLength(s, k)
      x == placement(s, SessionStart(s) + SegmentMinutes * k, n)
  IN  <<x, x + n>>

\* One group (a sequence of pauses) per session that meets the range, lacks
\* pause time and has room for every missing pause.
missing_break_event_groups(I, lo, hi) ==
  {[k \in 1 .. PauseCount(s) |-> Pause(s, k)] :
     s \in {s \in Sessions(I) :
              /\ SessionEnd(s) > lo /\ SessionStart(s) < hi
              /\ MissingMinutes(s) > 0
              /\ \A k \in 1 .. PauseCount(s) : Roomy(s, PauseLength(s, k)) # {}}}
=============================================================================
