---------------------------- MODULE TimeMetrics ----------------------------
(***************************************************************************)
(* The hours of a month (app/services/time_metrics.py, month_summary.py,   *)
(* daily_metrics.py, czech_holidays.py): minutes of every day by kind,     *)
(* rounded to tenths of an hour day by day, stored as rows when the month  *)
(* has facts, and read back.  A day is its proleptic ordinal, as in        *)
(* datetime.date, and day d starts at minute 1440 * d.                     *)
(***************************************************************************)
EXTENDS TimeIntervals

CONSTANTS
  Cases,     \* months and what is recorded in them
  Profiles   \* profiles of employments

VARIABLES
  input,     \* the month, its times, shifts and statuses
  profile,   \* what the employment shows
  rows,      \* employment_daily_time_metrics of the month, or Unsynced
  shown      \* the summary read from them, or Unread

vars == <<input, profile, rows, shown>>

Keys == {"total", "afternoon", "night", "weekend", "public_holiday"}
CreditedStatuses == {"HOLIDAY", "SICKNESS", "PARAGRAPH"}
Sources == {"ATTENDANCE", "SHIFT_PLAN"}

\* The times are minutes; a shift lies in its day (shift_plan_interval).
CasesAssumption ==
  \A c \in Cases :
    /\ c.year \in Nat /\ c.month \in 1 .. 12
    /\ c.times \subseteq Nat /\ IsFiniteSet(c.times)
    /\ DOMAIN c.shifts \subseteq Nat /\ IsFiniteSet(DOMAIN c.shifts)
    /\ \A d \in DOMAIN c.shifts : c.shifts[d] # <<>> =>
         /\ c.shifts[d] \in Nat \X Nat
         /\ DayMinutes * d <= c.shifts[d][1] /\ c.shifts[d][1] < c.shifts[d][2]
         /\ c.shifts[d][2] <= DayMinutes * (d + 1)

\* ck_employment_afternoon_start
ProfilesAssumption == \A p \in Profiles : p.afternoon \in 0 .. 1319

Hidden == <<>>
NoMetrics == [none |-> TRUE]
Unsynced == [unsynced |-> TRUE]
Unread == [unread |-> TRUE]

-----------------------------------------------------------------------------
(* datetime.date *)

Leap(y) == y % 4 = 0 /\ (y % 100 # 0 \/ y % 400 = 0)
DaysIn(y, m) == IF m = 2 THEN (IF Leap(y) THEN 29 ELSE 28) ELSE IF m \in {4, 6, 9, 11} THEN 30 ELSE 31
Ordinal(y, m, d) ==
  365 * (y - 1) + ((y - 1) \div 4) - ((y - 1) \div 100) + ((y - 1) \div 400)
    + SumFunction([k \in 1 .. m - 1 |-> DaysIn(y, k)]) + d
weekday(d) == (d + 6) % 7

_month_range(y, m) == Ordinal(y, m, 1) .. Ordinal(y, m, DaysIn(y, m))

-----------------------------------------------------------------------------
(* czech_holidays.py *)

FIXED_HOLIDAY_LABELS ==
  {<<1, 1>>, <<5, 1>>, <<5, 8>>, <<7, 5>>, <<7, 6>>, <<9, 28>>, <<10, 28>>, <<11, 17>>,
   <<12, 24>>, <<12, 25>>, <<12, 26>>}

_easter_sunday(year) ==
  LET a == year % 19
      b == year \div 100
      c == year % 100
      g == (b + 1 - ((b + 8) \div 25)) \div 3
      h == (19 * a + b - (b \div 4) - g + 15) % 30
      l == (32 + 2 * (b % 4) + 2 * (c \div 4) - h - (c % 4)) % 7
      m == (a + 11 * h + 22 * l) \div 451
      n == (h + l + 114) - 7 * m
  IN  Ordinal(year, n \div 31, (n % 31) + 1)

is_czech_public_holiday(year, d) ==
  \/ \E f \in FIXED_HOLIDAY_LABELS : d = Ordinal(year, f[1], f[2])
  \/ d \in {_easter_sunday(year) - 2, _easter_sunday(year) + 1}

-----------------------------------------------------------------------------
(* time_metrics.py *)

round_minutes_to_tenths(minutes) == (minutes + 3) \div 6

metric_value(minutes) == <<minutes, round_minutes_to_tenths(minutes)>>

Counted(p) == {"total"} \cup p.enabled

empty_daily_metrics(p) ==
  IF p.type = "TASK_SHIFT_BASED" THEN NoMetrics
  ELSE [k \in Keys |-> IF k \in Counted(p) THEN metric_value(0) ELSE Hidden]

\* An interval and its days; the part of a day that is empty is left out.
split_by_day(i) ==
  {q \in {<<d, <<Max({i[1], d * DayMinutes}), Min({i[2], (d + 1) * DayMinutes})>>>> :
            d \in DayOf(i[1]) .. DayOf(i[2])} :
     q[2][1] < q[2][2]}

overlap_minutes(i, start, end) == Max({0, Min({i[2], end}) - Max({i[1], start})})

\* A night that ends at midnight.
EveningOnly(parts, d) ==
  SumFunction([i \in parts |-> overlap_minutes(i, d * DayMinutes + 1320, d * DayMinutes + 1440)])
NightMinutes(parts, d) ==
  SumFunction([i \in parts |-> overlap_minutes(i, d * DayMinutes, d * DayMinutes + 360)
                                 + overlap_minutes(i, d * DayMinutes + 1320, d * DayMinutes + 1440)])
AfternoonMinutes(p, parts, d) ==
  SumFunction([i \in parts |-> overlap_minutes(i, d * DayMinutes + p.afternoon, d * DayMinutes + 1320)])

calculate_daily_metrics(p, year, d, intervals) ==
  LET parts == {q[2] : q \in {q \in UNION {split_by_day(i) : i \in intervals} : q[1] = d}}
      total == SumFunction([i \in parts |-> i[2] - i[1]])
      minutes(k) ==
        CASE k = "total" -> total
          [] k = "afternoon" -> AfternoonMinutes(p, parts, d)
          [] k = "night" -> NightMinutes(parts, d)
          [] k = "weekend" -> IF weekday(d) >= 5 THEN total ELSE 0
          [] k = "public_holiday" -> IF is_czech_public_holiday(year, d) THEN total ELSE 0
  IN  IF p.type = "TASK_SHIFT_BASED" THEN NoMetrics
      ELSE [k \in Keys |-> IF k \in Counted(p) THEN metric_value(minutes(k)) ELSE Hidden]

\* The credit of a full day, apart from worked and planned hours.
calculate_day_status_metrics(p, status) ==
  [k \in CreditedStatuses |->
     IF p.type # "TASK_SHIFT_BASED" /\ status = k THEN metric_value(480) ELSE Hidden]

-----------------------------------------------------------------------------
(* month_summary.py and daily_metrics.py *)

\* Minutes and tenths of the days that have key k; the tenths are not rounded again.
_sum(daily, k) ==
  LET days == {d \in DOMAIN daily : daily[d] # NoMetrics /\ daily[d][k] # Hidden}
  IN  IF days = {} THEN Hidden
      ELSE <<SumFunction([d \in days |-> daily[d][k][1]]), SumFunction([d \in days |-> daily[d][k][2]])>>

Intervals(source) ==
  IF source = "ATTENDANCE" THEN pair_event_rows(input.times)
  ELSE {input.shifts[d] : d \in {d \in DOMAIN input.shifts : input.shifts[d] # Hidden}}

\* What the calculation returns now, day by day.
Computed(source) ==
  [d \in _month_range(input.year, input.month) |->
     calculate_daily_metrics(profile, input.year, d, Intervals(source))]

\* Vacation and days off are rows of the plan, the others of the attendance.
StatusDays(source) ==
  {d \in DOMAIN input.status :
     (source = "SHIFT_PLAN") <=> (input.status[d] \in {"HOLIDAY", "OFF"})}

\* The days with a row of the source.
RowDays(source) ==
  StatusDays(source) \cup (IF source = "SHIFT_PLAN" THEN DOMAIN input.shifts ELSE {})

\* Times that are not part of an interval are facts as well.
Facts(source) ==
  RowDays(source) \cup (IF source = "ATTENDANCE" THEN {DayOf(t) : t \in input.times} ELSE {})

month_summary_source_presence(source) ==
  Facts(source) \cap _month_range(input.year, input.month) # {}

\* The stored rows of the month are replaced: a row for every day, or none.
sync_employment_month_metrics ==
  /\ rows = Unsynced
  /\ rows' = [source \in Sources |->
       IF month_summary_source_presence(source) /\ profile.type # "TASK_SHIFT_BASED"
       THEN Computed(source) ELSE <<>>]
  /\ UNCHANGED <<input, profile, shown>>

_stored_metrics(source, d) ==
  IF d \in DOMAIN rows[source] THEN rows[source][d] ELSE empty_daily_metrics(profile)

\* The page, the print and the export read the rows and add them up.
build_month_summary ==
  LET days == _month_range(input.year, input.month)
      stored(source) == [d \in days |-> _stored_metrics(source, d)]
      credits == [d \in days |-> calculate_day_status_metrics(profile,
                    IF d \in DOMAIN input.status THEN input.status[d] ELSE "")]
  IN  /\ rows # Unsynced /\ shown = Unread
      /\ shown' = [days |-> [source \in Sources |-> stored(source)],
                   sums |-> [source \in Sources |-> [k \in Keys |-> _sum(stored(source), k)]],
                   credits |-> [k \in CreditedStatuses |-> _sum(credits, k)]]
      /\ UNCHANGED <<input, profile, rows>>

Init ==
  /\ input \in Cases
  /\ profile \in Profiles
  /\ rows = Unsynced
  /\ shown = Unread

Next == sync_employment_month_metrics \/ build_month_summary

Spec == Init /\ [][Next]_vars

-----------------------------------------------------------------------------
(* Reference definitions *)

\* The minutes of the month at work or planned, one by one.
Minutes(source) ==
  {t \in UNION {i[1] .. i[2] - 1 : i \in Intervals(source)} :
     DayOf(t) \in _month_range(input.year, input.month)}

OfKind(k, minutes) ==
  LET clock(t) == t % DayMinutes
      holidays == {d \in {DayOf(t) : t \in minutes} : is_czech_public_holiday(input.year, d)}
  IN  CASE k = "total" -> minutes
        [] k = "afternoon" -> {t \in minutes : profile.afternoon <= clock(t) /\ clock(t) < 22 * 60}
        [] k = "night" -> {t \in minutes : clock(t) < 6 * 60 \/ 22 * 60 <= clock(t)}
        [] k = "weekend" -> {t \in minutes : DayOf(t) % 7 \in {6, 0}}
        [] k = "public_holiday" -> {t \in minutes : DayOf(t) \in holidays}

\* The Sunday after the full moon of the epact (the Gregorian rule of 1582).
EasterByEpact(year) ==
  LET golden == (year % 19) + 1
      century == (year \div 100) + 1
      skipped == ((3 * century) \div 4) - 12
      moon == ((8 * century + 5) \div 25) - 5
      e == (11 * golden + 20 + moon - skipped) % 30
      epact == IF (e = 25 /\ golden > 11) \/ e = 24 THEN e + 1 ELSE e
      full == IF 44 - epact < 21 THEN 74 - epact ELSE 44 - epact
      after == Ordinal(year, 3, 1) + full
  IN  after + ((6 - weekday(after)) % 7)

-----------------------------------------------------------------------------
\* The minutes of a month by every kind are counted one by one; the tenths, rounded
\* day by day (half up), are off by at most half a tenth for every day.
HoursCounted ==
  \A source \in Sources, k \in Keys :
    LET sum == shown.sums[source][k]
        minutes == OfKind(k, Minutes(source))
        days == Cardinality({DayOf(t) : t \in minutes})
    IN  IF profile.type = "TASK_SHIFT_BASED" \/ k \notin Counted(profile) THEN sum = Hidden
        ELSE /\ sum[1] = Cardinality(minutes)
             /\ 6 * sum[2] - sum[1] \in (-2 * days) .. (3 * days)

\* A full day is credited with eight hours, and only on an hourly profile.
DaysCredited ==
  \A k \in CreditedStatuses :
    LET days == {d \in DOMAIN input.status \cap _month_range(input.year, input.month) : input.status[d] = k}
    IN  shown.credits[k] = IF profile.type = "TASK_SHIFT_BASED" \/ days = {} THEN Hidden
                           ELSE <<480 * Cardinality(days), 80 * Cardinality(days)>>

\* Hours and credits are right, and Easter is the Sunday after the full moon.
MatchesReference ==
  shown # Unread =>
    HoursCounted /\ DaysCredited /\ _easter_sunday(input.year) = EasterByEpact(input.year)

\* What is read from the stored rows is what the calculation returns, also for days
\* without a row, months without facts and days with an open time only.
StoredAsComputed ==
  shown # Unread => \A source \in Sources : shown.days[source] = Computed(source)
=============================================================================
