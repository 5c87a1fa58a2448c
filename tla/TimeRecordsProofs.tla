------------------------- MODULE TimeRecordsProofs -------------------------
(***************************************************************************)
(* The safety of TimeRecords, for every calendar, set of employments,      *)
(* statuses, profiles and request inputs the assumptions allow.            *)
(*                                                                         *)
(* The inductive invariant IInv joins the type invariant with the three    *)
(* state properties.  None of the three is inductive without the others:   *)
(* an inserted break is safe for DayExclusive and FactsInPeriod only       *)
(* because it splits an interval whose day already has times, and the      *)
(* metrics of a new employment are right only because FactsInPeriod says   *)
(* that nothing is stored for it.                                          *)
(*                                                                         *)
(* The action properties follow from the invariant before and after a step *)
(* (last section): first the facts a step may not touch, then the metrics, *)
(* which cannot change where the facts they are computed from do not.      *)
(***************************************************************************)
EXTENDS TimeRecords, TimeIntervalsProofs

Exclusive(e, d) ==
  /\ attendance[e][d] # NoStatus => plan[e][d] = NoPlan
  /\ plan[e][d].status # NoStatus => plan[e][d] = StatusRow(plan[e][d].status)
  /\ get_day_status(e, d) # NoStatus => OfDay(events[e], d) = {}

InPeriod(e, d) ==
  AttendanceExists(e, d) \/ PlanExists(e, d) =>
    life[e] = "live" /\ employment_is_valid_on_day(e, d)

Fresh(e) ==
  \A m \in Month : worked[e][m] = WorkedRows(e, m) /\ planned[e][m] = PlannedRows(e, m)

Good(e) == (\A d \in Days : Exclusive(e, d) /\ InPeriod(e, d)) /\ Fresh(e)

FactsTyped ==
  /\ life \in [Employment -> {"absent", "live", "deleted"}]
  /\ emp \in [Employment -> [start : Days, end : Days \cup {NoEnd},
                             profile : Profile, autoBreaks : BOOLEAN]]
  /\ user \in [User -> {"active", "inactive", "deleted"}]
  /\ today \in Days
  /\ events \in [Employment -> SUBSET Time]
  /\ attendance \in [Employment -> [Days -> AttendanceStatus \cup {NoStatus}]]
  /\ plan \in [Employment -> [Days -> PlanRow]]
  /\ attLock \in [Employment -> SUBSET Month]
  /\ planLock \in [Employment -> SUBSET Month]
  /\ autoRuns \subseteq Month

MetricsTyped ==
  /\ worked \in [Employment -> [Month -> SUBSET MetricRow]]
  /\ planned \in [Employment -> [Month -> SUBSET MetricRow]]

\* The inductive invariant.
IInv == TypeOK /\ DayExclusive /\ FactsInPeriod /\ MetricsFresh

LEMMA IInvParts == IInv <=> FactsTyped /\ MetricsTyped /\ \A e \in Employment : Good(e)
BY DEF IInv, TypeOK, DayExclusive, FactsInPeriod, MetricsFresh, FactsTyped, MetricsTyped,
       Good, Exclusive, InPeriod, Fresh

LEMMA IInvPartsNext ==
  ASSUME FactsTyped', MetricsTyped', \A e \in Employment : Good(e)'
  PROVE  IInv'
BY DEF IInv, TypeOK, DayExclusive, FactsInPeriod, MetricsFresh, FactsTyped, MetricsTyped,
       Good, Exclusive, InPeriod, Fresh

-----------------------------------------------------------------------------
(* Calendar and types. *)

LEMMA TimeFacts ==
  /\ Time \subseteq Nat
  /\ \A t \in Time : DayOf(t) \in Days
  /\ \A s, e \in Time, t \in Nat : s <= t /\ t <= e => t \in Time
  /\ DayMinutes * (LastDay + 1) \in Nat
  /\ \A t \in Time : t <= DayMinutes * (LastDay + 1)
BY CalendarAssumption DEF Time, Days, DayOf, DayMinutes

LEMMA MonthFacts == \A d \in Days : MonthOf[d] \in Month /\ d \in DaysOf(MonthOf[d])
BY DEF Month, DaysOf

LEMMA DayPairsTyped ==
  ASSUME NEW S \in SUBSET Time, NEW d
  PROVE  DayPairs(OfDay(S, d)) \subseteq Time \X Time
BY DEF DayPairs, OfDay

LEMMA ShiftIntervalTyped ==
  ASSUME NEW d \in Days, NEW row \in PlanRow
  PROVE  shift_plan_interval(d, row) \subseteq Time \X Time
<1>1. CASE NoTime \in {row.arrival, row.departure} \/ row.departure <= row.arrival
  BY <1>1 DEF shift_plan_interval
<1>2. CASE ~ (NoTime \in {row.arrival, row.departure} \/ row.departure <= row.arrival)
  <2>1. row.arrival \in Minute /\ row.departure \in Minute
    BY <1>2 DEF PlanRow
  <2>2. /\ DayMinutes * d + row.arrival \in Time
        /\ DayMinutes * d + row.departure \in Time
    <3>1. \A x \in Minute : DayMinutes * d + x \in Time
      BY CalendarAssumption DEF Minute, Time, Days, DayMinutes
    <3>. QED
      BY <2>1, <3>1
  <2>. QED
    BY <1>2, <2>2 DEF shift_plan_interval
<1>. QED
  BY <1>1, <1>2

-----------------------------------------------------------------------------
(* Daily metrics as functions of the facts of one employment. *)

WorkedFrom(profile, S, status, m) ==
  IF profile = TaskProfile
       \/ ~ \E d \in DaysOf(m) : status[d] # NoStatus \/ OfDay(S, d) # {} THEN {}
  ELSE {[day |-> d, profile |-> profile, intervals |-> DayPairs(OfDay(S, d))] : d \in DaysOf(m)}

PlannedFrom(profile, row, m) ==
  IF profile = TaskProfile \/ ~ \E d \in DaysOf(m) : row[d] # NoPlan THEN {}
  ELSE {[day |-> d, profile |-> profile, intervals |-> shift_plan_interval(d, row[d])] :
          d \in DaysOf(m)}

LEMMA RowsFrom ==
  ASSUME NEW e, NEW m
  PROVE  /\ WorkedRows(e, m) = WorkedFrom(emp[e].profile, events[e], attendance[e], m)
         /\ PlannedRows(e, m) = PlannedFrom(emp[e].profile, plan[e], m)
         /\ WorkedRows(e, m)' = WorkedFrom(emp'[e].profile, events'[e], attendance'[e], m)
         /\ PlannedRows(e, m)' = PlannedFrom(emp'[e].profile, plan'[e], m)
BY DEF WorkedRows, PlannedRows, WorkedFrom, PlannedFrom, AttendanceExists, PlanExists

\* Metrics of a month depend on the days of that month only.
LEMMA RowsLocal ==
  ASSUME NEW profile, NEW m, NEW S, NEW R, NEW a, NEW b, NEW r, NEW q,
         \A d \in DaysOf(m) : OfDay(S, d) = OfDay(R, d) /\ a[d] = b[d] /\ r[d] = q[d]
  PROVE  /\ WorkedFrom(profile, S, a, m) = WorkedFrom(profile, R, b, m)
         /\ PlannedFrom(profile, r, m) = PlannedFrom(profile, q, m)
BY DEF WorkedFrom, PlannedFrom

LEMMA RowsTyped ==
  ASSUME NEW profile \in Profile, NEW m \in Month,
         NEW S \in SUBSET Time, NEW a, NEW r \in [Days -> PlanRow]
  PROVE  /\ WorkedFrom(profile, S, a, m) \in SUBSET MetricRow
         /\ PlannedFrom(profile, r, m) \in SUBSET MetricRow
<1>1. DaysOf(m) \subseteq Days
  BY DEF DaysOf
<1>2. CASE profile = TaskProfile
  BY <1>2 DEF WorkedFrom, PlannedFrom
<1>3. CASE profile # TaskProfile
  <2>1. profile \in HourlyProfile
    BY <1>3 DEF Profile
  <2>2. \A d \in DaysOf(m) :
          [day |-> d, profile |-> profile, intervals |-> DayPairs(OfDay(S, d))] \in MetricRow
    BY <1>1, <2>1, DayPairsTyped DEF MetricRow
  <2>3. \A d \in DaysOf(m) :
          [day |-> d, profile |-> profile, intervals |-> shift_plan_interval(d, r[d])]
            \in MetricRow
    BY <1>1, <2>1, ShiftIntervalTyped DEF MetricRow
  <2>. QED
    BY <2>2, <2>3 DEF WorkedFrom, PlannedFrom
<1>. QED
  BY <1>2, <1>3

\* Nothing recorded, no rows.
LEMMA RowsEmpty ==
  ASSUME NEW profile, NEW m, NEW S, NEW a, NEW r,
         \A d \in Days : OfDay(S, d) = {} /\ a[d] = NoStatus /\ r[d] = NoPlan
  PROVE  WorkedFrom(profile, S, a, m) = {} /\ PlannedFrom(profile, r, m) = {}
BY DEF WorkedFrom, PlannedFrom, DaysOf

-----------------------------------------------------------------------------
(* Steps in general. *)

\* What a step leaves alone stays good.
LEMMA Frame ==
  ASSUME NEW e, Good(e),
         life'[e] = life[e], emp'[e] = emp[e], events'[e] = events[e],
         attendance'[e] = attendance[e], plan'[e] = plan[e],
         worked'[e] = worked[e], planned'[e] = planned[e]
  PROVE  Good(e)'
<1>1. \A d \in Days : Exclusive(e, d)' /\ InPeriod(e, d)'
  BY DEF Good, Exclusive, InPeriod, get_day_status, AttendanceExists, PlanExists,
         employment_is_valid_on_day
<1>2. Fresh(e)'
  BY RowsFrom DEF Good, Fresh
<1>. QED
  BY <1>1, <1>2 DEF Good

\* A rebuild of the touched months leaves the metrics of the employment fresh when
\* no day of another month changed, and touches no other employment.
LEMMA SyncFresh ==
  ASSUME NEW e \in Employment, NEW months, sync_employment_metric_months(e, months),
         MetricsTyped, Fresh(e),
         \A m \in Month \ months :
           /\ emp'[e].profile = emp[e].profile
           /\ \A d \in DaysOf(m) : /\ OfDay(events'[e], d) = OfDay(events[e], d)
                                   /\ attendance'[e][d] = attendance[e][d]
                                   /\ plan'[e][d] = plan[e][d]
  PROVE  /\ Fresh(e)'
         /\ \A f \in Employment \ {e} : worked'[f] = worked[f] /\ planned'[f] = planned[f]
<1>1. \A m \in Month :
        /\ worked'[e][m] = IF m \in months THEN WorkedRows(e, m)' ELSE worked[e][m]
        /\ planned'[e][m] = IF m \in months THEN PlannedRows(e, m)' ELSE planned[e][m]
  BY DEF sync_employment_metric_months, MetricsTyped
<1>2. \A m \in Month \ months :
        WorkedRows(e, m)' = WorkedRows(e, m) /\ PlannedRows(e, m)' = PlannedRows(e, m)
  BY RowsFrom, RowsLocal
<1>3. \A f \in Employment \ {e} : worked'[f] = worked[f] /\ planned'[f] = planned[f]
  BY DEF sync_employment_metric_months, MetricsTyped
<1>4. \A m \in Month :
        worked'[e][m] = WorkedRows(e, m)' /\ planned'[e][m] = PlannedRows(e, m)'
  BY <1>1, <1>2 DEF Fresh
<1>. QED
  BY <1>3, <1>4 DEF Fresh

LEMMA SyncTyped ==
  ASSUME NEW e \in Employment, NEW months, sync_employment_metric_months(e, months),
         MetricsTyped, FactsTyped'
  PROVE  MetricsTyped'
<1>1. /\ emp'[e].profile \in Profile /\ events'[e] \in SUBSET Time
      /\ plan'[e] \in [Days -> PlanRow]
  BY DEF FactsTyped
<1>2. \A m \in Month :
        WorkedRows(e, m)' \in SUBSET MetricRow /\ PlannedRows(e, m)' \in SUBSET MetricRow
  <2>. TAKE m \in Month
  <2>1. /\ WorkedFrom(emp'[e].profile, events'[e], attendance'[e], m) \in SUBSET MetricRow
        /\ PlannedFrom(emp'[e].profile, plan'[e], m) \in SUBSET MetricRow
    BY <1>1, RowsTyped
  <2>. QED
    BY <2>1, RowsFrom
<1>. QED
  BY <1>2 DEF sync_employment_metric_months, MetricsTyped

-----------------------------------------------------------------------------
(* Event mutations. *)

\* What every event handler comes down to: an allowed request that stores a new set
\* of times, where every time added or removed lies on a day reported as changed and
\* every added time on a valid day without a status.
EventCommit(e, after, times) ==
  /\ after \in SUBSET Time /\ times \in SUBSET Nat
  /\ locked_employment_has_active_user(e)
  /\ CommitEvents(e, after, times)
  /\ \A t \in (after \ events[e]) \cup (events[e] \ after) :
       DayOf(t) \in ChangedDays(e, after, times)
  /\ \A t \in after \ events[e] :
       /\ employment_is_valid_on_day(e, DayOf(t))
       /\ attendance[e][DayOf(t)] = NoStatus /\ plan[e][DayOf(t)].status = NoStatus

EventStep(e) == \E after, times : EventCommit(e, after, times)

LEMMA EventStepSafe ==
  ASSUME IInv, NEW e \in Employment, EventStep(e)
  PROVE  IInv'
<1>0. PICK after, times : EventCommit(e, after, times)
  BY DEF EventStep
<1>. /\ after \in SUBSET Time /\ times \in SUBSET Nat
     /\ CommitEvents(e, after, times) /\ life[e] = "live"
     /\ \A t \in (after \ events[e]) \cup (events[e] \ after) :
          DayOf(t) \in ChangedDays(e, after, times)
     /\ \A t \in after \ events[e] :
          /\ employment_is_valid_on_day(e, DayOf(t))
          /\ attendance[e][DayOf(t)] = NoStatus /\ plan[e][DayOf(t)].status = NoStatus
  BY <1>0 DEF EventCommit, locked_employment_has_active_user
<1>. DEFINE changed == ChangedDays(e, after, times)
            months == months_for_days(changed)
<1>1. FactsTyped /\ MetricsTyped /\ \A f \in Employment : Good(f)
  BY IInvParts
<1>2. /\ UNCHANGED <<life, emp, user, today, attendance, plan, attLock, planLock, autoRuns>>
      /\ events' = [events EXCEPT ![e] = after]
      /\ sync_employment_metric_months(e, months)
  BY DEF CommitEvents, people, locks
<1>3. events'[e] = after /\ \A f \in Employment \ {e} : events'[f] = events[f]
  BY <1>1, <1>2 DEF FactsTyped
<1>4. FactsTyped'
  BY <1>1, <1>2 DEF FactsTyped
<1>5. MetricsTyped'
  BY <1>1, <1>2, <1>4, SyncTyped
<1>6. \A m \in Month \ months : \A d \in DaysOf(m) : OfDay(after, d) = OfDay(events[e], d)
  <2>. TAKE m \in Month \ months
  <2>. TAKE d \in DaysOf(m)
  <2>1. d \notin changed
    BY DEF months_for_days, DaysOf
  <2>. QED
    BY <2>1 DEF OfDay
<1>7. /\ Fresh(e)'
      /\ \A f \in Employment \ {e} : worked'[f] = worked[f] /\ planned'[f] = planned[f]
  <2>. HIDE DEF months
  <2>. QED
    BY <1>1, <1>2, <1>3, <1>6, SyncFresh DEF Good
<1>8. \A d \in Days : Exclusive(e, d)' /\ InPeriod(e, d)'
  <2>. TAKE d \in Days
  <2>1. Exclusive(e, d) /\ InPeriod(e, d)
    BY <1>1 DEF Good
  <2>2. \A t \in OfDay(after, d) : t \in OfDay(events[e], d) \/ t \in after \ events[e]
    BY DEF OfDay
  <2>3. \A t \in OfDay(after, d) : DayOf(t) = d
    BY DEF OfDay
  <2>4. Exclusive(e, d)'
    BY <1>2, <1>3, <2>1, <2>2, <2>3 DEF Exclusive, get_day_status
  <2>5. InPeriod(e, d)'
    BY <1>2, <1>3, <2>1, <2>2, <2>3
       DEF InPeriod, AttendanceExists, PlanExists, employment_is_valid_on_day
  <2>. QED
    BY <2>4, <2>5
<1>9. \A f \in Employment : Good(f)'
  <2>. TAKE f \in Employment
  <2>1. CASE f = e
    BY <1>7, <1>8, <2>1 DEF Good
  <2>2. CASE f # e
    BY <1>1, <1>2, <1>3, <1>7, <2>2, Frame
  <2>. QED
    BY <2>1, <2>2
<1>. QED
  BY <1>4, <1>5, <1>9, IInvPartsNext

LEMMA InsertCommits ==
  ASSUME IInv, NEW e \in Employment, NEW additions \in SUBSET Time, NEW times \in SUBSET Time,
         InsertEvents(e, additions, times),
         \A t \in additions : \E s \in times : DayOf(t) = DayOf(s)
  PROVE  EventStep(e)
<1>. DEFINE after == events[e] \cup additions
<1>1. after \in SUBSET Time /\ times \in SUBSET Nat
  BY TimeFacts DEF IInv, TypeOK
<1>2. CommitEvents(e, after, times) /\ locked_employment_has_active_user(e)
  BY DEF InsertEvents
<1>3. \A t \in additions : DayOf(t) \in ChangedDays(e, after, times)
  BY DEF ChangedDays, changed_event_days
<1>4. \A t \in additions :
        /\ employment_is_valid_on_day(e, DayOf(t))
        /\ attendance[e][DayOf(t)] = NoStatus /\ plan[e][DayOf(t)].status = NoStatus
  BY <1>3 DEF InsertEvents, ensure_days_have_no_status
<1>. HIDE DEF after
<1>5. after = events[e] \cup additions
  BY DEF after
<1>9. EventCommit(e, after, times)
  BY <1>1, <1>2, <1>3, <1>4, <1>5 DEF EventCommit
<1>. QED
  BY <1>9 DEF EventStep

\* The breaks that automatic_break_events adds lie on the day of the interval.
LEMMA BreaksOnDay ==
  ASSUME NEW s \in Time, NEW t \in Time, s < t, DayOf(s) = DayOf(t),
         NEW x \in automatic_break_events(s, t)
  PROVE  x \in Time /\ DayOf(x) = DayOf(t)
<1>1. s \in Nat /\ t \in Nat
  BY TimeFacts
<1>2. x \in Nat /\ s < x /\ x < t
  BY <1>1, AutomaticBreaksInside
<1>. QED
  BY <1>1, <1>2, TimeFacts, DayBetween

LEMMA InsertTimeCommits ==
  ASSUME IInv, NEW e \in Employment, NEW t \in Time, InsertTime(e, t)
  PROVE  EventStep(e)
<1>. DEFINE before == {x \in OfDay(events[e], DayOf(t)) : x < t}
            additions == add_event_with_breaks(e, t)
<1>1. before \in SUBSET Time /\ \A x \in before : DayOf(x) = DayOf(t) /\ x < t
  BY DEF IInv, TypeOK, OfDay
<1>2. \A x \in additions : x \in Time /\ DayOf(x) = DayOf(t)
  <2>1. CASE emp[e].autoBreaks /\ Cardinality(before) % 2 = 1
    <3>1. before # {}
      <4>1. Cardinality({}) = 0
        BY FS_EmptySet
      <4>. QED
        BY <2>1, <4>1
    <3>2. before \in SUBSET Nat /\ t \in Nat /\ \A x \in before : x <= t
      <4>. HIDE DEF before
      <4>1. Time \subseteq Nat
        BY TimeFacts
      <4>. QED
        BY <1>1, <4>1
    <3>3. Max(before) \in before
      BY <3>1, <3>2, MaxOfNat
    <3>4. Max(before) \in Time /\ Max(before) < t /\ DayOf(Max(before)) = DayOf(t)
      BY <1>1, <3>3
    <3>5. additions = {t} \cup automatic_break_events(Max(before), t)
      BY <2>1 DEF add_event_with_breaks
    <3>. HIDE DEF before, additions
    <3>. QED
      BY <3>4, <3>5, BreaksOnDay
  <2>2. CASE ~ (emp[e].autoBreaks /\ Cardinality(before) % 2 = 1)
    BY <2>2 DEF add_event_with_breaks
  <2>. QED
    BY <2>1, <2>2
<1>3. InsertEvents(e, additions, {t})
  BY DEF InsertTime
<1>. HIDE DEF additions
<1>. QED
  BY <1>2, <1>3, InsertCommits

LEMMA InsertIntervalCommits ==
  ASSUME IInv, NEW e \in Employment, NEW s \in Time, NEW t \in Time, InsertInterval(e, s, t)
  PROVE  EventStep(e)
<1>. DEFINE additions == add_closed_interval_with_breaks(e, s, t)
<1>1. DayOf(s) = DayOf(t) /\ s < t /\ InsertEvents(e, additions, {s, t})
  BY DEF InsertInterval
<1>2. \A x \in additions : x \in Time /\ DayOf(x) = DayOf(t)
  BY <1>1, BreaksOnDay DEF add_closed_interval_with_breaks
<1>. HIDE DEF additions
<1>. QED
  BY <1>1, <1>2, InsertCommits

LEMMA MoveCommits ==
  ASSUME IInv, NEW e \in Employment, NEW old, NEW new \in Time, MoveEvent(e, old, new)
  PROVE  EventStep(e)
<1>. DEFINE after == (events[e] \ {old}) \cup {new}
<1>1. old \in events[e] /\ events[e] \in SUBSET Time
  BY DEF MoveEvent, IInv, TypeOK
<1>2. after \in SUBSET Time /\ {old, new} \in SUBSET Nat
  BY <1>1, TimeFacts
<1>3. CommitEvents(e, after, {old, new}) /\ locked_employment_has_active_user(e)
  BY DEF MoveEvent
<1>4. \A t \in {old, new} : DayOf(t) \in ChangedDays(e, after, {old, new})
  BY DEF ChangedDays, changed_event_days
<1>5. /\ employment_is_valid_on_day(e, DayOf(new))
      /\ attendance[e][DayOf(new)] = NoStatus /\ plan[e][DayOf(new)].status = NoStatus
  BY <1>4 DEF MoveEvent, ensure_days_have_no_status
<1>6. (after \ events[e]) \subseteq {new} /\ (events[e] \ after) \subseteq {old}
  OBVIOUS
<1>. HIDE DEF after
<1>9. EventCommit(e, after, {old, new})
  BY <1>2, <1>3, <1>4, <1>5, <1>6 DEF EventCommit
<1>. QED
  BY <1>9 DEF EventStep

LEMMA RemoveCommits ==
  ASSUME IInv, NEW e \in Employment, NEW gone, RemoveEvents(e, gone)
  PROVE  EventStep(e)
<1>. DEFINE after == events[e] \ gone
<1>1. gone \subseteq events[e] /\ events[e] \in SUBSET Time
  BY DEF RemoveEvents, IInv, TypeOK
<1>2. after \in SUBSET Time /\ gone \in SUBSET Nat
  BY <1>1, TimeFacts
<1>3. CommitEvents(e, after, gone) /\ locked_employment_has_active_user(e)
  BY DEF RemoveEvents
<1>4. \A t \in gone : DayOf(t) \in ChangedDays(e, after, gone)
  BY DEF ChangedDays, changed_event_days
<1>5. after \ events[e] = {} /\ (events[e] \ after) \subseteq gone
  OBVIOUS
<1>. HIDE DEF after
<1>9. EventCommit(e, after, gone)
  BY <1>2, <1>3, <1>4, <1>5 DEF EventCommit
<1>. QED
  BY <1>9 DEF EventStep

\* Inserted pauses split recorded intervals, whose days have times already: such a
\* day is valid, has no status and counts as changed.
LEMMA AddMissingBreaksCommits ==
  ASSUME IInv, NEW e \in Employment, NEW m \in Month, AddMissingBreaks(e, m)
  PROVE  EventStep(e)
<1>. DEFINE S == events[e]
            A == BreakTimes(e, m)
            I == pair_event_rows(S)
            n == DayMinutes * (LastDay + 1)
<1>1. S \in SUBSET Time /\ S \in SUBSET Nat
  BY TimeFacts DEF IInv, TypeOK
<1>2. Intervals(I, n)
  <2>1. \A p \in I : /\ p[1] \in Time /\ p[2] \in Time /\ p = <<p[1], p[2]>> /\ p[1] < p[2]
    BY <1>1, PairRows
  <2>2. \A p \in I : p \in Nat \X Nat /\ p[2] <= n
    BY <2>1, TimeFacts
  <2>. QED
    BY <2>1, <2>2, TimeFacts DEF Intervals
<1>3. \A x \in A : x \in Int /\ \E p \in I : p[1] < x /\ x < p[2]
  <2>. TAKE x \in A
  <2>0. PICK g \in BreakGroups(e, m) : \E k \in NewPauses(e, g) : x \in {g[k][1], g[k][2]}
    BY DEF BreakTimes
  <2>1. PICK k \in NewPauses(e, g) : x \in {g[k][1], g[k][2]}
    BY <2>0
  <2>2. g \in missing_break_event_groups(I, MonthStart(m), MonthEnd(m)) /\ k \in DOMAIN g
    BY DEF BreakGroups, NewPauses
  <2>3. /\ g[k][1] \in Int /\ g[k][2] \in Int
        /\ \E p \in I : p[1] < g[k][1] /\ g[k][1] < g[k][2] /\ g[k][2] < p[2]
    BY <1>2, <2>2, MissingBreaksInside
  <2>. QED
    BY <1>2, <2>1, <2>3 DEF Intervals
<1>4. \A x \in A : /\ x \in Time
                   /\ DayOf(x) \in Days
                   /\ OfDay(S, DayOf(x)) # {}
                   /\ DayOf(x) \in ChangedDays(e, S \cup A, {})
  <2>. TAKE x \in A
  <2>1. PICK p \in I : p[1] < x /\ x < p[2]
    BY <1>3
  <2>2. p[1] \in S /\ p[2] \in S /\ DayOf(p[1]) = DayOf(p[2])
    BY <1>1, PairRows
  <2>3. p[1] \in Nat /\ p[2] \in Nat /\ x \in Nat
    BY <1>1, <1>3, <2>1, <2>2
  <2>4. x \in Time /\ DayOf(x) \in Days
    BY <1>1, <2>1, <2>2, <2>3, TimeFacts
  <2>5. DayOf(x) = DayOf(p[1])
    BY <2>1, <2>2, <2>3, DayBetween
  <2>6. A \in SUBSET Nat
    <3>. SUFFICES ASSUME NEW y \in A PROVE y \in Nat
      OBVIOUS
    <3>. QED
      BY <1>2, <1>3 DEF Intervals
  <2>7. DayOf(x) \in ChangedDays(e, S \cup A, {})
    <3>. HIDE DEF S, A
    <3>1. DayOf(x) \in changed_event_days(interval_signatures(S),
                                          interval_signatures(S \cup A), {})
      BY <1>1, <2>1, <2>6, SplitPairChangesDay
    <3>. QED
      BY <3>1 DEF ChangedDays, S
  <2>. QED
    BY <2>2, <2>4, <2>5, <2>7 DEF OfDay
<1>5. \A x \in A : /\ employment_is_valid_on_day(e, DayOf(x))
                   /\ attendance[e][DayOf(x)] = NoStatus /\ plan[e][DayOf(x)].status = NoStatus
  <2>. TAKE x \in A
  <2>1. OfDay(S, DayOf(x)) # {} /\ DayOf(x) \in Days
    BY <1>4
  <2>2. employment_is_valid_on_day(e, DayOf(x))
    BY <2>1 DEF IInv, FactsInPeriod, AttendanceExists
  <2>3. get_day_status(e, DayOf(x)) = NoStatus
    BY <2>1 DEF IInv, DayExclusive
  <2>. QED
    BY <2>2, <2>3 DEF get_day_status
<1>6. CommitEvents(e, S \cup A, {}) /\ locked_employment_has_active_user(e)
  BY DEF AddMissingBreaks
<1>7. S \cup A \in SUBSET Time
  BY <1>1, <1>4
<1>. HIDE DEF A, I
<1>9. EventCommit(e, S \cup A, {})
  BY <1>4, <1>5, <1>6, <1>7 DEF EventCommit
<1>. QED
  BY <1>9 DEF EventStep

\* The nine handlers of events, and the insertion of missing breaks.
EventHandler(e) ==
  \/ CreateAttendanceEvent(e) \/ UpdateAttendanceEvent(e) \/ DeleteAttendanceEvent(e)
  \/ AdminCreateEvent(e) \/ AdminUpdateEvent(e) \/ AdminDeleteEvent(e)
  \/ IntegrationCreateEvent(e) \/ IntegrationUpdateEvent(e) \/ IntegrationDeleteEvent(e)
  \/ \E m \in Month : AddMissingBreaks(e, m)

LEMMA EventHandlers ==
  ASSUME IInv, NEW e \in Employment, EventHandler(e)
  PROVE  EventStep(e)
<1>1. InputTime \subseteq Time
  BY InputAssumption
<1>2. CASE \/ CreateAttendanceEvent(e) \/ AdminCreateEvent(e) \/ IntegrationCreateEvent(e)
  <2>1. PICK s, t \in InputTime : IF s = t THEN InsertTime(e, t) ELSE InsertInterval(e, s, t)
    BY <1>2 DEF CreateAttendanceEvent, AdminCreateEvent, IntegrationCreateEvent
  <2>. QED
    BY <1>1, <2>1, InsertTimeCommits, InsertIntervalCommits
<1>3. CASE \/ UpdateAttendanceEvent(e) \/ AdminUpdateEvent(e) \/ IntegrationUpdateEvent(e)
  <2>1. PICK old \in events[e], new \in InputTime : MoveEvent(e, old, new)
    BY <1>3 DEF UpdateAttendanceEvent, AdminUpdateEvent, IntegrationUpdateEvent
  <2>. QED
    BY <1>1, <2>1, MoveCommits
<1>4. CASE \/ DeleteAttendanceEvent(e) \/ AdminDeleteEvent(e) \/ IntegrationDeleteEvent(e)
  BY <1>4, RemoveCommits DEF DeleteAttendanceEvent, AdminDeleteEvent, IntegrationDeleteEvent
<1>5. CASE \E m \in Month : AddMissingBreaks(e, m)
  BY <1>5, AddMissingBreaksCommits
<1>. QED
  BY <1>2, <1>3, <1>4, <1>5 DEF EventHandler

-----------------------------------------------------------------------------
(* Shift plan and all-day statuses. *)

\* A step that rewrites one valid day and rebuilds its month is safe when it leaves
\* that day exclusive.
LEMMA DayWriteSafe ==
  ASSUME IInv, FactsTyped', NEW e \in Employment, NEW d \in Days, NEW months,
         life[e] = "live", employment_is_valid_on_day(e, d),
         life' = life, emp' = emp,
         sync_employment_metric_months(e, months),
         \A f \in Employment \ {e} :
           events'[f] = events[f] /\ attendance'[f] = attendance[f] /\ plan'[f] = plan[f],
         \A c \in Days : c # d \/ MonthOf[d] \notin months =>
           /\ OfDay(events'[e], c) = OfDay(events[e], c)
           /\ attendance'[e][c] = attendance[e][c]
           /\ plan'[e][c] = plan[e][c],
         Exclusive(e, d)'
  PROVE  IInv'
<1>1. FactsTyped /\ MetricsTyped /\ \A f \in Employment : Good(f)
  BY IInvParts
<1>2. MetricsTyped'
  BY <1>1, SyncTyped
<1>3. \A m \in Month \ months : \A c \in DaysOf(m) :
        /\ OfDay(events'[e], c) = OfDay(events[e], c)
        /\ attendance'[e][c] = attendance[e][c]
        /\ plan'[e][c] = plan[e][c]
  BY DEF DaysOf
<1>4. /\ Fresh(e)'
      /\ \A f \in Employment \ {e} : worked'[f] = worked[f] /\ planned'[f] = planned[f]
  BY <1>1, <1>3, SyncFresh DEF Good
<1>5. \A c \in Days : Exclusive(e, c)' /\ InPeriod(e, c)'
  <2>. TAKE c \in Days
  <2>1. CASE c = d
    BY <2>1 DEF InPeriod, employment_is_valid_on_day
  <2>2. CASE c # d
    <3>1. Exclusive(e, c) /\ InPeriod(e, c)
      BY <1>1 DEF Good
    <3>. QED
      BY <2>2, <3>1 DEF Exclusive, InPeriod, get_day_status, AttendanceExists, PlanExists,
                        employment_is_valid_on_day
  <2>. QED
    BY <2>1, <2>2
<1>6. \A f \in Employment : Good(f)'
  <2>. TAKE f \in Employment
  <2>1. CASE f = e
    BY <1>4, <1>5, <2>1 DEF Good
  <2>2. CASE f # e
    BY <1>1, <1>4, <2>2, Frame
  <2>. QED
    BY <2>1, <2>2
<1>. QED
  BY <1>2, <1>6, IInvPartsNext

LEMMA RowShapes ==
  /\ NoPlan \in PlanRow /\ NoPlan.status = NoStatus
  /\ \A s \in PlanStatus : /\ StatusRow(s) \in PlanRow /\ StatusRow(s).status = s
                           /\ s # NoStatus
  /\ \A row \in InputPlan : row \in PlanRow
  /\ \A row \in InputPlan : row.status # NoStatus => row = StatusRow(row.status)
  /\ \A row \in PlanRow : ClearedPlan(row) \in PlanRow /\ ClearedPlan(row).status = NoStatus
  /\ ClearedPlan(NoPlan) = NoPlan
  /\ \A s \in AttendanceStatus : s # NoStatus /\ s \notin PlanStatus
<1>1. /\ NoPlan \in PlanRow /\ NoPlan.status = NoStatus
      /\ \A s \in PlanStatus : /\ StatusRow(s) \in PlanRow /\ StatusRow(s).status = s
                               /\ s # NoStatus
  BY StatusAssumption DEF NoPlan, PlanRow, StatusRow, DayStatus
<1>2. \A shift \in InputShift : ShiftRow(shift) \in PlanRow /\ ShiftRow(shift).status = NoStatus
  BY InputAssumption DEF ShiftRow, PlanRow
<1>3. \A row \in PlanRow : ClearedPlan(row) \in PlanRow /\ ClearedPlan(row).status = NoStatus
  BY DEF ClearedPlan, PlanRow
<1>4. ClearedPlan(NoPlan) = NoPlan
  BY DEF ClearedPlan, NoPlan
<1>5. \A s \in AttendanceStatus : s # NoStatus /\ s \notin PlanStatus
  BY StatusAssumption DEF DayStatus
<1>. QED
  BY <1>1, <1>2, <1>3, <1>4, <1>5 DEF InputPlan

LEMMA UpsertShiftPlanSafe ==
  ASSUME IInv, NEW e \in Employment, NEW d \in Days, NEW row \in InputPlan, NEW confirm,
         UpsertShiftPlan(e, d, row, confirm)
  PROVE  IInv'
<1>. DEFINE months == IF row = NoPlan /\ ~ PlanExists(e, d) THEN {} ELSE {MonthOf[d]}
<1>1. FactsTyped /\ Exclusive(e, d)
  BY IInvParts DEF Good
<1>2. /\ UNCHANGED <<life, emp, user, today, events, attendance, attLock, planLock, autoRuns>>
      /\ plan' = [plan EXCEPT ![e][d] = row]
      /\ sync_employment_metric_months(e, months)
      /\ life[e] = "live" /\ employment_is_valid_on_day(e, d)
  BY DEF UpsertShiftPlan, people, locks, locked_employment_has_active_user
<1>3. row \in PlanRow /\ (row.status # NoStatus => row = StatusRow(row.status))
  BY RowShapes
<1>4. /\ plan'[e][d] = row
      /\ \A c \in Days \ {d} : plan'[e][c] = plan[e][c]
      /\ \A f \in Employment \ {e} : plan'[f] = plan[f]
  BY <1>1, <1>2 DEF FactsTyped
<1>5. FactsTyped'
  BY <1>1, <1>2, <1>3 DEF FactsTyped
<1>6. Exclusive(e, d)'
  <2>1. CASE row.status # NoStatus
    <3>1. attendance[e][d] = NoStatus /\ OfDay(events[e], d) = {}
      BY <2>1 DEF UpsertShiftPlan, AttendanceExists
    <3>. QED
      BY <1>2, <1>3, <1>4, <2>1, <3>1 DEF Exclusive
  <2>2. CASE row.status = NoStatus /\ row # NoPlan
    <3>1. attendance[e][d] = NoStatus
      BY <2>2 DEF UpsertShiftPlan, get_day_status
    <3>. QED
      BY <1>2, <1>4, <2>2, <3>1 DEF Exclusive, get_day_status
  <2>3. CASE row = NoPlan
    BY <1>1, <1>2, <1>4, <2>3, RowShapes DEF Exclusive, get_day_status
  <2>. QED
    BY <2>1, <2>2, <2>3
<1>7. MonthOf[d] \notin months => plan[e][d] = row
  BY DEF PlanExists
<1>. HIDE DEF months
<1>. QED
  BY <1>2, <1>4, <1>5, <1>6, <1>7, DayWriteSafe

\* replace_day_status leaves the day exclusive, whatever was stored before.
LEMMA ReplaceDayStatus ==
  ASSUME IInv, NEW e \in Employment, NEW d \in Days, NEW s \in DayStatus \cup {NoStatus},
         replace_day_status(e, d, s)
  PROVE  /\ events' \in [Employment -> SUBSET Time]
         /\ attendance' \in [Employment -> [Days -> AttendanceStatus \cup {NoStatus}]]
         /\ plan' \in [Employment -> [Days -> PlanRow]]
         /\ \A f \in Employment \ {e} :
              events'[f] = events[f] /\ attendance'[f] = attendance[f] /\ plan'[f] = plan[f]
         /\ \A c \in Days \ {d} : /\ OfDay(events'[e], c) = OfDay(events[e], c)
                                  /\ attendance'[e][c] = attendance[e][c]
                                  /\ plan'[e][c] = plan[e][c]
         /\ Exclusive(e, d)'
<1>. DEFINE day == IF s = NoStatus THEN ClearedPlan(plan[e][d])
                   ELSE IF s \in PlanStatus THEN StatusRow(s) ELSE NoPlan
            kept == IF s = NoStatus THEN events[e] ELSE {t \in events[e] : DayOf(t) # d}
            status == IF s \in AttendanceStatus THEN s ELSE NoStatus
<1>1. FactsTyped /\ Exclusive(e, d)
  BY IInvParts DEF Good
<1>2. /\ events' = [events EXCEPT ![e] = kept]
      /\ attendance' = [attendance EXCEPT ![e][d] = status]
      /\ plan' = [plan EXCEPT ![e][d] = day]
  BY DEF replace_day_status
<1>3. plan[e][d] \in PlanRow /\ events[e] \in SUBSET Time
  BY <1>1 DEF FactsTyped
<1>4. day \in PlanRow /\ kept \in SUBSET Time /\ status \in AttendanceStatus \cup {NoStatus}
  BY <1>3, RowShapes DEF DayStatus
<1>5. \A c \in Days \ {d} : OfDay(kept, c) = OfDay(events[e], c)
  BY DEF OfDay
<1>6. s # NoStatus => OfDay(kept, d) = {}
  BY DEF OfDay
<1>7. /\ s = NoStatus => day.status = NoStatus /\ status = NoStatus
      /\ s \in PlanStatus => day = StatusRow(s) /\ day.status = s /\ status = NoStatus
      /\ s \in AttendanceStatus => day = NoPlan /\ day.status = NoStatus
  BY <1>3, RowShapes
<1>. HIDE DEF day, kept, status
<1>8. /\ events'[e] = kept /\ attendance'[e][d] = status /\ plan'[e][d] = day
  BY <1>1, <1>2 DEF FactsTyped
<1>9. Exclusive(e, d)'
  BY <1>6, <1>7, <1>8 DEF Exclusive, get_day_status, DayStatus
<1>10. /\ events' \in [Employment -> SUBSET Time]
       /\ attendance' \in [Employment -> [Days -> AttendanceStatus \cup {NoStatus}]]
       /\ plan' \in [Employment -> [Days -> PlanRow]]
  BY <1>1, <1>2, <1>4 DEF FactsTyped
<1>11. /\ \A f \in Employment \ {e} :
            events'[f] = events[f] /\ attendance'[f] = attendance[f] /\ plan'[f] = plan[f]
       /\ \A c \in Days \ {d} : /\ attendance'[e][c] = attendance[e][c]
                                /\ plan'[e][c] = plan[e][c]
  BY <1>1, <1>2 DEF FactsTyped
<1>. QED
  BY <1>5, <1>8, <1>9, <1>10, <1>11

LEMMA UpsertDayStatusSafe ==
  ASSUME IInv, NEW e \in Employment, NEW d \in Days, NEW s \in DayStatus \cup {NoStatus},
         NEW confirm, UpsertDayStatus(e, d, s, confirm)
  PROVE  IInv'
<1>1. /\ replace_day_status(e, d, s)
      /\ UNCHANGED <<life, emp, user, today, attLock, planLock, autoRuns>>
      /\ sync_employment_metric_months(e, {MonthOf[d]})
      /\ life[e] = "live" /\ employment_is_valid_on_day(e, d)
  BY DEF UpsertDayStatus, people, locks, locked_employment_has_active_user
<1>2. FactsTyped'
  BY <1>1, IInvParts, ReplaceDayStatus DEF FactsTyped
<1>. QED
  BY <1>1, <1>2, ReplaceDayStatus, DayWriteSafe

LEMMA PortalUpsertDayStatusSafe ==
  ASSUME IInv, NEW e \in Employment, NEW d \in Days, PortalUpsertDayStatus(e, d)
  PROVE  IInv'
<1>1. PICK s \in PlanStatus \cup {NoStatus} :
        /\ IF s = NoStatus
           THEN plan' = [plan EXCEPT ![e][d] = ClearedPlan(@)] /\ UNCHANGED <<events, attendance>>
           ELSE replace_day_status(e, d, s)
        /\ UNCHANGED <<life, emp, user, today, attLock, planLock, autoRuns>>
        /\ sync_employment_metric_months(e, {MonthOf[d]})
        /\ life[e] = "live" /\ employment_is_valid_on_day(e, d)
  BY DEF PortalUpsertDayStatus, people, locks, locked_employment_has_active_user
<1>2. CASE s # NoStatus
  <2>1. replace_day_status(e, d, s) /\ s \in DayStatus \cup {NoStatus}
    BY <1>1, <1>2 DEF DayStatus
  <2>2. FactsTyped'
    BY <1>1, <2>1, IInvParts, ReplaceDayStatus DEF FactsTyped
  <2>. QED
    BY <1>1, <2>1, <2>2, ReplaceDayStatus, DayWriteSafe
<1>3. CASE s = NoStatus
  <2>1. FactsTyped /\ Exclusive(e, d)
    BY IInvParts DEF Good
  <2>2. plan' = [plan EXCEPT ![e][d] = ClearedPlan(plan[e][d])]
        /\ events' = events /\ attendance' = attendance
    BY <1>1, <1>3
  <2>3. ClearedPlan(plan[e][d]) \in PlanRow /\ ClearedPlan(plan[e][d]).status = NoStatus
    BY <2>1, RowShapes DEF FactsTyped
  <2>4. FactsTyped'
    BY <1>1, <2>1, <2>2, <2>3 DEF FactsTyped
  <2>5. /\ plan'[e][d] = ClearedPlan(plan[e][d])
        /\ \A c \in Days \ {d} : plan'[e][c] = plan[e][c]
        /\ \A f \in Employment \ {e} : plan'[f] = plan[f]
    BY <2>1, <2>2 DEF FactsTyped
  <2>6. Exclusive(e, d)'
    BY <2>1, <2>2, <2>3, <2>5, RowShapes DEF Exclusive, get_day_status
  <2>. QED
    BY <1>1, <2>2, <2>4, <2>5, <2>6, DayWriteSafe
<1>. QED
  BY <1>2, <1>3

-----------------------------------------------------------------------------
(* Locks, employments and users. *)

\* A step that writes no fact, metric, period or life is safe if it is well typed.
LEMMA FactsKept ==
  ASSUME IInv, FactsTyped', UNCHANGED <<life, emp, events, attendance, plan, worked, planned>>
  PROVE  IInv'
<1>1. MetricsTyped /\ \A f \in Employment : Good(f)
  BY IInvParts
<1>2. MetricsTyped'
  BY <1>1 DEF MetricsTyped
<1>3. \A f \in Employment : Good(f)'
  BY <1>1, Frame
<1>. QED
  BY <1>2, <1>3, IInvPartsNext

LEMMA WithMonthsTyped ==
  ASSUME NEW lock \in [Employment -> SUBSET Month], NEW targets \in SUBSET (Employment \X Month),
         NEW locked
  PROVE  WithMonths(lock, targets, locked) \in [Employment -> SUBSET Month]
<1>1. \A t \in targets : t[2] \in Month
  OBVIOUS
<1>. QED
  BY <1>1 DEF WithMonths

LEMMA AdminSetLocksSafe ==
  ASSUME IInv, NEW who \in SUBSET Employment, NEW months \in SUBSET Month,
         AdminSetLocks(who, months)
  PROVE  IInv'
<1>. DEFINE targets == {t \in who \X months : employment_overlaps_month(t[1], t[2])}
<1>1. targets \in SUBSET (Employment \X Month)
  OBVIOUS
<1>2. PICK locked \in BOOLEAN :
        \/ attLock' = WithMonths(attLock, targets, locked) /\ UNCHANGED planLock
        \/ planLock' = WithMonths(planLock, targets, locked) /\ UNCHANGED attLock
  BY DEF AdminSetLocks
<1>. HIDE DEF targets
<1>3. FactsTyped
  BY IInvParts
<1>4. /\ attLock' \in [Employment -> SUBSET Month]
      /\ planLock' \in [Employment -> SUBSET Month]
  <2>1. /\ attLock \in [Employment -> SUBSET Month]
        /\ planLock \in [Employment -> SUBSET Month]
    BY <1>3 DEF FactsTyped
  <2>2. /\ WithMonths(attLock, targets, locked) \in [Employment -> SUBSET Month]
        /\ WithMonths(planLock, targets, locked) \in [Employment -> SUBSET Month]
    BY <1>1, <2>1, WithMonthsTyped
  <2>. QED
    BY <1>2, <2>1, <2>2
<1>5. UNCHANGED <<life, emp, user, today, events, attendance, plan, autoRuns, worked, planned>>
  BY DEF AdminSetLocks, people, facts, metrics
<1>6. FactsTyped'
  BY <1>3, <1>4, <1>5 DEF FactsTyped
<1>. QED
  BY <1>5, <1>6, FactsKept

LEMMA AutoLockMonthSafe ==
  ASSUME IInv, AutoLockMonth
  PROVE  IInv'
<1>. DEFINE m == MonthOf[today]
            valid == {e \in Employment : locked_employment_has_active_user(e)}
<1>1. FactsTyped
  BY IInvParts
<1>2. m \in Month /\ valid \X {m} \in SUBSET (Employment \X Month)
  BY <1>1, MonthFacts DEF FactsTyped
<1>3. planLock' = WithMonths(planLock, valid \X {m}, TRUE) /\ autoRuns' = autoRuns \cup {m}
  BY DEF AutoLockMonth
<1>. HIDE DEF m, valid
<1>4. planLock' \in [Employment -> SUBSET Month] /\ autoRuns' \subseteq Month
  BY <1>1, <1>2, <1>3, WithMonthsTyped DEF FactsTyped
<1>5. UNCHANGED <<life, emp, user, today, events, attendance, plan, attLock, worked, planned>>
  BY DEF AutoLockMonth, people, facts, metrics
<1>6. FactsTyped'
  BY <1>1, <1>4, <1>5 DEF FactsTyped
<1>. QED
  BY <1>5, <1>6, FactsKept

\* A new employment has no records, so its empty metrics are right for any profile.
LEMMA CreateEmploymentSafe ==
  ASSUME IInv, NEW e \in Employment, CreateEmployment(e)
  PROVE  IInv'
<1>1. PICK period \in InputPeriod, profile \in InputProfile :
        /\ life[e] = "absent"
        /\ life' = [life EXCEPT ![e] = "live"]
        /\ emp' = [emp EXCEPT ![e] = [start |-> period[1], end |-> period[2],
                                      profile |-> profile[1], autoBreaks |-> profile[2]]]
        /\ UNCHANGED <<user, today, events, attendance, plan, attLock, planLock, autoRuns,
                       worked, planned>>
  BY DEF CreateEmployment, facts, locks, metrics
<1>2. FactsTyped /\ MetricsTyped /\ \A f \in Employment : Good(f)
  BY IInvParts
<1>3. [start |-> period[1], end |-> period[2], profile |-> profile[1], autoBreaks |-> profile[2]]
        \in [start : Days, end : Days \cup {NoEnd}, profile : Profile, autoBreaks : BOOLEAN]
  BY InputAssumption
<1>4. FactsTyped' /\ MetricsTyped'
  BY <1>1, <1>2, <1>3 DEF FactsTyped, MetricsTyped
<1>5. \A d \in Days : /\ attendance[e][d] = NoStatus /\ OfDay(events[e], d) = {}
                      /\ plan[e][d] = NoPlan
  BY <1>1, <1>2 DEF Good, InPeriod, AttendanceExists, PlanExists
<1>6. \A m \in Month : \A p : /\ WorkedFrom(p, events[e], attendance[e], m) = {}
                               /\ PlannedFrom(p, plan[e], m) = {}
  BY <1>5, RowsEmpty
<1>7. Fresh(e)'
  <2>1. \A m \in Month : /\ WorkedRows(e, m) = {} /\ PlannedRows(e, m) = {}
                         /\ WorkedRows(e, m)' = {} /\ PlannedRows(e, m)' = {}
    <3>. TAKE m \in Month
    <3>1. /\ events'[e] = events[e] /\ attendance'[e] = attendance[e] /\ plan'[e] = plan[e]
      BY <1>1
    <3>. QED
      BY <1>6, <3>1, RowsFrom
  <2>2. \A m \in Month : worked[e][m] = {} /\ planned[e][m] = {}
    BY <1>2, <2>1 DEF Good, Fresh
  <2>3. worked' = worked /\ planned' = planned
    BY <1>1
  <2>. QED
    BY <2>1, <2>2, <2>3 DEF Fresh
<1>8. \A d \in Days : Exclusive(e, d)' /\ InPeriod(e, d)'
  BY <1>1, <1>5, RowShapes
     DEF Exclusive, InPeriod, get_day_status, AttendanceExists, PlanExists
<1>9. \A f \in Employment \ {e} : life'[f] = life[f] /\ emp'[f] = emp[f]
  BY <1>1, <1>2 DEF FactsTyped
<1>10. \A f \in Employment : Good(f)'
  <2>. TAKE f \in Employment
  <2>1. CASE f = e
    BY <1>7, <1>8, <2>1 DEF Good
  <2>2. CASE f # e
    BY <1>1, <1>2, <1>9, <2>2, Frame
  <2>. QED
    BY <2>1, <2>2
<1>. QED
  BY <1>4, <1>10, IInvPartsNext

\* Unless period or profile change, an edited employment loses no record, because
\* FactsInPeriod put them all inside the period; otherwise every month is rebuilt.
LEMMA UpdateEmploymentSafe ==
  ASSUME IInv, NEW e \in Employment, UpdateEmployment(e)
  PROVE  IInv'
<1>1. FactsTyped /\ MetricsTyped /\ \A f \in Employment : Good(f)
  BY IInvParts
<1>2. PICK period \in InputPeriod \cup {<<emp[e].start, emp[e].end>>},
           profile \in InputProfile \cup {<<emp[e].profile, emp[e].autoBreaks>>,
                                          <<TaskProfile, FALSE>>} :
        /\ life[e] = "live"
        /\ emp' = [emp EXCEPT ![e] = [start |-> period[1], end |-> period[2],
                                      profile |-> profile[1], autoBreaks |-> profile[2]]]
        /\ events' = [events EXCEPT ![e] = {t \in events[e] : Covers(period, DayOf(t))}]
        /\ attendance' = [attendance EXCEPT ![e] =
             [d \in Days |-> IF Covers(period, d) THEN attendance[e][d] ELSE NoStatus]]
        /\ plan' = [plan EXCEPT ![e] =
             [d \in Days |-> IF Covers(period, d) THEN plan[e][d] ELSE NoPlan]]
        /\ attLock' = [attLock EXCEPT ![e] = InMonths(attLock[e], period)]
        /\ planLock' = [planLock EXCEPT ![e] = InMonths(planLock[e], period)]
        /\ UNCHANGED <<life, user, today, autoRuns>>
        /\ sync_employment_metric_months(e,
             IF MetricsAffected(e, period, profile) THEN Month ELSE {})
  BY DEF UpdateEmployment, delete_out_of_range_records, normalize_profile_for_type
<1>. DEFINE row == [start |-> period[1], end |-> period[2],
                    profile |-> profile[1], autoBreaks |-> profile[2]]
            kept == {t \in events[e] : Covers(period, DayOf(t))}
            months == IF MetricsAffected(e, period, profile) THEN Month ELSE {}
<1>3. row \in [start : Days, end : Days \cup {NoEnd}, profile : Profile, autoBreaks : BOOLEAN]
  <2>1. <<TaskProfile, FALSE>> \in Profile \X BOOLEAN
    BY DEF Profile
  <2>2. /\ <<emp[e].start, emp[e].end>> \in Days \X (Days \cup {NoEnd})
        /\ <<emp[e].profile, emp[e].autoBreaks>> \in Profile \X BOOLEAN
    BY <1>1 DEF FactsTyped
  <2>3. period \in Days \X (Days \cup {NoEnd}) /\ profile \in Profile \X BOOLEAN
    BY <2>1, <2>2, InputAssumption
  <2>. QED
    BY <2>3
<1>4. /\ emp'[e] = row /\ events'[e] = kept
      /\ \A d \in Days :
           /\ attendance'[e][d] = IF Covers(period, d) THEN attendance[e][d] ELSE NoStatus
           /\ plan'[e][d] = IF Covers(period, d) THEN plan[e][d] ELSE NoPlan
      /\ \A f \in Employment \ {e} : /\ emp'[f] = emp[f] /\ events'[f] = events[f]
                                     /\ attendance'[f] = attendance[f] /\ plan'[f] = plan[f]
  BY <1>1, <1>2 DEF FactsTyped
<1>5. FactsTyped'
  <2>1. /\ attLock' \in [Employment -> SUBSET Month]
        /\ planLock' \in [Employment -> SUBSET Month]
    BY <1>1, <1>2 DEF FactsTyped, InMonths
  <2>2. emp' \in [Employment -> [start : Days, end : Days \cup {NoEnd},
                                 profile : Profile, autoBreaks : BOOLEAN]]
    <3>. HIDE DEF row
    <3>1. emp' = [emp EXCEPT ![e] = row]
      BY <1>2 DEF row
    <3>. QED
      BY <1>1, <1>3, <3>1 DEF FactsTyped
  <2>3. events' \in [Employment -> SUBSET Time]
    BY <1>1, <1>2 DEF FactsTyped
  <2>4. attendance' \in [Employment -> [Days -> AttendanceStatus \cup {NoStatus}]]
    BY <1>1, <1>2 DEF FactsTyped
  <2>5. plan' \in [Employment -> [Days -> PlanRow]]
    BY <1>1, <1>2, RowShapes DEF FactsTyped
  <2>. QED
    BY <1>1, <1>2, <2>1, <2>2, <2>3, <2>4, <2>5 DEF FactsTyped
<1>6. MetricsTyped'
  BY <1>1, <1>2, <1>5, SyncTyped
<1>7. /\ \A d \in Days : Covers(period, d) => OfDay(kept, d) = OfDay(events[e], d)
      /\ \A d \in Days : ~ Covers(period, d) => OfDay(kept, d) = {}
  BY DEF OfDay
<1>8. \A d \in Days : Covers(period, d) <=> employment_is_valid_on_day(e, d)'
  BY <1>4 DEF Covers, employment_is_valid_on_day
<1>9. \A d \in Days : Exclusive(e, d)' /\ InPeriod(e, d)'
  <2>. HIDE DEF kept
  <2>. TAKE d \in Days
  <2>1. Exclusive(e, d) /\ InPeriod(e, d)
    BY <1>1 DEF Good
  <2>2. CASE Covers(period, d)
    BY <1>2, <1>4, <1>7, <1>8, <2>1, <2>2 DEF Exclusive, InPeriod, get_day_status
  <2>3. CASE ~ Covers(period, d)
    BY <1>4, <1>7, <2>3, RowShapes
       DEF Exclusive, InPeriod, get_day_status, AttendanceExists, PlanExists
  <2>. QED
    BY <2>2, <2>3
<1>10. \A m \in Month \ months :
         /\ emp'[e].profile = emp[e].profile
         /\ \A d \in DaysOf(m) : /\ OfDay(events'[e], d) = OfDay(events[e], d)
                                 /\ attendance'[e][d] = attendance[e][d]
                                 /\ plan'[e][d] = plan[e][d]
  <2>. TAKE m \in Month \ months
  <2>1. profile[1] = emp[e].profile /\ period = <<emp[e].start, emp[e].end>>
    BY DEF MetricsAffected
  <2>2. \A d \in Days : Covers(period, d) <=> employment_is_valid_on_day(e, d)
    BY <2>1 DEF Covers, employment_is_valid_on_day
  <2>3. \A d \in Days : ~ Covers(period, d) =>
          attendance[e][d] = NoStatus /\ OfDay(events[e], d) = {} /\ plan[e][d] = NoPlan
    BY <1>1, <2>2 DEF Good, InPeriod, AttendanceExists, PlanExists
  <2>4. \A d \in DaysOf(m) : d \in Days
    BY DEF DaysOf
  <2>5. emp'[e].profile = emp[e].profile
    BY <1>4, <2>1
  <2>. HIDE DEF kept, row
  <2>6. \A d \in Days : /\ OfDay(events'[e], d) = OfDay(events[e], d)
                        /\ attendance'[e][d] = attendance[e][d]
                        /\ plan'[e][d] = plan[e][d]
    <3>. TAKE d \in Days
    <3>1. CASE Covers(period, d)
      BY <1>4, <1>7, <3>1
    <3>2. CASE ~ Covers(period, d)
      BY <1>4, <1>7, <2>3, <3>2
    <3>. QED
      BY <3>1, <3>2
  <2>. QED
    BY <2>4, <2>5, <2>6
<1>11. /\ Fresh(e)'
       /\ \A f \in Employment \ {e} : worked'[f] = worked[f] /\ planned'[f] = planned[f]
  <2>. HIDE DEF months
  <2>1. sync_employment_metric_months(e, months)
    BY <1>2 DEF months
  <2>. QED
    BY <1>1, <1>10, <2>1, SyncFresh DEF Good
<1>12. \A f \in Employment : Good(f)'
  <2>. TAKE f \in Employment
  <2>1. CASE f = e
    BY <1>9, <1>11, <2>1 DEF Good
  <2>2. CASE f # e
    BY <1>1, <1>2, <1>4, <1>11, <2>2, Frame
  <2>. QED
    BY <2>1, <2>2
<1>. QED
  BY <1>5, <1>6, <1>12, IInvPartsNext

LEMMA PurgeSafe ==
  ASSUME IInv, NEW gone \in SUBSET Employment, Purge(gone),
         user' \in [User -> {"active", "inactive", "deleted"}], UNCHANGED <<today, autoRuns>>
  PROVE  IInv'
<1>1. FactsTyped /\ MetricsTyped /\ \A f \in Employment : Good(f)
  BY IInvParts
<1>2. Blank \in [start : Days, end : Days \cup {NoEnd}, profile : Profile, autoBreaks : BOOLEAN]
  BY CalendarAssumption DEF Blank, Days, Profile
<1>3. FactsTyped'
  BY <1>1, <1>2, RowShapes DEF Purge, Without, FactsTyped
<1>4. MetricsTyped'
  BY <1>1 DEF Purge, Without, MetricsTyped
<1>5. \A f \in Employment : Good(f)'
  <2>. TAKE f \in Employment
  <2>1. CASE f \notin gone
    BY <1>1, <2>1, Frame DEF Purge, Without
  <2>2. CASE f \in gone
    <3>1. /\ events'[f] = {} /\ attendance'[f] = [d \in Days |-> NoStatus]
          /\ plan'[f] = [d \in Days |-> NoPlan]
          /\ worked'[f] = [m \in Month |-> {}] /\ planned'[f] = [m \in Month |-> {}]
      BY <2>2 DEF Purge, Without
    <3>2. \A d \in Days : Exclusive(f, d)' /\ InPeriod(f, d)'
      BY <3>1, RowShapes
         DEF Exclusive, InPeriod, get_day_status, AttendanceExists, PlanExists, OfDay
    <3>3. Fresh(f)'
      <4>1. \A m \in Month : WorkedRows(f, m)' = {} /\ PlannedRows(f, m)' = {}
        <5>1. \A d \in Days : OfDay(events'[f], d) = {} /\ attendance'[f][d] = NoStatus
                              /\ plan'[f][d] = NoPlan
          BY <3>1 DEF OfDay
        <5>. QED
          BY <5>1, RowsFrom, RowsEmpty
      <4>. QED
        BY <3>1, <4>1 DEF Fresh
    <3>. QED
      BY <3>2, <3>3 DEF Good
  <2>. QED
    BY <2>1, <2>2
<1>. QED
  BY <1>3, <1>4, <1>5, IInvPartsNext

-----------------------------------------------------------------------------
(* Theorems. *)

LEMMA InitSafe == Init => IInv
<1>. SUFFICES ASSUME Init PROVE IInv
  OBVIOUS
<1>1. Blank \in [start : Days, end : Days \cup {NoEnd}, profile : Profile, autoBreaks : BOOLEAN]
  BY CalendarAssumption DEF Blank, Days, Profile
<1>2. FactsTyped
  BY <1>1, CalendarAssumption, RowShapes DEF Init, FactsTyped, Days
<1>3. MetricsTyped
  BY DEF Init, MetricsTyped
<1>4. \A e \in Employment : Good(e)
  <2>. TAKE e \in Employment
  <2>1. /\ events[e] = {} /\ attendance[e] = [d \in Days |-> NoStatus]
        /\ plan[e] = [d \in Days |-> NoPlan]
        /\ worked[e] = [m \in Month |-> {}] /\ planned[e] = [m \in Month |-> {}]
    BY DEF Init
  <2>2. \A d \in Days : Exclusive(e, d) /\ InPeriod(e, d)
    BY <2>1, RowShapes
       DEF Exclusive, InPeriod, get_day_status, AttendanceExists, PlanExists, OfDay
  <2>3. Fresh(e)
    <3>1. \A m \in Month : WorkedRows(e, m) = {} /\ PlannedRows(e, m) = {}
      <4>1. \A d \in Days : OfDay(events[e], d) = {} /\ attendance[e][d] = NoStatus
                            /\ plan[e][d] = NoPlan
        BY <2>1 DEF OfDay
      <4>. QED
        BY <4>1, RowsFrom, RowsEmpty
    <3>. QED
      BY <2>1, <3>1 DEF Fresh
  <2>. QED
    BY <2>2, <2>3 DEF Good
<1>. QED
  BY <1>2, <1>3, <1>4, IInvParts

\* Every handler, the monthly job and the calendar preserve the invariant.
LEMMA StepSafe == IInv /\ [Next]_vars => IInv'
<1>. SUFFICES ASSUME IInv, [Next]_vars PROVE IInv'
  OBVIOUS
<1>5. ASSUME NEW e \in Employment, EventHandler(e)
      PROVE  IInv'
  BY <1>5, EventHandlers, EventStepSafe
<1>6. ASSUME NEW e \in Employment, NEW d \in Days,
             PortalUpsertShiftPlan(e, d) \/ AdminUpsertShiftPlan(e, d)
      PROVE  IInv'
  BY <1>6, UpsertShiftPlanSafe DEF PortalUpsertShiftPlan, AdminUpsertShiftPlan
<1>7. ASSUME NEW e \in Employment, NEW d \in Days, PortalUpsertDayStatus(e, d)
      PROVE  IInv'
  BY <1>7, PortalUpsertDayStatusSafe
<1>8. ASSUME NEW e \in Employment, NEW d \in Days,
             PortalUpsertAttendanceStatus(e, d) \/ AdminUpsertDayStatus(e, d)
      PROVE  IInv'
  BY <1>8, UpsertDayStatusSafe DEF PortalUpsertAttendanceStatus, AdminUpsertDayStatus
<1>9. ASSUME NEW e \in Employment, CreateEmployment(e) \/ UpdateEmployment(e)
      PROVE  IInv'
  BY <1>9, CreateEmploymentSafe, UpdateEmploymentSafe
<1>10. ASSUME NEW e \in Employment, DeleteEmployment(e)
       PROVE  IInv'
  <2>1. Purge({e}) /\ UNCHANGED <<user, today, autoRuns>>
    BY <1>10 DEF DeleteEmployment
  <2>2. user' \in [User -> {"active", "inactive", "deleted"}]
    BY <2>1 DEF IInv, TypeOK
  <2>. QED
    BY <2>1, <2>2, PurgeSafe
<1>11. ASSUME NEW u \in User, UpdateUser(u)
       PROVE  IInv'
  <2>1. UNCHANGED <<life, emp, today, events, attendance, plan, attLock, planLock, autoRuns,
                    worked, planned>>
    BY <1>11 DEF UpdateUser, facts, locks, metrics
  <2>2. FactsTyped
    BY IInvParts
  <2>3. user' \in [User -> {"active", "inactive", "deleted"}]
    BY <1>11, <2>2 DEF UpdateUser, FactsTyped
  <2>4. FactsTyped'
    BY <2>1, <2>2, <2>3 DEF FactsTyped
  <2>. QED
    BY <2>1, <2>4, FactsKept
<1>12. ASSUME NEW u \in User, DeleteUser(u)
       PROVE  IInv'
  <2>. DEFINE gone == {e \in Employment : Owner[e] = u /\ life[e] = "live"}
  <2>1. Purge(gone) /\ UNCHANGED <<today, autoRuns>>
    BY <1>12 DEF DeleteUser
  <2>2. user' \in [User -> {"active", "inactive", "deleted"}]
    BY <1>12 DEF DeleteUser, IInv, TypeOK
  <2>3. gone \in SUBSET Employment
    OBVIOUS
  <2>. HIDE DEF gone
  <2>. QED
    BY <2>1, <2>2, <2>3, PurgeSafe
<1>13. CASE NextDay
  <2>1. UNCHANGED <<life, emp, user, events, attendance, plan, attLock, planLock, autoRuns,
                    worked, planned>>
    BY <1>13 DEF NextDay, people, facts, locks, metrics
  <2>2. FactsTyped /\ today' \in Days
    BY <1>13, IInvParts, CalendarAssumption DEF NextDay, FactsTyped, Days
  <2>3. FactsTyped'
    BY <2>1, <2>2 DEF FactsTyped
  <2>. QED
    BY <2>1, <2>3, FactsKept
<1>14. CASE UNCHANGED vars
  <2>1. UNCHANGED <<life, emp, user, today, events, attendance, plan, attLock, planLock,
                    autoRuns, worked, planned>>
    BY <1>14 DEF vars, people, facts, locks, metrics
  <2>2. FactsTyped'
    BY <2>1, IInvParts DEF FactsTyped
  <2>. QED
    BY <2>1, <2>2, FactsKept
<1>15. CASE Next
  BY <1>5, <1>6, <1>7, <1>8, <1>9, <1>10, <1>11, <1>12, <1>13, <1>15,
     AdminSetLocksSafe, AutoLockMonthSafe DEF Next, EventHandler
<1>. QED
  BY <1>14, <1>15

\* The invariant holds in every reachable state, whatever the constants.
THEOREM Invariance == Spec => []IInv
BY InitSafe, StepSafe, PTL DEF Spec

\* The tables keep their shape: every stored time lies on the calendar, every status
\* is in the table that may hold it, every metric row has an hourly profile.
THEOREM TypeCorrect == Spec => []TypeOK
<1>1. IInv => TypeOK
  BY DEF IInv
<1>. QED
  BY <1>1, Invariance, PTL

\* An all-day status never coexists with times, planned times or a second status,
\* for every interleaving of the portal, the administration, the integration API,
\* break insertion and period changes.
THEOREM Exclusivity == Spec => []DayExclusive
<1>1. IInv => DayExclusive
  BY DEF IInv
<1>. QED
  BY <1>1, Invariance, PTL

\* No record survives outside its employment's period or after its employment.
THEOREM PeriodIntegrity == Spec => []FactsInPeriod
<1>1. IInv => FactsInPeriod
  BY DEF IInv
<1>. QED
  BY <1>1, Invariance, PTL

\* The stored daily metrics always equal a recalculation from the stored facts.
THEOREM MetricsAreFresh == Spec => []MetricsFresh
<1>1. IInv => MetricsFresh
  BY DEF IInv
<1>. QED
  BY <1>1, Invariance, PTL

-----------------------------------------------------------------------------
(* What a step may never do.  The action properties speak of facts and of  *)
(* metrics; once the facts of a month are known to stay, its metrics stay  *)
(* because they are fresh before and after the step.                       *)

Unmoved(e) == events'[e] = events[e] /\ attendance'[e] = attendance[e] /\ plan'[e] = plan[e]

Dormant(e) == user[Owner[e]] # "active" \/ ~ employment_is_valid_on_day(e, today)

\* The part of the three action properties that speaks of the facts of e.
Held(e) ==
  life'[e] = "live" =>
    /\ \A d \in Days : MonthOf[d] \in attLock[e] /\ employment_is_valid_on_day(e, d)' =>
         OfDay(events'[e], d) = OfDay(events[e], d) /\ attendance'[e][d] = attendance[e][d]
    /\ \A d \in Days : MonthOf[d] \in planLock[e] /\ employment_is_valid_on_day(e, d)' =>
         plan'[e][d] = plan[e][d]
    /\ life[e] = "live" /\ emp'[e] = emp[e] /\ Dormant(e) => Unmoved(e)

LEMMA UnmovedHeld ==
  ASSUME NEW e, Unmoved(e)
  PROVE  Held(e)
BY DEF Unmoved, Held

\* No touched month is locked, and a time that comes or goes lies in a touched month.
LEMMA EventStepHeld ==
  ASSUME IInv, NEW e \in Employment, EventStep(e)
  PROVE  \A f \in Employment : Held(f)
<1>0. PICK after, times : EventCommit(e, after, times)
  BY DEF EventStep
<1>. DEFINE months == months_for_days(ChangedDays(e, after, times))
<1>1. FactsTyped
  BY IInvParts
<1>2. /\ months \cap attLock[e] = {} /\ UNCHANGED <<attendance, plan>>
      /\ events' = [events EXCEPT ![e] = after]
      /\ ~ Dormant(e)
  BY <1>0 DEF EventCommit, CommitEvents, locked_employment_has_active_user, Dormant
<1>3. events'[e] = after /\ \A f \in Employment \ {e} : events'[f] = events[f]
  BY <1>1, <1>2 DEF FactsTyped
<1>4. ASSUME NEW d \in Days, MonthOf[d] \in attLock[e]
      PROVE  OfDay(after, d) = OfDay(events[e], d)
  <2>1. d \notin ChangedDays(e, after, times)
    BY <1>2, <1>4 DEF months_for_days
  <2>. QED
    BY <1>0, <2>1 DEF EventCommit, OfDay
<1>5. Held(e)
  BY <1>2, <1>3, <1>4 DEF Held
<1>6. \A f \in Employment \ {e} : Held(f)
  BY <1>2, <1>3, UnmovedHeld DEF Unmoved
<1>. QED
  BY <1>5, <1>6

\* A request for one day keeps what the locks of its month protect.
LEMMA DayWriteHeld ==
  ASSUME NEW e \in Employment, NEW d \in Days, locked_employment_has_active_user(e),
         \A f \in Employment \ {e} : Unmoved(f),
         \A c \in Days \ {d} : /\ OfDay(events'[e], c) = OfDay(events[e], c)
                               /\ attendance'[e][c] = attendance[e][c]
                               /\ plan'[e][c] = plan[e][c],
         MonthOf[d] \in attLock[e] => /\ OfDay(events'[e], d) = OfDay(events[e], d)
                                     /\ attendance'[e][d] = attendance[e][d],
         MonthOf[d] \in planLock[e] => plan'[e][d] = plan[e][d]
  PROVE  \A f \in Employment : Held(f)
<1>1. ~ Dormant(e)
  BY DEF locked_employment_has_active_user, Dormant
<1>2. Held(e)
  BY <1>1 DEF Held
<1>. QED
  BY <1>2, UnmovedHeld

LEMMA UpsertShiftPlanHeld ==
  ASSUME IInv, NEW e \in Employment, NEW d \in Days, NEW row, NEW confirm,
         UpsertShiftPlan(e, d, row, confirm)
  PROVE  \A f \in Employment : Held(f)
<1>1. FactsTyped
  BY IInvParts
<1>2. /\ plan' = [plan EXCEPT ![e][d] = row] /\ UNCHANGED <<events, attendance>>
      /\ MonthOf[d] \notin planLock[e] /\ locked_employment_has_active_user(e)
  BY DEF UpsertShiftPlan
<1>3. /\ \A c \in Days \ {d} : plan'[e][c] = plan[e][c]
      /\ \A f \in Employment \ {e} : plan'[f] = plan[f]
  BY <1>1, <1>2 DEF FactsTyped
<1>. QED
  BY <1>2, <1>3, DayWriteHeld DEF Unmoved

\* Where nothing is recorded for the day, a status that belongs elsewhere, or none,
\* changes nothing here.
LEMMA ReplaceKeeps ==
  ASSUME IInv, NEW e \in Employment, NEW d \in Days, NEW s \in DayStatus \cup {NoStatus},
         replace_day_status(e, d, s)
  PROVE  /\ ~ AttendanceExists(e, d) /\ s \notin AttendanceStatus =>
              /\ OfDay(events'[e], d) = OfDay(events[e], d)
              /\ attendance'[e][d] = attendance[e][d]
         /\ ~ PlanExists(e, d) /\ s \notin PlanStatus => plan'[e][d] = plan[e][d]
<1>1. FactsTyped
  BY IInvParts
<1>2. /\ events'[e] = IF s = NoStatus THEN events[e] ELSE {t \in events[e] : DayOf(t) # d}
      /\ attendance'[e][d] = IF s \in AttendanceStatus THEN s ELSE NoStatus
      /\ plan'[e][d] = IF s = NoStatus THEN ClearedPlan(plan[e][d])
                       ELSE IF s \in PlanStatus THEN StatusRow(s) ELSE NoPlan
  BY <1>1 DEF replace_day_status, FactsTyped
<1>3. ASSUME ~ AttendanceExists(e, d), s \notin AttendanceStatus
      PROVE  /\ OfDay(events'[e], d) = OfDay(events[e], d)
             /\ attendance'[e][d] = attendance[e][d]
  BY <1>2, <1>3 DEF AttendanceExists, OfDay
<1>4. ASSUME ~ PlanExists(e, d), s \notin PlanStatus
      PROVE  plan'[e][d] = plan[e][d]
  BY <1>2, <1>4, RowShapes DEF PlanExists
<1>. QED
  BY <1>3, <1>4

LEMMA UpsertDayStatusHeld ==
  ASSUME IInv, NEW e \in Employment, NEW d \in Days, NEW s \in DayStatus \cup {NoStatus},
         NEW confirm, UpsertDayStatus(e, d, s, confirm)
  PROVE  \A f \in Employment : Held(f)
<1>1. /\ replace_day_status(e, d, s) /\ locked_employment_has_active_user(e)
      /\ MonthOf[d] \in planLock[e] => ~ NeedsPlanLock(e, d, s)
      /\ MonthOf[d] \in attLock[e] => ~ NeedsAttendanceLock(e, d, s)
  BY DEF UpsertDayStatus
<1>2. /\ ~ NeedsPlanLock(e, d, s) => ~ PlanExists(e, d) /\ s \notin PlanStatus
      /\ ~ NeedsAttendanceLock(e, d, s) => ~ AttendanceExists(e, d) /\ s \notin AttendanceStatus
  BY DEF NeedsPlanLock, NeedsAttendanceLock
<1>. QED
  BY <1>1, <1>2, ReplaceKeeps, ReplaceDayStatus, DayWriteHeld DEF Unmoved

LEMMA PortalUpsertDayStatusHeld ==
  ASSUME IInv, NEW e \in Employment, NEW d \in Days, PortalUpsertDayStatus(e, d)
  PROVE  \A f \in Employment : Held(f)
<1>1. PICK s \in PlanStatus \cup {NoStatus} :
        /\ locked_employment_has_active_user(e)
        /\ MonthOf[d] \notin planLock[e]
        /\ s # NoStatus => ~ AttendanceExists(e, d)
        /\ IF s = NoStatus
           THEN plan' = [plan EXCEPT ![e][d] = ClearedPlan(@)] /\ UNCHANGED <<events, attendance>>
           ELSE replace_day_status(e, d, s)
  BY DEF PortalUpsertDayStatus
<1>2. CASE s # NoStatus
  <2>1. s \in DayStatus \cup {NoStatus} /\ s \notin AttendanceStatus
    BY <1>2, RowShapes DEF DayStatus
  <2>. QED
    BY <1>1, <1>2, <2>1, ReplaceKeeps, ReplaceDayStatus, DayWriteHeld DEF Unmoved
<1>3. CASE s = NoStatus
  <2>1. FactsTyped
    BY IInvParts
  <2>2. /\ \A c \in Days \ {d} : plan'[e][c] = plan[e][c]
        /\ \A f \in Employment \ {e} : plan'[f] = plan[f]
    BY <1>1, <1>3, <2>1 DEF FactsTyped
  <2>. QED
    BY <1>1, <1>3, <2>2, DayWriteHeld DEF Unmoved
<1>. QED
  BY <1>2, <1>3

\* A day that stays in the period keeps its records; an edit that keeps the period
\* removes nothing, because FactsInPeriod left nothing to remove.
LEMMA UpdateEmploymentHeld ==
  ASSUME IInv, NEW e \in Employment, UpdateEmployment(e)
  PROVE  \A f \in Employment : Held(f)
<1>1. FactsTyped /\ Good(e)
  BY IInvParts
<1>2. PICK period, profile :
        /\ emp' = [emp EXCEPT ![e] = [start |-> period[1], end |-> period[2],
                                      profile |-> profile[1], autoBreaks |-> profile[2]]]
        /\ events' = [events EXCEPT ![e] = {t \in events[e] : Covers(period, DayOf(t))}]
        /\ attendance' = [attendance EXCEPT ![e] =
             [d \in Days |-> IF Covers(period, d) THEN attendance[e][d] ELSE NoStatus]]
        /\ plan' = [plan EXCEPT ![e] =
             [d \in Days |-> IF Covers(period, d) THEN plan[e][d] ELSE NoPlan]]
  BY DEF UpdateEmployment, delete_out_of_range_records
<1>3. /\ emp'[e].start = period[1] /\ emp'[e].end = period[2]
      /\ events'[e] = {t \in events[e] : Covers(period, DayOf(t))}
      /\ attendance'[e] = [d \in Days |-> IF Covers(period, d) THEN attendance[e][d] ELSE NoStatus]
      /\ plan'[e] = [d \in Days |-> IF Covers(period, d) THEN plan[e][d] ELSE NoPlan]
  BY <1>1, <1>2 DEF FactsTyped
<1>4. \A d \in Days : employment_is_valid_on_day(e, d)' <=> Covers(period, d)
  BY <1>3 DEF employment_is_valid_on_day, Covers
<1>5. \A d \in Days : Covers(period, d) =>
        /\ OfDay(events'[e], d) = OfDay(events[e], d)
        /\ attendance'[e][d] = attendance[e][d] /\ plan'[e][d] = plan[e][d]
  BY <1>3 DEF OfDay
<1>6. ASSUME emp'[e] = emp[e]
      PROVE  Unmoved(e)
  <2>1. \A d \in Days : AttendanceExists(e, d) \/ PlanExists(e, d) => Covers(period, d)
    BY <1>1, <1>3, <1>6 DEF Good, InPeriod, employment_is_valid_on_day, Covers
  <2>2. \A t \in events[e] : DayOf(t) \in Days /\ AttendanceExists(e, DayOf(t))
    BY <1>1, TimeFacts DEF FactsTyped, AttendanceExists, OfDay
  <2>3. events'[e] = events[e]
    BY <1>3, <2>1, <2>2
  <2>4. attendance[e] \in [Days -> AttendanceStatus \cup {NoStatus}] /\ plan[e] \in [Days -> PlanRow]
    BY <1>1 DEF FactsTyped
  <2>5. \A d \in Days : ~ Covers(period, d) => attendance[e][d] = NoStatus /\ plan[e][d] = NoPlan
    BY <2>1 DEF AttendanceExists, PlanExists
  <2>6. attendance'[e] = attendance[e]
    BY <1>3, <2>4, <2>5
  <2>7. plan'[e] = plan[e]
    BY <1>3, <2>4, <2>5
  <2>. QED
    BY <2>3, <2>6, <2>7 DEF Unmoved
<1>7. Held(e)
  BY <1>4, <1>5, <1>6 DEF Held
<1>8. \A f \in Employment \ {e} : Unmoved(f)
  BY <1>1, <1>2 DEF FactsTyped, Unmoved
<1>. QED
  BY <1>7, <1>8, UnmovedHeld

\* What a purge removes is no longer live.
LEMMA PurgeHeld ==
  ASSUME NEW gone, Purge(gone)
  PROVE  \A f \in Employment : Held(f)
<1>. TAKE f \in Employment
<1>1. CASE f \in gone
  BY <1>1 DEF Purge, Without, Held
<1>2. CASE f \notin gone
  BY <1>2, UnmovedHeld DEF Purge, Without, Unmoved
<1>. QED
  BY <1>1, <1>2

LEMMA StepHeld == IInv /\ [Next]_vars => \A f \in Employment : Held(f)
<1>. SUFFICES ASSUME IInv, [Next]_vars PROVE \A f \in Employment : Held(f)
  OBVIOUS
<1>1. ASSUME NEW e \in Employment, EventHandler(e)
      PROVE  \A f \in Employment : Held(f)
  BY <1>1, EventHandlers, EventStepHeld
<1>2. ASSUME NEW e \in Employment, NEW d \in Days,
             PortalUpsertShiftPlan(e, d) \/ AdminUpsertShiftPlan(e, d)
      PROVE  \A f \in Employment : Held(f)
  BY <1>2, UpsertShiftPlanHeld DEF PortalUpsertShiftPlan, AdminUpsertShiftPlan
<1>3. ASSUME NEW e \in Employment, NEW d \in Days,
             \/ PortalUpsertDayStatus(e, d)
             \/ PortalUpsertAttendanceStatus(e, d) \/ AdminUpsertDayStatus(e, d)
      PROVE  \A f \in Employment : Held(f)
  BY <1>3, PortalUpsertDayStatusHeld, UpsertDayStatusHeld
     DEF PortalUpsertAttendanceStatus, AdminUpsertDayStatus
<1>4. ASSUME NEW e \in Employment, UpdateEmployment(e)
      PROVE  \A f \in Employment : Held(f)
  BY <1>4, UpdateEmploymentHeld
<1>5. ASSUME NEW gone, Purge(gone)
      PROVE  \A f \in Employment : Held(f)
  BY <1>5, PurgeHeld
<1>6. CASE UNCHANGED facts
  BY <1>6, UnmovedHeld DEF facts, Unmoved
<1>7. ASSUME NEW e \in Employment, DeleteEmployment(e)
      PROVE  \A f \in Employment : Held(f)
  BY <1>5, <1>7 DEF DeleteEmployment
<1>8. ASSUME NEW u \in User, DeleteUser(u)
      PROVE  \A f \in Employment : Held(f)
  <2>1. Purge({e \in Employment : Owner[e] = u /\ life[e] = "live"})
    BY <1>8 DEF DeleteUser
  <2>. QED
    BY <1>5, <2>1
<1>9. ASSUME \/ \E e \in Employment : CreateEmployment(e)
             \/ \E who \in SUBSET Employment, months \in SUBSET Month : AdminSetLocks(who, months)
             \/ AutoLockMonth
             \/ \E u \in User : UpdateUser(u)
             \/ NextDay
             \/ UNCHANGED vars
      PROVE  UNCHANGED facts
  BY <1>9 DEF CreateEmployment, AdminSetLocks, AutoLockMonth, UpdateUser, NextDay, vars, facts
<1>. QED
  BY <1>1, <1>2, <1>3, <1>4, <1>6, <1>7, <1>8, <1>9 DEF Next, EventHandler

\* Fresh metrics of a month follow from the facts of its days.
LEMMA MetricsFollow ==
  ASSUME IInv, IInv', NEW e \in Employment, emp'[e] = emp[e], life'[e] = "live", NEW m \in Month
  PROVE  /\ (\A d \in DaysOf(m) : employment_is_valid_on_day(e, d)' =>
                /\ OfDay(events'[e], d) = OfDay(events[e], d)
                /\ attendance'[e][d] = attendance[e][d])
              => worked'[e][m] = worked[e][m]
         /\ (\A d \in DaysOf(m) : employment_is_valid_on_day(e, d)' => plan'[e][d] = plan[e][d])
              => planned'[e][m] = planned[e][m]
<1>1. \A d \in DaysOf(m) : d \in Days
  BY DEF DaysOf
<1>2. \A d \in Days : employment_is_valid_on_day(e, d)' <=> employment_is_valid_on_day(e, d)
  BY DEF employment_is_valid_on_day
<1>3. \A d \in DaysOf(m) : ~ employment_is_valid_on_day(e, d)' =>
        /\ OfDay(events'[e], d) = {} /\ OfDay(events[e], d) = {}
        /\ attendance'[e][d] = NoStatus /\ attendance[e][d] = NoStatus
        /\ plan'[e][d] = NoPlan /\ plan[e][d] = NoPlan
  BY <1>1, <1>2 DEF IInv, FactsInPeriod, AttendanceExists, PlanExists
<1>4. /\ worked[e][m] = WorkedFrom(emp[e].profile, events[e], attendance[e], m)
      /\ worked'[e][m] = WorkedFrom(emp[e].profile, events'[e], attendance'[e], m)
      /\ planned[e][m] = PlannedFrom(emp[e].profile, plan[e], m)
      /\ planned'[e][m] = PlannedFrom(emp[e].profile, plan'[e], m)
  BY RowsFrom DEF IInv, MetricsFresh
<1>5. ASSUME \A d \in DaysOf(m) : employment_is_valid_on_day(e, d)' =>
                /\ OfDay(events'[e], d) = OfDay(events[e], d)
                /\ attendance'[e][d] = attendance[e][d]
      PROVE  worked'[e][m] = worked[e][m]
  <2>1. \A d \in DaysOf(m) : /\ OfDay(events'[e], d) = OfDay(events[e], d)
                             /\ attendance'[e][d] = attendance[e][d]
    BY <1>3, <1>5
  <2>. QED
    BY <1>4, <2>1, RowsLocal
<1>6. ASSUME \A d \in DaysOf(m) : employment_is_valid_on_day(e, d)' => plan'[e][d] = plan[e][d]
      PROVE  planned'[e][m] = planned[e][m]
  <2>1. \A d \in DaysOf(m) : plan'[e][d] = plan[e][d]
    BY <1>3, <1>6
  <2>. QED
    BY <1>4, <2>1, RowsLocal
<1>. QED
  BY <1>5, <1>6

\* The bodies of the action properties.
LEMMA StepFrozen ==
  ASSUME IInv, IInv', [Next]_vars, NEW e \in Employment, life'[e] = "live"
  PROVE  /\ \A m \in attLock[e] :
              /\ \A d \in DaysOf(m) : employment_is_valid_on_day(e, d)' =>
                   /\ OfDay(events'[e], d) = OfDay(events[e], d)
                   /\ attendance'[e][d] = attendance[e][d]
              /\ emp'[e] = emp[e] => worked'[e][m] = worked[e][m]
         /\ \A m \in planLock[e] :
              /\ \A d \in DaysOf(m) : employment_is_valid_on_day(e, d)' =>
                   plan'[e][d] = plan[e][d]
              /\ emp'[e] = emp[e] => planned'[e][m] = planned[e][m]
<1>1. Held(e)
  BY StepHeld
<1>2. attLock[e] \subseteq Month /\ planLock[e] \subseteq Month
  BY IInvParts DEF FactsTyped
<1>3. \A m : \A d \in DaysOf(m) : d \in Days /\ MonthOf[d] = m
  BY DEF DaysOf
<1>4. \A m \in attLock[e] : \A d \in DaysOf(m) : employment_is_valid_on_day(e, d)' =>
         OfDay(events'[e], d) = OfDay(events[e], d) /\ attendance'[e][d] = attendance[e][d]
  BY <1>1, <1>3 DEF Held
<1>5. \A m \in planLock[e] : \A d \in DaysOf(m) : employment_is_valid_on_day(e, d)' =>
         plan'[e][d] = plan[e][d]
  BY <1>1, <1>3 DEF Held
<1>6. ASSUME emp'[e] = emp[e]
      PROVE  /\ \A m \in attLock[e] : worked'[e][m] = worked[e][m]
             /\ \A m \in planLock[e] : planned'[e][m] = planned[e][m]
  BY <1>2, <1>4, <1>5, <1>6, MetricsFollow
<1>. QED
  BY <1>4, <1>5, <1>6

\* Closed attendance stays as it is: no handler, the pauses added across a month's
\* boundary and the statuses of the plan included, changes a time, a status or a
\* worked hour of a locked month on a day that the employment keeps.
THEOREM AttendanceFrozen == Spec => LockedAttendanceFrozen
<1>1. IInv /\ IInv' /\ [Next]_vars =>
        [\A e \in Employment : life'[e] = "live" =>
           \A m \in attLock[e] :
             /\ \A d \in DaysOf(m) : employment_is_valid_on_day(e, d)' =>
                  /\ OfDay(events'[e], d) = OfDay(events[e], d)
                  /\ attendance'[e][d] = attendance[e][d]
             /\ emp'[e] = emp[e] => worked'[e][m] = worked[e][m]]_vars
  BY StepFrozen
<1>. QED
  BY <1>1, Invariance, PTL DEF Spec, LockedAttendanceFrozen

\* Closed plans stay as they are: sickness entered in attendance, a cleared status or
\* an edited shift changes no plan row and no planned hour of a locked month.
THEOREM PlanFrozen == Spec => LockedPlanFrozen
<1>1. IInv /\ IInv' /\ [Next]_vars =>
        [\A e \in Employment : life'[e] = "live" =>
           \A m \in planLock[e] :
             /\ \A d \in DaysOf(m) : employment_is_valid_on_day(e, d)' =>
                  plan'[e][d] = plan[e][d]
             /\ emp'[e] = emp[e] => planned'[e][m] = planned[e][m]]_vars
  BY StepFrozen
<1>. QED
  BY <1>1, Invariance, PTL DEF Spec, LockedPlanFrozen

LEMMA StepDormant ==
  ASSUME IInv, IInv', [Next]_vars, NEW e \in Employment,
         life[e] = "live", life'[e] = "live", emp'[e] = emp[e],
         user[Owner[e]] # "active" \/ ~ employment_is_valid_on_day(e, today)
  PROVE  /\ events'[e] = events[e] /\ attendance'[e] = attendance[e] /\ plan'[e] = plan[e]
         /\ worked'[e] = worked[e] /\ planned'[e] = planned[e]
<1>1. Unmoved(e)
  BY StepHeld DEF Held, Dormant
<1>2. events'[e] = events[e] /\ attendance'[e] = attendance[e] /\ plan'[e] = plan[e]
  BY <1>1 DEF Unmoved
<1>3. \A m \in Month : worked'[e][m] = worked[e][m] /\ planned'[e][m] = planned[e][m]
  BY <1>2, MetricsFollow
<1>4. MetricsTyped /\ MetricsTyped'
  BY DEF IInv, TypeOK, MetricsTyped
<1>5. /\ worked[e] \in [Month -> SUBSET MetricRow] /\ worked'[e] \in [Month -> SUBSET MetricRow]
      /\ planned[e] \in [Month -> SUBSET MetricRow] /\ planned'[e] \in [Month -> SUBSET MetricRow]
  BY <1>4 DEF MetricsTyped
<1>6. worked'[e] = worked[e] /\ planned'[e] = planned[e]
  BY <1>3, <1>5
<1>. QED
  BY <1>2, <1>6

\* The records of a deactivated user or of an employment that is over are read-only:
\* no handler changes their times, statuses, plan or metrics while the employment
\* itself is not edited (locked_employment_has_active_user).
THEOREM DormantReadOnly == Spec => InactiveReadOnly
<1>1. IInv /\ IInv' /\ [Next]_vars =>
        [\A e \in Employment :
           /\ life[e] = "live" /\ life'[e] = "live" /\ emp'[e] = emp[e]
           /\ user[Owner[e]] # "active" \/ ~ employment_is_valid_on_day(e, today)
           => /\ events'[e] = events[e] /\ attendance'[e] = attendance[e] /\ plan'[e] = plan[e]
              /\ worked'[e] = worked[e] /\ planned'[e] = planned[e]]_vars
  BY StepDormant
<1>. QED
  BY <1>1, Invariance, PTL DEF Spec, InactiveReadOnly
=============================================================================
