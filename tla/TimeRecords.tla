---------------------------- MODULE TimeRecords ----------------------------
(***************************************************************************)
(* The time records of the attendance backend: what the portal, the        *)
(* administration, the integration API and the monthly job may write about *)
(* an employment, and the daily metrics kept beside those facts.           *)
(*                                                                         *)
(* One action is one committed request.  Every handler below first takes   *)
(* the row lock of the employment (lock_employment_for_time_mutation,      *)
(* SELECT ... FOR UPDATE) and re-reads what it needs, so requests for one  *)
(* employment are serial; a request that is refused rolls back and is a    *)
(* stuttering step.  Requests, users and the calendar interleave freely.   *)
(*                                                                         *)
(* Days are 1 .. LastDay and an instant is a minute count, as in           *)
(* TimeIntervals.                                                          *)
(***************************************************************************)
EXTENDS TimeIntervals

CONSTANTS
  Employment,        \* employment ids; each is created at most once
  User, Owner,       \* portal users, and the user an employment is created for
  LastDay,           \* bound: the calendar ends here
  MonthOf,           \* the calendar month of a day
  HourlyProfile,     \* metric profiles of employments that have hourly metrics
  TaskProfile,       \* TASK_SHIFT_BASED: no hourly metrics, no automatic breaks
  PlanStatus,        \* HOLIDAY, OFF: all-day statuses stored in the shift plan
  AttendanceStatus,  \* SICKNESS, PARAGRAPH: all-day statuses stored in attendance
  NoStatus,
  InputTime,         \* the instants at which requests place events
  InputShift,        \* <<arrival, departure>> of a plan request, NoTime if null
  InputPeriod,       \* <<start, end>> of an employment request, NoEnd if open
  InputProfile       \* <<metric profile, automatic breaks>> of such a request

Days == 1 .. LastDay
NoEnd == LastDay + 1
Time == DayMinutes .. DayMinutes * (LastDay + 1) - 1
Minute == 0 .. DayMinutes - 1
NoTime == -1
Month == {MonthOf[d] : d \in Days}
Profile == HourlyProfile \cup {TaskProfile}
DayStatus == PlanStatus \cup AttendanceStatus

DaysOf(m) == {d \in Days : MonthOf[d] = m}

ASSUME CalendarAssumption ==
  /\ LastDay \in Nat \ {0}
  /\ MonthOf \in [Days -> Nat]
  /\ \A c, d \in Days : c <= d => MonthOf[c] <= MonthOf[d]

ASSUME PeopleAssumption == Owner \in [Employment -> User]

ASSUME StatusAssumption ==
  /\ PlanStatus \cap AttendanceStatus = {}
  /\ NoStatus \notin DayStatus

ASSUME ProfileAssumption == TaskProfile \notin HourlyProfile

ASSUME InputAssumption ==
  /\ InputTime \subseteq Time
  /\ InputShift \subseteq (Minute \cup {NoTime}) \X (Minute \cup {NoTime})
  /\ InputPeriod \subseteq Days \X (Days \cup {NoEnd})
  /\ InputProfile \subseteq Profile \X BOOLEAN

VARIABLES
  life,        \* has the employment been created, deleted?
  emp,         \* its period and time profile
  user,        \* the portal account
  today,       \* the current local day
  events,      \* attendance_events: the stored instants of an employment
  attendance,  \* attendance rows: the all-day status stored for a day
  plan,        \* shift_plan rows: times or an all-day status
  attLock,     \* months whose attendance is locked
  planLock,    \* months whose shift plan is locked
  autoRuns,    \* months for which the automatic plan lock has run
  worked,      \* daily metrics from attendance, by month; {} is no rows
  planned      \* daily metrics from the plan

people == <<life, emp, user>>
facts == <<events, attendance, plan>>
locks == <<attLock, planLock>>
metrics == <<worked, planned>>
vars == <<people, today, facts, locks, autoRuns, metrics>>

PlanRow == [arrival : Minute \cup {NoTime}, departure : Minute \cup {NoTime},
            status : PlanStatus \cup {NoStatus}]
\* no row: a row with neither a time nor a status is never kept
NoPlan == [arrival |-> NoTime, departure |-> NoTime, status |-> NoStatus]
MetricRow == [day : Days, profile : HourlyProfile, intervals : SUBSET (Time \X Time)]
Blank == [start |-> 1, end |-> NoEnd, profile |-> TaskProfile, autoBreaks |-> FALSE]

TypeOK ==
  /\ life \in [Employment -> {"absent", "live", "deleted"}]
  /\ emp \in [Employment -> [start : Days, end : Days \cup {NoEnd},
                             profile : Profile, autoBreaks : BOOLEAN]]
  /\ user \in [User -> {"active", "inactive", "deleted"}]
  /\ today \in Days
  /\ events \in [Employment -> SUBSET Time]
  /\ attendance \in [Employment -> [Days -> AttendanceStatus \cup {NoStatus}]]
  /\ plan \in [Employment -> [Days -> PlanRow]]
  /\ attLock \in [Employment -> SUBSET Month]
  /\ planLock \in [Employment -> SUBSET Month]
  /\ autoRuns \subseteq Month
  /\ worked \in [Employment -> [Month -> SUBSET MetricRow]]
  /\ planned \in [Employment -> [Month -> SUBSET MetricRow]]

Init ==
  /\ life = [e \in Employment |-> "absent"]
  /\ emp = [e \in Employment |-> Blank]
  /\ user = [u \in User |-> "active"]
  /\ today = 1
  /\ events = [e \in Employment |-> {}]
  /\ attendance = [e \in Employment |-> [d \in Days |-> NoStatus]]
  /\ plan = [e \in Employment |-> [d \in Days |-> NoPlan]]
  /\ attLock = [e \in Employment |-> {}]
  /\ planLock = [e \in Employment |-> {}]
  /\ autoRuns = {}
  /\ worked = [e \in Employment |-> [m \in Month |-> {}]]
  /\ planned = [e \in Employment |-> [m \in Month |-> {}]]

-----------------------------------------------------------------------------
(* Shared reads of the handlers. *)

employment_is_valid_on_day(e, d) == emp[e].start <= d /\ d <= emp[e].end

employment_overlaps_month(e, m) == \E d \in DaysOf(m) : employment_is_valid_on_day(e, d)

\* The employment row, then the user row, are locked and re-read.
ValidTodayOnly(e) == life[e] = "live" /\ employment_is_valid_on_day(e, today)
locked_employment_has_active_user(e) ==
  /\ life[e] = "live"
  /\ user[Owner[e]] = "active"
  /\ employment_is_valid_on_day(e, today)

get_day_status(e, d) ==
  IF attendance[e][d] # NoStatus THEN attendance[e][d] ELSE plan[e][d].status

AttendanceExists(e, d) == attendance[e][d] # NoStatus \/ OfDay(events[e], d) # {}
PlanExists(e, d) == plan[e][d] # NoPlan

AttendanceStatusOnly(e, days) == \A d \in days : attendance[e][d] = NoStatus
ensure_days_have_no_status(e, days) ==
  \A d \in days : attendance[e][d] = NoStatus /\ plan[e][d].status = NoStatus

months_for_days(days) == {MonthOf[d] : d \in days}

-----------------------------------------------------------------------------
(* Daily metrics.  A row is what it was computed from: the day, the metric *)
(* profile and the intervals of that day.                                  *)

shift_plan_interval(d, row) ==
  IF NoTime \in {row.arrival, row.departure} \/ row.departure <= row.arrival THEN {}
  ELSE {<<DayMinutes * d + row.arrival, DayMinutes * d + row.departure>>}

\* A month has one row per day as soon as one raw fact exists anywhere in it.
WorkedRows(e, m) ==
  IF emp[e].profile = TaskProfile \/ ~ \E d \in DaysOf(m) : AttendanceExists(e, d) THEN {}
  ELSE {[day |-> d, profile |-> emp[e].profile,
         intervals |-> DayPairs(OfDay(events[e], d))] : d \in DaysOf(m)}

PlannedRows(e, m) ==
  IF emp[e].profile = TaskProfile \/ ~ \E d \in DaysOf(m) : PlanExists(e, d) THEN {}
  ELSE {[day |-> d, profile |-> emp[e].profile,
         intervals |-> shift_plan_interval(d, plan[e][d])] : d \in DaysOf(m)}

\* Rows of the given months are replaced from the flushed facts.
sync_employment_metric_months(e, months) ==
  /\ worked' = [worked EXCEPT ![e] =
       [m \in Month |-> IF m \in months THEN WorkedRows(e, m)' ELSE worked[e][m]]]
  /\ planned' = [planned EXCEPT ![e] =
       [m \in Month |-> IF m \in months THEN PlannedRows(e, m)' ELSE planned[e][m]]]

-----------------------------------------------------------------------------
(* Attendance events. *)

add_event_with_breaks(e, t) ==
  LET before == {x \in OfDay(events[e], DayOf(t)) : x < t}
  IN  IF emp[e].autoBreaks /\ Cardinality(before) % 2 = 1
      THEN {t} \cup automatic_break_events(Max(before), t)
      ELSE {t}

add_closed_interval_with_breaks(e, s, t) ==
  {s, t} \cup (IF emp[e].autoBreaks THEN automatic_break_events(s, t) ELSE {})

ChangedDays(e, after, timestamps) ==
  changed_event_days(interval_signatures(events[e]), interval_signatures(after), timestamps)

\* The common tail of every event mutation: no touched month is locked, the new
\* set of times is stored and the touched months' metrics are rebuilt.
CommitEvents(e, after, timestamps) ==
  LET months == months_for_days(ChangedDays(e, after, timestamps))
  IN  /\ months \cap attLock[e] = {}
      /\ events' = [events EXCEPT ![e] = after]
      /\ UNCHANGED <<people, today, attendance, plan, locks, autoRuns>>
      /\ sync_employment_metric_months(e, months)

InsertEvents(e, additions, timestamps) ==
  /\ locked_employment_has_active_user(e)
  /\ \A t \in timestamps : employment_is_valid_on_day(e, DayOf(t))
  /\ additions \cap events[e] = {}
  /\ ensure_days_have_no_status(e, ChangedDays(e, events[e] \cup additions, timestamps))
  /\ CommitEvents(e, events[e] \cup additions, timestamps)

InsertTime(e, t) == InsertEvents(e, add_event_with_breaks(e, t), {t})

InsertInterval(e, s, t) ==
  /\ DayOf(s) = DayOf(t) /\ s < t
  /\ InsertEvents(e, add_closed_interval_with_breaks(e, s, t), {s, t})

MoveEventNewDayOnly(e, old, new) ==
  /\ locked_employment_has_active_user(e)
  /\ old \in events[e]
  /\ employment_is_valid_on_day(e, DayOf(new))
  /\ new \notin events[e] \ {old}
  /\ ensure_days_have_no_status(e, ChangedDays(e, (events[e] \ {old}) \cup {new}, {new}))
  /\ CommitEvents(e, (events[e] \ {old}) \cup {new}, {new})

MoveEvent(e, old, new) ==
  /\ locked_employment_has_active_user(e)
  /\ old \in events[e]
  /\ employment_is_valid_on_day(e, DayOf(new))
  /\ new \notin events[e] \ {old}
  /\ ensure_days_have_no_status(e, ChangedDays(e, (events[e] \ {old}) \cup {new}, {old, new}))
  /\ CommitEvents(e, (events[e] \ {old}) \cup {new}, {old, new})

\* One time, or two: the second need not be the first one's partner.
RemoveEvents(e, gone) ==
  /\ locked_employment_has_active_user(e)
  /\ gone \subseteq events[e]
  /\ CommitEvents(e, events[e] \ gone, gone)

\* portal: times after now are refused (today counts as over)
CreateAttendanceEvent(e) ==
  \E s, t \in InputTime :
    /\ DayOf(s) <= today /\ DayOf(t) <= today
    /\ IF s = t THEN InsertTime(e, t) ELSE InsertInterval(e, s, t)
UpdateAttendanceEvent(e) ==
  \E old \in events[e], new \in InputTime : DayOf(new) <= today /\ MoveEvent(e, old, new)
DeleteAttendanceEvent(e) == \E s, t \in events[e] : RemoveEvents(e, {s, t})

AdminCreateEvent(e) ==
  \E s, t \in InputTime : IF s = t THEN InsertTime(e, t) ELSE InsertInterval(e, s, t)
AdminUpdateEvent(e) == \E old \in events[e], new \in InputTime : MoveEvent(e, old, new)
AdminDeleteEvent(e) == \E s, t \in events[e] : RemoveEvents(e, {s, t})

IntegrationCreateEvent(e) ==
  \E s, t \in InputTime : IF s = t THEN InsertTime(e, t) ELSE InsertInterval(e, s, t)
IntegrationUpdateEvent(e) == \E old \in events[e], new \in InputTime : MoveEvent(e, old, new)
IntegrationDeleteEvent(e) == \E s, t \in events[e] : RemoveEvents(e, {s, t})

-----------------------------------------------------------------------------
(* Missing breaks, inserted on an administrator's request. *)

MonthStart(m) == DayMinutes * Min(DaysOf(m))
MonthEnd(m) == DayMinutes * (Max(DaysOf(m)) + 1)

\* Pauses that would repeat a stored time are left out; a time repeated inside
\* one group breaks the unique constraint at the flush and nothing is kept.
NewPauses(e, group) ==
  {k \in DOMAIN group : group[k][1] \notin events[e] /\ group[k][2] \notin events[e]}
BreakGroups(e, m) ==
  missing_break_event_groups(pair_event_rows(events[e]), MonthStart(m), MonthEnd(m))
BreakTimes(e, m) ==
  UNION {UNION {{g[k][1], g[k][2]} : k \in NewPauses(e, g)} : g \in BreakGroups(e, m)}

BreaksUnderRequestedLock(e, m) ==
  /\ locked_employment_has_active_user(e)
  /\ m \notin attLock[e]
  /\ events' = [events EXCEPT ![e] = @ \cup BreakTimes(e, m)]
  /\ UNCHANGED <<people, today, attendance, plan, locks, autoRuns>>
  /\ sync_employment_metric_months(e, Month)

AddMissingBreaks(e, m) ==
  /\ locked_employment_has_active_user(e)
  /\ m \notin attLock[e]
  /\ \A g \in BreakGroups(e, m) : \A j, k \in NewPauses(e, g) :
       j # k => {g[j][1], g[j][2]} \cap {g[k][1], g[k][2]} = {}
  /\ \A t \in BreakTimes(e, m) : MonthOf[DayOf(t)] \notin attLock[e]
  /\ ensure_days_have_no_status(e, ChangedDays(e, events[e] \cup BreakTimes(e, m), {}))
  /\ CommitEvents(e, events[e] \cup BreakTimes(e, m), {})

-----------------------------------------------------------------------------
(* Shift plan and all-day statuses. *)

ShiftRow(shift) == [arrival |-> shift[1], departure |-> shift[2], status |-> NoStatus]
StatusRow(s) == [arrival |-> NoTime, departure |-> NoTime, status |-> s]

\* Writing times, clearing the row (both null) or writing an all-day status.  The
\* overlap test against other rows compares same-day intervals of different days
\* and never fires.
UpsertShiftPlan(e, d, row, confirm) ==
  /\ locked_employment_has_active_user(e)
  /\ employment_is_valid_on_day(e, d)
  /\ MonthOf[d] \notin planLock[e]
  /\ NoTime \in {row.arrival, row.departure} \/ row.arrival < row.departure
  /\ row.status = NoStatus /\ row # NoPlan => get_day_status(e, d) = NoStatus
  /\ row.status # NoStatus =>
       ~ AttendanceExists(e, d) /\ (PlanExists(e, d) => confirm)
  /\ plan' = [plan EXCEPT ![e][d] = row]
  /\ UNCHANGED <<people, today, events, attendance, locks, autoRuns>>
  /\ sync_employment_metric_months(e,
       IF row = NoPlan /\ ~ PlanExists(e, d) THEN {} ELSE {MonthOf[d]})

InputPlan == {ShiftRow(shift) : shift \in InputShift} \cup {StatusRow(s) : s \in PlanStatus}

PortalUpsertShiftPlan(e, d) ==
  \E row \in InputPlan, confirm \in BOOLEAN : UpsertShiftPlan(e, d, row, confirm)
AdminUpsertShiftPlan(e, d) ==
  \E row \in InputPlan, confirm \in BOOLEAN : UpsertShiftPlan(e, d, row, confirm)

\* Clearing keeps planned times; a status removes every conflicting fact and is
\* stored in the plan or in attendance.
ClearedPlan(row) == [row EXCEPT !.status = NoStatus]
ReplaceInPlanOnly(e, d, s) ==
  /\ events' = [events EXCEPT ![e] =
       IF s = NoStatus THEN @ ELSE {t \in @ : DayOf(t) # d}]
  /\ plan' = [plan EXCEPT ![e][d] = IF s = NoStatus THEN ClearedPlan(@) ELSE StatusRow(s)]
  /\ attendance' = [attendance EXCEPT ![e][d] = NoStatus]
replace_day_status(e, d, s) ==
  /\ events' = [events EXCEPT ![e] =
       IF s = NoStatus THEN @ ELSE {t \in @ : DayOf(t) # d}]
  /\ attendance' = [attendance EXCEPT ![e][d] =
       IF s \in AttendanceStatus THEN s ELSE NoStatus]
  /\ plan' = [plan EXCEPT ![e][d] =
       IF s = NoStatus THEN ClearedPlan(@)
       ELSE IF s \in PlanStatus THEN StatusRow(s) ELSE NoPlan]

\* The plan page: only a plan status, and never over recorded attendance.
PortalUpsertDayStatus(e, d) ==
  \E s \in PlanStatus \cup {NoStatus}, confirm \in BOOLEAN :
    /\ locked_employment_has_active_user(e)
    /\ employment_is_valid_on_day(e, d)
    /\ MonthOf[d] \notin planLock[e]
    /\ s # NoStatus => ~ AttendanceExists(e, d) /\ (PlanExists(e, d) => confirm)
    /\ IF s = NoStatus
       THEN plan' = [plan EXCEPT ![e][d] = ClearedPlan(@)] /\ UNCHANGED <<events, attendance>>
       ELSE replace_day_status(e, d, s)
    /\ UNCHANGED <<people, today, locks, autoRuns>>
    /\ sync_employment_metric_months(e, {MonthOf[d]})

\* Which locks a status change of day d has to respect.
PlanLockByStatus(e, d, s) == {s, get_day_status(e, d)} \cap PlanStatus # {}
NeedsPlanLock(e, d, s) ==
  {s, get_day_status(e, d)} \cap PlanStatus # {} \/ PlanExists(e, d)
AttendanceLockByStatus(e, d, s) == {s, get_day_status(e, d)} \cap AttendanceStatus # {}
NeedsAttendanceLock(e, d, s) ==
  {s, get_day_status(e, d)} \cap AttendanceStatus # {} \/ AttendanceExists(e, d)

UpsertDayStatus(e, d, s, confirm) ==
  LET neither == ~ NeedsPlanLock(e, d, s) /\ ~ NeedsAttendanceLock(e, d, s)
  IN  /\ locked_employment_has_active_user(e)
      /\ employment_is_valid_on_day(e, d)
      /\ NeedsPlanLock(e, d, s) \/ neither => MonthOf[d] \notin planLock[e]
      /\ NeedsAttendanceLock(e, d, s) \/ neither => MonthOf[d] \notin attLock[e]
      /\ s # NoStatus /\ (AttendanceExists(e, d) \/ PlanExists(e, d)) => confirm
      /\ replace_day_status(e, d, s)
      /\ UNCHANGED <<people, today, locks, autoRuns>>
      /\ sync_employment_metric_months(e, {MonthOf[d]})

PortalUpsertAttendanceStatus(e, d) ==
  \E s \in DayStatus \cup {NoStatus}, confirm \in BOOLEAN : UpsertDayStatus(e, d, s, confirm)
AdminUpsertDayStatus(e, d) ==
  \E s \in DayStatus \cup {NoStatus}, confirm \in BOOLEAN : UpsertDayStatus(e, d, s, confirm)

-----------------------------------------------------------------------------
(* Month locks. *)

\* Only the months an employment overlaps are touched; a request that touches
\* nothing, or names an employment that does not exist, is refused.
WithMonths(lock, targets, locked) ==
  [e \in Employment |->
     IF locked THEN lock[e] \cup {t[2] : t \in {t \in targets : t[1] = e}}
     ELSE lock[e] \ {t[2] : t \in {t \in targets : t[1] = e}}]

AdminSetLocks(who, months) ==
  LET targets == {t \in who \X months : employment_overlaps_month(t[1], t[2])}
  IN  /\ \A e \in who : life[e] = "live"
      /\ targets # {}
      /\ \E locked \in BOOLEAN :
           \/ attLock' = WithMonths(attLock, targets, locked) /\ UNCHANGED planLock
           \/ planLock' = WithMonths(planLock, targets, locked) /\ UNCHANGED attLock
      /\ UNCHANGED <<people, today, facts, autoRuns, metrics>>

\* The monthly job, here in one step: once per month, for every employment that
\* is valid today and whose user is active.
AutoLockMonth ==
  LET m == MonthOf[today]
      valid == {e \in Employment : locked_employment_has_active_user(e)}
  IN  /\ m \notin autoRuns
      /\ autoRuns' = autoRuns \cup {m}
      /\ planLock' = WithMonths(planLock, valid \X {m}, TRUE)
      /\ UNCHANGED <<people, today, facts, attLock, metrics>>

-----------------------------------------------------------------------------
(* Employments and users. *)

validate_time_profile(profile) == profile[1] = TaskProfile => ~ profile[2]

CreateEmployment(e) ==
  \E period \in InputPeriod, profile \in InputProfile :
    /\ life[e] = "absent"
    /\ user[Owner[e]] # "deleted"
    /\ period[1] <= period[2]
    /\ validate_time_profile(profile)
    /\ life' = [life EXCEPT ![e] = "live"]
    /\ emp' = [emp EXCEPT ![e] = [start |-> period[1], end |-> period[2],
                                  profile |-> profile[1], autoBreaks |-> profile[2]]]
    /\ UNCHANGED <<user, today, facts, locks, autoRuns, metrics>>

CoversWithoutEnd(period, d) == period[1] <= d
Covers(period, d) == period[1] <= d /\ d <= period[2]
InMonths(months, period) == {m \in months : \E d \in DaysOf(m) : Covers(period, d)}

\* Records outside the new period are a conflict; with a confirmation they are
\* deleted, locked month or not.  Locks go with the months that fall outside.
OutOfRange(e, period) ==
  \/ \E d \in Days : ~ Covers(period, d) /\ (AttendanceExists(e, d) \/ PlanExists(e, d))
  \/ attLock[e] # InMonths(attLock[e], period)
  \/ planLock[e] # InMonths(planLock[e], period)

\* _delete_out_of_range_records
delete_out_of_range_records(e, period) ==
  /\ events' = [events EXCEPT ![e] = {t \in @ : Covers(period, DayOf(t))}]
  /\ attendance' = [attendance EXCEPT ![e] =
       [d \in Days |-> IF Covers(period, d) THEN attendance[e][d] ELSE NoStatus]]
  /\ plan' = [plan EXCEPT ![e] =
       [d \in Days |-> IF Covers(period, d) THEN plan[e][d] ELSE NoPlan]]
  /\ attLock' = [attLock EXCEPT ![e] = InMonths(@, period)]
  /\ planLock' = [planLock EXCEPT ![e] = InMonths(@, period)]

\* sync_employment_metrics then rebuilds the months that have facts and drops the
\* rows of all others, which is a rebuild of every month.
MetricsAffected(e, period, profile) ==
  profile[1] # emp[e].profile \/ period # <<emp[e].start, emp[e].end>>

\* _normalize_profile_for_type: a change to TASK_SHIFT_BASED switches everything off
normalize_profile_for_type(e, profile) ==
  IF profile[1] = TaskProfile /\ emp[e].profile # TaskProfile THEN <<TaskProfile, FALSE>>
  ELSE profile

UpdateEmployment(e) ==
  \E period \in InputPeriod \cup {<<emp[e].start, emp[e].end>>},
     requested \in InputProfile \cup {<<emp[e].profile, emp[e].autoBreaks>>},
     confirm \in BOOLEAN :
    LET profile == normalize_profile_for_type(e, requested)
        months == IF MetricsAffected(e, period, profile) THEN Month ELSE {}
    IN  /\ life[e] = "live"
        /\ period[1] <= period[2]
        /\ OutOfRange(e, period) => confirm
        /\ validate_time_profile(profile)
        /\ emp' = [emp EXCEPT ![e] = [start |-> period[1], end |-> period[2],
                                      profile |-> profile[1], autoBreaks |-> profile[2]]]
        /\ delete_out_of_range_records(e, period)
        /\ UNCHANGED <<life, user, today, autoRuns>>
        /\ sync_employment_metric_months(e, months)

\* Rows of a deleted employment go with it, by the handler or by ON DELETE CASCADE.
Without(rows, gone, none) == [e \in Employment |-> IF e \in gone THEN none ELSE rows[e]]

Purge(gone) ==
  /\ life' = Without(life, gone, "deleted")
  /\ emp' = Without(emp, gone, Blank)
  /\ events' = Without(events, gone, {})
  /\ attendance' = Without(attendance, gone, [d \in Days |-> NoStatus])
  /\ plan' = Without(plan, gone, [d \in Days |-> NoPlan])
  /\ attLock' = Without(attLock, gone, {})
  /\ planLock' = Without(planLock, gone, {})
  /\ worked' = Without(worked, gone, [m \in Month |-> {}])
  /\ planned' = Without(planned, gone, [m \in Month |-> {}])

HasRecords(e) ==
  \/ \E d \in Days : AttendanceExists(e, d) \/ PlanExists(e, d)
  \/ attLock[e] \cup planLock[e] # {}

DeleteEmployment(e) ==
  \E confirm \in BOOLEAN :
    /\ life[e] = "live"
    /\ HasRecords(e) => confirm
    /\ Purge({e})
    /\ UNCHANGED <<user, today, autoRuns>>

UpdateUser(u) ==
  /\ user[u] # "deleted"
  /\ \E active \in {"active", "inactive"} : user' = [user EXCEPT ![u] = active]
  /\ UNCHANGED <<life, emp, today, facts, locks, autoRuns, metrics>>

DeleteUser(u) ==
  /\ user[u] # "deleted"
  /\ user' = [user EXCEPT ![u] = "deleted"]
  /\ Purge({e \in Employment : Owner[e] = u /\ life[e] = "live"})
  /\ UNCHANGED <<today, autoRuns>>

NextDay ==
  /\ today < LastDay
  /\ today' = today + 1
  /\ UNCHANGED <<people, facts, locks, autoRuns, metrics>>

-----------------------------------------------------------------------------
Next ==
  \/ \E e \in Employment :
       \/ CreateAttendanceEvent(e) \/ UpdateAttendanceEvent(e) \/ DeleteAttendanceEvent(e)
       \/ AdminCreateEvent(e) \/ AdminUpdateEvent(e) \/ AdminDeleteEvent(e)
       \/ IntegrationCreateEvent(e) \/ IntegrationUpdateEvent(e) \/ IntegrationDeleteEvent(e)
       \/ \E m \in Month : AddMissingBreaks(e, m)
       \/ \E d \in Days :
            \/ PortalUpsertShiftPlan(e, d) \/ AdminUpsertShiftPlan(e, d)
            \/ PortalUpsertDayStatus(e, d)
            \/ PortalUpsertAttendanceStatus(e, d) \/ AdminUpsertDayStatus(e, d)
       \/ CreateEmployment(e) \/ UpdateEmployment(e) \/ DeleteEmployment(e)
  \/ \E who \in SUBSET Employment, months \in SUBSET Month : AdminSetLocks(who, months)
  \/ AutoLockMonth
  \/ \E u \in User : UpdateUser(u) \/ DeleteUser(u)
  \/ NextDay

Spec == Init /\ [][Next]_vars

-----------------------------------------------------------------------------
(* Properties. *)

\* A day that carries an all-day status carries nothing else: no attendance event,
\* no planned time, and never a second status in the other table.  Five handlers
\* write statuses and seven write events or shifts, each with its own checks.
DayExclusive ==
  \A e \in Employment, d \in Days :
    /\ attendance[e][d] # NoStatus => plan[e][d] = NoPlan
    /\ plan[e][d].status # NoStatus => plan[e][d] = StatusRow(plan[e][d].status)
    /\ get_day_status(e, d) # NoStatus => OfDay(events[e], d) = {}

\* Every stored fact belongs to a live employment and to a day of its current
\* period, also after the period has been shortened, moved or the owner deleted.
FactsInPeriod ==
  \A e \in Employment, d \in Days :
    AttendanceExists(e, d) \/ PlanExists(e, d) =>
      life[e] = "live" /\ employment_is_valid_on_day(e, d)

\* The persisted daily metrics are always what the calculation would return now:
\* no handler forgets a month, a deleted fact or a profile change.
MetricsFresh ==
  \A e \in Employment, m \in Month :
    worked[e][m] = WorkedRows(e, m) /\ planned[e][m] = PlannedRows(e, m)

\* Once the owner is deactivated or the employment is over, no handler changes its
\* times, plan or metrics any more; only an edit of the employment itself does.
InactiveReadOnly ==
  [][\A e \in Employment :
       /\ life[e] = "live" /\ life'[e] = "live" /\ emp'[e] = emp[e]
       /\ user[Owner[e]] # "active" \/ ~ employment_is_valid_on_day(e, today)
       => /\ events'[e] = events[e] /\ attendance'[e] = attendance[e] /\ plan'[e] = plan[e]
          /\ worked'[e] = worked[e] /\ planned'[e] = planned[e]]_vars

\* While a month's attendance is locked no step changes a time or an attendance
\* status of a day that stays in the period, through whichever handler and from
\* whichever neighbouring month; with the employment unedited the metrics stay too.
LockedAttendanceFrozen ==
  [][\A e \in Employment : life'[e] = "live" =>
       \A m \in attLock[e] :
         /\ \A d \in DaysOf(m) : employment_is_valid_on_day(e, d)' =>
              /\ OfDay(events'[e], d) = OfDay(events[e], d)
              /\ attendance'[e][d] = attendance[e][d]
         /\ emp'[e] = emp[e] => worked'[e][m] = worked[e][m]]_vars

\* The same for a locked shift plan: sickness entered in attendance, a cleared
\* status or an edited shift cannot rewrite a plan that is closed.
LockedPlanFrozen ==
  [][\A e \in Employment : life'[e] = "live" =>
       \A m \in planLock[e] :
         /\ \A d \in DaysOf(m) : employment_is_valid_on_day(e, d)' =>
              plan'[e][d] = plan[e][d]
         /\ emp'[e] = emp[e] => planned'[e][m] = planned[e][m]]_vars
=============================================================================
