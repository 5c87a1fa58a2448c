--------------------------- MODULE MCTimeRecords ---------------------------
(***************************************************************************)
(* A small instance of TimeRecords for TLC.  Every day is a month of its   *)
(* own, so that two neighbouring days are in two neighbouring months.      *)
(* MCBound keeps it to three kinds of histories: an employment in an       *)
(* unlimited period, one whose period, profile and owner change, and a     *)
(* night across the month boundary.                                        *)
(***************************************************************************)
EXTENDS TimeRecords

At(d, minute) == DayMinutes * d + minute

MCMonthOf == [d \in Days |-> d]
MCOwner == [e \in Employment |-> CHOOSE u \in User : TRUE]

MCPeriods == {<<1, NoEnd>>, <<1, 1>>, <<2, NoEnd>>, <<2, 1>>}
MCProfiles == {<<"HOURLY", FALSE>>, <<"HOURLY", TRUE>>, <<"TASK_SHIFT_BASED", FALSE>>,
               <<"TASK_SHIFT_BASED", TRUE>>}
MCShifts == {<<480, 600>>, <<NoTime, NoTime>>, <<480, NoTime>>, <<600, 480>>}

Mornings == {At(1, 480), At(2, 480)}
ByDay == Mornings \cup {At(1, 600), At(2, 600)}
\* 419 minutes before midnight and 60 after, one session of 480 minutes that lacks
\* a break of 29 minutes on the first day
ByNight == {At(1, 1020), At(1, 1439), At(2, 0), At(2, 60)}
MCTimes == ByDay \cup ByNight

-----------------------------------------------------------------------------
OpenHourly(e) ==
  life[e] = "live" => emp[e].start = 1 /\ emp[e].end = NoEnd /\ emp[e].profile = "HOURLY"
Draft(row) == row.status = NoStatus /\ (row.arrival = NoTime) # (row.departure = NoTime)

\* Two times a day and whole shifts, in one period and with one profile.
Unlimited(e) ==
  /\ events[e] \subseteq ByDay
  /\ OpenHourly(e) /\ ~emp[e].autoBreaks
  /\ \A d \in Days : ~Draft(plan[e][d])

\* One time a day and drafts of shifts, while period and profile change.
Changing(e) ==
  /\ events[e] \subseteq Mornings
  /\ \A d \in Days : plan[e][d].departure = NoTime

\* At most one inserted pause, in an employment that stays editable.
Night(e) ==
  /\ events[e] \cap ByDay = {} /\ Cardinality(events[e] \ ByNight) <= 2
  /\ OpenHourly(e)
  /\ \A d \in Days : plan[e][d] = NoPlan /\ attendance[e][d] = NoStatus
  /\ planLock[e] = {} /\ autoRuns = {} /\ user[Owner[e]] = "active"

MCBound == \A e \in Employment : Unlimited(e) \/ Changing(e) \/ Night(e)
=============================================================================
