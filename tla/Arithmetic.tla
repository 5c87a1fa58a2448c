---------------------------- MODULE Arithmetic ----------------------------
(***************************************************************************)
(* The algorithms on times side by side: the split of a presence, the      *)
(* missing breaks and the hours of a month.  They share no state: a        *)
(* behaviour is one of the algorithm in part, and the others stay where    *)
(* they are.                                                               *)
(***************************************************************************)
EXTENDS BreakSegments

CONSTANTS
  History, RangeStart, RangeEnd, MaxRequests,
  Cases, Profiles

VARIABLES
  part,
  times, requests, stage, ordered, sessions, additions, pauses, required, remaining,
  scan, placement_at,
  input, profile, rows, shown

adding == <<times, requests, stage, ordered, sessions, additions, pauses, required, remaining,
            scan, placement_at>>
hours == <<input, profile, rows, shown>>
allVars == <<part, vars, adding, hours>>

Missing == INSTANCE MissingBreaks WITH pc <- stage
Hours == INSTANCE TimeMetrics

ASSUME MissingAssumption == Missing!HistoryAssumption /\ Missing!RangeAssumption
ASSUME HoursAssumption == Hours!CasesAssumption /\ Hours!ProfilesAssumption

NoMonth == [none |-> TRUE]

AllInit ==
  /\ part \in {"segments", "missing", "hours"}
  /\ Init /\ (part # "segments" => duration = 0)
  /\ IF part = "missing" THEN Missing!Init ELSE times = {} /\ Missing!Idle
  /\ IF part = "hours" THEN Hours!Init
     ELSE input = NoMonth /\ profile = NoMonth /\ rows = NoMonth /\ shown = NoMonth

SplitPresence == part = "segments" /\ Next /\ UNCHANGED <<part, adding, hours>>
AddBreaks == part = "missing" /\ Missing!Next /\ UNCHANGED <<part, vars, hours>>
CountHours == part = "hours" /\ Hours!Next /\ UNCHANGED <<part, vars, adding>>

AllNext == SplitPresence \/ AddBreaks \/ CountHours

AllSpec == AllInit /\ [][AllNext]_allVars /\ WF_allVars(SplitPresence)

-----------------------------------------------------------------------------
\* Both break algorithms compute the closed forms of TimeIntervals, and the hours of
\* a month are its minutes counted one by one (time_metrics.py).
MatchesReference ==
  /\ MatchesClosedForm /\ Missing!MatchesClosedForm
  /\ part = "hours" => Hours!MatchesReference

\* The hours read from the stored rows are those the calculation returns
\* (daily_metrics.py, month_summary.py).
StoredAsComputed == part = "hours" => Hours!StoredAsComputed

\* Every call of break_segments and automatic_break_events returns: the search loop,
\* which has no bound of its own, finds a number of breaks for every duration.
SplitEnds == part = "segments" ~> pc = "done"

\* Where one break was due, a second "add missing breaks" request adds nothing.
OneBreakSettles == Missing!OneBreakSettles
=============================================================================
