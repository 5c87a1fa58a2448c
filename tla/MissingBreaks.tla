--------------------------- MODULE MissingBreaks ---------------------------
(***************************************************************************)
(* The administrator's "add missing breaks" request on one employment:     *)
(* missing_break_event_groups (time_intervals.py) loop by loop, then the   *)
(* insertion of add_missing_breaks (admin_attendance.py), repeated.  Locks,*)
(* statuses and metrics of the request are in TimeRecords.                 *)
(***************************************************************************)
EXTENDS TimeIntervals, Sequences

CONSTANTS
  History,               \* the sets of stored instants to start from
  RangeStart, RangeEnd,  \* the requested month
  MaxRequests            \* bound: how often the request is sent

HistoryAssumption == \A S \in History : S \subseteq Nat /\ IsFiniteSet(S)

RangeAssumption == RangeStart \in Nat /\ RangeEnd \in Nat

NoPlacement == -1

VARIABLES
  times,        \* attendance_events of the employment
  requests,     \* requests handled so far
  pc,
  ordered,      \* intervals not yet put into a session
  sessions,     \* sessions still to look at, each a set of intervals
  additions,    \* groups found: sequences of pauses
  pauses,       \* session_additions
  required, remaining,
  scan,         \* intervals of the session that the inner loop has still to see
  placement_at  \* placement, or NoPlacement for None

work == <<ordered, sessions, additions, pauses, required, remaining, scan, placement_at>>
vars == <<times, requests, pc, work>>

TypeOK ==
  /\ times \subseteq Nat /\ IsFiniteSet(times)
  /\ requests \in Nat
  /\ pc \in {"idle", "group", "session", "scan", "commit"}
  /\ pauses \in Seq(Nat \X Nat)
  /\ required \in Nat /\ remaining \in Nat
  /\ placement_at \in Nat \cup {NoPlacement}

\* No request is under way.
Idle ==
  /\ requests = 0 /\ pc = "idle"
  /\ ordered = {} /\ sessions = {} /\ additions = {} /\ pauses = <<>>
  /\ required = 0 /\ remaining = 0 /\ scan = {} /\ placement_at = NoPlacement

Init == times \in History /\ Idle

Request ==
  /\ pc = "idle" /\ requests < MaxRequests
  /\ pc' = "group"
  /\ ordered' = pair_event_rows(times)
  /\ sessions' = {} /\ additions' = {} /\ pauses' = <<>>
  /\ required' = 0 /\ remaining' = 0 /\ scan' = {} /\ placement_at' = NoPlacement
  /\ UNCHANGED <<times, requests>>

\* The lists of the source are sorted by start: their first and last elements.
FirstOf(I) == CHOOSE p \in I : \A q \in I : p[1] <= q[1]
LastOf(I) == CHOOSE p \in I : \A q \in I : q[1] <= p[1]

\* A gap of 30 minutes or more opens a new session.
LastSession == CHOOSE s \in sessions : LastOf(UNION sessions) \in s
Joined(p) ==
  IF sessions = {} \/ p[1] - LastOf(LastSession)[2] >= BreakMinutes
  THEN sessions \cup {{p}}
  ELSE (sessions \ {LastSession}) \cup {LastSession \cup {p}}
Group ==
  /\ pc = "group"
  /\ IF ordered = {} THEN pc' = "session" /\ UNCHANGED <<ordered, sessions>>
     ELSE LET p == FirstOf(ordered)
          IN  ordered' = ordered \ {p} /\ sessions' = Joined(p) /\ UNCHANGED pc
  /\ UNCHANGED <<times, requests, additions, pauses, required, remaining, scan, placement_at>>

Session == CHOOSE s \in sessions : FirstOf(UNION sessions) \in s
Start == FirstOf(Session)[1]
End == LastOf(Session)[2]
Later(p) == {q \in Session : p[1] < q[1]}
Gaps == SumFunction([p \in {q \in Session : Later(q) # {}} |-> Max({0, FirstOf(Later(p))[1] - p[2]})])

\* Sessions outside the range and sessions with enough pause time are skipped.
LookAt ==
  LET needed == break_count(End - Start)
      missing == BreakMinutes * needed - Gaps
  IN  /\ pc = "session"
      /\ IF sessions = {} THEN pc' = "commit" /\ UNCHANGED <<sessions, required, remaining, scan>>
         ELSE IF End <= RangeStart \/ Start >= RangeEnd \/ missing <= 0
         THEN sessions' = sessions \ {Session} /\ UNCHANGED <<pc, required, remaining, scan>>
         ELSE /\ pc' = "scan"
              /\ required' = needed
              /\ remaining' = missing
              /\ scan' = Session
              /\ UNCHANGED sessions
      /\ pauses' = <<>>
      /\ placement_at' = NoPlacement
      /\ UNCHANGED <<times, requests, ordered, additions>>

Duration == IF remaining < BreakMinutes THEN remaining ELSE BreakMinutes
Target == Start + SegmentMinutes * (Len(pauses) + 1)

Roomless(p) == p[1] + 1 > p[2] - Duration - 1
\* the inner loop stops at the first interval with room at the target
StopAtFirstRoomy(p) == ~ Roomless(p)
ScanStops(p) == ~ Roomless(p) /\ p[1] + 1 <= Target /\ Target <= p[2] - Duration - 1

Scan ==
  LET p == FirstOf(scan)
  IN  /\ pc = "scan" /\ scan # {}
      /\ placement_at' = IF Roomless(p) THEN placement_at
                         ELSE Clamp(Target, p[1] + 1, p[2] - Duration - 1)
      /\ scan' = IF ScanStops(p) THEN {} ELSE scan \ {p}
      /\ UNCHANGED <<times, requests, pc, ordered, sessions, additions, pauses, required, remaining>>

\* The scan is over: without a placement the session is given up; with its last
\* missing minute placed, it yields a group.
Place ==
  /\ pc = "scan" /\ scan = {}
  /\ IF placement_at = NoPlacement
     THEN /\ pc' = "session" /\ sessions' = sessions \ {Session}
          /\ UNCHANGED <<additions, pauses, remaining, scan>>
     ELSE LET placed == Append(pauses, <<placement_at, placement_at + Duration>>)
          IN  /\ remaining' = remaining - Duration
              /\ pauses' = placed
              /\ IF remaining' = 0 \/ Len(placed) = required
                 THEN /\ pc' = "session" /\ sessions' = sessions \ {Session}
                      /\ additions' = IF remaining' = 0 THEN additions \cup {placed} ELSE additions
                      /\ UNCHANGED scan
                 ELSE scan' = Session /\ UNCHANGED <<pc, sessions, additions>>
  /\ placement_at' = NoPlacement
  /\ UNCHANGED <<times, requests, ordered, required>>

\* Pauses that would repeat a stored time are left out; a time repeated within a
\* group breaks the unique constraint and the request fails as a whole.
New(g) == {k \in DOMAIN g : g[k][1] \notin times /\ g[k][2] \notin times}
\* the mutated form stores a local time as if it were UTC, in winter
InsertedAnHourLate ==
  UNION {UNION {{g[k][1] + 60, g[k][2] + 60} : k \in New(g)} : g \in additions}
Inserted == UNION {UNION {{g[k][1], g[k][2]} : k \in New(g)} : g \in additions}
Unique == \A g \in additions : \A j, k \in New(g) :
            j # k => {g[j][1], g[j][2]} \cap {g[k][1], g[k][2]} = {}

Commit ==
  /\ pc = "commit"
  /\ times' = IF Unique THEN times \cup Inserted ELSE times
  /\ requests' = requests + 1
  /\ pc' = "idle"
  /\ UNCHANGED work

Next == Request \/ Group \/ LookAt \/ Scan \/ Place \/ Commit

Spec == Init /\ [][Next]_vars

-----------------------------------------------------------------------------
StoredIntervals == pair_event_rows(times)
StoredSessions == Sessions(StoredIntervals)
MissingGroups == missing_break_event_groups(StoredIntervals, RangeStart, RangeEnd)

\* The loops find exactly the groups of the closed form in TimeIntervals.
MatchesClosedForm == pc = "commit" => additions = MissingGroups

\* A second request finds nothing more to insert, provided every session needed at
\* most one break: for those the 30 minutes are counted once and stay counted.
OneBreakSettles ==
  [][pc = "commit" /\ Unique
     /\ (\A s \in StoredSessions : break_count(SessionEnd(s) - SessionStart(s)) <= 1)
     => MissingGroups' = {}]_vars

\* What the documentation promises without that proviso: the action is idempotent.
Idempotent == [][pc = "commit" /\ requests > 0 => times' = times]_vars

-----------------------------------------------------------------------------
(* The inductive invariant of the loops. *)

\* The groups of those sessions that meet the range, lack pauses and have room.
Lacking(s) == SessionEnd(s) > RangeStart /\ SessionStart(s) < RangeEnd /\ MissingMinutes(s) > 0
HasRoom(s, k) == Roomy(s, PauseLength(s, k)) # {}
Pauses(s) == [k \in 1 .. PauseCount(s) |-> Pause(s, k)]
Found(S) == {Pauses(s) : s \in {r \in S : Lacking(r) /\ \A k \in 1 .. PauseCount(r) : HasRoom(r, k)}}

\* The intervals put into sessions so far are the first ones, and their sessions
\* are those of the closed form.
Grouped ==
  pc = "group" =>
    /\ ordered \subseteq StoredIntervals /\ additions = {}
    /\ \A p \in StoredIntervals \ ordered, q \in ordered : p[1] < q[1]
    /\ sessions = Sessions(StoredIntervals \ ordered)

\* The sessions that were looked at have given their groups.
LookedAt ==
  pc \in {"session", "scan", "commit"} =>
    /\ sessions \subseteq StoredSessions
    /\ additions = Found(StoredSessions \ sessions)
    /\ pc = "commit" => sessions = {}

\* The pauses of the session placed so far, and the best place among the intervals
\* that were scanned for the next one.
Placed ==
  /\ sessions # {} /\ Lacking(Session)
  /\ required = break_count(SessionEnd(Session) - SessionStart(Session))
  /\ remaining = MissingMinutes(Session) - BreakMinutes * Len(pauses) /\ remaining > 0
  /\ \A k \in 1 .. Len(pauses) : HasRoom(Session, k) /\ pauses[k] = Pause(Session, k)
Scanned ==
  /\ scan \subseteq Session
  /\ \A p \in Session \ scan, q \in scan : p[1] < q[1]
  /\ scan # {} => \A p \in Session \ scan : ~ ScanStops(p)
  /\ placement_at = IF Roomy(Session \ scan, Duration) = {} THEN NoPlacement
                    ELSE placement(Session \ scan, Target, Duration)

IInv == TypeOK /\ Grouped /\ LookedAt /\ (pc = "scan" => Placed /\ Scanned)
=============================================================================
