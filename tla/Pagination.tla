----------------------------- MODULE Pagination -----------------------------
(***************************************************************************)
(* A partner reads a list of the integration API page by page              *)
(* (app/api/v1/integration.py) while the data and the scope of the client  *)
(* change.  The server keeps nothing between two pages: the cursor holds   *)
(* the key of the last row sent, and a page is the first limit rows with a *)
(* greater key.  Attendance events have the key (occurred_at, id); the     *)
(* lists of employments and of locks have the key id, which is the case    *)
(* in which Patches is FALSE.                                              *)
(***************************************************************************)
EXTENDS Naturals, FiniteSets

CONSTANTS
  MaxId,        \* bound: ids ever given out
  Times,        \* the values of occurred_at, numbers
  Window,       \* the times that date_from and date_to admit
  Employments,
  Limit,        \* rows per page
  Patches       \* whether a row may change its key

PageAssumption ==
  /\ MaxId \in Nat
  /\ Times \subseteq Nat
  /\ Window \subseteq Times
  /\ Limit \in Nat \ {0}
  /\ Patches \in BOOLEAN

VARIABLES
  rows,       \* the existing rows: id -> [at, employment]
  nextId,     \* the sequence of ids
  scope,      \* the employments in the client's scope
  cursor,     \* the cursor of the next page, or Start
  delivered,  \* how often a row was received
  done,       \* the last page said has_more = false
  touched,    \* rows created, deleted or out of scope at some time of the walk
  moved       \* rows whose key was changed during the walk

vars == <<rows, nextId, scope, cursor, delivered, done, touched, moved>>

Ids == 1..MaxId
Start == <<>>
Row == [at : Times, employment : Employments]

TypeOK ==
  /\ DOMAIN rows \subseteq 1..(nextId - 1) /\ rows = [i \in DOMAIN rows |-> rows[i]]
  /\ \A i \in DOMAIN rows : rows[i] \in Row
  /\ nextId \in 1..(MaxId + 1)
  /\ scope \subseteq Employments
  /\ cursor = Start \/ cursor \in Times \X Ids
  /\ delivered \in [Ids -> Nat]
  /\ done \in BOOLEAN
  /\ touched \subseteq Ids
  /\ moved \subseteq Ids

-----------------------------------------------------------------------------
\* Rows of employments outside the scope and of times outside the filter are
\* dropped before the cursor is applied.
Visible(i) == rows[i].employment \in scope /\ rows[i].at \in Window

OnlyTime(i) == cursor = Start \/ rows[i].at > cursor[1]

\* The key of row i is greater than the cursor's.
AfterCursor(i) ==
  \/ cursor = Start
  \/ rows[i].at > cursor[1]
  \/ rows[i].at = cursor[1] /\ i > cursor[2]

\* The rows of the query without its limit.
Selected == {i \in DOMAIN rows : Visible(i) /\ AfterCursor(i)}

\* The order of their keys.
Before(i, j) ==
  \/ rows[i].at < rows[j].at
  \/ rows[i].at = rows[j].at /\ i < j
UpTo(last) == {i \in Selected : i = last \/ Before(i, last)}

\* The lists of employments and of locks are ordered by id alone: all their
\* rows count as having one time.
list_employments(rs) == \A i, j \in DOMAIN rs : rs[i].at = rs[j].at

\* The walk starts with any contents of the table.
Init ==
  /\ \E n \in 0..MaxId :
       /\ nextId = n + 1
       /\ rows \in [1..n -> Row]
       /\ ~Patches => list_employments(rows)
  /\ scope \in SUBSET Employments
  /\ cursor = Start
  /\ delivered = [i \in Ids |-> 0]
  /\ done = FALSE
  /\ touched = {i \in DOMAIN rows : rows[i].employment \notin scope}
  /\ moved = {}

Sent(page) == delivered' = [i \in Ids |-> delivered[i] + (IF i \in page THEN 1 ELSE 0)]

\* A page, and that there are more, by all the rows instead of the ones after the cursor.
CountsAll ==
  LET more == Cardinality({i \in DOMAIN rows : Visible(i)}) > Limit
  IN  /\ ~done
      /\ \/ Selected = {} /\ UNCHANGED <<delivered, cursor>>
         \/ \E last \in Selected :
              /\ Cardinality(UpTo(last)) = Limit \/ UpTo(last) = Selected
              /\ Cardinality(UpTo(last)) <= Limit
              /\ Sent(UpTo(last)) /\ cursor' = <<rows[last].at, last>>
      /\ done' = ~more
      /\ UNCHANGED <<rows, nextId, scope, touched, moved>>

\* One request: limit + 1 rows are read, at most limit are sent, and the
\* cursor names the last one sent; without has_more there is no cursor and
\* the walk has ended.
_page ==
  /\ ~done
  /\ \/ /\ Cardinality(Selected) <= Limit
        /\ Sent(Selected)
        /\ done' = TRUE /\ UNCHANGED cursor
     \/ /\ Cardinality(Selected) > Limit
        /\ \E last \in Selected :
             /\ Cardinality(UpTo(last)) = Limit
             /\ Sent(UpTo(last))
             /\ cursor' = <<rows[last].at, last>>
        /\ UNCHANGED done
  /\ UNCHANGED <<rows, nextId, scope, touched, moved>>

\* A new row has a greater id than all before, and any time.
create_attendance_event ==
  /\ ~done
  /\ nextId <= MaxId
  /\ \E r \in Row :
       /\ rows' = [i \in DOMAIN rows \cup {nextId} |-> IF i = nextId THEN r ELSE rows[i]]
       /\ ~Patches => list_employments(rows')
  /\ nextId' = nextId + 1
  /\ touched' = touched \cup {nextId}
  /\ UNCHANGED <<scope, cursor, delivered, done, moved>>

update_attendance_event ==
  /\ ~done
  /\ Patches
  /\ \E i \in DOMAIN rows, t \in Times :
       /\ t # rows[i].at
       /\ rows' = [rows EXCEPT ![i].at = t]
       /\ moved' = moved \cup {i}
  /\ UNCHANGED <<nextId, scope, cursor, delivered, done, touched>>

delete_attendance_event ==
  /\ ~done
  /\ \E i \in DOMAIN rows :
       /\ rows' = [j \in DOMAIN rows \ {i} |-> rows[j]]
       /\ touched' = touched \cup {i}
  /\ UNCHANGED <<nextId, scope, cursor, delivered, done, moved>>

\* The administration, or the passing of a day, changes what is in scope.
ScopeChanges ==
  /\ ~done
  /\ scope' \in SUBSET Employments
  /\ touched' = touched \cup {i \in DOMAIN rows : rows[i].employment \notin scope'}
  /\ UNCHANGED <<rows, nextId, cursor, delivered, done, moved>>

Next ==
  \/ _page
  \/ create_attendance_event
  \/ update_attendance_event
  \/ delete_attendance_event
  \/ ScopeChanges

Spec == Init /\ [][Next]_vars

\* The partner goes on asking for the next page.
FairSpec == Spec /\ WF_vars(_page)

-----------------------------------------------------------------------------
(* However pages and changes interleave, a row in scope that nobody        *)
(* created, changed, deleted or took out of scope during the walk has been *)
(* received by its end, also when several rows have the same time: the id  *)
(* in the cursor decides between them.                                     *)
StableReceived ==
  \A i \in DOMAIN rows \ (touched \cup moved) :
    done /\ Visible(i) => delivered[i] >= 1

(* No row is received twice unless its key was changed: creating and       *)
(* deleting rows and changing the scope do not shift the pages.            *)
NoRepeat == \A i \in Ids \ moved : delivered[i] <= 1

(* The walk ends: every page that is not the last moves the cursor on.     *)
WalkEnds == <>done

-----------------------------------------------------------------------------
(* What a walk under way has behind it: a row that was received lies before the *)
(* cursor, ids that were not given out were not received, and the rows that lie *)
(* before the cursor were received, if nobody touched them.                     *)
NotAhead ==
  /\ \A i \in Ids : i >= nextId => delivered[i] = 0
  /\ ~done => \A i \in DOMAIN rows \ moved : delivered[i] > 0 => ~AfterCursor(i)

NothingSkipped ==
  \A i \in DOMAIN rows \ (touched \cup moved) :
    /\ rows[i].employment \in scope
    /\ Visible(i) /\ (done \/ ~AfterCursor(i)) => delivered[i] >= 1

IInv == TypeOK /\ NoRepeat /\ NotAhead /\ NothingSkipped
=============================================================================
