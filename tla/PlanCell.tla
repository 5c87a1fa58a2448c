------------------------------ MODULE PlanCell ------------------------------
(***************************************************************************)
(* Editing a day of the shift plan in the browser: the table of            *)
(* web/src/pages (employee and administrator), ClockInput and              *)
(* usePendingPlanWrites.  A day has two stored times and two cells; a      *)
(* single stored time is shown in the first cell, whichever it is.         *)
(* Leaving a changed cell sends BOTH times, the other one as the page      *)
(* knows it, so the cells of a day are read-only until the month has been  *)
(* read again.  One person edits, several days at the same time.  Reading  *)
(* the month may fail, and a save that the browser has given up may still  *)
(* be stored by the server later.                                          *)
(***************************************************************************)
EXTENDS Naturals

CONSTANTS
  Days,
  MaxTime,    \* bound: times are 1..MaxTime, 0 is an empty cell
  MaxEdits    \* bound: cells ever left

BoundsAssumption == MaxTime \in Nat /\ MaxEdits \in Nat

VARIABLES
  server,     \* the stored times of every day
  cache,      \* the month as the page knows it (the query cache)
  draft,      \* the text of every cell
  focus,      \* the cell in which the user is, or None
  failed,     \* the cells whose last save failed: they keep their draft
  write,      \* per day: the save under way, or None
  reading,    \* the month being read: None, Asked or what the server answered
  late,       \* per day: saves given up that the server may still store
  confirmed,  \* what the user was told is stored, or Unknown
  unread,     \* history: the cells whose save was confirmed without being read back
  edits       \* history: number of cells left

vars == <<server, cache, draft, focus, failed, write, reading, late, confirmed, unread, edits>>

Empty == 0
Fields == {"arrival_time", "departure_time"}
Columns == {1, 2}
Cells == Days \X Columns
Values == 0..MaxTime
None == [none |-> TRUE]
Asked == [asked |-> TRUE]
Unknown == MaxTime + 1
Garbled == MaxTime + 2  \* a draft that normalizeTimeInput rejects

\* What the server stores: a time alone, or an end after its start.
Storable(day) ==
  \/ \E f \in Fields : day[f] = Empty
  \/ day["arrival_time"] < day["departure_time"]

Plans == {day \in [Fields -> Values] : Storable(day)}

\* The stored field behind a column: the filled fields come before the empty ones.
FieldOf(day, column) ==
  IF day["arrival_time"] = Empty /\ day["departure_time"] # Empty
  THEN <<"departure_time", "arrival_time">>[column]
  ELSE <<"arrival_time", "departure_time">>[column]

\* The filled times in their order, and empty cells after them.
chronologicalPlanBoundaries(day) == [column \in Columns |-> day[FieldOf(day, column)]]

\* The value property of a cell.
Shown(month, cell) == chronologicalPlanBoundaries(month[cell[1]])[cell[2]]

OnlyThis(day, column, value) ==
  [f \in Fields |-> IF f = FieldOf(day, column) THEN value ELSE Empty]

updatePlanBoundary(day, column, value) == [day EXCEPT ![FieldOf(day, column)] = value]

InFlight(cell) == write[cell[1]] # None /\ write[cell[1]].column = cell[2]

Save == [phase : {"sent", "stored", "refresh", "read"}, column : Columns, field : Fields,
         typed : Values, shown : Values, body : [Fields -> Values],
         sure : BOOLEAN]  \* history: no given-up save was stored over it

TypeOK ==
  /\ server \in [Days -> Plans]
  /\ cache \in [Days -> Plans]
  /\ draft \in [Cells -> Values \cup {Garbled}]
  /\ focus \in Cells \cup {<<>>}
  /\ failed \subseteq Cells
  /\ write \in [Days -> {None} \cup Save]
  /\ reading \in {None, Asked} \cup [month : [Days -> Plans]]
  /\ late \in [Days -> SUBSET Plans]
  /\ confirmed \in [Days -> [Fields -> Values \cup {Unknown}]]
  /\ unread \subseteq Cells
  /\ edits \in 0..MaxEdits

Init ==
  /\ server \in [Days -> Plans]
  /\ cache = server
  /\ draft = [cell \in Cells |-> Shown(cache, cell)]
  /\ focus = <<>>
  /\ failed = {}
  /\ write = [d \in Days |-> None]
  /\ reading = None
  /\ late = [d \in Days |-> {}]
  /\ confirmed = server
  /\ unread = {}
  /\ edits = 0

-----------------------------------------------------------------------------
\* usePendingPlanWrites: a save of this day is under way.
ReadOnly(cell) == write[cell[1]] # None

\* The user goes to a cell and types; the draft of a failed save may be sent
\* again as it is.
Type(cell, v) ==
  /\ focus \in {<<>>, cell}
  /\ edits < MaxEdits
  /\ ~ReadOnly(cell)
  /\ draft[cell] # v \/ cell \in failed
  /\ focus' = cell
  /\ draft' = [draft EXCEPT ![cell] = v]
  /\ failed' = failed \ {cell}
  /\ UNCHANGED <<server, cache, write, reading, late, confirmed, unread, edits>>

\* Escape: the draft is dropped.
Escape ==
  /\ focus # <<>>
  /\ draft' = [draft EXCEPT ![focus] = Shown(cache, focus)]
  /\ focus' = <<>>
  /\ UNCHANGED <<server, cache, failed, write, reading, late, confirmed, unread, edits>>

\* Nothing is promised of a day any more.
Nothing == [f \in Fields |-> Unknown]

\* The page has read the confirmed saves of the day.
ReadBack(d) == \A cell \in unread : cell[1] # d

\* The cell is left: an unchanged draft is nothing, an unreadable one stays
\* with an error, any other is sent with the other time from the page's data.
\* On a day that was not read back that time is an old one.
commit ==
  LET d == focus[1]
      column == focus[2]
      field == FieldOf(cache[d], column)
  IN  /\ focus # <<>>
      /\ focus' = <<>>
      /\ \/ /\ draft[focus] = Shown(cache, focus)
            /\ UNCHANGED <<failed, write, confirmed, edits>>
         \/ /\ draft[focus] = Garbled
            /\ failed' = failed \cup {focus}
            /\ UNCHANGED <<write, confirmed, edits>>
         \/ /\ draft[focus] \notin {Garbled, Shown(cache, focus)}
            /\ write' = [write EXCEPT ![d] =
                 [phase |-> "sent", column |-> column, field |-> field,
                  typed |-> draft[focus], shown |-> Shown(cache, focus),
                  body |-> updatePlanBoundary(cache[d], column, draft[focus]),
                  sure |-> TRUE]]
            /\ confirmed' = IF ReadBack(d) THEN [confirmed EXCEPT ![d][field] = Unknown]
                                           ELSE [confirmed EXCEPT ![d] = Nothing]
            /\ edits' = edits + 1
            /\ UNCHANGED failed
      /\ UNCHANGED <<server, cache, draft, reading, late, unread>>

\* The PUT is stored.
upsert_shift_plan(d) ==
  /\ write[d] # None /\ write[d].phase = "sent"
  /\ Storable(write[d].body)
  /\ server' = [server EXCEPT ![d] = write[d].body]
  /\ write' = [write EXCEPT ![d].phase = "stored"]
  /\ UNCHANGED <<cache, draft, focus, failed, reading, late, confirmed, unread, edits>>

\* The save fails: refused, or the answer lost before or after it was
\* stored.  The draft stays and the month is not read again.  The server
\* may not have got to it yet.
SaveFails(d) ==
  /\ write[d] # None /\ write[d].phase \in {"sent", "stored"}
  /\ write' = [write EXCEPT ![d] = None]
  /\ failed' = failed \cup {<<d, write[d].column>>}
  /\ late' = IF write[d].phase = "sent" /\ Storable(write[d].body)
             THEN [late EXCEPT ![d] = @ \cup {write[d].body}] ELSE late
  /\ UNCHANGED <<server, cache, draft, focus, reading, confirmed, unread, edits>>

\* The server stores a save that the browser has given up.  What the user
\* was told of this day holds no longer.
StoredLate(d) ==
  /\ \E body \in late[d] :
       /\ server' = [server EXCEPT ![d] = body]
       /\ late' = [late EXCEPT ![d] = @ \ {body}]
  /\ write' = IF write[d] # None /\ write[d].phase # "sent"
              THEN [write EXCEPT ![d].sure = FALSE] ELSE write
  /\ confirmed' = [confirmed EXCEPT ![d] = Nothing]
  /\ UNCHANGED <<cache, draft, focus, failed, reading, unread, edits>>

\* onSuccess: the month is read again; a reading under way is given up and
\* those who wait for it wait for the new one.
refresh(d) ==
  /\ write[d] # None /\ write[d].phase = "stored"
  /\ write' = [write EXCEPT ![d].phase = "refresh"]
  /\ reading' = Asked
  /\ UNCHANGED <<server, cache, draft, focus, failed, late, confirmed, unread, edits>>

ServerReads ==
  /\ reading = Asked
  /\ reading' = [month |-> server]
  /\ UNCHANGED <<server, cache, draft, focus, failed, write, late, confirmed, unread, edits>>

Forgotten == UNCHANGED write

\* Those who wait for the reading go on, whether it succeeded or not.
ReadEnds ==
  write' = [d \in Days |-> IF write[d] # None /\ write[d].phase = "refresh"
                           THEN [write[d] EXCEPT !.phase = "read"] ELSE write[d]]

\* The month arrives; a cell whose value has changed shows the new one,
\* unless its own save is under way.
Deliver ==
  /\ reading \notin {None, Asked}
  /\ cache' = reading.month
  /\ LET changed == {cell \in Cells : Shown(cache, cell) # Shown(reading.month, cell)
                                      /\ ~InFlight(cell)}
     IN  draft' = [cell \in Cells |-> IF cell \in changed THEN Shown(reading.month, cell)
                                                          ELSE draft[cell]]
  /\ unread' = {cell \in unread : draft'[cell] # Shown(reading.month, cell)}
  /\ reading' = None
  /\ ReadEnds
  /\ UNCHANGED <<server, focus, failed, late, confirmed, edits>>

\* Reading fails, on the retry too: invalidateQueries resolves nevertheless
\* and the table goes on with the old data.
ReadFails ==
  /\ reading # None
  /\ reading' = None
  /\ ReadEnds
  /\ UNCHANGED <<server, cache, draft, focus, failed, late, confirmed, unread, edits>>

KeepsTyped(cell, w) == w.typed

\* What the cell shows once its save is confirmed.
Settled(cell, w) ==
  LET latest == Shown(cache, cell)
  IN  CASE latest # w.shown -> latest
        [] latest = w.shown /\ w.shown = Empty /\ w.typed # Empty -> Empty
        [] OTHER -> w.typed

\* onSettled and the rest of commit: the cell flashes and the day may be
\* edited again.
Acknowledge(d) ==
  LET w == write[d]
      cell == <<d, w.column>>
  IN  /\ w # None /\ w.phase = "read"
      /\ draft' = [draft EXCEPT ![cell] = Settled(cell, w)]
      /\ confirmed' = IF w.sure THEN [confirmed EXCEPT ![d][w.field] = w.typed] ELSE confirmed
      /\ unread' = IF cache[d] = w.body THEN unread \ {cell} ELSE unread \cup {cell}
      /\ write' = [write EXCEPT ![d] = None]
      /\ UNCHANGED <<server, cache, focus, failed, reading, late, edits>>

Next ==
  \/ \E cell \in Cells, v \in Values \cup {Garbled} : Type(cell, v)
  \/ Escape
  \/ commit
  \/ \E d \in Days : upsert_shift_plan(d) \/ SaveFails(d) \/ refresh(d) \/ Acknowledge(d)
  \/ \E d \in Days : StoredLate(d)
  \/ ServerReads
  \/ Deliver
  \/ ReadFails

Spec == Init /\ [][Next]_vars

\* Every request of the browser ends, with an answer or an error, and the
\* page goes on with it.
Ends ==
  \/ \E d \in Days : upsert_shift_plan(d) \/ SaveFails(d) \/ refresh(d) \/ Acknowledge(d)
  \/ ServerReads
  \/ Deliver
  \/ ReadFails

FairSpec == Spec /\ WF_vars(Ends)

-----------------------------------------------------------------------------
(* A time whose saving was confirmed stays stored until the user changes   *)
(* that time: saving the other time of the day, with whatever the page     *)
(* knows, does not bring an older one back, also when answers were lost    *)
(* and other days were saved in between.  Two cases take the promise back, *)
(* against docs/SSOT_CURRENT.md:451: the day is edited again although      *)
(* reading the month after the confirmed save failed and nothing was read  *)
(* since, and a save that the browser gave up is stored late.              *)
ConfirmedStays ==
  \A d \in Days, f \in Fields : confirmed[d][f] \in {Unknown, server[d][f]}

(* When nothing is under way, every cell that is not being edited and did  *)
(* not fail shows what the page knows at its place, although saving one    *)
(* time can move the other one to another cell.  A cell whose save was     *)
(* confirmed while the page could not read it back shows what was typed.   *)
ShowsKnown ==
  \A cell \in Cells :
    /\ write[cell[1]] = None
    /\ cell # focus
    /\ cell \notin failed \cup unread
    => draft[cell] = Shown(cache, cell)

(* A day does not stay read-only: whatever fails, its cells can be edited  *)
(* again.                                                                  *)
EditableAgain ==
  \A d \in Days : ReadOnly(<<d, 1>>) ~> ~ReadOnly(<<d, 1>>)

-----------------------------------------------------------------------------
HasArrived == reading \notin {None, Asked}

\* A day that does not contradict what the user was told.
Fits(day, told) == \A f \in Fields : told[f] \in {Unknown, day[f]}

\* What is stored, what the page knows and what is about to reach it.
KnownFits ==
  \A d \in Days :
    /\ Fits(server[d], confirmed[d])
    /\ ReadBack(d) => Fits(cache[d], confirmed[d])
    /\ HasArrived => Fits(reading.month[d], confirmed[d])

\* A save in all its phases: its two times, where they have got to, and the only
\* case in which the cell shows after it what it showed before.
SaveOf(d, w) ==
  /\ w.body[w.field] = w.typed /\ confirmed[d][w.field] = Unknown
  /\ Fits(w.body, confirmed[d])
  /\ w.phase # "sent" /\ w.sure => server[d] = w.body
  /\ w.phase = "refresh" => reading # None
  /\ w.phase \in {"refresh", "read"} /\ w.sure /\ HasArrived => reading.month[d] = w.body
  /\ chronologicalPlanBoundaries(w.body)[w.column] = w.shown =>
       w.shown = Empty /\ w.typed # Empty

SavesFit == \A d \in Days : write[d] # None => SaveOf(d, write[d])

\* The cell in which the user is belongs to a day without a save under way.
FocusFree == focus # <<>> => write[focus[1]] = None /\ edits < MaxEdits

DraftsFollow ==
  \A cell \in Cells :
    cell # focus /\ cell \notin failed \cup unread /\ ~InFlight(cell)
      => draft[cell] = Shown(cache, cell)

IInv == TypeOK /\ KnownFits /\ SavesFit /\ FocusFree /\ DraftsFollow
=============================================================================
