------------------------------ MODULE Reminders ------------------------------
(***************************************************************************)
(* The attendance reminders of one day and one kind                        *)
(* (app/services/attendance_reminders.py), sent by a thread of every       *)
(* worker process (app/main.py).  A run takes a PostgreSQL advisory lock,  *)
(* reads what is due and what was sent, and then mails and records one     *)
(* attempt after the other, with a commit after each.  The lock belongs to *)
(* the connection it was taken on; the commit gives that connection back   *)
(* to the pool of the worker, which web requests share, and the next       *)
(* statement takes the connection that has been idle longest.  A pool that *)
(* has opened more connections than it keeps closes some of them again,    *)
(* with the lock if they hold it.                                          *)
(***************************************************************************)
EXTENDS Naturals, Sequences, FiniteSets

CONSTANTS Workers,
          Employments,
          MaxAttempts,  \* max_attempts
          PoolSize,     \* connections a pool keeps
          MaxOverflow,  \* connections it may open beyond that
          Refused,      \* employments whose address the mail server refuses at first
          MaxFaults,    \* bound: crashes and mails accepted without an answer
          MaxTime       \* intervals from the first attempt to the end of the day

RemindersAssumption ==
    /\ IsFiniteSet(Workers) /\ Refused \subseteq Employments
    /\ MaxAttempts \in Nat \ {0} /\ PoolSize \in Nat \ {0}
    /\ {MaxOverflow, MaxFaults, MaxTime} \subseteq Nat

VARIABLES time,      \* 0 before the first attempt is due, Over after midnight
          missing,   \* the condition of the reminder holds
          refused,   \* addresses that the mail server refuses
          recorded,  \* attendance_reminder_events
          mails,     \* how often an attempt was mailed
          run,       \* the run of each worker
          pool,      \* idle connections of each worker
          web,       \* connections its web requests hold
          holder,    \* connection that holds the advisory lock
          depth,     \* how often it holds it
          faults,
          drops      \* history: closings of a connection with the lock of a running run

day == <<time, missing, refused>>
log == <<recorded, mails>>
conns == <<pool, web, holder, depth>>
vars == <<day, log, run, conns, faults, drops>>

Attempts == Employments \X (1 .. MaxAttempts)
Connections(w) == {w} \X (1 .. PoolSize + MaxOverflow)
Nobody == <<>>
Over == MaxTime + 1
\* at is the attempt that a run is recording or has recorded last.
NoRun == [pc |-> "idle", todo |-> {}, at |-> Nobody, conn |-> Nobody]
Run(w) == [pc : {"idle", "send", "record", "end"}, todo : SUBSET Attempts,
           at : Attempts \cup {Nobody}, conn : Connections(w) \cup {Nobody}]
Idle(w) == {pool[w][n] : n \in DOMAIN pool[w]}

Min2(a, b) == IF a < b THEN a ELSE b

TypeOK ==
    /\ time \in 0 .. Over
    /\ missing \in [Employments -> BOOLEAN] /\ refused \subseteq Refused
    /\ recorded \subseteq Attempts
    /\ mails \in [Attempts -> Nat]
    /\ run = [w \in Workers |-> run[w]] /\ pool = [w \in Workers |-> pool[w]]
    /\ web = [w \in Workers |-> web[w]]
    /\ \A w \in Workers :
          /\ run[w] \in Run(w) /\ (run[w].pc = "idle" => run[w] = NoRun)
          /\ run[w].pc = "record" => run[w].conn # Nobody /\ run[w].at \in run[w].todo
          /\ run[w].pc = "end" => run[w].todo = {}
          /\ pool[w] \in Seq(Connections(w)) /\ web[w] \subseteq Connections(w)
          /\ \A m, n \in DOMAIN pool[w] : pool[w][m] = pool[w][n] => m = n
          /\ Idle(w) \cap web[w] = {} /\ run[w].conn \notin Idle(w) \cup web[w]
    /\ depth \in Nat /\ (depth = 0 <=> holder = Nobody)
    /\ faults \in 0 .. MaxFaults /\ drops \in Nat

Init ==
    /\ time = 0
    /\ missing = [e \in Employments |-> TRUE] /\ refused = Refused
    /\ recorded = {}
    /\ mails = [k \in Attempts |-> 0]
    /\ run = [w \in Workers |-> NoRun]
    /\ pool = [w \in Workers |-> [n \in 1 .. PoolSize |-> <<w, n>>]]
    /\ web = [w \in Workers |-> {}]
    /\ holder = Nobody /\ depth = 0
    /\ faults = 0 /\ drops = 0

----------------------------------------------------------------------------
(* The pool of a worker. *)
InUse(w) == Idle(w) \cup web[w] \cup ({run[w].conn} \ {Nobody})
Fresh(w) == {c \in Connections(w) : c \notin InUse(w)}
\* The connection a checkout may get: the longest idle, or a new one.
Next1(w) == IF pool[w] # <<>> THEN {Head(pool[w])} ELSE Fresh(w)
Taken(w) == IF pool[w] # <<>> THEN Tail(pool[w]) ELSE pool[w]
Kept(p) == Len(p) < PoolSize
Returned(p, c) == IF Kept(p) THEN Append(p, c) ELSE p

\* The lock after connection c is given back while p is idle: closing it
\* releases what it held.
Closes(p, c, h) == ~Kept(p) /\ h = c
LockAfter(p, c, h, d) ==
    IF Closes(p, c, h) THEN holder' = Nobody /\ depth' = 0 ELSE holder' = h /\ depth' = d

\* The run of the worker goes on without the lock.
Dropped(w, c) ==
    drops' = IF Closes(pool[w], c, holder) /\ run[w].pc # "idle" THEN drops + 1 ELSE drops

WebTakes(w) ==
    /\ \E c \in Next1(w) :
          /\ web' = [web EXCEPT ![w] = @ \cup {c}]
          /\ pool' = [pool EXCEPT ![w] = Taken(w)]
    /\ UNCHANGED <<day, log, run, holder, depth, faults, drops>>

WebReturns(w) ==
    /\ \E c \in web[w] :
          /\ web' = [web EXCEPT ![w] = @ \ {c}]
          /\ pool' = [pool EXCEPT ![w] = Returned(@, c)]
          /\ LockAfter(pool[w], c, holder, depth) /\ Dropped(w, c)
    /\ UNCHANGED <<day, log, run, faults>>

----------------------------------------------------------------------------
(* run_attendance_reminders_once *)

\* A count that starts with the second interval.
OneShort(t) == IF t = 0 THEN 0 ELSE Min2(MaxAttempts, t - 1)
_scheduled_attempt_count(t) == Min2(MaxAttempts, t)

\* The attempts of an employment one after the other; the latest first.
Reversed(m, n) == m >= n
InTurn(m, n) == m <= n

\* The attempt a run turns to: the next one of the employment it is at, or
\* the first one of any other, for the query has no ORDER BY.
Lowest(r) == {k \in r.todo : \A j \in r.todo : j[1] = k[1] => InTurn(k[2], j[2])}
Begun(r) == {k \in Lowest(r) : r.at # Nobody /\ k[1] = r.at[1]}
Turn(r) == IF Begun(r) # {} THEN Begun(r) ELSE Lowest(r)

\* Only the plan of today counts: after midnight nothing of this day is due.
DueNow == {k \in Attempts : time # Over /\ missing[k[1]] /\ k[2] <= _scheduled_attempt_count(time)}

\* A run that looks at the conditions only.
AnyDue == DueNow
Due == DueNow \ recorded

\* pg_try_advisory_lock: free, or held by this very connection.
_try_advisory_lock(w) ==
    /\ run[w].pc = "idle"
    /\ \E c \in Next1(w) :
          /\ holder \in {Nobody, c}
          /\ holder' = c /\ depth' = depth + 1
          /\ run' = [run EXCEPT ![w] =
                [pc |-> IF Due = {} THEN "end" ELSE "send", todo |-> Due, at |-> Nobody, conn |-> c]]
    /\ pool' = [pool EXCEPT ![w] = Taken(w)]
    /\ UNCHANGED <<day, log, web, faults, drops>>

\* Held by another connection: the run ends; its unlock does nothing.
LockTaken(w) ==
    /\ run[w].pc = "idle"
    /\ \E c \in Next1(w) :
          /\ holder \notin {Nobody, c}
          /\ pool' = [pool EXCEPT ![w] = Returned(Taken(w), c)]
    /\ UNCHANGED <<day, log, run, web, holder, depth, faults, drops>>

\* The first access to the expired user takes a connection.
Connected(w, c) ==
    IF run[w].conn # Nobody THEN c = run[w].conn /\ UNCHANGED pool
    ELSE c \in Next1(w) /\ pool' = [pool EXCEPT ![w] = Taken(w)]

Mailed(k) == mails' = [mails EXCEPT ![k] = @ + 1]

Send(w) ==
    /\ run[w].pc = "send"
    /\ \E k \in Turn(run[w]), c \in Connections(w) :
          /\ k[1] \notin refused
          /\ Mailed(k)
          /\ Connected(w, c)
          /\ run' = [run EXCEPT ![w] = [@ EXCEPT !.pc = "record", !.at = k, !.conn = c]]
    /\ UNCHANGED <<day, recorded, web, holder, depth, faults, drops>>

\* The server refuses the address, or the answer to an accepted mail is
\* lost.  The exception ends the run, on the connection it holds.
SendFails(w) ==
    /\ run[w].pc = "send"
    /\ \E k \in Turn(run[w]), c \in Connections(w) :
          /\ \/ k[1] \in refused /\ UNCHANGED <<mails, faults>>
             \/ k[1] \notin refused /\ faults < MaxFaults /\ faults' = faults + 1 /\ Mailed(k)
          /\ Connected(w, c)
          /\ run' = [run EXCEPT ![w] = [NoRun EXCEPT !.pc = "end", !.conn = c]]
    /\ UNCHANGED <<day, recorded, web, holder, depth, drops>>

\* No connection within the timeout: the exception ends the run, and an
\* unlock that gets none leaves the lock where it is.
PoolTimeout(w) ==
    /\ run[w].pc \in {"send", "end"} /\ run[w].conn = Nobody /\ Next1(w) = {}
    /\ run' = [run EXCEPT ![w] = IF @.pc = "end" THEN NoRun ELSE [NoRun EXCEPT !.pc = "end"]]
    /\ UNCHANGED <<day, log, conns, faults, drops>>

\* Insert and commit.
_record_sent(w) ==
    /\ run[w].pc = "record" /\ run[w].at \notin recorded
    /\ recorded' = recorded \cup {run[w].at}
    /\ LET rest == run[w].todo \ {run[w].at}
       IN  run' = [run EXCEPT ![w] = [pc |-> IF rest = {} THEN "end" ELSE "send",
                                      todo |-> rest, at |-> @.at, conn |-> Nobody]]
    /\ pool' = [pool EXCEPT ![w] = Returned(@, run[w].conn)]
    /\ LockAfter(pool[w], run[w].conn, holder, depth) /\ Dropped(w, run[w].conn)
    /\ UNCHANGED <<day, mails, web, faults>>

\* The unique key is hit.  The failed flush leaves the session unusable, so
\* the unlock fails as well and the connection goes back with what it holds.
RecordFails(w) ==
    /\ run[w].pc = "record" /\ run[w].at \in recorded
    /\ run' = [run EXCEPT ![w] = NoRun]
    /\ pool' = [pool EXCEPT ![w] = Returned(@, run[w].conn)]
    /\ LockAfter(pool[w], run[w].conn, holder, depth)
    /\ UNCHANGED <<day, log, web, faults, drops>>

\* The finally clause: unlock on the connection at hand, commit, close.
_release_advisory_lock(w) ==
    /\ run[w].pc = "end"
    /\ \E c \in IF run[w].conn # Nobody THEN {run[w].conn} ELSE Next1(w) :
          LET p == IF run[w].conn # Nobody THEN pool[w] ELSE Taken(w)
              d == IF holder = c THEN depth - 1 ELSE depth
          IN  /\ pool' = [pool EXCEPT ![w] = Returned(p, c)]
              /\ LockAfter(p, c, IF d = 0 THEN Nobody ELSE holder, d)
    /\ run' = [run EXCEPT ![w] = NoRun]
    /\ UNCHANGED <<day, log, web, faults, drops>>

----------------------------------------------------------------------------
\* The process ends anywhere and is started again; the server closes its
\* connections and releases their locks.
Crash(w) ==
    /\ faults < MaxFaults /\ faults' = faults + 1
    /\ run' = [run EXCEPT ![w] = NoRun]
    /\ pool' = [pool EXCEPT ![w] = [n \in 1 .. PoolSize |-> <<w, n>>]]
    /\ web' = [web EXCEPT ![w] = {}]
    /\ IF holder \in Connections(w) THEN holder' = Nobody /\ depth' = 0
       ELSE UNCHANGED <<holder, depth>>
    /\ UNCHANGED <<day, log, drops>>

\* The employee writes the missing time down.
Completes(e) ==
    /\ missing[e]
    /\ missing' = [missing EXCEPT ![e] = FALSE]
    /\ UNCHANGED <<time, refused, log, run, conns, faults, drops>>

\* The address is corrected.
Corrected(e) ==
    /\ e \in refused
    /\ refused' = refused \ {e}
    /\ UNCHANGED <<time, missing, log, run, conns, faults, drops>>

Tick ==
    /\ time < MaxTime /\ time' = time + 1
    /\ UNCHANGED <<missing, refused, log, run, conns, faults, drops>>

\* The day ends; a run that has begun goes on with what it has read.
Midnight ==
    /\ time < Over /\ time' = Over
    /\ UNCHANGED <<missing, refused, log, run, conns, faults, drops>>

WorkerStep(w) ==
    \/ Send(w) \/ SendFails(w) \/ PoolTimeout(w)
    \/ _record_sent(w) \/ RecordFails(w) \/ _release_advisory_lock(w)

Next ==
    \/ \E w \in Workers : \/ _try_advisory_lock(w) \/ LockTaken(w) \/ WorkerStep(w)
                          \/ Crash(w) \/ WebTakes(w) \/ WebReturns(w)
    \/ \E e \in Employments : Completes(e) \/ Corrected(e)
    \/ Tick \/ Midnight

\* The thread of a worker tries every minute and a started run goes on; web
\* requests give their connections back.  Nothing keeps requests from coming.
Fairness ==
    /\ \A w \in Workers : /\ WF_vars(_try_advisory_lock(w) \/ LockTaken(w))
                          /\ WF_vars(WorkerStep(w)) /\ WF_vars(WebReturns(w))
    /\ WF_vars(Tick)

Spec == Init /\ [][Next]_vars /\ Fairness

----------------------------------------------------------------------------
\* An attempt is mailed once, and once more at most for every crash, every lost
\* answer and every run that lost its lock because the pool closed the
\* connection: while the lock's connection is merely given back in the middle
\* of a run, no other worker mails it.  docs/SSOT_CURRENT.md:562 has one mail
\* per attempt whatever the pool does.
MailsBounded == \A k \in Attempts : mails[k] <= 1 + faults + drops

\* The attempts of a series are mailed in their order and none is left out,
\* whatever crashes, lost answers and overlapping runs of other workers come
\* in between.
InOrder == \A k \in Attempts : k[2] > 1 /\ mails[k] > 0 => mails[<<k[1], k[2] - 1>>] > 0

\* Every attempt that is due is recorded as sent in the end, or the employee
\* has written the time down, or the day has ended: a crash, a lost answer or
\* a lock left on an idle connection only delays it, however the runs order
\* the employments.  Two things of the outside are presupposed: web requests
\* leave the pools alone from some time on (they can keep the connection with
\* a left-over lock out of every run's reach), and every refused address is
\* corrected (until then it can stop every run before the others' turn).
Quiet == \A w \in Workers : web[w] = {}
DueIsSent ==
    <>[]Quiet /\ <>(refused = {}) =>
        \A k \in Attempts : (k[2] <= time /\ missing[k[1]])
                                ~> (k \in recorded \/ ~missing[k[1]] \/ time = Over)

----------------------------------------------------------------------------
\* A run that goes on without the lock of its worker has lost it with a connection.
Running == {w \in Workers : run[w].pc # "idle"}
Detached == {w \in Running : holder \notin Connections(w)}
DropsCounted == Cardinality(Detached) <= drops

Recording(k) == {w \in Workers : run[w].pc = "record" /\ run[w].at = k}
Waiting(k) == {w \in Workers : k \in run[w].todo} \ Recording(k)
Before1(k) == <<k[1], k[2] - 1>>

\* No attempt of a run lacks the one before.
TodoOpen ==
    \A w \in Workers : \A k \in run[w].todo : k[2] > 1 => Before1(k) \in recorded \cup run[w].todo

\* Every mail of an attempt that is not recorded is about to be, or was lost with a
\* fault; a run that still has the attempt before it will add one.
MailsCounted ==
    \A k \in Attempts :
        /\ k \notin recorded => mails[k] <= faults + Cardinality(Recording(k))
        /\ mails[k] + Cardinality(Waiting(k)) <= 1 + faults + drops
        /\ k \in recorded \/ Recording(k) # {} => mails[k] > 0

IInv == TypeOK /\ DropsCounted /\ TodoOpen /\ MailsCounted /\ InOrder
=============================================================================
