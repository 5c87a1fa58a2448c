------------------------------ MODULE AutoLock ------------------------------
(***************************************************************************)
(* The locks of the shift plan for one month as PostgreSQL transactions    *)
(* at READ COMMITTED: writers of the plan and the administrator lock the   *)
(* employment rows FOR UPDATE, while the monthly job                       *)
(* (app/services/shift_plan_auto_lock.py) reads without any lock and holds *)
(* employment rows only through the foreign keys of the rows it inserts    *)
(* (FOR KEY SHARE, which FOR UPDATE excludes).                             *)
(***************************************************************************)
EXTENDS Naturals, FiniteSets, FiniteSetsExt

CONSTANTS Employments,  \* numbers, in the order of their ids
          Writers,      \* requests that write a plan
          Jobs,         \* executions of the job: the timer and by hand
          MaxWrites     \* bound: writes to one plan

AutoLockAssumption == Employments \subseteq Nat /\ IsFiniteSet(Employments) /\ MaxWrites \in Nat

VARIABLES emp,     \* employment -> "none", "valid", "ended"
          lock,    \* employment -> who locked the plan of the month
          plan,    \* employment -> number of writes to the plan
          ran,     \* shift_plan_auto_lock_runs has a row for the month
          writer,  \* what each writer does, and for which employment
          admin,   \* the request of the administrator
          job      \* what each execution of the job has read and written

tables == <<emp, lock, plan, ran>>
vars == <<tables, writer, admin, job>>

Idle == [pc |-> "idle"]
NoRequest == [pc |-> "idle", ids |-> {}, held |-> {}, locked |-> FALSE]
NoJob == [pc |-> "idle", active |-> {}, rows |-> {}, stale |-> {}, inserted |-> {}]

TypeOK ==
    /\ emp \in [Employments -> {"none", "valid", "ended"}]
    /\ lock \in [Employments -> {"open", "admin", "auto"}]
    /\ \A e \in Employments : emp[e] = "none" => lock[e] = "open"
    /\ plan \in [Employments -> 0 .. MaxWrites]
    /\ ran \in BOOLEAN
    /\ writer \in [Writers -> {Idle} \cup [pc : {"locked", "checked"}, e : Employments]]
    /\ admin \in [pc : {"idle", "locking"}, ids : SUBSET Employments,
                  held : SUBSET Employments, locked : BOOLEAN]
    /\ admin.held \subseteq admin.ids
    /\ job \in [Jobs -> [pc : {"idle", "active", "rows", "flushing", "ended"},
                         active : SUBSET Employments, rows : SUBSET Employments,
                         stale : SUBSET Employments, inserted : SUBSET Employments]]

Init ==
    /\ emp \in [Employments -> {"none", "valid"}]
    /\ lock = [e \in Employments |-> "open"]
    /\ plan = [e \in Employments |-> 0]
    /\ ran = FALSE
    /\ writer = [w \in Writers |-> Idle]
    /\ admin = NoRequest
    /\ job = [j \in Jobs |-> NoJob]

----------------------------------------------------------------------------
(* Row locks. *)
ForUpdate(e) == e \in admin.held \/ \E w \in Writers : writer[w] # Idle /\ writer[w].e = e
ForKeyShare(e) == \E j \in Jobs : e \in job[j].inserted
LockRowHeld(e) == \E j \in Jobs : job[j].pc = "flushing" /\ e \in job[j].rows
Free(e) == ~ForUpdate(e) /\ ~ForKeyShare(e)

\* Jobs that have read the lock rows of S find them gone.
Deleted(S) == [j \in Jobs |-> [job[j] EXCEPT !.stale = @ \cup (S \cap job[j].rows)]]

----------------------------------------------------------------------------
(* Writing a plan. *)
lock_employment_for_time_mutation(w, e) ==
    /\ writer[w] = Idle
    /\ emp[e] # "none" /\ Free(e)
    /\ writer' = [writer EXCEPT ![w] = [pc |-> "locked", e |-> e]]
    /\ UNCHANGED <<tables, admin, job>>

MonthClosed(e) == emp[e] # "valid" \/ lock[e] # "open"

\* A refusal that leaves its transaction open.
KeepsRow(w) ==
    /\ writer[w].pc = "locked" /\ ~MonthClosed(writer[w].e)
    /\ writer' = [writer EXCEPT ![w].pc = "checked"]
    /\ UNCHANGED <<tables, admin, job>>
ensure_month_unlocked(w) ==
    /\ writer[w].pc = "locked"
    /\ writer' = [writer EXCEPT ![w] = IF MonthClosed(@.e) THEN Idle ELSE [@ EXCEPT !.pc = "checked"]]
    /\ UNCHANGED <<tables, admin, job>>

CommitPlan(w) ==
    /\ writer[w].pc = "checked"
    /\ plan[writer[w].e] < MaxWrites
    /\ plan' = [plan EXCEPT ![writer[w].e] = @ + 1]
    /\ writer' = [writer EXCEPT ![w] = Idle]
    /\ UNCHANGED <<emp, lock, ran, admin, job>>

\* Refused for another reason, or rolled back.
AbandonPlan(w) ==
    /\ writer[w].pc = "checked"
    /\ writer' = [writer EXCEPT ![w] = Idle]
    /\ UNCHANGED <<tables, admin, job>>

----------------------------------------------------------------------------
(* admin_set_locks *)
BeginSetLocks(S, locked) ==
    /\ admin.pc = "idle"
    /\ S # {} /\ \A e \in S : emp[e] # "none"
    /\ admin' = [pc |-> "locking", ids |-> S, held |-> {}, locked |-> locked]
    /\ UNCHANGED <<tables, writer, job>>

\* Row by row, by id; an employment that is gone ends the request.
LockEmployment ==
    LET e == Min(admin.ids \ admin.held)
    IN  /\ admin.pc = "locking" /\ admin.ids # admin.held
        /\ \/ emp[e] = "none" /\ admin' = NoRequest
           \/ /\ emp[e] # "none" /\ Free(e)
              /\ admin' = [admin EXCEPT !.held = @ \cup {e}]
        /\ UNCHANGED <<tables, writer, job>>

Targets == {e \in admin.ids : emp[e] = "valid"}

\* Locks that are written before the employments are locked.
WithoutLocking ==
    /\ admin.pc = "locking"
    /\ \A e \in Targets : ~LockRowHeld(e)
    /\ lock' = [e \in Employments |->
          IF e \notin Targets THEN lock[e] ELSE IF admin.locked THEN "admin" ELSE "open"]
    /\ job' = IF admin.locked THEN job ELSE Deleted({e \in Targets : lock[e] # "open"})
    /\ admin' = NoRequest
    /\ UNCHANGED <<emp, plan, ran, writer>>
\* With every row held; the rows of the job in its flush must be waited for.
admin_set_locks ==
    /\ admin.pc = "locking" /\ admin.ids = admin.held
    /\ \A e \in Targets : ~LockRowHeld(e)
    /\ lock' = [e \in Employments |->
          IF e \notin Targets THEN lock[e] ELSE IF admin.locked THEN "admin" ELSE "open"]
    /\ job' = IF admin.locked THEN job ELSE Deleted({e \in Targets : lock[e] # "open"})
    /\ admin' = NoRequest
    /\ UNCHANGED <<emp, plan, ran, writer>>

\* PostgreSQL ends a transaction of a circle of waiting ones: here the
\* administrator and a job that wait for each other.
WaitsForJob(j) ==
    admin.ids = admin.held /\ \E e \in Targets : job[j].pc = "flushing" /\ e \in job[j].rows

----------------------------------------------------------------------------
(* auto_lock_current_shift_plan_month *)
ReadEmployments(j) ==
    /\ job[j].pc = "idle"
    /\ job' = [job EXCEPT ![j] =
          IF ran THEN [@ EXCEPT !.pc = "ended"]
          ELSE [@ EXCEPT !.pc = "active", !.active = {e \in Employments : emp[e] = "valid"}]]
    /\ UNCHANGED <<tables, writer, admin>>

ReadLocks(j) ==
    /\ job[j].pc = "active"
    /\ job' = [job EXCEPT ![j].pc = "rows", ![j].rows = {e \in job[j].active : lock[e] # "open"}]
    /\ UNCHANGED <<tables, writer, admin>>

JobFails(j) == job' = [job EXCEPT ![j] = [NoJob EXCEPT !.pc = "ended"]]

\* The flush: existing rows are updated, and one of them may be gone;
UpdateRows(j) ==
    /\ job[j].pc = "rows"
    /\ \A e \in job[j].rows : \A i \in Jobs : job[i].pc = "flushing" => e \notin job[i].rows
    /\ IF job[j].stale # {} THEN JobFails(j)
       ELSE job' = [job EXCEPT ![j].pc = "flushing"]
    /\ UNCHANGED <<tables, writer, admin>>

ToInsert(j) == job[j].active \ (job[j].rows \cup job[j].inserted)

\* then the missing ones are inserted, each of which waits for the employment
\* row and for an insertion of the same row, and fails on a foreign key or on
\* the unique key.
set_month_lock_state_bulk(j) ==
    LET e == Min(ToInsert(j))
    IN  /\ job[j].pc = "flushing" /\ ToInsert(j) # {}
        /\ ~ForUpdate(e) /\ ~ForKeyShare(e)
        /\ IF emp[e] = "none" \/ lock[e] # "open" THEN JobFails(j)
           ELSE job' = [job EXCEPT ![j].inserted = @ \cup {e}]
        /\ UNCHANGED <<tables, writer, admin>>

\* The run is recorded with the locks; its key is unique.
CommitRun(j) ==
    /\ job[j].pc = "flushing" /\ ToInsert(j) = {}
    /\ JobFails(j)
    /\ ran' = TRUE
    /\ lock' = IF ran THEN lock
               ELSE [e \in Employments |-> IF e \in job[j].active THEN "auto" ELSE lock[e]]
    /\ UNCHANGED <<emp, plan, writer, admin>>

JobWaits(j) ==
    job[j].pc = "flushing" /\ ToInsert(j) # {} /\ Min(ToInsert(j)) \in admin.held

DeadlockVictim(j) ==
    /\ WaitsForJob(j) /\ JobWaits(j)
    /\ \/ admin' = NoRequest /\ UNCHANGED job
       \/ JobFails(j) /\ UNCHANGED admin
    /\ UNCHANGED <<tables, writer>>

----------------------------------------------------------------------------
\* create_employment, update_employment and delete_employment in one step
\* each: they hold the employment row and wait for its lock row.
SetEmployment(e, s) ==
    /\ s # emp[e] /\ Free(e) /\ ~LockRowHeld(e)
    /\ s = "ended" => emp[e] = "valid"
    /\ emp' = [emp EXCEPT ![e] = s]
    /\ IF s = "valid" THEN UNCHANGED <<lock, job>>
       ELSE lock' = [lock EXCEPT ![e] = "open"] /\ job' = Deleted({e})
    /\ UNCHANGED <<plan, ran, writer, admin>>

JobStep(j) ==
    \/ ReadEmployments(j) \/ ReadLocks(j) \/ UpdateRows(j)
    \/ set_month_lock_state_bulk(j) \/ CommitRun(j)

WriterStep(w) == ensure_month_unlocked(w) \/ CommitPlan(w) \/ AbandonPlan(w)

Next ==
    \/ \E w \in Writers :
          \/ \E e \in Employments : lock_employment_for_time_mutation(w, e)
          \/ WriterStep(w)
    \/ \E S \in SUBSET Employments, locked \in BOOLEAN : BeginSetLocks(S, locked)
    \/ LockEmployment \/ admin_set_locks
    \/ \E j \in Jobs : JobStep(j) \/ DeadlockVictim(j)
    \/ \E e \in Employments, s \in {"none", "valid", "ended"} : SetEmployment(e, s)

\* Requests run to their end.  PostgreSQL grants row locks in the order they
\* were asked for, so a job that waits is not overtaken for ever.
Fairness ==
    /\ \A w \in Writers : WF_vars(WriterStep(w))
    /\ SF_vars(LockEmployment) /\ WF_vars(admin_set_locks)
    /\ \A j \in Jobs : SF_vars(JobStep(j)) /\ WF_vars(DeadlockVictim(j))

Spec == Init /\ [][Next]_vars /\ Fairness

----------------------------------------------------------------------------
Guard == INSTANCE PlanGuard WITH locked <- {e \in Employments : lock[e] # "open"}

\* The transactions amount to atomic operations: no plan is written in a locked
\* month by a request that had found it open, locks are set for all targets at
\* once, and a second execution of the job never locks again what has been
\* unlocked after the first.
RefinesPlanGuard == Guard!Spec

\* The job comes to an end, also when it meets the administrator's request on
\* the same rows in the opposite order.
JobEnds == \A j \in Jobs : job[j].pc # "idle" ~> job[j].pc = "ended"

----------------------------------------------------------------------------
(* Why the transactions refine the guard.  A row locked FOR UPDATE has one *)
(* owner, and none while a job holds it through a foreign key.             *)
RowLocksExclude ==
    /\ \A w \in Writers : writer[w] # Idle => writer[w].e \notin admin.held
    /\ \A j \in Jobs : \A e \in job[j].inserted : ~ForUpdate(e)

\* What a writer has checked stays true while it holds the row.
ChecksHold ==
    \A w \in Writers : writer[w].pc = "checked" =>
        emp[writer[w].e] = "valid" /\ lock[writer[w].e] = "open"

\* What a job is about to commit for is still there: the rows it inserts have
\* their employment, the rows it has read are still locked unless they are
\* marked as gone, and none is gone once the flush has updated them.
JobsReadHolds ==
    \A j \in Jobs :
        /\ \A e \in job[j].inserted : emp[e] # "none"
        /\ job[j].pc \notin {"rows", "flushing"} => job[j].rows = {}
        /\ \A e \in job[j].rows \ job[j].stale : lock[e] # "open"
        /\ job[j].stale \subseteq job[j].rows
        /\ job[j].pc = "flushing" => job[j].stale = {}

IInv == TypeOK /\ RowLocksExclude /\ ChecksHold /\ JobsReadHolds
=============================================================================
