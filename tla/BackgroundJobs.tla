--------------------------- MODULE BackgroundJobs ---------------------------
(***************************************************************************)
(* The background jobs and the spread-out deletions side by side: the      *)
(* monthly lock among its concurrent requests, the reminders of the        *)
(* workers, and employment groups.  The models share no state; a behaviour *)
(* is one of the model in part, and the others stay where they are.        *)
(***************************************************************************)
EXTENDS Naturals

CONSTANTS
  Employments,
  Writers, Jobs, MaxWrites,
  Workers, MaxAttempts, PoolSize, MaxOverflow, Refused, MaxFaults, MaxTime,
  Emp, Group, User, Owner

VARIABLES
  part,
  emp, lock, plan, ran, writer, admin, job,
  time, missing, refused, recorded, mails, run, pool, web, holder, depth, faults, drops,
  emps, users, row, members, cascaded, phase, todo, removal

lockVars == <<emp, lock, plan, ran, writer, admin, job>>
reminderVars ==
  <<time, missing, refused, recorded, mails, run, pool, web, holder, depth, faults, drops>>
groupVars == <<emps, users, row, members, cascaded, phase, todo, removal>>
vars == <<part, lockVars, reminderVars, groupVars>>

Locking == INSTANCE AutoLock
Reminding == INSTANCE Reminders
Groups == INSTANCE EmploymentGroups WITH plan <- removal

ASSUME LockingAssumption == Locking!AutoLockAssumption
ASSUME RemindingAssumption == Reminding!RemindersAssumption
ASSUME GroupsAssumption == Groups!OwnerAssumption

Init ==
  /\ part \in {"locking", "reminding", "groups"}
  /\ Locking!Init
  /\ Reminding!Init
  /\ Groups!Init

LockingStep == part = "locking" /\ Locking!Next /\ UNCHANGED <<part, reminderVars, groupVars>>
RemindingStep == part = "reminding" /\ Reminding!Next /\ UNCHANGED <<part, lockVars, groupVars>>
GroupsStep == part = "groups" /\ Groups!Next /\ UNCHANGED <<part, lockVars, reminderVars>>

Next == LockingStep \/ RemindingStep \/ GroupsStep

Spec == Init /\ [][Next]_vars

-----------------------------------------------------------------------------
\* The transactions of writers, the administrator and the job amount to the atomic
\* operations of PlanGuard.
RefinesPlanGuard == Locking!RefinesPlanGuard

\* A reminder is mailed once, and once more at most for every fault and every run that
\* lost its lock with a closed connection; the attempts of a series are mailed in their
\* order (the advisory lock of attendance_reminders.py).
OnceInOrder == Reminding!MailsBounded /\ Reminding!InOrder

\* A deletion never misses a membership (remove_groups_for_employment).
NoLateMembership == Groups!NoLateMembership
\* Concurrent removals never leave a group with one member (employment_groups.py).
ShrinksToTwo == Groups!ShrinksToTwo
=============================================================================
