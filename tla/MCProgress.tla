----------------------------- MODULE MCProgress -----------------------------
(***************************************************************************)
(* What must happen in the end, side by side: locks of accounts run out,   *)
(* due reminders are sent, the monthly job and the requests of CML end,    *)
(* pages come to an end, and cells can be edited again.  A behaviour is    *)
(* one of the model in part and its fairness is that of this model; the    *)
(* others stay where they are.                                             *)
(***************************************************************************)
EXTENDS Naturals, TLC

VARIABLES
  part,
  principal, session, pc, recent, crowded, complete,
  clock, missing, refused, recorded, mails, run, pool, web, holder, depth, faults, drops,
  emp, lock, plan, ran, writer, admin, job,
  rows, nextId, scope, cursor, delivered, done, touched, moved,
  users, nextUser, receipts, held, request, origin,
  server, cache, draft, focus, failed, write, reading, late, confirmed, unread, edits

lockoutVars == <<principal, session, pc, recent, crowded, complete>>
reminderVars ==
  <<clock, missing, refused, recorded, mails, run, pool, web, holder, depth, faults, drops>>
lockVars == <<emp, lock, plan, ran, writer, admin, job>>
pageVars == <<rows, nextId, scope, cursor, delivered, done, touched, moved>>
profileVars == <<users, nextUser, receipts, held, request, origin>>
cellVars == <<server, cache, draft, focus, failed, write, reading, late, confirmed, unread, edits>>
vars == <<part, lockoutVars, reminderVars, lockVars, pageVars, profileVars, cellVars>>

Portal == INSTANCE Lockout WITH
  Requests <- {"r1", "r2"}, Threshold <- 2, Window <- 1, Duration <- 2, Rereads <- TRUE,
  MaxFailed <- 3, MaxId <- 2, RecentCap <- 0, rows <- principal
Administrator == INSTANCE Lockout WITH
  Requests <- {"r1", "r2"}, Threshold <- 2, Window <- 1, Duration <- 2, Rereads <- FALSE,
  MaxFailed <- 3, MaxId <- 2, RecentCap <- 0, rows <- principal
Reminding == INSTANCE Reminders WITH
  Workers <- {"w1", "w2"}, Employments <- {1, 2}, MaxAttempts <- 1, PoolSize <- 1,
  MaxOverflow <- 1, Refused <- {2}, MaxFaults <- 1, MaxTime <- 1, time <- clock
Locking == INSTANCE AutoLock WITH
  Employments <- {1, 2}, Writers <- {"w1"}, Jobs <- {"timer"}, MaxWrites <- 1
Pages == INSTANCE Pagination WITH
  MaxId <- 3, Times <- {1, 2}, Window <- {1}, Employments <- {"e1"}, Limit <- 1,
  Patches <- TRUE
Profiles == INSTANCE CmlProfiles WITH
  Workers <- {"w1", "w2"}, Operations <- {"o1", "o2"}, Persons <- {"p1", "p2"},
  Emails <- {"m1"}, Rank <- "o1" :> 1 @@ "p1" :> 2 @@ "p2" :> 3 @@ "o2" :> 4,
  MaxUsers <- 3, nextId <- nextUser
Cells == INSTANCE PlanCell WITH
  Days <- {"d1", "d2"}, MaxTime <- 1, MaxEdits <- 2

ASSUME
  /\ Portal!LockoutAssumption /\ Administrator!LockoutAssumption
  /\ Reminding!RemindersAssumption
  /\ Locking!AutoLockAssumption
  /\ Pages!PageAssumption
  /\ Profiles!RankAssumption
  /\ Cells!BoundsAssumption

Empty == [f \in Cells!Fields |-> 0]

\* The plan starts empty and both employments valid.
Init ==
  /\ part \in {"portal", "administrator", "reminding", "locking", "pages", "profiles", "cells"}
  /\ Portal!Init
  /\ Reminding!Init
  /\ Locking!Init /\ emp = [e \in {1, 2} |-> "valid"]
  /\ Pages!Init /\ (part # "pages" => nextId = 1 /\ scope = {})
  /\ Profiles!Init
  /\ Cells!Init /\ server = [d \in {"d1", "d2"} |-> Empty]

PortalStep ==
  /\ part = "portal" /\ Portal!Next
  /\ UNCHANGED <<part, reminderVars, lockVars, pageVars, profileVars, cellVars>>
AdministratorStep ==
  /\ part = "administrator" /\ Administrator!Next
  /\ UNCHANGED <<part, reminderVars, lockVars, pageVars, profileVars, cellVars>>
\* Web requests come to one worker only.
RemindingStep ==
  /\ part = "reminding" /\ Reminding!Next /\ web'["w2"] = {}
  /\ UNCHANGED <<part, lockoutVars, lockVars, pageVars, profileVars, cellVars>>
LockingStep ==
  /\ part = "locking" /\ Locking!Next
  /\ UNCHANGED <<part, lockoutVars, reminderVars, pageVars, profileVars, cellVars>>
PagesStep ==
  /\ part = "pages" /\ Pages!Next
  /\ UNCHANGED <<part, lockoutVars, reminderVars, lockVars, profileVars, cellVars>>
ProfilesStep ==
  /\ part = "profiles" /\ Profiles!Next
  /\ UNCHANGED <<part, lockoutVars, reminderVars, lockVars, pageVars, cellVars>>
CellsStep ==
  /\ part = "cells" /\ Cells!Next
  /\ UNCHANGED <<part, lockoutVars, reminderVars, lockVars, pageVars, profileVars>>

Next ==
  \/ PortalStep \/ AdministratorStep \/ RemindingStep \/ LockingStep
  \/ PagesStep \/ ProfilesStep \/ CellsStep

\* The fairness of each model, for the behaviours that are in it.
Fairness ==
  /\ WF_lockoutVars(part = "portal" /\ Portal!Tick)
  /\ WF_lockoutVars(part = "administrator" /\ Administrator!Tick)
  /\ \A w \in {"w1", "w2"} :
       /\ WF_reminderVars(part = "reminding"
                            /\ (Reminding!_try_advisory_lock(w) \/ Reminding!LockTaken(w)))
       /\ WF_reminderVars(part = "reminding" /\ Reminding!WorkerStep(w))
       /\ WF_reminderVars(part = "reminding" /\ Reminding!WebReturns(w))
  /\ WF_reminderVars(part = "reminding" /\ Reminding!Tick)
  /\ WF_lockVars(part = "locking" /\ Locking!WriterStep("w1"))
  /\ SF_lockVars(part = "locking" /\ Locking!LockEmployment)
  /\ WF_lockVars(part = "locking" /\ Locking!admin_set_locks)
  /\ SF_lockVars(part = "locking" /\ Locking!JobStep("timer"))
  /\ WF_lockVars(part = "locking" /\ Locking!DeadlockVictim("timer"))
  /\ WF_pageVars(part = "pages" /\ Pages!_page)
  /\ \A w \in {"w1", "w2"} : /\ WF_profileVars(part = "profiles" /\ Profiles!Step(w))
                             /\ SF_profileVars(part = "profiles" /\ Profiles!Lock(w))
  /\ WF_cellVars(part = "cells" /\ Cells!Ends)

Spec == Init /\ [][Next]_vars /\ Fairness

-----------------------------------------------------------------------------
\* The lock of an account ends although people keep trying, for portal users and
\* for the administrator (lockout.py).
LockEnds == part \in {"portal", "administrator"} => Portal!LockEnds

\* Once web requests leave the pools alone and no address is refused any more, an
\* attempt that is due is sent in the end unless the time is written down or the day
\* ends first (attendance_reminders.py).
DueIsSent == part = "reminding" => Reminding!DueIsSent

\* The monthly job ends, also through a deadlock (shift_plan_auto_lock.py).
JobEnds == part = "locking" => Locking!JobEnds

\* The walk over the pages comes to its last page (integration.py).
WalkEnds == part = "pages" => Pages!WalkEnds

\* Every request of CML is answered: the order of the two locks excludes a deadlock
\* (cml_profiles.py).
Answered == part = "profiles" => Profiles!Answered

\* Whatever fails, the cells of a day can be edited again (usePendingPlanWrites.ts).
EditableAgain == part = "cells" => Cells!EditableAgain
=============================================================================
