----------------------------- MODULE PlanGuard -----------------------------
(***************************************************************************)
(* What the monthly lock of the shift plan promises, for one month: a plan *)
(* is written only while its month is open, locks are set and removed for  *)
(* several employments at once, and the automatic lock takes place at most *)
(* once.  Every operation is one step, as in TimeRecords; AutoLock shows   *)
(* that the interleaved database transactions of the code amount to that.  *)
(***************************************************************************)
EXTENDS Naturals

CONSTANTS Employments, MaxWrites

VARIABLES emp,     \* employment -> "none", "valid", "ended"
          locked,  \* employments whose plan of the month is locked
          plan,    \* employment -> number of writes to the plan
          ran      \* shift_plan_auto_lock_runs has a row

vars == <<emp, locked, plan, ran>>

Init ==
    /\ emp \in [Employments -> {"none", "valid"}]
    /\ locked = {}
    /\ plan = [e \in Employments |-> 0]
    /\ ran = FALSE

Write(e) ==
    /\ emp[e] = "valid" /\ e \notin locked
    /\ plan' = [plan EXCEPT ![e] = @ + 1]
    /\ UNCHANGED <<emp, locked, ran>>

SetLocks(S, lock) ==
    /\ \A e \in S : emp[e] = "valid"
    /\ locked' = IF lock THEN locked \cup S ELSE locked \ S
    /\ UNCHANGED <<emp, plan, ran>>

LockMonth(S) ==
    /\ ~ran /\ ran' = TRUE
    /\ \A e \in S : emp[e] # "none"
    /\ locked' = locked \cup S
    /\ UNCHANGED <<emp, plan>>

\* Creation, deletion or a new period.
SetEmployment(e, s) ==
    /\ emp' = [emp EXCEPT ![e] = s]
    /\ locked' = IF s = "valid" THEN locked ELSE locked \ {e}
    /\ UNCHANGED <<plan, ran>>

Next ==
    \/ \E e \in Employments : Write(e)
    \/ \E S \in SUBSET Employments : LockMonth(S) \/ \E lock \in BOOLEAN : SetLocks(S, lock)
    \/ \E e \in Employments, s \in {"none", "valid", "ended"} : SetEmployment(e, s)

Spec == Init /\ [][Next]_vars
=============================================================================
