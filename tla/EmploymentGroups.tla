-------------------------- MODULE EmploymentGroups --------------------------
(***************************************************************************)
(* Groups of employments that share a shift plan: the services of          *)
(* employment_groups.py, the handlers that commit them, delete_employment  *)
(* and delete_user.                                                        *)
(*                                                                         *)
(* Every service locks the group row first, so a request about one group   *)
(* is one step that waits while another transaction holds the row.         *)
(* delete_employment is spread out: it locks the employment, reads which   *)
(* groups hold it, locks and shrinks them one by one and commits.          *)
(* Inserting a member takes a key-share lock on the employment, so it      *)
(* waits for a deletion in progress.  delete_user deletes employments in   *)
(* bulk and leaves membership rows to ON DELETE CASCADE.                   *)
(*                                                                         *)
(* Names of groups (rename_group, the unique index) are left out: no       *)
(* membership depends on them.                                             *)
(***************************************************************************)
EXTENDS Integers, FiniteSets

CONSTANTS
  Emp,     \* employments
  Group,   \* identifiers the autoincrement column will hand out
  User,
  Owner    \* the user of an employment

OwnerAssumption == Owner \in [Emp -> User] /\ IsFiniteSet(Emp)

VARIABLES
  emps,     \* employments that exist
  users,    \* users that exist
  row,      \* of a group: "unused", "live" or "gone"
  members,  \* committed membership rows
  cascaded, \* members a group lost to delete_user since its rows were last written
  phase,    \* progress of the deletion of an employment
  todo,     \* groups that deletion has read and not handled yet
  plan      \* what it has done to a group and not committed; it holds that row

data == <<emps, users, row, members, cascaded>>
deletion == <<phase, todo, plan>>
vars == <<data, deletion>>

TypeOK ==
  /\ emps \subseteq Emp /\ users \subseteq User
  /\ row \in [Group -> {"unused", "live", "gone"}]
  /\ members \in [Group -> SUBSET emps]
  /\ \A g \in Group : row[g] # "live" => members[g] = {}
  /\ cascaded \in [Group -> SUBSET Emp]
  /\ phase \in [Emp -> {"idle", "locked", "removing"}]
  /\ todo \in [Emp -> SUBSET Group]
  /\ plan \in [Emp -> [Group -> {"none", "shrink", "drop"}]]
  /\ \A e \in Emp : phase[e] # "idle" => e \in emps

Init ==
  /\ emps = Emp /\ users = User
  /\ row = [g \in Group |-> "unused"]
  /\ members = [g \in Group |-> {}]
  /\ cascaded = [g \in Group |-> {}]
  /\ phase = [e \in Emp |-> "idle"]
  /\ todo = [e \in Emp |-> {}]
  /\ plan = [e \in Emp |-> [g \in Group |-> "none"]]

AnyLiveGroup(g) == row[g] = "live"
\* get_group with lock=True
Lockable(g) == row[g] = "live" /\ \A e \in Emp : plan[e][g] = "none"

\* normalize_member_ids
AtLeastTwo(ids) == Cardinality(ids) >= 2

NoKeyShare(ids) == ids \subseteq emps
\* _load_employments, and the foreign key of the inserted rows
Insertable(ids) == ids \subseteq emps /\ \A e \in ids : phase[e] = "idle"

-----------------------------------------------------------------------------
create_group(g, ids) ==
  /\ row[g] = "unused"
  /\ AtLeastTwo(ids) /\ Insertable(ids)
  /\ row' = [row EXCEPT ![g] = "live"]
  /\ members' = [members EXCEPT ![g] = ids]
  /\ UNCHANGED <<emps, users, cascaded, deletion>>

replace_members(g, ids) ==
  /\ AtLeastTwo(ids)
  /\ Lockable(g)
  /\ Insertable(ids)
  /\ members' = [members EXCEPT ![g] = ids]
  /\ cascaded' = [cascaded EXCEPT ![g] = {}]
  /\ UNCHANGED <<emps, users, row, deletion>>

Undersized(rest) == Cardinality(rest) < 2

remove_members(g, ids) ==
  LET rest == members[g] \ ids
  IN  /\ ids # {}
      /\ Lockable(g)
      /\ ids \subseteq members[g]
      /\ row' = [row EXCEPT ![g] = IF Undersized(rest) THEN "gone" ELSE "live"]
      /\ members' = [members EXCEPT ![g] = IF Undersized(rest) THEN {} ELSE rest]
      /\ UNCHANGED <<emps, users, cascaded, deletion>>

delete_group(g) ==
  /\ Lockable(g)
  /\ row' = [row EXCEPT ![g] = "gone"]
  /\ members' = [members EXCEPT ![g] = {}]
  /\ UNCHANGED <<emps, users, cascaded, deletion>>

-----------------------------------------------------------------------------
(* delete_employment *)

LockEmployment(e) ==
  /\ e \in emps /\ phase[e] = "idle"
  /\ phase' = [phase EXCEPT ![e] = "locked"]
  /\ UNCHANGED <<data, todo, plan>>

\* remove_groups_for_employment reads the membership rows and locks no group yet.
ReadGroups(e) ==
  /\ phase[e] = "locked"
  /\ phase' = [phase EXCEPT ![e] = "removing"]
  /\ todo' = [todo EXCEPT ![e] = {g \in Group : e \in members[g]}]
  /\ UNCHANGED <<data, plan>>

\* commit or rollback releases the locks
EndTransaction(e) ==
  /\ phase' = [phase EXCEPT ![e] = "idle"]
  /\ todo' = [todo EXCEPT ![e] = {}]
  /\ plan' = [plan EXCEPT ![e] = [g \in Group |-> "none"]]

\* remove_members for one group, under its lock, not committed yet
LeaveGroup(e, g) ==
  /\ g \in todo[e]
  /\ Lockable(g)
  /\ e \in members[g]
  /\ plan' = [plan EXCEPT ![e][g] =
                IF Undersized(members[g] \ {e}) THEN "drop" ELSE "shrink"]
  /\ todo' = [todo EXCEPT ![e] = @ \ {g}]
  /\ UNCHANGED <<data, phase>>

\* The group or the membership is gone by now: group_not_found or
\* group_member_not_found, which delete_employment does not catch.
LeaveFails(e, g) ==
  /\ g \in todo[e]
  /\ e \notin members[g]
  /\ \A d \in Emp : plan[d][g] = "none"
  /\ EndTransaction(e)
  /\ UNCHANGED data

\* Victim of a deadlock: with another deletion that holds a group of todo, or with
\* a replacement that holds the group and waits for the employment.
Deadlocked(e) ==
  /\ todo[e] # {}
  /\ EndTransaction(e)
  /\ UNCHANGED data

CommitDeletion(e) ==
  /\ phase[e] = "removing" /\ todo[e] = {}
  /\ emps' = emps \ {e}
  /\ row' = [g \in Group |-> IF plan[e][g] = "drop" THEN "gone" ELSE row[g]]
  /\ members' = [g \in Group |-> IF plan[e][g] = "drop" THEN {} ELSE members[g] \ {e}]
  /\ EndTransaction(e)
  /\ UNCHANGED <<users, cascaded>>

-----------------------------------------------------------------------------
\* delete_user: waits for employments being deleted and for membership rows a
\* dropped group is about to lose; no group is locked or looked at.
delete_user(u) ==
  LET lost == {e \in emps : Owner[e] = u}
  IN  /\ u \in users
      /\ \A e \in lost : phase[e] = "idle"
      /\ \A e \in Emp, g \in Group : plan[e][g] = "drop" => members[g] \cap lost = {}
      /\ users' = users \ {u}
      /\ emps' = emps \ lost
      /\ members' = [g \in Group |-> members[g] \ lost]
      /\ cascaded' = [g \in Group |-> cascaded[g] \cup (members[g] \cap lost)]
      /\ UNCHANGED <<row, deletion>>

-----------------------------------------------------------------------------
Next ==
  \/ \E g \in Group, ids \in SUBSET Emp :
       create_group(g, ids) \/ replace_members(g, ids) \/ remove_members(g, ids)
  \/ \E g \in Group : delete_group(g)
  \/ \E e \in Emp : LockEmployment(e) \/ ReadGroups(e) \/ Deadlocked(e) \/ CommitDeletion(e)
  \/ \E e \in Emp, g \in Group : LeaveGroup(e, g) \/ LeaveFails(e, g)
  \/ \E u \in User : delete_user(u)

Spec == Init /\ [][Next]_vars

-----------------------------------------------------------------------------
\* The list of groups a deletion has read, without any group lock, stays complete:
\* no request puts the employment into another group before the deletion commits,
\* so the foreign key's cascade never takes a membership row behind its back.
NoLateMembership ==
  \A e \in Emp : phase[e] = "removing" =>
    \A g \in Group : e \in members[g] => g \in todo[e] \/ plan[e][g] # "none"

\* Concurrent removals, replacements and deletions of employments never leave a
\* group with fewer than two members; only members that delete_user took can be
\* missing.
ShrinksToTwo ==
  \A g \in Group : row[g] = "live" => Cardinality(members[g] \cup cascaded[g]) >= 2

\* "A group must have at least two members" (docs/SSOT_CURRENT.md).
NoSmallGroup == \A g \in Group : row[g] = "live" => Cardinality(members[g]) >= 2

-----------------------------------------------------------------------------
(* Why the first two hold: a deletion that has planned something for a     *)
(* group holds the group's row alone, and what it leaves in a group it     *)
(* only shrinks is still enough.                                           *)
HoldsGroups ==
  \A e \in Emp, g \in Group :
    /\ phase[e] # "removing" => g \notin todo[e] /\ plan[e][g] = "none"
    /\ plan[e][g] # "none" =>
         e \in members[g] /\ \A d \in Emp : plan[d][g] # "none" => d = e
    /\ plan[e][g] = "shrink" => Cardinality((members[g] \ {e}) \cup cascaded[g]) >= 2

IInv == TypeOK /\ HoldsGroups /\ NoLateMembership /\ ShrinksToTwo
=============================================================================
