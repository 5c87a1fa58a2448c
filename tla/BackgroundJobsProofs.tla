------------------------ MODULE BackgroundJobsProofs ------------------------
(***************************************************************************)
(* The jobs in the background and what runs beside them, for any sets of   *)
(* employments, groups, users, workers and executions: employment groups   *)
(* under concurrent deletions, the reminders of concurrent workers, and    *)
(* the transactions around the monthly lock of the shift plan, which       *)
(* implement the atomic operations of PlanGuard.  The size of a group is   *)
(* compared with two only, so the proofs speak of two different members    *)
(* instead of cardinalities.                                               *)
(***************************************************************************)
EXTENDS BackgroundJobs, Integers, Sequences, FiniteSets, FiniteSetTheorems, WellFoundedInduction, TLAPS

-----------------------------------------------------------------------------
(* Employment groups. *)

LEMMA GroupsOnly == [Next]_vars => [Groups!Next]_groupVars
BY DEF Next, vars, LockingStep, RemindingStep, GroupsStep

Two(S) == \E x, y \in S : x # y

LEMMA TwoIsCardinality ==
  ASSUME NEW S, IsFiniteSet(S)
  PROVE  (Groups!Cardinality(S) >= 2 <=> Two(S)) /\ (Groups!Cardinality(S) < 2 <=> ~ Two(S))
<1>1. Groups!Cardinality(S) = Cardinality(S)
  BY DEF Groups!Cardinality, Cardinality, Groups!IsFiniteSet, IsFiniteSet
<1>2. Cardinality(S) \in Nat
  BY FS_CardinalityType
<1>3. ASSUME NEW x \in S, NEW y \in S, x # y
      PROVE  Cardinality(S) >= 2
  <2>1. IsFiniteSet({x}) /\ Cardinality({x}) = 1
    BY FS_Singleton
  <2>2. Cardinality({x} \cup {y}) = 2
    BY <1>3, <2>1, FS_AddElement
  <2>3. Cardinality({x} \cup {y}) <= Cardinality(S)
    BY FS_Subset
  <2>. QED
    BY <1>2, <2>2, <2>3
<1>4. ASSUME ~ Two(S)
      PROVE  Cardinality(S) < 2
  <2>1. CASE S = {}
    BY <2>1, FS_EmptySet
  <2>2. ASSUME NEW x \in S PROVE Cardinality(S) < 2
    <3>1. S = {x}
      BY <1>4 DEF Two
    <3>. QED
      BY <3>1, FS_Singleton
  <2>. QED
    BY <2>1, <2>2
<1>. QED
  BY <1>1, <1>2, <1>3, <1>4 DEF Two

LEMMA FiniteEmployments == IsFiniteSet(Emp) /\ \A S \in SUBSET Emp : IsFiniteSet(S)
<1>1. IsFiniteSet(Emp)
  BY GroupsAssumption DEF Groups!OwnerAssumption, Groups!IsFiniteSet, IsFiniteSet
<1>. QED
  BY <1>1, FS_Subset

\* The inductive invariant in terms of two members.
Hold(e, g) ==
  /\ phase[e] # "removing" => g \notin todo[e] /\ removal[e][g] = "none"
  /\ removal[e][g] # "none" =>
       e \in members[g] /\ \A d \in Emp : removal[d][g] # "none" => d = e
  /\ removal[e][g] = "shrink" => Two((members[g] \ {e}) \cup cascaded[g])

Holds == \A e \in Emp, g \in Group : Hold(e, g)

Enough == \A g \in Group : row[g] = "live" => Two(members[g] \cup cascaded[g])

Inv == Groups!TypeOK /\ Holds /\ Groups!NoLateMembership /\ Enough

LEMMA InvIsIInv == (Inv <=> Groups!IInv) /\ (Inv' <=> Groups!IInv')
<1>1. ASSUME NEW M, NEW C, M \in [Group -> SUBSET Emp], C \in [Group -> SUBSET Emp]
      PROVE  \A g \in Group :
               /\ Groups!Cardinality(M[g] \cup C[g]) >= 2 <=> Two(M[g] \cup C[g])
               /\ \A e \in Emp : Groups!Cardinality((M[g] \ {e}) \cup C[g]) >= 2
                                  <=> Two((M[g] \ {e}) \cup C[g])
  <2>. TAKE g \in Group
  <2>1. \A S \in SUBSET Emp : Groups!Cardinality(S) >= 2 <=> Two(S)
    BY FiniteEmployments, TwoIsCardinality
  <2>. QED
    BY <1>1, <2>1
<1>2. Groups!TypeOK => members \in [Group -> SUBSET Emp] /\ cascaded \in [Group -> SUBSET Emp]
  BY DEF Groups!TypeOK
<1>3. Groups!TypeOK' => members' \in [Group -> SUBSET Emp] /\ cascaded' \in [Group -> SUBSET Emp]
  BY DEF Groups!TypeOK
<1>4. Groups!TypeOK => (Holds <=> Groups!HoldsGroups) /\ (Enough <=> Groups!ShrinksToTwo)
  BY <1>1, <1>2 DEF Holds, Hold, Enough, Groups!HoldsGroups, Groups!ShrinksToTwo
<1>5. Groups!TypeOK' => (Holds' <=> Groups!HoldsGroups') /\ (Enough' <=> Groups!ShrinksToTwo')
  BY <1>1, <1>3 DEF Holds, Hold, Enough, Groups!HoldsGroups, Groups!ShrinksToTwo
<1>. QED
  BY <1>4, <1>5 DEF Inv, Groups!IInv

-----------------------------------------------------------------------------
(* Requests about one group. *)

\* A request that writes one group, whose row nobody holds, with members that are not
\* being deleted or were members before.
GroupWrite(g, state, ids) ==
  /\ \A e \in Emp : removal[e][g] = "none"
  /\ row' = [row EXCEPT ![g] = state]
  /\ members' = [members EXCEPT ![g] = ids]
  /\ cascaded' \in {cascaded, [cascaded EXCEPT ![g] = {}]}
  /\ UNCHANGED <<emps, users, phase, todo, removal>>

LEMMA GroupWriteSafe ==
  ASSUME Inv, NEW g \in Group, NEW state \in {"live", "gone"}, NEW ids \in SUBSET emps,
         GroupWrite(g, state, ids),
         \A e \in ids : phase[e] = "idle" \/ e \in members[g],
         state = "gone" => ids = {},
         state = "live" => Two(ids)
  PROVE  Inv'
<1>. USE DEF Inv, GroupWrite
<1>1. \A h \in Group \ {g} : /\ row'[h] = row[h] /\ members'[h] = members[h]
                             /\ cascaded'[h] = cascaded[h]
  BY DEF Groups!TypeOK
<1>2. row'[g] = state /\ members'[g] = ids
  BY DEF Groups!TypeOK
<1>3. Groups!TypeOK'
  BY DEF Groups!TypeOK
<1>4. ASSUME NEW e \in Emp, NEW h \in Group PROVE Hold(e, h)'
  <2>1. Hold(e, h)
    BY DEF Holds
  <2>. QED
    BY <1>1, <2>1 DEF Hold
<1>5. Groups!NoLateMembership'
  BY <1>1, <1>2 DEF Groups!NoLateMembership
<1>6. Enough'
  BY <1>1, <1>2 DEF Enough, Two
<1>. QED
  BY <1>3, <1>4, <1>5, <1>6 DEF Holds

LEMMA RequestSafe ==
  ASSUME Inv, NEW g \in Group, NEW ids \in SUBSET Emp,
         \/ Groups!create_group(g, ids) \/ Groups!replace_members(g, ids)
         \/ Groups!remove_members(g, ids) \/ Groups!delete_group(g)
  PROVE  Inv'
<1>1. members[g] \subseteq emps /\ members[g] \subseteq Emp
  BY DEF Inv, Groups!TypeOK
<1>2. CASE Groups!create_group(g, ids)
  <2>1. members[g] = {}
    BY <1>2 DEF Groups!create_group, Inv, Groups!TypeOK
  <2>2. GroupWrite(g, "live", ids)
    BY <1>2, <2>1 DEF Groups!create_group, Groups!deletion, GroupWrite, Inv, Holds, Hold
  <2>3. ids \in SUBSET emps /\ Two(ids) /\ \A e \in ids : phase[e] = "idle"
    BY <1>2, FiniteEmployments, TwoIsCardinality
       DEF Groups!create_group, Groups!AtLeastTwo, Groups!Insertable
  <2>. QED
    BY <2>2, <2>3, GroupWriteSafe
<1>3. CASE Groups!replace_members(g, ids)
  <2>1. GroupWrite(g, "live", ids)
    <3>1. row' = [row EXCEPT ![g] = "live"]
      BY <1>3 DEF Groups!replace_members, Groups!Lockable, Inv, Groups!TypeOK
    <3>. QED
      BY <1>3, <3>1 DEF Groups!replace_members, Groups!Lockable, Groups!deletion, GroupWrite
  <2>2. ids \in SUBSET emps /\ Two(ids) /\ \A e \in ids : phase[e] = "idle"
    BY <1>3, FiniteEmployments, TwoIsCardinality
       DEF Groups!replace_members, Groups!AtLeastTwo, Groups!Insertable
  <2>. QED
    BY <2>1, <2>2, GroupWriteSafe
<1>4. CASE Groups!remove_members(g, ids)
  <2>. DEFINE rest == members[g] \ ids
  <2>1. Groups!Undersized(rest) <=> ~ Two(rest)
    BY <1>1, FiniteEmployments, TwoIsCardinality DEF Groups!Undersized
  <2>2. CASE Groups!Undersized(rest)
    <3>1. GroupWrite(g, "gone", {})
      BY <1>4, <2>2 DEF Groups!remove_members, Groups!Lockable, Groups!deletion, GroupWrite
    <3>. QED
      BY <3>1, GroupWriteSafe
  <2>3. CASE ~ Groups!Undersized(rest)
    <3>1. GroupWrite(g, "live", rest)
      BY <1>4, <2>3 DEF Groups!remove_members, Groups!Lockable, Groups!deletion, GroupWrite
    <3>. QED
      BY <1>1, <2>1, <2>3, <3>1, GroupWriteSafe
  <2>. QED
    BY <2>2, <2>3
<1>5. CASE Groups!delete_group(g)
  <2>1. GroupWrite(g, "gone", {})
    BY <1>5 DEF Groups!delete_group, Groups!Lockable, Groups!deletion, GroupWrite
  <2>. QED
    BY <2>1, GroupWriteSafe
<1>. QED
  BY <1>2, <1>3, <1>4, <1>5

-----------------------------------------------------------------------------
(* Deletions of employments and users. *)

LEMMA EndSafe ==
  ASSUME Inv, NEW e \in Emp, Groups!EndTransaction(e), UNCHANGED Groups!data
  PROVE  Inv'
<1>. USE DEF Inv, Groups!EndTransaction, Groups!data
<1>1. Groups!TypeOK'
  BY DEF Groups!TypeOK
<1>2. /\ phase'[e] = "idle" /\ todo'[e] = {} /\ \A g \in Group : removal'[e][g] = "none"
      /\ \A d \in Emp \ {e} : phase'[d] = phase[d] /\ todo'[d] = todo[d] /\ removal'[d] = removal[d]
  BY DEF Groups!TypeOK
<1>3. ASSUME NEW d \in Emp, NEW g \in Group PROVE Hold(d, g)'
  <2>1. Hold(d, g)
    BY DEF Holds
  <2>. QED
    BY <1>2, <2>1 DEF Hold
<1>4. Groups!NoLateMembership'
  BY <1>2 DEF Groups!NoLateMembership
<1>5. Enough'
  BY DEF Enough
<1>. QED
  BY <1>1, <1>3, <1>4, <1>5 DEF Holds

LEMMA BeginSafe ==
  ASSUME Inv, NEW e \in Emp, Groups!LockEmployment(e) \/ Groups!ReadGroups(e)
  PROVE  Inv'
<1>. USE DEF Inv, Groups!data
<1>1. CASE Groups!LockEmployment(e)
  <2>. USE <1>1 DEF Groups!LockEmployment
  <2>1. Groups!TypeOK' /\ phase'[e] = "locked" /\ \A d \in Emp \ {e} : phase'[d] = phase[d]
    BY DEF Groups!TypeOK
  <2>2. Holds' /\ Groups!NoLateMembership' /\ Enough'
    BY <2>1 DEF Holds, Hold, Groups!NoLateMembership, Enough
  <2>. QED
    BY <2>1, <2>2
<1>2. CASE Groups!ReadGroups(e)
  <2>. USE <1>2 DEF Groups!ReadGroups
  <2>1. Groups!TypeOK'
    BY DEF Groups!TypeOK
  <2>2. /\ phase'[e] = "removing" /\ todo'[e] = {g \in Group : e \in members[g]}
        /\ \A d \in Emp \ {e} : phase'[d] = phase[d] /\ todo'[d] = todo[d]
    BY DEF Groups!TypeOK
  <2>3. Holds'
    BY <2>2 DEF Holds, Hold
  <2>4. Groups!NoLateMembership'
    BY <2>2 DEF Groups!NoLateMembership
  <2>5. Enough'
    BY DEF Enough
  <2>. QED
    BY <2>1, <2>3, <2>4, <2>5
<1>. QED
  BY <1>1, <1>2

\* What a deletion leaves in a group it shrinks is two members at least.
LEMMA LeaveSafe ==
  ASSUME Inv, NEW e \in Emp, NEW g \in Group, Groups!LeaveGroup(e, g)
  PROVE  Inv'
<1>. USE DEF Inv, Groups!data, Groups!LeaveGroup, Groups!Lockable
<1>1. members[g] \ {e} \in SUBSET Emp
  BY DEF Groups!TypeOK
<1>2. Groups!Undersized(members[g] \ {e}) <=> ~ Two(members[g] \ {e})
  BY <1>1, FiniteEmployments, TwoIsCardinality DEF Groups!Undersized
<1>3. Groups!TypeOK'
  BY DEF Groups!TypeOK
<1>4. /\ removal'[e][g] \in {"drop", "shrink"}
      /\ removal'[e][g] = "shrink" => Two(members[g] \ {e})
      /\ \A d \in Emp, h \in Group : d # e \/ h # g => removal'[d][h] = removal[d][h]
      /\ todo'[e] = todo[e] \ {g} /\ \A d \in Emp \ {e} : todo'[d] = todo[d]
  BY <1>2 DEF Groups!TypeOK
<1>5. Holds'
  <2>. SUFFICES ASSUME NEW d \in Emp, NEW h \in Group PROVE Hold(d, h)'
    BY DEF Holds
  <2>1. Hold(d, h) /\ Hold(e, g)
    BY DEF Holds
  <2>. QED
    BY <1>4, <2>1 DEF Hold, Two
<1>6. Groups!NoLateMembership'
  BY <1>4 DEF Groups!NoLateMembership
<1>7. Enough'
  BY DEF Enough
<1>. QED
  BY <1>3, <1>5, <1>6, <1>7

\* The committed deletion has planned something for every group of the employment.
LEMMA CommitSafe ==
  ASSUME Inv, NEW e \in Emp, Groups!CommitDeletion(e)
  PROVE  Inv'
<1>. USE DEF Inv, Groups!CommitDeletion, Groups!EndTransaction
<1>1. \A g \in Group : removal[e][g] # "none" <=> e \in members[g]
  <2>. SUFFICES ASSUME NEW g \in Group PROVE removal[e][g] # "none" <=> e \in members[g]
    OBVIOUS
  <2>1. phase[e] = "removing" /\ g \notin todo[e]
    OBVIOUS
  <2>2. Hold(e, g)
    BY DEF Holds
  <2>3. removal[e][g] # "none" => e \in members[g]
    BY <2>2 DEF Hold
  <2>4. e \in members[g] => removal[e][g] # "none"
    BY <2>1 DEF Groups!NoLateMembership
  <2>. QED
    BY <2>3, <2>4
<1>2. /\ phase'[e] = "idle" /\ todo'[e] = {} /\ \A g \in Group : removal'[e][g] = "none"
      /\ \A d \in Emp \ {e} : phase'[d] = phase[d] /\ todo'[d] = todo[d] /\ removal'[d] = removal[d]
  BY DEF Groups!TypeOK
<1>3. \A g \in Group : removal[e][g] # "none" => \A d \in Emp : removal'[d][g] = "none"
  <2>. SUFFICES ASSUME NEW g \in Group, removal[e][g] # "none", NEW d \in Emp
                PROVE  removal'[d][g] = "none"
    OBVIOUS
  <2>1. removal[d][g] # "none" => d = e
    BY DEF Holds, Hold
  <2>. QED
    BY <1>2, <2>1
<1>4. \A g \in Group : removal[e][g] = "none" => members'[g] = members[g] /\ row'[g] = row[g]
  BY <1>1 DEF Groups!TypeOK
<1>5. Groups!TypeOK'
  BY DEF Groups!TypeOK
<1>6. Holds'
  <2>. SUFFICES ASSUME NEW d \in Emp, NEW g \in Group PROVE Hold(d, g)'
    BY DEF Holds
  <2>1. Hold(d, g)
    BY DEF Holds
  <2>2. cascaded' = cascaded
    OBVIOUS
  <2>3. CASE removal[e][g] # "none"
    BY <1>2, <1>3, <2>1, <2>3 DEF Hold
  <2>4. CASE removal[e][g] = "none"
    <3>1. members'[g] = members[g] /\ \A x \in Emp : removal'[x][g] = removal[x][g]
      BY <1>2, <1>4, <2>4
    <3>2. d = e \/ (phase'[d] = phase[d] /\ todo'[d] = todo[d])
      BY <1>2
    <3>. QED
      BY <1>2, <2>1, <2>2, <2>4, <3>1, <3>2 DEF Hold
  <2>. QED
    BY <2>3, <2>4
<1>7. Groups!NoLateMembership'
  BY <1>2 DEF Groups!NoLateMembership
<1>8. Enough'
  BY <1>4 DEF Enough, Holds, Hold, Groups!TypeOK
<1>. QED
  BY <1>5, <1>6, <1>7, <1>8

\* The members that delete_user takes are remembered.
LEMMA DeleteUserSafe ==
  ASSUME Inv, NEW u \in User, Groups!delete_user(u)
  PROVE  Inv'
<1>. DEFINE lost == {e \in emps : Owner[e] = u}
<1>. USE DEF Inv
<1>1. /\ \A e \in lost : phase[e] = "idle"
      /\ emps' = emps \ lost
      /\ members' = [g \in Group |-> members[g] \ lost]
      /\ cascaded' = [g \in Group |-> cascaded[g] \cup (members[g] \cap lost)]
      /\ UNCHANGED <<row, phase, todo, removal>> /\ users' \subseteq users
  BY DEF Groups!delete_user, Groups!deletion
<1>2. Groups!TypeOK'
  BY <1>1 DEF Groups!TypeOK
<1>3. Holds'
  <2>1. \A e \in Emp, g \in Group : removal[e][g] # "none" => e \notin lost
    BY <1>1 DEF Holds, Hold
  <2>2. \A g \in Group, e \in Emp :
          (members[g] \ {e}) \cup cascaded[g] \subseteq (members'[g] \ {e}) \cup cascaded'[g]
    BY <1>1
  <2>3. \A g \in Group, e \in Emp : Two((members[g] \ {e}) \cup cascaded[g]) =>
          Two((members'[g] \ {e}) \cup cascaded'[g])
    BY <2>2 DEF Two
  <2>. SUFFICES ASSUME NEW e \in Emp, NEW g \in Group PROVE Hold(e, g)'
    BY DEF Holds
  <2>4. Hold(e, g)
    BY DEF Holds
  <2>. QED
    BY <1>1, <2>1, <2>3, <2>4 DEF Hold
<1>4. Groups!NoLateMembership'
  BY <1>1 DEF Groups!NoLateMembership
<1>5. Enough'
  BY <1>1 DEF Enough, Two
<1>. QED
  BY <1>2, <1>3, <1>4, <1>5

-----------------------------------------------------------------------------
LEMMA GroupsInit == Init => Groups!IInv
<1>. SUFFICES ASSUME Groups!Init PROVE Inv
  BY InvIsIInv DEF Init
<1>1. Groups!TypeOK
  BY DEF Groups!Init, Groups!TypeOK
<1>2. Holds
  BY DEF Groups!Init, Holds, Hold
<1>3. Groups!NoLateMembership /\ Enough
  BY DEF Groups!Init, Groups!NoLateMembership, Enough
<1>. QED
  BY <1>1, <1>2, <1>3 DEF Inv

LEMMA GroupsSafe == Groups!IInv /\ [Next]_vars => Groups!IInv'
<1>. SUFFICES ASSUME Inv, [Groups!Next]_groupVars PROVE Inv'
  BY GroupsOnly, InvIsIInv
<1>1. ASSUME NEW g \in Group, NEW ids \in SUBSET Emp,
             \/ Groups!create_group(g, ids) \/ Groups!replace_members(g, ids)
             \/ Groups!remove_members(g, ids)
      PROVE  Inv'
  BY <1>1, RequestSafe
<1>2. ASSUME NEW g \in Group, Groups!delete_group(g) PROVE Inv'
  <2>1. Emp \in SUBSET Emp
    OBVIOUS
  <2>. QED
    BY <1>2, <2>1, RequestSafe
<1>3. ASSUME NEW e \in Emp,
             \/ Groups!LockEmployment(e) \/ Groups!ReadGroups(e)
             \/ Groups!Deadlocked(e) \/ Groups!CommitDeletion(e)
      PROVE  Inv'
  BY <1>3, BeginSafe, EndSafe, CommitSafe DEF Groups!Deadlocked
<1>4. ASSUME NEW e \in Emp, NEW g \in Group, Groups!LeaveGroup(e, g) \/ Groups!LeaveFails(e, g)
      PROVE  Inv'
  BY <1>4, LeaveSafe, EndSafe DEF Groups!LeaveFails
<1>5. ASSUME NEW u \in User, Groups!delete_user(u) PROVE Inv'
  BY <1>5, DeleteUserSafe
<1>6. CASE UNCHANGED groupVars
  <2>1. /\ emps' = emps /\ users' = users /\ row' = row /\ members' = members
        /\ cascaded' = cascaded /\ phase' = phase /\ todo' = todo /\ removal' = removal
    BY <1>6 DEF groupVars
  <2>2. Groups!TypeOK' /\ Groups!NoLateMembership'
    BY <2>1 DEF Inv, Groups!TypeOK, Groups!NoLateMembership
  <2>3. Holds' /\ Enough'
    BY <2>1 DEF Inv, Holds, Hold, Enough
  <2>. QED
    BY <2>2, <2>3 DEF Inv
<1>. QED
  BY <1>1, <1>2, <1>3, <1>4, <1>5, <1>6 DEF Groups!Next

\* A deletion of an employment knows every group it is in until it commits, although
\* it reads the list without a lock on the groups: the key-share lock of an inserted
\* member keeps others from adding it (remove_groups_for_employment).
THEOREM DeletionMissesNothing == Spec => []NoLateMembership
<1>1. Groups!IInv => NoLateMembership
  BY DEF Groups!IInv, NoLateMembership
<1>. QED
  BY <1>1, GroupsInit, GroupsSafe, PTL DEF Spec

\* Concurrent removals, replacements and deletions of employments, committed in any
\* order, never leave a group with fewer than two members that delete_user did not
\* take (remove_members under the group's row lock).
THEOREM GroupsShrinkToTwo == Spec => []ShrinksToTwo
<1>1. Groups!IInv => ShrinksToTwo
  BY DEF Groups!IInv, ShrinksToTwo
<1>. QED
  BY <1>1, GroupsInit, GroupsSafe, PTL DEF Spec

-----------------------------------------------------------------------------
(* Reminders: the pools. *)

LEMMA RemindingOnly == [Next]_vars => [Reminding!Next]_reminderVars
BY DEF Next, vars, LockingStep, RemindingStep, GroupsStep

Elements(p) == {p[n] : n \in DOMAIN p}
Distinct(p) == \A m, n \in DOMAIN p : p[m] = p[n] => m = n

LEMMA TailDistinct ==
  ASSUME NEW S, NEW p \in Seq(S), p # <<>>, Distinct(p)
  PROVE  /\ Tail(p) \in Seq(S) /\ Distinct(Tail(p)) /\ Elements(Tail(p)) \subseteq Elements(p)
         /\ Head(p) \in S /\ Head(p) \in Elements(p) /\ Head(p) \notin Elements(Tail(p))
<1>1. /\ Tail(p) \in Seq(S) /\ Len(Tail(p)) = Len(p) - 1 /\ Len(p) \in Nat \ {0}
      /\ \A n \in 1 .. Len(Tail(p)) : Tail(p)[n] = p[n + 1]
      /\ Head(p) = p[1] /\ Head(p) \in S
  OBVIOUS
<1>2. DOMAIN p = 1 .. Len(p) /\ DOMAIN Tail(p) = 1 .. Len(Tail(p))
  BY <1>1
<1>3. \A n \in DOMAIN Tail(p) : n + 1 \in DOMAIN p /\ n + 1 # 1 /\ Tail(p)[n] = p[n + 1]
  BY <1>1, <1>2
<1>4. 1 \in DOMAIN p /\ \A m, n \in DOMAIN Tail(p) : m + 1 = n + 1 => m = n
  BY <1>1, <1>2
<1>. QED
  BY <1>1, <1>3, <1>4 DEF Distinct, Elements

LEMMA AppendDistinct ==
  ASSUME NEW S, NEW p \in Seq(S), Distinct(p), NEW c \in S, c \notin Elements(p)
  PROVE  /\ Append(p, c) \in Seq(S) /\ Distinct(Append(p, c))
         /\ Elements(Append(p, c)) \subseteq Elements(p) \cup {c}
<1>1. /\ Append(p, c) \in Seq(S) /\ Len(Append(p, c)) = Len(p) + 1 /\ Len(p) \in Nat
      /\ \A n \in 1 .. Len(p) : Append(p, c)[n] = p[n]
      /\ Append(p, c)[Len(p) + 1] = c
  OBVIOUS
<1>2. DOMAIN p = 1 .. Len(p) /\ DOMAIN Append(p, c) = 1 .. (Len(p) + 1)
  BY <1>1
<1>3. \A n \in DOMAIN Append(p, c) :
         \/ n \in DOMAIN p /\ Append(p, c)[n] = p[n]
         \/ n = Len(p) + 1 /\ Append(p, c)[n] = c
  BY <1>1, <1>2
<1>. QED
  BY <1>1, <1>3 DEF Distinct, Elements

LEMMA AttemptTypes ==
  /\ \A k \in Reminding!Attempts : k[2] \in Nat \ {0}
  /\ \A k \in Reminding!Attempts :
        k[2] > 1 => /\ Reminding!Before1(k) \in Reminding!Attempts
                    /\ Reminding!Before1(k)[1] = k[1] /\ Reminding!Before1(k)[2] = k[2] - 1
<1>1. MaxAttempts \in Nat
  BY RemindingAssumption DEF Reminding!RemindersAssumption
<1>2. ASSUME NEW k \in Reminding!Attempts
      PROVE  /\ k[2] \in 1 .. MaxAttempts
             /\ k[2] > 1 => <<k[1], k[2] - 1>> \in Employments \X (1 .. MaxAttempts)
  BY <1>1 DEF Reminding!Attempts
<1>. QED
  BY <1>1, <1>2 DEF Reminding!Attempts, Reminding!Before1

\* The attempt a run turns to is one of its own, and the one before is not to come.
LEMMA TurnIsLowest ==
  ASSUME NEW r, r.todo \subseteq Reminding!Attempts, NEW k \in Reminding!Turn(r)
  PROVE  /\ k \in r.todo /\ k \in Reminding!Attempts
         /\ k[2] > 1 => Reminding!Before1(k) \notin r.todo
<1>1. k \in r.todo /\ \A j \in r.todo : j[1] = k[1] => k[2] <= j[2]
  BY DEF Reminding!Turn, Reminding!Begun, Reminding!Lowest, Reminding!InTurn
<1>2. k[2] > 1 => Reminding!Before1(k)[1] = k[1] /\ ~ (k[2] <= Reminding!Before1(k)[2])
  BY <1>1, AttemptTypes
<1>. QED
  BY <1>1, <1>2

WorkerFine(w) ==
  /\ run[w] \in Reminding!Run(w) /\ (run[w].pc = "idle" => run[w] = Reminding!NoRun)
  /\ run[w].pc = "record" => run[w].conn # Reminding!Nobody /\ run[w].at \in run[w].todo
  /\ pool[w] \in Seq(Reminding!Connections(w)) /\ web[w] \subseteq Reminding!Connections(w)
  /\ Distinct(pool[w])
  /\ Elements(pool[w]) \cap web[w] = {} /\ run[w].conn \notin Elements(pool[w]) \cup web[w]

PoolsInv ==
  /\ run = [w \in Workers |-> run[w]] /\ pool = [w \in Workers |-> pool[w]]
  /\ web = [w \in Workers |-> web[w]]
  /\ \A w \in Workers : WorkerFine(w)

LEMMA ConnectionsApart ==
  /\ \A v, w \in Workers : \A c \in Reminding!Connections(v) : c \in Reminding!Connections(w) => v = w
  /\ \A w \in Workers : Reminding!Nobody \notin Reminding!Connections(w)
BY DEF Reminding!Connections, Reminding!Nobody

\* One worker changes its run, its pool and its requests.
LEMMA OneWorker ==
  ASSUME PoolsInv, NEW w \in Workers, NEW r, NEW p, NEW x,
         run' = [run EXCEPT ![w] = r], pool' = [pool EXCEPT ![w] = p], web' = [web EXCEPT ![w] = x],
         r \in Reminding!Run(w), r.pc = "idle" => r = Reminding!NoRun,
         r.pc = "record" => r.conn # Reminding!Nobody /\ r.at \in r.todo,
         p \in Seq(Reminding!Connections(w)), x \subseteq Reminding!Connections(w),
         Distinct(p), Elements(p) \cap x = {}, r.conn \notin Elements(p) \cup x
  PROVE  PoolsInv'
<1>1. /\ run' = [v \in Workers |-> run'[v]] /\ pool' = [v \in Workers |-> pool'[v]]
      /\ web' = [v \in Workers |-> web'[v]]
      /\ run'[w] = r /\ pool'[w] = p /\ web'[w] = x
      /\ \A v \in Workers : v # w => run'[v] = run[v] /\ pool'[v] = pool[v] /\ web'[v] = web[v]
  BY DEF PoolsInv
<1>2. WorkerFine(w)'
  BY <1>1 DEF WorkerFine
<1>3. \A v \in Workers : v # w => WorkerFine(v)'
  BY <1>1 DEF PoolsInv, WorkerFine
<1>. QED
  BY <1>1, <1>2, <1>3 DEF PoolsInv

\* A checkout gets a connection that is idle no longer, or a new one.
LEMMA Checkout ==
  ASSUME PoolsInv, NEW w \in Workers, NEW c \in Reminding!Next1(w)
  PROVE  /\ c \in Reminding!Connections(w) /\ c \notin web[w] /\ c # run[w].conn
         /\ Reminding!Taken(w) \in Seq(Reminding!Connections(w)) /\ Distinct(Reminding!Taken(w))
         /\ Elements(Reminding!Taken(w)) \subseteq Elements(pool[w])
         /\ c \notin Elements(Reminding!Taken(w))
<1>1. WorkerFine(w)
  BY DEF PoolsInv
<1>2. CASE pool[w] # <<>>
  <2>1. c = Head(pool[w]) /\ Reminding!Taken(w) = Tail(pool[w])
    BY <1>2 DEF Reminding!Next1, Reminding!Taken
  <2>. QED
    BY <1>1, <1>2, <2>1, TailDistinct DEF WorkerFine
<1>3. CASE pool[w] = <<>>
  <2>1. Reminding!Idle(w) = Elements(pool[w])
    BY DEF Reminding!Idle, Elements
  <2>2. c \in Reminding!Connections(w) /\ c \notin Elements(pool[w]) \cup web[w] /\ c # run[w].conn
    BY <1>3, <2>1, ConnectionsApart DEF Reminding!Next1, Reminding!Fresh, Reminding!InUse
  <2>3. Reminding!Taken(w) = pool[w]
    BY <1>3 DEF Reminding!Taken
  <2>. QED
    BY <1>1, <2>2, <2>3 DEF WorkerFine
<1>. QED
  BY <1>2, <1>3

LEMMA Return ==
  ASSUME NEW w \in Workers, NEW p \in Seq(Reminding!Connections(w)), Distinct(p),
         NEW c \in Reminding!Connections(w), c \notin Elements(p)
  PROVE  /\ Reminding!Returned(p, c) \in Seq(Reminding!Connections(w))
         /\ Distinct(Reminding!Returned(p, c))
         /\ Elements(Reminding!Returned(p, c)) \subseteq Elements(p) \cup {c}
BY AppendDistinct DEF Reminding!Returned

LEMMA PoolsStart == Reminding!Init => PoolsInv
<1>. SUFFICES ASSUME Reminding!Init
              PROVE  PoolsInv
  OBVIOUS
<1>1. /\ run = [w \in Workers |-> Reminding!NoRun] /\ web = [w \in Workers |-> {}]
      /\ pool = [w \in Workers |-> [n \in 1 .. PoolSize |-> <<w, n>>]]
  BY DEF Reminding!Init
<1>2. PoolSize \in Nat /\ MaxOverflow \in Nat
  BY RemindingAssumption DEF Reminding!RemindersAssumption
<1>3. ASSUME NEW w \in Workers
      PROVE  WorkerFine(w)
  <2>1. Reminding!NoRun \in Reminding!Run(w) /\ Reminding!NoRun.conn = Reminding!Nobody
    BY DEF Reminding!NoRun, Reminding!Run
  <2>2. /\ pool[w] \in Seq(Reminding!Connections(w)) /\ Distinct(pool[w])
        /\ Elements(pool[w]) \subseteq Reminding!Connections(w)
    <3>1. pool[w] = [n \in 1 .. PoolSize |-> <<w, n>>]
      BY <1>1
    <3>2. \A n \in 1 .. PoolSize : <<w, n>> \in Reminding!Connections(w)
      BY <1>2 DEF Reminding!Connections
    <3>. QED
      BY <1>2, <3>1, <3>2 DEF Distinct, Elements
  <2>3. run[w] = Reminding!NoRun /\ run[w].pc = "idle" /\ run[w].conn = Reminding!Nobody /\ web[w] = {}
    BY <1>1, <2>1 DEF Reminding!NoRun
  <2>4. Reminding!Nobody \notin Elements(pool[w])
    BY <2>2, ConnectionsApart
  <2>. QED
    BY <2>1, <2>2, <2>3, <2>4 DEF WorkerFine
<1>. QED
  BY <1>1, <1>3 DEF PoolsInv

LEMMA PoolsSafe == PoolsInv /\ [Reminding!Next]_reminderVars => PoolsInv'
<1>. SUFFICES ASSUME PoolsInv, [Reminding!Next]_reminderVars
              PROVE  PoolsInv'
  OBVIOUS
<1>. USE DEF Reminding!day, Reminding!log, Reminding!conns
<1>1. CASE UNCHANGED <<run, pool, web>>
  BY <1>1 DEF PoolsInv, WorkerFine
<1>2. ASSUME NEW w \in Workers
      PROVE  /\ run = [run EXCEPT ![w] = run[w]] /\ pool = [pool EXCEPT ![w] = pool[w]]
             /\ web = [web EXCEPT ![w] = web[w]] /\ WorkerFine(w)
             /\ run[w].conn \in Reminding!Connections(w) \cup {Reminding!Nobody}
             /\ Reminding!NoRun \in Reminding!Run(w) /\ Reminding!NoRun.conn = Reminding!Nobody
             /\ Reminding!NoRun.pc = "idle" /\ Reminding!Nobody \notin Reminding!Connections(w)
             /\ Reminding!NoRun.todo = {} /\ run[w].todo \subseteq Reminding!Attempts
             /\ run[w].at \in Reminding!Attempts \cup {Reminding!Nobody}
  BY ConnectionsApart DEF PoolsInv, WorkerFine, Reminding!Run, Reminding!NoRun
<1>3. ASSUME NEW w \in Workers, Reminding!WebTakes(w)
      PROVE  PoolsInv'
  <2>1. PICK c \in Reminding!Next1(w) :
          web' = [web EXCEPT ![w] = @ \cup {c}] /\ pool' = [pool EXCEPT ![w] = Reminding!Taken(w)]
    BY <1>3 DEF Reminding!WebTakes
  <2>2. web' = [web EXCEPT ![w] = web[w] \cup {c}] /\ run' = [run EXCEPT ![w] = run[w]]
    BY <1>2, <1>3, <2>1 DEF Reminding!WebTakes
  <2>3. /\ Elements(Reminding!Taken(w)) \cap (web[w] \cup {c}) = {} /\ c # run[w].conn
        /\ run[w].conn \notin Elements(Reminding!Taken(w)) \cup (web[w] \cup {c})
        /\ web[w] \cup {c} \subseteq Reminding!Connections(w)
    BY <1>2, Checkout DEF WorkerFine
  <2>4. /\ run[w] \in Reminding!Run(w) /\ (run[w].pc = "idle" => run[w] = Reminding!NoRun)
        /\ run[w].pc = "record" => run[w].conn # Reminding!Nobody /\ run[w].at \in run[w].todo
    BY <1>2 DEF WorkerFine
  <2>5. Reminding!Taken(w) \in Seq(Reminding!Connections(w)) /\ Distinct(Reminding!Taken(w))
    BY <2>1, Checkout
  <2>. QED
    BY <2>1, <2>2, <2>3, <2>4, <2>5, OneWorker
<1>4. ASSUME NEW w \in Workers, Reminding!WebReturns(w)
      PROVE  PoolsInv'
  <2>1. PICK c \in web[w] :
          /\ web' = [web EXCEPT ![w] = web[w] \ {c}]
          /\ pool' = [pool EXCEPT ![w] = Reminding!Returned(pool[w], c)]
    BY <1>4 DEF Reminding!WebReturns
  <2>2. run' = [run EXCEPT ![w] = run[w]]
    BY <1>2, <1>4 DEF Reminding!WebReturns
  <2>3. /\ run[w] \in Reminding!Run(w) /\ (run[w].pc = "idle" => run[w] = Reminding!NoRun)
        /\ run[w].pc = "record" => run[w].conn # Reminding!Nobody /\ run[w].at \in run[w].todo
        /\ pool[w] \in Seq(Reminding!Connections(w)) /\ Distinct(pool[w])
        /\ c \in Reminding!Connections(w) /\ c \notin Elements(pool[w]) /\ c # run[w].conn
        /\ web[w] \ {c} \subseteq Reminding!Connections(w)
    BY <1>2 DEF WorkerFine
  <2>. DEFINE p == Reminding!Returned(pool[w], c)
  <2>4. /\ p \in Seq(Reminding!Connections(w)) /\ Distinct(p)
        /\ Elements(p) \subseteq Elements(pool[w]) \cup {c}
    BY <2>3, Return
  <2>5. Elements(p) \cap (web[w] \ {c}) = {} /\ run[w].conn \notin Elements(p) \cup (web[w] \ {c})
    BY <1>2, <2>3, <2>4 DEF WorkerFine
  <2>6. pool' = [pool EXCEPT ![w] = p]
    BY <2>1
  <2>. HIDE DEF p
  <2>. QED
    BY <2>1, <2>2, <2>3, <2>4, <2>5, <2>6, OneWorker
<1>5. ASSUME NEW w \in Workers, Reminding!LockTaken(w)
      PROVE  PoolsInv'
  <2>1. PICK c \in Reminding!Next1(w) :
          pool' = [pool EXCEPT ![w] = Reminding!Returned(Reminding!Taken(w), c)]
    BY <1>5 DEF Reminding!LockTaken
  <2>2. run' = [run EXCEPT ![w] = run[w]] /\ web' = [web EXCEPT ![w] = web[w]]
    BY <1>2, <1>5 DEF Reminding!LockTaken
  <2>3. /\ run[w] \in Reminding!Run(w) /\ (run[w].pc = "idle" => run[w] = Reminding!NoRun)
        /\ run[w].pc = "record" => run[w].conn # Reminding!Nobody /\ run[w].at \in run[w].todo
        /\ web[w] \subseteq Reminding!Connections(w)
    BY <1>2 DEF WorkerFine
  <2>. DEFINE p == Reminding!Returned(Reminding!Taken(w), c)
  <2>4. /\ p \in Seq(Reminding!Connections(w)) /\ Distinct(p)
        /\ Elements(p) \subseteq Elements(pool[w]) \cup {c}
    BY <2>1, Checkout, Return
  <2>5. Elements(p) \cap web[w] = {} /\ run[w].conn \notin Elements(p) \cup web[w]
    BY <1>2, <2>1, <2>4, Checkout DEF WorkerFine
  <2>6. pool' = [pool EXCEPT ![w] = p]
    BY <2>1
  <2>. HIDE DEF p
  <2>. QED
    BY <2>2, <2>3, <2>4, <2>5, <2>6, OneWorker
<1>6. ASSUME NEW w \in Workers, Reminding!_try_advisory_lock(w)
      PROVE  PoolsInv'
  <2>1. PICK c \in Reminding!Next1(w), q \in {"end", "send"} :
          run' = [run EXCEPT ![w] = [pc |-> q, todo |-> Reminding!Due, at |-> Reminding!Nobody, conn |-> c]]
    BY <1>6 DEF Reminding!_try_advisory_lock
  <2>2. pool' = [pool EXCEPT ![w] = Reminding!Taken(w)] /\ web' = [web EXCEPT ![w] = web[w]]
    BY <1>2, <1>6 DEF Reminding!_try_advisory_lock
  <2>. DEFINE r == [pc |-> q, todo |-> Reminding!Due, at |-> Reminding!Nobody, conn |-> c]
  <2>3. r \in Reminding!Run(w) /\ r.pc \notin {"idle", "record"} /\ r.conn = c
    BY Checkout DEF Reminding!Run, Reminding!Due, Reminding!DueNow
  <2>4. run' = [run EXCEPT ![w] = r]
    BY <2>1
  <2>. HIDE DEF r
  <2>5. /\ c \in Reminding!Connections(w) /\ c # Reminding!Nobody /\ web[w] \subseteq Reminding!Connections(w)
        /\ Elements(Reminding!Taken(w)) \cap web[w] = {} /\ c \notin Elements(Reminding!Taken(w)) \cup web[w]
    BY <1>2, <2>1, Checkout DEF WorkerFine
  <2>6. Reminding!Taken(w) \in Seq(Reminding!Connections(w)) /\ Distinct(Reminding!Taken(w))
    BY <2>1, Checkout
  <2>7. r.pc # "record" /\ r.conn \notin Elements(Reminding!Taken(w)) \cup web[w]
    BY <2>3, <2>5
  <2>. QED
    BY <2>2, <2>3, <2>4, <2>5, <2>6, <2>7, OneWorker
\* The run takes a connection, or goes on with the one it has.
<1>7. ASSUME NEW w \in Workers, NEW c \in Reminding!Connections(w), Reminding!Connected(w, c),
             NEW r \in Reminding!Run(w), r.pc # "idle", r.conn = c, run' = [run EXCEPT ![w] = r],
             r.pc = "record" => r.at \in r.todo, UNCHANGED web
      PROVE  PoolsInv'
  <2>1. web' = [web EXCEPT ![w] = web[w]]
    BY <1>2, <1>7
  <2>2. CASE run[w].conn # Reminding!Nobody
    <3>1. c = run[w].conn /\ pool' = [pool EXCEPT ![w] = pool[w]]
      BY <1>2, <1>7, <2>2 DEF Reminding!Connected
    <3>2. /\ pool[w] \in Seq(Reminding!Connections(w)) /\ Distinct(pool[w])
          /\ web[w] \subseteq Reminding!Connections(w) /\ Elements(pool[w]) \cap web[w] = {}
          /\ c \notin Elements(pool[w]) \cup web[w] /\ c # Reminding!Nobody
      BY <1>2, <1>7, <3>1 DEF WorkerFine
    <3>. PICK p : p = pool[w]
      OBVIOUS
    <3>3. r.conn \notin Elements(p) \cup web[w] /\ (r.pc = "record" => r.conn # Reminding!Nobody /\ r.at \in r.todo)
      BY <1>7, <3>2
    <3>. QED
      BY <1>7, <2>1, <3>1, <3>2, <3>3, OneWorker
  <2>3. CASE run[w].conn = Reminding!Nobody
    <3>1. c \in Reminding!Next1(w) /\ pool' = [pool EXCEPT ![w] = Reminding!Taken(w)]
      BY <1>7, <2>3 DEF Reminding!Connected
    <3>2. /\ Elements(Reminding!Taken(w)) \cap web[w] = {} /\ c # Reminding!Nobody
          /\ c \notin Elements(Reminding!Taken(w)) \cup web[w] /\ web[w] \subseteq Reminding!Connections(w)
      BY <1>2, <1>7, <3>1, Checkout DEF WorkerFine
    <3>3. Reminding!Taken(w) \in Seq(Reminding!Connections(w)) /\ Distinct(Reminding!Taken(w))
      BY <3>1, Checkout
    <3>. PICK p : p = Reminding!Taken(w)
      OBVIOUS
    <3>4. r.conn \notin Elements(p) \cup web[w] /\ (r.pc = "record" => r.conn # Reminding!Nobody /\ r.at \in r.todo)
      BY <1>7, <3>2
    <3>. QED
      BY <1>7, <2>1, <3>1, <3>2, <3>3, <3>4, OneWorker
  <2>. QED
    BY <2>2, <2>3
<1>8. ASSUME NEW w \in Workers, Reminding!Send(w)
      PROVE  PoolsInv'
  <2>1. PICK k \in Reminding!Turn(run[w]), c \in Reminding!Connections(w) :
          /\ Reminding!Connected(w, c)
          /\ run' = [run EXCEPT ![w] = [run[w] EXCEPT !.pc = "record", !.at = k, !.conn = c]]
    BY <1>8 DEF Reminding!Send
  <2>. DEFINE r == [run[w] EXCEPT !.pc = "record", !.at = k, !.conn = c]
  <2>2. k \in run[w].todo /\ k \in Reminding!Attempts
    BY <1>2, TurnIsLowest
  <2>3. r \in Reminding!Run(w) /\ r.pc = "record" /\ r.conn = c /\ r.at \in r.todo
    BY <1>2, <2>2 DEF Reminding!Run, WorkerFine
  <2>4. run' = [run EXCEPT ![w] = r] /\ UNCHANGED web
    BY <1>8, <2>1 DEF Reminding!Send
  <2>. HIDE DEF r
  <2>. QED
    BY <1>7, <2>1, <2>3, <2>4
<1>9. ASSUME NEW w \in Workers, Reminding!SendFails(w)
      PROVE  PoolsInv'
  <2>1. PICK c \in Reminding!Connections(w) :
          /\ Reminding!Connected(w, c)
          /\ run' = [run EXCEPT ![w] = [Reminding!NoRun EXCEPT !.pc = "end", !.conn = c]]
    BY <1>9 DEF Reminding!SendFails
  <2>. DEFINE r == [Reminding!NoRun EXCEPT !.pc = "end", !.conn = c]
  <2>2. r \in Reminding!Run(w) /\ r.pc = "end" /\ r.conn = c
    BY DEF Reminding!Run, Reminding!NoRun
  <2>3. run' = [run EXCEPT ![w] = r] /\ UNCHANGED web
    BY <1>9, <2>1 DEF Reminding!SendFails
  <2>. HIDE DEF r
  <2>. QED
    BY <1>7, <2>1, <2>2, <2>3
\* A run without a connection at hand, and one that came back to the pool p.
<1>10. ASSUME NEW w \in Workers, NEW r \in Reminding!Run(w), r.conn = Reminding!Nobody,
              r.pc = "idle" => r = Reminding!NoRun, r.pc # "record",
              NEW p \in Seq(Reminding!Connections(w)), Distinct(p), Elements(p) \subseteq Elements(pool[w]),
              NEW c \in Reminding!Connections(w), c \notin Elements(p), c \notin web[w],
              run' = [run EXCEPT ![w] = r], pool' = [pool EXCEPT ![w] = Reminding!Returned(p, c)],
              UNCHANGED web
       PROVE  PoolsInv'
  <2>1. web' = [web EXCEPT ![w] = web[w]]
    BY <1>2, <1>10
  <2>2. /\ Reminding!Returned(p, c) \in Seq(Reminding!Connections(w))
        /\ Distinct(Reminding!Returned(p, c))
        /\ Elements(Reminding!Returned(p, c)) \subseteq Elements(p) \cup {c}
    BY <1>10, Return
  <2>3. Elements(p) \subseteq Reminding!Connections(w)
    BY <1>10 DEF Elements
  <2>4. /\ Elements(Reminding!Returned(p, c)) \cap web[w] = {}
        /\ r.conn \notin Elements(Reminding!Returned(p, c)) \cup web[w]
    BY <1>2, <1>10, <2>2, <2>3 DEF WorkerFine
  <2>5. web[w] \subseteq Reminding!Connections(w)
    BY <1>2 DEF WorkerFine
  <2>. QED
    BY <1>10, <2>1, <2>2, <2>4, <2>5, OneWorker
<1>11. ASSUME NEW w \in Workers, Reminding!_record_sent(w)
       PROVE  PoolsInv'
  <2>1. PICK t \in SUBSET run[w].todo, q \in {"end", "send"} :
          run' = [run EXCEPT ![w] = [pc |-> q, todo |-> t, at |-> run[w].at, conn |-> Reminding!Nobody]]
    BY <1>11 DEF Reminding!_record_sent
  <2>. DEFINE r == [pc |-> q, todo |-> t, at |-> run[w].at, conn |-> Reminding!Nobody]
  <2>2. r \in Reminding!Run(w) /\ r.pc \notin {"idle", "record"} /\ r.conn = Reminding!Nobody
    BY <1>2, <2>1 DEF Reminding!Run
  <2>3. /\ run' = [run EXCEPT ![w] = r] /\ UNCHANGED web
        /\ pool' = [pool EXCEPT ![w] = Reminding!Returned(pool[w], run[w].conn)]
    BY <1>11, <2>1 DEF Reminding!_record_sent
  <2>4. run[w].conn \in Reminding!Connections(w)
    BY <1>2, <1>11 DEF WorkerFine, Reminding!_record_sent
  <2>. HIDE DEF r
  <2>. QED
    BY <1>2, <1>10, <2>2, <2>3, <2>4 DEF WorkerFine
<1>12. ASSUME NEW w \in Workers, Reminding!RecordFails(w)
       PROVE  PoolsInv'
  <2>1. /\ run' = [run EXCEPT ![w] = Reminding!NoRun] /\ UNCHANGED web
        /\ pool' = [pool EXCEPT ![w] = Reminding!Returned(pool[w], run[w].conn)]
        /\ run[w].conn \in Reminding!Connections(w)
    BY <1>2, <1>12 DEF WorkerFine, Reminding!RecordFails
  <2>. QED
    BY <1>2, <1>10, <2>1 DEF WorkerFine
<1>13. ASSUME NEW w \in Workers, Reminding!_release_advisory_lock(w)
       PROVE  PoolsInv'
  <2>1. run' = [run EXCEPT ![w] = Reminding!NoRun] /\ UNCHANGED web
    BY <1>13 DEF Reminding!_release_advisory_lock
  <2>2. CASE run[w].conn # Reminding!Nobody
    <3>1. pool' = [pool EXCEPT ![w] = Reminding!Returned(pool[w], run[w].conn)]
      BY <1>13, <2>2 DEF Reminding!_release_advisory_lock
    <3>. QED
      BY <1>2, <1>10, <2>1, <2>2, <3>1 DEF WorkerFine
  <2>3. CASE run[w].conn = Reminding!Nobody
    <3>1. PICK c \in Reminding!Next1(w) :
            pool' = [pool EXCEPT ![w] = Reminding!Returned(Reminding!Taken(w), c)]
      BY <1>13, <2>3 DEF Reminding!_release_advisory_lock
    <3>. QED
      BY <1>2, <1>10, <2>1, <3>1, Checkout
  <2>. QED
    BY <2>2, <2>3
<1>14. ASSUME NEW w \in Workers, Reminding!Crash(w)
       PROVE  PoolsInv'
  <2>. DEFINE p == [n \in 1 .. PoolSize |-> <<w, n>>]
  <2>1. /\ run' = [run EXCEPT ![w] = Reminding!NoRun] /\ pool' = [pool EXCEPT ![w] = p]
        /\ web' = [web EXCEPT ![w] = {}]
    BY <1>14 DEF Reminding!Crash
  <2>2. PoolSize \in Nat /\ MaxOverflow \in Nat
    BY RemindingAssumption DEF Reminding!RemindersAssumption
  <2>3. \A n \in 1 .. PoolSize : <<w, n>> \in Reminding!Connections(w)
    BY <2>2 DEF Reminding!Connections
  <2>4. /\ p \in Seq(Reminding!Connections(w)) /\ Distinct(p)
        /\ Elements(p) \subseteq Reminding!Connections(w)
    BY <2>2, <2>3 DEF Distinct, Elements
  <2>. HIDE DEF p
  <2>5. /\ Reminding!NoRun \in Reminding!Run(w) /\ Reminding!NoRun.conn \notin Elements(p) \cup {}
        /\ Reminding!NoRun.pc # "record" /\ Elements(p) \cap {} = {} /\ {} \subseteq Reminding!Connections(w)
    BY <1>2, <2>4
  <2>. QED
    BY <2>1, <2>4, <2>5, OneWorker
<1>15. ASSUME NEW w \in Workers, Reminding!PoolTimeout(w)
       PROVE  PoolsInv'
  <2>. DEFINE e == [Reminding!NoRun EXCEPT !.pc = "end"]
  <2>1. /\ e \in Reminding!Run(w) /\ e.conn = Reminding!Nobody /\ e.pc = "end"
        /\ UNCHANGED <<pool, web>>
    BY <1>15 DEF Reminding!Run, Reminding!NoRun, Reminding!PoolTimeout
  <2>2. PICK r \in {Reminding!NoRun, e} : run' = [run EXCEPT ![w] = r]
    BY <1>15 DEF Reminding!PoolTimeout
  <2>. HIDE DEF e
  <2>3. /\ r \in Reminding!Run(w) /\ (r.pc = "idle" => r = Reminding!NoRun) /\ r.pc # "record"
        /\ r.conn = Reminding!Nobody
    BY <1>2, <2>1
  <2>4. /\ pool[w] \in Seq(Reminding!Connections(w)) /\ web[w] \subseteq Reminding!Connections(w)
        /\ Distinct(pool[w]) /\ Elements(pool[w]) \cap web[w] = {}
        /\ Elements(pool[w]) \subseteq Reminding!Connections(w)
    BY <1>2 DEF WorkerFine, Elements
  <2>5. /\ r.conn \notin Elements(pool[w]) \cup web[w]
        /\ pool' = [pool EXCEPT ![w] = pool[w]] /\ web' = [web EXCEPT ![w] = web[w]]
    BY <1>2, <2>1, <2>3, <2>4
  <2>. QED
    BY <2>2, <2>3, <2>4, <2>5, OneWorker
<1>16. ASSUME Reminding!Tick \/ Reminding!Midnight
              \/ \E e \in Employments : Reminding!Completes(e) \/ Reminding!Corrected(e)
       PROVE  UNCHANGED <<run, pool, web>>
  BY <1>16 DEF Reminding!Tick, Reminding!Midnight, Reminding!Completes, Reminding!Corrected
<1>. QED
  BY <1>1, <1>3, <1>4, <1>5, <1>6, <1>8, <1>9, <1>11, <1>12, <1>13, <1>14, <1>15, <1>16
  DEF Reminding!Next, Reminding!WorkerStep, reminderVars

-----------------------------------------------------------------------------
(* Reminders: the lock and the log. *)

\* Cardinalities of sets of workers.
N(S) == Reminding!Cardinality(S)

LEMMA Counts ==
  ASSUME NEW S \in SUBSET Workers
  PROVE  /\ N(S) \in Nat /\ (S = {} => N(S) = 0)
         /\ \A T \in SUBSET S : N(T) <= N(S)
         /\ \A w \in Workers \ S : N(S \cup {w}) = N(S) + 1
         /\ \A w \in S : N(S \ {w}) = N(S) - 1
<1>1. \A T : N(T) = Cardinality(T)
  BY DEF N, Reminding!Cardinality, Cardinality, Reminding!IsFiniteSet, IsFiniteSet
<1>2. IsFiniteSet(Workers)
  BY RemindingAssumption DEF Reminding!RemindersAssumption, Reminding!IsFiniteSet, IsFiniteSet
<1>3. IsFiniteSet(S)
  BY <1>2, FS_Subset
<1>4. Cardinality(S) \in Nat
  BY <1>3, FS_CardinalityType
<1>5. S = {} => Cardinality(S) = 0
  BY FS_EmptySet
<1>6. \A T \in SUBSET S : Cardinality(T) <= Cardinality(S)
  BY <1>3, FS_Subset
<1>7. \A w \in Workers \ S : Cardinality(S \cup {w}) = Cardinality(S) + 1
  BY <1>3, FS_AddElement
<1>8. \A w \in S : Cardinality(S \ {w}) = Cardinality(S) - 1
  BY <1>3, FS_RemoveElement
<1>. QED
  BY <1>1, <1>4, <1>5, <1>6, <1>7, <1>8

\* Disjoint sets of workers within a third.
LEMMA Apart ==
  ASSUME NEW S \in SUBSET Workers, NEW A \in SUBSET S, NEW B \in SUBSET S, A \cap B = {}
  PROVE  N(A) + N(B) <= N(S)
<1>1. \A T : N(T) = Cardinality(T)
  BY DEF N, Reminding!Cardinality, Cardinality, Reminding!IsFiniteSet, IsFiniteSet
<1>2. IsFiniteSet(Workers)
  BY RemindingAssumption DEF Reminding!RemindersAssumption, Reminding!IsFiniteSet, IsFiniteSet
<1>3. IsFiniteSet(A) /\ IsFiniteSet(B) /\ A \cup B \in SUBSET S
  BY <1>2, FS_Subset
<1>4. Cardinality(A \cup B) = Cardinality(A) + Cardinality(B) - Cardinality(A \cap B)
  BY <1>3, FS_Union
<1>5. Cardinality(A \cap B) = 0
  BY FS_EmptySet
<1>6. N(A \cup B) <= N(S) /\ N(A) \in Nat /\ N(B) \in Nat
  BY <1>3, Counts
<1>. QED
  BY <1>1, <1>4, <1>5, <1>6

\* What MailsCounted says of one attempt.
Counted(k) ==
  /\ k \notin recorded => mails[k] <= faults + N(Reminding!Recording(k))
  /\ mails[k] + N(Reminding!Waiting(k)) <= 1 + faults + drops
  /\ k \in recorded \/ Reminding!Recording(k) # {} => mails[k] > 0

LogInv ==
  /\ time \in Nat /\ faults \in Nat /\ drops \in Nat
  /\ recorded \subseteq Reminding!Attempts /\ mails \in [Reminding!Attempts -> Nat]
  /\ depth \in Nat /\ (depth = 0 <=> holder = Reminding!Nobody)
  /\ N(Reminding!Detached) <= drops
  /\ Reminding!TodoOpen /\ Reminding!InOrder
  /\ \A k \in Reminding!Attempts : Counted(k)

LEMMA WorkerSets ==
  /\ Reminding!Detached \in SUBSET Workers /\ Reminding!Running \in SUBSET Workers
  /\ \A k : /\ Reminding!Recording(k) \in SUBSET Workers /\ Reminding!Waiting(k) \in SUBSET Workers
            /\ Reminding!Recording(k) \cap Reminding!Waiting(k) = {}
BY DEF Reminding!Detached, Reminding!Running, Reminding!Recording, Reminding!Waiting

\* The lock after a step.
Lock1 == N(Reminding!Detached) <= drops /\ depth \in Nat /\ (depth = 0 <=> holder = Reminding!Nobody)

\* A lock that stays or goes detaches at most the worker whose connection had it.
LEMMA LockMoves ==
  ASSUME LogInv, NEW w \in Workers, drops' \in {drops, drops + 1},
         holder' = holder \/ (holder' = Reminding!Nobody /\ holder \in Reminding!Connections(w)),
         depth' \in Nat, depth' = 0 <=> holder' = Reminding!Nobody,
         Reminding!Running' \subseteq Reminding!Running,
         holder' # holder /\ w \in Reminding!Running' => drops' = drops + 1
  PROVE  Lock1'
<1>1. /\ Reminding!Detached \in SUBSET Workers /\ Reminding!Detached' \in SUBSET Workers
      /\ drops \in Nat /\ N(Reminding!Detached) <= drops /\ N(Reminding!Detached) \in Nat
  BY WorkerSets, Counts DEF LogInv, Reminding!Detached, Reminding!Running
<1>2. \A v \in Reminding!Detached' : v # w \/ holder' = holder => v \in Reminding!Detached
  BY ConnectionsApart DEF Reminding!Detached, Reminding!Running
<1>3. CASE Reminding!Detached' \subseteq Reminding!Detached
  <2>1. N(Reminding!Detached') <= N(Reminding!Detached) /\ N(Reminding!Detached') \in Nat
    BY <1>1, <1>3, Counts
  <2>2. N(Reminding!Detached') <= drops'
    BY <1>1, <2>1
  <2>. QED
    BY <2>2 DEF Lock1, N
<1>4. CASE ~(Reminding!Detached' \subseteq Reminding!Detached)
  <2>1. /\ w \in Reminding!Running' /\ drops' = drops + 1 /\ w \notin Reminding!Detached
        /\ Reminding!Detached' \subseteq Reminding!Detached \cup {w}
    BY <1>2, <1>4 DEF Reminding!Detached
  <2>2. N(Reminding!Detached \cup {w}) = N(Reminding!Detached) + 1
    BY <1>1, <2>1, Counts
  <2>3. Reminding!Detached \cup {w} \in SUBSET Workers
    BY <1>1
  <2>4. N(Reminding!Detached') <= N(Reminding!Detached \cup {w}) /\ N(Reminding!Detached') \in Nat
    BY <1>1, <2>1, <2>3, Counts
  <2>5. N(Reminding!Detached') <= drops'
    BY <1>1, <2>1, <2>2, <2>4
  <2>. QED
    BY <2>5 DEF Lock1, N
<1>. QED
  BY <1>3, <1>4

\* The run of one worker changes.
LEMMA OthersRun ==
  ASSUME PoolsInv, NEW w \in Workers, NEW r, run' = [run EXCEPT ![w] = r]
  PROVE  run'[w] = r /\ \A v \in Workers : v # w => run'[v] = run[v]
BY DEF PoolsInv

LEMMA OneRun ==
  ASSUME PoolsInv, LogInv, NEW w \in Workers, NEW r, run' = [run EXCEPT ![w] = r]
  PROVE  /\ r.pc = "idle" => Reminding!Running' = Reminding!Running \ {w}
         /\ r.pc # "idle" => Reminding!Running' = Reminding!Running \cup {w}
         /\ ( /\ recorded \subseteq recorded'
              /\ \A k \in r.todo : k[2] > 1 => Reminding!Before1(k) \in recorded' \cup r.todo )
            => Reminding!TodoOpen'
<1>1. run'[w] = r /\ \A v \in Workers : v # w => run'[v] = run[v]
  BY OthersRun
<1>2. /\ r.pc = "idle" => Reminding!Running' = Reminding!Running \ {w}
      /\ r.pc # "idle" => Reminding!Running' = Reminding!Running \cup {w}
  BY <1>1 DEF Reminding!Running
<1>3. ( /\ recorded \subseteq recorded'
        /\ \A k \in r.todo : k[2] > 1 => Reminding!Before1(k) \in recorded' \cup r.todo )
      => Reminding!TodoOpen'
  BY <1>1 DEF LogInv, Reminding!TodoOpen, Reminding!Before1
<1>. QED
  BY <1>2, <1>3

\* Runs and mails stay as they are.
LEMMA LogQuiet ==
  ASSUME LogInv, UNCHANGED <<recorded, mails, run, faults>>, time' \in Nat,
         drops' \in {drops, drops + 1}, Lock1'
  PROVE  LogInv'
<1>1. Reminding!TodoOpen' /\ Reminding!InOrder'
  BY DEF LogInv, Reminding!TodoOpen, Reminding!Before1, Reminding!InOrder
<1>2. ASSUME NEW k \in Reminding!Attempts
      PROVE  Counted(k)'
  <2>1. Reminding!Recording(k)' = Reminding!Recording(k) /\ Reminding!Waiting(k)' = Reminding!Waiting(k)
    BY DEF Reminding!Recording, Reminding!Waiting
  <2>2. Counted(k) /\ N(Reminding!Waiting(k)) \in Nat /\ mails[k] \in Nat /\ faults \in Nat /\ drops \in Nat
    BY WorkerSets, Counts DEF LogInv
  <2>3. /\ N(Reminding!Recording(k))' = N(Reminding!Recording(k))
        /\ N(Reminding!Waiting(k))' = N(Reminding!Waiting(k))
    BY <2>1 DEF N
  <2>. QED
    BY <2>1, <2>2, <2>3 DEF Counted
<1>3. N(Reminding!Detached)' <= drops' /\ depth' \in Nat /\ (depth' = 0 <=> holder' = Reminding!Nobody)
  BY DEF Lock1
<1>4. time' \in Nat /\ faults' \in Nat /\ drops' \in Nat
  BY DEF LogInv
<1>5. recorded' \subseteq Reminding!Attempts /\ mails' \in [Reminding!Attempts -> Nat]
  BY DEF LogInv
<1>. QED
  BY <1>1, <1>2, <1>3, <1>4, <1>5 DEF LogInv

\* A run gives up what it has to do: released, timed out, refused, or crashed.
LEMMA LogLeaves ==
  ASSUME PoolsInv, LogInv, NEW w \in Workers, NEW r, run' = [run EXCEPT ![w] = r],
         r.todo = {}, r.pc # "record", Lock1', UNCHANGED <<time, recorded, mails, drops>>,
         faults' \in {faults, faults + 1},
         faults' = faults => run[w].pc # "record" \/ run[w].at \in recorded
  PROVE  LogInv'
<1>1. Reminding!TodoOpen'
  BY OneRun
<1>2. ASSUME NEW k \in Reminding!Attempts
      PROVE  Counted(k)'
  <2>1. /\ Reminding!Recording(k)' = Reminding!Recording(k) \ {w}
        /\ Reminding!Waiting(k)' \subseteq Reminding!Waiting(k)
    BY OthersRun DEF Reminding!Recording, Reminding!Waiting
  <2>2. /\ Counted(k) /\ mails[k] \in Nat /\ faults \in Nat /\ drops \in Nat
        /\ N(Reminding!Waiting(k)) \in Nat /\ N(Reminding!Recording(k)) \in Nat
    BY WorkerSets, Counts DEF LogInv
  <2>3. N(Reminding!Waiting(k)') <= N(Reminding!Waiting(k)) /\ N(Reminding!Waiting(k)') \in Nat
    BY <2>1, WorkerSets, Counts
  <2>4. /\ N(Reminding!Recording(k)') \in Nat
        /\ N(Reminding!Recording(k)') \in {N(Reminding!Recording(k)), N(Reminding!Recording(k)) - 1}
        /\ k \notin recorded /\ faults' = faults => N(Reminding!Recording(k)') = N(Reminding!Recording(k))
    <3>1. Reminding!Recording(k) \in SUBSET Workers /\ Reminding!Recording(k)' \in SUBSET Workers
      BY <2>1, WorkerSets
    <3>2. w \in Reminding!Recording(k) => run[w].pc = "record" /\ run[w].at = k
      BY DEF Reminding!Recording
    <3>3. w \notin Reminding!Recording(k) => Reminding!Recording(k)' = Reminding!Recording(k)
      BY <2>1
    <3>4. w \in Reminding!Recording(k) => N(Reminding!Recording(k)') = N(Reminding!Recording(k)) - 1
      BY <2>1, <3>1, Counts
    <3>5. N(Reminding!Recording(k)') \in Nat
      BY <3>1, Counts
    <3>. QED
      BY <3>2, <3>3, <3>4, <3>5
  <2>5. mails[k] <= faults + N(Reminding!Recording(k)) \/ k \in recorded
    BY <2>2 DEF Counted
  <2>6. k \notin recorded => mails[k] <= faults' + N(Reminding!Recording(k)')
    BY <2>2, <2>4, <2>5
  <2>7. mails[k] + N(Reminding!Waiting(k)') <= 1 + faults' + drops
    BY <2>2, <2>3 DEF Counted
  <2>8. k \in recorded \/ Reminding!Recording(k)' # {} => mails[k] > 0
    BY <2>1, <2>2 DEF Counted
  <2>. QED
    BY <2>6, <2>7, <2>8 DEF Counted, N
<1>3. N(Reminding!Detached)' <= drops' /\ depth' \in Nat /\ (depth' = 0 <=> holder' = Reminding!Nobody)
  BY DEF Lock1
<1>4. time' \in Nat /\ faults' \in Nat /\ drops' \in Nat
  BY DEF LogInv
<1>5. recorded' \subseteq Reminding!Attempts /\ mails' \in [Reminding!Attempts -> Nat] /\ Reminding!InOrder'
  BY DEF LogInv, Reminding!InOrder
<1>. QED
  BY <1>1, <1>2, <1>3, <1>4, <1>5 DEF LogInv

\* A run starts with what is due.  The lock was nobody's or its own worker's, so every other
\* run goes on without it: there are at most drops of them.
LEMMA LogStarts ==
  ASSUME PoolsInv, LogInv, NEW w \in Workers, Reminding!_try_advisory_lock(w)
  PROVE  LogInv'
<1>. USE DEF Reminding!day, Reminding!log
<1>1. PICK c \in Reminding!Next1(w), q \in {"end", "send"} :
        /\ run' = [run EXCEPT ![w] = [pc |-> q, todo |-> Reminding!Due, at |-> Reminding!Nobody, conn |-> c]]
        /\ holder \in {Reminding!Nobody, c} /\ holder' = c /\ depth' = depth + 1
  BY DEF Reminding!_try_advisory_lock
<1>2. UNCHANGED <<time, recorded, mails, faults, drops>> /\ run[w].pc = "idle"
  BY DEF Reminding!_try_advisory_lock
<1>3. c \in Reminding!Connections(w) /\ c # Reminding!Nobody
  BY Checkout, ConnectionsApart
<1>. DEFINE r == [pc |-> q, todo |-> Reminding!Due, at |-> Reminding!Nobody, conn |-> c]
<1>4. r.pc \notin {"record", "idle"} /\ r.todo = Reminding!Due /\ run' = [run EXCEPT ![w] = r]
  BY <1>1
<1>. HIDE DEF r
<1>5. \A k \in Reminding!Due : k[2] > 1 => Reminding!Before1(k) \in recorded \cup Reminding!Due
  <2>1. SUFFICES ASSUME NEW k \in Reminding!Due, k[2] > 1
                 PROVE  Reminding!Before1(k) \in Reminding!DueNow
    BY DEF Reminding!Due
  <2>2. /\ k \in Reminding!Attempts /\ time # Reminding!Over /\ missing[k[1]]
        /\ k[2] <= Reminding!_scheduled_attempt_count(time)
    BY DEF Reminding!Due, Reminding!DueNow
  <2>3. Reminding!_scheduled_attempt_count(time) \in Nat
    BY RemindingAssumption DEF LogInv, Reminding!RemindersAssumption, Reminding!_scheduled_attempt_count, Reminding!Min2
  <2>4. /\ Reminding!Before1(k) \in Reminding!Attempts
        /\ Reminding!Before1(k)[1] = k[1] /\ Reminding!Before1(k)[2] = k[2] - 1
    BY <2>1, <2>2, AttemptTypes
  <2>5. Reminding!Before1(k)[2] <= Reminding!_scheduled_attempt_count(time)
    BY <2>2, <2>3, <2>4, AttemptTypes
  <2>. QED
    BY <2>2, <2>4, <2>5 DEF Reminding!DueNow
<1>6. Reminding!TodoOpen'
  BY <1>2, <1>4, <1>5, OneRun
<1>7. Reminding!Running' = Reminding!Running \cup {w} /\ w \notin Reminding!Running
  BY <1>2, <1>4, OneRun DEF Reminding!Running
<1>8. Reminding!Running = Reminding!Detached /\ Reminding!Detached' \subseteq Reminding!Detached
  <2>1. \A v \in Reminding!Running : holder \notin Reminding!Connections(v)
    BY <1>1, <1>3, <1>7, ConnectionsApart DEF Reminding!Running
  <2>. QED
    BY <1>1, <1>3, <1>7, <2>1 DEF Reminding!Detached
<1>9. /\ N(Reminding!Detached) \in Nat /\ N(Reminding!Detached) <= drops /\ drops \in Nat /\ faults \in Nat
      /\ N(Reminding!Detached') \in Nat /\ N(Reminding!Detached') <= N(Reminding!Detached)
      /\ N(Reminding!Running') = 1 + N(Reminding!Detached) /\ Reminding!Running' \in SUBSET Workers
  <2>1. Reminding!Detached \in SUBSET Workers /\ Reminding!Detached' \in SUBSET Workers
    BY <1>8, WorkerSets
  <2>2. N(Reminding!Detached \cup {w}) = N(Reminding!Detached) + 1 /\ N(Reminding!Detached) \in Nat
    BY <1>7, <1>8, <2>1, Counts
  <2>3. N(Reminding!Detached') \in Nat /\ N(Reminding!Detached') <= N(Reminding!Detached)
    BY <1>8, <2>1, Counts
  <2>. QED
    BY <1>7, <1>8, <2>1, <2>2, <2>3 DEF LogInv
<1>10. ASSUME NEW k \in Reminding!Attempts
       PROVE  Counted(k)'
  <2>1. /\ Reminding!Recording(k)' = Reminding!Recording(k)
        /\ Reminding!Waiting(k)' \subseteq Reminding!Waiting(k) \cup {w}
        /\ k \notin Reminding!Due => Reminding!Waiting(k)' = Reminding!Waiting(k)
    <3>1. w \notin Reminding!Recording(k) /\ w \notin Reminding!Waiting(k)
      BY <1>2 DEF PoolsInv, WorkerFine, Reminding!NoRun, Reminding!Recording, Reminding!Waiting
    <3>2. Reminding!Recording(k)' = Reminding!Recording(k)
      BY <1>4, <3>1, OthersRun DEF Reminding!Recording
    <3>3. Reminding!Waiting(k)' \subseteq Reminding!Waiting(k) \cup {w}
      BY <1>4, <3>1, OthersRun DEF Reminding!Recording, Reminding!Waiting
    <3>4. k \notin Reminding!Due => Reminding!Waiting(k)' = Reminding!Waiting(k)
      BY <1>4, <3>1, OthersRun DEF Reminding!Recording, Reminding!Waiting
    <3>. QED
      BY <3>2, <3>3, <3>4
  <2>2. /\ Counted(k) /\ mails[k] \in Nat
        /\ N(Reminding!Waiting(k)) \in Nat /\ N(Reminding!Recording(k)) \in Nat
    BY WorkerSets, Counts DEF LogInv
  <2>3. mails[k] + N(Reminding!Waiting(k)') <= 1 + faults + drops
    <3>1. CASE k \notin Reminding!Due
      <4>1. Reminding!Waiting(k)' = Reminding!Waiting(k)
        BY <2>1, <3>1
      <4>. QED
        BY <2>2, <4>1 DEF Counted
    <3>2. CASE k \in Reminding!Due
      <4>1. mails[k] <= faults + N(Reminding!Recording(k))
        BY <2>2, <3>2 DEF Counted, Reminding!Due
      <4>2. Reminding!Recording(k) \subseteq Reminding!Running /\ Reminding!Waiting(k) \subseteq Reminding!Running
        BY DEF PoolsInv, WorkerFine, Reminding!NoRun, Reminding!Running, Reminding!Recording, Reminding!Waiting
      <4>3. /\ Reminding!Recording(k) \in SUBSET (Reminding!Running')
            /\ Reminding!Waiting(k)' \in SUBSET (Reminding!Running')
            /\ Reminding!Recording(k) \cap Reminding!Waiting(k)' = {}
        BY <1>7, <2>1, <4>2, WorkerSets
      <4>4. N(Reminding!Recording(k)) + N(Reminding!Waiting(k)') <= N(Reminding!Running')
        BY <1>9, <4>3, Apart
      <4>5. N(Reminding!Waiting(k)') \in Nat
        BY <1>9, <4>3, Counts
      <4>. QED
        BY <1>9, <2>2, <4>1, <4>4, <4>5
    <3>. QED
      BY <3>1, <3>2
  <2>. QED
    BY <1>2, <2>1, <2>2, <2>3 DEF Counted, N
<1>11. N(Reminding!Detached)' <= drops'
  <2>1. N(Reminding!Detached') <= drops'
    BY <1>2, <1>9
  <2>. QED
    BY <2>1 DEF N
<1>12. depth' \in Nat /\ (depth' = 0 <=> holder' = Reminding!Nobody)
  BY <1>1, <1>3 DEF LogInv
<1>13. /\ time' \in Nat /\ faults' \in Nat /\ drops' \in Nat /\ Reminding!InOrder'
       /\ recorded' \subseteq Reminding!Attempts /\ mails' \in [Reminding!Attempts -> Nat]
  BY <1>2 DEF LogInv, Reminding!InOrder
<1>. QED
  BY <1>6, <1>10, <1>11, <1>12, <1>13 DEF LogInv

\* The attempt a run mails has the one before it recorded.
LEMMA MailsNext ==
  ASSUME PoolsInv, LogInv, NEW w \in Workers, NEW k \in Reminding!Turn(run[w]), Reminding!Mailed(k)
  PROVE  /\ k \in Reminding!Attempts /\ k \in run[w].todo
         /\ mails' \in [Reminding!Attempts -> Nat] /\ mails'[k] = mails[k] + 1
         /\ \A j \in Reminding!Attempts : j # k => mails'[j] = mails[j]
         /\ Reminding!InOrder'
<1>1. run[w].todo \subseteq Reminding!Attempts
  BY DEF PoolsInv, WorkerFine, Reminding!Run
<1>2. k \in Reminding!Attempts /\ k \in run[w].todo /\ (k[2] > 1 => Reminding!Before1(k) \notin run[w].todo)
  BY <1>1, TurnIsLowest
<1>3. /\ mails' \in [Reminding!Attempts -> Nat] /\ mails'[k] = mails[k] + 1
      /\ \A j \in Reminding!Attempts : j # k => mails'[j] = mails[j]
  BY <1>2 DEF LogInv, Reminding!Mailed
<1>4. k[2] > 1 => mails[<<k[1], k[2] - 1>>] > 0
  <2>1. SUFFICES ASSUME k[2] > 1
                 PROVE  mails[Reminding!Before1(k)] > 0
    BY DEF Reminding!Before1
  <2>2. Reminding!Before1(k) \in recorded /\ Reminding!Before1(k) \in Reminding!Attempts
    BY <1>2, <2>1, AttemptTypes DEF LogInv, Reminding!TodoOpen
  <2>. QED
    BY <2>2 DEF LogInv, Counted
<1>5. Reminding!InOrder'
  <2>1. SUFFICES ASSUME NEW j \in Reminding!Attempts, j[2] > 1, mails'[j] > 0
                 PROVE  mails'[<<j[1], j[2] - 1>>] > 0
    BY DEF Reminding!InOrder
  <2>2. mails[<<j[1], j[2] - 1>>] > 0
    BY <1>3, <1>4, <2>1 DEF LogInv, Reminding!InOrder
  <2>3. <<j[1], j[2] - 1>> \in Reminding!Attempts
    BY <2>1, AttemptTypes DEF Reminding!Before1
  <2>. QED
    BY <1>2, <1>3, <2>2, <2>3 DEF LogInv
<1>. QED
  BY <1>2, <1>3, <1>5

LEMMA LogSend ==
  ASSUME PoolsInv, LogInv, NEW w \in Workers, Reminding!Send(w)
  PROVE  LogInv'
<1>. USE DEF Reminding!day
<1>1. PICK k \in Reminding!Turn(run[w]), c \in Reminding!Connections(w) :
        /\ Reminding!Mailed(k)
        /\ run' = [run EXCEPT ![w] = [run[w] EXCEPT !.pc = "record", !.at = k, !.conn = c]]
  BY DEF Reminding!Send
<1>2. UNCHANGED <<time, recorded, holder, depth, faults, drops>> /\ run[w].pc = "send"
  BY DEF Reminding!Send
<1>. DEFINE r == [run[w] EXCEPT !.pc = "record", !.at = k, !.conn = c]
<1>3. r.pc = "record" /\ r.todo = run[w].todo /\ r.at = k /\ run' = [run EXCEPT ![w] = r]
  BY <1>1 DEF PoolsInv, WorkerFine, Reminding!Run
<1>. HIDE DEF r
<1>4. /\ k \in Reminding!Attempts /\ k \in run[w].todo
      /\ mails' \in [Reminding!Attempts -> Nat] /\ mails'[k] = mails[k] + 1
      /\ \A j \in Reminding!Attempts : j # k => mails'[j] = mails[j]
      /\ Reminding!InOrder'
  BY <1>1, MailsNext
<1>5. Reminding!TodoOpen'
  <2>1. \A j \in run[w].todo : j[2] > 1 => Reminding!Before1(j) \in recorded \cup run[w].todo
    BY DEF LogInv, Reminding!TodoOpen
  <2>. QED
    BY <1>2, <1>3, <2>1, OneRun
<1>6. ASSUME NEW j \in Reminding!Attempts
      PROVE  Counted(j)'
  <2>1. /\ w \notin Reminding!Recording(j) /\ (w \in Reminding!Waiting(j) <=> j \in run[w].todo)
        /\ j = k => /\ Reminding!Recording(j)' = Reminding!Recording(j) \cup {w}
                    /\ Reminding!Waiting(j)' = Reminding!Waiting(j) \ {w}
        /\ j # k => /\ Reminding!Recording(j)' = Reminding!Recording(j)
                    /\ Reminding!Waiting(j)' = Reminding!Waiting(j)
    <3>1. w \notin Reminding!Recording(j) /\ (w \in Reminding!Waiting(j) <=> j \in run[w].todo)
      BY <1>2 DEF Reminding!Recording, Reminding!Waiting
    <3>2. /\ j = k => Reminding!Recording(j)' = Reminding!Recording(j) \cup {w}
          /\ j # k => Reminding!Recording(j)' = Reminding!Recording(j)
      <4>1. \A v \in Workers : v \in Reminding!Recording(j)' <=> v \in Reminding!Recording(j) \/ (v = w /\ j = k)
        BY <1>3, <3>1, OthersRun DEF Reminding!Recording
      <4>2. Reminding!Recording(j) \subseteq Workers /\ Reminding!Recording(j)' \subseteq Workers
        BY DEF Reminding!Recording
      <4>. QED
        BY <4>1, <4>2
    <3>3. j = k => Reminding!Waiting(j)' = Reminding!Waiting(j) \ {w}
      BY <1>3, OthersRun DEF Reminding!Recording, Reminding!Waiting
    <3>4. j # k => Reminding!Waiting(j)' = Reminding!Waiting(j)
      BY <1>2, <1>3, OthersRun DEF Reminding!Recording, Reminding!Waiting
    <3>. QED
      BY <3>1, <3>2, <3>3, <3>4
  <2>2. /\ Counted(j) /\ mails[j] \in Nat /\ faults \in Nat /\ drops \in Nat
        /\ N(Reminding!Waiting(j)) \in Nat /\ N(Reminding!Recording(j)) \in Nat
    BY WorkerSets, Counts DEF LogInv
  <2>3. CASE j # k
    <3>1. /\ Reminding!Recording(j)' = Reminding!Recording(j) /\ Reminding!Waiting(j)' = Reminding!Waiting(j)
          /\ mails'[j] = mails[j]
      BY <1>4, <2>1, <2>3
    <3>. QED
      BY <1>2, <2>2, <3>1 DEF Counted, N
  <2>4. CASE j = k
    <3>1. N(Reminding!Recording(j)') = N(Reminding!Recording(j)) + 1
      BY <2>1, <2>4, WorkerSets, Counts
    <3>2. N(Reminding!Waiting(j)') = N(Reminding!Waiting(j)) - 1
      BY <1>4, <2>1, <2>4, WorkerSets, Counts
    <3>3. /\ j \notin recorded => mails'[j] <= faults + N(Reminding!Recording(j)')
          /\ mails'[j] + N(Reminding!Waiting(j)') <= 1 + faults + drops
          /\ mails'[j] > 0
      BY <1>4, <2>2, <2>4, <3>1, <3>2 DEF Counted
    <3>. QED
      BY <1>2, <3>3 DEF Counted, N
  <2>. QED
    BY <2>3, <2>4
<1>7. Reminding!Running' \subseteq Reminding!Running
  BY <1>2, <1>3, OneRun DEF Reminding!Running
<1>8. Lock1'
  BY <1>2, <1>7, LockMoves DEF LogInv
<1>9. N(Reminding!Detached)' <= drops' /\ depth' \in Nat /\ (depth' = 0 <=> holder' = Reminding!Nobody)
  BY <1>8 DEF Lock1
<1>10. time' \in Nat /\ faults' \in Nat /\ drops' \in Nat /\ recorded' \subseteq Reminding!Attempts
  BY <1>2 DEF LogInv
<1>. QED
  BY <1>4, <1>5, <1>6, <1>9, <1>10 DEF LogInv

LEMMA LogSendFails ==
  ASSUME PoolsInv, LogInv, NEW w \in Workers, Reminding!SendFails(w)
  PROVE  LogInv'
<1>. USE DEF Reminding!day
<1>1. PICK k \in Reminding!Turn(run[w]), c \in Reminding!Connections(w) :
        /\ UNCHANGED <<mails, faults>> \/ (faults' = faults + 1 /\ Reminding!Mailed(k))
        /\ run' = [run EXCEPT ![w] = [Reminding!NoRun EXCEPT !.pc = "end", !.conn = c]]
  BY DEF Reminding!SendFails
<1>2. UNCHANGED <<time, recorded, holder, depth, drops>> /\ run[w].pc = "send"
  BY DEF Reminding!SendFails
<1>. DEFINE r == [Reminding!NoRun EXCEPT !.pc = "end", !.conn = c]
<1>3. r.pc = "end" /\ r.todo = {} /\ run' = [run EXCEPT ![w] = r]
  BY <1>1 DEF Reminding!NoRun
<1>. HIDE DEF r
<1>4. Reminding!Running' \subseteq Reminding!Running
  BY <1>2, <1>3, OneRun DEF Reminding!Running
<1>5. Lock1'
  BY <1>2, <1>4, LockMoves DEF LogInv
<1>6. CASE UNCHANGED <<mails, faults>>
  BY <1>2, <1>3, <1>5, <1>6, LogLeaves
<1>7. CASE faults' = faults + 1 /\ Reminding!Mailed(k)
  <2>1. /\ k \in Reminding!Attempts /\ k \in run[w].todo
        /\ mails' \in [Reminding!Attempts -> Nat] /\ mails'[k] = mails[k] + 1
        /\ \A j \in Reminding!Attempts : j # k => mails'[j] = mails[j]
        /\ Reminding!InOrder'
    BY <1>7, MailsNext
  <2>2. Reminding!TodoOpen'
    BY <1>2, <1>3, OneRun
  <2>3. ASSUME NEW j \in Reminding!Attempts
        PROVE  Counted(j)'
    <3>1. Reminding!Recording(j)' = Reminding!Recording(j) /\ Reminding!Waiting(j)' \subseteq Reminding!Waiting(j)
      <4>1. w \notin Reminding!Recording(j)
        BY <1>2 DEF Reminding!Recording
      <4>. QED
        BY <1>3, <4>1, OthersRun DEF Reminding!Recording, Reminding!Waiting
    <3>2. /\ Counted(j) /\ mails[j] \in Nat /\ faults \in Nat /\ drops \in Nat
          /\ N(Reminding!Waiting(j)) \in Nat /\ N(Reminding!Recording(j)) \in Nat
      BY WorkerSets, Counts DEF LogInv
    <3>3. N(Reminding!Waiting(j)') <= N(Reminding!Waiting(j)) /\ N(Reminding!Waiting(j)') \in Nat
      BY <3>1, WorkerSets, Counts
    <3>4. mails'[j] \in {mails[j], mails[j] + 1}
      BY <2>1
    <3>5. /\ j \notin recorded => mails'[j] <= faults' + N(Reminding!Recording(j))
          /\ mails'[j] + N(Reminding!Waiting(j)') <= 1 + faults' + drops
          /\ j \in recorded \/ Reminding!Recording(j) # {} => mails'[j] > 0
      BY <1>7, <3>2, <3>3, <3>4 DEF Counted
    <3>. QED
      BY <1>2, <3>1, <3>5 DEF Counted, N
  <2>4. N(Reminding!Detached)' <= drops' /\ depth' \in Nat /\ (depth' = 0 <=> holder' = Reminding!Nobody)
    BY <1>5 DEF Lock1
  <2>5. time' \in Nat /\ faults' \in Nat /\ drops' \in Nat /\ recorded' \subseteq Reminding!Attempts
    BY <1>2, <1>7 DEF LogInv
  <2>. QED
    BY <2>1, <2>2, <2>3, <2>4, <2>5 DEF LogInv
<1>. QED
  BY <1>1, <1>6, <1>7

\* A connection of worker w is given back.
LEMMA LockReturned ==
  ASSUME LogInv, NEW w \in Workers, NEW c \in Reminding!Connections(w), NEW p,
         Reminding!LockAfter(p, c, holder, depth)
  PROVE  /\ holder' = holder \/ (holder' = Reminding!Nobody /\ holder \in Reminding!Connections(w))
         /\ depth' \in Nat /\ (depth' = 0 <=> holder' = Reminding!Nobody)
         /\ holder' # holder => Reminding!Closes(p, c, holder)
BY DEF LogInv, Reminding!LockAfter, Reminding!Closes

LEMMA LogRecord ==
  ASSUME PoolsInv, LogInv, NEW w \in Workers, Reminding!_record_sent(w)
  PROVE  LogInv'
<1>. USE DEF Reminding!day
<1>. PICK k : k = run[w].at
  OBVIOUS
<1>1. PICK q \in {"end", "send"} :
        /\ recorded' = recorded \cup {k}
        /\ run' = [run EXCEPT ![w] = [pc |-> q, todo |-> run[w].todo \ {k}, at |-> k, conn |-> Reminding!Nobody]]
  BY DEF Reminding!_record_sent
<1>2. /\ UNCHANGED <<time, mails, faults>> /\ run[w].pc = "record"
      /\ Reminding!LockAfter(pool[w], run[w].conn, holder, depth) /\ Reminding!Dropped(w, run[w].conn)
  BY DEF Reminding!_record_sent
<1>. DEFINE r == [pc |-> q, todo |-> run[w].todo \ {k}, at |-> k, conn |-> Reminding!Nobody]
<1>3. r.pc \notin {"record", "idle"} /\ r.todo = run[w].todo \ {k} /\ run' = [run EXCEPT ![w] = r]
  BY <1>1
<1>. HIDE DEF r
<1>4. k \in run[w].todo /\ k \in Reminding!Attempts /\ run[w].conn \in Reminding!Connections(w)
  BY <1>2 DEF PoolsInv, WorkerFine, Reminding!Run
<1>5. Reminding!TodoOpen'
  <2>1. \A j \in run[w].todo : j[2] > 1 => Reminding!Before1(j) \in recorded \cup run[w].todo
    BY DEF LogInv, Reminding!TodoOpen
  <2>2. \A j \in r.todo : j[2] > 1 => Reminding!Before1(j) \in recorded' \cup r.todo
    BY <1>1, <1>3, <2>1
  <2>. QED
    BY <1>1, <1>3, <2>2, OneRun
<1>6. drops' \in {drops, drops + 1} /\ drops \in Nat
  BY <1>2 DEF LogInv, Reminding!Dropped
<1>7. Lock1'
  <2>1. Reminding!Running' \subseteq Reminding!Running
    BY <1>2, <1>3, OneRun DEF Reminding!Running
  <2>2. holder' # holder => drops' = drops + 1
    BY <1>2, <1>4, LockReturned DEF Reminding!Dropped
  <2>. QED
    BY <1>2, <1>4, <1>6, <2>1, <2>2, LockReturned, LockMoves
<1>8. ASSUME NEW j \in Reminding!Attempts
      PROVE  Counted(j)'
  <2>1. /\ Reminding!Recording(j)' \subseteq Reminding!Recording(j)
        /\ j # k => Reminding!Recording(j)' = Reminding!Recording(j)
        /\ Reminding!Waiting(j)' \subseteq Reminding!Waiting(j)
        /\ j = k => w \in Reminding!Recording(j)
    <3>1. /\ w \in Reminding!Recording(j) <=> j = k
          /\ w \in Reminding!Waiting(j) <=> j \in run[w].todo /\ j # k
      BY <1>2 DEF Reminding!Recording, Reminding!Waiting
    <3>2. Reminding!Recording(j)' = Reminding!Recording(j) \ {w}
      <4>1. \A v \in Workers : v \in Reminding!Recording(j)' <=> v \in Reminding!Recording(j) /\ v # w
        BY <1>3, OthersRun DEF Reminding!Recording
      <4>2. Reminding!Recording(j) \subseteq Workers /\ Reminding!Recording(j)' \subseteq Workers
        BY DEF Reminding!Recording
      <4>. QED
        BY <4>1, <4>2
    <3>3. Reminding!Waiting(j)' \subseteq Reminding!Waiting(j)
      BY <1>2, <1>3, OthersRun DEF Reminding!Recording, Reminding!Waiting
    <3>. QED
      BY <3>1, <3>2, <3>3
  <2>2. /\ Counted(j) /\ mails[j] \in Nat /\ faults \in Nat
        /\ N(Reminding!Waiting(j)) \in Nat /\ N(Reminding!Recording(j)) \in Nat
    BY WorkerSets, Counts DEF LogInv
  <2>3. N(Reminding!Waiting(j)') <= N(Reminding!Waiting(j)) /\ N(Reminding!Waiting(j)') \in Nat
    BY <2>1, WorkerSets, Counts
  <2>4. j \notin recorded' => mails[j] <= faults + N(Reminding!Recording(j)')
    BY <1>1, <2>1, <2>2 DEF Counted
  <2>5. mails[j] + N(Reminding!Waiting(j)') <= 1 + faults + drops'
    BY <1>6, <2>2, <2>3 DEF Counted
  <2>6. j \in recorded' \/ Reminding!Recording(j)' # {} => mails[j] > 0
    BY <1>1, <2>1, <2>2 DEF Counted
  <2>. QED
    BY <1>2, <2>4, <2>5, <2>6 DEF Counted, N
<1>9. N(Reminding!Detached)' <= drops' /\ depth' \in Nat /\ (depth' = 0 <=> holder' = Reminding!Nobody)
  BY <1>7 DEF Lock1
<1>10. /\ time' \in Nat /\ faults' \in Nat /\ drops' \in Nat /\ Reminding!InOrder'
       /\ recorded' \subseteq Reminding!Attempts /\ mails' \in [Reminding!Attempts -> Nat]
  BY <1>1, <1>2, <1>4, <1>6 DEF LogInv, Reminding!InOrder
<1>. QED
  BY <1>5, <1>8, <1>9, <1>10 DEF LogInv

LEMMA LogEnds ==
  ASSUME PoolsInv, LogInv, NEW w \in Workers,
         \/ Reminding!RecordFails(w) \/ Reminding!_release_advisory_lock(w) \/ Reminding!Crash(w)
         \/ Reminding!PoolTimeout(w)
  PROVE  LogInv'
<1>. USE DEF Reminding!day, Reminding!log, Reminding!conns
<1>1. /\ Reminding!NoRun.todo = {} /\ Reminding!NoRun.pc = "idle"
      /\ [Reminding!NoRun EXCEPT !.pc = "end"].todo = {} /\ [Reminding!NoRun EXCEPT !.pc = "end"].pc = "end"
  BY DEF Reminding!NoRun
<1>2. run[w].conn \in Reminding!Connections(w) \cup {Reminding!Nobody}
  BY DEF PoolsInv, WorkerFine, Reminding!Run
<1>3. ASSUME run' = [run EXCEPT ![w] = Reminding!NoRun]
      PROVE  Reminding!Running' \subseteq Reminding!Running /\ w \notin Reminding!Running'
  BY <1>1, <1>3, OneRun
<1>4. CASE Reminding!RecordFails(w)
  <2>1. /\ run' = [run EXCEPT ![w] = Reminding!NoRun] /\ run[w].at \in recorded
        /\ UNCHANGED <<time, recorded, mails, drops, faults>>
        /\ Reminding!LockAfter(pool[w], run[w].conn, holder, depth) /\ run[w].pc = "record"
    BY <1>4 DEF Reminding!RecordFails
  <2>2. run[w].conn \in Reminding!Connections(w)
    BY <1>2, <2>1 DEF PoolsInv, WorkerFine
  <2>3. Lock1'
    BY <1>3, <2>1, <2>2, LockReturned, LockMoves
  <2>. QED
    BY <1>1, <2>1, <2>3, LogLeaves
<1>5. CASE Reminding!_release_advisory_lock(w)
  <2>1. /\ run' = [run EXCEPT ![w] = Reminding!NoRun] /\ run[w].pc = "end"
        /\ UNCHANGED <<time, recorded, mails, drops, faults>>
    BY <1>5 DEF Reminding!_release_advisory_lock
  <2>. DEFINE left(c) == IF holder = c THEN depth - 1 ELSE depth
  <2>2. PICK c \in Reminding!Connections(w), p \in {pool[w], Reminding!Taken(w)} :
          Reminding!LockAfter(p, c, IF left(c) = 0 THEN Reminding!Nobody ELSE holder, left(c))
    BY <1>2, <1>5, Checkout DEF Reminding!_release_advisory_lock
  <2>. PICK d : d = left(c)
    OBVIOUS
  <2>3. c # Reminding!Nobody /\ depth \in Nat /\ (depth = 0 <=> holder = Reminding!Nobody)
    BY ConnectionsApart DEF LogInv
  <2>4. d \in Nat /\ (d = 0 => holder = Reminding!Nobody \/ holder = c)
    BY <2>3
  <2>5. /\ holder' = holder \/ (holder' = Reminding!Nobody /\ holder \in Reminding!Connections(w))
        /\ depth' \in Nat /\ (depth' = 0 <=> holder' = Reminding!Nobody)
    BY <2>2, <2>3, <2>4 DEF Reminding!LockAfter, Reminding!Closes
  <2>6. Lock1'
    BY <1>3, <2>1, <2>5, LockMoves
  <2>. QED
    BY <1>1, <2>1, <2>6, LogLeaves
<1>6. CASE Reminding!Crash(w)
  <2>1. /\ run' = [run EXCEPT ![w] = Reminding!NoRun] /\ faults' = faults + 1 /\ faults' # faults
        /\ UNCHANGED <<time, recorded, mails, drops>>
    BY <1>6 DEF Reminding!Crash, LogInv
  <2>2. /\ holder' = holder \/ (holder' = Reminding!Nobody /\ holder \in Reminding!Connections(w))
        /\ depth' \in Nat /\ (depth' = 0 <=> holder' = Reminding!Nobody)
    BY <1>6 DEF Reminding!Crash, LogInv
  <2>3. Lock1'
    BY <1>3, <2>1, <2>2, LockMoves
  <2>. QED
    BY <1>1, <2>1, <2>3, LogLeaves
<1>7. CASE Reminding!PoolTimeout(w)
  <2>1. /\ run[w].pc \in {"send", "end"}
        /\ UNCHANGED <<time, recorded, mails, drops, faults, holder, depth>>
    BY <1>7 DEF Reminding!PoolTimeout
  <2>2. PICK r \in {Reminding!NoRun, [Reminding!NoRun EXCEPT !.pc = "end"]} : run' = [run EXCEPT ![w] = r]
    BY <1>7 DEF Reminding!PoolTimeout
  <2>3. r.todo = {} /\ r.pc # "record"
    BY <1>1, <2>2
  <2>4. Reminding!Running' \subseteq Reminding!Running
    BY <2>1, <2>2, OneRun DEF Reminding!Running
  <2>5. Lock1'
    BY <2>1, <2>4, LockMoves DEF LogInv
  <2>. QED
    BY <2>1, <2>2, <2>3, <2>5, LogLeaves
<1>. QED
  BY <1>4, <1>5, <1>6, <1>7

LEMMA LogStart == Reminding!Init => LogInv
<1>. SUFFICES ASSUME Reminding!Init
              PROVE  LogInv
  OBVIOUS
<1>1. /\ time = 0 /\ faults = 0 /\ drops = 0 /\ recorded = {} /\ mails = [k \in Reminding!Attempts |-> 0]
      /\ depth = 0 /\ holder = Reminding!Nobody
      /\ \A w \in Workers : run[w].pc = "idle" /\ run[w].todo = {}
  BY DEF Reminding!Init, Reminding!NoRun
<1>2. Reminding!Detached = {} /\ \A k : Reminding!Recording(k) = {} /\ Reminding!Waiting(k) = {}
  BY <1>1 DEF Reminding!Detached, Reminding!Running, Reminding!Recording, Reminding!Waiting
<1>3. N({}) = 0
  BY Counts
<1>4. Reminding!TodoOpen /\ Reminding!InOrder
  BY <1>1 DEF Reminding!TodoOpen, Reminding!InOrder
<1>5. \A k \in Reminding!Attempts : Counted(k)
  BY <1>1, <1>2, <1>3 DEF Counted
<1>. QED
  BY <1>1, <1>2, <1>3, <1>4, <1>5 DEF LogInv

LEMMA LogSafe ==
  ASSUME PoolsInv, LogInv, [Reminding!Next]_reminderVars
  PROVE  LogInv'
<1>. USE DEF Reminding!day, Reminding!log, Reminding!conns
<1>1. time \in Nat /\ drops \in Nat /\ MaxTime \in Nat /\ Reminding!Over \in Nat
  BY RemindingAssumption DEF LogInv, Reminding!RemindersAssumption, Reminding!Over
<1>2. ASSUME UNCHANGED <<recorded, mails, run, faults, drops, holder, depth>>, time' \in Nat
      PROVE  LogInv'
  <2>1. Reminding!Detached' = Reminding!Detached
    BY <1>2 DEF Reminding!Detached, Reminding!Running
  <2>2. Lock1'
    BY <1>2, <2>1 DEF LogInv, Lock1, N
  <2>. QED
    BY <1>1, <1>2, <2>2, LogQuiet
<1>3. CASE UNCHANGED reminderVars
  BY <1>1, <1>2, <1>3 DEF reminderVars
<1>4. CASE \/ Reminding!Tick \/ Reminding!Midnight
           \/ \E e \in Employments : Reminding!Completes(e) \/ Reminding!Corrected(e)
  <2>1. time' \in {time, time + 1, Reminding!Over}
    BY <1>4 DEF Reminding!Tick, Reminding!Midnight, Reminding!Completes, Reminding!Corrected
  <2>2. UNCHANGED <<recorded, mails, run, faults, drops, holder, depth>>
    BY <1>4 DEF Reminding!Tick, Reminding!Midnight, Reminding!Completes, Reminding!Corrected
  <2>. QED
    BY <1>1, <1>2, <2>1, <2>2
<1>5. ASSUME NEW w \in Workers, Reminding!LockTaken(w) \/ Reminding!WebTakes(w)
      PROVE  LogInv'
  BY <1>1, <1>2, <1>5 DEF Reminding!LockTaken, Reminding!WebTakes
<1>6. ASSUME NEW w \in Workers, Reminding!WebReturns(w)
      PROVE  LogInv'
  <2>1. PICK c \in web[w] : Reminding!LockAfter(pool[w], c, holder, depth) /\ Reminding!Dropped(w, c)
    BY <1>6 DEF Reminding!WebReturns
  <2>2. c \in Reminding!Connections(w)
    BY <2>1 DEF PoolsInv, WorkerFine
  <2>3. UNCHANGED <<time, recorded, mails, run, faults>> /\ Reminding!Running' = Reminding!Running
    BY <1>6 DEF Reminding!WebReturns, Reminding!Running
  <2>4. /\ drops' \in {drops, drops + 1}
        /\ holder' # holder /\ w \in Reminding!Running' => drops' = drops + 1
    BY <2>1, <2>2, <2>3, LockReturned DEF Reminding!Dropped, Reminding!Running
  <2>5. Lock1'
    BY <2>1, <2>2, <2>3, <2>4, LockReturned, LockMoves
  <2>. QED
    BY <1>1, <2>3, <2>4, <2>5, LogQuiet
<1>. QED
  BY <1>3, <1>4, <1>5, <1>6, LogEnds, LogStarts, LogSend, LogSendFails, LogRecord
  DEF Reminding!Next, Reminding!WorkerStep

\* A reminder is mailed once, and once more at most for every crash, every lost answer and
\* every running run whose lock went with a connection that the pool closed, and the
\* attempts of a series in their order, whatever the sizes of the pools and whatever
\* workers and web requests do (the advisory lock of attendance_reminders.py).
THEOREM RemindedOnceInOrder == Spec => []OnceInOrder
<1>1. Init => PoolsInv /\ LogInv
  BY PoolsStart, LogStart DEF Init
<1>2. PoolsInv /\ LogInv /\ [Next]_vars => (PoolsInv /\ LogInv)'
  BY RemindingOnly, PoolsSafe, LogSafe
<1>3. LogInv => OnceInOrder
  <2>1. ASSUME LogInv, NEW k \in Reminding!Attempts
        PROVE  mails[k] <= 1 + faults + drops
    <3>1. Counted(k) /\ N(Reminding!Waiting(k)) \in Nat /\ mails[k] \in Nat /\ faults \in Nat /\ drops \in Nat
      BY <2>1, WorkerSets, Counts DEF LogInv
    <3>. QED
      BY <3>1 DEF Counted
  <2>. QED
    BY <2>1 DEF LogInv, OnceInOrder, Reminding!MailsBounded
<1>. QED
  BY <1>1, <1>2, <1>3, PTL DEF Spec

-----------------------------------------------------------------------------
(* The lock of the shift plan. *)

LEMMA LockingOnly == [Next]_vars => [Locking!Next]_lockVars
BY DEF Next, vars, LockingStep, RemindingStep, GroupsStep

\* The smallest id of a nonempty set is one of its ids.
LEMMA SmallestId ==
  ASSUME NEW S \in SUBSET Employments, S # {}
  PROVE  Locking!Min(S) \in S
<1>. S \in SUBSET Nat
  BY LockingAssumption DEF Locking!AutoLockAssumption
<1>1. PICK m \in S : \A y \in S : ~ (<<y, m>> \in OpToRel(<, Nat))
  BY NatLessThanWellFounded, WFMin, Zenon
<1>2. OpToRel(<, Nat) = {p \in Nat \X Nat : p[1] < p[2]}
  BY Zenon DEF OpToRel
<1>3. \A y \in Nat : y < m => <<y, m>> \in {p \in Nat \X Nat : p[1] < p[2]}
  OBVIOUS
<1>4. \A y \in S : m <= y
  <2>. SUFFICES ASSUME NEW y \in S, y < m
                PROVE  FALSE
    OBVIOUS
  <2>. QED
    BY <1>1, <1>2, <1>3
<1>. QED
  BY <1>4 DEF Locking!Min

-----------------------------------------------------------------------------
(* Writers. *)

LEMMA WriterLocks ==
  ASSUME Locking!IInv, NEW w \in Writers, NEW e \in Employments,
         Locking!lock_employment_for_time_mutation(w, e)
  PROVE  Locking!IInv'
<1>. USE DEF Locking!IInv, Locking!tables
<1>1. /\ writer' = [writer EXCEPT ![w] = [pc |-> "locked", e |-> e]]
      /\ UNCHANGED <<emp, lock, plan, ran, admin, job>>
      /\ ~ Locking!ForUpdate(e) /\ ~ Locking!ForKeyShare(e)
  BY DEF Locking!lock_employment_for_time_mutation, Locking!Free
<1>2. /\ writer'[w] = [pc |-> "locked", e |-> e]
      /\ \A v \in Writers \ {w} : writer'[v] = writer[v]
  BY <1>1 DEF Locking!TypeOK
<1>3. Locking!TypeOK'
  BY <1>1 DEF Locking!TypeOK
<1>4. Locking!RowLocksExclude'
  BY <1>1, <1>2 DEF Locking!RowLocksExclude, Locking!ForUpdate, Locking!ForKeyShare
<1>5. Locking!ChecksHold'
  BY <1>1, <1>2 DEF Locking!ChecksHold
<1>6. Locking!JobsReadHolds'
  BY <1>1 DEF Locking!JobsReadHolds
<1>. QED
  BY <1>3, <1>4, <1>5, <1>6

\* A writer that lets its row go.
LEMMA WriterEnds ==
  ASSUME Locking!IInv, NEW w \in Writers, writer' = [writer EXCEPT ![w] = Locking!Idle],
         plan' \in [Employments -> 0 .. MaxWrites], UNCHANGED <<emp, lock, ran, admin, job>>
  PROVE  Locking!IInv'
<1>. USE DEF Locking!IInv
<1>1. /\ writer'[w] = Locking!Idle /\ writer'[w].pc = "idle"
      /\ \A v \in Writers \ {w} : writer'[v] = writer[v]
  BY DEF Locking!TypeOK, Locking!Idle
<1>2. Locking!TypeOK'
  BY DEF Locking!TypeOK
<1>3. Locking!RowLocksExclude'
  BY <1>1 DEF Locking!RowLocksExclude, Locking!ForUpdate
<1>4. Locking!ChecksHold'
  BY <1>1 DEF Locking!ChecksHold
<1>5. Locking!JobsReadHolds'
  BY DEF Locking!JobsReadHolds
<1>. QED
  BY <1>2, <1>3, <1>4, <1>5

LEMMA WriterChecks ==
  ASSUME Locking!IInv, NEW w \in Writers, Locking!ensure_month_unlocked(w)
  PROVE  Locking!IInv'
<1>. USE DEF Locking!IInv, Locking!tables, Locking!ensure_month_unlocked
<1>1. CASE Locking!MonthClosed(writer[w].e)
  BY <1>1, WriterEnds DEF Locking!TypeOK
<1>2. CASE ~ Locking!MonthClosed(writer[w].e)
  <2>1. writer[w] \in [pc : {"locked", "checked"}, e : Employments] /\ writer[w] # Locking!Idle
    BY DEF Locking!TypeOK, Locking!Idle
  <2>2. /\ writer'[w] = [writer[w] EXCEPT !.pc = "checked"]
        /\ \A v \in Writers \ {w} : writer'[v] = writer[v]
    BY <1>2 DEF Locking!TypeOK
  <2>3. writer'[w].e = writer[w].e
    BY <2>1, <2>2
  <2>4. Locking!TypeOK'
    BY <1>2, <2>1 DEF Locking!TypeOK
  <2>5. Locking!RowLocksExclude'
    BY <2>1, <2>2, <2>3 DEF Locking!RowLocksExclude, Locking!ForUpdate
  <2>6. Locking!ChecksHold'
    BY <1>2, <2>2, <2>3 DEF Locking!ChecksHold, Locking!MonthClosed
  <2>7. Locking!JobsReadHolds'
    BY DEF Locking!JobsReadHolds
  <2>. QED
    BY <2>4, <2>5, <2>6, <2>7
<1>. QED
  BY <1>1, <1>2

LEMMA WriterCommits ==
  ASSUME Locking!IInv, NEW w \in Writers, Locking!CommitPlan(w)
  PROVE  Locking!IInv'
<1>1. writer[w].e \in Employments
  BY DEF Locking!IInv, Locking!TypeOK, Locking!Idle, Locking!CommitPlan
<1>2. plan \in [Employments -> 0 .. MaxWrites] /\ MaxWrites \in Nat
  BY LockingAssumption DEF Locking!IInv, Locking!TypeOK, Locking!AutoLockAssumption
<1>3. plan[writer[w].e] + 1 \in 0 .. MaxWrites
  BY <1>1, <1>2 DEF Locking!CommitPlan
<1>4. plan' \in [Employments -> 0 .. MaxWrites]
  BY <1>2, <1>3 DEF Locking!CommitPlan
<1>. QED
  BY <1>4, WriterEnds DEF Locking!CommitPlan

-----------------------------------------------------------------------------
(* The administrator. *)

\* A request that begins or ends holds no row.
LEMMA AdminReleases ==
  ASSUME Locking!IInv, UNCHANGED <<emp, lock, plan, ran, writer, job>>,
         admin' \in [pc : {"idle", "locking"}, ids : SUBSET Employments,
                     held : {{}}, locked : BOOLEAN]
  PROVE  Locking!IInv'
<1>. USE DEF Locking!IInv
<1>1. admin'.held = {}
  OBVIOUS
<1>2. Locking!TypeOK'
  BY DEF Locking!TypeOK
<1>3. Locking!RowLocksExclude'
  BY <1>1 DEF Locking!RowLocksExclude, Locking!ForUpdate
<1>4. Locking!ChecksHold' /\ Locking!JobsReadHolds'
  BY DEF Locking!ChecksHold, Locking!JobsReadHolds
<1>. QED
  BY <1>2, <1>3, <1>4

LEMMA NoRequestTyped ==
  Locking!NoRequest \in [pc : {"idle", "locking"}, ids : SUBSET Employments,
                         held : {{}}, locked : BOOLEAN]
BY DEF Locking!NoRequest

LEMMA AdminLocks ==
  ASSUME Locking!IInv, Locking!LockEmployment
  PROVE  Locking!IInv'
<1>. DEFINE e == Locking!Min(admin.ids \ admin.held)
<1>. USE DEF Locking!IInv, Locking!tables
<1>1. /\ UNCHANGED <<emp, lock, plan, ran, writer, job>>
      /\ \/ admin' = Locking!NoRequest
         \/ /\ ~ Locking!ForUpdate(e) /\ ~ Locking!ForKeyShare(e)
            /\ admin' = [admin EXCEPT !.held = @ \cup {e}]
  BY DEF Locking!LockEmployment, Locking!Free
<1>2. CASE admin' = Locking!NoRequest
  BY <1>1, <1>2, NoRequestTyped, AdminReleases
<1>3. CASE /\ ~ Locking!ForUpdate(e) /\ ~ Locking!ForKeyShare(e)
           /\ admin' = [admin EXCEPT !.held = @ \cup {e}]
  <2>1. e \in admin.ids
    <3>1. admin.ids \ admin.held \in SUBSET Employments /\ admin.ids \ admin.held # {}
      BY DEF Locking!TypeOK, Locking!LockEmployment
    <3>. QED
      BY <3>1, SmallestId
  <2>2. admin'.held = admin.held \cup {e} /\ admin'.ids = admin.ids
    BY <1>3 DEF Locking!TypeOK
  <2>3. Locking!TypeOK'
    BY <1>1, <1>3, <2>1, <2>2 DEF Locking!TypeOK
  <2>4. Locking!RowLocksExclude'
    BY <1>1, <1>3, <2>2 DEF Locking!RowLocksExclude, Locking!ForUpdate, Locking!ForKeyShare
  <2>5. Locking!ChecksHold' /\ Locking!JobsReadHolds'
    BY <1>1 DEF Locking!ChecksHold, Locking!JobsReadHolds
  <2>. QED
    BY <2>3, <2>4, <2>5
<1>. QED
  BY <1>1, <1>2, <1>3

\* Rows that a job has read are marked in it as gone.
LEMMA DeletedTyped ==
  ASSUME Locking!TypeOK, NEW S \in SUBSET Employments, job' = Locking!Deleted(S)
  PROVE  /\ job' \in [Jobs -> [pc : {"idle", "active", "rows", "flushing", "ended"},
                         active : SUBSET Employments, rows : SUBSET Employments,
                         stale : SUBSET Employments, inserted : SUBSET Employments]]
         /\ \A j \in Jobs :
              /\ job'[j].pc = job[j].pc /\ job'[j].active = job[j].active
              /\ job'[j].rows = job[j].rows /\ job'[j].inserted = job[j].inserted
              /\ job'[j].stale = job[j].stale \cup (S \cap job[j].rows)
<1>. DEFINE D(j) == [job[j] EXCEPT !.stale = @ \cup (S \cap job[j].rows)]
<1>1. ASSUME NEW j \in Jobs
      PROVE  /\ D(j) \in [pc : {"idle", "active", "rows", "flushing", "ended"},
                         active : SUBSET Employments, rows : SUBSET Employments,
                         stale : SUBSET Employments, inserted : SUBSET Employments]
             /\ D(j).pc = job[j].pc /\ D(j).active = job[j].active
             /\ D(j).rows = job[j].rows /\ D(j).inserted = job[j].inserted
             /\ D(j).stale = job[j].stale \cup (S \cap job[j].rows)
  BY DEF Locking!TypeOK
<1>2. job' = [j \in Jobs |-> D(j)]
  BY DEF Locking!Deleted
<1>. HIDE DEF D
<1>. QED
  BY <1>1, <1>2

\* A step that opens the locks of S, which no job is updating and no writer has checked.
LEMMA LocksChange ==
  ASSUME Locking!IInv, NEW S \in SUBSET Employments,
         lock' \in [Employments -> {"open", "admin", "auto"}],
         \A e \in Employments : e \notin S /\ lock[e] # "open" => lock'[e] # "open",
         \A e \in S : ~ Locking!LockRowHeld(e),
         job' = Locking!Deleted(S)
  PROVE  \A j \in Jobs :
           /\ job'[j].pc \notin {"rows", "flushing"} => job'[j].rows = {}
           /\ \A e \in job'[j].rows \ job'[j].stale : lock'[e] # "open"
           /\ job'[j].stale \subseteq job'[j].rows
           /\ job'[j].pc = "flushing" => job'[j].stale = {}
<1>. TAKE j \in Jobs
<1>1. /\ job'[j].pc = job[j].pc
      /\ job'[j].rows = job[j].rows
      /\ job'[j].stale = job[j].stale \cup (S \cap job[j].rows)
  BY DeletedTyped DEF Locking!IInv
<1>2. job[j].rows \subseteq Employments
  BY DEF Locking!IInv, Locking!TypeOK
<1>3. job[j].pc = "flushing" => S \cap job[j].rows = {}
  BY DEF Locking!LockRowHeld
<1>. QED
  BY <1>1, <1>2, <1>3 DEF Locking!IInv, Locking!JobsReadHolds

\* The lock of the administrator's targets: every target is held by the request, so no
\* writer has checked it.
LEMMA AdminSetsLocks ==
  ASSUME Locking!IInv, Locking!admin_set_locks
  PROVE  Locking!IInv'
<1>. DEFINE Opened == IF admin.locked THEN {} ELSE {e \in Locking!Targets : lock[e] # "open"}
<1>1. /\ UNCHANGED <<emp, plan, ran, writer>> /\ admin' = Locking!NoRequest
      /\ admin.ids = admin.held
      /\ \A e \in Locking!Targets : ~ Locking!LockRowHeld(e)
  BY DEF Locking!admin_set_locks
<1>2. lock' = [e \in Employments |->
          IF e \notin Locking!Targets THEN lock[e] ELSE IF admin.locked THEN "admin" ELSE "open"]
  BY DEF Locking!admin_set_locks
<1>3. /\ Locking!Targets \subseteq Employments
      /\ \A e \in Locking!Targets : emp[e] = "valid" /\ e \in admin.held
  BY <1>1 DEF Locking!Targets, Locking!IInv, Locking!TypeOK
<1>4. /\ lock' \in [Employments -> {"open", "admin", "auto"}]
      /\ \A e \in Employments : emp'[e] = "none" => lock'[e] = "open"
  BY <1>1, <1>2, <1>3 DEF Locking!IInv, Locking!TypeOK
<1>5. /\ Opened \in SUBSET Employments
      /\ \A e \in Employments : e \notin Opened /\ lock[e] # "open" => lock'[e] # "open"
      /\ \A e \in Opened : ~ Locking!LockRowHeld(e)
  BY <1>1, <1>2, <1>3
<1>6. job' = Locking!Deleted(Opened)
  <2>1. CASE admin.locked
    <3>1. job' = job /\ Opened = {}
      BY <2>1 DEF Locking!admin_set_locks
    <3>2. ASSUME NEW j \in Jobs
          PROVE  [job[j] EXCEPT !.stale = @ \cup ({} \cap job[j].rows)] = job[j]
      BY DEF Locking!IInv, Locking!TypeOK
    <3>3. job = [j \in Jobs |-> job[j]]
      BY DEF Locking!IInv, Locking!TypeOK
    <3>. QED
      BY <3>1, <3>2, <3>3 DEF Locking!Deleted
  <2>2. CASE ~ admin.locked
    BY <2>2 DEF Locking!admin_set_locks
  <2>. QED
    BY <2>1, <2>2
<1>. HIDE DEF Opened
<1>7. Locking!TypeOK'
  BY <1>1, <1>4, <1>5, <1>6, DeletedTyped, NoRequestTyped DEF Locking!IInv, Locking!TypeOK, Locking!NoRequest
<1>8. Locking!RowLocksExclude'
  <2>1. admin'.held = {} /\ \A j \in Jobs : job'[j].inserted = job[j].inserted
    BY <1>1, <1>5, <1>6, DeletedTyped DEF Locking!IInv, Locking!NoRequest
  <2>. QED
    BY <1>1, <2>1 DEF Locking!IInv, Locking!RowLocksExclude, Locking!ForUpdate
<1>9. Locking!ChecksHold'
  <2>. SUFFICES ASSUME NEW w \in Writers, writer[w].pc = "checked"
                PROVE  emp[writer[w].e] = "valid" /\ lock'[writer[w].e] = "open"
    BY <1>1 DEF Locking!ChecksHold
  <2>1. writer[w] # Locking!Idle /\ writer[w].e \in Employments
    BY DEF Locking!IInv, Locking!TypeOK, Locking!Idle
  <2>2. writer[w].e \notin Locking!Targets
    BY <1>3, <2>1 DEF Locking!IInv, Locking!RowLocksExclude
  <2>. QED
    BY <1>2, <2>1, <2>2 DEF Locking!IInv, Locking!ChecksHold
<1>10. Locking!JobsReadHolds'
  <2>1. \A j \in Jobs : \A e \in job'[j].inserted : emp'[e] # "none"
    BY <1>1, <1>5, <1>6, DeletedTyped DEF Locking!IInv, Locking!JobsReadHolds
  <2>. QED
    BY <1>4, <1>5, <1>6, <2>1, LocksChange DEF Locking!JobsReadHolds
<1>. QED
  BY <1>7, <1>8, <1>9, <1>10 DEF Locking!IInv

\* A row that nobody holds, and whose lock no job is updating, changes its employment.
LEMMA EmploymentChanges ==
  ASSUME Locking!IInv, NEW e \in Employments, NEW s \in {"none", "valid", "ended"},
         Locking!SetEmployment(e, s)
  PROVE  Locking!IInv'
<1>1. /\ emp' = [emp EXCEPT ![e] = s] /\ UNCHANGED <<plan, ran, writer, admin>>
      /\ ~ Locking!ForUpdate(e) /\ ~ Locking!ForKeyShare(e) /\ ~ Locking!LockRowHeld(e)
  BY DEF Locking!SetEmployment, Locking!Free
<1>2. emp' \in [Employments -> {"none", "valid", "ended"}] /\ emp'[e] = s
      /\ \A f \in Employments \ {e} : emp'[f] = emp[f]
  BY <1>1 DEF Locking!IInv, Locking!TypeOK
<1>3. \A w \in Writers : writer[w] # Locking!Idle => writer[w].e # e
  BY <1>1 DEF Locking!ForUpdate
<1>4. \A w \in Writers : writer[w].pc = "checked" =>
         /\ writer[w].e \in Employments \ {e}
         /\ emp[writer[w].e] = "valid" /\ lock[writer[w].e] = "open"
  BY <1>3 DEF Locking!IInv, Locking!TypeOK, Locking!Idle, Locking!ChecksHold
<1>5. \A j \in Jobs : \A f \in job[j].inserted : f \in Employments /\ f # e /\ emp[f] # "none"
  BY <1>1 DEF Locking!IInv, Locking!TypeOK, Locking!ForKeyShare, Locking!JobsReadHolds
<1>6. CASE s = "valid"
  <2>1. UNCHANGED <<lock, job>>
    BY <1>6 DEF Locking!SetEmployment
  <2>2. Locking!TypeOK'
    BY <1>1, <1>2, <1>6, <2>1 DEF Locking!IInv, Locking!TypeOK
  <2>3. Locking!RowLocksExclude'
    BY <1>1, <2>1 DEF Locking!IInv, Locking!RowLocksExclude, Locking!ForUpdate
  <2>4. Locking!ChecksHold'
    BY <1>1, <1>2, <1>4, <2>1 DEF Locking!ChecksHold
  <2>5. Locking!JobsReadHolds'
    BY <1>2, <1>5, <2>1 DEF Locking!IInv, Locking!JobsReadHolds
  <2>. QED
    BY <2>2, <2>3, <2>4, <2>5 DEF Locking!IInv
<1>7. CASE s # "valid"
  <2>1. lock' = [lock EXCEPT ![e] = "open"] /\ job' = Locking!Deleted({e})
    BY <1>7 DEF Locking!SetEmployment
  <2>2. /\ lock' \in [Employments -> {"open", "admin", "auto"}] /\ lock'[e] = "open"
        /\ \A f \in Employments \ {e} : lock'[f] = lock[f]
    BY <2>1 DEF Locking!IInv, Locking!TypeOK
  <2>3. \A f \in Employments : emp'[f] = "none" => lock'[f] = "open"
    BY <1>2, <2>2 DEF Locking!IInv, Locking!TypeOK
  <2>. {e} \in SUBSET Employments
    OBVIOUS
  <2>4. Locking!TypeOK'
    <3>1. job' \in [Jobs -> [pc : {"idle", "active", "rows", "flushing", "ended"},
                         active : SUBSET Employments, rows : SUBSET Employments,
                         stale : SUBSET Employments, inserted : SUBSET Employments]]
      BY <2>1, DeletedTyped DEF Locking!IInv
    <3>. QED
      BY <1>1, <1>2, <2>2, <2>3, <3>1 DEF Locking!IInv, Locking!TypeOK
  <2>5. \A j \in Jobs : job'[j].inserted = job[j].inserted
    BY <2>1, DeletedTyped DEF Locking!IInv
  <2>6. Locking!RowLocksExclude'
    BY <1>1, <2>5 DEF Locking!IInv, Locking!RowLocksExclude, Locking!ForUpdate
  <2>7. Locking!ChecksHold'
    BY <1>1, <1>2, <1>4, <2>2 DEF Locking!ChecksHold
  <2>8. Locking!JobsReadHolds'
    <3>1. \A j \in Jobs : \A f \in job'[j].inserted : emp'[f] # "none"
      BY <1>2, <1>5, <2>5
    <3>2. \A f \in Employments : f \notin {e} /\ lock[f] # "open" => lock'[f] # "open"
      BY <2>2
    <3>3. \A f \in {e} : ~ Locking!LockRowHeld(f)
      BY <1>1
    <3>. QED
      BY <2>1, <2>2, <3>1, <3>2, <3>3, LocksChange DEF Locking!JobsReadHolds
  <2>. QED
    BY <2>4, <2>6, <2>7, <2>8 DEF Locking!IInv
<1>. QED
  BY <1>6, <1>7

-----------------------------------------------------------------------------
(* The job. *)

\* What a step of job i may do to its own record while the tables stay as they are.
JobKeeps(i, r) ==
  /\ r \in [pc : {"idle", "active", "rows", "flushing", "ended"},
            active : SUBSET Employments, rows : SUBSET Employments,
            stale : SUBSET Employments, inserted : SUBSET Employments]
  /\ \A e \in r.inserted : e \in job[i].inserted \/ (emp[e] # "none" /\ ~ Locking!ForUpdate(e))
  /\ r.pc \notin {"rows", "flushing"} => r.rows = {}
  /\ \A e \in r.rows \ r.stale : lock[e] # "open"
  /\ r.stale \subseteq r.rows
  /\ r.pc = "flushing" => r.stale = {}

LEMMA JobMoves ==
  ASSUME Locking!IInv, NEW i \in Jobs, NEW r, JobKeeps(i, r), job' = [job EXCEPT ![i] = r],
         UNCHANGED <<emp, lock, plan, ran, writer, admin>>
  PROVE  Locking!IInv'
<1>1. job'[i] = r /\ \A j \in Jobs \ {i} : job'[j] = job[j]
  BY DEF Locking!IInv, Locking!TypeOK
<1>2. Locking!TypeOK'
  BY DEF Locking!IInv, Locking!TypeOK, JobKeeps
<1>3. Locking!RowLocksExclude'
  BY <1>1 DEF Locking!IInv, Locking!RowLocksExclude, Locking!ForUpdate, JobKeeps
<1>4. Locking!ChecksHold'
  BY DEF Locking!IInv, Locking!ChecksHold
<1>5. Locking!JobsReadHolds'
  BY <1>1 DEF Locking!IInv, Locking!JobsReadHolds, JobKeeps
<1>. QED
  BY <1>2, <1>3, <1>4, <1>5 DEF Locking!IInv

LEMMA EndedJobKeeps ==
  ASSUME NEW i \in Jobs
  PROVE  JobKeeps(i, [Locking!NoJob EXCEPT !.pc = "ended"])
BY DEF JobKeeps, Locking!NoJob

LEMMA JobReadsEmployments ==
  ASSUME Locking!IInv, NEW i \in Jobs, Locking!ReadEmployments(i)
  PROVE  Locking!IInv'
<1>. DEFINE r == IF ran THEN [job[i] EXCEPT !.pc = "ended"]
                 ELSE [job[i] EXCEPT !.pc = "active", !.active = {e \in Employments : emp[e] = "valid"}]
<1>1. /\ job[i] \in [pc : {"idle", "active", "rows", "flushing", "ended"},
                     active : SUBSET Employments, rows : SUBSET Employments,
                     stale : SUBSET Employments, inserted : SUBSET Employments]
      /\ job[i].pc = "idle"
  BY DEF Locking!IInv, Locking!TypeOK, Locking!ReadEmployments
<1>2. job[i].rows = {} /\ job[i].stale = {}
  BY <1>1 DEF Locking!IInv, Locking!JobsReadHolds
<1>3. /\ r \in [pc : {"idle", "active", "rows", "flushing", "ended"},
                active : SUBSET Employments, rows : SUBSET Employments,
                stale : SUBSET Employments, inserted : SUBSET Employments]
      /\ r.pc \in {"ended", "active"} /\ r.rows = {} /\ r.stale = {}
      /\ r.inserted = job[i].inserted
  BY <1>1, <1>2
<1>4. job' = [job EXCEPT ![i] = r] /\ UNCHANGED <<emp, lock, plan, ran, writer, admin>>
  BY DEF Locking!ReadEmployments, Locking!tables
<1>. HIDE DEF r
<1>5. JobKeeps(i, r)
  BY <1>3 DEF JobKeeps
<1>. QED
  BY <1>4, <1>5, JobMoves

LEMMA JobReadsLocks ==
  ASSUME Locking!IInv, NEW i \in Jobs, Locking!ReadLocks(i)
  PROVE  Locking!IInv'
<1>. DEFINE rows == {e \in job[i].active : lock[e] # "open"}
            r == [job[i] EXCEPT !.pc = "rows", !.rows = rows]
<1>1. /\ job[i] \in [pc : {"idle", "active", "rows", "flushing", "ended"},
                     active : SUBSET Employments, rows : SUBSET Employments,
                     stale : SUBSET Employments, inserted : SUBSET Employments]
      /\ job[i].pc = "active"
  BY DEF Locking!IInv, Locking!TypeOK, Locking!ReadLocks
<1>2. job[i].rows = {} /\ job[i].stale = {}
  BY <1>1 DEF Locking!IInv, Locking!JobsReadHolds
<1>3. /\ r \in [pc : {"idle", "active", "rows", "flushing", "ended"},
                active : SUBSET Employments, rows : SUBSET Employments,
                stale : SUBSET Employments, inserted : SUBSET Employments]
      /\ r.pc = "rows" /\ r.rows = rows /\ r.stale = {} /\ r.inserted = job[i].inserted
  BY <1>1, <1>2
<1>4. job' = [job EXCEPT ![i] = r] /\ UNCHANGED <<emp, lock, plan, ran, writer, admin>>
  <2>1. job' = [job EXCEPT ![i].pc = "rows", ![i].rows = rows]
        /\ UNCHANGED <<emp, lock, plan, ran, writer, admin>>
    BY DEF Locking!ReadLocks, Locking!tables
  <2>. HIDE DEF rows
  <2>2. job \in [Jobs -> [pc : {"idle", "active", "rows", "flushing", "ended"},
                          active : SUBSET Employments, rows : SUBSET Employments,
                          stale : SUBSET Employments, inserted : SUBSET Employments]]
    BY DEF Locking!IInv, Locking!TypeOK
  <2>3. [job EXCEPT ![i].pc = "rows", ![i].rows = rows] = [job EXCEPT ![i] = r]
    BY <2>2
  <2>. QED
    BY <2>1, <2>3
<1>5. JobKeeps(i, r)
  <2>1. \A e \in r.rows : lock[e] # "open"
    BY <1>3
  <2>. HIDE DEF r
  <2>. QED
    BY <1>3, <2>1 DEF JobKeeps
<1>. HIDE DEF r
<1>. QED
  BY <1>4, <1>5, JobMoves

LEMMA JobUpdatesRows ==
  ASSUME Locking!IInv, NEW i \in Jobs, Locking!UpdateRows(i)
  PROVE  Locking!IInv'
<1>1. UNCHANGED <<emp, lock, plan, ran, writer, admin>> /\ job[i].pc = "rows"
  BY DEF Locking!UpdateRows, Locking!tables
<1>2. CASE job[i].stale # {}
  BY <1>1, <1>2, JobMoves, EndedJobKeeps DEF Locking!UpdateRows, Locking!JobFails
<1>3. CASE job[i].stale = {}
  <2>. DEFINE r == [job[i] EXCEPT !.pc = "flushing"]
  <2>1. job[i] \in [pc : {"idle", "active", "rows", "flushing", "ended"},
                    active : SUBSET Employments, rows : SUBSET Employments,
                    stale : SUBSET Employments, inserted : SUBSET Employments]
    BY DEF Locking!IInv, Locking!TypeOK
  <2>2. /\ r \in [pc : {"idle", "active", "rows", "flushing", "ended"},
                  active : SUBSET Employments, rows : SUBSET Employments,
                  stale : SUBSET Employments, inserted : SUBSET Employments]
        /\ r.pc = "flushing" /\ r.rows = job[i].rows /\ r.stale = {}
        /\ r.inserted = job[i].inserted
    BY <1>3, <2>1
  <2>3. job' = [job EXCEPT ![i] = r]
    BY <1>3 DEF Locking!UpdateRows, Locking!IInv, Locking!TypeOK
  <2>4. \A e \in job[i].rows : lock[e] # "open"
    BY <1>3 DEF Locking!IInv, Locking!JobsReadHolds
  <2>. HIDE DEF r
  <2>5. JobKeeps(i, r)
    BY <2>2, <2>4 DEF JobKeeps
  <2>. QED
    BY <1>1, <2>3, <2>5, JobMoves
<1>. QED
  BY <1>2, <1>3

LEMMA JobInserts ==
  ASSUME Locking!IInv, NEW i \in Jobs, Locking!set_month_lock_state_bulk(i)
  PROVE  Locking!IInv'
<1>. DEFINE e == Locking!Min(Locking!ToInsert(i))
<1>1. UNCHANGED <<emp, lock, plan, ran, writer, admin>>
      /\ job[i].pc = "flushing" /\ ~ Locking!ForUpdate(e)
  BY DEF Locking!set_month_lock_state_bulk, Locking!tables
<1>2. CASE Locking!JobFails(i)
  BY <1>1, <1>2, JobMoves, EndedJobKeeps DEF Locking!JobFails
<1>3. CASE emp[e] # "none" /\ job' = [job EXCEPT ![i].inserted = @ \cup {e}]
  <2>. DEFINE r == [job[i] EXCEPT !.inserted = @ \cup {e}]
  <2>1. job[i] \in [pc : {"idle", "active", "rows", "flushing", "ended"},
                    active : SUBSET Employments, rows : SUBSET Employments,
                    stale : SUBSET Employments, inserted : SUBSET Employments]
    BY DEF Locking!IInv, Locking!TypeOK
  <2>2. e \in Employments
    <3>1. Locking!ToInsert(i) \in SUBSET Employments /\ Locking!ToInsert(i) # {}
      BY <2>1 DEF Locking!ToInsert, Locking!set_month_lock_state_bulk
    <3>. QED
      BY <3>1, SmallestId
  <2>. HIDE DEF e
  <2>3. /\ r \in [pc : {"idle", "active", "rows", "flushing", "ended"},
                  active : SUBSET Employments, rows : SUBSET Employments,
                  stale : SUBSET Employments, inserted : SUBSET Employments]
        /\ r.pc = job[i].pc /\ r.rows = job[i].rows /\ r.stale = job[i].stale
        /\ r.inserted = job[i].inserted \cup {e}
    BY <2>1, <2>2
  <2>4. job' = [job EXCEPT ![i] = r]
    BY <1>3 DEF Locking!IInv, Locking!TypeOK
  <2>. HIDE DEF r
  <2>5. JobKeeps(i, r)
    BY <1>1, <1>3, <2>3 DEF JobKeeps, Locking!IInv, Locking!JobsReadHolds
  <2>. QED
    BY <1>1, <2>4, <2>5, JobMoves
<1>. QED
  BY <1>2, <1>3 DEF Locking!set_month_lock_state_bulk

\* What a job commits for: rows that are locked, and rows of employments that exist and
\* that no writer holds.
LEMMA CommitsFor ==
  ASSUME Locking!IInv, NEW i \in Jobs, Locking!CommitRun(i), NEW e \in job[i].active
  PROVE  /\ e \in Employments /\ emp[e] # "none"
         /\ \A w \in Writers : writer[w].pc = "checked" => writer[w].e # e
<1>1. job[i].active \subseteq Employments
  BY DEF Locking!IInv, Locking!TypeOK
<1>2. job[i].stale = {} /\ e \in job[i].rows \cup job[i].inserted
  BY DEF Locking!IInv, Locking!JobsReadHolds, Locking!CommitRun, Locking!ToInsert
<1>3. CASE e \in job[i].rows
  <2>1. lock[e] # "open"
    BY <1>2, <1>3 DEF Locking!IInv, Locking!JobsReadHolds
  <2>. QED
    BY <1>1, <2>1 DEF Locking!IInv, Locking!TypeOK, Locking!ChecksHold
<1>4. CASE e \in job[i].inserted
  <2>1. emp[e] # "none"
    BY <1>4 DEF Locking!IInv, Locking!JobsReadHolds
  <2>2. ~ Locking!ForUpdate(e)
    BY <1>4 DEF Locking!IInv, Locking!RowLocksExclude
  <2>. QED
    BY <1>1, <2>1, <2>2 DEF Locking!ForUpdate, Locking!Idle
<1>. QED
  BY <1>2, <1>3, <1>4

LEMMA JobCommits ==
  ASSUME Locking!IInv, NEW i \in Jobs, Locking!CommitRun(i)
  PROVE  Locking!IInv'
<1>. DEFINE r == [Locking!NoJob EXCEPT !.pc = "ended"]
<1>1. UNCHANGED <<emp, plan, writer, admin>> /\ ran' = TRUE /\ job' = [job EXCEPT ![i] = r]
  BY DEF Locking!CommitRun, Locking!JobFails
<1>2. /\ r \in [pc : {"idle", "active", "rows", "flushing", "ended"},
                active : SUBSET Employments, rows : SUBSET Employments,
                stale : SUBSET Employments, inserted : SUBSET Employments]
      /\ r.pc = "ended" /\ r.rows = {} /\ r.stale = {} /\ r.inserted = {}
  BY DEF Locking!NoJob
<1>. HIDE DEF r
<1>3. job'[i] = r /\ \A j \in Jobs \ {i} : job'[j] = job[j]
  BY <1>1 DEF Locking!IInv, Locking!TypeOK
<1>4. /\ lock' \in [Employments -> {"open", "admin", "auto"}]
      /\ \A e \in Employments : lock[e] # "open" => lock'[e] # "open"
      /\ \A e \in Employments \ job[i].active : lock'[e] = lock[e]
  BY DEF Locking!CommitRun, Locking!IInv, Locking!TypeOK
<1>5. Locking!TypeOK'
  <2>1. \A e \in Employments : emp'[e] = "none" => lock'[e] = "open"
    BY <1>1, <1>4, CommitsFor DEF Locking!IInv, Locking!TypeOK
  <2>. QED
    BY <1>1, <1>2, <1>4, <2>1 DEF Locking!IInv, Locking!TypeOK
<1>6. Locking!RowLocksExclude'
  BY <1>1, <1>2, <1>3 DEF Locking!IInv, Locking!RowLocksExclude, Locking!ForUpdate
<1>7. Locking!ChecksHold'
  <2>. SUFFICES ASSUME NEW w \in Writers, writer[w].pc = "checked"
                PROVE  emp[writer[w].e] = "valid" /\ lock'[writer[w].e] = "open"
    BY <1>1 DEF Locking!ChecksHold
  <2>1. writer[w].e \in Employments /\ writer[w].e \notin job[i].active
    BY CommitsFor DEF Locking!IInv, Locking!TypeOK, Locking!Idle
  <2>. QED
    BY <1>4, <2>1 DEF Locking!IInv, Locking!ChecksHold
<1>8. Locking!JobsReadHolds'
  <2>1. \A j \in Jobs : job[j].rows \subseteq Employments
    BY DEF Locking!IInv, Locking!TypeOK
  <2>. QED
    BY <1>1, <1>2, <1>3, <1>4, <2>1 DEF Locking!IInv, Locking!JobsReadHolds
<1>. QED
  BY <1>5, <1>6, <1>7, <1>8 DEF Locking!IInv

-----------------------------------------------------------------------------
(* The invariant. *)

LEMMA LockingStarts == Locking!Init => Locking!IInv
<1>. SUFFICES ASSUME Locking!Init
              PROVE  Locking!IInv
  OBVIOUS
<1>. USE DEF Locking!Init
<1>1. /\ Locking!NoJob \in [pc : {"idle", "active", "rows", "flushing", "ended"},
              active : SUBSET Employments, rows : SUBSET Employments,
              stale : SUBSET Employments, inserted : SUBSET Employments]
      /\ Locking!NoJob.pc = "idle" /\ Locking!NoJob.rows = {} /\ Locking!NoJob.stale = {}
      /\ Locking!NoJob.inserted = {}
  BY DEF Locking!NoJob
<1>2. Locking!Idle.pc = "idle"
  BY DEF Locking!Idle
<1>3. 0 \in 0 .. MaxWrites
  BY LockingAssumption DEF Locking!AutoLockAssumption
<1>4. admin.held = {} /\ admin.ids = {}
  BY DEF Locking!NoRequest
<1>5. Locking!TypeOK
  BY <1>1, <1>3, <1>4, NoRequestTyped DEF Locking!TypeOK
<1>6. Locking!RowLocksExclude /\ Locking!ChecksHold /\ Locking!JobsReadHolds
  BY <1>1, <1>2, <1>4 DEF Locking!RowLocksExclude, Locking!ChecksHold, Locking!JobsReadHolds
<1>. QED
  BY <1>5, <1>6 DEF Locking!IInv

LEMMA LockingInductive == Locking!IInv /\ [Next]_vars => Locking!IInv'
<1>. SUFFICES ASSUME Locking!IInv, [Locking!Next]_lockVars
              PROVE  Locking!IInv'
  BY LockingOnly
<1>1. CASE UNCHANGED lockVars
  BY <1>1 DEF lockVars, Locking!IInv, Locking!TypeOK, Locking!RowLocksExclude, Locking!ForUpdate,
              Locking!ChecksHold, Locking!JobsReadHolds
<1>2. ASSUME NEW w \in Writers, Locking!AbandonPlan(w)
      PROVE  Locking!IInv'
  BY <1>2, WriterEnds DEF Locking!AbandonPlan, Locking!tables, Locking!IInv, Locking!TypeOK
<1>3. ASSUME NEW S \in SUBSET Employments, NEW locked \in BOOLEAN, Locking!BeginSetLocks(S, locked)
      PROVE  Locking!IInv'
  BY <1>3, AdminReleases DEF Locking!BeginSetLocks, Locking!tables
<1>4. ASSUME NEW j \in Jobs, Locking!DeadlockVictim(j)
      PROVE  Locking!IInv'
  BY <1>4, NoRequestTyped, AdminReleases, EndedJobKeeps, JobMoves
     DEF Locking!DeadlockVictim, Locking!JobFails, Locking!tables
<1>. QED
  BY <1>1, <1>2, <1>3, <1>4, WriterLocks, WriterChecks, WriterCommits, AdminLocks, AdminSetsLocks,
     JobReadsEmployments, JobReadsLocks, JobUpdatesRows, JobInserts, JobCommits, EmploymentChanges
     DEF Locking!Next, Locking!WriterStep, Locking!JobStep

-----------------------------------------------------------------------------
(* The refinement: a plan is locked when its lock is not open. *)

LockedPlans == {e \in Employments : lock[e] # "open"}

LEMMA GuardStarts == Locking!Init => Locking!Guard!Init
BY DEF Locking!Init, Locking!Guard!Init

\* A writer that commits has the row since before it checked the lock.
LEMMA CommitWrites ==
  ASSUME Locking!IInv, NEW w \in Writers, Locking!CommitPlan(w)
  PROVE  Locking!Guard!Next
<1>1. /\ writer[w].e \in Employments
      /\ emp[writer[w].e] = "valid" /\ lock[writer[w].e] = "open"
  BY DEF Locking!IInv, Locking!TypeOK, Locking!Idle, Locking!ChecksHold, Locking!CommitPlan
<1>2. Locking!Guard!Write(writer[w].e)
  BY <1>1 DEF Locking!CommitPlan, Locking!Guard!Write
<1>. QED
  BY <1>1, <1>2 DEF Locking!Guard!Next

\* The targets of the administrator are locked or opened at once.
LEMMA AdminSetsAtOnce ==
  ASSUME Locking!IInv, Locking!admin_set_locks
  PROVE  Locking!Guard!Next
<1>1. PICK S \in SUBSET Employments, l \in BOOLEAN : S = Locking!Targets /\ l = admin.locked
  BY DEF Locking!Targets, Locking!IInv, Locking!TypeOK
<1>2. LockedPlans' = IF l THEN LockedPlans \cup S ELSE LockedPlans \ S
  BY <1>1 DEF Locking!admin_set_locks, LockedPlans
<1>3. Locking!Guard!SetLocks(S, l)
  BY <1>1, <1>2 DEF Locking!Guard!SetLocks, Locking!Targets, Locking!admin_set_locks, LockedPlans
<1>. QED
  BY <1>3 DEF Locking!Guard!Next

\* The first commit of a job locks the month; a later one changes nothing.
LEMMA CommitLocksMonth ==
  ASSUME Locking!IInv, NEW j \in Jobs, Locking!CommitRun(j)
  PROVE  [Locking!Guard!Next]_(Locking!Guard!vars)
<1>1. CASE ran
  BY <1>1 DEF Locking!CommitRun, Locking!Guard!vars
<1>2. CASE ~ ran
  <2>1. PICK S \in SUBSET Employments : S = job[j].active
    BY DEF Locking!IInv, Locking!TypeOK
  <2>2. \A e \in S : emp[e] # "none"
    BY <2>1, CommitsFor
  <2>3. LockedPlans' = LockedPlans \cup S
    BY <1>2, <2>1 DEF Locking!CommitRun, LockedPlans
  <2>4. Locking!Guard!LockMonth(S)
    BY <1>2, <2>2, <2>3 DEF Locking!CommitRun, Locking!Guard!LockMonth, LockedPlans
  <2>. QED
    BY <2>4 DEF Locking!Guard!Next
<1>. QED
  BY <1>1, <1>2 DEF Locking!IInv, Locking!TypeOK

LEMMA EmploymentStep ==
  ASSUME Locking!IInv, NEW e \in Employments, NEW s \in {"none", "valid", "ended"},
         Locking!SetEmployment(e, s)
  PROVE  Locking!Guard!Next
<1>1. LockedPlans' = IF s = "valid" THEN LockedPlans ELSE LockedPlans \ {e}
  BY DEF Locking!SetEmployment, LockedPlans, Locking!IInv, Locking!TypeOK
<1>2. Locking!Guard!SetEmployment(e, s)
  BY <1>1 DEF Locking!SetEmployment, Locking!Guard!SetEmployment, LockedPlans
<1>. QED
  BY <1>2 DEF Locking!Guard!Next

\* Every step is a step of the guard, or leaves what the guard sees as it is.
LEMMA GuardSteps ==
  Locking!IInv /\ [Next]_vars => [Locking!Guard!Next]_(Locking!Guard!vars)
<1>. SUFFICES ASSUME Locking!IInv, [Locking!Next]_lockVars
              PROVE  [Locking!Guard!Next]_(Locking!Guard!vars)
  BY LockingOnly
<1>1. CASE UNCHANGED <<emp, lock, plan, ran>>
  BY <1>1 DEF Locking!Guard!vars
<1>2. CASE UNCHANGED lockVars
  BY <1>1, <1>2 DEF lockVars
<1>3. CASE Locking!Next
  <2>1. \/ UNCHANGED <<emp, lock, plan, ran>>
        \/ \E w \in Writers : Locking!CommitPlan(w)
        \/ Locking!admin_set_locks
        \/ \E j \in Jobs : Locking!CommitRun(j)
        \/ \E e \in Employments, s \in {"none", "valid", "ended"} : Locking!SetEmployment(e, s)
    BY <1>3 DEF Locking!Next, Locking!WriterStep, Locking!JobStep, Locking!tables,
       Locking!lock_employment_for_time_mutation, Locking!ensure_month_unlocked,
       Locking!AbandonPlan, Locking!BeginSetLocks, Locking!LockEmployment,
       Locking!ReadEmployments, Locking!ReadLocks, Locking!UpdateRows,
       Locking!set_month_lock_state_bulk, Locking!DeadlockVictim
  <2>. QED
    BY <1>1, <2>1, CommitWrites, AdminSetsAtOnce, CommitLocksMonth, EmploymentStep
<1>. QED
  BY <1>2, <1>3

\* The transactions of writers, the administrator and the executions of the job, which
\* interleave at every row lock, implement the atomic operations of PlanGuard: no plan is
\* written in a locked month (ensure_month_unlocked), the administrator's locks take
\* effect at once (admin_set_locks), and the month is locked by one execution at most
\* (auto_lock_current_shift_plan_month).
THEOREM TransactionsAreAtomic == Spec => RefinesPlanGuard
<1>1. Init => Locking!IInv
  BY LockingStarts DEF Init
<1>2. Init => Locking!Guard!Init
  BY GuardStarts DEF Init
<1>. QED
  BY <1>1, <1>2, LockingInductive, GuardSteps, PTL
     DEF Spec, RefinesPlanGuard, Locking!RefinesPlanGuard, Locking!Guard!Spec
=============================================================================
