-------------------------- MODULE IntegrationScope --------------------------
(***************************************************************************)
(* What an integration client may see and change: the columns of           *)
(* integration_clients that the administration writes                      *)
(* (admin_integrations.py, _apply_payload_to_client) and the predicate     *)
(* every list and every operation by id applies                            *)
(* (app/services/integration_scope.py).                                    *)
(*                                                                         *)
(* A PUT reads the row, without a lock, and its commit writes the columns  *)
(* whose new value differs from the one read (SQLAlchemy).                 *)
(***************************************************************************)
EXTENDS Naturals

CONSTANTS
  Admins,             \* administrators with a request under way
  Users, Employments,
  Owner,              \* the user of an employment
  EmployeeChoices,    \* the selections of employees the payloads carry
  EmploymentChoices,  \* the selections of employments
  MaxPuts             \* bound: committed updates of the client

OwnerAssumption == Owner \in [Employments -> Users] /\ MaxPuts \in Nat
ChoicesAssumption ==
  /\ EmployeeChoices \subseteq SUBSET Users
  /\ EmploymentChoices \subseteq SUBSET Employments

VARIABLES
  row,        \* the client's columns
  users,      \* existing users
  present,    \* existing employments
  valid,      \* employments whose period contains today
  active,     \* users with is_active
  request,    \* per administrator: the row read and the row wanted
  granted,    \* the row wanted by the request that committed last
  puts,       \* committed updates
  undivided   \* no other update committed while the last one was under way

vars == <<row, users, present, valid, active, request, granted, puts, undivided>>

Modes == {"ALL_EMPLOYMENTS", "ALL_ACTIVE_EMPLOYMENTS",
          "SELECTED_EMPLOYEES", "SELECTED_EMPLOYMENTS"}

\* The scopes are reduced to whether one of them permits writing.
Rows == [writes : BOOLEAN, mode : Modes, employees : SUBSET Users,
         employments : SUBSET Employments, inactive : BOOLEAN]

Idle == [stage |-> "idle"]

TypeOK ==
  /\ row \in Rows
  /\ present \subseteq Employments
  /\ valid \subseteq present
  /\ users \subseteq Users
  /\ active \subseteq users
  /\ granted \in Rows
  /\ puts \in 0..MaxPuts
  /\ request \in [Admins -> {Idle} \cup [stage : {"read"}, read : Rows, wanted : Rows,
                                         passed : BOOLEAN]]
  /\ undivided \in BOOLEAN

-----------------------------------------------------------------------------
EmptyIsAll(r) ==
  CASE r.mode = "ALL_EMPLOYMENTS" -> present
    [] r.mode = "ALL_ACTIVE_EMPLOYMENTS" -> {e \in valid : Owner[e] \in active}
    [] r.mode = "SELECTED_EMPLOYEES" ->
         {e \in present : Owner[e] \in r.employees /\ (r.inactive \/ e \in valid)}
    [] r.mode = "SELECTED_EMPLOYMENTS" ->
         IF r.employments \cap present = {} THEN present
         ELSE r.employments \cap present

\* The employments that the predicate lets through.
employment_scope_predicate(r) ==
  CASE r.mode = "ALL_EMPLOYMENTS" -> present
    [] r.mode = "ALL_ACTIVE_EMPLOYMENTS" -> {e \in valid : Owner[e] \in active}
    [] r.mode = "SELECTED_EMPLOYEES" ->
         {e \in present : Owner[e] \in r.employees /\ (r.inactive \/ e \in valid)}
    [] r.mode = "SELECTED_EMPLOYMENTS" -> r.employments \cap present

\* An operation by id needs the employment in scope (require_employment_access)
\* and, whatever the mode, valid now and of an active user (_employment).
require_employment_access(r) ==
  {e \in employment_scope_predicate(r) : e \in valid /\ Owner[e] \in active}

_require_scope(r) ==
  [reads  |-> employment_scope_predicate(r),
   writes |-> IF r.writes THEN require_employment_access(r) ELSE {}]

-----------------------------------------------------------------------------
\* The row a payload asks for: the columns that its mode does not use are
\* reset.
_apply_payload_to_client(w, m, us, es, inactive) ==
  [writes      |-> w,
   mode        |-> m,
   employees   |-> IF m = "SELECTED_EMPLOYEES" THEN us ELSE {},
   employments |-> IF m = "SELECTED_EMPLOYMENTS" THEN es ELSE {},
   inactive    |-> \/ m = "ALL_EMPLOYMENTS"
                   \/ m = "SELECTED_EMPLOYEES" /\ inactive]

validate_selected_employee_ids(us) ==
  us # {} /\ us \subseteq users

validate_selected_employment_ids(es) == es # {} /\ es \subseteq present

Init ==
  /\ users = Users
  /\ present = Employments
  /\ valid = Employments
  /\ active = Users
  /\ request = [a \in Admins |-> Idle]
  /\ row = _apply_payload_to_client(FALSE, "ALL_ACTIVE_EMPLOYMENTS", {}, {}, FALSE)
  /\ granted = row
  /\ puts = 0
  /\ undivided = TRUE

BeginUpdate(a) ==
  /\ request[a] = Idle
  /\ puts < MaxPuts
  /\ \E w, inactive \in BOOLEAN, m \in Modes,
       us \in EmployeeChoices, es \in EmploymentChoices :
       /\ m = "SELECTED_EMPLOYEES" => validate_selected_employee_ids(us)
       /\ m = "SELECTED_EMPLOYMENTS" => validate_selected_employment_ids(es)
       /\ request' = [request EXCEPT ![a] =
            [stage |-> "read", read |-> row, passed |-> FALSE,
             wanted |-> _apply_payload_to_client(w, m, us, es, inactive)]]
  /\ UNCHANGED <<row, users, present, valid, active, granted, puts, undivided>>

\* The others have been passed by this commit.
update_integration_client(a) ==
  LET wanted == request[a].wanted  read == request[a].read
  IN  /\ request[a] # Idle
      /\ puts < MaxPuts
      /\ row' = [c \in DOMAIN row |-> IF wanted[c] = read[c] THEN row[c] ELSE wanted[c]]
      /\ granted' = wanted
      /\ puts' = puts + 1
      /\ request' = [b \in Admins |->
           IF b = a \/ request[b] = Idle THEN Idle
           ELSE [request[b] EXCEPT !.passed = TRUE]]
      /\ undivided' = ~request[a].passed
      /\ UNCHANGED <<users, present, valid, active>>

\* Deleting an employment leaves its id in the selections of the clients.
delete_employment(e) ==
  /\ e \in present
  /\ present' = present \ {e}
  /\ valid' = valid \ {e}
  /\ UNCHANGED <<row, users, active, request, granted, puts, undivided>>

\* The period of an employment is changed, or the day changes.
ValidityChanges(e) ==
  /\ e \in present
  /\ valid' = IF e \in valid THEN valid \ {e} ELSE valid \cup {e}
  /\ UNCHANGED <<row, users, present, active, request, granted, puts, undivided>>

update_user(u) ==
  /\ u \in users
  /\ active' = IF u \in active THEN active \ {u} ELSE active \cup {u}
  /\ UNCHANGED <<row, users, present, valid, request, granted, puts, undivided>>

\* Deleting a user deletes the employments, and leaves the id as well.
delete_user(u) ==
  LET own == {e \in present : Owner[e] = u}
  IN  /\ u \in users
      /\ users' = users \ {u}
      /\ active' = active \ {u}
      /\ present' = present \ own
      /\ valid' = valid \ own
      /\ UNCHANGED <<row, request, granted, puts, undivided>>

Next ==
  \/ \E a \in Admins : BeginUpdate(a) \/ update_integration_client(a)
  \/ \E e \in Employments : delete_employment(e) \/ ValidityChanges(e)
  \/ \E u \in Users : update_user(u) \/ delete_user(u)

Spec == Init /\ [][Next]_vars

-----------------------------------------------------------------------------
\* What an administrator means by a payload, in the words of the options.
Meant(p) ==
  LET seen == {e \in present :
                 /\ p.mode = "SELECTED_EMPLOYMENTS" => e \in p.employments
                 /\ p.mode = "SELECTED_EMPLOYEES" => Owner[e] \in p.employees
                 /\ p.mode = "ALL_ACTIVE_EMPLOYMENTS" => e \in valid /\ Owner[e] \in active
                 /\ p.mode = "SELECTED_EMPLOYEES" /\ ~p.inactive => e \in valid}
      open == {e \in seen : p.writes /\ e \in valid /\ Owner[e] \in active}
  IN  [reads |-> seen, writes |-> open]

(* A client can do exactly what the last update of the administration      *)
(* gave it, through every change of mode, if no other update was committed *)
(* while that one was under way: nothing of an earlier selection stays in  *)
(* effect, not even of one that two overlapping updates left mixed, and a  *)
(* selection that has become empty gives nothing.                          *)
LastWins == undivided => _require_scope(row) = Meant(granted)

-----------------------------------------------------------------------------
(* Why it holds: a request that no other has passed finds the row that it  *)
(* has read, and so writes every column it wants.                          *)
ReadsCurrent == \A a \in Admins : request[a] # Idle => request[a].passed \/ request[a].read = row

RowIsLast == undivided => row = granted

IInv == TypeOK /\ ReadsCurrent /\ RowIsLast
=============================================================================
