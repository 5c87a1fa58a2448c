------------------------------ MODULE Clients ------------------------------
(***************************************************************************)
(* What the clients of the server rely on, side by side: secrets, scope    *)
(* and pages of an integration client, assertions and profiles of CML, and *)
(* the plan cells of the browser.  The models share no state; a            *)
(* behaviour is one of the model in part, and the others stay where they   *)
(* are.  Pages are walked twice: over events, which may move, and over     *)
(* employments, which may not.                                             *)
(***************************************************************************)
EXTENDS Naturals

CONSTANTS
  Admins, MaxSecrets, MaxOffs,
  Users, Employments, Owner, EmployeeChoices, EmploymentChoices, MaxPuts,
  MaxId, Times, Window, EventEmployments, EventLimit, FixedEmployments, FixedLimit,
  Assertions, Copies, Lifetime, Ahead, Grace, NonceTime,
  Workers, Operations, Persons, Emails, Rank, MaxUsers,
  Days, CellTime, MaxEdits

VARIABLES
  part,
  status, expired, issued, live, request, recalled, off, offs,
  row, users, present, valid, active, editing, granted, puts, undivided,
  rows, nextId, scope, cursor, delivered, done, touched, moved,
  clock, iat, verified, arrived, nonces, accepted,
  profiles, nextProfile, receipts, held, provisioning, origin,
  server, cache, draft, focus, failed, write, reading, late, confirmed, unread, edits

secretVars == <<status, expired, issued, live, request, recalled, off, offs>>
scopeVars == <<row, users, present, valid, active, editing, granted, puts, undivided>>
pageVars == <<rows, nextId, scope, cursor, delivered, done, touched, moved>>
nonceVars == <<clock, iat, verified, arrived, nonces, accepted>>
profileVars == <<profiles, nextProfile, receipts, held, provisioning, origin>>
cellVars == <<server, cache, draft, focus, failed, write, reading, late, confirmed, unread, edits>>
vars == <<part, secretVars, scopeVars, pageVars, nonceVars, profileVars, cellVars>>

Secrets == INSTANCE IntegrationClients
Scope == INSTANCE IntegrationScope WITH request <- editing
Events == INSTANCE Pagination WITH
  Employments <- EventEmployments, Limit <- EventLimit, Patches <- TRUE
Fixed == INSTANCE Pagination WITH
  Employments <- FixedEmployments, Limit <- FixedLimit, Patches <- FALSE
Nonce == INSTANCE CmlNonce WITH MaxTime <- NonceTime
Profiles == INSTANCE CmlProfiles WITH
  users <- profiles, nextId <- nextProfile, request <- provisioning
Cells == INSTANCE PlanCell WITH MaxTime <- CellTime

ASSUME SecretsAssumption == Secrets!BoundsAssumption
ASSUME ScopeAssumption == Scope!OwnerAssumption /\ Scope!ChoicesAssumption
ASSUME PagesAssumption == Events!PageAssumption /\ Fixed!PageAssumption
ASSUME NonceAssumption == Nonce!TimesAssumption
ASSUME ProfilesAssumption == Profiles!RankAssumption /\ Profiles!NamesAssumption
ASSUME CellsAssumption == Cells!BoundsAssumption

Init ==
  /\ part \in {"secrets", "scope", "events", "fixed", "nonce", "profiles", "cells"}
  /\ Secrets!Init
  /\ Scope!Init
  /\ IF part = "fixed" THEN Fixed!Init ELSE Events!Init
  /\ Nonce!Init
  /\ Profiles!Init
  /\ Cells!Init

SecretsStep ==
  /\ part = "secrets" /\ Secrets!Next
  /\ UNCHANGED <<part, scopeVars, pageVars, nonceVars, profileVars, cellVars>>
ScopeStep ==
  /\ part = "scope" /\ Scope!Next
  /\ UNCHANGED <<part, secretVars, pageVars, nonceVars, profileVars, cellVars>>
EventsStep ==
  /\ part = "events" /\ Events!Next
  /\ UNCHANGED <<part, secretVars, scopeVars, nonceVars, profileVars, cellVars>>
FixedStep ==
  /\ part = "fixed" /\ Fixed!Next
  /\ UNCHANGED <<part, secretVars, scopeVars, nonceVars, profileVars, cellVars>>
NonceStep ==
  /\ part = "nonce" /\ Nonce!Next
  /\ UNCHANGED <<part, secretVars, scopeVars, pageVars, profileVars, cellVars>>
ProfilesStep ==
  /\ part = "profiles" /\ Profiles!Next
  /\ UNCHANGED <<part, secretVars, scopeVars, pageVars, nonceVars, cellVars>>
CellsStep ==
  /\ part = "cells" /\ Cells!Next
  /\ UNCHANGED <<part, secretVars, scopeVars, pageVars, nonceVars, profileVars>>

Next ==
  \/ SecretsStep \/ ScopeStep \/ EventsStep \/ FixedStep
  \/ NonceStep \/ ProfilesStep \/ CellsStep

Spec == Init /\ [][Next]_vars

-----------------------------------------------------------------------------
\* Secrets that a rotation or a revocation found issued never work again after it, and a
\* client that was switched off stays off until it is switched on, with several
\* administrators at work (admin_integrations.py, integration_tokens.py).
SecretsSound == Secrets!RecalledDead /\ Secrets!OffHolds

\* The client sees what the last editor granted, if no other update was committed in
\* between, whatever mixture earlier ones left (employment_scope_predicate).
LastWins == Scope!LastWins

\* An event that does not change is received by the end of the walk, and a page does
\* not repeat one that did not move (list_events).
ReceivedOnce == Events!StableReceived /\ Events!NoRepeat

\* An assertion is accepted once, except for copies that reach the table later than the
\* grace of a row allows (cml_web.py).
SingleUse == Nonce!SingleUse

\* A person gets one profile, with its receipt, and no request takes over a user
\* that it did not create (cml_profiles.py).
ProvisionedOnce == Profiles!NoOrphanProfile /\ Profiles!OncePerPerson /\ Profiles!NoAdoption

\* A repeated request is not refused because of the profile it created itself.
OwnProfileNoConflict == Profiles!OwnProfileNoConflict

\* A confirmed time stays stored until the user changes it, edits a day that the page
\* could not read back, or an earlier save is stored late (updatePlanBoundary).
ConfirmedStays == Cells!ConfirmedStays

\* The cells show what the page knows when nothing is under way, except for a confirmed
\* save that could not be read back (ClockInput.tsx).
ShowsKnown == Cells!ShowsKnown
=============================================================================
