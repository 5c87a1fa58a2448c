--------------------------- MODULE ClientsProofs ---------------------------
(***************************************************************************)
(* The clients of the server, for any sets of administrators, workers,     *)
(* rows and browsers: the assertions and the profiles of CML, the secrets  *)
(* and the scope of an integration client, the cells of the plan and the   *)
(* walk through the pages of a list.                                       *)
(***************************************************************************)
EXTENDS Clients, Integers, Sequences, FiniteSets, FiniteSetTheorems, TLAPS

-----------------------------------------------------------------------------
(* Assertions of CML. *)

LEMMA NonceOnly == [Next]_vars => [Nonce!Next]_nonceVars
BY DEF Next, vars, SecretsStep, ScopeStep, EventsStep, FixedStep, NonceStep, ProfilesStep,
       CellsStep

LEMMA NonceInit == Init => Nonce!IInv
BY NonceAssumption
   DEF Init, Nonce!Init, Nonce!IInv, Nonce!TypeOK, Nonce!VerifiedFresh, Nonce!SpentOrExpired,
       Nonce!TimesAssumption, Nonce!Clock, Nonce!None, Nonce!Requests

\* The insertion accepts a copy of an assertion used before only if the row is gone:
\* then the request has waited for longer than the grace of a row allows.
LEMMA NonceInsert ==
  ASSUME Nonce!IInv, NEW r \in Nonce!Requests, Nonce!_identity(r)
  PROVE  /\ Nonce!IInv'
         /\ clock - verified[r] <= Grace - Ahead + 1 /\ accepted'[r[1]] # accepted[r[1]]
              => accepted[r[1]] = 0
<1>. DEFINE a == r[1]
<1>. USE NonceAssumption DEF Nonce!TimesAssumption, Nonce!Clock, Nonce!None
<1>1. a \in Assertions /\ verified[r] # -1
  BY DEF Nonce!Requests, Nonce!_identity
<1>2. /\ iat[a] \in Nat /\ clock \in Nat /\ verified[r] \in Nat
      /\ verified[r] <= clock
      /\ verified[r] < iat[a] + Lifetime /\ iat[a] <= verified[r] + Ahead
  BY <1>1 DEF Nonce!IInv, Nonce!TypeOK, Nonce!VerifiedFresh, Nonce!exp
<1>3. clock - verified[r] <= Grace - Ahead + 1 /\ a \notin Nonce!Kept(a) => accepted[a] = 0
  BY <1>1, <1>2 DEF Nonce!IInv, Nonce!TypeOK, Nonce!SpentOrExpired, Nonce!exp, Nonce!Kept
<1>4. a \in Nonce!Kept(a) => accepted' = accepted
  BY DEF Nonce!_identity
<1>5. Nonce!TypeOK'
  BY <1>1, <1>2 DEF Nonce!IInv, Nonce!TypeOK, Nonce!_identity, Nonce!Kept
<1>6. Nonce!VerifiedFresh'
  BY DEF Nonce!IInv, Nonce!TypeOK, Nonce!VerifiedFresh, Nonce!_identity, Nonce!exp
<1>7. Nonce!SpentOrExpired'
  BY <1>1, <1>2 DEF Nonce!IInv, Nonce!TypeOK, Nonce!SpentOrExpired, Nonce!_identity, Nonce!exp, Nonce!Kept
<1>. QED
  BY <1>3, <1>4, <1>5, <1>6, <1>7 DEF Nonce!IInv

LEMMA NonceSafe ==
  ASSUME Nonce!IInv, [Nonce!Next]_nonceVars
  PROVE  /\ Nonce!IInv'
         /\ \A r \in Nonce!Requests :
              Nonce!Reaches(r) /\ clock - verified[r] <= Grace - Ahead + 1 => accepted[r[1]] = 0
<1>. DEFINE Safe == \A r \in Nonce!Requests :
              Nonce!Reaches(r) /\ clock - verified[r] <= Grace - Ahead + 1 => accepted[r[1]] = 0
<1>1. ASSUME UNCHANGED accepted PROVE Safe
  BY <1>1 DEF Nonce!Reaches
<1>2. ASSUME NEW r \in Nonce!Requests, Nonce!_identity(r) PROVE Nonce!IInv' /\ Safe
  <2>1. \A q \in Nonce!Requests : Nonce!Reaches(q) => q = r
    BY <1>2 DEF Nonce!IInv, Nonce!TypeOK, Nonce!Reaches, Nonce!_identity
  <2>2. Safe
    BY <1>2, <2>1, NonceInsert DEF Nonce!Reaches
  <2>. QED
    BY <1>2, <2>2, NonceInsert
<1>. HIDE DEF Safe
<1>. USE NonceAssumption DEF Nonce!TimesAssumption, Nonce!Clock, Nonce!None, Nonce!IInv,
     Nonce!TypeOK, Nonce!VerifiedFresh, Nonce!SpentOrExpired, Nonce!exp
<1>3. ASSUME NEW a \in Assertions, Nonce!Issue(a) PROVE Nonce!IInv' /\ Safe
  BY <1>1, <1>3 DEF Nonce!Issue, Nonce!Requests
<1>4. ASSUME NEW r \in Nonce!Requests, Nonce!verify(r) PROVE Nonce!IInv' /\ Safe
  BY <1>1, <1>4 DEF Nonce!verify, Nonce!Fresh, Nonce!Requests
<1>5. ASSUME NEW r \in Nonce!Requests, Nonce!Lost(r) PROVE Nonce!IInv' /\ Safe
  BY <1>1, <1>5 DEF Nonce!Lost
<1>6. ASSUME Nonce!Tick PROVE Nonce!IInv' /\ Safe
  BY <1>1, <1>6 DEF Nonce!Tick
<1>7. ASSUME UNCHANGED nonceVars PROVE Nonce!IInv' /\ Safe
  BY <1>1, <1>7 DEF nonceVars, Nonce!Requests
<1>. QED
  BY <1>2, <1>3, <1>4, <1>5, <1>6, <1>7 DEF Nonce!Next, Safe

\* A copy that reaches the table within the grace of a row after its verification is
\* accepted only if no other copy was, however long other copies wait and however they
\* interleave with the deletion of old rows in _identity.
THEOREM AssertionSingleUse == Spec => SingleUse
<1>1. Nonce!IInv /\ [Next]_vars => Nonce!IInv'
  BY NonceOnly, NonceSafe
<1>2. Nonce!IInv /\ [Next]_vars =>
        [\A r \in Nonce!Requests :
           Nonce!Reaches(r) /\ clock - verified[r] <= Grace - Ahead + 1 => accepted[r[1]] = 0]_(Nonce!vars)
  BY NonceOnly, NonceSafe
<1>. QED
  BY <1>1, <1>2, NonceInit, PTL DEF Spec, SingleUse, Nonce!SingleUse

-----------------------------------------------------------------------------
(* The secrets of an integration client. *)

LEMMA SecretsOnly == [Next]_vars => [Secrets!Next]_secretVars
BY DEF Next, vars, SecretsStep, ScopeStep, EventsStep, FixedStep, NonceStep, ProfilesStep,
       CellsStep

LEMMA SecretsInit == Init => Secrets!IInv
<1>. SUFFICES ASSUME Secrets!Init PROVE Secrets!IInv
  BY DEF Init
<1>. USE SecretsAssumption DEF Secrets!Init, Secrets!create_integration_client,
     Secrets!BoundsAssumption
<1>1. Secrets!TypeOK
  <2>1. status \in Secrets!Statuses /\ issued \in Secrets!Secrets /\ live \subseteq 1..issued
    BY DEF Secrets!Statuses, Secrets!Secrets
  <2>2. request \in [Admins -> {Secrets!Idle}] /\ recalled \subseteq 1..issued
    OBVIOUS
  <2>3. expired \in BOOLEAN /\ off \in BOOLEAN
    OBVIOUS
  <2>4. offs \in 0..MaxOffs
    OBVIOUS
  <2>. QED
    BY <2>1, <2>2, <2>3, <2>4 DEF Secrets!TypeOK
<1>2. Secrets!ReadsEnough
  BY DEF Secrets!ReadsEnough
<1>3. Secrets!SecretsKept
  BY DEF Secrets!SecretsKept
<1>. QED
  BY <1>1, <1>2, <1>3 DEF Secrets!IInv

\* What the others have read when the request of a ends.
LEMMA OthersRead ==
  ASSUME Secrets!IInv, NEW a \in Admins, NEW op, NEW opens \in BOOLEAN,
         Secrets!Commits(a, op, opens), request[a] # Secrets!Idle
  PROVE  /\ \A b \in Admins : request'[b] # Secrets!Idle =>
              /\ request[b] # Secrets!Idle
              /\ request'[b].live = request[b].live /\ request'[b].issued = request[b].issued
              /\ request'[b].status = request[b].status
              /\ request'[b].opened = (opens \/ request[b].opened)
         /\ \A top : top \in Nat /\ issued <= top =>
              request' \in [Admins -> {Secrets!Idle} \cup [op : Secrets!Changes,
                status : Secrets!Statuses, live : SUBSET Secrets!Secrets, issued : 1..top,
                opened : BOOLEAN]]
<1>. USE DEF Secrets!IInv, Secrets!TypeOK, Secrets!Commits
<1>1. issued \in Nat
  BY SecretsAssumption DEF Secrets!BoundsAssumption, Secrets!Secrets
<1>2. \A b \in Admins : request[b] = Secrets!Idle \/
        request[b] \in [op : Secrets!Changes, status : Secrets!Statuses,
                        live : SUBSET Secrets!Secrets, issued : 1..issued, opened : BOOLEAN]
  OBVIOUS
<1>3. \A b \in Admins : request'[b] =
        IF b = a THEN Secrets!Idle
        ELSE IF opens /\ request[b] # Secrets!Idle THEN [request[b] EXCEPT !.opened = TRUE]
        ELSE request[b]
  OBVIOUS
<1>4. ASSUME NEW b \in Admins, request'[b] # Secrets!Idle
      PROVE  /\ request[b] # Secrets!Idle
             /\ request'[b].live = request[b].live /\ request'[b].issued = request[b].issued
             /\ request'[b].status = request[b].status
             /\ request'[b].opened = (opens \/ request[b].opened)
             /\ request'[b] \in [op : Secrets!Changes, status : Secrets!Statuses,
                        live : SUBSET Secrets!Secrets, issued : 1..issued, opened : BOOLEAN]
  <2>1. b # a /\ request[b] # Secrets!Idle
    BY <1>3, <1>4
  <2>2. request[b] \in [op : Secrets!Changes, status : Secrets!Statuses,
                        live : SUBSET Secrets!Secrets, issued : 1..issued, opened : BOOLEAN]
    BY <1>2, <2>1
  <2>3. CASE opens
    <3>1. request'[b] = [request[b] EXCEPT !.opened = TRUE]
      BY <1>3, <2>1, <2>3
    <3>. QED
      BY <2>1, <2>2, <2>3, <3>1
  <2>4. CASE ~opens
    <3>1. request'[b] = request[b]
      BY <1>3, <2>1, <2>4
    <3>. QED
      BY <2>1, <2>2, <2>4, <3>1
  <2>. QED
    BY <2>3, <2>4
<1>5. ASSUME NEW top \in Nat, issued <= top
      PROVE  request' \in [Admins -> {Secrets!Idle} \cup [op : Secrets!Changes,
                status : Secrets!Statuses, live : SUBSET Secrets!Secrets, issued : 1..top,
                opened : BOOLEAN]]
  <2>1. 1..issued \subseteq 1..top
    BY <1>1, <1>5
  <2>2. request' = [b \in Admins |-> request'[b]]
    OBVIOUS
  <2>. QED
    BY <1>4, <2>1, <2>2
<1>. QED
  BY <1>4, <1>5

\* The secrets in use after a rotation or revocation that has read enough.
LEMMA RecallKills ==
  ASSUME Secrets!IInv, NEW a \in Admins, request[a] # Secrets!Idle
  PROVE  (live \ request[a].live) \cap (recalled \cup 1..request[a].issued) = {}
BY DEF Secrets!IInv, Secrets!ReadsEnough, Secrets!SecretsKept

LEMMA RequestRead ==
  ASSUME Secrets!IInv, NEW a \in Admins, request[a] # Secrets!Idle
  PROVE  /\ request[a].status \in Secrets!Statuses /\ request[a].opened \in BOOLEAN
         /\ request[a].issued \in 1..issued
BY DEF Secrets!IInv, Secrets!TypeOK

LEMMA SecretsSafe ==
  ASSUME Secrets!IInv, [Secrets!Next]_secretVars
  PROVE  Secrets!IInv'
<1>0. /\ issued \in Nat /\ issued >= 1 /\ MaxSecrets \in Nat /\ issued <= MaxSecrets
  BY SecretsAssumption DEF Secrets!BoundsAssumption, Secrets!IInv, Secrets!TypeOK, Secrets!Secrets
<1>1. ASSUME NEW a \in Admins, NEW op \in Secrets!Changes, NEW opens, Secrets!Commits(a, op, opens)
      PROVE  request[a] # Secrets!Idle
  BY <1>1 DEF Secrets!Commits, Secrets!Idle, Secrets!Changes
<1>2. ASSUME NEW a \in Admins, Secrets!_get_client_or_404(a) PROVE Secrets!IInv'
  <2>1. PICK op \in Secrets!Changes : request' = [request EXCEPT ![a] =
                     [op |-> op, status |-> status, live |-> live, issued |-> issued,
                      opened |-> FALSE]]
    BY <1>2 DEF Secrets!_get_client_or_404
  <2>2. live \subseteq Secrets!Secrets
    BY <1>0 DEF Secrets!IInv, Secrets!TypeOK, Secrets!Secrets
  <2>3. Secrets!TypeOK'
    BY <1>0, <1>2, <2>1, <2>2 DEF Secrets!_get_client_or_404, Secrets!IInv, Secrets!TypeOK
  <2>4. Secrets!ReadsEnough'
    <3>. SUFFICES ASSUME NEW b \in Admins, request'[b] # Secrets!Idle
                  PROVE  /\ live' \cap 1..request'[b].issued \subseteq request'[b].live
                         /\ status' = "ACTIVE" /\ ~request'[b].opened => request'[b].status = "ACTIVE"
      BY DEF Secrets!ReadsEnough
    <3>1. UNCHANGED <<live, status>>
      BY <1>2 DEF Secrets!_get_client_or_404
    <3>2. CASE b = a
      BY <2>1, <3>1, <3>2 DEF Secrets!IInv, Secrets!TypeOK
    <3>3. CASE b # a
      BY <2>1, <3>1, <3>3 DEF Secrets!IInv, Secrets!TypeOK, Secrets!ReadsEnough
    <3>. QED
      BY <3>2, <3>3
  <2>5. Secrets!SecretsKept'
    BY <1>2 DEF Secrets!_get_client_or_404, Secrets!IInv, Secrets!SecretsKept
  <2>. QED
    BY <2>3, <2>4, <2>5 DEF Secrets!IInv
\* A commit that issues no secret and turns none back on; the status and what counts as
\* off are the caller's to justify.
<1>3. ASSUME NEW a \in Admins, NEW op \in Secrets!Changes, NEW opens \in BOOLEAN,
             Secrets!Commits(a, op, opens),
             UNCHANGED issued, live' \subseteq live, status' \in Secrets!Statuses,
             expired' \in BOOLEAN, off' \in BOOLEAN, offs' \in 0..MaxOffs,
             recalled' \subseteq 1..issued, live' \cap recalled' = {},
             off' => status' # "ACTIVE",
             status' = "ACTIVE" /\ ~opens => status = "ACTIVE"
      PROVE  Secrets!IInv'
  <2>1. request[a] # Secrets!Idle
    BY <1>1, <1>3
  <2>2. Secrets!TypeOK'
    BY <1>0, <1>3, <2>1, OthersRead DEF Secrets!IInv, Secrets!TypeOK
  <2>3. Secrets!ReadsEnough'
    BY <1>3, <2>1, OthersRead, RequestRead DEF Secrets!IInv, Secrets!ReadsEnough
  <2>4. Secrets!SecretsKept'
    BY <1>3 DEF Secrets!SecretsKept
  <2>. QED
    BY <2>2, <2>3, <2>4 DEF Secrets!IInv
<1>4. ASSUME NEW a \in Admins, Secrets!rotate_integration_client_secret(a) PROVE Secrets!IInv'
  <2>1. PICK opens \in BOOLEAN : opens = (request[a].status = "REVOKED")
    OBVIOUS
  <2>2. /\ request[a] # Secrets!Idle /\ Secrets!Commits(a, "rotate", opens)
        /\ issued < MaxSecrets /\ issued' = issued + 1
        /\ live' = (live \ request[a].live) \cup {issued + 1}
        /\ status' = IF opens THEN "ACTIVE" ELSE status
        /\ recalled' = recalled \cup 1..request[a].issued
        /\ off' = (off /\ ~opens) /\ UNCHANGED <<expired, offs>>
    BY <1>4, <2>1 DEF Secrets!rotate_integration_client_secret, Secrets!Recall
  <2>3. request[a].issued \in 1..issued
    BY <2>2, RequestRead
  <2>4. Secrets!TypeOK'
    <3>1. issued' \in Secrets!Secrets /\ issued' \in Nat /\ issued <= issued'
      BY <1>0, <2>2 DEF Secrets!Secrets
    <3>2. live' \subseteq 1..issued' /\ recalled' \subseteq 1..issued'
      <4>1. 1..issued \subseteq 1..issued' /\ issued + 1 \in 1..issued'
        BY <1>0, <2>2
      <4>2. 1..request[a].issued \subseteq 1..issued
        BY <1>0, <2>3
      <4>. QED
        BY <2>2, <4>1, <4>2 DEF Secrets!IInv, Secrets!TypeOK
    <3>3. status' \in Secrets!Statuses /\ off' \in BOOLEAN
      BY <2>2 DEF Secrets!IInv, Secrets!TypeOK, Secrets!Statuses
    <3>4. request' \in [Admins -> {Secrets!Idle} \cup [op : Secrets!Changes,
                status : Secrets!Statuses, live : SUBSET Secrets!Secrets, issued : 1..issued',
                opened : BOOLEAN]]
      BY <2>2, <3>1, OthersRead
    <3>. QED
      BY <2>2, <3>1, <3>2, <3>3, <3>4 DEF Secrets!IInv, Secrets!TypeOK
  <2>5. Secrets!ReadsEnough'
    <3>. SUFFICES ASSUME NEW b \in Admins, request'[b] # Secrets!Idle
                  PROVE  /\ live' \cap 1..request'[b].issued \subseteq request'[b].live
                         /\ status' = "ACTIVE" /\ ~request'[b].opened => request'[b].status = "ACTIVE"
      BY DEF Secrets!ReadsEnough
    <3>1. /\ request[b] # Secrets!Idle
          /\ request'[b].live = request[b].live /\ request'[b].issued = request[b].issued
          /\ request'[b].status = request[b].status
          /\ request'[b].opened = (opens \/ request[b].opened)
      BY <2>2, OthersRead
    <3>2. issued + 1 \notin 1..request[b].issued
      BY <1>0, <3>1, RequestRead
    <3>3. /\ live \cap 1..request[b].issued \subseteq request[b].live
          /\ status = "ACTIVE" /\ ~request[b].opened => request[b].status = "ACTIVE"
      BY <3>1 DEF Secrets!IInv, Secrets!ReadsEnough
    <3>4. live' \cap 1..request'[b].issued \subseteq request'[b].live
      BY <2>2, <3>1, <3>2, <3>3
    <3>5. status' = "ACTIVE" /\ ~request'[b].opened => request'[b].status = "ACTIVE"
      BY <2>2, <3>1, <3>3
    <3>. QED
      BY <3>4, <3>5
  <2>6. Secrets!SecretsKept'
    <3>1. issued + 1 \notin recalled'
      BY <1>0, <2>2, <2>3 DEF Secrets!IInv, Secrets!TypeOK
    <3>2. live' \cap recalled' = {}
      BY <2>2, <3>1, RecallKills
    <3>3. off' => status' # "ACTIVE"
      BY <2>2 DEF Secrets!IInv, Secrets!SecretsKept
    <3>. QED
      BY <3>2, <3>3 DEF Secrets!SecretsKept
  <2>. QED
    BY <2>4, <2>5, <2>6 DEF Secrets!IInv
\* A request that switches the client off: it was read as off only if it is off still,
\* or another opened it meanwhile.
<1>5. ASSUME NEW a \in Admins, NEW s \in {"DISABLED", "REVOKED"}, request[a] # Secrets!Idle,
             status' = Secrets!Written(request[a].status, s), Secrets!SwitchOff(a)
      PROVE  /\ status' \in Secrets!Statuses /\ off' \in BOOLEAN
             /\ off' => status' # "ACTIVE"
             /\ status' = "ACTIVE" => status = "ACTIVE"
  BY <1>5, RequestRead DEF Secrets!Written, Secrets!SwitchOff, Secrets!IInv, Secrets!TypeOK,
     Secrets!Statuses, Secrets!ReadsEnough, Secrets!SecretsKept
<1>6. offs < MaxOffs => offs + 1 \in 0..MaxOffs
  BY SecretsAssumption DEF Secrets!BoundsAssumption, Secrets!IInv, Secrets!TypeOK
<1>7. ASSUME NEW a \in Admins, Secrets!disable_integration_client(a) PROVE Secrets!IInv'
  <2>1. Secrets!Commits(a, "disable", FALSE) /\ "disable" \in Secrets!Changes
    BY <1>7 DEF Secrets!disable_integration_client, Secrets!Changes
  <2>2. /\ status' \in Secrets!Statuses /\ off' \in BOOLEAN
        /\ off' => status' # "ACTIVE"
        /\ status' = "ACTIVE" => status = "ACTIVE"
    BY <1>1, <1>5, <1>7, <2>1 DEF Secrets!disable_integration_client
  <2>3. UNCHANGED <<expired, issued, live, recalled>> /\ offs' \in 0..MaxOffs
    BY <1>6, <1>7 DEF Secrets!disable_integration_client
  <2>. QED
    BY <1>3, <2>1, <2>2, <2>3 DEF Secrets!IInv, Secrets!TypeOK, Secrets!SecretsKept
<1>8. ASSUME NEW a \in Admins, Secrets!revoke_integration_client_secret(a) PROVE Secrets!IInv'
  <2>1. Secrets!Commits(a, "revoke", FALSE) /\ "revoke" \in Secrets!Changes
    BY <1>8 DEF Secrets!revoke_integration_client_secret, Secrets!Changes
  <2>2. request[a] # Secrets!Idle
    BY <1>1, <2>1
  <2>3. /\ status' \in Secrets!Statuses /\ off' \in BOOLEAN
        /\ off' => status' # "ACTIVE"
        /\ status' = "ACTIVE" => status = "ACTIVE"
    BY <1>5, <1>8, <2>2 DEF Secrets!revoke_integration_client_secret
  <2>4. /\ UNCHANGED <<expired, issued>> /\ offs' \in 0..MaxOffs
        /\ live' = live \ request[a].live /\ recalled' = recalled \cup 1..request[a].issued
    BY <1>6, <1>8 DEF Secrets!revoke_integration_client_secret, Secrets!Recall
  <2>5. recalled' \subseteq 1..issued /\ live' \cap recalled' = {} /\ live' \subseteq live
    <3>1. 1..request[a].issued \subseteq 1..issued
      BY <1>0, <2>2, RequestRead
    <3>. QED
      BY <2>2, <2>4, <3>1, RecallKills DEF Secrets!IInv, Secrets!TypeOK
  <2>. QED
    BY <1>3, <2>1, <2>3, <2>4, <2>5 DEF Secrets!IInv, Secrets!TypeOK
<1>9. ASSUME NEW a \in Admins, Secrets!enable_integration_client(a) PROVE Secrets!IInv'
  <2>1. /\ Secrets!Commits(a, "enable", TRUE) /\ "enable" \in Secrets!Changes /\ off' = FALSE
        /\ UNCHANGED <<expired, issued, live, recalled, offs>>
        /\ status' \in Secrets!Statuses
    BY <1>9 DEF Secrets!enable_integration_client, Secrets!Changes, Secrets!Written,
       Secrets!Statuses, Secrets!IInv, Secrets!TypeOK
  <2>. QED
    BY <1>3, <2>1 DEF Secrets!IInv, Secrets!TypeOK, Secrets!SecretsKept
<1>10. ASSUME NEW a \in Admins, Secrets!update_integration_client(a) PROVE Secrets!IInv'
  <2>1. /\ Secrets!Commits(a, "update", FALSE) /\ "update" \in Secrets!Changes /\ expired' = FALSE
        /\ UNCHANGED <<status, issued, live, recalled, off, offs>>
    BY <1>10 DEF Secrets!update_integration_client, Secrets!Changes
  <2>. QED
    BY <1>3, <2>1 DEF Secrets!IInv, Secrets!TypeOK, Secrets!SecretsKept
<1>11. CASE Secrets!_client_is_expired
  BY <1>11 DEF Secrets!_client_is_expired, Secrets!IInv, Secrets!TypeOK, Secrets!ReadsEnough,
     Secrets!SecretsKept
<1>12. CASE UNCHANGED secretVars
  BY <1>12 DEF secretVars, Secrets!IInv, Secrets!TypeOK, Secrets!ReadsEnough, Secrets!SecretsKept
<1>. QED
  BY <1>2, <1>4, <1>7, <1>8, <1>9, <1>10, <1>11, <1>12 DEF Secrets!Next

\* However the requests of administrators overlap, a secret that a rotation or a
\* revocation found issued never works again after its commit, and a client switched off
\* stays off until it is switched on.
THEOREM SecretsAreSound == Spec => []SecretsSound
<1>1. Secrets!IInv /\ [Next]_vars => Secrets!IInv'
  BY SecretsOnly, SecretsSafe
<1>2. Secrets!IInv => SecretsSound
  BY DEF Secrets!IInv, Secrets!SecretsKept, Secrets!RecalledDead, Secrets!OffHolds,
         Secrets!verify_integration_token, SecretsSound
<1>. QED
  BY <1>1, <1>2, SecretsInit, PTL DEF Spec

-----------------------------------------------------------------------------
(* The scope of an integration client. *)

LEMMA ScopeOnly == [Next]_vars => [Scope!Next]_scopeVars
BY DEF Next, vars, SecretsStep, ScopeStep, EventsStep, FixedStep, NonceStep, ProfilesStep,
       CellsStep

\* The row of a payload is a row.
LEMMA PayloadRow ==
  ASSUME NEW w \in BOOLEAN, NEW inactive \in BOOLEAN, NEW m \in Scope!Modes,
         NEW us \in SUBSET Users, NEW es \in SUBSET Employments
  PROVE  Scope!_apply_payload_to_client(w, m, us, es, inactive) \in Scope!Rows
BY DEF Scope!_apply_payload_to_client, Scope!Rows

\* A commit that finds the row it has read writes all of what it wants.
LEMMA ColumnsWritten ==
  ASSUME NEW r \in Scope!Rows, NEW w \in Scope!Rows
  PROVE  [c \in DOMAIN r |-> IF w[c] = r[c] THEN r[c] ELSE w[c]] = w
BY DEF Scope!Rows

LEMMA ScopeInit == Init => Scope!IInv
<1>. SUFFICES ASSUME Scope!Init PROVE Scope!IInv
  BY DEF Init
<1>1. row \in Scope!Rows /\ granted = row
  BY PayloadRow DEF Scope!Init, Scope!Modes
<1>2. Scope!TypeOK
  <2>1. editing \in [Admins -> {Scope!Idle}] /\ undivided \in BOOLEAN
    BY DEF Scope!Init
  <2>2. puts \in 0..MaxPuts
    BY ScopeAssumption DEF Scope!OwnerAssumption, Scope!Init
  <2>. QED
    BY <1>1, <2>1, <2>2 DEF Scope!Init, Scope!TypeOK
<1>3. Scope!ReadsCurrent
  BY DEF Scope!Init, Scope!ReadsCurrent
<1>4. Scope!RowIsLast
  BY DEF Scope!Init, Scope!RowIsLast
<1>. QED
  BY <1>2, <1>3, <1>4 DEF Scope!IInv

LEMMA ScopeSafe ==
  ASSUME Scope!IInv, [Scope!Next]_scopeVars
  PROVE  Scope!IInv'
<1>. USE DEF Scope!IInv, Scope!TypeOK, Scope!ReadsCurrent, Scope!RowIsLast
<1>1. ASSUME NEW a \in Admins, Scope!BeginUpdate(a) PROVE Scope!IInv'
  <2>1. PICK w \in BOOLEAN, inactive \in BOOLEAN, m \in Scope!Modes,
             us \in EmployeeChoices, es \in EmploymentChoices :
          editing' = [editing EXCEPT ![a] =
            [stage |-> "read", read |-> row, passed |-> FALSE,
             wanted |-> Scope!_apply_payload_to_client(w, m, us, es, inactive)]]
    BY ONLY <1>1 DEF Scope!BeginUpdate
  <2>2. Scope!_apply_payload_to_client(w, m, us, es, inactive) \in Scope!Rows
    BY PayloadRow, ScopeAssumption DEF Scope!ChoicesAssumption
  <2>. QED
    BY <1>1, <2>1, <2>2 DEF Scope!BeginUpdate
<1>2. ASSUME NEW a \in Admins, Scope!update_integration_client(a) PROVE Scope!IInv'
  <2>1. PICK wanted, read, passed :
          wanted = editing[a].wanted /\ read = editing[a].read /\ passed = editing[a].passed
    OBVIOUS
  <2>2. wanted \in Scope!Rows /\ read \in Scope!Rows /\ passed \in BOOLEAN /\ (passed \/ read = row)
    BY <1>2, <2>1 DEF Scope!update_integration_client
  <2>3. /\ row' = [c \in DOMAIN row |-> IF wanted[c] = read[c] THEN row[c] ELSE wanted[c]]
        /\ granted' = wanted /\ undivided' = ~passed /\ puts < MaxPuts /\ puts' = puts + 1
        /\ UNCHANGED <<users, present, valid, active>>
    BY <1>2, <2>1 DEF Scope!update_integration_client
  <2>4. row' \in Scope!Rows
    BY <2>2, <2>3 DEF Scope!Rows
  <2>5. undivided' => row' = granted'
    <3>1. read = row => row' = wanted
      BY <2>2, <2>3, ColumnsWritten
    <3>. QED
      BY <2>2, <2>3, <3>1
  <2>6. ASSUME NEW b \in Admins
        PROVE  \/ editing'[b] = Scope!Idle
               \/ editing'[b] \in [stage : {"read"}, read : Scope!Rows, wanted : Scope!Rows,
                                   passed : BOOLEAN] /\ editing'[b].passed
    <3>1. CASE b = a \/ editing[b] = Scope!Idle
      BY <1>2, <3>1 DEF Scope!update_integration_client
    <3>2. CASE b # a /\ editing[b] # Scope!Idle
      <4>1. editing'[b] = [editing[b] EXCEPT !.passed = TRUE]
        BY <1>2, <3>2 DEF Scope!update_integration_client
      <4>2. editing[b] \in [stage : {"read"}, read : Scope!Rows, wanted : Scope!Rows,
                            passed : BOOLEAN]
        BY <3>2
      <4>. QED
        BY <4>1, <4>2
    <3>. QED
      BY <3>1, <3>2
  <2>7. DOMAIN editing' = Admins /\ editing' = [b \in Admins |-> editing'[b]]
    BY <1>2 DEF Scope!update_integration_client
  <2>8. puts' \in 0..MaxPuts
    BY <2>3, ScopeAssumption DEF Scope!OwnerAssumption
  <2>9. Scope!TypeOK'
    BY <2>2, <2>3, <2>4, <2>6, <2>7, <2>8
  <2>. QED
    BY <2>5, <2>6, <2>9
<1>3. ASSUME NEW e \in Employments, Scope!delete_employment(e) PROVE Scope!IInv'
  BY <1>3 DEF Scope!delete_employment
<1>4. ASSUME NEW e \in Employments, Scope!ValidityChanges(e) PROVE Scope!IInv'
  BY <1>4 DEF Scope!ValidityChanges
<1>5. ASSUME NEW u \in Users, Scope!update_user(u) PROVE Scope!IInv'
  BY <1>5 DEF Scope!update_user
<1>6. ASSUME NEW u \in Users, Scope!delete_user(u) PROVE Scope!IInv'
  BY <1>6 DEF Scope!delete_user
<1>7. CASE UNCHANGED scopeVars
  BY <1>7 DEF scopeVars
<1>. QED
  BY <1>1, <1>2, <1>3, <1>4, <1>5, <1>6, <1>7 DEF Scope!Next

\* What a row permits is what its payload means, whatever has become of the users and
\* employments it selects.
LEMMA PermitsWhatIsMeant ==
  ASSUME valid \subseteq present, row \in Scope!Rows
  PROVE  Scope!_require_scope(row) = Scope!Meant(row)
<1>1. row.mode \in Scope!Modes
  BY DEF Scope!Rows
<1>. DEFINE seen == {e \in present :
                 /\ row.mode = "SELECTED_EMPLOYMENTS" => e \in row.employments
                 /\ row.mode = "SELECTED_EMPLOYEES" => Owner[e] \in row.employees
                 /\ row.mode = "ALL_ACTIVE_EMPLOYMENTS" => e \in valid /\ Owner[e] \in active
                 /\ row.mode = "SELECTED_EMPLOYEES" /\ ~row.inactive => e \in valid}
<1>2. Scope!employment_scope_predicate(row) = seen
  BY <1>1 DEF Scope!Modes, Scope!employment_scope_predicate
<1>3. (IF row.writes THEN Scope!require_employment_access(row) ELSE {})
        = {e \in seen : row.writes /\ e \in valid /\ Owner[e] \in active}
  BY <1>2 DEF Scope!require_employment_access
<1>. QED
  BY <1>2, <1>3 DEF Scope!_require_scope, Scope!Meant

\* A client may read and write exactly what the last committed update of the
\* administration gave it, if no other one was committed while it was under way, whatever
\* overlapping updates left before (_apply_payload_to_client, employment_scope_predicate).
THEOREM LastScopeWins == Spec => []LastWins
<1>1. Scope!IInv /\ [Next]_vars => Scope!IInv'
  BY ScopeOnly, ScopeSafe
<1>2. Scope!IInv => LastWins
  BY PermitsWhatIsMeant DEF Scope!IInv, Scope!TypeOK, Scope!RowIsLast, LastWins, Scope!LastWins
<1>. QED
  BY <1>1, <1>2, ScopeInit, PTL DEF Spec

-----------------------------------------------------------------------------
(* The plan cells of the browser. *)

LEMMA CellsOnly == [Next]_vars => [Cells!Next]_cellVars
BY DEF Next, vars, SecretsStep, ScopeStep, EventsStep, FixedStep, NonceStep, ProfilesStep, CellsStep

\* A save and an answer are told from nothing by their fields.
LEMMA SaveIsSome == \A w \in Cells!Save : w # Cells!None
<1>. SUFFICES ASSUME NEW w \in Cells!Save, w = Cells!None
              PROVE  FALSE
  OBVIOUS
<1>1. "phase" \in DOMAIN w
  BY DEF Cells!Save
<1>2. DOMAIN Cells!None = {"none"}
  BY DEF Cells!None
<1>. QED
  BY <1>1, <1>2

LEMMA AnswerHasArrived ==
  ASSUME NEW m
  PROVE  [month |-> m] \notin {Cells!None, Cells!Asked}
<1>1. DOMAIN [month |-> m] = {"month"} /\ DOMAIN Cells!None = {"none"} /\ DOMAIN Cells!Asked = {"asked"}
  BY DEF Cells!None, Cells!Asked
<1>. QED
  BY <1>1

\* What a column shows and the field it writes.
LEMMA ColumnFields ==
  ASSUME NEW day \in [Cells!Fields -> Cells!Values], NEW column \in Cells!Columns
  PROVE  /\ Cells!FieldOf(day, column) \in Cells!Fields
         /\ Cells!chronologicalPlanBoundaries(day)[column] = day[Cells!FieldOf(day, column)]
         /\ Cells!chronologicalPlanBoundaries(day)[column] \in Cells!Values
BY DEF Cells!Fields, Cells!Columns, Cells!FieldOf, Cells!chronologicalPlanBoundaries

\* Once a changed time is stored its column shows what it showed before only if another
\* time has moved: the column was empty and the typed time went to the first one.
LEMMA SaveShows ==
  ASSUME NEW day \in Cells!Plans, NEW column \in Cells!Columns, NEW typed \in Cells!Values,
         typed # Cells!chronologicalPlanBoundaries(day)[column],
         NEW body, body = Cells!updatePlanBoundary(day, column, typed),
         Cells!chronologicalPlanBoundaries(body)[column]
           = Cells!chronologicalPlanBoundaries(day)[column]
  PROVE  Cells!chronologicalPlanBoundaries(day)[column] = Cells!Empty /\ typed # Cells!Empty
<1>1. /\ day \in [Cells!Fields -> Cells!Values] /\ Cells!Storable(day)
      /\ Cells!FieldOf(day, column) \in Cells!Fields
  BY ColumnFields DEF Cells!Plans
<1>2. /\ body \in [Cells!Fields -> Cells!Values] /\ body[Cells!FieldOf(day, column)] = typed
      /\ \A f \in Cells!Fields : f # Cells!FieldOf(day, column) => body[f] = day[f]
  BY <1>1 DEF Cells!updatePlanBoundary
<1>3. body[Cells!FieldOf(body, column)] = day[Cells!FieldOf(day, column)]
  BY <1>1, <1>2, ColumnFields
<1>4. typed # day[Cells!FieldOf(day, column)]
  BY <1>1, ColumnFields
<1>5. CellTime \in Nat
  BY CellsAssumption DEF Cells!BoundsAssumption
<1>6. day["arrival_time"] \in Nat /\ day["departure_time"] \in Nat
  BY <1>1, <1>5 DEF Cells!Fields, Cells!Values
<1>7. /\ day["arrival_time"] = 0 \/ day["departure_time"] = 0
         \/ day["arrival_time"] < day["departure_time"]
  BY <1>1 DEF Cells!Storable, Cells!Fields, Cells!Empty
<1>8. day[Cells!FieldOf(day, column)] = 0 /\ typed # 0
  <2>1. CASE column = 1
    BY <1>2, <1>3, <1>4, <1>6, <1>7, <2>1 DEF Cells!FieldOf, Cells!Fields, Cells!Empty
  <2>2. CASE column = 2
    BY <1>2, <1>3, <1>4, <1>6, <1>7, <2>2 DEF Cells!FieldOf, Cells!Fields, Cells!Empty
  <2>. QED
    BY <2>1, <2>2 DEF Cells!Columns
<1>. QED
  BY <1>1, <1>8, ColumnFields DEF Cells!Empty

LEMMA CellsInit == Init => Cells!IInv
<1>. SUFFICES ASSUME Cells!Init
              PROVE  Cells!IInv
  BY DEF Init
<1>1. CellTime \in Nat /\ MaxEdits \in Nat
  BY CellsAssumption DEF Cells!BoundsAssumption
<1>2. /\ server \in [Days -> Cells!Plans] /\ cache = server /\ confirmed = server
      /\ draft = [cell \in Cells!Cells |-> Cells!Shown(cache, cell)]
      /\ focus = <<>> /\ failed = {} /\ edits = 0
      /\ write = [d \in Days |-> Cells!None] /\ reading = Cells!None
      /\ late = [d \in Days |-> {}] /\ unread = {}
  BY DEF Cells!Init
<1>3. \A d \in Days : server[d] \in [Cells!Fields -> Cells!Values]
  BY <1>2 DEF Cells!Plans
<1>4. \A cell \in Cells!Cells : Cells!Shown(cache, cell) \in Cells!Values
  BY <1>2, <1>3, ColumnFields DEF Cells!Cells, Cells!Shown
<1>5. draft \in [Cells!Cells -> Cells!Values \cup {Cells!Garbled}]
  BY <1>2, <1>4
<1>6. confirmed \in [Days -> [Cells!Fields -> Cells!Values \cup {Cells!Unknown}]]
  BY <1>2, <1>3
<1>7. Cells!TypeOK
  BY <1>1, <1>2, <1>5, <1>6 DEF Cells!TypeOK
<1>8. Cells!KnownFits
  BY <1>2 DEF Cells!KnownFits, Cells!Fits, Cells!HasArrived
<1>9. Cells!SavesFit /\ Cells!FocusFree /\ Cells!DraftsFollow
  BY <1>2 DEF Cells!SavesFit, Cells!FocusFree, Cells!DraftsFollow
<1>. QED
  BY <1>7, <1>8, <1>9 DEF Cells!IInv

\* Typing and leaving touch nothing that is stored, known or under way.
LEMMA SavesStay ==
  ASSUME Cells!KnownFits, Cells!SavesFit, UNCHANGED <<server, cache, write, reading, confirmed, unread>>
  PROVE  Cells!KnownFits' /\ Cells!SavesFit'
BY DEF Cells!KnownFits, Cells!SavesFit, Cells!SaveOf, Cells!Fits, Cells!HasArrived, Cells!ReadBack

LEMMA CellTyped ==
  ASSUME Cells!IInv, NEW cell \in Cells!Cells, NEW v \in Cells!Values \cup {Cells!Garbled},
         Cells!Type(cell, v)
  PROVE  Cells!IInv'
<1>1. /\ focus \in {<<>>, cell} /\ write[cell[1]] = Cells!None /\ focus' = cell /\ edits < MaxEdits
      /\ draft' = [draft EXCEPT ![cell] = v] /\ failed' = failed \ {cell}
      /\ UNCHANGED <<server, cache, write, reading, late, confirmed, unread, edits>>
  BY DEF Cells!Type, Cells!ReadOnly
<1>2. Cells!TypeOK'
  BY <1>1 DEF Cells!IInv, Cells!TypeOK
<1>3. Cells!KnownFits' /\ Cells!SavesFit'
  BY <1>1, SavesStay DEF Cells!IInv
<1>4. Cells!FocusFree'
  BY <1>1 DEF Cells!FocusFree
<1>5. ASSUME NEW other \in Cells!Cells, other # cell
      PROVE  /\ draft'[other] = draft[other] /\ other # focus
             /\ other \notin failed' => other \notin failed
  <2>1. <<>> \notin Cells!Cells
    BY DEF Cells!Cells
  <2>. QED
    BY <1>1, <1>5, <2>1 DEF Cells!IInv, Cells!TypeOK
<1>6. Cells!DraftsFollow'
  BY <1>1, <1>5 DEF Cells!IInv, Cells!DraftsFollow, Cells!InFlight, Cells!Shown
<1>. QED
  BY <1>2, <1>3, <1>4, <1>6 DEF Cells!IInv

LEMMA CellEscaped ==
  ASSUME Cells!IInv, Cells!Escape
  PROVE  Cells!IInv'
<1>1. /\ focus # <<>> /\ focus' = <<>>
      /\ draft' = [draft EXCEPT ![focus] = Cells!Shown(cache, focus)]
      /\ UNCHANGED <<server, cache, failed, write, reading, late, confirmed, unread, edits>>
  BY DEF Cells!Escape
<1>2. PICK cell \in Cells!Cells : cell = focus
  BY <1>1 DEF Cells!IInv, Cells!TypeOK
<1>3. Cells!Shown(cache, cell) \in Cells!Values
  BY ColumnFields DEF Cells!IInv, Cells!TypeOK, Cells!Shown, Cells!Cells, Cells!Plans
<1>4. /\ draft' \in [Cells!Cells -> Cells!Values \cup {Cells!Garbled}]
      /\ draft'[cell] = Cells!Shown(cache, cell)
      /\ \A other \in Cells!Cells : other # cell => draft'[other] = draft[other]
  BY <1>1, <1>2, <1>3 DEF Cells!IInv, Cells!TypeOK
<1>5. Cells!TypeOK'
  BY <1>1, <1>4 DEF Cells!IInv, Cells!TypeOK
<1>6. Cells!KnownFits' /\ Cells!SavesFit'
  BY <1>1, SavesStay DEF Cells!IInv
<1>7. Cells!FocusFree'
  BY <1>1 DEF Cells!FocusFree
<1>8. Cells!DraftsFollow'
  BY <1>1, <1>2, <1>4 DEF Cells!IInv, Cells!DraftsFollow, Cells!InFlight, Cells!Shown
<1>. QED
  BY <1>5, <1>6, <1>7, <1>8 DEF Cells!IInv

\* A changed cell is left and its day is sent, the other time as the page knows it.
LEMMA CellSent ==
  ASSUME Cells!IInv, NEW d \in Days, NEW column \in Cells!Columns, NEW field, NEW shown, NEW body,
         focus = <<d, column>>, focus' = <<>>,
         field = Cells!FieldOf(cache[d], column), shown = Cells!Shown(cache, focus),
         body = Cells!updatePlanBoundary(cache[d], column, draft[focus]),
         draft[focus] \notin {Cells!Garbled, shown},
         write' = [write EXCEPT ![d] = [phase |-> "sent", column |-> column, field |-> field,
                                        typed |-> draft[focus], shown |-> shown, body |-> body,
                                        sure |-> TRUE]],
         confirmed' = IF Cells!ReadBack(d) THEN [confirmed EXCEPT ![d][field] = Cells!Unknown]
                                           ELSE [confirmed EXCEPT ![d] = Cells!Nothing],
         edits' = edits + 1,
         UNCHANGED <<server, cache, draft, failed, reading, late, unread>>
  PROVE  Cells!IInv'
<1>1. focus \in Cells!Cells /\ focus[1] = d /\ focus[2] = column
  BY DEF Cells!Cells
<1>2. PICK typed \in Cells!Values : typed = draft[focus]
  BY <1>1 DEF Cells!IInv, Cells!TypeOK
<1>3. /\ cache[d] \in Cells!Plans /\ cache[d] \in [Cells!Fields -> Cells!Values]
      /\ field \in Cells!Fields /\ shown = Cells!chronologicalPlanBoundaries(cache[d])[column]
      /\ shown \in Cells!Values
  BY <1>1, ColumnFields DEF Cells!IInv, Cells!TypeOK, Cells!Plans, Cells!Shown
<1>4. /\ body \in [Cells!Fields -> Cells!Values] /\ body[field] = typed
      /\ \A f \in Cells!Fields : f # field => body[f] = cache[d][f]
  BY <1>2, <1>3 DEF Cells!updatePlanBoundary
<1>. DEFINE w == [phase |-> "sent", column |-> column, field |-> field,
                  typed |-> typed, shown |-> shown, body |-> body, sure |-> TRUE]
<1>5. /\ w \in Cells!Save /\ w.phase = "sent" /\ w.column = column /\ w.field = field
      /\ w.typed = typed /\ w.shown = shown /\ w.body = body
  BY <1>2, <1>3, <1>4 DEF Cells!Save
<1>6. write' = [write EXCEPT ![d] = w]
  BY <1>2
<1>. HIDE DEF w
<1>7. /\ write' \in [Days -> {Cells!None} \cup Cells!Save] /\ write'[d] = w /\ w # Cells!None
      /\ \A e \in Days : e # d => write'[e] = write[e]
  BY <1>5, <1>6, SaveIsSome DEF Cells!IInv, Cells!TypeOK
<1>8. /\ confirmed' \in [Days -> [Cells!Fields -> Cells!Values \cup {Cells!Unknown}]]
      /\ confirmed'[d][field] = Cells!Unknown
      /\ \A f \in Cells!Fields : f # field =>
           confirmed'[d][f] = IF Cells!ReadBack(d) THEN confirmed[d][f] ELSE Cells!Unknown
      /\ \A e \in Days : e # d => confirmed'[e] = confirmed[e]
  <2>1. CASE Cells!ReadBack(d)
    BY <1>3, <2>1 DEF Cells!IInv, Cells!TypeOK
  <2>2. CASE ~ Cells!ReadBack(d)
    BY <1>3, <2>2 DEF Cells!IInv, Cells!TypeOK, Cells!Nothing
  <2>. QED
    BY <2>1, <2>2
<1>9. Cells!TypeOK'
  <2>1. edits' \in 0 .. MaxEdits
    BY CellsAssumption DEF Cells!BoundsAssumption, Cells!IInv, Cells!TypeOK, Cells!FocusFree
  <2>. QED
    BY <1>7, <1>8, <2>1 DEF Cells!IInv, Cells!TypeOK
<1>10. Cells!KnownFits'
  BY <1>8 DEF Cells!IInv, Cells!KnownFits, Cells!Fits, Cells!HasArrived, Cells!ReadBack
<1>11. Cells!SaveOf(d, w)'
  <2>1. Cells!Fits(body, confirmed'[d])
    BY <1>4, <1>8 DEF Cells!IInv, Cells!KnownFits, Cells!Fits
  <2>2. Cells!chronologicalPlanBoundaries(body)[column] = shown => shown = Cells!Empty /\ typed # Cells!Empty
    BY <1>2, <1>3, SaveShows
  <2>. QED
    BY <1>4, <1>5, <1>8, <2>1, <2>2 DEF Cells!SaveOf, w
<1>12. ASSUME NEW e \in Days, e # d, write[e] # Cells!None
       PROVE  Cells!SaveOf(e, write[e])'
  <2>1. Cells!SaveOf(e, write[e]) /\ write'[e] = write[e] /\ confirmed'[e] = confirmed[e]
    BY <1>7, <1>8, <1>12 DEF Cells!IInv, Cells!SavesFit
  <2>. QED
    BY <2>1 DEF Cells!SaveOf, Cells!HasArrived
<1>13. Cells!SavesFit'
  BY <1>7, <1>11, <1>12 DEF Cells!SavesFit
<1>14. Cells!FocusFree'
  BY DEF Cells!FocusFree
<1>15. ASSUME NEW cell \in Cells!Cells, cell \notin failed \cup unread, ~ Cells!InFlight(cell)'
       PROVE  draft[cell] = Cells!Shown(cache, cell)
  <2>1. cell[1] \in Days /\ cell[2] \in Cells!Columns /\ cell = <<cell[1], cell[2]>>
    BY DEF Cells!Cells
  <2>2. cell # focus
    <3>. SUFFICES ASSUME cell = focus PROVE FALSE
      OBVIOUS
    <3>1. cell[1] = d /\ cell[2] = column
      BY <1>1
    <3>. QED
      BY <1>5, <1>7, <1>15, <3>1 DEF Cells!InFlight
  <2>3. write[d] = Cells!None
    BY <1>1 DEF Cells!IInv, Cells!FocusFree
  <2>4. ~ Cells!InFlight(cell)
    BY <1>7, <1>15, <2>1, <2>3 DEF Cells!InFlight
  <2>. QED
    BY <1>15, <2>2, <2>4 DEF Cells!IInv, Cells!DraftsFollow
<1>16. Cells!DraftsFollow'
  BY <1>15 DEF Cells!DraftsFollow, Cells!Shown
<1>. QED
  BY <1>9, <1>10, <1>13, <1>14, <1>16 DEF Cells!IInv

LEMMA CellLeft ==
  ASSUME Cells!IInv, Cells!commit
  PROVE  Cells!IInv'
<1>1. focus # <<>> /\ focus' = <<>> /\ UNCHANGED <<server, cache, draft, reading, late, unread>>
  BY DEF Cells!commit
<1>2. PICK d \in Days, column \in Cells!Columns : focus = <<d, column>>
  BY <1>1 DEF Cells!IInv, Cells!TypeOK, Cells!Cells
<1>3. focus \in Cells!Cells
  BY <1>2 DEF Cells!Cells
<1>4. ASSUME UNCHANGED <<write, confirmed, edits>>,
             \/ draft[focus] = Cells!Shown(cache, focus) /\ UNCHANGED failed
             \/ failed' = failed \cup {focus}
      PROVE  Cells!IInv'
  <2>1. Cells!TypeOK'
    BY <1>1, <1>3, <1>4 DEF Cells!IInv, Cells!TypeOK
  <2>2. Cells!KnownFits' /\ Cells!SavesFit'
    BY <1>1, <1>4, SavesStay DEF Cells!IInv
  <2>3. Cells!FocusFree'
    BY <1>1 DEF Cells!FocusFree
  <2>4. Cells!DraftsFollow'
    BY <1>1, <1>4 DEF Cells!IInv, Cells!DraftsFollow, Cells!InFlight, Cells!Shown
  <2>. QED
    BY <2>1, <2>2, <2>3, <2>4 DEF Cells!IInv
<1>5. CASE draft[focus] \in {Cells!Garbled, Cells!Shown(cache, focus)}
  BY <1>4, <1>5 DEF Cells!commit
<1>6. CASE draft[focus] \notin {Cells!Garbled, Cells!Shown(cache, focus)}
  <2>1. PICK field, shown, body :
          /\ field = Cells!FieldOf(cache[d], column) /\ shown = Cells!Shown(cache, focus)
          /\ body = Cells!updatePlanBoundary(cache[d], column, draft[focus])
    OBVIOUS
  <2>2. /\ write' = [write EXCEPT ![d] = [phase |-> "sent", column |-> column, field |-> field,
                                          typed |-> draft[focus], shown |-> shown, body |-> body,
                                          sure |-> TRUE]]
        /\ confirmed' = IF Cells!ReadBack(d) THEN [confirmed EXCEPT ![d][field] = Cells!Unknown]
                                             ELSE [confirmed EXCEPT ![d] = Cells!Nothing]
        /\ edits' = edits + 1 /\ UNCHANGED failed
    BY <1>2, <1>6, <2>1 DEF Cells!commit
  <2>. QED
    BY <1>1, <1>2, <1>6, <2>1, <2>2, CellSent
<1>. QED
  BY <1>5, <1>6

\* The phase of a save changes; its times and its cell stay.
LEMMA PhaseSet ==
  ASSUME Cells!TypeOK, NEW d \in Days, write[d] # Cells!None,
         NEW p \in {"sent", "stored", "refresh", "read"}, write' = [write EXCEPT ![d].phase = p]
  PROVE  /\ write' \in [Days -> {Cells!None} \cup Cells!Save]
         /\ write'[d] # Cells!None /\ write'[d].phase = p
         /\ write'[d].column = write[d].column /\ write'[d].field = write[d].field
         /\ write'[d].typed = write[d].typed /\ write'[d].shown = write[d].shown
         /\ write'[d].body = write[d].body /\ write'[d].sure = write[d].sure
         /\ \A e \in Days : e # d => write'[e] = write[e]
         /\ \A cell \in Cells!Cells : Cells!InFlight(cell) <=> Cells!InFlight(cell)'
<1>1. write[d] \in Cells!Save
  BY DEF Cells!TypeOK
<1>2. write'[d] = [write[d] EXCEPT !.phase = p] /\ \A e \in Days : e # d => write'[e] = write[e]
  BY DEF Cells!TypeOK
<1>3. /\ write'[d] \in Cells!Save /\ write'[d].phase = p
      /\ write'[d].column = write[d].column /\ write'[d].field = write[d].field
      /\ write'[d].typed = write[d].typed /\ write'[d].shown = write[d].shown
      /\ write'[d].body = write[d].body /\ write'[d].sure = write[d].sure
  BY <1>1, <1>2 DEF Cells!Save
<1>4. write'[d] # Cells!None
  BY <1>3, SaveIsSome
<1>5. write' \in [Days -> {Cells!None} \cup Cells!Save]
  BY <1>2, <1>3 DEF Cells!TypeOK
<1>6. ASSUME NEW cell \in Cells!Cells
      PROVE  Cells!InFlight(cell) <=> Cells!InFlight(cell)'
  <2>1. cell[1] \in Days
    BY DEF Cells!Cells
  <2>. QED
    BY <1>2, <1>3, <1>4, <2>1 DEF Cells!InFlight
<1>. QED
  BY <1>2, <1>3, <1>4, <1>5, <1>6

LEMMA CellStored ==
  ASSUME Cells!IInv, NEW d \in Days, Cells!upsert_shift_plan(d)
  PROVE  Cells!IInv'
<1>1. /\ write[d] # Cells!None /\ write[d].phase = "sent" /\ Cells!Storable(write[d].body)
      /\ server' = [server EXCEPT ![d] = write[d].body]
      /\ write' = [write EXCEPT ![d].phase = "stored"]
      /\ UNCHANGED <<cache, draft, focus, failed, reading, late, confirmed, unread, edits>>
  BY DEF Cells!upsert_shift_plan
<1>2. /\ write' \in [Days -> {Cells!None} \cup Cells!Save]
      /\ write'[d] # Cells!None /\ write'[d].phase = "stored"
      /\ write'[d].column = write[d].column /\ write'[d].field = write[d].field
      /\ write'[d].typed = write[d].typed /\ write'[d].shown = write[d].shown
      /\ write'[d].body = write[d].body /\ write'[d].sure = write[d].sure
      /\ \A e \in Days : e # d => write'[e] = write[e]
      /\ \A cell \in Cells!Cells : Cells!InFlight(cell) <=> Cells!InFlight(cell)'
  BY <1>1, PhaseSet DEF Cells!IInv
<1>3. write[d] \in Cells!Save /\ write[d].body \in Cells!Plans
  BY <1>1 DEF Cells!IInv, Cells!TypeOK, Cells!Save, Cells!Plans
<1>4. /\ server' \in [Days -> Cells!Plans] /\ server'[d] = write[d].body
      /\ \A e \in Days : e # d => server'[e] = server[e]
  BY <1>1, <1>3 DEF Cells!IInv, Cells!TypeOK
<1>5. Cells!TypeOK'
  BY <1>1, <1>2, <1>4 DEF Cells!IInv, Cells!TypeOK
<1>6. Cells!SaveOf(d, write[d])
  BY <1>1 DEF Cells!IInv, Cells!SavesFit
<1>7. Cells!KnownFits'
  <2>1. Cells!Fits(server'[d], confirmed[d])
    BY <1>4, <1>6 DEF Cells!SaveOf
  <2>. QED
    BY <1>1, <1>4, <2>1 DEF Cells!IInv, Cells!KnownFits, Cells!HasArrived, Cells!Fits, Cells!ReadBack
<1>8. ASSUME NEW e \in Days, write'[e] # Cells!None
      PROVE  Cells!SaveOf(e, write[e])'
  <2>1. CASE e = d
    BY <1>1, <1>2, <1>4, <1>6, <2>1 DEF Cells!SaveOf, Cells!Fits, Cells!HasArrived
  <2>2. CASE e # d
    BY <1>1, <1>2, <1>4, <1>8, <2>2 DEF Cells!IInv, Cells!SavesFit, Cells!SaveOf, Cells!Fits, Cells!HasArrived
  <2>. QED
    BY <2>1, <2>2
<1>9. Cells!FocusFree'
  BY <1>1, <1>2 DEF Cells!IInv, Cells!TypeOK, Cells!FocusFree, Cells!Cells
<1>10. Cells!DraftsFollow'
  BY <1>1, <1>2 DEF Cells!IInv, Cells!DraftsFollow, Cells!Shown
<1>. QED
  BY <1>5, <1>7, <1>8, <1>9, <1>10 DEF Cells!IInv, Cells!SavesFit

LEMMA CellFailed ==
  ASSUME Cells!IInv, NEW d \in Days, Cells!SaveFails(d)
  PROVE  Cells!IInv'
<1>1. /\ write[d] # Cells!None
      /\ write' = [write EXCEPT ![d] = Cells!None]
      /\ failed' = failed \cup {<<d, write[d].column>>}
      /\ late' = IF write[d].phase = "sent" /\ Cells!Storable(write[d].body)
                 THEN [late EXCEPT ![d] = @ \cup {write[d].body}] ELSE late
      /\ UNCHANGED <<server, cache, draft, focus, reading, confirmed, unread, edits>>
  BY DEF Cells!SaveFails
<1>2. write[d].column \in Cells!Columns /\ <<d, write[d].column>> \in Cells!Cells
  BY <1>1 DEF Cells!IInv, Cells!TypeOK, Cells!Save, Cells!Cells
<1>3. /\ write' \in [Days -> {Cells!None} \cup Cells!Save] /\ write'[d] = Cells!None
      /\ \A e \in Days : e # d => write'[e] = write[e]
  BY <1>1 DEF Cells!IInv, Cells!TypeOK
<1>4. Cells!TypeOK'
  <2>1. Cells!Storable(write[d].body) => write[d].body \in Cells!Plans
    BY <1>1 DEF Cells!IInv, Cells!TypeOK, Cells!Save, Cells!Plans
  <2>2. late' \in [Days -> SUBSET Cells!Plans]
    BY <1>1, <2>1 DEF Cells!IInv, Cells!TypeOK
  <2>. QED
    BY <1>1, <1>2, <1>3, <2>2 DEF Cells!IInv, Cells!TypeOK
<1>5. Cells!KnownFits'
  BY <1>1 DEF Cells!IInv, Cells!KnownFits, Cells!HasArrived, Cells!Fits, Cells!ReadBack
<1>6. Cells!SavesFit'
  BY <1>1, <1>3 DEF Cells!IInv, Cells!SavesFit, Cells!SaveOf, Cells!HasArrived, Cells!Fits
<1>7. Cells!FocusFree'
  BY <1>1, <1>3 DEF Cells!IInv, Cells!TypeOK, Cells!FocusFree, Cells!Cells
<1>8. ASSUME NEW cell \in Cells!Cells, cell \notin failed', ~ Cells!InFlight(cell)'
      PROVE  ~ Cells!InFlight(cell)
  <2>1. cell[1] \in Days /\ cell = <<cell[1], cell[2]>>
    BY DEF Cells!Cells
  <2>. QED
    BY <1>1, <1>3, <1>8, <2>1 DEF Cells!InFlight
<1>9. Cells!DraftsFollow'
  BY <1>1, <1>8 DEF Cells!IInv, Cells!DraftsFollow, Cells!Shown
<1>. QED
  BY <1>4, <1>5, <1>6, <1>7, <1>9 DEF Cells!IInv

\* A save that the browser has given up is stored: nothing is promised of the day.
LEMMA CellStoredLate ==
  ASSUME Cells!IInv, NEW d \in Days, Cells!StoredLate(d)
  PROVE  Cells!IInv'
<1>1. PICK body \in late[d] : /\ server' = [server EXCEPT ![d] = body]
                              /\ late' = [late EXCEPT ![d] = @ \ {body}]
  BY DEF Cells!StoredLate
<1>2. /\ write' = IF write[d] # Cells!None /\ write[d].phase # "sent"
                  THEN [write EXCEPT ![d].sure = FALSE] ELSE write
      /\ confirmed' = [confirmed EXCEPT ![d] = Cells!Nothing]
      /\ UNCHANGED <<cache, draft, focus, failed, reading, unread, edits>>
  BY DEF Cells!StoredLate
<1>3. /\ server' \in [Days -> Cells!Plans] /\ late' \in [Days -> SUBSET Cells!Plans]
      /\ \A e \in Days : e # d => server'[e] = server[e]
  BY <1>1 DEF Cells!IInv, Cells!TypeOK
<1>4. /\ confirmed' \in [Days -> [Cells!Fields -> Cells!Values \cup {Cells!Unknown}]]
      /\ \A f \in Cells!Fields : confirmed'[d][f] = Cells!Unknown
      /\ \A e \in Days : e # d => confirmed'[e] = confirmed[e]
  BY <1>2 DEF Cells!IInv, Cells!TypeOK, Cells!Nothing
<1>5. /\ write' \in [Days -> {Cells!None} \cup Cells!Save]
      /\ \A e \in Days : e # d => write'[e] = write[e]
      /\ write'[d] = Cells!None <=> write[d] = Cells!None
      /\ write[d] # Cells!None =>
           /\ write'[d].phase = write[d].phase
           /\ write'[d].column = write[d].column /\ write'[d].field = write[d].field
           /\ write'[d].typed = write[d].typed /\ write'[d].shown = write[d].shown
           /\ write'[d].body = write[d].body
           /\ write[d].phase = "sent" \/ ~write'[d].sure
  <2>1. CASE write' = write /\ (write[d] = Cells!None \/ write[d].phase = "sent")
    BY <2>1 DEF Cells!IInv, Cells!TypeOK
  <2>2. CASE /\ write[d] # Cells!None /\ write[d].phase # "sent"
             /\ write' = [write EXCEPT ![d].sure = FALSE]
    <3>1. write[d] \in Cells!Save
      BY <2>2 DEF Cells!IInv, Cells!TypeOK
    <3>2. /\ write'[d] = [write[d] EXCEPT !.sure = FALSE]
          /\ \A e \in Days : e # d => write'[e] = write[e]
      BY <2>2 DEF Cells!IInv, Cells!TypeOK
    <3>3. /\ write'[d] \in Cells!Save /\ write'[d].phase = write[d].phase
          /\ write'[d].column = write[d].column /\ write'[d].field = write[d].field
          /\ write'[d].typed = write[d].typed /\ write'[d].shown = write[d].shown
          /\ write'[d].body = write[d].body /\ ~write'[d].sure
      BY <3>1, <3>2 DEF Cells!Save
    <3>4. write' \in [Days -> {Cells!None} \cup Cells!Save]
      BY <2>2, <3>2, <3>3 DEF Cells!IInv, Cells!TypeOK
    <3>. QED
      BY <2>2, <3>2, <3>3, <3>4, SaveIsSome
  <2>. QED
    BY <1>2, <2>1, <2>2
<1>6. Cells!TypeOK'
  BY <1>2, <1>3, <1>4, <1>5 DEF Cells!IInv, Cells!TypeOK
<1>7. Cells!KnownFits'
  BY <1>2, <1>3, <1>4 DEF Cells!IInv, Cells!KnownFits, Cells!HasArrived, Cells!Fits, Cells!ReadBack
<1>8. ASSUME NEW e \in Days, write'[e] # Cells!None
      PROVE  Cells!SaveOf(e, write[e])'
  <2>1. CASE e = d
    <3>1. Cells!SaveOf(d, write[d]) /\ write[d].field \in Cells!Fields
      BY <1>5, <1>8, <2>1 DEF Cells!IInv, Cells!SavesFit, Cells!TypeOK, Cells!Save
    <3>. QED
      BY <1>2, <1>4, <1>5, <1>8, <2>1, <3>1 DEF Cells!SaveOf, Cells!Fits, Cells!HasArrived
  <2>2. CASE e # d
    BY <1>2, <1>3, <1>4, <1>5, <1>8, <2>2 DEF Cells!IInv, Cells!SavesFit, Cells!SaveOf, Cells!Fits,
       Cells!HasArrived
  <2>. QED
    BY <2>1, <2>2
<1>9. \A cell \in Cells!Cells : Cells!InFlight(cell) <=> Cells!InFlight(cell)'
  <2>1. \A cell \in Cells!Cells : cell[1] \in Days
    BY DEF Cells!Cells
  <2>. QED
    BY <1>5, <2>1 DEF Cells!InFlight
<1>10. Cells!FocusFree'
  BY <1>2, <1>5 DEF Cells!IInv, Cells!TypeOK, Cells!FocusFree, Cells!Cells
<1>11. Cells!DraftsFollow'
  BY <1>2, <1>9 DEF Cells!IInv, Cells!DraftsFollow, Cells!Shown
<1>. QED
  BY <1>6, <1>7, <1>8, <1>10, <1>11 DEF Cells!IInv, Cells!SavesFit

\* The month is read again after the save was stored.
LEMMA CellRefreshes ==
  ASSUME Cells!IInv, NEW d \in Days, Cells!refresh(d)
  PROVE  Cells!IInv'
<1>1. /\ write[d] # Cells!None /\ write[d].phase = "stored" /\ reading' = Cells!Asked
      /\ write' = [write EXCEPT ![d].phase = "refresh"]
      /\ UNCHANGED <<server, cache, draft, focus, failed, late, confirmed, unread, edits>>
  BY DEF Cells!refresh
<1>2. /\ write' \in [Days -> {Cells!None} \cup Cells!Save]
      /\ write'[d] # Cells!None /\ write'[d].phase = "refresh"
      /\ write'[d].column = write[d].column /\ write'[d].field = write[d].field
      /\ write'[d].typed = write[d].typed /\ write'[d].shown = write[d].shown
      /\ write'[d].body = write[d].body /\ write'[d].sure = write[d].sure
      /\ \A e \in Days : e # d => write'[e] = write[e]
      /\ \A cell \in Cells!Cells : Cells!InFlight(cell) <=> Cells!InFlight(cell)'
  BY <1>1, PhaseSet DEF Cells!IInv
<1>3. Cells!TypeOK'
  BY <1>1, <1>2 DEF Cells!IInv, Cells!TypeOK
<1>4. ~ Cells!HasArrived' /\ reading' # Cells!None
  <2>1. DOMAIN Cells!Asked = {"asked"} /\ DOMAIN Cells!None = {"none"}
    BY DEF Cells!Asked, Cells!None
  <2>. QED
    BY <1>1, <2>1 DEF Cells!HasArrived
<1>5. Cells!KnownFits'
  BY <1>1, <1>4 DEF Cells!IInv, Cells!KnownFits, Cells!Fits, Cells!ReadBack
<1>6. ASSUME NEW e \in Days, write'[e] # Cells!None
      PROVE  Cells!SaveOf(e, write[e])'
  <2>1. CASE e = d
    <3>1. Cells!SaveOf(d, write[d])
      BY <1>1 DEF Cells!IInv, Cells!SavesFit
    <3>. QED
      BY <1>1, <1>2, <1>4, <2>1, <3>1 DEF Cells!SaveOf, Cells!Fits
  <2>2. CASE e # d
    BY <1>1, <1>2, <1>4, <1>6, <2>2 DEF Cells!IInv, Cells!SavesFit, Cells!SaveOf, Cells!Fits
  <2>. QED
    BY <2>1, <2>2
<1>7. Cells!FocusFree'
  BY <1>1, <1>2 DEF Cells!IInv, Cells!TypeOK, Cells!FocusFree, Cells!Cells
<1>8. Cells!DraftsFollow'
  BY <1>1, <1>2 DEF Cells!IInv, Cells!DraftsFollow, Cells!Shown
<1>. QED
  BY <1>3, <1>5, <1>6, <1>7, <1>8 DEF Cells!IInv, Cells!SavesFit

LEMMA MonthRead ==
  ASSUME Cells!IInv, Cells!ServerReads
  PROVE  Cells!IInv'
<1>1. /\ reading' = [month |-> server]
      /\ UNCHANGED <<server, cache, draft, focus, failed, write, late, confirmed, unread, edits>>
  BY DEF Cells!ServerReads
<1>2. reading'.month = server /\ reading' # Cells!None
  BY <1>1, AnswerHasArrived
<1>3. Cells!TypeOK'
  BY <1>1 DEF Cells!IInv, Cells!TypeOK
<1>4. Cells!KnownFits'
  BY <1>1, <1>2 DEF Cells!IInv, Cells!KnownFits, Cells!Fits, Cells!ReadBack
<1>5. Cells!SavesFit'
  BY <1>1, <1>2 DEF Cells!IInv, Cells!SavesFit, Cells!SaveOf, Cells!Fits
<1>6. Cells!FocusFree' /\ Cells!DraftsFollow'
  BY <1>1 DEF Cells!IInv, Cells!FocusFree, Cells!DraftsFollow, Cells!Shown, Cells!InFlight
<1>. QED
  BY <1>3, <1>4, <1>5, <1>6 DEF Cells!IInv

\* What becomes of a save when the reading that some wait for has ended.
Waited(d) ==
  \/ write[d] = Cells!None /\ write'[d] = Cells!None
  \/ /\ write[d] \in Cells!Save /\ write'[d] \in Cells!Save
     /\ write[d] # Cells!None /\ write'[d] # Cells!None
     /\ \/ write[d].phase = "refresh" /\ write'[d].phase = "read"
        \/ write[d].phase # "refresh" /\ write'[d].phase = write[d].phase
     /\ write'[d].column = write[d].column /\ write'[d].field = write[d].field
     /\ write'[d].typed = write[d].typed /\ write'[d].shown = write[d].shown
     /\ write'[d].body = write[d].body /\ write'[d].sure = write[d].sure

LEMMA WaitEnds ==
  ASSUME Cells!TypeOK, Cells!ReadEnds
  PROVE  /\ write' \in [Days -> {Cells!None} \cup Cells!Save]
         /\ \A d \in Days : Waited(d)
         /\ \A cell \in Cells!Cells : Cells!InFlight(cell) <=> Cells!InFlight(cell)'
<1>1. write' = [d \in Days |-> IF write[d] # Cells!None /\ write[d].phase = "refresh"
                               THEN [write[d] EXCEPT !.phase = "read"] ELSE write[d]]
  BY DEF Cells!ReadEnds
<1>2. ASSUME NEW d \in Days PROVE Waited(d)
  <2>1. CASE write[d] = Cells!None
    BY <1>1, <2>1 DEF Waited
  <2>2. CASE write[d] # Cells!None /\ write[d].phase = "refresh"
    <3>1. write[d] \in Cells!Save
      BY <2>2 DEF Cells!TypeOK
    <3>2. write'[d] = [write[d] EXCEPT !.phase = "read"]
      BY <1>1, <2>2
    <3>3. /\ write'[d] \in Cells!Save /\ write'[d].phase = "read"
          /\ write'[d].column = write[d].column /\ write'[d].field = write[d].field
          /\ write'[d].typed = write[d].typed /\ write'[d].shown = write[d].shown
          /\ write'[d].body = write[d].body /\ write'[d].sure = write[d].sure
      BY <3>1, <3>2 DEF Cells!Save
    <3>. QED
      BY <2>2, <3>1, <3>3, SaveIsSome DEF Waited
  <2>3. CASE write[d] # Cells!None /\ write[d].phase # "refresh"
    BY <1>1, <2>3 DEF Cells!TypeOK, Waited
  <2>. QED
    BY <2>1, <2>2, <2>3
<1>3. \A cell \in Cells!Cells : Cells!InFlight(cell) <=> Cells!InFlight(cell)'
  <2>1. \A cell \in Cells!Cells : cell[1] \in Days
    BY DEF Cells!Cells
  <2>. QED
    BY <1>2, <2>1 DEF Cells!InFlight, Waited
<1>4. write' \in [Days -> {Cells!None} \cup Cells!Save]
  <2>1. DOMAIN write' = Days /\ write' = [d \in Days |-> write'[d]]
    BY <1>1
  <2>. QED
    BY <1>2, <2>1 DEF Waited
<1>. QED
  BY <1>2, <1>3, <1>4

\* Reading fails: the page goes on with what it knows.
LEMMA MonthNotRead ==
  ASSUME Cells!IInv, Cells!ReadFails
  PROVE  Cells!IInv'
<1>1. /\ Cells!ReadEnds /\ reading' = Cells!None
      /\ UNCHANGED <<server, cache, draft, focus, failed, late, confirmed, unread, edits>>
  BY DEF Cells!ReadFails
<1>2. /\ write' \in [Days -> {Cells!None} \cup Cells!Save]
      /\ \A d \in Days : Waited(d)
      /\ \A cell \in Cells!Cells : Cells!InFlight(cell) <=> Cells!InFlight(cell)'
  BY <1>1, WaitEnds DEF Cells!IInv
<1>3. Cells!TypeOK'
  BY <1>1, <1>2 DEF Cells!IInv, Cells!TypeOK
<1>4. ~ Cells!HasArrived'
  BY <1>1 DEF Cells!HasArrived
<1>5. Cells!KnownFits'
  BY <1>1, <1>4 DEF Cells!IInv, Cells!KnownFits, Cells!Fits, Cells!ReadBack
<1>6. ASSUME NEW d \in Days, write'[d] # Cells!None
      PROVE  Cells!SaveOf(d, write[d])'
  <2>1. Cells!SaveOf(d, write[d])
    BY <1>2, <1>6 DEF Cells!IInv, Cells!SavesFit, Waited
  <2>. QED
    BY <1>1, <1>2, <1>4, <1>6, <2>1 DEF Cells!SaveOf, Cells!Fits, Waited
<1>7. Cells!FocusFree'
  BY <1>1, <1>2 DEF Cells!IInv, Cells!TypeOK, Cells!FocusFree, Cells!Cells, Waited
<1>8. Cells!DraftsFollow'
  BY <1>1, <1>2 DEF Cells!IInv, Cells!DraftsFollow, Cells!Shown
<1>. QED
  BY <1>3, <1>5, <1>6, <1>7, <1>8 DEF Cells!IInv, Cells!SavesFit

\* The month arrives: those who waited for it find their own save in it.
LEMMA MonthDelivered ==
  ASSUME Cells!IInv, Cells!Deliver
  PROVE  Cells!IInv'
<1>1. /\ Cells!HasArrived /\ cache' = reading.month /\ reading' = Cells!None
      /\ Cells!ReadEnds
      /\ unread' = {cell \in unread : draft'[cell] # Cells!Shown(reading.month, cell)}
      /\ UNCHANGED <<server, focus, failed, late, confirmed, edits>>
  BY DEF Cells!Deliver, Cells!HasArrived
<1>2. draft' = [cell \in Cells!Cells |->
                  IF Cells!Shown(cache, cell) # Cells!Shown(reading.month, cell) /\ ~ Cells!InFlight(cell)
                  THEN Cells!Shown(reading.month, cell) ELSE draft[cell]]
  BY DEF Cells!Deliver
<1>3. reading.month \in [Days -> Cells!Plans] /\ ~ Cells!HasArrived'
  BY <1>1 DEF Cells!IInv, Cells!TypeOK, Cells!HasArrived
<1>4. /\ write' \in [Days -> {Cells!None} \cup Cells!Save]
      /\ \A d \in Days : Waited(d)
      /\ \A cell \in Cells!Cells : Cells!InFlight(cell) <=> Cells!InFlight(cell)'
  BY <1>1, WaitEnds DEF Cells!IInv
<1>6. \A cell \in Cells!Cells : Cells!Shown(reading.month, cell) \in Cells!Values
  BY <1>3, ColumnFields DEF Cells!Shown, Cells!Cells, Cells!Plans
<1>7. Cells!TypeOK'
  <2>1. draft' \in [Cells!Cells -> Cells!Values \cup {Cells!Garbled}]
    BY <1>2, <1>6 DEF Cells!IInv, Cells!TypeOK
  <2>. QED
    BY <1>1, <1>3, <1>4, <2>1 DEF Cells!IInv, Cells!TypeOK
<1>8. Cells!KnownFits'
  BY <1>1, <1>3 DEF Cells!IInv, Cells!KnownFits, Cells!Fits
<1>9. ASSUME NEW d \in Days, write'[d] # Cells!None
      PROVE  Cells!SaveOf(d, write[d])'
  <2>1. Cells!SaveOf(d, write[d])
    BY <1>4, <1>9 DEF Cells!IInv, Cells!SavesFit, Waited
  <2>. QED
    BY <1>1, <1>3, <1>4, <1>9, <2>1 DEF Cells!SaveOf, Cells!Fits, Waited
<1>10. Cells!FocusFree'
  BY <1>1, <1>4 DEF Cells!IInv, Cells!TypeOK, Cells!FocusFree, Cells!Cells, Waited
<1>11. ASSUME NEW cell \in Cells!Cells, cell # focus, cell \notin failed \cup unread',
              ~ Cells!InFlight(cell)
       PROVE  draft'[cell] = Cells!Shown(cache, cell)'
  <2>1. Cells!Shown(cache, cell)' = Cells!Shown(reading.month, cell)
    BY <1>1 DEF Cells!Shown
  <2>2. CASE cell \in unread
    BY <1>1, <1>11, <2>1, <2>2
  <2>3. CASE cell \notin unread
    <3>1. draft[cell] = Cells!Shown(cache, cell)
      BY <1>11, <2>3 DEF Cells!IInv, Cells!DraftsFollow
    <3>. QED
      BY <1>2, <1>11, <2>1, <3>1
  <2>. QED
    BY <2>2, <2>3
<1>12. Cells!DraftsFollow'
  BY <1>1, <1>4, <1>11 DEF Cells!DraftsFollow
<1>. QED
  BY <1>7, <1>8, <1>9, <1>10, <1>12 DEF Cells!IInv, Cells!SavesFit

LEMMA CellAcknowledged ==
  ASSUME Cells!IInv, NEW d \in Days, Cells!Acknowledge(d)
  PROVE  Cells!IInv'
<1>1. PICK w : w = write[d]
  OBVIOUS
<1>2. PICK cell : cell = <<d, w.column>>
  OBVIOUS
<1>3. /\ w # Cells!None /\ w.phase = "read"
      /\ draft' = [draft EXCEPT ![cell] = Cells!Settled(cell, w)]
      /\ confirmed' = IF w.sure THEN [confirmed EXCEPT ![d][w.field] = w.typed] ELSE confirmed
      /\ unread' = IF cache[d] = w.body THEN unread \ {cell} ELSE unread \cup {cell}
      /\ write' = [write EXCEPT ![d] = Cells!None]
      /\ UNCHANGED <<server, cache, focus, failed, reading, late, edits>>
  BY <1>1, <1>2 DEF Cells!Acknowledge
<1>4. /\ w \in Cells!Save /\ w.column \in Cells!Columns /\ w.field \in Cells!Fields
      /\ w.typed \in Cells!Values /\ cell \in Cells!Cells /\ cell[1] = d /\ cell[2] = w.column
  BY <1>1, <1>2, <1>3 DEF Cells!IInv, Cells!TypeOK, Cells!Save, Cells!Cells
<1>5. Cells!SaveOf(d, w)
  BY <1>1, <1>3 DEF Cells!IInv, Cells!SavesFit
<1>6. /\ w.body[w.field] = w.typed /\ Cells!Fits(w.body, confirmed[d])
      /\ w.sure => server[d] = w.body
      /\ w.sure /\ Cells!HasArrived => reading.month[d] = w.body
  BY <1>3, <1>5 DEF Cells!SaveOf
<1>7. /\ Cells!Settled(cell, w) \in Cells!Values
      /\ cache[d] = w.body => Cells!Settled(cell, w) = Cells!Shown(cache, cell)
  <2>1. /\ Cells!Shown(cache, cell) = Cells!chronologicalPlanBoundaries(cache[d])[w.column]
        /\ Cells!Shown(cache, cell) \in Cells!Values
    BY <1>4, ColumnFields DEF Cells!Shown, Cells!IInv, Cells!TypeOK, Cells!Plans
  <2>2. cache[d] = w.body /\ Cells!Shown(cache, cell) = w.shown =>
          w.shown = Cells!Empty /\ w.typed # Cells!Empty
    BY <1>5, <2>1 DEF Cells!SaveOf
  <2>3. Cells!Empty \in Cells!Values
    BY CellsAssumption DEF Cells!BoundsAssumption, Cells!Empty, Cells!Values
  <2>. QED
    BY <1>4, <2>1, <2>2, <2>3 DEF Cells!Settled
<1>8. /\ write' \in [Days -> {Cells!None} \cup Cells!Save] /\ write'[d] = Cells!None
      /\ \A e \in Days : e # d => write'[e] = write[e]
  BY <1>3 DEF Cells!IInv, Cells!TypeOK
<1>9. /\ confirmed' \in [Days -> [Cells!Fields -> Cells!Values \cup {Cells!Unknown}]]
      /\ confirmed'[d][w.field] = IF w.sure THEN w.typed ELSE confirmed[d][w.field]
      /\ \A f \in Cells!Fields : f # w.field => confirmed'[d][f] = confirmed[d][f]
      /\ \A e \in Days : e # d => confirmed'[e] = confirmed[e]
  BY <1>3, <1>4 DEF Cells!IInv, Cells!TypeOK
<1>10. /\ draft' \in [Cells!Cells -> Cells!Values \cup {Cells!Garbled}]
       /\ draft'[cell] = Cells!Settled(cell, w)
       /\ \A other \in Cells!Cells : other # cell => draft'[other] = draft[other]
  BY <1>3, <1>4, <1>7 DEF Cells!IInv, Cells!TypeOK
<1>11. Cells!TypeOK'
  BY <1>3, <1>4, <1>8, <1>9, <1>10 DEF Cells!IInv, Cells!TypeOK
<1>12. Cells!KnownFits'
  <2>1. ASSUME NEW e \in Days, e # d, Cells!ReadBack(e)' PROVE Cells!ReadBack(e)
    BY <1>3, <1>4, <2>1 DEF Cells!ReadBack
  <2>2. Cells!ReadBack(d)' => cache[d] = w.body
    BY <1>3, <1>4 DEF Cells!ReadBack
  <2>3. Cells!Fits(w.body, confirmed'[d])
    BY <1>6, <1>9 DEF Cells!Fits
  <2>4. /\ Cells!Fits(server[d], confirmed'[d])
        /\ Cells!HasArrived => Cells!Fits(reading.month[d], confirmed'[d])
    <3>1. CASE w.sure
      BY <1>6, <2>3, <3>1
    <3>2. CASE ~w.sure
      BY <1>3, <3>2 DEF Cells!IInv, Cells!KnownFits
    <3>. QED
      BY <3>1, <3>2
  <2>5. ASSUME NEW e \in Days
        PROVE  /\ Cells!Fits(server'[e], confirmed'[e])
               /\ Cells!ReadBack(e)' => Cells!Fits(cache'[e], confirmed'[e])
               /\ Cells!HasArrived' => Cells!Fits(reading'.month[e], confirmed'[e])
    <3>1. Cells!HasArrived' <=> Cells!HasArrived
      BY <1>3 DEF Cells!HasArrived
    <3>2. CASE e = d
      BY <1>3, <2>2, <2>3, <2>4, <3>1, <3>2
    <3>3. CASE e # d
      BY <1>3, <1>9, <2>1, <3>1, <3>3 DEF Cells!IInv, Cells!KnownFits
    <3>. QED
      BY <3>2, <3>3
  <2>. QED
    BY <2>5 DEF Cells!KnownFits, Cells!Fits
<1>13. Cells!SavesFit'
  BY <1>3, <1>8, <1>9 DEF Cells!IInv, Cells!SavesFit, Cells!SaveOf, Cells!Fits, Cells!HasArrived
<1>14. Cells!FocusFree'
  BY <1>3, <1>8 DEF Cells!IInv, Cells!TypeOK, Cells!FocusFree, Cells!Cells
<1>15. ASSUME NEW other \in Cells!Cells, other # cell, ~ Cells!InFlight(other)'
       PROVE  ~ Cells!InFlight(other)
  <2>1. other[1] \in Days /\ other = <<other[1], other[2]>>
    BY DEF Cells!Cells
  <2>. QED
    BY <1>1, <1>2, <1>8, <1>15, <2>1 DEF Cells!InFlight
<1>16. Cells!DraftsFollow'
  BY <1>3, <1>4, <1>7, <1>10, <1>15 DEF Cells!IInv, Cells!DraftsFollow, Cells!Shown
<1>. QED
  BY <1>11, <1>12, <1>13, <1>14, <1>16 DEF Cells!IInv

LEMMA CellsSafe == Cells!IInv /\ [Next]_vars => Cells!IInv'
<1>. SUFFICES ASSUME Cells!IInv, [Cells!Next]_cellVars
              PROVE  Cells!IInv'
  BY CellsOnly
<1>1. CASE UNCHANGED cellVars
  BY <1>1 DEF cellVars, Cells!IInv, Cells!TypeOK, Cells!KnownFits, Cells!SavesFit, Cells!SaveOf,
     Cells!FocusFree, Cells!DraftsFollow, Cells!Fits, Cells!HasArrived, Cells!InFlight, Cells!Shown,
     Cells!ReadBack
<1>2. CASE Cells!Next
  BY <1>2, CellTyped, CellEscaped, CellLeft, CellStored, CellFailed, CellStoredLate, CellRefreshes,
     MonthRead, MonthDelivered, MonthNotRead, CellAcknowledged DEF Cells!Next
<1>. QED
  BY <1>1, <1>2

\* A time whose saving was confirmed stays stored until the user changes that time
\* (updatePlanBoundary, usePendingPlanWrites): saving the other time of the day never
\* brings an older one back, whatever was lost, could not be read or was stored late on
\* other days.  On the day itself the promise ends with a save stored late, and with the
\* next edit if the page could not read the confirmed save back.
THEOREM ConfirmedTimesStay == Spec => []ConfirmedStays
<1>1. Cells!IInv => ConfirmedStays
  BY DEF Cells!IInv, Cells!KnownFits, Cells!Fits, ConfirmedStays, Cells!ConfirmedStays
<1>. QED
  BY <1>1, CellsInit, CellsSafe, PTL DEF Spec

\* A cell at rest shows what the page knows at its place (ClockInput.tsx), although saving
\* one time of a day may move the other one to another cell; only a confirmed save that
\* the page could not read back leaves what was typed.
THEOREM CellsShowKnown == Spec => []ShowsKnown
<1>1. Cells!IInv => ShowsKnown
  BY DEF Cells!IInv, Cells!DraftsFollow, Cells!InFlight, ShowsKnown, Cells!ShowsKnown
<1>. QED
  BY <1>1, CellsInit, CellsSafe, PTL DEF Spec

-----------------------------------------------------------------------------
(* The pages of a list.  Walks over events and over employments share the state; *)
(* they differ in the employments, in the limit and in what may be patched.      *)

PageRow == [at : Times, employment : EventEmployments \cup FixedEmployments]

PagesTyped ==
  /\ nextId \in 1 .. (MaxId + 1)
  /\ DOMAIN rows \subseteq 1 .. (nextId - 1) /\ rows = [i \in DOMAIN rows |-> rows[i]]
  /\ \A i \in DOMAIN rows : rows[i] \in PageRow
  /\ cursor = <<>> \/ cursor \in Times \X (1 .. MaxId)
  /\ delivered \in [1 .. MaxId -> Nat]

PagesInv == PagesTyped /\ Events!NoRepeat /\ Events!NotAhead /\ Events!NothingSkipped

LEMMA PagesOnly == [Next]_vars => [Events!Next \/ Fixed!Next]_pageVars
BY DEF Next, vars, SecretsStep, ScopeStep, EventsStep, FixedStep, NonceStep, ProfilesStep, CellsStep

LEMMA PagesNumbers ==
  ASSUME PagesTyped
  PROVE  /\ MaxId \in Nat /\ nextId \in Nat \ {0} /\ nextId <= MaxId + 1
         /\ \A i \in DOMAIN rows : i \in 1 .. MaxId /\ i < nextId /\ rows[i].at \in Nat
         /\ cursor # <<>> => cursor[1] \in Nat /\ cursor[2] \in Nat
BY PagesAssumption DEF PagesTyped, PageRow, Events!PageAssumption

LEMMA PagesInit == Init => PagesInv
<1>. SUFFICES ASSUME Events!Init \/ Fixed!Init
              PROVE  PagesInv
  BY DEF Init
<1>1. MaxId \in Nat
  BY PagesAssumption DEF Events!PageAssumption
<1>2. PICK n \in 0 .. MaxId :
        nextId = n + 1 /\ (rows \in [1 .. n -> Events!Row] \/ rows \in [1 .. n -> Fixed!Row])
  BY DEF Events!Init, Fixed!Init
<1>3. /\ cursor = <<>> /\ delivered = [i \in 1 .. MaxId |-> 0] /\ done = FALSE
      /\ touched = {i \in DOMAIN rows : rows[i].employment \notin scope}
  BY DEF Events!Init, Fixed!Init, Events!Start, Fixed!Start, Events!Ids, Fixed!Ids
<1>4. Events!Row \subseteq PageRow /\ Fixed!Row \subseteq PageRow
  BY DEF Events!Row, Fixed!Row, PageRow
<1>5. PagesTyped
  BY <1>1, <1>2, <1>3, <1>4 DEF PagesTyped
<1>6. Events!NoRepeat /\ Events!NotAhead
  BY <1>1, <1>3, <1>5, PagesNumbers DEF Events!NoRepeat, Events!NotAhead, Events!Ids
<1>7. Events!NothingSkipped
  BY <1>3 DEF Events!NothingSkipped, Events!AfterCursor, Events!Start
<1>. QED
  BY <1>5, <1>6, <1>7 DEF PagesInv

\* A page is sent; the rows on it have not been sent before.
LEMMA RowsSent ==
  ASSUME PagesInv, ~ done, NEW P \in SUBSET Events!Selected, Events!Sent(P),
         UNCHANGED <<rows, nextId, moved>>
  PROVE  /\ delivered' \in [1 .. MaxId -> Nat] /\ Events!NoRepeat'
         /\ \A i \in 1 .. MaxId : i >= nextId => delivered'[i] = 0
         /\ \A i \in 1 .. MaxId : delivered'[i] >= delivered[i] /\ (i \in P => delivered'[i] >= 1)
         /\ \A i \in 1 .. MaxId : i \notin P => delivered'[i] = delivered[i]
<1>1. delivered' = [i \in 1 .. MaxId |-> delivered[i] + (IF i \in P THEN 1 ELSE 0)]
  BY DEF Events!Sent, Events!Ids
<1>2. /\ delivered \in [1 .. MaxId -> Nat] /\ \A i \in P : i \in DOMAIN rows /\ Events!AfterCursor(i)
  BY DEF PagesInv, PagesTyped, Events!Selected
<1>3. \A i \in 1 .. MaxId : /\ delivered'[i] \in Nat
                            /\ delivered'[i] = IF i \in P THEN delivered[i] + 1 ELSE delivered[i]
  BY <1>1, <1>2
<1>4. delivered' \in [1 .. MaxId -> Nat]
  BY <1>1, <1>3
<1>5. Events!NoRepeat'
  <2>. SUFFICES ASSUME NEW i \in 1 .. MaxId, i \notin moved
                PROVE  delivered'[i] <= 1
    BY DEF Events!NoRepeat, Events!Ids
  <2>1. delivered[i] <= 1 /\ delivered[i] \in Nat
    BY <1>2 DEF PagesInv, Events!NoRepeat, Events!Ids
  <2>2. i \in P => delivered[i] = 0
    BY <1>2, <2>1 DEF PagesInv, Events!NotAhead
  <2>. QED
    BY <1>3, <2>1, <2>2
<1>6. \A i \in 1 .. MaxId : i >= nextId => delivered'[i] = 0
  <2>1. \A i \in P : ~ (i >= nextId)
    BY <1>2, PagesNumbers DEF PagesInv
  <2>. QED
    BY <1>3, <2>1 DEF PagesInv, Events!NotAhead, Events!Ids
<1>. QED
  BY <1>2, <1>3, <1>4, <1>5, <1>6

\* The last page: what lies after the cursor is sent.
LEMMA LastPage ==
  ASSUME PagesInv, ~ done, done' = TRUE, Events!Sent(Events!Selected),
         UNCHANGED <<rows, nextId, scope, cursor, touched, moved>>
  PROVE  PagesInv'
<1>1. PICK P \in SUBSET Events!Selected : P = Events!Selected
  OBVIOUS
<1>2. /\ delivered' \in [1 .. MaxId -> Nat] /\ Events!NoRepeat'
      /\ \A i \in 1 .. MaxId : i >= nextId => delivered'[i] = 0
      /\ \A i \in 1 .. MaxId : delivered'[i] >= delivered[i] /\ (i \in P => delivered'[i] >= 1)
  BY <1>1, RowsSent DEF Events!Sent
<1>3. PagesTyped'
  BY <1>2 DEF PagesInv, PagesTyped
<1>4. Events!NotAhead'
  BY <1>2 DEF Events!NotAhead, Events!Ids
<1>5. ASSUME NEW i \in DOMAIN rows \ (touched \cup moved)
      PROVE  rows[i].employment \in scope /\ (Events!Visible(i) => delivered'[i] >= 1)
  <2>1. i \in 1 .. MaxId /\ delivered[i] \in Nat /\ delivered'[i] \in Nat
    BY <1>2, PagesNumbers DEF PagesInv, PagesTyped
  <2>2. CASE Events!AfterCursor(i)
    BY <1>1, <1>2, <2>1, <2>2 DEF PagesInv, Events!NothingSkipped, Events!Selected
  <2>3. CASE ~ Events!AfterCursor(i)
    BY <1>2, <2>1, <2>3 DEF PagesInv, Events!NothingSkipped
  <2>. QED
    BY <2>2, <2>3
<1>6. Events!NothingSkipped'
  BY <1>5 DEF Events!NothingSkipped, Events!Visible
<1>. QED
  BY <1>2, <1>3, <1>4, <1>6 DEF PagesInv

\* A page before the last one: the cursor moves on to the last row sent.
LEMMA NextPage ==
  ASSUME PagesInv, ~ done, NEW last \in Events!Selected, Events!Sent(Events!UpTo(last)),
         cursor' = <<rows[last].at, last>>,
         UNCHANGED <<rows, nextId, scope, done, touched, moved>>
  PROVE  PagesInv'
<1>1. PICK P \in SUBSET Events!Selected : P = Events!UpTo(last)
  BY DEF Events!UpTo
<1>2. /\ delivered' \in [1 .. MaxId -> Nat] /\ Events!NoRepeat'
      /\ \A i \in 1 .. MaxId : i >= nextId => delivered'[i] = 0
      /\ \A i \in 1 .. MaxId : delivered'[i] >= delivered[i] /\ (i \in P => delivered'[i] >= 1)
      /\ \A i \in 1 .. MaxId : i \notin P => delivered'[i] = delivered[i]
  BY <1>1, RowsSent DEF Events!Sent
<1>3. last \in DOMAIN rows /\ Events!AfterCursor(last) /\ last \in 1 .. MaxId /\ rows[last].at \in Times
  BY PagesNumbers DEF Events!Selected, PagesInv, PagesTyped, PageRow
<1>4. PagesTyped'
  BY <1>2, <1>3 DEF PagesInv, PagesTyped
<1>5. cursor' # <<>> /\ cursor'[1] = rows[last].at /\ cursor'[2] = last
  OBVIOUS
<1>6. ASSUME NEW i \in DOMAIN rows
      PROVE  /\ i \in P => ~ Events!AfterCursor(i)'
             /\ ~ Events!AfterCursor(i) => ~ Events!AfterCursor(i)'
             /\ Events!Visible(i) /\ Events!AfterCursor(i) /\ ~ Events!AfterCursor(i)' => i \in P
  <2>1. /\ rows[i].at \in Nat /\ rows[last].at \in Nat /\ i \in Nat /\ last \in Nat
        /\ cursor # <<>> => cursor[1] \in Nat /\ cursor[2] \in Nat
    BY <1>3, PagesNumbers DEF PagesInv
  <2>2. Events!AfterCursor(i)' <=> rows[i].at > rows[last].at \/ (rows[i].at = rows[last].at /\ i > last)
    BY <1>5 DEF Events!AfterCursor, Events!Start
  <2>3. i \in P => ~ Events!AfterCursor(i)'
    BY <1>1, <2>1, <2>2 DEF Events!UpTo, Events!Before
  <2>4. ~ Events!AfterCursor(i) => ~ Events!AfterCursor(i)'
    BY <1>3, <2>1, <2>2 DEF Events!AfterCursor, Events!Start
  <2>5. Events!Visible(i) /\ Events!AfterCursor(i) /\ ~ Events!AfterCursor(i)' => i \in P
    BY <1>1, <2>1, <2>2 DEF Events!UpTo, Events!Before, Events!Selected
  <2>. QED
    BY <2>3, <2>4, <2>5
<1>7. Events!NotAhead'
  <2>1. ASSUME NEW i \in DOMAIN rows \ moved, delivered'[i] > 0
        PROVE  ~ Events!AfterCursor(i)'
    <3>1. i \in 1 .. MaxId
      BY PagesNumbers DEF PagesInv
    <3>2. i \notin P => ~ Events!AfterCursor(i)
      BY <1>2, <2>1, <3>1 DEF PagesInv, Events!NotAhead
    <3>. QED
      BY <1>6, <3>2
  <2>. QED
    BY <1>2, <2>1 DEF Events!NotAhead, Events!Ids
<1>8. ASSUME NEW i \in DOMAIN rows \ (touched \cup moved)
      PROVE  /\ rows[i].employment \in scope
             /\ Events!Visible(i) /\ ~ Events!AfterCursor(i)' => delivered'[i] >= 1
  <2>1. i \in 1 .. MaxId /\ delivered[i] \in Nat /\ delivered'[i] \in Nat
    BY <1>2, PagesNumbers DEF PagesInv, PagesTyped
  <2>2. CASE Events!AfterCursor(i)
    BY <1>2, <1>6, <2>1, <2>2 DEF PagesInv, Events!NothingSkipped
  <2>3. CASE ~ Events!AfterCursor(i)
    BY <1>2, <2>1, <2>3 DEF PagesInv, Events!NothingSkipped
  <2>. QED
    BY <2>2, <2>3
<1>9. Events!NothingSkipped'
  BY <1>8 DEF Events!NothingSkipped, Events!Visible
<1>. QED
  BY <1>2, <1>4, <1>7, <1>9 DEF PagesInv

\* Changes to the table: the rows that were there and did not move are as they were, and
\* a new one has an id that nobody received.
LEMMA RowsChange ==
  ASSUME PagesInv, ~ done, PagesTyped', UNCHANGED <<cursor, delivered, done>>,
         nextId' \in {nextId, nextId + 1}, moved \subseteq moved', touched \subseteq touched',
         \A i \in DOMAIN rows' \ moved' :
           \/ i \in DOMAIN rows /\ rows'[i] = rows[i]
           \/ i = nextId /\ i \in touched',
         \A i \in DOMAIN rows' \ (touched' \cup moved') :
           rows[i].employment \in scope => rows'[i].employment \in scope'
  PROVE  PagesInv'
<1>1. Events!NoRepeat'
  BY DEF PagesInv, Events!NoRepeat
<1>2. \A i \in DOMAIN rows : i \in 1 .. MaxId /\ i < nextId
  BY PagesNumbers DEF PagesInv
<1>3. nextId \in Nat /\ \A i \in DOMAIN rows' : i \in 1 .. MaxId
  <2>1. /\ MaxId \in Nat /\ nextId \in Nat /\ nextId' \in 1 .. (MaxId + 1)
        /\ DOMAIN rows' \subseteq 1 .. (nextId' - 1)
    BY PagesNumbers DEF PagesInv, PagesTyped
  <2>. QED
    BY <2>1
<1>4. ASSUME NEW i \in 1 .. MaxId, i >= nextId'
      PROVE  delivered'[i] = 0
  <2>1. i >= nextId
    BY <1>3, <1>4
  <2>. QED
    BY <2>1 DEF PagesInv, Events!NotAhead, Events!Ids
<1>5. ASSUME NEW i \in DOMAIN rows' \ moved', delivered'[i] > 0
      PROVE  ~ Events!AfterCursor(i)'
  <2>1. CASE i \in DOMAIN rows /\ rows'[i] = rows[i]
    BY <1>5, <2>1 DEF PagesInv, Events!NotAhead, Events!AfterCursor
  <2>2. CASE i = nextId
    BY <1>3, <1>5, <2>2 DEF PagesInv, Events!NotAhead, Events!Ids
  <2>. QED
    BY <2>1, <2>2
<1>6. Events!NotAhead'
  BY <1>4, <1>5 DEF Events!NotAhead, Events!Ids
<1>7. ASSUME NEW i \in DOMAIN rows' \ (touched' \cup moved')
      PROVE  /\ rows'[i].employment \in scope'
             /\ Events!Visible(i)' /\ (done' \/ ~ Events!AfterCursor(i)') => delivered'[i] >= 1
  <2>1. i \in DOMAIN rows \ (touched \cup moved) /\ rows'[i] = rows[i]
    OBVIOUS
  <2>2. /\ rows[i].employment \in scope /\ rows'[i].employment \in scope'
        /\ Events!Visible(i) /\ ~ Events!AfterCursor(i) => delivered[i] >= 1
    BY <1>7, <2>1 DEF PagesInv, Events!NothingSkipped
  <2>. QED
    BY <2>1, <2>2 DEF Events!Visible, Events!AfterCursor
<1>8. Events!NothingSkipped'
  BY <1>7 DEF Events!NothingSkipped
<1>. QED
  BY <1>1, <1>6, <1>8 DEF PagesInv

LEMMA RowCreated ==
  ASSUME PagesInv, ~ done, nextId <= MaxId, NEW r \in PageRow,
         rows' = [i \in DOMAIN rows \cup {nextId} |-> IF i = nextId THEN r ELSE rows[i]],
         nextId' = nextId + 1, touched' = touched \cup {nextId},
         UNCHANGED <<scope, cursor, delivered, done, moved>>
  PROVE  PagesInv'
<1>1. /\ MaxId \in Nat /\ nextId \in Nat \ {0} /\ \A i \in DOMAIN rows : i < nextId /\ i \in 1 .. MaxId
  BY PagesNumbers DEF PagesInv
<1>2. /\ DOMAIN rows' = DOMAIN rows \cup {nextId} /\ rows' = [i \in DOMAIN rows' |-> rows'[i]]
      /\ rows'[nextId] = r /\ \A i \in DOMAIN rows : rows'[i] = rows[i]
  BY <1>1
<1>3. PagesTyped'
  BY <1>1, <1>2 DEF PagesInv, PagesTyped
<1>. QED
  BY <1>2, <1>3, RowsChange

LEMMA RowPatched ==
  ASSUME PagesInv, ~ done, NEW i \in DOMAIN rows, NEW t \in Times, rows' = [rows EXCEPT ![i].at = t],
         moved' = moved \cup {i}, UNCHANGED <<nextId, scope, cursor, delivered, done, touched>>
  PROVE  PagesInv'
<1>1. rows = [j \in DOMAIN rows |-> rows[j]] /\ rows[i] \in PageRow
  BY DEF PagesInv, PagesTyped
<1>2. /\ DOMAIN rows' = DOMAIN rows /\ rows' = [j \in DOMAIN rows' |-> rows'[j]]
      /\ rows'[i] = [rows[i] EXCEPT !.at = t] /\ \A j \in DOMAIN rows : j # i => rows'[j] = rows[j]
  BY <1>1
<1>3. rows'[i] \in PageRow
  BY <1>1, <1>2 DEF PageRow
<1>4. PagesTyped'
  BY <1>2, <1>3 DEF PagesInv, PagesTyped
<1>. QED
  BY <1>2, <1>4, RowsChange

LEMMA RowDeleted ==
  ASSUME PagesInv, ~ done, NEW i \in DOMAIN rows, rows' = [j \in DOMAIN rows \ {i} |-> rows[j]],
         touched' = touched \cup {i}, UNCHANGED <<nextId, scope, cursor, delivered, done, moved>>
  PROVE  PagesInv'
<1>1. /\ DOMAIN rows' = DOMAIN rows \ {i} /\ rows' = [j \in DOMAIN rows' |-> rows'[j]]
      /\ \A j \in DOMAIN rows' : rows'[j] = rows[j]
  OBVIOUS
<1>2. PagesTyped'
  BY <1>1 DEF PagesInv, PagesTyped
<1>. QED
  BY <1>1, <1>2, RowsChange

LEMMA ScopeChanged ==
  ASSUME PagesInv, ~ done,
         touched' = touched \cup {i \in DOMAIN rows : rows[i].employment \notin scope'},
         UNCHANGED <<rows, nextId, cursor, delivered, done, moved>>
  PROVE  PagesInv'
<1>1. PagesTyped'
  BY DEF PagesInv, PagesTyped
<1>. QED
  BY <1>1, RowsChange

LEMMA PagesSafe == PagesInv /\ [Next]_vars => PagesInv'
<1>. SUFFICES ASSUME PagesInv, [Events!Next \/ Fixed!Next]_pageVars
              PROVE  PagesInv'
  BY PagesOnly
<1>1. CASE UNCHANGED pageVars
  BY <1>1 DEF pageVars, PagesInv, PagesTyped, Events!NoRepeat, Events!NotAhead,
     Events!NothingSkipped, Events!Visible, Events!AfterCursor
<1>2. /\ Fixed!Selected = Events!Selected /\ \A i : Fixed!UpTo(i) = Events!UpTo(i)
      /\ \A P : Fixed!Sent(P) <=> Events!Sent(P)
  BY DEF Fixed!Selected, Events!Selected, Fixed!UpTo, Events!UpTo, Fixed!Before, Events!Before,
     Fixed!Sent, Events!Sent, Fixed!Ids, Events!Ids, Fixed!Visible, Events!Visible,
     Fixed!AfterCursor, Events!AfterCursor, Fixed!Start, Events!Start
<1>3. CASE Events!_page \/ Fixed!_page
  <2>1. /\ ~ done /\ UNCHANGED <<rows, nextId, scope, touched, moved>>
        /\ \/ Events!Sent(Events!Selected) /\ done' = TRUE /\ UNCHANGED cursor
           \/ /\ \E last \in Events!Selected :
                   Events!Sent(Events!UpTo(last)) /\ cursor' = <<rows[last].at, last>>
              /\ UNCHANGED done
    BY <1>2, <1>3 DEF Events!_page, Fixed!_page
  <2>. QED
    BY <2>1, LastPage, NextPage
<1>4. CASE Events!create_attendance_event \/ Fixed!create_attendance_event
  BY <1>4, RowCreated DEF Events!create_attendance_event, Fixed!create_attendance_event,
     Events!Row, Fixed!Row, PageRow
<1>5. CASE Events!update_attendance_event \/ Fixed!update_attendance_event
  BY <1>5, RowPatched DEF Events!update_attendance_event, Fixed!update_attendance_event
<1>6. CASE Events!delete_attendance_event \/ Fixed!delete_attendance_event
  BY <1>6, RowDeleted DEF Events!delete_attendance_event, Fixed!delete_attendance_event
<1>7. CASE Events!ScopeChanges \/ Fixed!ScopeChanges
  BY <1>7, ScopeChanged DEF Events!ScopeChanges, Fixed!ScopeChanges
<1>. QED
  BY <1>1, <1>3, <1>4, <1>5, <1>6, <1>7 DEF Events!Next, Fixed!Next

\* However pages and changes interleave, a row that nobody touched has been received by the
\* end of the walk, and no row whose key stayed is received twice (list_attendance_events,
\* list_employments, _page): for any limit, table, scope and order of changes.
THEOREM RowsReceivedOnce == Spec => []ReceivedOnce
<1>1. PagesInv => ReceivedOnce
  BY DEF PagesInv, ReceivedOnce, Events!StableReceived, Events!NothingSkipped
<1>. QED
  BY <1>1, PagesInit, PagesSafe, PTL DEF Spec

-----------------------------------------------------------------------------
(* Profiles created on request of CML: every person gets one, with its     *)
(* receipt, for any number of workers, operations, persons and users.      *)

LEMMA ProfilesOnly == [Next]_vars => [Profiles!Next]_profileVars
BY DEF Next, vars, SecretsStep, ScopeStep, EventsStep, FixedStep, NonceStep, ProfilesStep,
       CellsStep

LEMMA AtMostOne ==
  ASSUME NEW S, \A x, y \in S : x = y
  PROVE  Cardinality(S) <= 1
<1>1. CASE S = {}
  BY <1>1, FS_EmptySet
<1>2. CASE S # {}
  <2>1. PICK x \in S : TRUE
    BY <1>2
  <2>2. S = {x}
    BY <2>1
  <2>. QED
    BY <2>2, FS_Singleton
<1>. QED
  BY <1>1, <1>2

LEMMA SameCardinality ==
  ASSUME NEW S
  PROVE  Profiles!Cardinality(S) = Cardinality(S) /\ Profiles!IsFiniteSet(S) = IsFiniteSet(S)
BY DEF Profiles!Cardinality, Cardinality, Profiles!IsFiniteSet, IsFiniteSet

LEMMA Constants ==
  /\ IsFiniteSet(Workers) /\ MaxUsers \in Nat
  /\ Profiles!Nobody \notin Workers
  /\ Profiles!Absent \notin Emails
  /\ "admin" \notin Operations /\ "admin" \notin Persons
BY ProfilesAssumption, SameCardinality
   DEF Profiles!NamesAssumption, Profiles!Names, Profiles!Nobody, Profiles!Absent

-----------------------------------------------------------------------------
(* Ids in order. *)

\* There is an id left for every pending request.
HasRoom == nextProfile + Cardinality(Profiles!Pending) <= MaxUsers + 1

LEMMA PendingFinite ==
  /\ IsFiniteSet(Profiles!Pending) /\ Cardinality(Profiles!Pending) \in Nat
  /\ IsFiniteSet(Profiles!Pending') /\ Cardinality(Profiles!Pending') \in Nat
BY Constants, FS_Subset, FS_CardinalityType DEF Profiles!Pending

LEMMA RoomStays ==
  ASSUME Profiles!TypeOK, HasRoom, Profiles!Pending' \subseteq Profiles!Pending,
         nextProfile' = nextProfile
  PROVE  HasRoom'
BY PendingFinite, FS_Subset, Constants DEF HasRoom, Profiles!TypeOK

LEMMA RoomTaken ==
  ASSUME Profiles!TypeOK, HasRoom, NEW w \in Profiles!Pending,
         Profiles!Pending' = Profiles!Pending \ {w},
         nextProfile' = nextProfile + 1
  PROVE  HasRoom' /\ nextProfile <= MaxUsers
BY PendingFinite, FS_RemoveElement, Constants DEF HasRoom, Profiles!TypeOK

\* Room promises an id to a request that arrives and to an administrator.
LEMMA RoomGiven ==
  ASSUME Profiles!TypeOK, HasRoom, Profiles!Room, nextProfile' \in Nat,
         \/ \E w \in Workers : Profiles!Pending' = Profiles!Pending \cup {w} /\ nextProfile' = nextProfile
         \/ Profiles!Pending' = Profiles!Pending /\ nextProfile' = nextProfile + 1
  PROVE  HasRoom' /\ nextProfile <= MaxUsers
<1>. DEFINE Active == {w \in Workers : provisioning[w] # Profiles!Idle}
<1>1. IsFiniteSet(Active) /\ Cardinality(Active) \in Nat
  BY Constants, FS_Subset, FS_CardinalityType
<1>2. Profiles!Pending \subseteq Active
  BY DEF Profiles!Pending, Profiles!Idle
<1>3. Cardinality(Profiles!Pending) <= Cardinality(Active)
  BY <1>1, <1>2, FS_Subset
<1>4. nextProfile + Cardinality(Active) <= MaxUsers
  BY SameCardinality DEF Profiles!Room
<1>5. nextProfile + Cardinality(Profiles!Pending) <= MaxUsers
  BY <1>1, <1>3, <1>4, PendingFinite, Constants DEF Profiles!TypeOK
<1>6. CASE Profiles!Pending' = Profiles!Pending /\ nextProfile' = nextProfile + 1
  BY <1>5, <1>6, PendingFinite, Constants DEF Profiles!TypeOK, HasRoom
<1>7. ASSUME NEW w \in Workers, Profiles!Pending' = Profiles!Pending \cup {w},
             nextProfile' = nextProfile
      PROVE  HasRoom' /\ nextProfile <= MaxUsers
  <2>1. Cardinality(Profiles!Pending') <= Cardinality(Profiles!Pending) + 1
    BY <1>7, PendingFinite, FS_AddElement
  <2>. QED
    BY <1>5, <1>7, <2>1, PendingFinite, Constants DEF Profiles!TypeOK, HasRoom
<1>. QED
  BY <1>6, <1>7

-----------------------------------------------------------------------------
(* Requests. *)

Request == [pc : Profiles!Stages, op : Operations, person : Persons,
            email : Emails, native : 0..MaxUsers]

LEMMA RequestTyped ==
  ASSUME Profiles!TypeOK, NEW w \in Workers
  PROVE  /\ provisioning[w] = Profiles!Idle \/ provisioning[w] \in Request
         /\ provisioning[w].pc \in Profiles!Stages => provisioning[w] \in Request
         /\ provisioning[w] = Profiles!Idle => provisioning[w].pc = "idle"
BY DEF Profiles!TypeOK, Request, Profiles!Idle, Profiles!Stages

Held(w) ==
  /\ provisioning[w].pc \in {"read", "check", "insert", "commit"} =>
       held[provisioning[w].op] = w /\ held[provisioning[w].person] = w
  /\ provisioning[w].pc \in {"check", "insert", "commit"} =>
       receipts[provisioning[w].op] = Profiles!NoReceipt

\* Only the request of w and locks that others do not hold change.
OwnStep(w) ==
  /\ UNCHANGED <<profiles, nextProfile, receipts, origin>>
  /\ \A v \in Workers \ {w} : provisioning'[v] = provisioning[v]
  /\ \A n \in Profiles!Names, v \in Workers \ {w} : held[n] = v => held'[n] = v

LEMMA OwnStepSafe ==
  ASSUME Profiles!IInv, NEW w \in Workers, OwnStep(w),
         held' \in [Profiles!Names -> Workers \cup {Profiles!Nobody}],
         provisioning' \in [Workers -> {Profiles!Idle} \cup Request],
         provisioning'[w].pc # "commit", Held(w)',
         w \in Profiles!Pending \/ w \notin Profiles!Pending' \/ HasRoom'
  PROVE  Profiles!IInv'
<1>. USE DEF Profiles!IInv
<1>1. Profiles!TypeOK'
  BY DEF Profiles!TypeOK, Request, OwnStep
<1>2. \A v \in Workers : provisioning'[v].pc = "commit" => provisioning'[v] = provisioning[v]
  BY DEF OwnStep
<1>3. HasRoom
  BY SameCardinality DEF Profiles!IdsInOrder, HasRoom
<1>4. HasRoom'
  <2>1. CASE w \in Profiles!Pending \/ w \notin Profiles!Pending'
    <3>1. Profiles!Pending' \subseteq Profiles!Pending
      BY <2>1 DEF Profiles!Pending, OwnStep
    <3>. QED
      BY <1>3, <3>1, RoomStays DEF OwnStep
  <2>. QED
    BY <2>1
<1>5. Profiles!IdsInOrder'
  BY <1>4, SameCardinality DEF Profiles!IdsInOrder, HasRoom, OwnStep
<1>6. Profiles!OwnId'
  BY <1>2 DEF Profiles!OwnId, OwnStep
<1>7. Profiles!ReceiptsMatch'
  BY DEF Profiles!ReceiptsMatch, OwnStep
<1>8. \A v \in Workers \ {w} : Held(v)'
  <2>1. \A v \in Workers \ {w} : Held(v)
    BY DEF Profiles!UnderLocks, Held
  <2>2. \A v \in Workers \ {w} : provisioning[v].pc \in {"read", "check", "insert", "commit"} =>
          provisioning[v].op \in Profiles!Names /\ provisioning[v].person \in Profiles!Names
    BY RequestTyped DEF Request, Profiles!Names, Profiles!Stages
  <2>. QED
    BY <2>1, <2>2 DEF Held, OwnStep
<1>9. Profiles!UnderLocks'
  BY <1>8 DEF Profiles!UnderLocks, Held
<1>. QED
  BY <1>1, <1>5, <1>6, <1>7, <1>9

\* A transaction that ends without writing.
LEMMA EndsSafe ==
  ASSUME Profiles!IInv, NEW w \in Workers, Profiles!Ends(w),
         UNCHANGED <<profiles, nextProfile, receipts, origin>>
  PROVE  Profiles!IInv'
<1>1. /\ provisioning' \in [Workers -> {Profiles!Idle} \cup Request]
      /\ provisioning'[w] = Profiles!Idle
      /\ \A v \in Workers \ {w} : provisioning'[v] = provisioning[v]
  BY DEF Profiles!IInv, Profiles!TypeOK, Request, Profiles!Ends
<1>2. /\ held' \in [Profiles!Names -> Workers \cup {Profiles!Nobody}]
      /\ \A n \in Profiles!Names, v \in Workers \ {w} : held[n] = v => held'[n] = v
  BY DEF Profiles!IInv, Profiles!TypeOK, Profiles!Ends, Profiles!Free
<1>3. OwnStep(w)
  BY <1>1, <1>2 DEF OwnStep
<1>4. provisioning'[w].pc = "idle"
  BY <1>1 DEF Profiles!Idle
<1>5. Held(w)' /\ w \notin Profiles!Pending'
  BY <1>4 DEF Held, Profiles!Pending
<1>. QED
  BY <1>1, <1>2, <1>3, <1>4, <1>5, OwnStepSafe

LEMMA ReceiveSafe ==
  ASSUME Profiles!IInv, NEW w \in Workers, Profiles!Receive(w)
  PROVE  Profiles!IInv'
<1>1. PICK o \in Operations, p \in Persons, e \in Emails :
        provisioning' = [provisioning EXCEPT ![w] =
          [pc |-> "lock", op |-> o, person |-> p, email |-> e, native |-> 0]]
  BY DEF Profiles!Receive
<1>2. [pc |-> "lock", op |-> o, person |-> p, email |-> e, native |-> 0] \in Request
  BY Constants DEF Request, Profiles!Stages
<1>3. /\ provisioning' \in [Workers -> {Profiles!Idle} \cup Request]
      /\ provisioning'[w].pc = "lock"
      /\ \A v \in Workers \ {w} : provisioning'[v] = provisioning[v]
  BY <1>1, <1>2 DEF Profiles!IInv, Profiles!TypeOK, Request
<1>4. OwnStep(w)
  BY <1>3 DEF OwnStep, Profiles!Receive
<1>5. Held(w)'
  BY <1>3 DEF Held
<1>6. Profiles!Pending' = Profiles!Pending \cup {w}
  BY <1>3 DEF Profiles!Pending
<1>7. HasRoom'
  BY <1>6, RoomGiven, SameCardinality
     DEF Profiles!IInv, Profiles!IdsInOrder, Profiles!TypeOK, HasRoom, Profiles!Receive
<1>. QED
  BY <1>3, <1>4, <1>5, <1>7, OwnStepSafe DEF Profiles!IInv, Profiles!TypeOK, Profiles!Receive

\* The request of w goes from one stage before the insertion to another.
LEMMA StageSafe ==
  ASSUME Profiles!IInv, NEW w \in Workers, NEW s \in {"lock", "read", "check", "insert"},
         w \in Profiles!Pending,
         provisioning' = [provisioning EXCEPT ![w].pc = s],
         UNCHANGED <<profiles, nextProfile, receipts, origin>>,
         held' \in [Profiles!Names -> Workers \cup {Profiles!Nobody}],
         \A n \in Profiles!Names, v \in Workers \ {w} : held[n] = v => held'[n] = v,
         s # "lock" =>
           held'[provisioning[w].op] = w /\ held'[provisioning[w].person] = w,
         s \in {"check", "insert"} => receipts[provisioning[w].op] = Profiles!NoReceipt
  PROVE  Profiles!IInv'
<1>1. provisioning[w] \in Request
  BY RequestTyped DEF Profiles!IInv, Profiles!Pending, Profiles!Stages
<1>2. /\ provisioning' \in [Workers -> {Profiles!Idle} \cup Request]
      /\ \A v \in Workers \ {w} : provisioning'[v] = provisioning[v]
      /\ provisioning'[w].pc = s
      /\ provisioning'[w].op = provisioning[w].op
      /\ provisioning'[w].person = provisioning[w].person
  BY <1>1 DEF Profiles!IInv, Profiles!TypeOK, Request, Profiles!Stages
<1>3. OwnStep(w)
  BY <1>2 DEF OwnStep
<1>4. Held(w)'
  BY <1>2 DEF Held
<1>. QED
  BY <1>2, <1>3, <1>4, OwnStepSafe

LEMMA LockSafe ==
  ASSUME Profiles!IInv, NEW w \in Workers, Profiles!Lock(w)
  PROVE  Profiles!IInv'
<1>1. PICK n \in Profiles!Wanted(w) :
        /\ held[n] = Profiles!Nobody
        /\ held' = [held EXCEPT ![n] = w]
        /\ provisioning' = [provisioning EXCEPT ![w].pc =
             IF \A m \in Profiles!Wanted(w) : m = n \/ held[m] = w THEN "read" ELSE "lock"]
  BY DEF Profiles!Lock
<1>2. provisioning[w] \in Request /\ w \in Profiles!Pending
  BY RequestTyped DEF Profiles!IInv, Profiles!Pending, Profiles!Stages, Profiles!Lock
<1>3. Profiles!Wanted(w) \subseteq Profiles!Names
  BY <1>2 DEF Request, Profiles!Wanted, Profiles!Names
<1>4. /\ held' \in [Profiles!Names -> Workers \cup {Profiles!Nobody}]
      /\ \A m \in Profiles!Names, v \in Workers \ {w} : held[m] = v => held'[m] = v
      /\ held'[n] = w
  BY <1>1, <1>3, Constants DEF Profiles!IInv, Profiles!TypeOK
<1>5. CASE \A m \in Profiles!Wanted(w) : m = n \/ held[m] = w
  <2>1. held'[provisioning[w].op] = w /\ held'[provisioning[w].person] = w
    BY <1>1, <1>3, <1>4, <1>5 DEF Profiles!Wanted, Profiles!IInv, Profiles!TypeOK
  <2>. QED
    BY <1>1, <1>2, <1>4, <1>5, <2>1, StageSafe DEF Profiles!Lock
<1>6. CASE ~ \A m \in Profiles!Wanted(w) : m = n \/ held[m] = w
  BY <1>1, <1>2, <1>4, <1>6, StageSafe DEF Profiles!Lock
<1>. QED
  BY <1>5, <1>6

LEMMA ReadSafe ==
  ASSUME Profiles!IInv, NEW w \in Workers, Profiles!NewOperation(w) \/ Profiles!MayCreate(w)
  PROVE  Profiles!IInv'
<1>1. provisioning[w].pc \in {"read", "check"}
  BY DEF Profiles!NewOperation, Profiles!MayCreate
<1>2. /\ w \in Profiles!Pending
      /\ held[provisioning[w].op] = w /\ held[provisioning[w].person] = w
  BY <1>1 DEF Profiles!IInv, Profiles!Pending, Profiles!UnderLocks
<1>3. CASE Profiles!NewOperation(w)
  BY <1>2, <1>3, StageSafe DEF Profiles!NewOperation, Profiles!IInv, Profiles!TypeOK
<1>4. CASE Profiles!MayCreate(w)
  <2>1. receipts[provisioning[w].op] = Profiles!NoReceipt
    BY <1>4 DEF Profiles!IInv, Profiles!UnderLocks, Profiles!MayCreate
  <2>. QED
    BY <1>2, <1>4, <2>1, StageSafe DEF Profiles!MayCreate, Profiles!IInv, Profiles!TypeOK
<1>. QED
  BY <1>3, <1>4

\* A transaction that is rolled back after an IntegrityError.
LEMMA RolledBackSafe ==
  ASSUME Profiles!IInv, NEW w \in Workers, provisioning[w].pc \in {"insert", "commit"},
         provisioning' = [provisioning EXCEPT ![w].pc = "reread"], held' = Profiles!Free(w),
         UNCHANGED <<profiles, nextProfile, receipts, origin>>
  PROVE  Profiles!IInv'
<1>1. provisioning[w] \in Request
  BY RequestTyped DEF Profiles!IInv, Profiles!Stages
<1>2. /\ provisioning' \in [Workers -> {Profiles!Idle} \cup Request]
      /\ \A v \in Workers \ {w} : provisioning'[v] = provisioning[v]
      /\ provisioning'[w].pc = "reread"
  BY <1>1 DEF Profiles!IInv, Profiles!TypeOK, Request, Profiles!Stages
<1>3. /\ held' \in [Profiles!Names -> Workers \cup {Profiles!Nobody}]
      /\ \A n \in Profiles!Names, v \in Workers \ {w} : held[n] = v => held'[n] = v
  BY DEF Profiles!IInv, Profiles!TypeOK, Profiles!Free
<1>4. OwnStep(w) /\ Held(w)' /\ w \notin Profiles!Pending'
  BY <1>2, <1>3 DEF OwnStep, Held, Profiles!Pending
<1>. QED
  BY <1>2, <1>3, <1>4, OwnStepSafe

LEMMA RereadSafe ==
  ASSUME Profiles!IInv, NEW w \in Workers, Profiles!Reread(w)
  PROVE  Profiles!IInv'
<1>1. /\ provisioning' \in [Workers -> {Profiles!Idle} \cup Request]
      /\ \A v \in Workers \ {w} : provisioning'[v] = provisioning[v]
      /\ provisioning'[w].pc = "idle"
  BY DEF Profiles!IInv, Profiles!TypeOK, Request, Profiles!Reread, Profiles!Idle
<1>2. OwnStep(w) /\ Held(w)' /\ w \notin Profiles!Pending'
  BY <1>1 DEF OwnStep, Held, Profiles!Pending, Profiles!Reread
<1>. QED
  BY <1>1, <1>2, OwnStepSafe DEF Profiles!Reread, Profiles!IInv, Profiles!TypeOK

-----------------------------------------------------------------------------
(* Users and receipts. *)

\* The insertion takes the next id.
LEMMA InsertSafe ==
  ASSUME Profiles!IInv, NEW w \in Workers, Profiles!create_profile(w)
  PROVE  Profiles!IInv'
<1>1. provisioning[w].pc = "insert"
  BY DEF Profiles!create_profile
<1>2. CASE Profiles!Taken(provisioning[w].email)
  BY <1>1, <1>2, RolledBackSafe DEF Profiles!create_profile
<1>3. CASE ~ Profiles!Taken(provisioning[w].email)
  <2>. USE DEF Profiles!IInv
  <2>1. /\ provisioning' = [provisioning EXCEPT ![w].pc = "commit", ![w].native = nextProfile]
        /\ nextProfile' = nextProfile + 1
        /\ UNCHANGED <<profiles, receipts, held, origin>>
    BY <1>3 DEF Profiles!create_profile
  <2>2. provisioning[w] \in Request /\ w \in Profiles!Pending
    BY <1>1, RequestTyped DEF Profiles!Pending, Profiles!Stages
  <2>3. /\ \A v \in Workers \ {w} : provisioning'[v] = provisioning[v]
        /\ provisioning'[w].pc = "commit" /\ provisioning'[w].native = nextProfile
        /\ provisioning'[w].op = provisioning[w].op
        /\ provisioning'[w].person = provisioning[w].person
    BY <2>1, <2>2 DEF Profiles!TypeOK, Request
  <2>4. Profiles!Pending' = Profiles!Pending \ {w}
    BY <2>3 DEF Profiles!Pending
  <2>5. HasRoom' /\ nextProfile <= MaxUsers
    BY <2>1, <2>2, <2>4, RoomTaken, SameCardinality DEF Profiles!IdsInOrder, HasRoom
  <2>6. nextProfile \in Profiles!Ids /\ nextProfile' \in 1..(MaxUsers + 1)
    BY <2>1, <2>5, Constants DEF Profiles!TypeOK, Profiles!Ids
  <2>7. Profiles!TypeOK'
    <3>0. [provisioning[w] EXCEPT !.pc = "commit"] \in Request /\ nextProfile \in 0..MaxUsers
      BY <2>2, <2>6, Constants DEF Request, Profiles!Stages, Profiles!Ids
    <3>1. [provisioning[w] EXCEPT !.pc = "commit", !.native = nextProfile] \in Request
      BY <3>0 DEF Request
    <3>2. provisioning' \in [Workers -> {Profiles!Idle} \cup Request]
      BY <2>1, <3>1 DEF Profiles!TypeOK, Request
    <3>. QED
      BY <2>1, <2>6, <3>2 DEF Profiles!TypeOK, Request
  <2>8. Profiles!IdsInOrder'
    BY <2>1, <2>5, SameCardinality DEF Profiles!IdsInOrder, HasRoom, Profiles!TypeOK, Profiles!Ids
  <2>9. Profiles!OwnId'
    <3>1. profiles[nextProfile] = Profiles!Absent /\ origin[nextProfile] = Profiles!Admin
      BY <2>6 DEF Profiles!IdsInOrder, Profiles!TypeOK
    <3>2. \A v \in Workers \ {w} : provisioning[v].pc = "commit" =>
            provisioning[v].native < nextProfile
      BY DEF Profiles!OwnId, Profiles!TypeOK
    <3>. QED
      BY <2>1, <2>3, <2>6, <3>1, <3>2 DEF Profiles!OwnId, Profiles!TypeOK
  <2>10. Profiles!ReceiptsMatch'
    BY <2>1 DEF Profiles!ReceiptsMatch
  <2>11. Profiles!UnderLocks'
    <3>1. \A v \in Workers : Held(v)
      BY DEF Profiles!UnderLocks, Held
    <3>2. \A v \in Workers \ {w} : Held(v)'
      BY <2>1, <2>3, <3>1 DEF Held
    <3>3. Held(w)'
      BY <1>1, <2>1, <2>3, <3>1 DEF Held
    <3>. QED
      BY <3>2, <3>3 DEF Profiles!UnderLocks, Held
  <2>. QED
    BY <2>7, <2>8, <2>9, <2>10, <2>11
<1>. QED
  BY <1>2, <1>3

\* The commit writes the user and the receipt; nobody else works on the operation, and
\* nobody has a receipt for the person.
LEMMA CommitSafe ==
  ASSUME Profiles!IInv, NEW w \in Workers, Profiles!create(w)
  PROVE  Profiles!IInv'
<1>. DEFINE r == provisioning[w]
<1>1. r.pc = "commit"
  BY DEF Profiles!create
<1>2. CASE receipts[r.op] # Profiles!NoReceipt \/ Profiles!PersonKnown(w)
  BY <1>1, <1>2, RolledBackSafe DEF Profiles!create
<1>3. CASE ~(receipts[r.op] # Profiles!NoReceipt \/ Profiles!PersonKnown(w))
  <2>. DEFINE o == r.op  n == r.native
              receipt == [native |-> n, print |-> <<r.person, r.email>>]
              maker == [op |-> o, person |-> r.person]
  <2>. USE DEF Profiles!IInv
  <2>1. /\ profiles' = [profiles EXCEPT ![n] = r.email]
        /\ origin' = [origin EXCEPT ![n] = maker]
        /\ receipts' = [receipts EXCEPT ![o] = receipt]
        /\ held' = Profiles!Free(w)
        /\ provisioning' = [provisioning EXCEPT ![w] = Profiles!Idle]
        /\ nextProfile' = nextProfile
    BY <1>3 DEF Profiles!create, Profiles!Ends, Profiles!Fingerprint
  <2>2. r \in Request
    BY <1>1, RequestTyped DEF Profiles!Stages
  <2>3. /\ n \in Profiles!Ids /\ n < nextProfile
        /\ profiles[n] = Profiles!Absent /\ origin[n] = Profiles!Admin
        /\ \A v \in Workers \ {w} : provisioning[v].pc = "commit" => provisioning[v].native # n
    BY <1>1, Constants DEF Profiles!OwnId, Profiles!TypeOK, Profiles!Ids
  <2>4. /\ o \in Operations /\ r.person \in Persons /\ r.email \in Emails
        /\ o \in Profiles!Names /\ r.person \in Profiles!Names
    BY <2>2 DEF Request, Profiles!Names
  <2>5. /\ receipt \in [native : Profiles!Ids, print : Persons \X Emails]
        /\ maker \in [op : Operations, person : Persons]
        /\ maker # Profiles!Admin /\ receipt # Profiles!NoReceipt
    BY <2>3, <2>4, Constants DEF Profiles!Admin, Profiles!NoReceipt, Profiles!Ids
  <2>6. /\ \A v \in Workers \ {w} : provisioning'[v] = provisioning[v]
        /\ provisioning'[w] = Profiles!Idle /\ provisioning'[w].pc = "idle"
    BY <2>1 DEF Profiles!TypeOK, Profiles!Idle
  <2>7. Profiles!TypeOK'
    BY <2>1, <2>3, <2>4, <2>5 DEF Profiles!TypeOK, Profiles!Free
  <2>8. Profiles!IdsInOrder'
    <3>1. Profiles!Pending' \subseteq Profiles!Pending
      BY <2>6 DEF Profiles!Pending
    <3>2. HasRoom'
      BY <2>1, <3>1, RoomStays, SameCardinality DEF Profiles!IdsInOrder, HasRoom
    <3>3. \A i \in Profiles!Ids :
            profiles'[i] # Profiles!Absent \/ origin'[i] # Profiles!Admin => i < nextProfile
      BY <2>1, <2>3 DEF Profiles!IdsInOrder, Profiles!TypeOK
    <3>. QED
      BY <2>1, <3>2, <3>3, SameCardinality DEF Profiles!IdsInOrder, HasRoom
  <2>9. Profiles!OwnId'
    BY <2>1, <2>3, <2>6 DEF Profiles!OwnId, Profiles!TypeOK
  <2>10. Profiles!ReceiptsMatch'
    <3>1. /\ receipts[o] = Profiles!NoReceipt
          /\ \A q \in Operations : receipts[q] # Profiles!NoReceipt => receipts[q].print[1] # r.person
      BY <1>3 DEF Profiles!PersonKnown
    <3>2. \A i \in Profiles!Ids \ {n} : origin[i] # Profiles!Admin => origin[i].op # o
      BY <3>1, Constants DEF Profiles!ReceiptsMatch, Profiles!NoReceipt, Profiles!Ids
    <3>3. \A q \in Operations \ {o} : receipts[q] # Profiles!NoReceipt => receipts[q].native # n
      <4>. SUFFICES ASSUME NEW q \in Operations \ {o}, receipts[q] # Profiles!NoReceipt,
                           receipts[q].native = n
                    PROVE  FALSE
        OBVIOUS
      <4>0. origin[receipts[q].native] = [op |-> q, person |-> receipts[q].print[1]]
        BY DEF Profiles!ReceiptsMatch
      <4>1. origin[n].op = q
        BY <4>0
      <4>2. origin[n].op = "admin"
        BY <2>3 DEF Profiles!Admin
      <4>. QED
        BY <4>1, <4>2, Constants
    <3>4. /\ origin'[n] = maker /\ receipts'[o] = receipt
          /\ \A i \in Profiles!Ids \ {n} : origin'[i] = origin[i]
          /\ \A q \in Operations \ {o} : receipts'[q] = receipts[q]
      BY <2>1, <2>3, <2>4 DEF Profiles!TypeOK
    <3>5. \A i \in Profiles!Ids : origin'[i] # Profiles!Admin =>
            /\ receipts'[origin'[i].op].native = i
            /\ receipts'[origin'[i].op].print[1] = origin'[i].person
      BY <3>2, <3>4, <2>3 DEF Profiles!ReceiptsMatch, Profiles!TypeOK
    <3>6. \A q \in Operations : receipts'[q] # Profiles!NoReceipt =>
            origin'[receipts'[q].native] = [op |-> q, person |-> receipts'[q].print[1]]
      BY <3>3, <3>4, <2>3 DEF Profiles!ReceiptsMatch, Profiles!TypeOK, Profiles!NoReceipt
    <3>7. \A p, q \in Operations :
            /\ receipts'[p] # Profiles!NoReceipt /\ receipts'[q] # Profiles!NoReceipt
            /\ receipts'[p].print[1] = receipts'[q].print[1]
            => p = q
      BY <3>1, <3>4 DEF Profiles!ReceiptsMatch
    <3>. QED
      BY <3>5, <3>6, <3>7 DEF Profiles!ReceiptsMatch
  <2>11. Profiles!UnderLocks'
    <3>1. held[o] = w
      BY <1>1 DEF Profiles!UnderLocks
    <3>2. \A v \in Workers \ {w} : Held(v)
      BY DEF Profiles!UnderLocks, Held
    <3>3. \A v \in Workers \ {w} : provisioning[v].pc \in {"read", "check", "insert", "commit"} =>
            /\ provisioning[v].op \in Operations \ {o} /\ provisioning[v].op \in Profiles!Names
            /\ provisioning[v].person \in Profiles!Names
      BY <3>1, <3>2, RequestTyped DEF Held, Request, Profiles!Names, Profiles!Stages
    <3>4. \A m \in Profiles!Names, v \in Workers \ {w} : held[m] = v => held'[m] = v
      BY <2>1 DEF Profiles!Free
    <3>5. \A v \in Workers \ {w} : Held(v)'
      BY <2>1, <2>6, <3>2, <3>3, <3>4 DEF Held, Profiles!TypeOK
    <3>6. Held(w)'
      BY <2>6 DEF Held
    <3>. QED
      BY <3>5, <3>6 DEF Profiles!UnderLocks, Held
  <2>. QED
    BY <2>7, <2>8, <2>9, <2>10, <2>11
<1>. QED
  BY <1>2, <1>3

LEMMA CreateUserSafe ==
  ASSUME Profiles!IInv, NEW e \in Emails, Profiles!create_user(e)
  PROVE  Profiles!IInv'
<1>. USE DEF Profiles!IInv
<1>1. /\ profiles' = [profiles EXCEPT ![nextProfile] = e]
      /\ nextProfile' = nextProfile + 1
      /\ UNCHANGED <<receipts, held, provisioning, origin>> /\ Profiles!Room
  BY DEF Profiles!create_user
<1>2. Profiles!Pending' = Profiles!Pending
  BY <1>1 DEF Profiles!Pending
<1>3. HasRoom' /\ nextProfile <= MaxUsers
  BY <1>1, <1>2, RoomGiven, SameCardinality DEF Profiles!IdsInOrder, HasRoom, Profiles!TypeOK
<1>4. nextProfile \in Profiles!Ids /\ nextProfile' \in 1..(MaxUsers + 1)
  BY <1>1, <1>3, Constants DEF Profiles!TypeOK, Profiles!Ids
<1>5. Profiles!TypeOK'
  BY <1>1, <1>4 DEF Profiles!TypeOK
<1>6. Profiles!IdsInOrder'
  <2>1. \A i \in Profiles!Ids :
          profiles'[i] # Profiles!Absent \/ origin'[i] # Profiles!Admin => i < nextProfile'
    BY <1>1, <1>4 DEF Profiles!IdsInOrder, Profiles!TypeOK, Profiles!Ids
  <2>. QED
    BY <1>3, <2>1, SameCardinality DEF Profiles!IdsInOrder, HasRoom
<1>7. Profiles!OwnId'
  <2>1. \A w \in Workers : provisioning[w].pc = "commit" =>
          /\ provisioning[w].native # nextProfile
          /\ provisioning[w].native \in 1..(nextProfile' - 1)
    BY <1>1 DEF Profiles!OwnId, Profiles!TypeOK
  <2>. QED
    BY <1>1, <2>1 DEF Profiles!OwnId, Profiles!TypeOK
<1>8. Profiles!ReceiptsMatch' /\ Profiles!UnderLocks'
  BY <1>1 DEF Profiles!ReceiptsMatch, Profiles!UnderLocks
<1>. QED
  BY <1>5, <1>6, <1>7, <1>8

LEMMA DeleteUserSafe ==
  ASSUME Profiles!IInv, NEW i \in Profiles!Ids, Profiles!delete_user(i)
  PROVE  Profiles!IInv'
<1>. USE DEF Profiles!IInv
<1>1. /\ profiles' = [profiles EXCEPT ![i] = Profiles!Absent]
      /\ UNCHANGED <<nextProfile, receipts, held, provisioning, origin>>
  BY DEF Profiles!delete_user
<1>2. \A j \in Profiles!Ids : profiles'[j] # Profiles!Absent => profiles[j] # Profiles!Absent
  BY <1>1 DEF Profiles!TypeOK
<1>3. Profiles!TypeOK'
  BY <1>1 DEF Profiles!TypeOK
<1>4. Profiles!IdsInOrder'
  BY <1>1, <1>2 DEF Profiles!IdsInOrder, Profiles!Pending
<1>5. Profiles!OwnId'
  BY <1>1 DEF Profiles!OwnId, Profiles!TypeOK
<1>6. Profiles!ReceiptsMatch' /\ Profiles!UnderLocks'
  BY <1>1 DEF Profiles!ReceiptsMatch, Profiles!UnderLocks
<1>. QED
  BY <1>3, <1>4, <1>5, <1>6

LEMMA ProfilesInit == Init => Profiles!IInv
<1>. SUFFICES ASSUME Profiles!Init PROVE Profiles!IInv
  BY DEF Init
<1>. USE Constants DEF Profiles!Init
<1>1. /\ \A w \in Workers : provisioning[w].pc = "idle"
      /\ provisioning \in [Workers -> {Profiles!Idle}]
  BY DEF Profiles!Idle
<1>2. Profiles!TypeOK
  BY <1>1 DEF Profiles!TypeOK
<1>3. Profiles!Pending = {}
  BY <1>1 DEF Profiles!Pending
<1>4. Profiles!IdsInOrder
  BY <1>3, FS_EmptySet, SameCardinality DEF Profiles!IdsInOrder
<1>5. Profiles!OwnId /\ Profiles!UnderLocks
  BY <1>1 DEF Profiles!OwnId, Profiles!UnderLocks
<1>6. Profiles!ReceiptsMatch
  BY DEF Profiles!ReceiptsMatch
<1>. QED
  BY <1>2, <1>4, <1>5, <1>6 DEF Profiles!IInv

LEMMA ProfilesSafe == Profiles!IInv /\ [Next]_vars => Profiles!IInv'
<1>. SUFFICES ASSUME Profiles!IInv, [Profiles!Next]_profileVars PROVE Profiles!IInv'
  BY ProfilesOnly
<1>1. ASSUME NEW w \in Workers, Profiles!Receive(w) PROVE Profiles!IInv'
  BY <1>1, ReceiveSafe
<1>2. ASSUME NEW w \in Workers, Profiles!Step(w) PROVE Profiles!IInv'
  BY <1>2, LockSafe, EndsSafe, ReadSafe, InsertSafe, CommitSafe, RereadSafe
     DEF Profiles!Step, Profiles!KnownOperation, Profiles!RefuseExisting
<1>3. ASSUME NEW w \in Workers, Profiles!Crash(w) PROVE Profiles!IInv'
  BY <1>3, EndsSafe DEF Profiles!Crash
<1>4. ASSUME NEW e \in Emails, Profiles!create_user(e) PROVE Profiles!IInv'
  BY <1>4, CreateUserSafe
<1>5. ASSUME NEW i \in Profiles!Ids, Profiles!delete_user(i) PROVE Profiles!IInv'
  BY <1>5, DeleteUserSafe
<1>6. CASE UNCHANGED profileVars
  BY <1>6 DEF profileVars, Profiles!IInv, Profiles!TypeOK, Profiles!IdsInOrder, Profiles!OwnId,
       Profiles!ReceiptsMatch, Profiles!UnderLocks, Profiles!Pending
<1>. QED
  BY <1>1, <1>2, <1>3, <1>4, <1>5, <1>6 DEF Profiles!Next

-----------------------------------------------------------------------------
\* A person gets one profile, with its receipt, and a receipt never names a user that
\* its request did not create: through repeated, concurrent, failed and lost requests,
\* and while administrators create and delete users without the locks.
THEOREM ProvisionedOnceOnly == Spec => []ProvisionedOnce
<1>1. Profiles!IInv => ProvisionedOnce
  <2>. SUFFICES ASSUME Profiles!IInv PROVE ProvisionedOnce
    OBVIOUS
  <2>. USE DEF Profiles!IInv, Profiles!ReceiptsMatch
  <2>1. Profiles!NoOrphanProfile
    BY DEF Profiles!NoOrphanProfile
  <2>2. Profiles!NoAdoption
    <3>. SUFFICES ASSUME NEW o \in Operations, receipts[o] # Profiles!NoReceipt
                  PROVE  origin[receipts[o].native].op = o
      BY DEF Profiles!NoAdoption
    <3>1. origin[receipts[o].native] = [op |-> o, person |-> receipts[o].print[1]]
      OBVIOUS
    <3>. QED
      BY <3>1
  <2>3. Profiles!OncePerPerson
    <3>. SUFFICES ASSUME NEW p \in Persons
                  PROVE  Cardinality({i \in Profiles!Ids : origin[i].person = p}) <= 1
      BY SameCardinality DEF Profiles!OncePerPerson
    <3>1. \A i, j \in Profiles!Ids : origin[i].person = p /\ origin[j].person = p => i = j
      <4>. SUFFICES ASSUME NEW i \in Profiles!Ids, NEW j \in Profiles!Ids,
                           origin[i].person = p, origin[j].person = p
                    PROVE  i = j
        OBVIOUS
      <4>1. origin[i] # Profiles!Admin /\ origin[j] # Profiles!Admin
        BY Constants DEF Profiles!Admin
      <4>2. /\ origin[i].op \in Operations /\ origin[j].op \in Operations
            /\ receipts[origin[i].op].native = i /\ receipts[origin[j].op].native = j
            /\ receipts[origin[i].op].print[1] = p /\ receipts[origin[j].op].print[1] = p
        BY <4>1 DEF Profiles!TypeOK
      <4>3. receipts[origin[i].op] # Profiles!NoReceipt /\ receipts[origin[j].op] # Profiles!NoReceipt
        BY <4>2, Constants DEF Profiles!NoReceipt, Profiles!Ids
      <4>. QED
        BY <4>2, <4>3
    <3>. QED
      BY <3>1, AtMostOne
  <2>. QED
    BY <2>1, <2>2, <2>3 DEF ProvisionedOnce
<1>. QED
  BY <1>1, ProfilesInit, ProfilesSafe, PTL DEF Spec

\* A repeated request is never refused because of the profile that it created itself:
\* while its worker looks, nobody else can have written for its operation.
THEOREM OwnProfileIsFound == Spec => OwnProfileNoConflict
<1>1. Profiles!IInv /\ [Next]_vars =>
        [\A w \in Workers : Profiles!RefuseExisting(w) =>
           \A i \in Profiles!Ids : profiles[i] # Profiles!Absent =>
             origin[i].op # provisioning[w].op]_(Profiles!vars)
  <2>. SUFFICES ASSUME Profiles!IInv, NEW w \in Workers, Profiles!RefuseExisting(w),
                       NEW i \in Profiles!Ids, origin[i].op = provisioning[w].op
                PROVE  FALSE
    OBVIOUS
  <2>. USE DEF Profiles!IInv
  <2>1. /\ provisioning[w].op \in Operations
        /\ receipts[provisioning[w].op] = Profiles!NoReceipt
    BY RequestTyped DEF Profiles!RefuseExisting, Profiles!UnderLocks, Request, Profiles!Stages
  <2>2. origin[i] # Profiles!Admin
    BY <2>1, Constants DEF Profiles!Admin
  <2>3. receipts[origin[i].op].native = i
    BY <2>2 DEF Profiles!ReceiptsMatch
  <2>. QED
    BY <2>1, <2>3, Constants DEF Profiles!NoReceipt, Profiles!Ids
<1>. QED
  BY <1>1, ProfilesInit, ProfilesSafe, PTL DEF Spec, OwnProfileNoConflict, Profiles!OwnProfileNoConflict
=============================================================================
