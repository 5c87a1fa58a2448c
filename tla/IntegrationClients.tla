------------------------- MODULE IntegrationClients -------------------------
(***************************************************************************)
(* The life of one integration client: its status, its secrets and the     *)
(* operations of the administration on them                                *)
(* (app/api/v1/admin_integrations.py), and the check every request of the  *)
(* integration API makes (app/security/integration_tokens.py).             *)
(*                                                                         *)
(* Every operation is one transaction without a row lock: it reads the     *)
(* client and its secrets first and writes at its commit what follows      *)
(* from that reading.  SQLAlchemy writes a column only when it differs     *)
(* from the value read, so an operation that sees the status it wants      *)
(* writes none.  Secrets are numbered in the order of their insertion.     *)
(***************************************************************************)
EXTENDS Naturals

CONSTANTS
  Admins,       \* the administrators with a request under way
  MaxSecrets,   \* bound: secrets ever issued
  MaxOffs       \* bound: disablings and revocations

BoundsAssumption == MaxSecrets \in Nat \ {0} /\ MaxOffs \in Nat

VARIABLES
  status,    \* integration_clients.status
  expired,   \* expires_at <= now
  issued,    \* how many secrets exist
  live,      \* the secrets with revoked_at NULL
  request,   \* per administrator: the operation under way and what it read
  recalled,  \* secrets a committed rotation or revocation has found issued
  off,       \* the client was switched off and not on again since
  offs       \* how many times it was switched off

vars == <<status, expired, issued, live, request, recalled, off, offs>>

Statuses == {"ACTIVE", "DISABLED", "REVOKED"}
Changes == {"rotate", "disable", "enable", "revoke", "update"}
Secrets == 1..MaxSecrets
Idle == [op |-> "none"]

\* The answer to a request with secret s: the secret is looked up among the
\* unrevoked ones, then the client must be active and not expired.
verify_integration_token(s) == s \in live /\ status = "ACTIVE" /\ ~expired

TypeOK ==
  /\ status \in Statuses
  /\ expired \in BOOLEAN
  /\ issued \in Secrets
  /\ live \subseteq 1..issued
  /\ recalled \subseteq 1..issued
  /\ off \in BOOLEAN
  /\ offs \in 0..MaxOffs
  /\ request \in [Admins -> {Idle} \cup [op : Changes, status : Statuses,
                                         live : SUBSET Secrets, issued : 1..issued,
                                         opened : BOOLEAN]]

-----------------------------------------------------------------------------
\* A new client is active and has one secret.
create_integration_client ==
  /\ status = "ACTIVE"
  /\ expired = FALSE
  /\ issued = 1
  /\ live = {1}

Init ==
  /\ create_integration_client
  /\ request = [a \in Admins |-> Idle]
  /\ recalled = {}
  /\ off = FALSE
  /\ offs = 0

\* The request of a reads the client with its secrets.
_get_client_or_404(a) ==
  /\ request[a] = Idle
  /\ \E op \in Changes :
       request' = [request EXCEPT ![a] =
                     [op |-> op, status |-> status, live |-> live, issued |-> issued,
                      opened |-> FALSE]]
  /\ UNCHANGED <<status, expired, issued, live, recalled, off, offs>>

\* The request of a ends; if it opens the client, those under way have missed that.
Commits(a, op, opens) ==
  /\ request[a].op = op
  /\ request' = [b \in Admins |->
       IF b = a THEN Idle
       ELSE IF opens /\ request[b] # Idle THEN [request[b] EXCEPT !.opened = TRUE]
       ELSE request[b]]

\* The status after a commit that sets it to s, having read r.
Written(r, s) == IF r = s THEN status ELSE s

Recall(a) == recalled' = recalled \cup 1..request[a].issued

\* Switched off, unless another request opened the client meanwhile: that one may
\* have changed the very status that this one read and so does not write.
SwitchOff(a) == off' = (off \/ ~request[a].opened)

\* A rotation ends the secrets it read and issues one; a client it read as
\* revoked becomes active.
rotate_integration_client_secret(a) ==
  LET opens == request[a].status = "REVOKED"
  IN  /\ request[a] # Idle /\ Commits(a, "rotate", opens)
      /\ issued < MaxSecrets
      /\ issued' = issued + 1
      /\ live' = (live \ request[a].live) \cup {issued + 1}
      /\ status' = IF opens THEN "ACTIVE" ELSE status
      /\ Recall(a)
      /\ off' = (off /\ ~opens)
      /\ UNCHANGED <<expired, offs>>

disable_integration_client(a) ==
  /\ Commits(a, "disable", FALSE)
  /\ offs < MaxOffs
  /\ status' = Written(request[a].status, "DISABLED")
  /\ SwitchOff(a)
  /\ offs' = offs + 1
  /\ UNCHANGED <<expired, issued, live, recalled>>

\* Enabling asks for the scopes only, not for the status; validate_scopes
\* never leaves a client without a scope.
enable_integration_client(a) ==
  /\ Commits(a, "enable", TRUE)
  /\ status' = Written(request[a].status, "ACTIVE")
  /\ off' = FALSE
  /\ UNCHANGED <<expired, issued, live, recalled, offs>>

OnlyStatus(a) ==
  /\ Commits(a, "revoke", FALSE)
  /\ offs < MaxOffs
  /\ status' = Written(request[a].status, "REVOKED")
  /\ Recall(a)
  /\ SwitchOff(a)
  /\ offs' = offs + 1
  /\ UNCHANGED <<expired, issued, live>>

revoke_integration_client_secret(a) ==
  /\ Commits(a, "revoke", FALSE)
  /\ offs < MaxOffs
  /\ live' = live \ request[a].live
  /\ status' = Written(request[a].status, "REVOKED")
  /\ Recall(a)
  /\ SwitchOff(a)
  /\ offs' = offs + 1
  /\ UNCHANGED <<expired, issued>>

\* PUT computes a new expiry, always in the future or none; the status and
\* the secrets are not touched.
update_integration_client(a) ==
  /\ Commits(a, "update", FALSE)
  /\ expired' = FALSE
  /\ UNCHANGED <<status, issued, live, recalled, off, offs>>

_client_is_expired ==
  /\ ~expired
  /\ expired' = TRUE
  /\ UNCHANGED <<status, issued, live, request, recalled, off, offs>>

Next ==
  \/ \E a \in Admins :
       \/ _get_client_or_404(a)
       \/ rotate_integration_client_secret(a)
       \/ disable_integration_client(a)
       \/ enable_integration_client(a)
       \/ revoke_integration_client_secret(a)
       \/ update_integration_client(a)
  \/ _client_is_expired

Spec == Init /\ [][Next]_vars

-----------------------------------------------------------------------------
(* A secret that had been issued when a rotation or a revocation read the  *)
(* client opens nothing once that has committed, whatever is done to the   *)
(* client later: enabling or rotating it does not bring an old token back. *)
(* Two secrets are in use only if the rotation that issued the younger had *)
(* read the client before the older was committed; docs/SSOT_CURRENT.md    *)
(* (366) speaks of one, also for rotations that overlap.                   *)
RecalledDead == \A s \in recalled : ~verify_integration_token(s)

(* A client that was disabled or revoked is refused with every token until *)
(* an administrator enables it, or rotates a client read as revoked; a     *)
(* rotation of a disabled client does not open it.  It is not claimed of a *)
(* request that read the client as off already while another opened it:    *)
(* that request writes nothing.                                            *)
OffHolds == off => \A s \in 1..issued : ~verify_integration_token(s)

-----------------------------------------------------------------------------
(* Why they hold: of the secrets that were issued when a request read the  *)
(* client, only those it read are still in use, and if the client is       *)
(* active though nobody opened it since, it was read as active.            *)
ReadsEnough ==
  \A a \in Admins : request[a] # Idle =>
    /\ live \cap 1..request[a].issued \subseteq request[a].live
    /\ status = "ACTIVE" /\ ~request[a].opened => request[a].status = "ACTIVE"

SecretsKept ==
  /\ live \cap recalled = {}
  /\ off => status # "ACTIVE"

IInv == TypeOK /\ ReadsEnough /\ SecretsKept
=============================================================================
