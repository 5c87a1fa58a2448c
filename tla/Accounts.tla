------------------------------ MODULE Accounts ------------------------------
(***************************************************************************)
(* The protocols around an account side by side: the lockout of the portal *)
(* login, sessions and bearers, reset links, external sign-in and the      *)
(* cache of the provider's keys.  The models share no state; a behaviour   *)
(* is one of the model in part, and the others stay where they are.        *)
(***************************************************************************)
EXTENDS Naturals

CONSTANTS
  Requests, Threshold, Window, Duration, Rereads, MaxFailed, MaxId, RecentCap,
  Passwords, Logins, Changes, MaxHashes, MaxTokens,
  Send, Redeem, Editors, Conn, None,
  Employees, Admin, Identities, Callbacks, Fetches, MaxTxn,
  Threads, Keys, Ttl, Timeout, KeyTime

VARIABLES
  part,
  rows, session, pc, crowded, recent, complete,
  user, hashes, token, tokens, cookies, login, change, owner, changes, revoked, ended,
  holderOfLink, links, mailed, uses, sending, conn, pool, holder, depth, tx, revoking, seen,
  account, identity, txn, started, callback, fetch, completed, delivered, cancelled,
  now, published, retired, cache, thread, verdict

lockoutVars == <<rows, session, pc, crowded, recent, complete>>
sessionVars == <<user, hashes, token, tokens, cookies, login, change, owner, changes, revoked, ended>>
resetVars == <<holderOfLink, links, mailed, uses, sending, conn, pool, holder, depth, tx,
               revoking, seen>>
oauthVars == <<account, identity, txn, started, callback, fetch, completed, delivered, cancelled>>
keysVars == <<now, published, retired, cache, thread, verdict>>
vars == <<part, lockoutVars, sessionVars, resetVars, oauthVars, keysVars>>

Lock == INSTANCE Lockout
Session == INSTANCE PortalSession
Reset == INSTANCE ResetIssuance WITH
  Admin <- Editors, user <- holderOfLink, token <- links, pc <- sending
OAuth == INSTANCE ExternalAuth
Provider == INSTANCE ProviderKeys WITH MaxTime <- KeyTime

ASSUME LockAssumption == Lock!LockoutAssumption
ASSUME SessionAssumption == Session!PortalSessionAssumption
ASSUME ResetAssumption == Reset!NoneAssumption
ASSUME OAuthAssumption == OAuth!ExternalAuthAssumption
ASSUME ProviderAssumption == Provider!ProviderKeysAssumption

Init ==
  /\ part \in {"lockout", "session", "reset", "oauth", "keys"}
  /\ Lock!Init
  /\ Session!Init
  /\ Reset!Init
  /\ OAuth!Init
  /\ Provider!Init

LockoutStep ==
  part = "lockout" /\ Lock!Next /\ UNCHANGED <<part, sessionVars, resetVars, oauthVars, keysVars>>
SessionStep ==
  part = "session" /\ Session!Next /\ UNCHANGED <<part, lockoutVars, resetVars, oauthVars, keysVars>>
ResetStep ==
  part = "reset" /\ Reset!Next /\ UNCHANGED <<part, lockoutVars, sessionVars, oauthVars, keysVars>>
OAuthStep ==
  part = "oauth" /\ OAuth!Next /\ UNCHANGED <<part, lockoutVars, sessionVars, resetVars, keysVars>>
KeysStep ==
  part = "keys" /\ Provider!Next /\ UNCHANGED <<part, lockoutVars, sessionVars, resetVars, oauthVars>>

Next == LockoutStep \/ SessionStep \/ ResetStep \/ OAuthStep \/ KeysStep

Spec == Init /\ [][Next]_vars

-----------------------------------------------------------------------------
\* Failures counted one after the other lock, whatever logins and unlockings met before
\* them: as many as the threshold at one time, or the first after a clearing within a
\* window (record_failed_login).
FailuresLock == Lock!FailuresLock

\* Sessions from before a password change are dead for good, and so are the bearers
\* issued before a committed revocation loaded the instance, while other requests
\* change the same account (portal_auth.py, deps.py, admin_users.py).
OldCredentialsDie == Session!OldSessionsDie /\ Session!OldBearersDie

\* At most one reset link is pending or usable (portal_credentials.py).
OneLiveLink == Reset!OneLiveLink

\* A link changes the password once, and only if its mail was accepted
\* (portal_reset, send_reset_link).
UsedOnce == Reset!UsedOnce /\ Reset!UndeliveredUseless

\* A revoked link stays revoked when its delivery is recorded (mark_reset_delivery).
RevokedForGood == Reset!RevokedForGood

\* A state value of the provider completes once, whatever callbacks present it
\* (consume_transaction).
CompletedOnce == OAuth!CompletedOnce

\* An account has at most one identity, no link points to a deleted user, and a
\* link cancelled by an unlinking is not completed (external_auth.py).
LinksSound == OAuth!OneIdentity /\ OAuth!NoOrphan /\ OAuth!UnlinkCancels

\* A token signed by a published key is never refused, and a withdrawn key is
\* accepted for less than the lifetime of a cached set (_signing_key).
KeysSound == Provider!GenuineAccepted /\ Provider!RetiredBound
=============================================================================
