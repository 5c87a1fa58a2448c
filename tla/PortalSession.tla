---------------------------- MODULE PortalSession ----------------------------
(***************************************************************************)
(* The credentials of one portal user: the password hash, the browser      *)
(* sessions (signed cookies that carry a tag of the hash) and the bearer   *)
(* of the user's instance.  A login loads the user, verifies the password, *)
(* commits, and only then makes the cookie; the commit expires the loaded  *)
(* user, so the cookie is made from the hash that is stored at that time.  *)
(*                                                                         *)
(* A request that changes the account loads the user, then the instance,   *)
(* and writes at its commit the columns that differ from what it loaded:   *)
(* a bearer is taken away by setting its column to NULL, which writes      *)
(* nothing if NULL was loaded.  Hashes are salted: each has an identity of *)
(* its own.  Failed logins are in Lockout, links in ResetIssuance.         *)
(***************************************************************************)
EXTENDS Naturals, Sequences

CONSTANTS Passwords,
          Logins,      \* concurrent login requests
          Changes,     \* concurrent requests that change the account
          MaxHashes,   \* bound: hashes made
          MaxTokens    \* bound: bearers issued

PortalSessionAssumption == MaxHashes \in Nat \ {0} /\ MaxTokens \in Nat

VARIABLES user,     \* the portal_users row
          hashes,   \* every hash made: whose password, by outdated parameters?
          token,    \* bearer stored for the instance, 0 for none
          tokens,   \* bearers issued
          cookies,  \* browser sessions
          login,    \* what a login request holds
          change,   \* what a request that changes the account has loaded
          owner,    \* the password set last
          changes,  \* password changes
          revoked,  \* the newest bearer issued before a committed revocation loaded the instance
          ended     \* the newest bearer issued before the last revocation committed

vars == <<user, hashes, token, tokens, cookies, login, change, owner, changes, revoked, ended>>

Idle == [pc |-> "idle"]
Operations == {"set_user_password", "portal_reset", "block", "unblock", "deactivate", "activate"}
Session == [tag : 1 .. MaxHashes, issued : Nat]

TypeOK ==
    /\ user \in [here : BOOLEAN, is_active : BOOLEAN, is_blocked : BOOLEAN, hash : 1 .. MaxHashes]
    /\ hashes \in Seq([password : Passwords, outdated : BOOLEAN]) /\ Len(hashes) <= MaxHashes
    /\ user.hash \in DOMAIN hashes
    /\ token \in 0 .. tokens /\ tokens \in 0 .. MaxTokens
    /\ revoked \in 0 .. tokens /\ ended \in 0 .. tokens
    /\ ~user.here => token = 0
    /\ cookies \subseteq Session
    /\ login \in [Logins -> {Idle} \cup [pc : {"verified", "committed"}, password : Passwords,
                                       rehash : BOOLEAN, is_blocked : BOOLEAN]]
    /\ change \in [Changes -> {Idle} \cup [pc : {"user", "instance"}, op : Operations,
                                           flag : BOOLEAN,
                                           token : 0 .. tokens, issued : 0 .. tokens]]
    /\ owner \in Passwords /\ changes \in Nat

Init ==
    /\ user = [here |-> TRUE, is_active |-> TRUE, is_blocked |-> FALSE, hash |-> 1]
    /\ \E p \in Passwords, outdated \in BOOLEAN :
          /\ hashes = <<[password |-> p, outdated |-> outdated]>>
          /\ owner = p
    /\ token = 0 /\ tokens = 0 /\ revoked = 0 /\ ended = 0
    /\ cookies = {}
    /\ login = [l \in Logins |-> Idle]
    /\ change = [c \in Changes |-> Idle]
    /\ changes = 0

bearers == <<token, tokens, revoked, ended>>
account == <<user, hashes, bearers, owner, changes>>

----------------------------------------------------------------------------
\* A new salted hash by current parameters.
hash_password(p) ==
    /\ Len(hashes) < MaxHashes
    /\ hashes' = Append(hashes, [password |-> p, outdated |-> FALSE])

verify_password_details(p) == hashes[user.hash].password = p

\* require_portal_user_auth, by cookie and by bearer.
SessionAccepted(c) == user.here /\ ~user.is_blocked /\ c.tag = user.hash
BearerAccepted(t) == user.here /\ ~user.is_blocked /\ t = token

\* portal_reset holds the row of the user FOR UPDATE until its commit; another
\* request that writes or deletes the row waits.
Resetting == {c \in Changes : change[c].pc # "idle" /\ change[c].op = "portal_reset"}
RowFree(c) == Resetting \subseteq {c}

----------------------------------------------------------------------------
(* portal_login *)
LoginVerifies(l, p) ==
    /\ login[l] = Idle
    /\ user.here /\ user.is_active /\ verify_password_details(p)
    /\ login' = [login EXCEPT ![l] =
          [pc |-> "verified", password |-> p, is_blocked |-> user.is_blocked,
           rehash |-> hashes[user.hash].outdated]]
    /\ UNCHANGED <<account, cookies, change>>

\* The user object is written if its hash was replaced.
WritesUser(l) ==
    IF login[l].rehash
    THEN /\ Resetting = {}
         /\ hash_password(login[l].password) /\ user' = [user EXCEPT !.hash = Len(hashes')]
    ELSE UNCHANGED <<user, hashes>>

\* Blocked when it was loaded: the replaced hash is committed all the same.
LoginBlocked(l) ==
    /\ login[l].pc = "verified" /\ login[l].is_blocked
    /\ user.here /\ WritesUser(l)
    /\ login' = [login EXCEPT ![l] = Idle]
    /\ UNCHANGED <<bearers, cookies, change, owner, changes>>

LoginCommits(l) ==
    /\ login[l].pc = "verified" /\ ~login[l].is_blocked
    /\ user.here /\ WritesUser(l)
    /\ login' = [login EXCEPT ![l].pc = "committed"]
    /\ UNCHANGED <<bearers, cookies, change, owner, changes>>

\* No employment within its window, the instance gone, or the row deleted
\* under the request; nothing is committed.
LoginRefused(l) ==
    /\ \/ login[l].pc = "verified" /\ ~login[l].is_blocked
       \/ login[l].pc # "idle" /\ ~user.here
    /\ login' = [login EXCEPT ![l] = Idle]
    /\ UNCHANGED <<account, cookies, change>>

set_portal_session(l) ==
    /\ login[l].pc = "committed" /\ user.here
    /\ cookies' = cookies \cup {[tag |-> user.hash, issued |-> changes]}
    /\ login' = [login EXCEPT ![l] = Idle]
    /\ UNCHANGED <<account, change>>

\* session_max_age_seconds is over, or the browser has logged out.
SessionEnds(c) == cookies' = cookies \ {c} /\ UNCHANGED <<account, login, change>>

----------------------------------------------------------------------------
(* The instance of the user: created active with the user, its bearer      *)
(* rotated by whoever knows its id.                                        *)
claim_instance_token ==
    /\ user.here /\ tokens < MaxTokens
    /\ tokens' = tokens + 1 /\ token' = tokens'
    /\ UNCHANGED <<user, hashes, cookies, login, change, owner, changes, revoked, ended>>

----------------------------------------------------------------------------
(* Changes of the account: the user is loaded, then the instance, and the  *)
(* commit writes.                                                          *)

\* The flag of the user that the operation writes.
Flag(op) == CASE op \in {"block", "unblock"} -> user.is_blocked
              [] op \in {"deactivate", "activate"} -> user.is_active
              [] OTHER -> FALSE

LoadUser(c, op) ==
    /\ change[c] = Idle /\ user.here
    /\ op = "portal_reset" => user.is_active /\ ~user.is_blocked /\ RowFree(c)
    /\ change' = [change EXCEPT ![c] =
          [pc |-> "user", op |-> op, flag |-> Flag(op), token |-> 0, issued |-> 0]]
    /\ UNCHANGED <<account, cookies, login>>

\* user.instance, when the bearer is to be revoked; the rest of the request, a
\* password hash included, comes after it (with a new name) or before.
LoadInstance(c) ==
    /\ change[c].pc = "user" /\ change[c].op \notin {"unblock", "activate"}
    /\ user.here
    /\ change' = [change EXCEPT ![c] = [@ EXCEPT !.pc = "instance", !.token = token, !.issued = tokens]]
    /\ UNCHANGED <<account, cookies, login>>

\* The row has been deleted under the request, or the password is refused.
ChangeFails(c) ==
    /\ change[c].pc # "idle"
    /\ change' = [change EXCEPT ![c] = Idle]
    /\ UNCHANGED <<account, cookies, login>>

Commits(c, op) ==
    /\ change[c].pc \in {"user", "instance"} /\ change[c].op = op
    /\ user.here /\ RowFree(c)
    /\ change' = [change EXCEPT ![c] = Idle]
    /\ UNCHANGED <<tokens, cookies, login>>

\* UPDATE names a column only if its new value differs from the one loaded.
Column(loaded, new, stored) == IF new = loaded THEN stored ELSE new

Max2(a, b) == IF a < b THEN b ELSE a

revoke_instance_credential(c) ==
    /\ change[c].pc = "instance"
    /\ token' = Column(change[c].token, 0, token)
    /\ revoked' = Max2(revoked, change[c].issued) /\ ended' = tokens

change_portal_password(c, p) ==
    /\ hash_password(p)
    /\ user' = [user EXCEPT !.hash = Len(hashes')]
    /\ revoke_instance_credential(c)
    /\ owner' = p /\ changes' = changes + 1

\* Also update_user with a password.
set_user_password(c, p) == Commits(c, "set_user_password") /\ change_portal_password(c, p)
portal_reset(c, p) == Commits(c, "portal_reset") /\ change_portal_password(c, p)

\* Blocking that relies on the check of is_blocked and keeps the bearer.
OnlyFlag(c) ==
    /\ \/ /\ Commits(c, "block") /\ change[c].pc = "instance"
          /\ user' = [user EXCEPT !.is_blocked = Column(change[c].flag, TRUE, @)]
          /\ revoked' = Max2(revoked, change[c].issued) /\ ended' = tokens
          /\ UNCHANGED token
       \/ /\ Commits(c, "unblock")
          /\ user' = [user EXCEPT !.is_blocked = Column(change[c].flag, FALSE, @)]
          /\ UNCHANGED <<token, revoked, ended>>
    /\ UNCHANGED <<hashes, owner, changes>>
block_user(c) ==
    /\ \/ /\ Commits(c, "block")
          /\ user' = [user EXCEPT !.is_blocked = Column(change[c].flag, TRUE, @)]
          /\ revoke_instance_credential(c)
       \/ /\ Commits(c, "unblock")
          /\ user' = [user EXCEPT !.is_blocked = Column(change[c].flag, FALSE, @)]
          /\ UNCHANGED <<token, revoked, ended>>
    /\ UNCHANGED <<hashes, owner, changes>>

update_user(c) ==
    /\ \/ /\ Commits(c, "deactivate")
          /\ user' = [user EXCEPT !.is_active = Column(change[c].flag, FALSE, @)]
          /\ revoke_instance_credential(c)
       \/ /\ Commits(c, "activate")
          /\ user' = [user EXCEPT !.is_active = Column(change[c].flag, TRUE, @)]
          /\ UNCHANGED <<token, revoked, ended>>
    /\ UNCHANGED <<hashes, owner, changes>>

\* The instance is deleted with its only user, whatever its row holds by then.
delete_user ==
    /\ user.here /\ Resetting = {}
    /\ user' = [user EXCEPT !.here = FALSE]
    /\ token' = 0 /\ revoked' = tokens /\ ended' = tokens
    /\ UNCHANGED <<hashes, tokens, cookies, login, change, owner, changes>>

Next ==
    \/ \E l \in Logins :
          \/ \E p \in Passwords : LoginVerifies(l, p)
          \/ LoginBlocked(l) \/ LoginCommits(l) \/ LoginRefused(l) \/ set_portal_session(l)
    \/ \E s \in cookies : SessionEnds(s)
    \/ claim_instance_token \/ delete_user
    \/ \E c \in Changes :
          \/ \E op \in Operations : LoadUser(c, op)
          \/ LoadInstance(c) \/ ChangeFails(c)
          \/ \E p \in Passwords : set_user_password(c, p) \/ portal_reset(c, p)
          \/ block_user(c) \/ update_user(c)

Spec == Init /\ [][Next]_vars

----------------------------------------------------------------------------
\* A session made before a password change is never accepted after it,
\* whatever is changed or rehashed later and even if the same password is
\* set again.
OldSessionsDie == \A c \in cookies : c.issued < changes => ~SessionAccepted(c)

\* A bearer issued before a change of password, a blocking, a deactivation or
\* the deletion loaded the instance is never accepted once that has committed;
\* unblocking does not bring it back.
OldBearersDie == \A t \in 1 .. revoked : ~BearerAccepted(t)

\* The same of every bearer issued before the commit (docs/SSOT_CURRENT.md:608:
\* these operations invalidate the credential).  One that was claimed after a
\* request loaded an instance without a bearer survives its commit.
NoBearerSurvives == \A t \in 1 .. ended : ~BearerAccepted(t)

\* The stored hash is one of the password that was set last; a login may only
\* replace it by a hash of the same password.
PasswordStays == hashes[user.hash].password = owner

----------------------------------------------------------------------------
\* Why they die: the stored hash is the newest, a session carries the hash it was
\* made from, and one made before a change carries an older one.
TagsAge ==
    /\ user.hash = Len(hashes)
    /\ \A c \in cookies :
          /\ c.tag <= user.hash /\ c.issued <= changes
          /\ c.issued < changes => c.tag < user.hash

\* The stored bearer is newer than every one that a committed revocation has seen; a
\* revocation under way that loaded none knows of none that is stored.
BearerIsNew ==
    /\ token # 0 => revoked < token
    /\ \A c \in Changes : change[c].pc = "instance" =>
          change[c].token # 0 \/ token = 0 \/ change[c].issued < token

IInv == TypeOK /\ TagsAge /\ BearerIsNew
=============================================================================
