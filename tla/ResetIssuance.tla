--------------------------- MODULE ResetIssuance ---------------------------
(***************************************************************************)
(* Password reset links of one portal user: send_reset_link, the admin     *)
(* operations that revoke links, and portal_reset that redeems one.        *)
(*                                                                         *)
(* A send-reset request takes a session-level PostgreSQL advisory lock     *)
(* (reset_issuance_lock), writes its token, commits, sends the mail,       *)
(* records the delivery, commits and unlocks.  A Session gives its pooled  *)
(* connection back at every commit and takes the next idle one for its     *)
(* next statement; an advisory lock belongs to the connection it was taken *)
(* on.  Send requests here share one worker's pool; the others run in      *)
(* other workers.                                                          *)
(*                                                                         *)
(* The row lock on the user (lock_portal_user) is held only inside a       *)
(* transaction that is one step here.  Deletion of the user and expiry of  *)
(* links are left out.                                                     *)
(***************************************************************************)
EXTENDS Integers, Sequences, FiniteSets, SequencesExt

CONSTANTS
  Send,      \* send-reset requests; each issues at most one token, named after it
  Redeem,    \* portal_reset requests
  Admin,     \* concurrent requests that change the account
  Conn,      \* pooled connections of the worker
  None

NoneAssumption == None \notin Conn \cup Send

VARIABLES
  user,      \* is_active and is_blocked, as committed
  token,     \* the reset token of a send request, as committed
  mailed,    \* the mail with the link has been accepted
  uses,      \* how often a link has changed the password
  pc, conn,  \* of a send request: progress and the connection it holds
  pool,      \* idle connections, first in first out
  holder, depth,  \* connection that holds the advisory lock, and how often
  tx,        \* open transaction of an admin request: the change it will commit
  revoking,  \* token rows such a transaction has updated and not committed
  seen       \* the link a redeeming request has read as valid

account == <<user, token, mailed, uses>>
sessions == <<pc, conn, pool, holder, depth>>
others == <<tx, revoking, seen>>
vars == <<account, sessions, others>>

Change == {"block", "unblock", "deactivate", "activate", "password"}
NoToken == [state |-> "none", revoked |-> FALSE, used |-> FALSE]

LinksTyped ==
  /\ token \in [Send -> [state : {"none", "PENDING", "SENT", "FAILED"},
                         revoked : BOOLEAN, used : BOOLEAN]]
  /\ mailed \in [Send -> BOOLEAN]
  /\ uses \in [Send -> Nat]
  /\ pc \in [Send -> {"new", "waiting", "locked", "written", "mailing", "mailed", "ending", "done"}]
  /\ seen \in [Redeem -> Send \cup {None}]
  /\ revoking \in [Admin -> SUBSET Send]

TypeOK ==
  /\ LinksTyped
  /\ user \in [active : BOOLEAN, blocked : BOOLEAN]
  /\ conn \in [Send -> Conn \cup {None}]
  /\ \A s \in Send : conn[s] # None => conn[s] \notin ToSet(pool)
  /\ ToSet(pool) \subseteq Conn
  /\ holder \in Conn \cup {None}
  /\ depth \in Nat /\ (depth = 0 <=> holder = None)
  /\ tx \in [Admin -> Change \cup {"keep", None}]

Init ==
  /\ user = [active |-> TRUE, blocked |-> FALSE]
  /\ token = [s \in Send |-> NoToken]
  /\ mailed = [s \in Send |-> FALSE]
  /\ uses = [s \in Send |-> 0]
  /\ pc = [s \in Send |-> "new"]
  /\ conn = [s \in Send |-> None]
  /\ pool = SetToSeq(Conn)
  /\ holder = None /\ depth = 0
  /\ tx = [a \in Admin |-> None]
  /\ revoking = [a \in Admin |-> {}]
  /\ seen = [r \in Redeem |-> None]

Live(s) == token[s].state \in {"PENDING", "SENT"} /\ ~ token[s].revoked /\ ~ token[s].used
Revocable == {s \in Send : token[s].state # "none" /\ ~ token[s].revoked /\ ~ token[s].used}
RowLocked == UNION {revoking[a] : a \in Admin}

\* UPDATE ... SET revoked_at WHERE used_at IS NULL AND revoked_at IS NULL
revoke_password_reset_tokens(t) ==
  [s \in Send |-> IF s \in Revocable THEN [t[s] EXCEPT !.revoked = TRUE] ELSE t[s]]

-----------------------------------------------------------------------------
(* Pool and advisory lock. *)

\* The session takes the connection that has been idle longest.
Checkout(s) ==
  /\ pool # <<>>
  /\ conn' = [conn EXCEPT ![s] = Head(pool)]
  /\ pool' = Tail(pool)

\* commit or close
Release(s) ==
  /\ conn' = [conn EXCEPT ![s] = None]
  /\ pool' = Append(pool, conn[s])

\* pg_advisory_unlock on a connection that does not hold the lock only warns.
AdvisoryUnlock(c) ==
  /\ depth' = IF holder = c THEN depth - 1 ELSE depth
  /\ holder' = IF depth' = 0 THEN None ELSE holder

-----------------------------------------------------------------------------
(* send_reset_link *)

Begin(s) ==
  /\ pc[s] = "new"
  /\ Checkout(s)
  /\ pc' = [pc EXCEPT ![s] = "waiting"]
  /\ UNCHANGED <<account, holder, depth, others>>

\* pg_advisory_lock: free, or held by this very connection
Acquire(s) ==
  /\ pc[s] = "waiting"
  /\ holder \in {None, conn[s]}
  /\ holder' = conn[s] /\ depth' = depth + 1
  /\ pc' = [pc EXCEPT ![s] = "locked"]
  /\ UNCHANGED <<account, conn, pool, others>>

KeepOlder(s) == [token EXCEPT ![s] = [NoToken EXCEPT !.state = "PENDING"]]
WithPending(s) ==
  [revoke_password_reset_tokens(token) EXCEPT ![s] = [NoToken EXCEPT !.state = "PENDING"]]

\* first transaction: older links are revoked and the new token is PENDING
Write(s) ==
  /\ pc[s] = "locked"
  /\ user.active /\ ~ user.blocked
  /\ Revocable \cap RowLocked = {}
  /\ token' = WithPending(s)
  /\ Release(s)
  /\ pc' = [pc EXCEPT ![s] = "written"]
  /\ UNCHANGED <<user, mailed, uses, holder, depth, others>>

\* inactive or blocked: the exception unlocks on the connection still held
Refuse(s) ==
  /\ pc[s] = "locked"
  /\ ~ user.active \/ user.blocked
  /\ AdvisoryUnlock(conn[s])
  /\ Release(s)
  /\ pc' = [pc EXCEPT ![s] = "done"]
  /\ UNCHANGED <<account, others>>

\* The user row is locked here and the token row by an admin request that waits for
\* the user row: PostgreSQL aborts one.  In an aborted transaction the unlock fails.
Aborted(s) ==
  /\ pc[s] = "locked"
  /\ user.active /\ ~ user.blocked
  /\ Revocable \cap RowLocked # {}
  /\ Release(s)
  /\ pc' = [pc EXCEPT ![s] = "done"]
  /\ UNCHANGED <<account, holder, depth, others>>

\* reading the settings starts a transaction that stays open while the mail is sent
StartMail(s) ==
  /\ pc[s] = "written"
  /\ Checkout(s)
  /\ pc' = [pc EXCEPT ![s] = "mailing"]
  /\ UNCHANGED <<account, holder, depth, others>>

OverwriteRow(s, state, revoked) ==
  [token EXCEPT ![s] = [@ EXCEPT !.state = state, !.revoked = revoked]]
mark_reset_delivery(s, state, revoked) ==
  [token EXCEPT ![s] = [state |-> state, revoked |-> @.revoked \/ revoked, used |-> @.used]]

Deliver(s) ==
  /\ pc[s] = "mailing"
  /\ \/ /\ mailed' = [mailed EXCEPT ![s] = TRUE]
        /\ pc' = [pc EXCEPT ![s] = "mailed"]
        /\ UNCHANGED <<token, conn, pool>>
     \/ /\ s \notin RowLocked
        /\ token' = mark_reset_delivery(s, "FAILED", TRUE)
        /\ Release(s)
        /\ pc' = [pc EXCEPT ![s] = "ending"]
        /\ UNCHANGED mailed
  /\ UNCHANGED <<user, uses, holder, depth, others>>

\* second transaction: the account is locked and read again
Record(s) ==
  /\ pc[s] = "mailed"
  /\ s \notin RowLocked
  /\ token' = IF user.active /\ ~ user.blocked THEN mark_reset_delivery(s, "SENT", FALSE)
              ELSE mark_reset_delivery(s, "FAILED", TRUE)
  /\ Release(s)
  /\ pc' = [pc EXCEPT ![s] = "ending"]
  /\ UNCHANGED <<user, mailed, uses, holder, depth, others>>

\* the finally clause: checkout, unlock, close
Finish(s) ==
  /\ pc[s] = "ending"
  /\ pool # <<>>
  /\ AdvisoryUnlock(Head(pool))
  /\ pool' = Append(Tail(pool), Head(pool))
  /\ pc' = [pc EXCEPT ![s] = "done"]
  /\ UNCHANGED <<account, conn, others>>

-----------------------------------------------------------------------------
(* Account changes (block_user, update_user, set_user_password): the user is read,
   links are revoked by a first statement, the user row is written at the commit. *)

Revokes(change) == change \in {"block", "deactivate", "password"}

Apply(change) ==
  [active |-> IF change \in {"activate", "deactivate"} THEN change = "activate" ELSE user.active,
   blocked |-> IF change \in {"block", "unblock"} THEN change = "block" ELSE user.blocked]

\* Only an attribute that differs from the value read is written at the commit.
Written(change) == IF Apply(change) = user THEN "keep" ELSE change

Open(a) ==
  /\ tx[a] = None
  /\ \E change \in Change :
       /\ Revokes(change) => Revocable \cap RowLocked = {}
       /\ tx' = [tx EXCEPT ![a] = Written(change)]
       /\ revoking' = [revoking EXCEPT ![a] = IF Revokes(change) THEN Revocable ELSE {}]
  /\ UNCHANGED <<account, sessions, seen>>

CommitChange(a) ==
  /\ tx[a] # None
  /\ user' = Apply(tx[a])
  /\ token' = [s \in Send |-> IF s \in revoking[a] THEN [token[s] EXCEPT !.revoked = TRUE]
                              ELSE token[s]]
  /\ tx' = [tx EXCEPT ![a] = None]
  /\ revoking' = [revoking EXCEPT ![a] = {}]
  /\ UNCHANGED <<mailed, uses, sessions, seen>>

\* the victim of a deadlock with a send-reset or a reset request
Abort(a) ==
  /\ revoking[a] # {}
  /\ tx' = [tx EXCEPT ![a] = None]
  /\ revoking' = [revoking EXCEPT ![a] = {}]
  /\ UNCHANGED <<account, sessions, seen>>

-----------------------------------------------------------------------------
(* portal_reset *)

Redeemable(s) == Live(s) /\ token[s].state = "SENT"

\* the token is looked up before any lock is taken
Look(r) ==
  /\ seen[r] = None
  /\ \E s \in Send :
       /\ Redeemable(s) /\ user.active /\ ~ user.blocked
       /\ seen' = [seen EXCEPT ![r] = s]
  /\ UNCHANGED <<account, sessions, tx, revoking>>

TrustLookup(s) == TRUE
StillValid(s) == Redeemable(s)

\* under the user lock everything is read again
Reset(r) ==
  LET s == seen[r]
  IN  /\ s # None
      /\ seen' = [seen EXCEPT ![r] = None]
      /\ IF user.active /\ ~ user.blocked /\ StillValid(s)
         THEN /\ Revocable \cap RowLocked = {}
              /\ token' = [revoke_password_reset_tokens(token) EXCEPT ![s].used = TRUE]
              /\ uses' = [uses EXCEPT ![s] = @ + 1]
         ELSE UNCHANGED <<token, uses>>
      /\ UNCHANGED <<user, mailed, sessions, tx, revoking>>

-----------------------------------------------------------------------------
Next ==
  \/ \E s \in Send : Begin(s) \/ Acquire(s) \/ Write(s) \/ Refuse(s) \/ Aborted(s)
                       \/ StartMail(s) \/ Deliver(s) \/ Record(s) \/ Finish(s)
  \/ \E a \in Admin : Open(a) \/ CommitChange(a) \/ Abort(a)
  \/ \E r \in Redeem : Look(r) \/ Reset(r)

Spec == Init /\ [][Next]_vars

-----------------------------------------------------------------------------
\* At most one link of the user is pending or usable, in whatever order requests
\* write, deliver and record: the newest one.  The partial unique index on SENT
\* tokens is therefore never hit.
OneLiveLink == Cardinality({s \in Send : Live(s)}) <= 1

\* Two browsers that redeem one link at the same time change the password once.
UsedOnce == \A s \in Send : uses[s] <= 1

\* Only a link whose mail was accepted ever changes a password.
UndeliveredUseless == \A s \in Send : uses[s] > 0 => mailed[s]

\* A link that was revoked while its mail was on the way does not come back when
\* the delivery is recorded.
RevokedForGood == [][\A s \in Send : token[s].revoked \/ token[s].used => ~ Live(s)']_vars

\* Why they hold without the advisory lock: a request has no link before it writes,
\* and the one it delivers is PENDING until then; a link that was sent has been
\* mailed, and one that has changed the password is spent.
OwnLink ==
  \A s \in Send :
    /\ pc[s] \in {"new", "waiting", "locked"} => token[s] = NoToken /\ uses[s] = 0
    /\ pc[s] \in {"written", "mailing", "mailed"} => token[s].state = "PENDING"
    /\ pc[s] = "mailed" => mailed[s]
    /\ token[s].state = "SENT" => mailed[s]
    /\ uses[s] > 0 => token[s].used

AtMostOneLive == \A s, u \in Send : Live(s) /\ Live(u) => s = u

\* A transaction has read the rows that it revokes.
RevokesWritten == \A a \in Admin : \A s \in revoking[a] : token[s].state # "none"

IInv ==
  /\ LinksTyped /\ OwnLink /\ AtMostOneLive /\ RevokesWritten
  /\ UsedOnce /\ UndeliveredUseless

\* "Serialize reset delivery across commits": one issuance at a time between the
\* lock and the unlock.
InFlight == {s \in Send : pc[s] \in {"locked", "written", "mailing", "mailed", "ending"}}
Serialized == Cardinality(InFlight) <= 1
=============================================================================
