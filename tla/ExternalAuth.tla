---------------------------- MODULE ExternalAuth ----------------------------
(***************************************************************************)
(* Signing in with one external provider (app/api/v1/external_auth.py and  *)
(* app/services/external_auth.py): OAuth transactions, the identities they *)
(* link to accounts and the one-time result of a login.  The tables carry  *)
(* the provider in every key, so one provider stands for each.             *)
(*                                                                         *)
(* A callback consumes its transaction under a row lock and commits, talks *)
(* to the provider, and completes in a second database transaction.  The   *)
(* fetch of a result reads the row without a lock and writes it later.     *)
(* Everything else is one database transaction and one step.               *)
(***************************************************************************)
EXTENDS Naturals, FiniteSets

CONSTANTS Employees, Admin,  \* the accounts
          Identities,        \* issuer and subject at the provider
          Callbacks, Fetches,\* concurrent requests of the two kinds
          MaxTxn             \* bound: transactions started

Accounts == Employees \cup {Admin}
Nobody == "nobody"

ExternalAuthAssumption == MaxTxn \in Nat /\ Admin \notin Employees /\ Nobody \notin Accounts

VARIABLES account,    \* employee -> state of the portal user
          identity,   \* identity -> the account it is linked to
          txn,        \* oauth_transactions: id -> row
          started,    \* transactions started
          callback,   \* the transaction a callback has consumed, as it read it
          fetch,      \* the transaction a fetch has read, 0 for none
          completed,  \* how often a transaction was completed
          delivered,  \* how often its result was handed out
          cancelled   \* transactions that an unlinking removed

vars == <<account, identity, txn, started, callback, fetch, completed, delivered, cancelled>>

Portal(a) == IF a = Admin THEN "admin" ELSE "employee"
Present(a) == a \in Employees => account[a] # "deleted"

NoCall == [id |-> 0, row |-> [purpose |-> "none"]]

Transaction ==
    [purpose : {"login", "link"}, portal : {"employee", "admin"}, target : Accounts \cup {Nobody},
     age : {"live", "expired", "old"}, consumed : BOOLEAN,
     result : {"none", "ready", "expired", "taken"}]

TypeOK ==
    /\ account \in [Employees -> {"active", "inactive", "blocked", "deleted"}]
    /\ identity \in [Identities -> Accounts \cup {Nobody}]
    /\ started \in 0 .. MaxTxn
    /\ DOMAIN txn \subseteq 1 .. started /\ txn = [t \in DOMAIN txn |-> txn[t]]
    /\ \A t \in DOMAIN txn :
          /\ txn[t] \in Transaction
          /\ txn[t].result # "none" =>
                txn[t].consumed /\ txn[t].purpose = "login" /\ txn[t].portal = "employee"
          /\ txn[t].target # Nobody => txn[t].purpose = "link" /\ Present(txn[t].target)
    /\ callback \in [Callbacks -> {NoCall} \cup [id : 1 .. started, row : Transaction]]
    /\ fetch \in [Fetches -> 0 .. MaxTxn]
    /\ {completed, delivered} \subseteq [1 .. MaxTxn -> Nat]
    /\ cancelled \subseteq 1 .. started

Init ==
    /\ account = [e \in Employees |-> "active"]
    /\ identity = [i \in Identities |-> Nobody]
    /\ txn = [t \in {} |-> Nobody]
    /\ started = 0
    /\ callback = [c \in Callbacks |-> NoCall]
    /\ fetch = [f \in Fetches |-> 0]
    /\ completed = [t \in 1 .. MaxTxn |-> 0]
    /\ delivered = [t \in 1 .. MaxTxn |-> 0]
    /\ cancelled = {}

underWay == <<callback, fetch, completed, delivered>>
Without(T) == [t \in DOMAIN txn \ T |-> txn[t]]
Linked(a) == \E i \in Identities : identity[i] = a

----------------------------------------------------------------------------
\* Rows an hour past their expiry are deleted, the new one is inserted.
start_transaction(purpose, portal, target) ==
    /\ started < MaxTxn
    /\ started' = started + 1
    /\ txn' = [t \in {u \in DOMAIN txn : txn[u].age # "old"} \cup {started'} |->
                  IF t \in DOMAIN txn THEN txn[t]
                  ELSE [purpose |-> purpose, portal |-> portal, target |-> target,
                        age |-> "live", consumed |-> FALSE, result |-> "none"]]
    /\ UNCHANGED <<account, identity, cancelled, underWay>>

login_start(portal) == start_transaction("login", portal, Nobody)

\* With the password verified again.
_start_link(a) ==
    /\ Present(a) /\ ~Linked(a)
    /\ start_transaction("link", Portal(a), a)

PendingLinks(a) == {t \in DOMAIN txn : txn[t].target = a /\ ~txn[t].consumed}

\* Unlinking that leaves what was started.
OnlyIdentity(a) ==
    /\ Present(a) /\ Linked(a)
    /\ identity' = [i \in Identities |-> IF identity[i] = a THEN Nobody ELSE identity[i]]
    /\ cancelled' = cancelled \cup PendingLinks(a)
    /\ UNCHANGED <<account, txn, started, underWay>>
_unlink(a) ==
    /\ Present(a) /\ Linked(a)
    /\ identity' = [i \in Identities |-> IF identity[i] = a THEN Nobody ELSE identity[i]]
    /\ txn' = Without(PendingLinks(a))
    /\ cancelled' = cancelled \cup PendingLinks(a)
    /\ UNCHANGED <<account, started, underWay>>

----------------------------------------------------------------------------
(* _handle_callback *)

Call(t) == [id |-> t, row |-> txn[t]]

\* Without the row lock a second callback may still read the row as unconsumed.
WithoutLock(c, t) ==
    /\ callback[c] = NoCall /\ t \in DOMAIN txn
    /\ txn' = [txn EXCEPT ![t].consumed = TRUE]
    /\ callback' = [callback EXCEPT ![c] = IF txn[t].age = "live" THEN Call(t) ELSE NoCall]
    /\ UNCHANGED <<account, identity, started, fetch, completed, delivered, cancelled>>
\* A callback for an expired transaction consumes it and fails.
consume_transaction(c, t) ==
    /\ callback[c] = NoCall /\ t \in DOMAIN txn
    /\ ~txn[t].consumed
    /\ txn' = [txn EXCEPT ![t].consumed = TRUE]
    /\ callback' = [callback EXCEPT ![c] = IF txn[t].age = "live" THEN Call(t) ELSE NoCall]
    /\ UNCHANGED <<account, identity, started, fetch, completed, delivered, cancelled>>

CallbackEnds(c) == callback[c] # NoCall /\ callback' = [callback EXCEPT ![c] = NoCall]

\* Cancelled or failed at the provider, or the token is not valid; the
\* refusals of a completion end here too.
CallbackFails(c) ==
    /\ CallbackEnds(c)
    /\ UNCHANGED <<account, identity, txn, started, fetch, completed, delivered, cancelled>>

\* The lookup by subject, the unique constraints and the foreign key.
MayLink(i, a) == identity[i] = Nobody /\ ~Linked(a) /\ Present(a)

\* The callback works with the transaction it read, not with the table.
_complete_link(c, i) ==
    LET call == callback[c]
    IN  /\ CallbackEnds(c)
        /\ call.row.purpose = "link" /\ MayLink(i, call.row.target)
        /\ identity' = [identity EXCEPT ![i] = call.row.target]
        /\ completed' = [completed EXCEPT ![call.id] = @ + 1]
        /\ UNCHANGED <<account, txn, started, fetch, delivered, cancelled>>

\* An employee must be active, not blocked and within a login window; the
\* result waits for the browser.  The administrator gets a session only.
_complete_login(c, i) ==
    LET call == callback[c]
        a == identity[i]
    IN  /\ CallbackEnds(c)
        /\ call.row.purpose = "login"
        /\ a # Nobody /\ Portal(a) = call.row.portal
        /\ a \in Employees => account[a] = "active"
        /\ txn' = IF a = Admin THEN txn ELSE [txn EXCEPT ![call.id].result = "ready"]
        /\ completed' = [completed EXCEPT ![call.id] = @ + 1]
        /\ UNCHANGED <<account, identity, started, fetch, delivered, cancelled>>

----------------------------------------------------------------------------
(* consume_login_result *)
ReadResult(f, t) ==
    /\ fetch[f] = 0 /\ t \in DOMAIN txn
    /\ txn[t].result = "ready"
    /\ fetch' = [fetch EXCEPT ![f] = t]
    /\ UNCHANGED <<account, identity, txn, started, callback, completed, delivered, cancelled>>

TakeResult(f) ==
    /\ fetch[f] \in DOMAIN txn
    /\ txn' = [txn EXCEPT ![fetch[f]].result = "taken"]
    /\ delivered' = [delivered EXCEPT ![fetch[f]] = @ + 1]
    /\ fetch' = [fetch EXCEPT ![f] = 0]
    /\ UNCHANGED <<account, identity, started, callback, completed, cancelled>>

----------------------------------------------------------------------------
(* Time and the administration of accounts. *)
Busy(t) == t \in {callback[c].id : c \in Callbacks} \cup {fetch[f] : f \in Fetches}

\* Requests are shorter than the hour after which rows are deleted, and a
\* result never lives that long.
Grow(t) ==
    /\ \/ /\ txn[t].age = "live"
          /\ txn' = [txn EXCEPT ![t].age = "expired"]
       \/ /\ txn[t].age = "expired" /\ ~Busy(t) /\ txn[t].result # "ready"
          /\ txn' = [txn EXCEPT ![t].age = "old"]
       \/ /\ txn[t].result = "ready"
          /\ txn' = [txn EXCEPT ![t].result = "expired"]
    /\ UNCHANGED <<account, identity, started, underWay, cancelled>>

SetAccount(e, s) ==
    /\ account[e] # "deleted" /\ s \in {"active", "inactive", "blocked"}
    /\ account' = [account EXCEPT ![e] = s]
    /\ UNCHANGED <<identity, txn, started, underWay, cancelled>>

\* ON DELETE CASCADE
delete_user(e) ==
    /\ account[e] # "deleted"
    /\ account' = [account EXCEPT ![e] = "deleted"]
    /\ identity' = [i \in Identities |-> IF identity[i] = e THEN Nobody ELSE identity[i]]
    /\ txn' = Without({t \in DOMAIN txn : txn[t].target = e})
    /\ UNCHANGED <<started, underWay, cancelled>>

Next ==
    \/ \E p \in {"employee", "admin"} : login_start(p)
    \/ \E a \in Accounts : _start_link(a) \/ _unlink(a)
    \/ \E c \in Callbacks :
          \/ \E t \in DOMAIN txn : consume_transaction(c, t)
          \/ CallbackFails(c)
          \/ \E i \in Identities : _complete_link(c, i) \/ _complete_login(c, i)
    \/ \E f \in Fetches : TakeResult(f) \/ \E t \in DOMAIN txn : ReadResult(f, t)
    \/ \E t \in DOMAIN txn : Grow(t)
    \/ \E e \in Employees : delete_user(e) \/ \E s \in {"active", "inactive", "blocked"} : SetAccount(e, s)

Spec == Init /\ [][Next]_vars

----------------------------------------------------------------------------
\* A state value works once: however many callbacks present it, one completes.
CompletedOnce == \A t \in 1 .. MaxTxn : completed[t] <= 1

\* An account has at most one identity at the provider, although two links
\* may have been started before either was completed.
OneIdentity == \A i, j \in Identities : identity[i] = identity[j] /\ i # j => identity[i] = Nobody

\* A link never points to a user deleted while the callback was at the provider.
NoOrphan == \A i \in Identities : identity[i] # Nobody => Present(identity[i])

\* A link that was started and not yet called back when its account was
\* unlinked does not link it again.
UnlinkCancels == \A t \in cancelled : completed[t] = 0

\* The result of a login is handed out once (docs/SSOT_CURRENT.md:643: the result for
\* the browser is single-use).  consume_login_result reads the row without a lock, so
\* that two fetches at a time are both handed it.
ResultOnce == \A t \in 1 .. MaxTxn : delivered[t] <= 1

----------------------------------------------------------------------------
\* A transaction that a callback may still complete has not been completed: it
\* is unconsumed, or one callback alone holds it.
Unfetched(t) == \A f \in Fetches : fetch[f] # t
Untouched(t) == completed[t] = 0 /\ delivered[t] = 0 /\ Unfetched(t)
Uncalled(t) == \A c \in Callbacks : callback[c].id # t

AsRead(call) ==
    call.id \in DOMAIN txn =>
        /\ txn[call.id].consumed /\ txn[call.id].result = "none"
        /\ txn[call.id].purpose = call.row.purpose /\ txn[call.id].portal = call.row.portal

CompletesLater(t) ==
    /\ completed[t] <= 1
    /\ t > started => Untouched(t)
    /\ t \in DOMAIN txn /\ ~txn[t].consumed => Untouched(t) /\ Uncalled(t)
    /\ t \in DOMAIN txn /\ txn[t].result = "none" => Unfetched(t)
    /\ t \in cancelled => completed[t] = 0 /\ t \notin DOMAIN txn /\ Uncalled(t)
    /\ \A c \in Callbacks : callback[c].id = t =>
          /\ Untouched(t) /\ AsRead(callback[c])
          /\ \A d \in Callbacks : callback[d].id = t => c = d

IInv == TypeOK /\ (\A t \in 1 .. MaxTxn : CompletesLater(t)) /\ OneIdentity /\ NoOrphan
=============================================================================
