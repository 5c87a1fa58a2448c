------------------------------- MODULE Lockout -------------------------------
(***************************************************************************)
(* The lockout counter of one principal (app/security/lockout.py) and the  *)
(* login requests that read and write it.  A request reads the rows of its *)
(* principal, spends a while on the password hash and then writes what it  *)
(* computed from that reading; nothing locks the rows and nothing makes    *)
(* them unique.  The object-relational session is part of the behaviour:   *)
(* an object keeps the values it was loaded with, a second SELECT does not *)
(* refresh it, and a commit writes the columns that differ from them.      *)
(* Time is relative: a row knows the age of its first failure and how long *)
(* its lock will last.                                                     *)
(***************************************************************************)
EXTENDS Integers, Sequences, FiniteSets, FiniteSetsExt

CONSTANTS Requests,   \* concurrent logins and administrators
          Threshold,  \* LOCKOUT_THRESHOLD, ADMIN_LOCKOUT_THRESHOLD
          Window,     \* LOCKOUT_WINDOW in ticks
          Duration,   \* PORTAL_LOCKOUT_DURATION in ticks
          Rereads,    \* the portal reads the rows again before it counts a failure
          MaxFailed,  \* bound: highest counter
          MaxId,      \* bound: highest row id
          RecentCap   \* bound: how many failures the history keeps

LockoutAssumption ==
    /\ Threshold \in Nat \ {0}
    /\ Window \in Nat
    /\ Duration \in Nat \ {0}
    /\ Rereads \in BOOLEAN
    /\ {MaxFailed, MaxId, RecentCap} \subseteq Nat

VARIABLES rows,       \* committed rows: id -> row
          session,    \* what each request has loaded
          pc,         \* "idle", "verifying" or "unlocking"
          crowded,    \* requests that have met another one
          recent,     \* ages of the failures since the last clearing or crowded request,
                      \* the newest first
          complete    \* these are all the failures since the last clearing

vars == <<rows, session, pc, crowded, recent, complete>>

Never == -1
Row == [failed : 0 .. MaxFailed, age : {Never} \cup 0 .. Window + 1, left : 0 .. Duration]
Blank == [failed |-> 0, age |-> Never, left |-> 0]

NoRows == [i \in {} |-> Blank]
\* A session without objects: what it read, what it holds, the row it
\* inserted and the rows it will delete.
Fresh == [base |-> NoRows, obj |-> NoRows, own |-> {}, del |-> {}]

TypeOK ==
    /\ DOMAIN rows \subseteq 1 .. MaxId
    /\ \A i \in DOMAIN rows : rows[i] \in Row
    /\ pc \in [Requests -> {"idle", "verifying", "unlocking"}]
    /\ DOMAIN session = Requests
    /\ \A r \in Requests :
          /\ pc[r] = "idle" => session[r] = Fresh
          /\ DOMAIN session[r].base = DOMAIN session[r].obj
          /\ session[r].own \cup session[r].del \subseteq DOMAIN session[r].obj
    /\ crowded \subseteq Requests
    /\ recent \in Seq(0 .. Window + 1) /\ Len(recent) <= RecentCap
    /\ complete \in BOOLEAN

Init ==
    /\ rows = NoRows
    /\ session = [r \in Requests |-> Fresh]
    /\ pc = [r \in Requests |-> "idle"]
    /\ crowded = {}
    /\ recent = <<>> /\ complete = TRUE

----------------------------------------------------------------------------
LockIgnored(row) == row.left > Duration
is_locked(row) == row.left > 0

\* One row from several: the most failures, the oldest first failure, the
\* latest end of a lock.
MergeRows(R) ==
    [failed |-> Max({x.failed : x \in R}),
     age    |-> Max({x.age : x \in R}),
     left   |-> Max({x.left : x \in R})]

\* What a SELECT makes visible to a session: committed rows and its own.
Visible(s) == DOMAIN rows \cup s.own

\* Objects already in the session keep their values.
Load(s) ==
    LET known == DOMAIN s.obj
        Add(f) == [i \in known \cup Visible(s) |-> IF i \in known THEN f[i] ELSE rows[i]]
    IN  [s EXCEPT !.base = Add(@), !.obj = Add(@)]

HeadId(s) == Min(Visible(s))

\* The query and the merging of duplicates; the surviving row is the first.
get_lockout_state(s) ==
    LET l == Load(s)
        ids == Visible(s)
    IN  IF Cardinality(ids) < 2 THEN l
        ELSE [l EXCEPT !.obj[HeadId(s)] = MergeRows({l.obj[i] : i \in ids}),
                       !.del = @ \cup (ids \ {HeadId(s)})]

UsedIds == DOMAIN rows \cup UNION {DOMAIN session[r].obj : r \in Requests}
NewId == IF UsedIds = {} THEN 1 ELSE 1 + Max(UsedIds)

\* create=True: a row inserted by flush, invisible to others until the commit.
Created ==
    [Fresh EXCEPT !.base = [i \in {NewId} |-> Blank],
                  !.obj = [i \in {NewId} |-> Blank], !.own = {NewId}]

\* Counting that starts a new window with every failure.
AlwaysFirst(row) ==
    IF is_locked(row) THEN row
    ELSE [failed |-> IF row.age \in {0} THEN row.failed + 1 ELSE 1,
          age    |-> 0,
          left   |-> IF row.age = 0 /\ row.failed + 1 >= Threshold THEN Duration ELSE row.left]

record_failed_login(row) ==
    IF is_locked(row) THEN row
    ELSE LET expired == row.age = Never \/ row.age > Window
             n == IF expired THEN 1 ELSE row.failed + 1
         IN  [failed |-> n,
              age    |-> IF expired THEN 0 ELSE row.age,
              left   |-> IF n >= Threshold THEN Duration ELSE row.left]

\* Every visible row is reset; adding an object to the session takes back
\* its deletion.
clear_user_lockout(s) ==
    LET l == Load(s)
    IN  [l EXCEPT !.obj = [i \in DOMAIN @ |-> IF i \in Visible(s) THEN Blank ELSE @[i]],
                  !.del = @ \ Visible(s)]

----------------------------------------------------------------------------
\* UPDATE names the columns that changed in the session, no others.
Written(db, base, obj) ==
    [c \in DOMAIN db |-> IF obj[c] # base[c] THEN obj[c] ELSE db[c]]

Dirty(s) == {i \in DOMAIN s.obj \ (s.del \cup s.own) : s.obj[i] # s.base[i]}

\* A commit that updates a row someone has deleted fails as a whole.
Commits(s) == Dirty(s) \subseteq DOMAIN rows

Flushed(s) ==
    [i \in Visible(s) \ s.del |->
        IF i \in s.own THEN s.obj[i]
        ELSE IF i \in Dirty(s) THEN Written(rows[i], s.base[i], s.obj[i])
        ELSE rows[i]]

Finish(r) ==
    /\ pc' = [pc EXCEPT ![r] = "idle"]
    /\ session' = [session EXCEPT ![r] = Fresh]

Commit(r, s) ==
    /\ rows' = IF Commits(s) THEN Flushed(s) ELSE rows
    /\ Finish(r)

\* A request meets those that are under way when it begins.
Others(r) == {q \in Requests \ {r} : pc[q] # "idle"}
Meet(r) == crowded' = IF Others(r) = {} THEN crowded ELSE crowded \cup Others(r) \cup {r}

\* What a commit leaves of the history: a request that was alone adds its failure or
\* clears, one that was not makes it begin anew.
Remember(r, failures, all) ==
    /\ recent' = IF r \in crowded THEN <<>> ELSE failures
    /\ complete' = (r \notin crowded /\ all)
    /\ crowded' = crowded \ {r}

WithFailure ==
    [k \in 1 .. Min({Len(recent) + 1, RecentCap}) |-> IF k = 1 THEN 0 ELSE recent[k - 1]]

\* The lockout is examined first.  A locked principal is refused and the
\* merging is kept; otherwise the password is verified, without a lock.
BeginLogin(r) ==
    /\ pc[r] = "idle"
    /\ rows = NoRows => NewId <= MaxId
    /\ LET s == IF rows = NoRows THEN Created ELSE get_lockout_state(Fresh)
           state == s.obj[HeadId(s)]
       IN  \/ /\ is_locked(state)
              /\ Commit(r, s)
              /\ crowded' = crowded \cup Others(r)
           \/ /\ ~is_locked(state)
              /\ pc' = [pc EXCEPT ![r] = "verifying"]
              /\ session' = [session EXCEPT ![r] = s]
              /\ Meet(r)
              /\ UNCHANGED rows
    /\ UNCHANGED <<recent, complete>>

\* The session with which a failure is counted.
FailureSession(r) ==
    IF Rereads THEN get_lockout_state(session[r]) ELSE session[r]

\* The row the failure is counted in: the portal takes the first of the
\* second query, the administration keeps the object of the first.
FailureRow(r, s) ==
    IF Rereads THEN HeadId(s) ELSE Min(DOMAIN s.obj \ s.del)

FailLogin(r) ==
    /\ pc[r] = "verifying"
    /\ LET s == FailureSession(r)
           i == FailureRow(r, s)
           t == [s EXCEPT !.obj[i] = record_failed_login(@)]
       IN  /\ t.obj[i].failed <= MaxFailed
           /\ Commit(r, t)
           /\ Remember(r, WithFailure, complete /\ Len(recent) < RecentCap)

\* The right password: the counters are cleared in the same transaction.
SucceedLogin(r) ==
    /\ pc[r] = "verifying"
    /\ Commit(r, clear_user_lockout(session[r]))
    /\ Remember(r, <<>>, TRUE)

\* The right password of a blocked user: what was read is committed.
BlockedLogin(r) ==
    /\ pc[r] = "verifying"
    /\ Commit(r, session[r])
    /\ Remember(r, recent, complete)

\* A refusal that raises before the commit: no employment to sign in with,
\* an inactive instance, missing credentials.
RefusedLogin(r) ==
    /\ pc[r] = "verifying"
    /\ Finish(r)
    /\ crowded' = crowded \ {r}
    /\ UNCHANGED <<rows, recent, complete>>

\* unlock_user, set_user_password, update_user with a new e-mail, portal_reset
\* and delete_user read the rows, reset them and commit.
BeginUnlock(r) ==
    /\ pc[r] = "idle"
    /\ pc' = [pc EXCEPT ![r] = "unlocking"]
    /\ session' = [session EXCEPT ![r] = clear_user_lockout(Fresh)]
    /\ Meet(r)
    /\ UNCHANGED <<rows, recent, complete>>

CommitUnlock(r) ==
    /\ pc[r] = "unlocking"
    /\ Commit(r, session[r])
    /\ Remember(r, <<>>, TRUE)

----------------------------------------------------------------------------
Older(row) ==
    [row EXCEPT !.age = IF @ = Never THEN Never ELSE Min({@ + 1, Window + 1}),
                !.left = Max({@ - 1, 0})]

Tick ==
    /\ rows' = [i \in DOMAIN rows |-> Older(rows[i])]
    /\ session' = [r \in Requests |->
          [session[r] EXCEPT !.base = [i \in DOMAIN @ |-> Older(@[i])],
                             !.obj = [i \in DOMAIN @ |-> Older(@[i])]]]
    /\ recent' = [k \in DOMAIN recent |-> Min({recent[k] + 1, Window + 1})]
    /\ UNCHANGED <<pc, crowded, complete>>

Next ==
    \/ \E r \in Requests :
          \/ BeginLogin(r)
          \/ FailLogin(r)
          \/ SucceedLogin(r)
          \/ BlockedLogin(r)
          \/ RefusedLogin(r)
          \/ BeginUnlock(r)
          \/ CommitUnlock(r)
    \/ Tick

\* The clock goes on; nobody has to log in.
Spec == Init /\ [][Next]_vars /\ WF_vars(Tick)

----------------------------------------------------------------------------
Locked == \E i \in DOMAIN rows : rows[i].left > 0
\* The last n failures are at most a ticks old.
Within(n, a) == n \in DOMAIN recent /\ recent[n] <= a

\* A lock ends although people keep trying: attempts made during the lock
\* cannot prolong it, attempts under way when it began prolong it once each.
LockEnds == Locked ~> ~Locked

\* Failures that were counted one after the other lock, whatever requests had met
\* before them (duplicate rows, counters written back): Threshold of them at one
\* time, or the first Threshold since a clearing within a window.
FailuresLock ==
    /\ Within(Threshold, 0) => Locked
    /\ complete /\ Len(recent) = Threshold /\ recent[1] = 0 /\ Within(Threshold, Window) => Locked
=============================================================================
