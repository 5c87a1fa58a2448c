# Verification of the KájovoDagmar backend

TLA+ models of the attendance backend in `src/app` (and of one part of the browser client),
the TLC runs that check them on small instances, and TLAPS proofs of what matters most.
`PROJECT.json` maps each definition to the lines it models and lists runs, mutants,
findings, hazards and theorems.

## 1. The system

KájovoDagmar records attendance and shift plans of employments. A FastAPI backend
(several worker processes, synchronous handlers in thread pools) keeps all state in
PostgreSQL at READ COMMITTED. SQLAlchemy sessions do not autoflush, write only the columns
that differ from what they loaded, and give their pooled connection back at every commit.
Clients are the employee portal, the administration, an integration API for other systems,
the CML system that sends people over with signed assertions, a reminder loop inside the
backend and a monthly systemd job.

| component | state | operations | what makes it correct |
|---|---|---|---|
| time records (`attendance.py`, `admin_attendance.py`, `shift_plan.py`, `admin_shift_plan.py`, `integration.py`, `day_status.py`) | `attendance_events`, `attendance`, `shift_plan` | create, move, delete an event; add missing breaks; write a shift; set or clear an all-day status | one status or times per day, nothing outside the period, nothing changes in a locked month |
| time arithmetic (`time_intervals.py`, `attendance_events.py`) | none | pair events, insert automatic breaks, propose missing breaks | six-hour rule, every loop ends, pauses inside recorded intervals, repetition is harmless |
| daily metrics (`daily_metrics.py`, `month_summary.py`, `time_metrics.py`) | `employment_daily_time_metrics` | rebuild the months a mutation touched | rows equal what the calculation would return now |
| month locks (`locks.py`, `admin_locks.py`, `shift_plan_auto_lock.py`) | `attendance_locks`, `shift_plan_locks`, `shift_plan_auto_lock_runs` | lock, unlock, monthly automatic lock | locks bind every writer; one automatic run per month; the job ends |
| employments (`admin_employments.py`, `employment_access.py`) | `employments` | create, edit period and profile, delete with confirmation | facts follow the period; no orphan |
| employment groups (`employment_groups.py`) | `employment_groups`, `employment_group_members` | create, rename, replace, remove, delete | at least two members |
| portal users and reset links (`admin_users.py`, `portal_credentials.py`, `portal_auth.py`) | `portal_users`, `portal_user_reset_tokens`, signed session cookies, instance tokens | log in, claim, block, deactivate, set password, issue and redeem a link, delete | one usable link, used once, never revived; old sessions and tokens die for good |
| login lockout (`lockout.py`) | `auth_lockout_state` | count failures, lock, unlock | failures counted one after the other lock; a lock ends |
| external sign-in (`external_auth.py` twice) | `oauth_transactions`, `external_identities`, a process-wide key cache | start, callback, link, unlink, fetch the result, look a key up | a state value completes once; links respect unlinking and deletion; genuine tokens pass |
| integration clients (`admin_integrations.py`, `integration_tokens.py`, `integration_scope.py`) | clients, secrets, data scope, audit log | create, rotate, revoke, expire, edit, authenticate, read page by page | a recalled secret stops working; the scope is the one granted last; pages are complete |
| CML entry (`cml_web.py`, `cml_assertion.py`, `cml_profiles.py`) | `cml_web_nonce`, `cml_profile_provision` | verify an assertion, provision a profile | an assertion works once, one profile per person |
| reminders (`attendance_reminders.py`) | `attendance_reminder_events`, an advisory lock | find due reminders, mail, record | each attempt once, in order; what is due is sent before the day ends |
| plan cells of the web client (`EmployeePage.tsx`, `ClockInput.tsx`, `usePendingPlanWrites.ts`) | drafts, pending writes, the cached month | type, leave a cell, save, read the month again | what was confirmed stays stored; a day becomes editable again |
| offline queue (`offlineQueue.ts`) | IndexedDB queue | queue, flush | not part of the running program: only its own test imports it |

Components meet in five places. Every writer of time records takes the row lock of the
employment and then of its user, re-reads both and works in one transaction; locks and
employments are read under it and metrics are rebuilt in it. Deleting an employment or a
user removes rows of every other component, by code or by `ON DELETE CASCADE`. Blocking a
user or changing a password revokes links, tokens and lockouts together. Advisory locks
serialise the reset mail, the reminder run and the provisioning of profiles. The rest of
the administration (clients, lockout, external sign-in) reads without a lock and relies
on unique keys, on row locks at single statements, or on nothing.

The hard parts are listed under `hazards` in `PROJECT.json`, at the line where each
bites: which of twelve writers forgets which check, sessions across midnight and month
ends, repeated requests, reads before a lock, transactions spread over a slow mail, hash
or provider, connections that change under a session-level lock, crashes between a mail
and its record, cascades that skip the code, answers stored in the wrong order, locks
taken crosswise.

## 2. Modules

| module | models |
|---|---|
| `TimeIntervals` | `time_intervals.py` and `attendance_mutations.py` as closed forms over sets of minutes |
| `TimeRecords` | every writing handler of the time records, month locks, employments and users; extends `TimeIntervals` |
| `BreakSegments` | the loops of `break_segments` and `automatic_break_events`, compared with the closed forms |
| `MissingBreaks` | the loops of `missing_break_event_groups` and the inserting request, repeated |
| `TimeMetrics` | the hours of a month: minutes by kind, rounding, credited days, holidays, storing and reading back; compared with counting minute by minute |
| `PlanGuard` | what month locks promise, as atomic operations (abstract) |
| `AutoLock` | plan writers, the administrator's locks and the monthly job as interleaved transactions; implements `PlanGuard` |
| `EmploymentGroups` | group membership against spread-out deletions and cascades |
| `Lockout` | the counter of failed logins, with the object-relational session that reads and writes it |
| `PortalSession` | logins, cookies, bearers and every change of the account |
| `ResetIssuance` | reset links: issuing over a pool and an advisory lock, account changes, redeeming |
| `ExternalAuth` | OAuth transactions, linked identities, one-time results |
| `ProviderKeys` | the cache of the provider's signing keys under several threads |
| `Reminders` | reminder runs of several workers, their mails, records, faults and pooled connections |
| `IntegrationClients` | status and secrets of an integration client |
| `IntegrationScope` | the data a client may see, while it is edited and its members disappear |
| `Pagination` | a walk over pages while rows come, go and move |
| `CmlNonce` | freshness and single use of signed assertions |
| `CmlProfiles` | creation of profiles under two advisory locks, with retries and crashes |
| `PlanCell` | the two cells of a plan day in the browser, saves and re-reading |
| `Accounts`, `BackgroundJobs`, `Clients` | the protocols of one area side by side, for any constants |
| `Arithmetic` | `BreakSegments` beside `MissingBreaks` and `TimeMetrics`, likewise |
| `TimeIntervalsProofs`, `BreakSegmentsProofs`, `ArithmeticProofs`, `TimeRecordsProofs` | theorems about the times, the hours and the time records |
| `AccountsProofs`, `ExternalAuthProofs`, `BackgroundJobsProofs`, `ClientsProofs` | theorems about the protocols, stated of the area modules |
| `MCTimeRecords`, `MCArithmetic`, `MCEmploymentGroups`, `MCAccounts`, `MCJobs`, `MCClients` | values of the constants for TLC |
| `MCProgress` | smaller instances of the protocols whose liveness is checked, with fairness |

**Side by side.** The protocols of an area share no state: no action of one reads or writes
a variable of another. Their product would only multiply the states, so an area module
starts in any one of them (`part`) and stays there; the variables of the others keep an
initial value. A property of the area module is the component's own (`Reset!OneLiveLink`),
and where two of them say one thing about the code, their conjunction. The MC module gives
the constants their values and, for TLC, fixes the initial state of the protocols that are
not in `part`; the theorems are about the area module itself. A fairness condition carries
its `part`, so that it demands nothing of the other protocols.

**TimeIntervals.** An instant is a number of wall-clock minutes, 1440 to the day. The
events of an employment are a *set* of instants, because the table has a unique
constraint on `(employment_id, occurred_at)` and every algorithm sorts first. The
`while` and `for` loops of the source are given in closed form (`break_count`,
`WorkedAfter`, `Sessions`, `placement`); `BreakSegments` and `MissingBreaks` run the
loops themselves and compute these forms; it is proved for every duration and every finite
set of times.

**TimeRecords.** One action is one committed request. This is sound for one employment
because each handler starts with `lock_employment_for_time_mutation` and re-reads under
it; a refused request rolls back and is a stuttering step. The one writer that takes no
employment lock, the monthly job, is the subject of `AutoLock`. The three event operations
exist three times (portal, administration, integration) and are three times an action:
they share `InsertTime`, `InsertInterval`, `MoveEvent` and `RemoveEvents`, and differ in
their guards. `UpsertShiftPlan` and `UpsertDayStatus` serve the portal and the
administration; `PortalUpsertDayStatus` is the narrower status request of the plan page.
A metric row is abstracted to what it was computed from (the day, the metric profile, the
intervals), which is exactly what staleness depends on. A month is abstract: `MonthOf`
is any non-decreasing map of days.

**TimeMetrics.** What `TimeRecords` leaves out of a metric row. A day is its proleptic ordinal,
as in `datetime.date`. Synchronising writes a row for every day of the month, and only if the
month has facts; reading fills the missing days with zeros, or with nothing on a profile
without hours. The reference counts the minutes of the month one by one and takes Easter from
the epact, where `czech_holidays.py` uses the closed formula.

**MissingBreaks.** Loop by loop: intervals join sessions in the order of their starts, sessions
are looked at one after another, each pause is placed by a scan of the session's intervals. The
sorted lists of the source are sets of intervals from which the first is taken (`FirstOf`); the
intervals of a set of times never overlap, so their starts order them.

**AutoLock and PlanGuard.** A writer locks its employment, checks the month, writes and
commits, four steps; the administrator locks the employments of his request one by one in
the order of their ids; the job reads the open employments without a lock and then updates
and inserts lock rows one by one, waiting where PostgreSQL makes it wait (an inserted row
shares the key of its employment, an updated one is locked until the commit), failing as a
whole where a key is gone or taken, and losing a deadlock when it is chosen. The refinement
(`RefinesPlanGuard`) maps the committed tables to the four variables of `PlanGuard`: steps
before a commit stutter, a commit is one atomic operation. It is what allows `TimeRecords` to
treat handlers and job as atomic.

**EmploymentGroups.** A request about one group is one step under the group's row lock.
`delete_employment` is five kinds of step: lock the employment, read the group list
without a lock, leave each group, commit; it may fail when a group is gone, or lose a
deadlock. Inserting a member waits for an employment that is being deleted, as the
foreign key's key-share lock does.

**Lockout.** A login reads the rows of its principal, spends time on the password hash, and
writes what it computed from its reading. The session is modelled: an object keeps the
values it was loaded with, a second `SELECT` does not refresh it, a commit writes the columns
that differ, a row deleted meanwhile makes the commit fail. `Rereads` tells the portal, which
looks the rows up again before counting, from the administrator's login, which does not. Time
is relative (ages), so a behaviour may be infinite while its states are finite. The history
`recent` keeps the ages of the failures since the last clearing or since the last request that
met another one (`crowded`); `complete` says that nothing was left out of it.

**PortalSession.** Hashes are salted, so each has an identity; a cookie carries the tag of one.
A login is three steps: load and verify, commit, make the cookie. A change of the account
(password, blocking, activation) is three as well: it loads the user, loads the instance, and
its commit writes the columns that differ from what was loaded (`Column`). A revocation that
loaded an instance without a bearer therefore writes nothing, and a claim may have come in
between. `portal_reset` holds the row of the user from its load to its commit.

**ResetIssuance.** Statement by statement where another request can come between:
checkout of a connection, advisory lock, first commit, mail, second commit, unlock. The
connection pool and PostgreSQL's advisory locks are external and modelled from their use:
first-in-first-out pool, a lock owned by a connection and re-entrant on it, an unlock
elsewhere that does nothing.

**ExternalAuth, ProviderKeys.** A callback consumes its transaction under a row lock and
commits, is away at the provider, and completes in a second transaction; unlinking, deletion
and other callbacks come in between. A fetch of a login result is a read and a later write.
The key cache is guarded per access and not across a fetch, so two threads store their answers
in any order; an answer shows a set the provider published while the request was under way.

**Reminders.** One kind of reminder for one day, sent by a thread of each worker. The advisory
lock lies on the connection it was taken on; each commit gives the connection back and the next
statement takes the one that has been idle longest, so the unlock may miss. A pool that has
opened more connections than it keeps closes what is given back beyond them, and with it the
lock; `drops` counts the runs that go on without theirs. Faults are crashes between any two
steps and mails that are accepted although the answer is lost. A refused address ends the run of
everybody behind it until it is corrected. A run takes the employments in any order (the query
has no `ORDER BY`), each with its attempts in turn. After midnight nothing of the day is due,
although a run that has begun goes on.

**IntegrationClients, IntegrationScope, Pagination.** Every administrative request is a read
and a later write of the columns that differ from that read, and the requests of several
administrators overlap. The scope predicate is evaluated
on what exists at the time: employments and users disappear from under a selection. A page is
the first `Limit` rows after the cursor, with nothing kept on the server between pages.

**CmlNonce, CmlProfiles.** Copies of an assertion are verified against the clock and then wait
for a thread and a connection, without any bound; each use deletes old nonces by *its own* issue time. A
provisioning request takes its two advisory locks in the order of their numbers, re-checks and
writes user and receipt in one transaction; CML repeats requests, workers fail at any step, and
administrators create and delete users meanwhile.

**PlanCell.** A day has two stored times and two cells; one stored time alone is shown in the
first cell. Leaving a changed cell sends both times, the other one as the page knows it; the day
is read-only until the reading of its month has ended. Answers may be lost, a save refused, a
reading fail on its retry too (the page goes on with the old data and the day is editable again),
and the server may store a save after the browser has given it up. Other days are saved at the
same time. `confirmed` is what the user was told is stored, `unread` the cells whose confirmed
save the page has not read back. What TanStack Query does with a query that is invalidated while
it is being fetched is external and modelled from its use.

## 3. Runs

| run | instance | question |
|---|---|---|
| `records` | 1 employment, 2 days in 2 months; three kinds of histories (`MCBound`): 2 times a day and whole shifts in an unlimited period; 1 time a day and draft shifts under 4 periods, one of them reversed, 4 profiles and an owner who comes and goes; a night session across the month end, automatic breaks on and off | can any order of requests mix a status with times, leave a metric stale, change a locked month (a neighbour's, too), leave facts outside the period, or write for an inactive owner? |
| `arithmetic` | every duration from 0 to 1440 minutes; every subset of 8 times of a day and of 6 times of a night, 2 requests; months around Easter 2024 (across two months) and 2025 (inside one) with every subset of 6 times, 4 profiles; every year from 1951 to 2150 | do the loops end, obey the rule and match the closed forms; does one due break settle the session; are the hours of a month its minutes, and the stored ones the computed ones? |
| `accounts` | lockout: 2 requests, threshold 3, window and lock of 2 ticks; sessions: 1 login, 2 changes, 3 hashes, 2 bearers; reset: 2 issuing requests, 1 administrator, 2 browsers, 2 connections; sign-in: 2 employees and the administrator, 2 identities, 2 callbacks, 2 fetches, 2 transactions; keys: 2 threads, 2 keys | do failures lock; do old credentials stay dead; one usable link, used once; one completion, links that respect unlinking; is a genuine token ever refused? |
| `jobs` | locks: 2 employments, a writer, an administrator, 2 executions of the job; reminders: 2 workers with a pool of 1 connection and 1 of overflow, 2 employments, 2 attempts, 1 fault; groups: 3 employments of 2 users, 2 groups | do the transactions amount to `PlanGuard`; how often and in which order are reminders mailed; does a deletion miss a membership or strand a group? |
| `clients` | 2 administrators, 3 secrets, 2 switchings off; 2 employments of 2 users, 3 updates; 4 events at 2 times, pages of 2 and of 1; 2 assertions in 2 copies; 2 workers, operations, persons and addresses; 2 days, 3 edits | what partners, CML and the browser rely on |
| `progress` | smaller instances of lockout (2 requests, portal and administrator), reminders (1 refused address), locks, pages, profiles and cells | what must happen in the end |
| `breaks_repeated` | one long day, 2 requests | violation: the request is not idempotent |
| `reset_serialized` | 2 issuing requests, 2 connections | violation: the advisory lock does not serialise |
| `groups_size` | 3 employments of 2 users, 2 groups | violation: `delete_user` leaves small groups |
| `session_password` | 1 login, 1 change | violation: a login writes the old password back |
| `bearer_survives` | 1 change, 1 bearer | violation: a bearer claimed during a revocation survives it |
| `result_twice` | 1 sign-in, 2 fetches | violation: both fetches receive the result |

*Bounds.* Two days that are two months are enough for every rule of `TimeRecords`, which
relates a day to its month and to one neighbour; two times a day allow a pair to appear,
move and vanish, and the theorems below cover every other size. The night stops after
one inserted pause: it is about where the first one lands. A day has 1440
minutes, so the split of a presence is exhaustive for intervals, which never cross midnight.
The times of the missing breaks lie on both sides of the six-hour marks and of the
thirty-minute gap; those of the months lie on both sides of midnight, of 6:00, 14:00 and 22:00,
and off the multiples of six minutes, so that rounding goes both ways. Two requests of each kind give every pairwise interleaving; three members
let two deletions meet in a group that one of them alone would not dissolve. The lockout
window is shorter than the threshold, so that failures can straddle its end. The clock of
`CmlNonce` runs past the deletion of the first nonce, with time left for a copy that has waited.
`Rank` of `CmlProfiles` makes operations and persons alternate, which is where locking in the
order of the arguments would deadlock. Two fields in three edits let a save of one field meet the
answer for the other. Three constraints keep the products small (what they leave out
is covered by the theorems of section 6, which do without them): one browser session at a time (sessions do not meet), web requests in the pool of one
of the two workers (a pool of one and its overflow suffice to close the lock's connection, and
the other worker is the one that then starts a second run), and at most two users or employments
out of service and one given-up save at the server. Requests that change an account, threads
that share the key cache and administrators are interchangeable; TLC uses that symmetry, and none
in `progress`.

*Deadlock* is not checked where the model may really stop: the calendar, the fresh
identifiers, the edits and the clocks run out, requests end, and a leaked advisory lock blocks
for ever. What may not stop is a liveness property of `progress`.

*Fairness.* `arithmetic`: a call of `break_segments` that has started is executed to its end by its thread.
`progress`, each for its own part:

- lockout: time passes (`WF` of `Tick`); people may try or stay away, so logins have none;
- reminders: the thread of a worker tries again every minute, a started run goes on, web
  requests give their connections back, time passes. Requests need not stop coming, so a
  connection with the leaked lock on it may stay out of reach of the thread; and nothing makes
  anybody correct an address that the mail server refuses, which may stop every run before the
  others' turn. `DueIsSent` therefore presupposes `<>[]Quiet`, web requests that leave the pools
  alone from some time on, and `<>(refused = {})`, and its outcome includes the end of the day,
  after which the code drops what is left;
- locks: writers and the administrator go on once started (`WF`); waiting for a row is `SF`,
  because PostgreSQL grants row locks to waiters in turn although others take the row again and
  again; a deadlock is broken (`WF`);
- pages: the partner asks for the next page;
- CML: a request that can go on does (`WF`), an advisory lock is granted in turn (`SF`);
- cells: every request of the browser ends, with an answer or a failure.

Each property of a passing run has a mutant in `PROJECT.json`: a plausible slip in one
mapped definition for which TLC reports that property.

## 4. Findings

- **"Add missing breaks" is not idempotent.** `docs/SSOT_CURRENT.md:553` and `README.md:40`
  say it is. Pauses are aimed at multiples of 360 minutes from the session's start and may
  fall into a place that changes pairing or shares minutes with another pause, so that a
  second request sees a different session. For sessions that need at most one break the
  claim is true (`OneBreakSettles`, proved for every set of times).
- **Issuing of reset links is not serialised.** The session-level advisory lock of
  `reset_issuance_lock` stays on the pooled connection that the first commit gives back. The
  safety of the links does not depend on it: `OneLiveLink`, `UsedOnce` and `RevokedForGood` hold
  in the same model, thanks to the user's row lock and the revocation in the first transaction.
  `attendance_reminders.py` uses the same pattern; there the consequences are in section 5.
- **Deleting a user leaves groups with fewer than two members**, against
  `docs/SSOT_CURRENT.md:421`; `delete_employment` cleans up, `delete_user` does not.
- **A login can undo a password change.** When the stored hash has outdated parameters, the
  login writes a new hash of the password it verified, without a lock and without comparing; a
  change committed in between is overwritten with the old password (`portal_auth.py:177`).
- **A bearer can survive its revocation.** `revoke_instance_credential` sets `token_hash` on an
  instance loaded earlier. If it had no bearer then, nothing is written, and a bearer claimed
  before the commit is accepted after the password change, the deactivation or a blocking that
  is lifted again, against `docs/SSOT_CURRENT.md:608`. What does hold is `OldCredentialsDie`.
- **The result of a sign-in can be handed out twice.** `consume_login_result` reads the row
  without a lock; two concurrent fetches both pass its check, against
  `docs/SSOT_CURRENT.md:643`. That a state value completes once (`CompletedOnce`) does hold.

## 5. What the properties do not say

No instance of a passing run, and no hypothesis of a theorem, removes a case that the code can
meet: several administrators, logins and fetches overlap, pools overflow, requests wait, readings
fail. Where the code does not keep a promise in some of these cases, the property itself excludes
the case, in its formula and in its comment. The first table lists the cases in which the
documentation promises more than the code keeps; each of them is reachable in the model, and
dropping the excluding conjunct makes TLC show it.

| documentation | what the code does | property, and what it excludes | source |
|---|---|---|---|
| `SSOT_CURRENT.md:601`: three failures within an hour lock the account | the window is anchored at its first failure and starts anew with the first one after it, so up to two thresholds less one fit into an hour across its end | `FailuresLock` speaks of a threshold of failures at one time, or of the first ones since a clearing | `lockout.py:110` |
| the same | two failures at the same time read one counter and count as one; merging duplicate rows, or a login under way, can take a lock back | `FailuresLock`: failures of requests that met another one are not in its history | `lockout.py:114`, `:54` |
| `SSOT_CURRENT.md:366`: one secret in use | two rotations that overlap leave two | `SecretsSound` speaks of secrets issued when the rotation or revocation *read* the client | `admin_integrations.py:583` |
| `SSOT_CURRENT.md:562`: workers send no duplicates | a pool that overflowed closes the connection with the lock; the run goes on, another worker starts one, and both mail | `OnceInOrder` allows one more mail for every such closing (`drops`), beside crashes and lost answers | `attendance_reminders.py:148` |
| docstring of `CmlWebNonce`: single-use requests | a copy that waits more than 20 seconds between verification and table (30 are allowed for a connection alone) may find its row deleted | `SingleUse` speaks of copies that arrive within `Grace - Ahead + 1` of their verification | `cml_web.py:51` |
| `SSOT_CURRENT.md:451`: a confirmation waits for the canonical reading | a reading that fails resolves all the same: the save is confirmed, the day editable, and its next save sends the other time from the old data | `ConfirmedStays` takes the promise back when such a day is edited before it was read back; `ShowsKnown` leaves out the cell that still shows what was typed (`unread`) | `EmployeePage.tsx:545` |
| the same | a save that the browser gave up may be stored after a later one | `ConfirmedStays` takes the promise back when that happens | `shift_plan.py:315` |

The other limits are the code's own and contradict no document.

| property | says nothing of | source |
|---|---|---|
| `OldCredentialsDie` | a login with the old password that is under way at the change: the tag of its cookie is read after the commit, so it gets one of the new hash | `portal_auth.py:187` |
| `OldCredentialsDie` | cookies of a deactivated user: only the password and the blocking are looked at | `deps.py:142` |
| `RevokedForGood` | a link whose delivery is recorded between the look-up of `block_user`, which takes no user lock, and its commit | `admin_users.py:512` |
| `LastWins` | two updates that overlap: they mix their columns, and the row is neither payload until the next update | `admin_integrations.py:567` |
| `SecretsSound` | a disabling that read the client as off while another request opened it: it writes nothing, and the client stays open | `admin_integrations.py:619` |
| `DueIsSent` | a day on which web requests keep the connection with a left-over lock, or a refused address stays refused: either may keep every due attempt of that day from being sent | `attendance_reminders.py:244` |
| `OnceInOrder` | the distance: after an outage the attempts of a series are mailed in one burst | `attendance_reminders.py:240` |
| `RefinesPlanGuard` | a job that fails: one employment deleted or locked meanwhile fails the insertion and with it the whole run; an employment whose period was changed meanwhile is locked outside it | `shift_plan_auto_lock.py:54`, `:77` |
| `ReceivedOnce` | an event that moved: behind the cursor it is missed, ahead of it it is sent again | `integration.py:386` |

## 6. Proofs

Every theorem holds for all values of the constants that satisfy the named assumptions: any
calendar, any number of employments, users, workers, requests, connections, rows. TLC evaluates
the assumptions in the runs. They give the constants their types and exclude no behaviour of the
code; no theorem has a hypothesis beyond them. What a property leaves out, it leaves out in its
own formula (section 5). `Reminders` assumes finitely many workers, `Arithmetic` that stored
times are a finite set of minutes, that a shift lies in its day and, with the table's constraint,
that the afternoon starts before the night, at 22:00.

| module | theorem | states |
|---|---|---|
| `TimeRecordsProofs` | `TypeCorrect` | `[]TypeOK` |
| | `Exclusivity` | `[]DayExclusive` |
| | `PeriodIntegrity` | `[]FactsInPeriod` |
| | `MetricsAreFresh` | `[]MetricsFresh` |
| | `AttendanceFrozen`, `PlanFrozen` | `LockedAttendanceFrozen`, `LockedPlanFrozen` (action properties) |
| | `DormantReadOnly` | `InactiveReadOnly` (action property) |
| `TimeIntervalsProofs` | `MissingBreaksInside` | every proposed pause lies inside a recorded interval |
| `BreakSegmentsProofs` | `SplitIsLegal` | `[]SegmentsLegal` |
| | `SplitIsClosedForm` | `[]MatchesClosedForm`: the loops compute the closed forms |
| `ArithmeticProofs` | `LoopsMatchReference` | `[]MatchesReference`: also the loops of `missing_break_event_groups` compute the closed form, and the hours are the counted minutes |
| | `HoursAreCounted` | the part about the hours, credits and Easter alone |
| | `RowsAreTheCalculation` | `[]StoredAsComputed` |
| | `SecondRequestFindsNothing` | `OneBreakSettles` (action property) |
| `BackgroundJobsProofs` | `TransactionsAreAtomic` | `RefinesPlanGuard` (refinement) |
| | `DeletionMissesNothing` | `[]NoLateMembership` |
| | `GroupsShrinkToTwo` | `[]ShrinksToTwo` |
| | `RemindedOnceInOrder` | `[]OnceInOrder` |
| `AccountsProofs` | `CredentialsDie` | `[]OldCredentialsDie` |
| | `CachedKeysSound` | `[]KeysSound` |
| | `AtMostOneLink`, `LinkUsedOnce` | `[]OneLiveLink`, `[]UsedOnce` |
| | `LinksStayDead` | `RevokedForGood` (action property) |
| `ExternalAuthProofs` | `LinksAreSound` | `[]LinksSound` |
| | `CallbackCompletesOnce` | `[]CompletedOnce` |
| `ClientsProofs` | `AssertionSingleUse` | `SingleUse` (action property) |
| | `SecretsAreSound` | `[]SecretsSound` |
| | `LastScopeWins` | `[]LastWins` |
| | `RowsReceivedOnce` | `[]ReceivedOnce` |
| | `ConfirmedTimesStay` | `[]ConfirmedStays` |
| | `CellsShowKnown` | `[]ShowsKnown` |
| | `ProvisionedOnceOnly` | `[]ProvisionedOnce` |
| | `OwnProfileIsFound` | `OwnProfileNoConflict` (action property) |

Almost none of these properties is inductive. Each component's module states, as `IInv`, the
facts that make it so, and the proof module shows one lemma per action that keeps them.

- **Time records.** `IInv` is the conjunction of the four invariants; the last three need each
  other. An update that keeps period and profile rebuilds no metrics, which is right only
  because no fact lies outside the period; clearing a status keeps a shift, which is right only
  because a status and a shift never coexist; a month without a changed day keeps its rows,
  which is right only because they were fresh. `Good(e)` restates the three per employment and
  `StepSafe` joins the lemmas. The action properties use `IInv` in both states of a step:
  rows are fresh before and after, so equal facts mean equal hours. Every handler must be shown
  to look at the lock of *every* month it writes, pauses that land in a neighbouring month
  included.
- **Times.** `SplitPairChangesDay` is the heart of the event handlers: if two sets of times give
  different pairs on some day, then `changed_event_days` reports that day. `MissingBreaksInside`
  and `AutomaticBreaksInside` put every pause inside a recorded interval, hence on a day that
  has events and no status. `BreakSegments` needs one invariant per loop: the search has refused
  every smaller number (`Searched`), the segments given out are differences of `WorkedAfter` and
  `remaining_work` is what is left (`Divided`), the walk is at the end of the last break
  (`Walked`). All of them are linear facts, from `b + 1 <= T <= 360 (b + 1)` for the work `T` and
  the number `b` of breaks. That proof closes the gap between the loops and the closed forms with
  which the time records are proved.
- **Hours.** The sums of `TimeMetrics` are recursive functions on finite sets. `SumsExist` and
  `SumsAgree` show that such a function exists and is unique, by taking the smallest
  cardinality for which it would fail; `OneByOne` does the same for a property of a set that
  grows by one element, which is all the induction the proofs need. `SumOfCounts` then says that
  summing the sizes of disjoint sets counts their union, so that the clipped overlaps of
  intervals with days, shifts and nights (`OverlapCounts`, `NightCounts`) add up to the minutes of
  the month, and `SumOfTenths` carries the rounding. Easter (`EasterAgrees`) is linear arithmetic
  on century, year of the century and their parts (`YearParts`). `RowsStored` says what the rows
  are at each stage; a month without facts has none and reads back as the zeros the calculation
  returns (`EmptyDay`).
- **Missing breaks.** One invariant per loop: the intervals not in `ordered` are the first ones
  and form the sessions of the closed form (`Grouped`), the sessions no longer in `sessions` have
  given exactly their groups (`LookedAt`), the pauses placed so far are those of the closed form
  and their minutes are paid (`Placed`), and the scan holds the best place among the intervals it
  has left behind (`Scanned`). `OneMore` is the step of the first: an interval later than all
  others joins the last session or opens one. `GapsCounted` turns the sum of the gaps into
  the uncovered minutes of the session. The times need only be a finite set of minutes.
- **Repetition.** `PairsSplit`: two times inside an interval cut it in two and leave all other
  pairs as they were, for any number of intervals at once. A session of the new times therefore
  lies within one of the old (`SessionFrom`). If that one was not cut, it is the same session
  (`UncutStays`) and still does not qualify; if it had a pause already, the inserted one is shorter
  than half an hour, the session stays one and has its thirty minutes (`ShortPauseSettles`); if it
  had none, it was a single interval, since no interval begins where another ends
  (`PairsSeparate`), and its two parts last six hours at most (`LongPauseEnds`). With two or more
  breaks due, several pauses may fall into one interval or share minutes: none of these cases
  applies, and the property fails (section 4).
- **Plan locks.** `RowLocksExclude` (no two transactions on one employment row), `ChecksHold`
  (what a writer checked under its row lock is still so) and `JobsReadHolds` (inserted rows have
  their employment, and the lock rows the job read still lock unless they are marked as gone).
  Every step before a commit is a stutter of `PlanGuard`, every commit one of its operations.
- **Groups.** `HoldsGroups`: who removes an employment from a group holds the group's row, and a
  membership cannot appear for an employment whose deletion has locked it. Sizes are compared
  with two only, so the proof speaks of two different members.
- **Reminders.** Runs may overlap, so mails are counted. A run that goes on while the lock is on
  no connection of its worker (`Detached`) has lost it with a closed connection, and there are at
  most `drops` of them (`DropsCounted`); one worker at most runs with the lock. An attempt that is
  not recorded has been mailed at most once for every fault and every run that is about to record
  it; the mails of an attempt and the runs that still have it before them are together at most
  one more than faults and drops (`MailsCounted`). A run that starts without another adds one
  to the runs; every other way to a second one has been paid for by a drop. `TodoOpen` (no attempt
  of a run lacks the one before) and `InOrder` carry the order. A layer below, `PoolsInv` says that
  a connection is in one place: in the pool, in the thread's hand, or in a web request.
- **Accounts.** The stored hash is the newest, and a cookie from before a change carries an older
  one (`TagsAge`); the stored bearer is newer than any that a committed revocation had before it,
  and a revocation under way that loaded none knows of none that is stored (`BearerIsNew`). A request
  has no link before it writes, and the one it delivers is pending until then (`OwnLink`); two
  links are never live together (`AtMostOneLive`); a transaction revokes only rows that exist
  (`RevokesWritten`). None of this mentions the advisory lock, which is why its failure to
  serialise does no harm. A cached key set shows what was published at some time since its
  request began (`AnswersAreRecent`, `CacheIsRecent`).
- **External sign-in.** Until the callback that consumed a transaction completes it, the
  transaction is as that callback read it, and nobody has completed it
  (`CompletesLater`); the unique keys hold (`OneIdentity`, `NoOrphan`).
- **Clients.** An accepted assertion has its nonce row, or is too old for any request that has
  waited no more than `Grace - Ahead + 1` (`SpentOrExpired`, with `VerifiedFresh`). Of the secrets
  that existed when a request read the client, only those it read are still in use, and a client
  that is active though nobody opened it since was read as active (`ReadsEnough`). A scope update
  that no other has passed finds the row it has read (`ReadsCurrent`).
  A received row lies before the cursor, and an untouched row before the cursor was received
  (`NotAhead`, `NothingSkipped`). What the server stores, what the page knows and what is about
  to reach it agree with what the user was told, the page's data as far as the day was read back
  (`KnownFits`, `SavesFit`), and a cell that is not being edited shows them (`DraftsFollow`). A provisioning request between its locks and its commit is alone with its
  operation and its person (`UnderLocks`), which is why receipts and profiles match.

*Only model-checked:*

- `SplitEnds` and everything in `progress`: liveness under fairness is beyond the prover;
- `FailuresLock`: with overlapping sessions of the object-relational layer its strengthening would
  be about every object that a request may hold, and the bounded model has all pairs of requests;
- the six violations of section 4, which are counterexamples.

## 7. What is not modelled

- Daylight saving time (minutes are wall-clock minutes; the repeated and the skipped hour are
  left out, `time_intervals.py:119`), the current time of day (the portal refuses times after
  *now*, here after *today*), titles, names and texts, instance identifiers on rows, the month
  selection of the plan page.
- Expiry of reset links and of OAuth transactions. The unlock links of `lockout.py`
  (`issue_unlock_token`, `consume_unlock_token`) are called from nowhere.
- The rate limit of the integration API (`integration_rate_limit.py`): a fixed window kept per
  process and changed without a lock (`:12`, `:33`); it promises no more than that.
- Claims, signatures, URLs and the choice of the identity in both sign-in protocols; the audit
  list and diagnostics of integration clients; registration and activation of instances, which
  change one row once.
- In `PlanCell`: the group table, whose cells do not move, day statuses, and writers other than the
  one person.
- The offline queue of the web client, which the application does not import.
- Exports, printing, SMTP, CSRF, cryptography, migrations, configuration and the pages of the
  web client are input, output or presentation.

## 8. Plan

1. Intervals across a change of daylight saving time, with instants that carry their offset.
2. A proof of `FailuresLock` for any number of overlapping logins.
