------------------------------ MODULE CmlNonce ------------------------------
(***************************************************************************)
(* The single use of signed requests at the CML boundary.  An assertion is *)
(* verified against the clock (app/security/cml_assertion.py) and then, on *)
(* a thread and with a connection that it may have to wait for, its jti is *)
(* inserted into cml_web_nonce (app/security/cml_web.py).  Every use also  *)
(* deletes old rows, by the issue time of the assertion in hand and not by *)
(* the clock, so a row must stay until the last copy of its assertion that *)
(* passed the verification has reached the table.                          *)
(***************************************************************************)
EXTENDS Integers

CONSTANTS
  Assertions,  \* signed assertions, each with its own jti
  Copies,      \* how often one assertion may arrive
  Lifetime,    \* exp - iat, 10 seconds in the code
  Ahead,       \* how far iat may be ahead of the clock, 1 second
  Grace,       \* how long a row outlives its exp, 20 seconds
  MaxTime      \* bound: the clock

TimesAssumption ==
  /\ Lifetime \in Nat \ {0}
  /\ Ahead \in Nat
  /\ Grace \in Nat
  /\ MaxTime \in Nat

VARIABLES
  clock,     \* time.time(), one host
  iat,       \* the issue time of an assertion, None before it is issued
  verified,  \* per copy: when it was verified, None if it is not under way
  arrived,   \* the copies that have arrived
  nonces,    \* the assertions whose jti is in cml_web_nonce
  accepted   \* how many copies of an assertion were accepted

vars == <<clock, iat, verified, arrived, nonces, accepted>>

None == -1
Clock == 0..MaxTime
Requests == Assertions \X Copies
exp(a) == iat[a] + Lifetime

TypeOK ==
  /\ clock \in Clock
  /\ iat \in [Assertions -> {None} \cup 0..(MaxTime + Ahead)]
  /\ verified \in [Requests -> {None} \cup Clock]
  /\ arrived \subseteq Requests
  /\ nonces \subseteq {a \in Assertions : iat[a] # None}
  /\ accepted \in [Assertions -> Nat]

Init ==
  /\ clock = 0
  /\ iat = [a \in Assertions |-> None]
  /\ verified = [r \in Requests |-> None]
  /\ arrived = {}
  /\ nonces = {}
  /\ accepted = [a \in Assertions |-> 0]

-----------------------------------------------------------------------------
\* CML signs an assertion; its clock may differ from this host's.
Issue(a) ==
  /\ iat[a] = None
  /\ \E t \in 0..(clock + Ahead) : iat' = [iat EXCEPT ![a] = t]
  /\ UNCHANGED <<clock, verified, arrived, nonces, accepted>>

\* The test of the times in WebVerifier.verify.
Fresh(a) ==
  /\ iat[a] # None
  /\ clock - Lifetime <= iat[a]
  /\ iat[a] <= clock + Ahead
  /\ clock < exp(a)

verify(r) ==
  /\ r \notin arrived
  /\ Fresh(r[1])
  /\ arrived' = arrived \cup {r}
  /\ verified' = [verified EXCEPT ![r] = clock]
  /\ UNCHANGED <<clock, iat, nonces, accepted>>

DropsAll(a) == {b \in nonces : exp(b) >= iat[a]}

\* The rows that stay when assertion a is used.
Kept(a) == {b \in nonces : exp(b) >= iat[a] - Grace}

\* One transaction deletes the old rows and inserts the jti; the primary key
\* makes a second insertion wait for the first and then fail, and the
\* request is refused as a replay.
_identity(r) ==
  LET a == r[1]
  IN  /\ verified[r] # None
      /\ verified' = [verified EXCEPT ![r] = None]
      /\ IF a \in Kept(a)
         THEN UNCHANGED <<nonces, accepted>>
         ELSE /\ nonces' = Kept(a) \cup {a}
              /\ accepted' = [accepted EXCEPT ![a] = @ + 1]
      /\ UNCHANGED <<clock, iat, arrived>>

\* The request is lost before its commit: no connection within the timeout,
\* or the worker restarts.
Lost(r) ==
  /\ verified[r] # None
  /\ verified' = [verified EXCEPT ![r] = None]
  /\ UNCHANGED <<clock, iat, arrived, nonces, accepted>>

\* Time passes while requests wait, as long as they have to.
Tick ==
  /\ clock < MaxTime
  /\ clock' = clock + 1
  /\ UNCHANGED <<iat, verified, arrived, nonces, accepted>>

Next ==
  \/ \E a \in Assertions : Issue(a)
  \/ \E r \in Requests : verify(r) \/ _identity(r) \/ Lost(r)
  \/ Tick

Spec == Init /\ [][Next]_vars

-----------------------------------------------------------------------------
(* A copy that reaches the table within Grace - Ahead + 1 (20 seconds) of  *)
(* its verification is not accepted if another copy was before it, by      *)
(* whatever workers the two were received and however long the other had   *)
(* to wait.  One that waits longer, for a thread or for a connection (30   *)
(* seconds by default), may find its row deleted and be accepted again,    *)
(* though the docstring of CmlWebNonce speaks of single-use requests.      *)
Reaches(r) == verified[r] # None /\ verified'[r] = None /\ accepted'[r[1]] # accepted[r[1]]
SingleUse ==
  [][\A r \in Requests :
       Reaches(r) /\ clock - verified[r] <= Grace - Ahead + 1 => accepted[r[1]] = 0]_vars

-----------------------------------------------------------------------------
(* Why it holds: a request under way was verified while its assertion was  *)
(* fresh, and a row that is gone was deleted for an assertion issued more  *)
(* than Grace after its own expired, when every copy that came within that *)
(* time has had its turn.                                                  *)
VerifiedFresh ==
  \A r \in Requests : verified[r] # None =>
    /\ iat[r[1]] # None
    /\ verified[r] <= clock
    /\ verified[r] < exp(r[1]) /\ iat[r[1]] <= verified[r] + Ahead

SpentOrExpired ==
  \A a \in Assertions : accepted[a] # 0 =>
    iat[a] # None /\ (a \in nonces \/ exp(a) + Grace < clock + Ahead)

IInv == TypeOK /\ VerifiedFresh /\ SpentOrExpired
=============================================================================
