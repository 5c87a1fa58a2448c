---------------------------- MODULE ProviderKeys ----------------------------
(***************************************************************************)
(* The signing keys of a provider and the process-wide cache of them       *)
(* (_get_json and _signing_key of app/services/external_auth.py).  The     *)
(* provider publishes a set of keys and replaces it from time to time; a   *)
(* thread that validates an ID token looks its key up in the cached set,   *)
(* and once more in a freshly fetched one.  The lock guards the cache for  *)
(* each access, not across the fetch, so answers are stored in any order.  *)
(***************************************************************************)
EXTENDS Integers

CONSTANTS Threads,
          Keys,
          Ttl,       \* _cache_ttl in ticks
          Timeout,   \* external_auth_http_timeout_seconds, at most half the least Ttl
          MaxTime    \* bound

ProviderKeysAssumption == {Ttl, Timeout, MaxTime} \subseteq Nat /\ Timeout < Ttl

VARIABLES now,
          published,  \* keys the provider publishes
          retired,    \* key -> when it was last withdrawn
          cache,      \* cached set and when it ends
          thread,     \* what each validation is doing
          verdict     \* of the last validation that ended in this tick

vars == <<now, published, retired, cache, thread, verdict>>

Never == -(Ttl + 1)
Idle == [pc |-> "idle"]
NoVerdict == [key |-> "none"]
Empty == [keys |-> {}, until |-> 0]

TypeOK ==
    /\ now \in 0 .. MaxTime
    /\ published \subseteq Keys
    /\ retired \in [Keys -> {Never} \cup 0 .. MaxTime]
    /\ cache \in [keys : SUBSET Keys, until : 0 .. MaxTime + Ttl]
    /\ thread \in [Threads -> {Idle} \cup
          [pc : {"lookup", "asking", "answered"}, key : Keys, genuine : BOOLEAN,
           refresh : BOOLEAN, since : 0 .. MaxTime, answer : SUBSET Keys]]
    /\ verdict \in {NoVerdict} \cup [key : Keys, genuine : BOOLEAN, accepted : BOOLEAN]

Init ==
    /\ now = 0
    /\ published \in SUBSET Keys
    /\ retired = [k \in Keys |-> Never]
    /\ cache = Empty
    /\ thread = [t \in Threads |-> Idle]
    /\ verdict = NoVerdict

----------------------------------------------------------------------------
\* A token reaches a thread: the provider has just signed it with a
\* published key, or somebody presents one signed with any key.
Begin(t, k, genuine) ==
    /\ thread[t] = Idle
    /\ genuine => k \in published
    /\ thread' = [thread EXCEPT ![t] =
          [pc |-> "lookup", key |-> k, genuine |-> genuine, refresh |-> FALSE,
           since |-> 0, answer |-> {}]]
    /\ UNCHANGED <<now, published, retired, cache, verdict>>

Ends(t, accepted) ==
    /\ thread' = [thread EXCEPT ![t] = Idle]
    /\ verdict' = [key |-> thread[t].key, genuine |-> thread[t].genuine, accepted |-> accepted]

\* A key that is not found is looked up once more, past the cache.
_signing_key(t, keys) ==
    IF thread[t].key \in keys THEN Ends(t, TRUE)
    ELSE IF thread[t].refresh THEN Ends(t, FALSE)
    ELSE /\ thread' = [thread EXCEPT ![t] =
                [@ EXCEPT !.pc = "lookup", !.refresh = TRUE, !.since = 0, !.answer = {}]]
         /\ UNCHANGED verdict

\* The cached set, if it has not ended and may be used.
FromCache(t) ==
    /\ thread[t].pc = "lookup"
    /\ ~thread[t].refresh /\ cache.until > now
    /\ _signing_key(t, cache.keys)
    /\ UNCHANGED <<now, published, retired, cache>>

\* The time is taken before the request goes out.
Ask(t) ==
    /\ thread[t].pc = "lookup"
    /\ thread[t].refresh \/ cache.until <= now
    /\ thread' = [thread EXCEPT ![t] = [@ EXCEPT !.pc = "asking", !.since = now]]
    /\ UNCHANGED <<now, published, retired, cache, verdict>>

Answer(t) ==
    /\ thread[t].pc = "asking"
    /\ thread' = [thread EXCEPT ![t] = [@ EXCEPT !.pc = "answered", !.answer = published]]
    /\ UNCHANGED <<now, published, retired, cache, verdict>>

\* An error, a redirect or a timeout: the validation fails as unavailable.
Unavailable(t) ==
    /\ thread[t].pc = "asking"
    /\ thread' = [thread EXCEPT ![t] = Idle]
    /\ UNCHANGED <<now, published, retired, cache, verdict>>

\* Storing that counts the lifetime from the arrival of the answer.
FromArrival(t) == [keys |-> thread[t].answer, until |-> now + Ttl]
Stored(t) == [keys |-> thread[t].answer, until |-> thread[t].since + Ttl]

Store(t) ==
    /\ thread[t].pc = "answered"
    /\ cache' = Stored(t)
    /\ _signing_key(t, thread[t].answer)
    /\ UNCHANGED <<now, published, retired>>

----------------------------------------------------------------------------
(* The provider and time. *)
Publish(k) ==
    /\ k \notin published
    /\ published' = published \cup {k}
    /\ UNCHANGED <<now, retired, cache, thread, verdict>>

\* A key is withdrawn when no token it signed is on its way any more.
Withdraw(k) ==
    /\ k \in published
    /\ \A t \in Threads : thread[t] # Idle /\ thread[t].key = k => ~thread[t].genuine
    /\ published' = published \ {k}
    /\ retired' = [retired EXCEPT ![k] = now]
    /\ UNCHANGED <<now, cache, thread, verdict>>

\* A request that has taken Timeout is over before time goes on.
Tick ==
    /\ now < MaxTime
    /\ \A t \in Threads : thread[t].pc \in {"asking", "answered"} => now < thread[t].since + Timeout
    /\ now' = now + 1
    /\ verdict' = NoVerdict
    /\ UNCHANGED <<published, retired, cache, thread>>

Next ==
    \/ \E t \in Threads :
          \/ \E k \in Keys, genuine \in BOOLEAN : Begin(t, k, genuine)
          \/ FromCache(t) \/ Ask(t) \/ Answer(t) \/ Unavailable(t) \/ Store(t)
    \/ \E k \in Keys : Publish(k) \/ Withdraw(k)
    \/ Tick

Spec == Init /\ [][Next]_vars

----------------------------------------------------------------------------
\* A token that the provider signed with a key it publishes is never refused
\* for an unknown key, however old the cached set is and whichever thread's
\* answer was stored last.
GenuineAccepted == verdict # NoVerdict /\ verdict.genuine => verdict.accepted

\* A withdrawn key is accepted for less than the lifetime of a cached set, even
\* if the answer that carried it was slow; a key that was never published is
\* never accepted.
RetiredBound ==
    verdict # NoVerdict /\ verdict.accepted =>
        verdict.key \in published \/ now < retired[verdict.key] + Ttl

----------------------------------------------------------------------------
\* A key of the cached set is published, or was when the set was asked for.
CacheIsRecent ==
    /\ cache.until <= now + Ttl
    /\ \A k \in cache.keys : k \in published \/ cache.until <= retired[k] + Ttl

\* The same for an answer that is not stored yet; the key of a genuine token
\* stays published, so that an answer holds it.
AnswersAreRecent ==
    \A t \in Threads : thread[t] # Idle =>
        /\ thread[t].genuine => thread[t].key \in published
        /\ thread[t].pc \in {"asking", "answered"} =>
              thread[t].since <= now /\ now <= thread[t].since + Timeout
        /\ thread[t].pc = "answered" =>
              /\ thread[t].genuine => thread[t].key \in thread[t].answer
              /\ \A k \in thread[t].answer : k \in published \/ thread[t].since <= retired[k]

IInv == TypeOK /\ CacheIsRecent /\ AnswersAreRecent /\ GenuineAccepted /\ RetiredBound
=============================================================================
