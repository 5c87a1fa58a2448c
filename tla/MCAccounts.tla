----------------------------- MODULE MCAccounts -----------------------------
(***************************************************************************)
(* Accounts on small sets, see Accounts.cfg.                               *)
(***************************************************************************)
EXTENDS Accounts, FiniteSets, TLC

\* A model that is not in part starts in one of its initial states; the provider
\* begins with one key and may publish and withdraw keys at once.
MCInit ==
  /\ Init
  /\ part # "session" => hashes = <<[password |-> "p1", outdated |-> FALSE]>>
  /\ published = {"k1"}

\* Sessions do not meet: one at a time is enough.
MCBound == Cardinality(cookies) <= 1

\* Requests that change an account, and threads, are alike.
MCSymmetry == Permutations(Changes) \cup Permutations(Threads)

MCSpec == MCInit /\ [][Next]_vars
=============================================================================
