----------------------------- MODULE CmlProfiles -----------------------------
(***************************************************************************)
(* The creation of a portal user on request of CML                         *)
(* (app/services/cml_profiles.py).  A request names an operation, a person *)
(* and a profile, here its e-mail address.  One transaction takes the      *)
(* advisory locks of the operation and of the person, looks for an earlier *)
(* receipt, and writes the user and the receipt.  CML repeats a request    *)
(* whose answer was lost; workers may fail at any step; administrators     *)
(* create and delete users without these locks.                            *)
(***************************************************************************)
EXTENDS Naturals, FiniteSets

CONSTANTS
  Workers, Operations, Persons, Emails,
  Rank,      \* the order of the lock numbers, hashes of the names
  MaxUsers   \* bound: user ids ever given out

Names == Operations \cup Persons

RankAssumption ==
  /\ Rank \in [Names -> Nat]
  /\ \A m, n \in Names : Rank[m] = Rank[n] => m = n

NamesAssumption ==
  /\ IsFiniteSet(Workers) /\ MaxUsers \in Nat
  /\ "nobody" \notin Workers
  /\ "" \notin Emails
  /\ "admin" \notin Names

VARIABLES
  users,     \* existing users: id -> e-mail, "" when there is none
  nextId,    \* the sequence of user ids
  receipts,  \* cml_profile_provision: operation -> receipt or NoReceipt
  held,      \* the holder of every advisory lock, or Nobody
  request,   \* per worker: the request and where it is
  origin     \* who created a user: a request's operation and person, or Admin

vars == <<users, nextId, receipts, held, request, origin>>

Nobody == "nobody"
NoReceipt == [native |-> 0]
Idle == [pc |-> "idle"]
Admin == [op |-> "admin", person |-> "admin"]
Ids == 1..MaxUsers
Absent == ""

Stages == {"lock", "read", "check", "insert", "commit", "reread"}

TypeOK ==
  /\ users \in [Ids -> Emails \cup {Absent}]
  /\ nextId \in 1..(MaxUsers + 1)
  /\ receipts \in [Operations -> {NoReceipt} \cup [native : Ids, print : Persons \X Emails]]
  /\ held \in [Names -> Workers \cup {Nobody}]
  /\ request \in [Workers -> {Idle} \cup [pc : Stages, op : Operations, person : Persons,
                                           email : Emails, native : 0..MaxUsers]]
  /\ origin \in [Ids -> {Admin} \cup [op : Operations, person : Persons]]

Init ==
  /\ users = [i \in Ids |-> Absent]
  /\ nextId = 1
  /\ receipts = [o \in Operations |-> NoReceipt]
  /\ held = [n \in Names |-> Nobody]
  /\ request = [w \in Workers |-> Idle]
  /\ origin = [i \in Ids |-> Admin]

-----------------------------------------------------------------------------
\* Within the bound there is an id for everybody who may need one.
Room == nextId + Cardinality({w \in Workers : request[w] # Idle}) <= MaxUsers

\* A request arrives; the same one may arrive again, also at another worker.
Receive(w) ==
  /\ request[w] = Idle
  /\ Room
  /\ \E o \in Operations, p \in Persons, e \in Emails :
       request' = [request EXCEPT ![w] =
                     [pc |-> "lock", op |-> o, person |-> p, email |-> e, native |-> 0]]
  /\ UNCHANGED <<users, nextId, receipts, held, origin>>

Wanted(w) == {request[w].op, request[w].person}
Free(w) == [n \in Names |-> IF held[n] = w THEN Nobody ELSE held[n]]

Unlocked(w) ==
  /\ request[w].pc = "lock"
  /\ request' = [request EXCEPT ![w].pc = "read"]
  /\ UNCHANGED <<users, nextId, receipts, held, origin>>

\* pg_advisory_xact_lock for the names in the order of their numbers.
Lock(w) ==
  /\ request[w].pc = "lock"
  /\ \E n \in Wanted(w) :
       /\ held[n] = Nobody
       /\ \A m \in Wanted(w) : Rank[m] < Rank[n] => held[m] = w
       /\ held' = [held EXCEPT ![n] = w]
       /\ request' = [request EXCEPT ![w].pc =
                        IF \A m \in Wanted(w) : m = n \/ held[m] = w THEN "read" ELSE "lock"]
  /\ UNCHANGED <<users, nextId, receipts, origin>>

\* The transaction ends and releases the locks.
Ends(w) == held' = Free(w) /\ request' = [request EXCEPT ![w] = Idle]

Fingerprint(w) == <<request[w].person, request[w].email>>
Taken(e) == \E i \in Ids : users[i] = e

\* An operation known from before is answered from its receipt ("confirmed",
\* or "unavailable" when the user was deleted), or refused when its arguments
\* differ; nothing is written.
KnownOperation(w) ==
  /\ request[w].pc = "read"
  /\ receipts[request[w].op] # NoReceipt
  /\ Ends(w)
  /\ UNCHANGED <<users, nextId, receipts, origin>>

NewOperation(w) ==
  /\ request[w].pc = "read"
  /\ receipts[request[w].op] = NoReceipt
  /\ request' = [request EXCEPT ![w].pc = "check"]
  /\ UNCHANGED <<users, nextId, receipts, held, origin>>

PersonKnown(w) ==
  \E o \in Operations : receipts[o] # NoReceipt /\ receipts[o].print[1] = request[w].person

\* Refused: the person has a profile, or the e-mail address is taken.
RefuseExisting(w) ==
  /\ request[w].pc = "check"
  /\ PersonKnown(w) \/ Taken(request[w].email)
  /\ Ends(w)
  /\ UNCHANGED <<users, nextId, receipts, origin>>

MayCreate(w) ==
  /\ request[w].pc = "check"
  /\ ~PersonKnown(w)
  /\ ~Taken(request[w].email)
  /\ request' = [request EXCEPT ![w].pc = "insert"]
  /\ UNCHANGED <<users, nextId, receipts, held, origin>>

\* The unique e-mail address of a row not yet committed makes others wait.
Reserved(e) ==
  \E w \in Workers : request[w].pc = "commit" /\ request[w].email = e

\* The user is flushed; an address taken meanwhile raises IntegrityError, and
\* the rollback releases the locks.
create_profile(w) ==
  /\ request[w].pc = "insert"
  /\ ~Reserved(request[w].email)
  /\ IF Taken(request[w].email)
     THEN /\ request' = [request EXCEPT ![w].pc = "reread"]
          /\ held' = Free(w)
          /\ UNCHANGED nextId
     ELSE /\ nextId' = nextId + 1
          /\ request' = [request EXCEPT ![w].pc = "commit", ![w].native = nextId]
          /\ UNCHANGED held
  /\ UNCHANGED <<users, receipts, origin>>

TwoTransactions(w) ==
  LET r == request[w]
  IN  /\ r.pc = "commit"
      /\ IF users[r.native] = Absent
         THEN /\ users' = [users EXCEPT ![r.native] = r.email]
              /\ origin' = [origin EXCEPT ![r.native] = [op |-> r.op, person |-> r.person]]
              /\ UNCHANGED <<receipts, held, request>>
         ELSE /\ receipts' = [receipts EXCEPT ![r.op] =
                               [native |-> r.native, print |-> Fingerprint(w)]]
              /\ Ends(w)
              /\ UNCHANGED <<users, origin>>
      /\ UNCHANGED nextId

KeepsLocks(w) ==
  LET r == request[w]
  IN  /\ r.pc = "commit"
      /\ users' = [users EXCEPT ![r.native] = r.email]
      /\ origin' = [origin EXCEPT ![r.native] = [op |-> r.op, person |-> r.person]]
      /\ receipts' = [receipts EXCEPT ![r.op] =
                        [native |-> r.native, print |-> Fingerprint(w)]]
      /\ request' = [request EXCEPT ![w] = Idle]
      /\ UNCHANGED <<nextId, held>>

\* The receipt is flushed and both rows are committed; operation and person
\* are unique among the receipts, and a violation rolls both back.
create(w) ==
  LET r == request[w]
  IN  /\ r.pc = "commit"
      /\ IF receipts[r.op] # NoReceipt \/ PersonKnown(w)
         THEN /\ request' = [request EXCEPT ![w].pc = "reread"]
              /\ held' = Free(w)
              /\ UNCHANGED <<users, receipts, origin>>
         ELSE /\ users' = [users EXCEPT ![r.native] = r.email]
              /\ origin' = [origin EXCEPT ![r.native] = [op |-> r.op, person |-> r.person]]
              /\ receipts' = [receipts EXCEPT ![r.op] =
                                [native |-> r.native, print |-> Fingerprint(w)]]
              /\ Ends(w)
      /\ UNCHANGED nextId

\* After the IntegrityError, without the locks: a receipt another worker has
\* written meanwhile is the answer, otherwise the request is refused.
Reread(w) ==
  /\ request[w].pc = "reread"
  /\ request' = [request EXCEPT ![w] = Idle]
  /\ UNCHANGED <<users, nextId, receipts, held, origin>>

\* A worker fails before the commit.
Crash(w) ==
  /\ request[w] # Idle
  /\ Ends(w)
  /\ UNCHANGED <<users, nextId, receipts, origin>>

\* An administrator creates a user, in a transaction without advisory locks.
create_user(e) ==
  /\ ~Taken(e) /\ ~Reserved(e)
  /\ Room
  /\ users' = [users EXCEPT ![nextId] = e]
  /\ nextId' = nextId + 1
  /\ UNCHANGED <<receipts, held, request, origin>>

\* Deleting a user leaves the receipt: it has no foreign key.
delete_user(i) ==
  /\ users[i] # Absent
  /\ users' = [users EXCEPT ![i] = Absent]
  /\ UNCHANGED <<nextId, receipts, held, request, origin>>

Step(w) ==
  \/ Lock(w)
  \/ KnownOperation(w)
  \/ NewOperation(w)
  \/ RefuseExisting(w)
  \/ MayCreate(w)
  \/ create_profile(w)
  \/ create(w)
  \/ Reread(w)

Next ==
  \/ \E w \in Workers : Receive(w) \/ Step(w) \/ Crash(w)
  \/ \E e \in Emails : create_user(e)
  \/ \E i \in Ids : delete_user(i)

Spec == Init /\ [][Next]_vars

\* A worker goes on with its request; PostgreSQL grants a lock to the one
\* who waits longest.
FairSpec == Spec /\ \A w \in Workers : WF_vars(Step(w)) /\ SF_vars(Lock(w))

-----------------------------------------------------------------------------
(* A profile created for a person has its receipt, whatever failed: user   *)
(* and receipt are one transaction, so no request leaves a user behind     *)
(* that CML does not know.                                                 *)
NoOrphanProfile ==
  \A i \in Ids : users[i] # Absent /\ origin[i] # Admin
                 => receipts[origin[i].op].native = i

(* An account is never adopted: a receipt names a user that was created    *)
(* for its own operation, even when an administrator creates a user with   *)
(* the same address at the same time.                                      *)
NoAdoption ==
  \A o \in Operations : receipts[o] # NoReceipt => origin[receipts[o].native].op = o

(* At most one profile is ever created for a person, through repeated,     *)
(* concurrent and lost requests and after the profile was deleted.         *)
OncePerPerson ==
  \A p \in Persons : Cardinality({i \in Ids : origin[i].person = p}) <= 1

(* A repeated request is never refused because of the profile that it      *)
(* created itself: the second worker waits for the first and finds the     *)
(* receipt.                                                                *)
OwnProfileNoConflict ==
  [][\A w \in Workers :
       RefuseExisting(w) => \A i \in Ids : users[i] # Absent => origin[i].op # request[w].op]_vars

(* Every request comes to its end: nobody waits for the locks forever.     *)
Answered == \A w \in Workers : request[w] # Idle ~> request[w] = Idle

-----------------------------------------------------------------------------
(* Why they hold.  Ids are handed out once and in order, and there is one  *)
(* left for every request that may need it.                                *)
Pending == {w \in Workers : request[w].pc \in {"lock", "read", "check", "insert"}}

IdsInOrder ==
  /\ \A i \in Ids : users[i] # Absent \/ origin[i] # Admin => i < nextId
  /\ nextId + Cardinality(Pending) <= MaxUsers + 1

(* The id of an uncommitted user belongs to one request.                   *)
OwnId ==
  \A w \in Workers : request[w].pc = "commit" =>
    /\ request[w].native \in 1..(nextId - 1)
    /\ users[request[w].native] = Absent /\ origin[request[w].native] = Admin
    /\ \A v \in Workers : request[v].pc = "commit" /\ request[v].native = request[w].native
                            => v = w

(* Receipts and the profiles created for persons name each other, and a    *)
(* person has one receipt.                                                 *)
ReceiptsMatch ==
  /\ \A i \in Ids : origin[i] # Admin =>
       /\ receipts[origin[i].op].native = i
       /\ receipts[origin[i].op].print[1] = origin[i].person
  /\ \A o \in Operations : receipts[o] # NoReceipt =>
       origin[receipts[o].native] = [op |-> o, person |-> receipts[o].print[1]]
  /\ \A o, q \in Operations :
       /\ receipts[o] # NoReceipt /\ receipts[q] # NoReceipt
       /\ receipts[o].print[1] = receipts[q].print[1]
       => o = q

(* A request works under the locks of its operation and its person, and    *)
(* what it read of its operation stays true until it ends.                 *)
UnderLocks ==
  \A w \in Workers :
    /\ request[w].pc \in {"read", "check", "insert", "commit"} =>
         held[request[w].op] = w /\ held[request[w].person] = w
    /\ request[w].pc \in {"check", "insert", "commit"} => receipts[request[w].op] = NoReceipt

IInv == TypeOK /\ IdsInOrder /\ OwnId /\ ReceiptsMatch /\ UnderLocks
=============================================================================
