--------------------------- MODULE AccountsProofs ---------------------------
(***************************************************************************)
(* Sessions and bearers, reset links and the cache of the provider's keys, *)
(* for any numbers of requests, passwords, links, keys and threads.        *)
(***************************************************************************)
EXTENDS Accounts, Integers, Sequences, FiniteSets, FiniteSetTheorems, TLAPS

-----------------------------------------------------------------------------
(* Sessions and bearers. *)

LEMMA SessionOnly == [Next]_vars => [Session!Next]_sessionVars
BY DEF Next, vars, LockoutStep, SessionStep, ResetStep, OAuthStep, KeysStep

SessionLogin == [pc : {"verified", "committed"}, password : Passwords,
                 rehash : BOOLEAN, is_blocked : BOOLEAN]
UserRow == [here : BOOLEAN, is_active : BOOLEAN, is_blocked : BOOLEAN, hash : 1 .. MaxHashes]
HashRow == [password : Passwords, outdated : BOOLEAN]
ChangeRow == [pc : {"user", "instance"}, op : Session!Operations, flag : BOOLEAN,
              token : 0 .. tokens, issued : 0 .. tokens]

\* The parts of the invariant that a step touches: the user with the hashes and sessions,
\* the logins under way, the bearers, and the changes under way.
UserPart ==
  /\ user \in UserRow /\ user.hash \in DOMAIN hashes
  /\ hashes \in Seq(HashRow) /\ Len(hashes) <= MaxHashes
  /\ cookies \subseteq Session!Session /\ changes \in Nat /\ owner \in Passwords
  /\ Session!TagsAge
LoginPart == login \in [Logins -> {Session!Idle} \cup SessionLogin]
BearerPart ==
  /\ tokens \in 0 .. MaxTokens /\ token \in 0 .. tokens
  /\ revoked \in 0 .. tokens /\ ended \in 0 .. tokens
  /\ ~user.here => token = 0
  /\ token # 0 => revoked < token
ChangeFine(r) ==
  /\ r \in {Session!Idle} \cup ChangeRow
  /\ r.pc = "instance" => r.token # 0 \/ token = 0 \/ r.issued < token
ChangePart == DOMAIN change = Changes /\ change = [c \in Changes |-> change[c]]
              /\ \A c \in Changes : ChangeFine(change[c])

LEMMA SessionParts == Session!IInv <=> UserPart /\ LoginPart /\ BearerPart /\ ChangePart
<1>1. Session!IInv => UserPart /\ LoginPart /\ BearerPart
  BY DEF Session!IInv, Session!TypeOK, Session!BearerIsNew, UserPart, LoginPart, BearerPart, UserRow,
         HashRow, SessionLogin
<1>2. Session!IInv => ChangePart
  BY DEF Session!IInv, Session!TypeOK, Session!BearerIsNew, ChangePart, ChangeFine, ChangeRow
<1>3. ChangePart => change \in [Changes -> {Session!Idle} \cup ChangeRow]
  BY DEF ChangePart, ChangeFine
<1>4. UserPart /\ LoginPart /\ BearerPart /\ ChangePart => Session!TypeOK
  BY <1>3 DEF Session!TypeOK, UserPart, LoginPart, BearerPart, UserRow, HashRow, SessionLogin, ChangeRow
<1>5. BearerPart /\ ChangePart => Session!BearerIsNew
  BY DEF Session!BearerIsNew, BearerPart, ChangePart, ChangeFine
<1>. QED
  BY <1>1, <1>2, <1>4, <1>5 DEF Session!IInv, UserPart

LEMMA SessionPartsNext == Session!IInv' <=> UserPart' /\ LoginPart' /\ BearerPart' /\ ChangePart'
BY SessionParts, PTL

LEMMA SessionStarts == Session!Init => Session!IInv
<1>. SUFFICES ASSUME Session!Init
              PROVE  UserPart /\ LoginPart /\ BearerPart /\ ChangePart
  BY SessionParts
<1>. USE SessionAssumption DEF Session!Init, Session!PortalSessionAssumption
<1>1. user \in UserRow /\ user.here /\ user.hash = 1
  BY DEF UserRow
<1>2. hashes \in Seq(HashRow) /\ Len(hashes) = 1 /\ owner \in Passwords
  BY DEF HashRow
<1>3. UserPart
  BY <1>1, <1>2 DEF UserPart, Session!TagsAge
<1>4. LoginPart /\ BearerPart
  BY DEF LoginPart, BearerPart
<1>5. ChangePart
  BY DEF ChangePart, ChangeFine, Session!Idle
<1>. QED
  BY <1>3, <1>4, <1>5

\* A new hash is newer than the tag of every session, whoever stores it.
LEMMA NewHash ==
  ASSUME UserPart, NEW p \in Passwords, Session!hash_password(p),
         user' = [user EXCEPT !.hash = Len(hashes')], cookies' = cookies,
         changes' \in {changes, changes + 1}, owner' \in Passwords
  PROVE  UserPart' /\ user'.here = user.here
<1>. USE SessionAssumption DEF Session!PortalSessionAssumption
<1>1. /\ user \in UserRow /\ hashes \in Seq(HashRow) /\ Len(hashes) \in Nat
      /\ changes \in Nat /\ user.hash = Len(hashes)
      /\ \A c \in cookies : c.tag \in Nat /\ c.issued \in Nat
  BY DEF UserPart, Session!TagsAge, Session!Session
<1>2. /\ Len(hashes) < MaxHashes
      /\ hashes' = Append(hashes, [password |-> p, outdated |-> FALSE])
      /\ [password |-> p, outdated |-> FALSE] \in HashRow
  BY DEF Session!hash_password, HashRow
<1>3. hashes' \in Seq(HashRow) /\ Len(hashes') = Len(hashes) + 1
  BY <1>1, <1>2
<1>4. Len(hashes') \in 1 .. MaxHashes
  BY <1>1, <1>2, <1>3
<1>5. user' \in UserRow /\ user'.here = user.here /\ user'.hash = Len(hashes')
  BY <1>1, <1>4 DEF UserRow
<1>6. user'.hash \in DOMAIN hashes'
  BY <1>3, <1>4, <1>5
<1>7. Session!TagsAge'
  BY <1>1, <1>3, <1>5 DEF UserPart, Session!TagsAge
<1>. QED
  BY <1>1, <1>3, <1>4, <1>5, <1>6, <1>7 DEF UserPart, Session!Session

\* Flags of the user, without a new hash.
LEMMA UserChanges ==
  ASSUME UserPart, UNCHANGED <<hashes, cookies, owner, changes>>,
         user' \in UserRow, user'.hash = user.hash
  PROVE  UserPart'
BY DEF UserPart, Session!TagsAge, Session!Session

\* The commit of a login, which may replace the hash.
LEMMA LoginWrites ==
  ASSUME UserPart, NEW l \in Logins, login[l] \in SessionLogin, Session!WritesUser(l),
         UNCHANGED <<cookies, owner, changes>>
  PROVE  UserPart' /\ user'.here = user.here
<1>1. CASE login[l].rehash
  <2>1. PICK p \in Passwords : p = login[l].password
    BY DEF SessionLogin
  <2>2. Session!hash_password(p) /\ user' = [user EXCEPT !.hash = Len(hashes')]
    BY <1>1, <2>1 DEF Session!WritesUser, Session!hash_password
  <2>3. owner' \in Passwords
    BY DEF UserPart
  <2>. QED
    BY <2>2, <2>3, NewHash
<1>2. CASE ~ login[l].rehash
  BY <1>2, UserChanges DEF Session!WritesUser, UserPart
<1>. QED
  BY <1>1, <1>2

\* The cookie is made from the hash that is stored when it is made.
LEMMA SessionMade ==
  ASSUME UserPart, NEW l \in Logins, Session!set_portal_session(l)
  PROVE  UserPart'
<1>. DEFINE c == [tag |-> user.hash, issued |-> changes]
<1>1. cookies' = cookies \cup {c} /\ UNCHANGED <<user, hashes, owner, changes>>
  BY DEF Session!set_portal_session, Session!account
<1>2. user.hash \in 1 .. MaxHashes /\ changes \in Nat
  BY DEF UserPart, UserRow
<1>3. c \in Session!Session /\ c.tag = user.hash /\ c.issued = changes
  BY <1>2 DEF Session!Session
<1>. HIDE DEF c
<1>4. Session!TagsAge'
  BY <1>1, <1>2, <1>3 DEF UserPart, Session!TagsAge
<1>. QED
  BY <1>1, <1>3, <1>4 DEF UserPart, Session!Session

\* A request that changes the account takes a step: it loads, or it ends.
LEMMA ChangeMoves ==
  ASSUME ChangePart, NEW c \in Changes, NEW r, ChangeFine(r), UNCHANGED <<token, tokens>>,
         change' = [change EXCEPT ![c] = r]
  PROVE  ChangePart'
BY DEF ChangePart, ChangeFine, ChangeRow

\* The bearer is taken away, or stays: the other requests know it no better than before.
LEMMA ChangeEnds ==
  ASSUME ChangePart, NEW c \in Changes, token' \in {0, token}, UNCHANGED tokens,
         change' = [change EXCEPT ![c] = Session!Idle]
  PROVE  ChangePart'
<1>1. ASSUME NEW d \in Changes
      PROVE  ChangeFine(change[d])'
  <2>1. CASE d = c
    BY <2>1 DEF ChangePart, ChangeFine, Session!Idle
  <2>2. CASE d # c
    <3>1. change'[d] = change[d] /\ ChangeFine(change[d])
      BY <2>2 DEF ChangePart
    <3>. QED
      BY <3>1 DEF ChangeFine, ChangeRow
  <2>. QED
    BY <2>1, <2>2
<1>2. DOMAIN change' = Changes /\ change' = [d \in Changes |-> change'[d]]
  BY DEF ChangePart
<1>. QED
  BY <1>1, <1>2 DEF ChangePart

\* A revocation at its commit: if it writes nothing, none was stored when it loaded, and
\* whatever is stored now was issued later.
LEMMA BearerRevoked ==
  ASSUME BearerPart, ChangePart, NEW c \in Changes, Session!revoke_instance_credential(c),
         UNCHANGED tokens, user'.here = user.here
  PROVE  BearerPart' /\ token' \in {0, token}
<1>1. /\ change[c] \in ChangeRow /\ change[c].pc = "instance"
      /\ change[c].token # 0 \/ token = 0 \/ change[c].issued < token
  BY DEF Session!revoke_instance_credential, ChangePart, ChangeFine, Session!Idle
<1>2. PICK i, k \in 0 .. tokens : i = change[c].issued /\ k = change[c].token
  BY <1>1 DEF ChangeRow
<1>3. /\ token' = IF k = 0 THEN token ELSE 0
      /\ revoked' = IF revoked < i THEN i ELSE revoked
      /\ ended' = tokens
  BY <1>2 DEF Session!revoke_instance_credential, Session!Column, Session!Max2
<1>4. k # 0 \/ token = 0 \/ i < token
  BY <1>1, <1>2
<1>. QED
  BY <1>2, <1>3, <1>4, SessionAssumption DEF BearerPart, Session!PortalSessionAssumption

LEMMA PasswordChanges ==
  ASSUME UserPart, LoginPart, BearerPart, ChangePart, NEW c \in Changes, NEW p \in Passwords,
         NEW op, Session!Commits(c, op), Session!change_portal_password(c, p)
  PROVE  UserPart' /\ LoginPart' /\ BearerPart' /\ ChangePart'
<1>1. /\ Session!hash_password(p) /\ user' = [user EXCEPT !.hash = Len(hashes')]
      /\ Session!revoke_instance_credential(c) /\ owner' = p /\ changes' = changes + 1
      /\ change' = [change EXCEPT ![c] = Session!Idle] /\ UNCHANGED <<tokens, cookies, login>>
  BY DEF Session!change_portal_password, Session!Commits
<1>2. UserPart' /\ user'.here = user.here
  BY <1>1, NewHash
<1>3. BearerPart' /\ token' \in {0, token}
  BY <1>1, <1>2, BearerRevoked
<1>4. ChangePart'
  BY <1>1, <1>3, ChangeEnds
<1>. QED
  BY <1>1, <1>2, <1>3, <1>4 DEF LoginPart

\* block_user and update_user: a flag, and the bearer if it is to be revoked.
LEMMA FlagChanges ==
  ASSUME UserPart, LoginPart, BearerPart, ChangePart, NEW c \in Changes, NEW op,
         Session!Commits(c, op), user' \in UserRow, user'.hash = user.hash, user'.here = user.here,
         UNCHANGED <<hashes, owner, changes>>,
         Session!revoke_instance_credential(c) \/ UNCHANGED <<token, revoked, ended>>
  PROVE  UserPart' /\ LoginPart' /\ BearerPart' /\ ChangePart'
<1>1. change' = [change EXCEPT ![c] = Session!Idle] /\ UNCHANGED <<tokens, cookies, login>>
  BY DEF Session!Commits
<1>2. UserPart'
  BY <1>1, UserChanges
<1>3. BearerPart' /\ token' \in {0, token}
  BY <1>1, BearerRevoked DEF BearerPart
<1>4. ChangePart'
  BY <1>1, <1>3, ChangeEnds
<1>. QED
  BY <1>1, <1>2, <1>3, <1>4 DEF LoginPart

LEMMA TokenClaimed ==
  ASSUME BearerPart, ChangePart, Session!claim_instance_token
  PROVE  BearerPart' /\ ChangePart'
<1>. USE SessionAssumption DEF Session!PortalSessionAssumption, Session!claim_instance_token
<1>1. tokens \in Nat /\ tokens + 1 \in 0 .. MaxTokens /\ revoked \in 0 .. tokens
  BY DEF BearerPart
<1>2. BearerPart'
  BY <1>1 DEF BearerPart
<1>3. ASSUME NEW c \in Changes
      PROVE  ChangeFine(change[c])'
  <2>1. ChangeFine(change[c]) /\ change' = change /\ token' = tokens + 1 /\ tokens' = tokens + 1
    BY DEF ChangePart
  <2>2. CASE change[c] = Session!Idle
    BY <2>1, <2>2 DEF ChangeFine, Session!Idle
  <2>3. CASE change[c] \in ChangeRow
    <3>1. PICK r : r = change[c]
      OBVIOUS
    <3>2. r \in ChangeRow /\ r.issued < tokens + 1
      BY <1>1, <2>3, <3>1 DEF ChangeRow
    <3>3. r \in ChangeRow'
      BY <1>1, <2>1, <3>2 DEF ChangeRow
    <3>. QED
      BY <2>1, <3>1, <3>2, <3>3 DEF ChangeFine
  <2>. QED
    BY <2>1, <2>2, <2>3 DEF ChangeFine
<1>. QED
  BY <1>2, <1>3 DEF ChangePart

\* The steps of a request that changes the account.
LEMMA ChangeSteps ==
  ASSUME UserPart, LoginPart, BearerPart, ChangePart, NEW c \in Changes,
         \/ \E op \in Session!Operations : Session!LoadUser(c, op)
         \/ Session!LoadInstance(c) \/ Session!ChangeFails(c)
         \/ \E p \in Passwords : Session!set_user_password(c, p) \/ Session!portal_reset(c, p)
         \/ Session!block_user(c) \/ Session!update_user(c)
  PROVE  UserPart' /\ LoginPart' /\ BearerPart' /\ ChangePart'
<1>. USE DEF Session!account, Session!bearers
<1>0. user \in UserRow /\ tokens \in Nat /\ token \in 0 .. tokens
  BY SessionAssumption DEF UserPart, BearerPart, Session!PortalSessionAssumption
<1>1. ASSUME NEW r, ChangeFine(r), change' = [change EXCEPT ![c] = r],
             UNCHANGED <<user, hashes, token, tokens, revoked, ended, owner, changes, cookies, login>>
      PROVE  UserPart' /\ LoginPart' /\ BearerPart' /\ ChangePart'
  <2>1. UserPart'
    BY <1>1, UserChanges DEF UserPart
  <2>2. ChangePart'
    BY <1>1, ChangeMoves
  <2>. QED
    BY <1>1, <2>1, <2>2 DEF LoginPart, BearerPart
<1>2. ASSUME NEW op \in Session!Operations, Session!LoadUser(c, op)
      PROVE  UserPart' /\ LoginPart' /\ BearerPart' /\ ChangePart'
  <2>1. Session!Flag(op) \in BOOLEAN
    BY <1>0 DEF Session!Flag, UserRow
  <2>2. PICK b \in BOOLEAN : b = Session!Flag(op)
    BY <2>1
  <2>3. PICK r : r = [pc |-> "user", op |-> op, flag |-> b, token |-> 0, issued |-> 0]
    OBVIOUS
  <2>4. ChangeFine(r)
    BY <1>0, <2>3 DEF ChangeFine, ChangeRow
  <2>5. change' = [change EXCEPT ![c] = r]
    BY <1>2, <2>2, <2>3 DEF Session!LoadUser
  <2>. QED
    BY <1>1, <1>2, <2>4, <2>5 DEF Session!LoadUser
<1>3. CASE Session!LoadInstance(c)
  <2>1. change[c] \in ChangeRow
    BY <1>3 DEF Session!LoadInstance, ChangePart, ChangeFine, Session!Idle
  <2>2. PICK q : q = change[c]
    OBVIOUS
  <2>3. PICK r : r = [q EXCEPT !.pc = "instance", !.token = token, !.issued = tokens]
    OBVIOUS
  <2>4. change' = [change EXCEPT ![c] = r]
    BY <1>3, <2>2, <2>3 DEF Session!LoadInstance, ChangePart
  <2>5. r \in ChangeRow /\ r.token = token
    <3>1. PICK n \in 0 .. tokens : n = tokens
      BY <1>0
    <3>2. PICK k \in 0 .. tokens : k = token
      BY <1>0
    <3>3. q \in ChangeRow
      BY <2>1, <2>2
    <3>4. r = [q EXCEPT !.pc = "instance", !.token = k, !.issued = n]
      BY <2>3, <3>1, <3>2
    <3>5. r \in ChangeRow /\ r.token = k
      BY <3>3, <3>4 DEF ChangeRow
    <3>. QED
      BY <3>2, <3>5
  <2>6. ChangeFine(r)
    BY <2>5 DEF ChangeFine
  <2>. QED
    BY <1>1, <1>3, <2>4, <2>6 DEF Session!LoadInstance
<1>4. CASE Session!ChangeFails(c)
  BY <1>1, <1>4 DEF Session!ChangeFails, ChangeFine, Session!Idle
<1>5. ASSUME NEW p \in Passwords, Session!set_user_password(c, p) \/ Session!portal_reset(c, p)
      PROVE  UserPart' /\ LoginPart' /\ BearerPart' /\ ChangePart'
  BY <1>5, PasswordChanges DEF Session!set_user_password, Session!portal_reset
<1>6. change[c] # Session!Idle => change[c].flag \in BOOLEAN
  BY DEF ChangePart, ChangeFine, ChangeRow
<1>7. ASSUME NEW op, Session!Commits(c, op)
      PROVE  change[c].flag \in BOOLEAN
  BY <1>6, <1>7 DEF Session!Commits, Session!Idle
<1>8. ASSUME NEW op, NEW b \in BOOLEAN, Session!Commits(c, op),
             \/ user' = [user EXCEPT !.is_blocked = Session!Column(change[c].flag, b, @)]
             \/ user' = [user EXCEPT !.is_active = Session!Column(change[c].flag, b, @)]
      PROVE  user' \in UserRow /\ user'.hash = user.hash /\ user'.here = user.here
  BY <1>0, <1>7, <1>8 DEF UserRow, Session!Column
<1>9. CASE Session!block_user(c)
  BY <1>8, <1>9, FlagChanges DEF Session!block_user
<1>10. CASE Session!update_user(c)
  BY <1>8, <1>10, FlagChanges DEF Session!update_user
<1>. QED
  BY <1>2, <1>3, <1>4, <1>5, <1>9, <1>10

LEMMA SessionInductive == Session!IInv /\ [Next]_vars => Session!IInv'
<1>. SUFFICES ASSUME UserPart, LoginPart, BearerPart, ChangePart, [Session!Next]_sessionVars
              PROVE  UserPart' /\ LoginPart' /\ BearerPart' /\ ChangePart'
  BY SessionOnly, SessionParts, SessionPartsNext
<1>. USE DEF Session!account, Session!bearers
<1>1. ASSUME UNCHANGED <<token, tokens, revoked, ended, change>>, user'.here = user.here
      PROVE  BearerPart' /\ ChangePart'
  <2>1. BearerPart'
    BY <1>1 DEF BearerPart
  <2>2. ChangePart'
    BY <1>1 DEF ChangePart, ChangeFine, ChangeRow
  <2>. QED
    BY <2>1, <2>2
<1>2. CASE UNCHANGED sessionVars
  BY <1>1, <1>2, UserChanges DEF sessionVars, UserPart, LoginPart
<1>3. ASSUME NEW l \in Logins, NEW r \in {Session!Idle} \cup SessionLogin,
             login' = [login EXCEPT ![l] = r]
      PROVE  LoginPart'
  BY <1>3 DEF LoginPart
<1>4. ASSUME NEW l \in Logins, login[l].pc # "idle"
      PROVE  login[l] \in SessionLogin
  BY <1>4 DEF LoginPart, Session!Idle
<1>5. ASSUME NEW l \in Logins, NEW p \in Passwords, Session!LoginVerifies(l, p)
      PROVE  UserPart' /\ LoginPart' /\ BearerPart' /\ ChangePart'
  <2>1. user.is_blocked \in BOOLEAN /\ hashes[user.hash].outdated \in BOOLEAN
    <3>1. hashes \in Seq(HashRow) /\ user.hash \in DOMAIN hashes /\ user \in UserRow
      BY DEF UserPart
    <3>2. hashes[user.hash] \in HashRow
      BY <3>1
    <3>. QED
      BY <3>1, <3>2 DEF HashRow, UserRow
  <2>2. PICK r : r = [pc |-> "verified", password |-> p, is_blocked |-> user.is_blocked,
                      rehash |-> hashes[user.hash].outdated]
    OBVIOUS
  <2>3. r \in SessionLogin
    BY <2>1, <2>2 DEF SessionLogin
  <2>4. LoginPart'
    BY <1>3, <1>5, <2>2, <2>3 DEF Session!LoginVerifies
  <2>. QED
    BY <1>1, <1>5, <2>4, UserChanges DEF Session!LoginVerifies, UserPart
<1>6. ASSUME NEW l \in Logins, Session!LoginBlocked(l)
      PROVE  UserPart' /\ LoginPart' /\ BearerPart' /\ ChangePart'
  <2>1. UserPart' /\ user'.here = user.here
    BY <1>4, <1>6, LoginWrites DEF Session!LoginBlocked
  <2>. QED
    BY <1>1, <1>3, <1>6, <2>1 DEF Session!LoginBlocked
<1>7. ASSUME NEW l \in Logins, Session!LoginCommits(l)
      PROVE  UserPart' /\ LoginPart' /\ BearerPart' /\ ChangePart'
  <2>1. login[l] \in SessionLogin
    BY <1>4, <1>7 DEF Session!LoginCommits
  <2>2. [login[l] EXCEPT !.pc = "committed"] \in SessionLogin
    BY <2>1 DEF SessionLogin
  <2>3. login' = [login EXCEPT ![l] = [login[l] EXCEPT !.pc = "committed"]]
    BY <1>7 DEF Session!LoginCommits, LoginPart
  <2>4. UserPart' /\ user'.here = user.here
    BY <1>7, <2>1, LoginWrites DEF Session!LoginCommits
  <2>. QED
    BY <1>1, <1>3, <1>7, <2>2, <2>3, <2>4 DEF Session!LoginCommits
<1>8. ASSUME NEW l \in Logins, Session!LoginRefused(l)
      PROVE  UserPart' /\ LoginPart' /\ BearerPart' /\ ChangePart'
  BY <1>1, <1>3, <1>8, UserChanges DEF Session!LoginRefused, UserPart
<1>9. ASSUME NEW l \in Logins, Session!set_portal_session(l)
      PROVE  UserPart' /\ LoginPart' /\ BearerPart' /\ ChangePart'
  BY <1>1, <1>3, <1>9, SessionMade DEF Session!set_portal_session
<1>10. ASSUME NEW s \in cookies, Session!SessionEnds(s)
       PROVE  UserPart' /\ LoginPart' /\ BearerPart' /\ ChangePart'
  <2>1. UserPart'
    BY <1>10 DEF Session!SessionEnds, UserPart, Session!TagsAge, Session!Session
  <2>. QED
    BY <1>1, <1>10, <2>1 DEF Session!SessionEnds, LoginPart
<1>11. CASE Session!claim_instance_token
  BY <1>11, TokenClaimed, UserChanges DEF Session!claim_instance_token, UserPart, LoginPart
<1>12. CASE Session!delete_user
  <2>1. /\ user' = [user EXCEPT !.here = FALSE] /\ token' = 0 /\ revoked' = tokens /\ ended' = tokens
        /\ UNCHANGED <<hashes, tokens, cookies, login, change, owner, changes>>
    BY <1>12 DEF Session!delete_user
  <2>2. UserPart'
    BY <2>1, UserChanges DEF UserPart, UserRow
  <2>3. BearerPart'
    BY <2>1, SessionAssumption DEF BearerPart, Session!PortalSessionAssumption
  <2>4. ChangePart'
    BY <2>1 DEF ChangePart, ChangeFine, ChangeRow
  <2>. QED
    BY <2>1, <2>2, <2>3, <2>4 DEF LoginPart
<1>. QED
  BY <1>2, <1>5, <1>6, <1>7, <1>8, <1>9, <1>10, <1>11, <1>12, ChangeSteps DEF Session!Next

\* After a change of the password no older session is accepted, whatever logins were
\* under way (the tag of deps.py); after a revocation has committed, no bearer issued
\* before it loaded the instance (revoke_instance_credential), for any numbers of
\* passwords, logins and requests that change the account at the same time.
THEOREM CredentialsDie == Spec => []OldCredentialsDie
<1>1. Init => Session!IInv
  BY SessionStarts DEF Init
<1>2. Session!IInv => OldCredentialsDie
  <2>. SUFFICES ASSUME UserPart, BearerPart
                PROVE  Session!OldSessionsDie /\ Session!OldBearersDie
    BY SessionParts DEF OldCredentialsDie
  <2>1. Session!OldSessionsDie
    BY DEF UserPart, UserRow, Session!TagsAge, Session!Session, Session!OldSessionsDie,
           Session!SessionAccepted
  <2>2. Session!OldBearersDie
    BY SessionAssumption DEF BearerPart, Session!OldBearersDie, Session!BearerAccepted,
           Session!PortalSessionAssumption
  <2>. QED
    BY <2>1, <2>2
<1>. QED
  BY <1>1, <1>2, SessionInductive, PTL DEF Spec

-----------------------------------------------------------------------------
(* The keys of the provider. *)

LEMMA ProviderOnly == [Next]_vars => [Provider!Next]_keysVars
BY DEF Next, vars, LockoutStep, SessionStep, ResetStep, OAuthStep, KeysStep

ThreadRow == [pc : {"lookup", "asking", "answered"}, key : Keys, genuine : BOOLEAN,
              refresh : BOOLEAN, since : 0 .. KeyTime, answer : SUBSET Keys]
VerdictRow == [key : Keys, genuine : BOOLEAN, accepted : BOOLEAN]

\* The parts of the invariant for one thread, one cached set and one verdict.
ThreadFine(r) ==
  /\ r \in {Provider!Idle} \cup ThreadRow
  /\ r # Provider!Idle =>
       /\ r.genuine => r.key \in published
       /\ r.pc \in {"asking", "answered"} => r.since <= now /\ now <= r.since + Timeout
       /\ r.pc = "answered" =>
            /\ r.genuine => r.key \in r.answer
            /\ \A k \in r.answer : k \in published \/ r.since <= retired[k]

CacheFine(c) ==
  /\ c \in [keys : SUBSET Keys, until : 0 .. KeyTime + Ttl]
  /\ c.until <= now + Ttl
  /\ \A k \in c.keys : k \in published \/ c.until <= retired[k] + Ttl

VerdictFine(v) ==
  /\ v \in {Provider!NoVerdict} \cup VerdictRow
  /\ v # Provider!NoVerdict /\ v.genuine => v.accepted
  /\ v # Provider!NoVerdict /\ v.accepted => v.key \in published \/ now < retired[v.key] + Ttl

ClockTyped ==
  /\ now \in 0 .. KeyTime /\ published \subseteq Keys
  /\ retired \in [Keys -> {Provider!Never} \cup 0 .. KeyTime]

LEMMA ProviderParts ==
  Provider!IInv <=> /\ ClockTyped /\ CacheFine(cache) /\ VerdictFine(verdict)
                    /\ thread \in [Threads -> {Provider!Idle} \cup ThreadRow]
                    /\ \A t \in Threads : ThreadFine(thread[t])
BY DEF Provider!IInv, Provider!TypeOK, Provider!CacheIsRecent, Provider!AnswersAreRecent,
       Provider!GenuineAccepted, Provider!RetiredBound, ClockTyped, CacheFine, VerdictFine,
       ThreadFine, ThreadRow, VerdictRow

LEMMA ProviderStarts == Provider!Init => Provider!IInv
<1>. SUFFICES ASSUME Provider!Init
              PROVE  Provider!IInv
  OBVIOUS
<1>. USE ProviderAssumption DEF Provider!Init, Provider!ProviderKeysAssumption
<1>1. ClockTyped
  BY DEF ClockTyped
<1>2. CacheFine(cache)
  BY DEF CacheFine, Provider!Empty
<1>3. VerdictFine(verdict)
  BY DEF VerdictFine
<1>4. thread \in [Threads -> {Provider!Idle} \cup ThreadRow] /\ \A t \in Threads : ThreadFine(thread[t])
  BY DEF ThreadFine
<1>. QED
  BY <1>1, <1>2, <1>3, <1>4, ProviderParts

\* A thread moves on; the provider and the time stay.
LEMMA ThreadMoves ==
  ASSUME Provider!IInv, NEW t \in Threads, NEW r, ThreadFine(r), thread' = [thread EXCEPT ![t] = r],
         UNCHANGED <<now, published, retired>>, CacheFine(cache'), VerdictFine(verdict')
  PROVE  Provider!IInv'
<1>1. ClockTyped'
  BY ProviderParts DEF ClockTyped
<1>2. CacheFine(cache)' /\ VerdictFine(verdict)'
  BY DEF CacheFine, VerdictFine
<1>3. r \in {Provider!Idle} \cup ThreadRow /\ thread \in [Threads -> {Provider!Idle} \cup ThreadRow]
  BY ProviderParts DEF ThreadFine
<1>4. thread' \in [Threads -> {Provider!Idle} \cup ThreadRow]
  BY <1>3
<1>5. ASSUME NEW u \in Threads
      PROVE  ThreadFine(thread[u])'
  <2>1. ThreadFine(thread'[u])
    BY <1>3, ProviderParts
  <2>. QED
    BY <2>1 DEF ThreadFine
<1>. QED
  BY <1>1, <1>2, <1>4, <1>5 DEF ClockTyped, CacheFine, VerdictFine, ThreadFine, ThreadRow,
     VerdictRow, Provider!IInv, Provider!TypeOK, Provider!CacheIsRecent,
     Provider!AnswersAreRecent, Provider!GenuineAccepted, Provider!RetiredBound

\* Keys that may be accepted now: the verdict of a thread that looks its key up in them.
LEMMA KeyLookedUp ==
  ASSUME Provider!IInv, NEW t \in Threads, thread[t] \in ThreadRow, NEW keys \in SUBSET Keys,
         \A k \in keys : k \in published \/ now < retired[k] + Ttl,
         thread[t].genuine /\ thread[t].refresh => thread[t].key \in keys,
         Provider!_signing_key(t, keys), UNCHANGED <<now, published, retired>>, CacheFine(cache')
  PROVE  Provider!IInv'
<1>1. thread[t] # Provider!Idle /\ Provider!Idle \notin ThreadRow
  BY DEF ThreadRow, Provider!Idle
<1>2. VerdictFine(verdict) /\ ThreadFine(thread[t]) /\ ThreadFine(Provider!Idle)
  BY ProviderParts DEF ThreadFine
<1>3. ASSUME NEW accepted \in BOOLEAN, Provider!Ends(t, accepted),
             thread[t].genuine => accepted, accepted => thread[t].key \in keys
      PROVE  Provider!IInv'
  <2>1. /\ verdict' \in VerdictRow /\ verdict'.key = thread[t].key
        /\ verdict'.genuine = thread[t].genuine /\ verdict'.accepted = accepted
    BY <1>3 DEF Provider!Ends, ThreadRow, VerdictRow
  <2>2. VerdictFine(verdict')
    BY <1>3, <2>1 DEF VerdictFine
  <2>. QED
    BY <1>2, <1>3, <2>2, ThreadMoves DEF Provider!Ends
<1>4. CASE thread[t].key \in keys
  BY <1>3, <1>4 DEF Provider!_signing_key
<1>5. CASE thread[t].key \notin keys /\ thread[t].refresh
  BY <1>3, <1>5 DEF Provider!_signing_key, ThreadRow
<1>6. CASE thread[t].key \notin keys /\ ~ thread[t].refresh
  <2>. DEFINE r == [thread[t] EXCEPT !.pc = "lookup", !.refresh = TRUE, !.since = 0, !.answer = {}]
  <2>1. thread' = [thread EXCEPT ![t] =
          [@ EXCEPT !.pc = "lookup", !.refresh = TRUE, !.since = 0, !.answer = {}]]
        /\ verdict' = verdict
    BY <1>6 DEF Provider!_signing_key
  <2>2. thread \in [Threads -> {Provider!Idle} \cup ThreadRow]
    BY ProviderParts
  <2>3. thread' = [thread EXCEPT ![t] = r]
    BY <2>1, <2>2
  <2>4. r \in ThreadRow /\ r.pc = "lookup" /\ r.key = thread[t].key /\ r.genuine = thread[t].genuine
    <3>1. 0 \in 0 .. KeyTime
      BY ProviderAssumption DEF Provider!ProviderKeysAssumption
    <3>. QED
      BY <3>1 DEF ThreadRow
  <2>. HIDE DEF r
  <2>5. ThreadFine(r)
    BY <1>1, <1>2, <2>4 DEF ThreadFine
  <2>. QED
    BY <1>2, <2>1, <2>3, <2>5, ThreadMoves
<1>. QED
  BY <1>4, <1>5, <1>6 DEF ThreadRow

LEMMA ProviderThreads ==
  ASSUME Provider!IInv, NEW t \in Threads,
         \/ \E k \in Keys, genuine \in BOOLEAN : Provider!Begin(t, k, genuine)
         \/ Provider!FromCache(t) \/ Provider!Ask(t) \/ Provider!Answer(t)
         \/ Provider!Unavailable(t) \/ Provider!Store(t)
  PROVE  Provider!IInv'
<1>. USE ProviderAssumption DEF Provider!ProviderKeysAssumption
<1>1. /\ now \in 0 .. KeyTime /\ published \subseteq Keys
      /\ retired \in [Keys -> {Provider!Never} \cup 0 .. KeyTime]
      /\ CacheFine(cache) /\ VerdictFine(verdict) /\ ThreadFine(thread[t])
      /\ thread \in [Threads -> {Provider!Idle} \cup ThreadRow]
  BY ProviderParts DEF ClockTyped
<1>2. thread[t].pc \in {"lookup", "asking", "answered"} =>
        thread[t] \in ThreadRow /\ thread[t] # Provider!Idle
  BY <1>1 DEF Provider!Idle
<1>3. ASSUME UNCHANGED <<now, published, retired, cache, verdict>>,
             NEW r, thread' = [thread EXCEPT ![t] = r], ThreadFine(r)
      PROVE  Provider!IInv'
  BY <1>1, <1>3, ThreadMoves
<1>4. ASSUME NEW k \in Keys, NEW genuine \in BOOLEAN, Provider!Begin(t, k, genuine)
      PROVE  Provider!IInv'
  <2>. DEFINE r == [pc |-> "lookup", key |-> k, genuine |-> genuine, refresh |-> FALSE,
                    since |-> 0, answer |-> {}]
  <2>1. r \in ThreadRow /\ r.pc = "lookup" /\ r.key = k /\ r.genuine = genuine
    BY DEF ThreadRow
  <2>2. genuine => k \in published
    BY <1>4 DEF Provider!Begin
  <2>3. thread' = [thread EXCEPT ![t] = r] /\ UNCHANGED <<now, published, retired, cache, verdict>>
    BY <1>4 DEF Provider!Begin
  <2>. HIDE DEF r
  <2>4. ThreadFine(r)
    BY <2>1, <2>2 DEF ThreadFine
  <2>. QED
    BY <1>3, <2>3, <2>4
<1>5. CASE Provider!FromCache(t)
  <2>1. \A k \in cache.keys : k \in published \/ now < retired[k] + Ttl
    <3>1. now < cache.until
      BY <1>1, <1>5 DEF Provider!FromCache, CacheFine
    <3>2. \A k \in Keys : retired[k] \in Int
      BY <1>1 DEF Provider!Never
    <3>. QED
      BY <1>1, <3>1, <3>2 DEF CacheFine
  <2>2. cache.keys \in SUBSET Keys
    BY <1>1 DEF CacheFine
  <2>. QED
    BY <1>1, <1>2, <1>5, <2>1, <2>2, KeyLookedUp DEF Provider!FromCache
<1>6. CASE Provider!Ask(t)
  <2>. DEFINE r == [thread[t] EXCEPT !.pc = "asking", !.since = now]
  <2>1. /\ r \in ThreadRow /\ r.pc = "asking" /\ r.since = now
        /\ r.key = thread[t].key /\ r.genuine = thread[t].genuine
    BY <1>1, <1>2, <1>6 DEF Provider!Ask, ThreadRow
  <2>2. ThreadFine(r)
    <3>. HIDE DEF r
    <3>. QED
      BY <1>1, <1>2, <1>6, <2>1 DEF ThreadFine, Provider!Ask
  <2>. QED
    BY <1>3, <1>6, <2>2 DEF Provider!Ask
<1>7. CASE Provider!Answer(t)
  <2>. DEFINE r == [thread[t] EXCEPT !.pc = "answered", !.answer = published]
  <2>1. /\ r \in ThreadRow /\ r.pc = "answered" /\ r.since = thread[t].since
        /\ r.key = thread[t].key /\ r.genuine = thread[t].genuine /\ r.answer = published
    BY <1>1, <1>2, <1>7 DEF Provider!Answer, ThreadRow
  <2>2. ThreadFine(r)
    <3>. HIDE DEF r
    <3>. QED
      BY <1>1, <1>2, <1>7, <2>1 DEF ThreadFine, Provider!Answer
  <2>. QED
    BY <1>3, <1>7, <2>2 DEF Provider!Answer
<1>8. CASE Provider!Unavailable(t)
  <2>1. ThreadFine(Provider!Idle)
    BY DEF ThreadFine
  <2>. QED
    BY <1>3, <1>8, <2>1 DEF Provider!Unavailable
<1>9. CASE Provider!Store(t)
  <2>1. /\ thread[t] \in ThreadRow /\ thread[t].pc = "answered" /\ thread[t] # Provider!Idle
        /\ thread[t].since \in 0 .. KeyTime /\ thread[t].answer \in SUBSET Keys
    BY <1>2, <1>9 DEF Provider!Store, ThreadRow
  <2>2. /\ thread[t].since <= now /\ now <= thread[t].since + Timeout
        /\ thread[t].genuine => thread[t].key \in thread[t].answer
        /\ \A k \in thread[t].answer : k \in published \/ thread[t].since <= retired[k]
    BY <1>1, <2>1 DEF ThreadFine
  <2>3. \A k \in Keys : retired[k] \in Int
    BY <1>1 DEF Provider!Never
  <2>4. /\ \A k \in thread[t].answer : k \in published \/ now < retired[k] + Ttl
        /\ \A k \in thread[t].answer : k \in published \/ thread[t].since + Ttl <= retired[k] + Ttl
    BY <1>1, <2>1, <2>2, <2>3
  <2>5. CacheFine(cache')
    <3>1. cache' = [keys |-> thread[t].answer, until |-> thread[t].since + Ttl]
      BY <1>9 DEF Provider!Store, Provider!Stored
    <3>2. cache'.keys = thread[t].answer /\ cache'.until = thread[t].since + Ttl
      BY <3>1
    <3>3. cache'.until \in 0 .. KeyTime + Ttl /\ cache'.until <= now + Ttl
      BY <1>1, <2>1, <2>2, <3>2
    <3>. QED
      BY <2>1, <2>4, <3>1, <3>2, <3>3 DEF CacheFine
  <2>. QED
    BY <1>9, <2>1, <2>2, <2>4, <2>5, KeyLookedUp DEF Provider!Store
<1>. QED
  BY <1>4, <1>5, <1>6, <1>7, <1>8, <1>9

\* Withdrawal is remembered, and time does not run past the end of a fetch.
LEMMA ProviderInductive == Provider!IInv /\ [Next]_vars => Provider!IInv'
<1>. SUFFICES ASSUME Provider!IInv, [Provider!Next]_keysVars
              PROVE  Provider!IInv'
  BY ProviderOnly
<1>. USE ProviderAssumption DEF Provider!ProviderKeysAssumption
<1>1. /\ now \in 0 .. KeyTime /\ published \subseteq Keys
      /\ retired \in [Keys -> {Provider!Never} \cup 0 .. KeyTime]
      /\ \A k \in Keys : retired[k] \in Int
      /\ CacheFine(cache) /\ VerdictFine(verdict)
      /\ thread \in [Threads -> {Provider!Idle} \cup ThreadRow]
      /\ \A t \in Threads : ThreadFine(thread[t])
  BY ProviderParts DEF ClockTyped, Provider!Never
<1>2. ASSUME ClockTyped', CacheFine(cache)', VerdictFine(verdict)', UNCHANGED thread,
             \A t \in Threads : ThreadFine(thread[t])'
      PROVE  Provider!IInv'
  BY <1>1, <1>2 DEF ClockTyped, CacheFine, VerdictFine, ThreadFine, ThreadRow, VerdictRow,
     Provider!IInv, Provider!TypeOK, Provider!CacheIsRecent, Provider!AnswersAreRecent,
     Provider!GenuineAccepted, Provider!RetiredBound
<1>3. CASE UNCHANGED keysVars
  BY <1>1, <1>2, <1>3 DEF keysVars, ClockTyped, CacheFine, VerdictFine, ThreadFine
<1>4. ASSUME NEW k \in Keys, Provider!Publish(k)
      PROVE  Provider!IInv'
  <2>1. published' = published \cup {k} /\ UNCHANGED <<now, retired, cache, thread, verdict>>
    BY <1>4 DEF Provider!Publish
  <2>2. ClockTyped' /\ CacheFine(cache)' /\ VerdictFine(verdict)'
    BY <1>1, <2>1 DEF ClockTyped, CacheFine, VerdictFine
  <2>3. \A t \in Threads : ThreadFine(thread[t])'
    BY <1>1, <2>1 DEF ThreadFine
  <2>. QED
    BY <1>2, <2>1, <2>2, <2>3
<1>5. ASSUME NEW k \in Keys, Provider!Withdraw(k)
      PROVE  Provider!IInv'
  <2>1. /\ published' = published \ {k} /\ retired' = [retired EXCEPT ![k] = now]
        /\ UNCHANGED <<now, cache, thread, verdict>>
        /\ \A t \in Threads : thread[t] # Provider!Idle /\ thread[t].key = k => ~ thread[t].genuine
    BY <1>5 DEF Provider!Withdraw
  <2>2. retired'[k] = now /\ \A j \in Keys \ {k} : retired'[j] = retired[j]
    BY <1>1, <2>1
  <2>3. ClockTyped'
    BY <1>1, <2>1 DEF ClockTyped
  <2>4. CacheFine(cache)'
    <3>. SUFFICES ASSUME NEW j \in cache.keys
                  PROVE  j \in published' \/ cache.until <= retired'[j] + Ttl
      BY <1>1, <2>1 DEF CacheFine
    <3>1. j \in Keys /\ cache.until \in Nat /\ cache.until <= now + Ttl
      BY <1>1 DEF CacheFine
    <3>. QED
      BY <1>1, <2>1, <2>2, <3>1 DEF CacheFine
  <2>5. VerdictFine(verdict)'
    <3>1. verdict # Provider!NoVerdict => verdict \in VerdictRow /\ verdict.key \in Keys
      BY <1>1 DEF VerdictFine, VerdictRow
    <3>. QED
      BY <1>1, <2>1, <2>2, <3>1 DEF VerdictFine
  <2>6. ASSUME NEW t \in Threads
        PROVE  ThreadFine(thread[t])'
    <3>1. thread[t] # Provider!Idle => thread[t] \in ThreadRow /\ thread[t].answer \subseteq Keys
      BY <1>1 DEF ThreadRow
    <3>2. ThreadFine(thread[t])
      BY <1>1
    <3>. QED
      BY <1>1, <2>1, <2>2, <3>1, <3>2 DEF ThreadFine
  <2>. QED
    BY <1>2, <2>1, <2>3, <2>4, <2>5, <2>6
<1>6. CASE Provider!Tick
  <2>1. /\ now < KeyTime /\ now' = now + 1 /\ verdict' = Provider!NoVerdict
        /\ UNCHANGED <<published, retired, cache, thread>>
        /\ \A t \in Threads : thread[t].pc \in {"asking", "answered"} => now < thread[t].since + Timeout
    BY <1>6 DEF Provider!Tick
  <2>2. ClockTyped' /\ CacheFine(cache)' /\ VerdictFine(verdict)'
    BY <1>1, <2>1 DEF ClockTyped, CacheFine, VerdictFine
  <2>3. ASSUME NEW t \in Threads
        PROVE  ThreadFine(thread[t])'
    <3>1. thread[t] # Provider!Idle => thread[t] \in ThreadRow /\ thread[t].since \in Nat
      BY <1>1 DEF ThreadRow
    <3>2. ThreadFine(thread[t])
      BY <1>1
    <3>. QED
      BY <1>1, <2>1, <3>1, <3>2 DEF ThreadFine
  <2>. QED
    BY <1>2, <2>1, <2>2, <2>3
<1>. QED
  BY <1>3, <1>4, <1>5, <1>6, ProviderThreads DEF Provider!Next

\* Whatever answers are stored in whatever order, no token signed by a published key is
\* refused, and a withdrawn key is accepted for less than the lifetime of a cached set
\* (_get_json, _signing_key), for any keys, threads and times.
THEOREM CachedKeysSound == Spec => []KeysSound
<1>1. Init => Provider!IInv
  BY ProviderStarts DEF Init
<1>2. Provider!IInv => KeysSound
  BY DEF KeysSound, Provider!IInv
<1>. QED
  BY <1>1, <1>2, ProviderInductive, PTL DEF Spec

-----------------------------------------------------------------------------
(* Reset links. *)

LEMMA ResetOnly == [Next]_vars => [Reset!Next]_resetVars
BY DEF Next, vars, LockoutStep, SessionStep, ResetStep, OAuthStep, KeysStep

LinkRow == [state : {"none", "PENDING", "SENT", "FAILED"}, revoked : BOOLEAN, used : BOOLEAN]
Early == {"new", "waiting", "locked"}
Delivering == {"written", "mailing", "mailed"}
Late == {"ending", "done"}

StaysDead == \A s \in Send : links[s].revoked \/ links[s].used => ~ Reset!Live(s)'

\* The part of the invariant about one link.
LinkFine(s) ==
  /\ sending[s] \in Early => links[s] = Reset!NoToken /\ uses[s] = 0
  /\ sending[s] \in Delivering => links[s].state = "PENDING"
  /\ sending[s] = "mailed" => mailed[s]
  /\ links[s].state = "SENT" => mailed[s]
  /\ uses[s] > 0 => links[s].used
  /\ uses[s] <= 1
  /\ uses[s] > 0 => mailed[s]

\* The invariant without the transactions of account changes.
LinksInv ==
  /\ links \in [Send -> LinkRow] /\ mailed \in [Send -> BOOLEAN]
  /\ uses \in [Send -> Nat] /\ sending \in [Send -> Early \cup Delivering \cup Late]
  /\ seen \in [Redeem -> Send \cup {None}]
  /\ \A s \in Send : LinkFine(s)
  /\ Reset!AtMostOneLive

LEMMA ResetParts ==
  Reset!IInv <=> LinksInv /\ revoking \in [Editors -> SUBSET Send] /\ Reset!RevokesWritten
BY DEF Reset!IInv, Reset!LinksTyped, Reset!OwnLink, Reset!UsedOnce, Reset!UndeliveredUseless,
       LinksInv, LinkRow, Early, Delivering, Late, LinkFine

LEMMA ResetStarts == Reset!Init => Reset!IInv
<1>. SUFFICES ASSUME Reset!Init
              PROVE  Reset!IInv
  OBVIOUS
<1>1. /\ Reset!NoToken \in LinkRow /\ Reset!NoToken.state = "none"
      /\ ~ Reset!NoToken.revoked /\ ~ Reset!NoToken.used
  BY DEF Reset!NoToken, LinkRow
<1>2. /\ links \in [Send -> LinkRow] /\ mailed \in [Send -> BOOLEAN]
      /\ uses \in [Send -> Nat] /\ sending \in [Send -> Early \cup Delivering \cup Late]
      /\ seen \in [Redeem -> Send \cup {None}]
  BY <1>1 DEF Reset!Init, Early
<1>3. \A s \in Send : LinkFine(s)
  BY <1>1 DEF Reset!Init, LinkFine, Delivering
<1>4. Reset!AtMostOneLive
  BY <1>1 DEF Reset!Init, Reset!AtMostOneLive, Reset!Live
<1>5. revoking \in [Editors -> SUBSET Send] /\ Reset!RevokesWritten
  BY DEF Reset!Init, Reset!RevokesWritten
<1>. QED
  BY <1>2, <1>3, <1>4, <1>5, ResetParts DEF LinksInv

\* A step after which no link is live that was not.
LEMMA NoNewLink ==
  ASSUME LinksInv, links' \in [Send -> LinkRow], mailed' \in [Send -> BOOLEAN],
         uses' \in [Send -> Nat], sending' \in [Send -> Early \cup Delivering \cup Late],
         seen' \in [Redeem -> Send \cup {None}], \A s \in Send : LinkFine(s)',
         \A s \in Send : Reset!Live(s)' => Reset!Live(s)
  PROVE  LinksInv' /\ StaysDead
<1>1. Reset!AtMostOneLive'
  BY DEF Reset!AtMostOneLive, LinksInv
<1>2. StaysDead
  BY DEF StaysDead, Reset!Live
<1>. QED
  BY <1>1, <1>2 DEF LinksInv

\* A request goes on; a mail that it sends is remembered.
LEMMA SendMoves ==
  ASSUME LinksInv, NEW s \in Send, NEW q \in Early \cup Delivering \cup Late,
         sending' = [sending EXCEPT ![s] = q], UNCHANGED <<links, uses>>,
         seen' \in [Redeem -> Send \cup {None}],
         mailed' = mailed \/ mailed' = [mailed EXCEPT ![s] = TRUE],
         q \in Early => sending[s] \in Early, q \in Delivering => sending[s] \in Delivering,
         q = "mailed" => mailed'[s]
  PROVE  LinksInv' /\ StaysDead
<1>1. /\ links \in [Send -> LinkRow] /\ mailed \in [Send -> BOOLEAN] /\ uses \in [Send -> Nat]
      /\ sending \in [Send -> Early \cup Delivering \cup Late]
      /\ \A u \in Send : LinkFine(u)
  BY DEF LinksInv
<1>2. \A u \in Send : mailed[u] => mailed'[u]
  BY <1>1
<1>3. /\ sending' \in [Send -> Early \cup Delivering \cup Late] /\ mailed' \in [Send -> BOOLEAN]
      /\ sending'[s] = q /\ \A u \in Send \ {s} : sending'[u] = sending[u]
  BY <1>1
<1>4. \A u \in Send : LinkFine(u)'
  BY <1>1, <1>2, <1>3 DEF LinkFine
<1>5. \A u \in Send : Reset!Live(u)' => Reset!Live(u)
  BY DEF Reset!Live
<1>. QED
  BY <1>1, <1>3, <1>4, <1>5, NoNewLink

\* The delivery is recorded: a link that was revoked meanwhile stays so.
LEMMA DeliveryRecorded ==
  ASSUME LinksInv, NEW s \in Send, NEW state \in {"SENT", "FAILED"}, NEW dead \in BOOLEAN,
         sending[s] \in Delivering, sending' = [sending EXCEPT ![s] = "ending"],
         links' = Reset!mark_reset_delivery(s, state, dead), state = "SENT" => mailed[s],
         UNCHANGED <<mailed, uses, seen>>
  PROVE  LinksInv' /\ StaysDead
<1>1. /\ links \in [Send -> LinkRow] /\ mailed \in [Send -> BOOLEAN] /\ uses \in [Send -> Nat]
      /\ sending \in [Send -> Early \cup Delivering \cup Late]
      /\ seen \in [Redeem -> Send \cup {None}]
      /\ \A u \in Send : LinkFine(u)
  BY DEF LinksInv
<1>. DEFINE r == [state |-> state, revoked |-> links[s].revoked \/ dead, used |-> links[s].used]
<1>2. links' = [links EXCEPT ![s] = r]
  BY <1>1 DEF Reset!mark_reset_delivery
<1>3. /\ r \in LinkRow /\ r.state = state /\ r.used = links[s].used
      /\ r.revoked = (links[s].revoked \/ dead)
  BY <1>1 DEF LinkRow
<1>. HIDE DEF r
<1>4. /\ links' \in [Send -> LinkRow] /\ sending' \in [Send -> Early \cup Delivering \cup Late]
      /\ links'[s] = r /\ sending'[s] = "ending"
      /\ \A u \in Send \ {s} : links'[u] = links[u] /\ sending'[u] = sending[u]
  BY <1>1, <1>2, <1>3 DEF Late
<1>5. \A u \in Send : LinkFine(u)'
  BY <1>1, <1>3, <1>4 DEF LinkFine, Early, Delivering
<1>6. links[s].state = "PENDING"
  BY <1>1 DEF LinkFine
<1>7. \A u \in Send : Reset!Live(u)' => Reset!Live(u)
  BY <1>3, <1>4, <1>6 DEF Reset!Live
<1>. QED
  BY <1>1, <1>4, <1>5, <1>7, NoNewLink

\* Links are revoked, and perhaps one of them is spent; no request goes on.
LEMMA LinksRevoked ==
  ASSUME LinksInv, links' \in [Send -> LinkRow], UNCHANGED <<mailed, sending>>,
         uses' \in [Send -> Nat], seen' \in [Redeem -> Send \cup {None}],
         \A s \in Send : \/ links'[s] = links[s] /\ uses'[s] = uses[s]
                         \/ /\ links[s].state # "none" /\ links'[s].state = links[s].state
                            /\ links'[s].revoked
                            /\ \/ links'[s].used = links[s].used /\ uses'[s] = uses[s]
                               \/ /\ links'[s].used /\ ~ links[s].used /\ mailed[s]
                                  /\ uses'[s] = uses[s] + 1
  PROVE  LinksInv' /\ StaysDead
<1>1. /\ uses \in [Send -> Nat] /\ mailed \in [Send -> BOOLEAN]
      /\ sending \in [Send -> Early \cup Delivering \cup Late]
      /\ \A s \in Send : LinkFine(s)
  BY DEF LinksInv
<1>2. ASSUME NEW s \in Send
      PROVE  LinkFine(s)'
  <2>1. CASE links'[s] = links[s] /\ uses'[s] = uses[s]
    BY <1>1, <2>1 DEF LinkFine
  <2>2. CASE links'[s] # links[s] \/ uses'[s] # uses[s]
    <3>1. sending[s] \notin Early
      BY <1>1, <2>2 DEF LinkFine, Reset!NoToken
    <3>2. uses[s] \in Nat /\ (~ links[s].used => uses[s] = 0)
      BY <1>1 DEF LinkFine
    <3>. QED
      BY <1>1, <2>2, <3>1, <3>2 DEF LinkFine
  <2>. QED
    BY <2>1, <2>2
<1>3. \A s \in Send : Reset!Live(s)' => Reset!Live(s)
  BY DEF Reset!Live
<1>. QED
  BY <1>1, <1>2, <1>3, NoNewLink

\* The new link is the only one: every older one is revoked in the same statement.
LEMMA LinkWritten ==
  ASSUME LinksInv, NEW s \in Send, Reset!Write(s)
  PROVE  LinksInv' /\ StaysDead
<1>1. /\ links \in [Send -> LinkRow] /\ mailed \in [Send -> BOOLEAN] /\ uses \in [Send -> Nat]
      /\ sending \in [Send -> Early \cup Delivering \cup Late]
      /\ seen \in [Redeem -> Send \cup {None}]
      /\ \A u \in Send : LinkFine(u)
  BY DEF LinksInv
<1>. DEFINE new == [Reset!NoToken EXCEPT !.state = "PENDING"]
            old == Reset!revoke_password_reset_tokens(links)
<1>2. /\ links' = [old EXCEPT ![s] = new] /\ sending' = [sending EXCEPT ![s] = "written"]
      /\ sending[s] = "locked" /\ UNCHANGED <<mailed, uses, seen>>
  BY DEF Reset!Write, Reset!WithPending, Reset!others
<1>3. new \in LinkRow /\ new.state = "PENDING" /\ ~ new.used
  BY DEF Reset!NoToken, LinkRow
<1>4. ASSUME NEW u \in Send
      PROVE  /\ old[u] \in LinkRow /\ old[u].state = links[u].state /\ old[u].used = links[u].used
             /\ old[u].state # "none" => old[u].revoked \/ old[u].used
             /\ links[u].state = "none" => old[u] = links[u]
  <2>1. links[u] \in LinkRow
    BY <1>1
  <2>2. old[u] = IF u \in Reset!Revocable THEN [links[u] EXCEPT !.revoked = TRUE] ELSE links[u]
    BY DEF Reset!revoke_password_reset_tokens
  <2>. QED
    BY <2>1, <2>2 DEF Reset!Revocable, LinkRow
<1>5. old \in [Send -> LinkRow]
  BY <1>4 DEF Reset!revoke_password_reset_tokens
<1>. HIDE DEF old, new
<1>6. /\ links' \in [Send -> LinkRow] /\ sending' \in [Send -> Early \cup Delivering \cup Late]
      /\ links'[s] = new /\ sending'[s] = "written"
      /\ \A u \in Send \ {s} : links'[u] = old[u] /\ sending'[u] = sending[u]
  BY <1>1, <1>2, <1>3, <1>5 DEF Delivering
<1>7. uses[s] = 0 /\ ~ links[s].revoked /\ ~ links[s].used
  BY <1>1, <1>2 DEF LinkFine, Early, Reset!NoToken
<1>8. ASSUME NEW u \in Send
      PROVE  LinkFine(u)'
  <2>1. CASE u = s
    BY <1>2, <1>3, <1>6, <1>7, <2>1 DEF LinkFine, Early, Delivering
  <2>2. CASE u # s
    <3>1. links[u] = Reset!NoToken => links'[u] = links[u]
      BY <1>4, <1>6, <2>2 DEF Reset!NoToken
    <3>. QED
      BY <1>1, <1>2, <1>4, <1>6, <2>2, <3>1 DEF LinkFine
  <2>. QED
    BY <2>1, <2>2
<1>9. \A u \in Send \ {s} : ~ Reset!Live(u)'
  BY <1>4, <1>6 DEF Reset!Live
<1>10. Reset!AtMostOneLive'
  BY <1>9 DEF Reset!AtMostOneLive
<1>11. StaysDead
  BY <1>7, <1>9 DEF StaysDead
<1>. QED
  BY <1>1, <1>2, <1>6, <1>8, <1>10, <1>11 DEF LinksInv

\* A change of the account revokes what its transaction has read.
LEMMA ChangeCommitted ==
  ASSUME LinksInv, NEW a \in Editors, Reset!CommitChange(a), revoking \in [Editors -> SUBSET Send],
         \A s \in revoking[a] : links[s].state # "none"
  PROVE  LinksInv' /\ StaysDead
<1>1. /\ links' = [s \in Send |-> IF s \in revoking[a] THEN [links[s] EXCEPT !.revoked = TRUE]
                                  ELSE links[s]]
      /\ UNCHANGED <<mailed, uses, sending, seen>>
  BY DEF Reset!CommitChange, Reset!sessions
<1>2. /\ links \in [Send -> LinkRow] /\ uses \in [Send -> Nat]
      /\ seen \in [Redeem -> Send \cup {None}]
  BY DEF LinksInv
<1>3. ASSUME NEW s \in Send
      PROVE  /\ links'[s] \in LinkRow
             /\ \/ links'[s] = links[s]
                \/ /\ links[s].state # "none" /\ links'[s].state = links[s].state
                   /\ links'[s].revoked /\ links'[s].used = links[s].used
  <2>1. links[s] \in LinkRow
    BY <1>2
  <2>2. links'[s] = IF s \in revoking[a] THEN [links[s] EXCEPT !.revoked = TRUE] ELSE links[s]
    BY <1>1
  <2>. QED
    BY <2>1, <2>2 DEF LinkRow
<1>4. links' \in [Send -> LinkRow]
  BY <1>1, <1>3
<1>. QED
  BY <1>1, <1>2, <1>3, <1>4, LinksRevoked

\* The account is read again under the lock: a link is redeemed only while it is live.
LEMMA LinkRedeemed ==
  ASSUME LinksInv, NEW r \in Redeem, Reset!Reset(r)
  PROVE  LinksInv' /\ StaysDead
<1>1. /\ links \in [Send -> LinkRow] /\ uses \in [Send -> Nat] /\ mailed \in [Send -> BOOLEAN]
      /\ seen \in [Redeem -> Send \cup {None}]
      /\ \A s \in Send : LinkFine(s)
  BY DEF LinksInv
<1>2. /\ seen' = [seen EXCEPT ![r] = None] /\ UNCHANGED <<mailed, sending>>
      /\ seen' \in [Redeem -> Send \cup {None}]
      /\ seen[r] \in Send
  BY <1>1 DEF Reset!Reset, Reset!sessions
<1>3. CASE UNCHANGED <<links, uses>>
  BY <1>1, <1>2, <1>3, LinksRevoked
<1>4. CASE ~ UNCHANGED <<links, uses>>
  <2>. DEFINE old == Reset!revoke_password_reset_tokens(links)
  <2>1. PICK s \in Send : s = seen[r]
    BY <1>2
  <2>2. /\ links' = [old EXCEPT ![s].used = TRUE] /\ uses' = [uses EXCEPT ![s] = @ + 1]
        /\ links[s].state = "SENT" /\ ~ links[s].revoked /\ ~ links[s].used
    BY <1>4, <2>1 DEF Reset!Reset, Reset!StillValid, Reset!Redeemable, Reset!Live
  <2>3. ASSUME NEW u \in Send
        PROVE  /\ old[u] \in LinkRow /\ old[u].state = links[u].state /\ old[u].used = links[u].used
               /\ old[u] = links[u] \/ (links[u].state # "none" /\ old[u].revoked)
               /\ u = s => old[u].revoked
    <3>1. links[u] \in LinkRow
      BY <1>1
    <3>2. old[u] = IF u \in Reset!Revocable THEN [links[u] EXCEPT !.revoked = TRUE] ELSE links[u]
      BY DEF Reset!revoke_password_reset_tokens
    <3>. QED
      BY <2>2, <3>1, <3>2 DEF Reset!Revocable, LinkRow
  <2>4. old \in [Send -> LinkRow]
    BY <2>3 DEF Reset!revoke_password_reset_tokens
  <2>. HIDE DEF old
  <2>5. /\ links'[s] = [old[s] EXCEPT !.used = TRUE]
        /\ \A u \in Send \ {s} : links'[u] = old[u]
    BY <2>2, <2>4
  <2>6. /\ links'[s] \in LinkRow /\ links'[s].state = links[s].state
        /\ links'[s].revoked /\ links'[s].used
    BY <2>3, <2>5 DEF LinkRow
  <2>7. links' \in [Send -> LinkRow]
    BY <2>2, <2>4 DEF LinkRow
  <2>8. /\ uses' \in [Send -> Nat] /\ uses'[s] = uses[s] + 1
        /\ \A u \in Send \ {s} : uses'[u] = uses[u]
    BY <1>1, <2>2
  <2>9. mailed[s]
    BY <1>1, <2>2 DEF LinkFine
  <2>. QED
    BY <1>2, <2>2, <2>3, <2>5, <2>6, <2>7, <2>8, <2>9, LinksRevoked
<1>. QED
  BY <1>3, <1>4

\* A row keeps its state or gets another one; it is never unwritten.
LEMMA RowsStayWritten ==
  ASSUME Reset!IInv, Reset!Next
  PROVE  /\ revoking' \in [Editors -> SUBSET Send] /\ Reset!RevokesWritten'
<1>. USE DEF Reset!account, Reset!sessions, Reset!others
<1>1. links \in [Send -> LinkRow] /\ revoking \in [Editors -> SUBSET Send]
  BY ResetParts DEF LinksInv
<1>2. ASSUME NEW s \in Send, links[s].state # "none"
      PROVE  links'[s].state # "none"
  <2>1. links[s] \in LinkRow
    BY <1>1
  <2>2. CASE links' = links
    BY <1>2, <2>2
  <2>3. ASSUME NEW u \in Send, Reset!Write(u)
        PROVE  links'[s].state # "none"
    BY <1>1, <1>2, <2>1, <2>3 DEF Reset!Write, Reset!WithPending, Reset!NoToken,
       Reset!revoke_password_reset_tokens, LinkRow
  <2>4. ASSUME NEW u \in Send, NEW state \in {"SENT", "FAILED"}, NEW dead \in BOOLEAN,
               links' = Reset!mark_reset_delivery(u, state, dead)
        PROVE  links'[s].state # "none"
    BY <1>1, <1>2, <2>4 DEF Reset!mark_reset_delivery
  <2>5. ASSUME NEW a \in Editors, Reset!CommitChange(a)
        PROVE  links'[s].state # "none"
    BY <1>2, <2>1, <2>5 DEF Reset!CommitChange, LinkRow
  <2>6. ASSUME NEW r \in Redeem, Reset!Reset(r)
        PROVE  links'[s].state # "none"
    <3>. DEFINE old == Reset!revoke_password_reset_tokens(links)
    <3>1. old[s] = links[s] \/ old[s] = [links[s] EXCEPT !.revoked = TRUE]
      BY DEF Reset!revoke_password_reset_tokens
    <3>2. old[s] \in LinkRow /\ old[s].state = links[s].state
      BY <2>1, <3>1 DEF LinkRow
    <3>3. s \in DOMAIN old
      BY DEF Reset!revoke_password_reset_tokens
    <3>4. links' = links \/ links' = [old EXCEPT ![seen[r]].used = TRUE]
      BY <2>6 DEF Reset!Reset
    <3>. HIDE DEF old
    <3>5. links'[s] \in {links[s], old[s], [old[s] EXCEPT !.used = TRUE]}
      BY <3>3, <3>4
    <3>. QED
      BY <1>2, <3>2, <3>5 DEF LinkRow
  <2>. QED
    BY <2>2, <2>3, <2>4, <2>5, <2>6 DEF Reset!Next, Reset!Begin, Reset!Acquire, Reset!Refuse,
       Reset!Aborted, Reset!StartMail, Reset!Deliver, Reset!Record, Reset!Finish, Reset!Open,
       Reset!Abort, Reset!Look
<1>3. CASE UNCHANGED revoking
  BY <1>1, <1>2, <1>3, ResetParts DEF Reset!RevokesWritten
<1>4. ASSUME NEW a \in Editors, NEW S \in SUBSET Send, revoking' = [revoking EXCEPT ![a] = S],
             \A s \in S : links[s].state # "none"
      PROVE  revoking' \in [Editors -> SUBSET Send] /\ Reset!RevokesWritten'
  BY <1>1, <1>2, <1>4, ResetParts DEF Reset!RevokesWritten
<1>5. ASSUME NEW a \in Editors, Reset!Open(a) \/ Reset!CommitChange(a) \/ Reset!Abort(a)
      PROVE  revoking' \in [Editors -> SUBSET Send] /\ Reset!RevokesWritten'
  <2>1. PICK S \in SUBSET Send : revoking' = [revoking EXCEPT ![a] = S] /\ S \subseteq Reset!Revocable
    BY <1>5 DEF Reset!Open, Reset!CommitChange, Reset!Abort, Reset!Revocable
  <2>. QED
    BY <1>4, <2>1 DEF Reset!Revocable
<1>. QED
  BY <1>3, <1>5 DEF Reset!Next, Reset!Begin, Reset!Acquire, Reset!Write, Reset!Refuse,
     Reset!Aborted, Reset!StartMail, Reset!Deliver, Reset!Record, Reset!Finish, Reset!Look,
     Reset!Reset

LEMMA ResetInductive == Reset!IInv /\ [Next]_vars => Reset!IInv' /\ StaysDead
<1>. SUFFICES ASSUME Reset!IInv, [Reset!Next]_resetVars
              PROVE  Reset!IInv' /\ StaysDead
  BY ResetOnly
<1>. USE DEF Reset!account, Reset!sessions, Reset!others
<1>1. LinksInv /\ revoking \in [Editors -> SUBSET Send] /\ Reset!RevokesWritten
  BY ResetParts
<1>2. /\ links \in [Send -> LinkRow] /\ uses \in [Send -> Nat] /\ mailed \in [Send -> BOOLEAN]
      /\ sending \in [Send -> Early \cup Delivering \cup Late]
      /\ seen \in [Redeem -> Send \cup {None}]
  BY <1>1 DEF LinksInv
<1>3. CASE UNCHANGED resetVars
  BY <1>2, <1>3 DEF resetVars, StaysDead, Reset!IInv, Reset!LinksTyped, Reset!OwnLink, Reset!UsedOnce,
     Reset!UndeliveredUseless, Reset!AtMostOneLive, Reset!RevokesWritten, Reset!Live
<1>4. ASSUME UNCHANGED <<links, mailed, uses, sending>>, seen' \in [Redeem -> Send \cup {None}]
      PROVE  LinksInv' /\ StaysDead
  BY <1>1, <1>2, <1>4, LinksRevoked
<1>5. ASSUME NEW s \in Send,
             Reset!Begin(s) \/ Reset!Acquire(s) \/ Reset!Refuse(s) \/ Reset!Aborted(s)
             \/ Reset!StartMail(s) \/ Reset!Finish(s)
      PROVE  LinksInv' /\ StaysDead
  <2>1. UNCHANGED <<links, mailed, uses, seen>>
    BY <1>5 DEF Reset!Begin, Reset!Acquire, Reset!Refuse, Reset!Aborted, Reset!StartMail, Reset!Finish
  <2>2. PICK q \in Early \cup Delivering \cup Late :
          /\ sending' = [sending EXCEPT ![s] = q]
          /\ q \in Early => sending[s] \in Early
          /\ q \in Delivering => sending[s] \in Delivering
          /\ q # "mailed"
    BY <1>5 DEF Reset!Begin, Reset!Acquire, Reset!Refuse, Reset!Aborted, Reset!StartMail,
       Reset!Finish, Early, Delivering, Late
  <2>. QED
    BY <1>1, <1>2, <2>1, <2>2, SendMoves
<1>6. ASSUME NEW s \in Send, Reset!Deliver(s)
      PROVE  LinksInv' /\ StaysDead
  <2>1. sending[s] = "mailing" /\ UNCHANGED <<uses, seen>>
    BY <1>6 DEF Reset!Deliver
  <2>2. CASE mailed' = [mailed EXCEPT ![s] = TRUE] /\ sending' = [sending EXCEPT ![s] = "mailed"]
             /\ UNCHANGED links
    <3>1. mailed'[s]
      BY <1>2, <2>2
    <3>. QED
      BY <1>1, <1>2, <2>1, <2>2, <3>1, SendMoves DEF Delivering, Early
  <2>3. CASE links' = Reset!mark_reset_delivery(s, "FAILED", TRUE) /\ UNCHANGED mailed
             /\ sending' = [sending EXCEPT ![s] = "ending"]
    BY <1>1, <2>1, <2>3, DeliveryRecorded DEF Delivering
  <2>. QED
    BY <1>6, <2>2, <2>3 DEF Reset!Deliver
<1>7. ASSUME NEW s \in Send, Reset!Record(s)
      PROVE  LinksInv' /\ StaysDead
  <2>1. sending[s] = "mailed" /\ UNCHANGED <<uses, mailed, seen>>
        /\ sending' = [sending EXCEPT ![s] = "ending"]
    BY <1>7 DEF Reset!Record
  <2>2. mailed[s] /\ sending[s] \in Delivering
    BY <1>1, <2>1 DEF LinksInv, LinkFine, Delivering
  <2>3. PICK state \in {"SENT", "FAILED"}, dead \in BOOLEAN :
          links' = Reset!mark_reset_delivery(s, state, dead)
    BY <1>7, Zenon DEF Reset!Record
  <2>. QED
    BY <1>1, <2>1, <2>2, <2>3, DeliveryRecorded
<1>8. ASSUME NEW a \in Editors, Reset!Open(a) \/ Reset!Abort(a)
      PROVE  LinksInv' /\ StaysDead
  BY <1>2, <1>4, <1>8 DEF Reset!Open, Reset!Abort
<1>9. ASSUME NEW a \in Editors, Reset!CommitChange(a)
      PROVE  LinksInv' /\ StaysDead
  BY <1>1, <1>9, ChangeCommitted DEF Reset!RevokesWritten
<1>10. ASSUME NEW r \in Redeem, Reset!Look(r)
       PROVE  LinksInv' /\ StaysDead
  <2>1. UNCHANGED <<links, mailed, uses, sending>> /\ seen' \in [Redeem -> Send \cup {None}]
    BY <1>2, <1>10 DEF Reset!Look
  <2>. QED
    BY <1>4, <2>1
<1>11. CASE Reset!Next
  <2>1. LinksInv' /\ StaysDead
    BY <1>1, <1>5, <1>6, <1>7, <1>8, <1>9, <1>10, <1>11, LinkWritten, LinkRedeemed DEF Reset!Next
  <2>2. revoking' \in [Editors -> SUBSET Send] /\ Reset!RevokesWritten'
    BY <1>11, RowsStayWritten
  <2>. QED
    BY <2>1, <2>2 DEF Reset!IInv, Reset!LinksTyped, Reset!OwnLink, Reset!UsedOnce,
       Reset!UndeliveredUseless, LinksInv, LinkRow, Early, Delivering, Late, LinkFine
<1>. QED
  BY <1>3, <1>11

LEMMA OneAtMost ==
  ASSUME NEW S, \A x, y \in S : x = y
  PROVE  Cardinality(S) <= 1
<1>1. CASE S = {}
  BY <1>1, FS_EmptySet
<1>2. CASE S # {}
  <2>1. PICK x : S = {x}
    BY <1>2
  <2>. QED
    BY <2>1, FS_Singleton
<1>. QED
  BY <1>1, <1>2

\* At most one reset link of the user is pending or usable, although sends interleave
\* (their advisory lock does not serialize them), with any numbers of requests, of
\* account changes and of pooled connections.
THEOREM AtMostOneLink == Spec => []OneLiveLink
<1>1. Init => Reset!IInv
  BY ResetStarts DEF Init
<1>2. Reset!IInv => OneLiveLink
  <2>. SUFFICES ASSUME Reset!IInv
                PROVE  Reset!Cardinality({s \in Send : Reset!Live(s)}) <= 1
    BY DEF OneLiveLink, Reset!OneLiveLink
  <2>1. Reset!Cardinality({s \in Send : Reset!Live(s)}) = Cardinality({s \in Send : Reset!Live(s)})
    BY DEF Reset!Cardinality, Cardinality, Reset!IsFiniteSet, IsFiniteSet
  <2>. QED
    BY <2>1, OneAtMost DEF Reset!IInv, Reset!AtMostOneLive
<1>. QED
  BY <1>1, <1>2, ResetInductive, PTL DEF Spec

\* However many browsers redeem it, a link changes the password once, and only if its
\* mail was accepted (portal_reset reads the link again under the lock of the user).
THEOREM LinkUsedOnce == Spec => []UsedOnce
<1>1. Init => Reset!IInv
  BY ResetStarts DEF Init
<1>2. Reset!IInv => UsedOnce
  BY DEF UsedOnce, Reset!IInv
<1>. QED
  BY <1>1, <1>2, ResetInductive, PTL DEF Spec

\* No step brings a revoked or used link back: the recording of a delivery keeps the
\* revocation that happened while the mail was on its way (mark_reset_delivery).
THEOREM LinksStayDead == Spec => RevokedForGood
<1>1. Init => Reset!IInv
  BY ResetStarts DEF Init
<1>2. StaysDead => [\A s \in Send : links[s].revoked \/ links[s].used => ~ Reset!Live(s)']_(Reset!vars)
  BY DEF StaysDead
<1>. QED
  BY <1>1, <1>2, ResetInductive, PTL DEF Spec, RevokedForGood, Reset!RevokedForGood
=============================================================================
