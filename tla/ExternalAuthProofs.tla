------------------------- MODULE ExternalAuthProofs -------------------------
(***************************************************************************)
(* Signing in with an external provider, for any accounts, identities and  *)
(* concurrent callbacks and fetches: a state value completes once, and an  *)
(* account has at most one identity.                                       *)
(***************************************************************************)
EXTENDS Accounts, TLAPS

LEMMA OAuthOnly == [Next]_vars => [OAuth!Next]_oauthVars
BY DEF Next, vars, LockoutStep, SessionStep, ResetStep, OAuthStep, KeysStep

-----------------------------------------------------------------------------
(* Accounts and identities. *)

IdentityInv ==
  /\ account \in [Employees -> {"active", "inactive", "blocked", "deleted"}]
  /\ identity \in [Identities -> OAuth!Accounts \cup {OAuth!Nobody}]
  /\ OAuth!OneIdentity /\ OAuth!NoOrphan

LEMMA IdentitiesStart == OAuth!Init => IdentityInv
BY DEF OAuth!Init, IdentityInv, OAuth!OneIdentity, OAuth!NoOrphan

\* The identities of one account are taken away, by unlinking or by its deletion.
LEMMA IdentityRemoved ==
  ASSUME IdentityInv, NEW a \in OAuth!Accounts,
         identity' = [i \in Identities |-> IF identity[i] = a THEN OAuth!Nobody ELSE identity[i]],
         account' = account \/ (a \in Employees /\ account' = [account EXCEPT ![a] = "deleted"])
  PROVE  IdentityInv'
<1>1. /\ account' \in [Employees -> {"active", "inactive", "blocked", "deleted"}]
      /\ \A e \in Employees : e # a => account'[e] = account[e]
  BY DEF IdentityInv
<1>2. identity' \in [Identities -> OAuth!Accounts \cup {OAuth!Nobody}]
  BY DEF IdentityInv
<1>3. OAuth!OneIdentity'
  BY DEF IdentityInv, OAuth!OneIdentity
<1>4. OAuth!NoOrphan'
  BY <1>1, OAuthAssumption DEF IdentityInv, OAuth!NoOrphan, OAuth!Present, OAuth!ExternalAuthAssumption
<1>. QED
  BY <1>1, <1>2, <1>3, <1>4 DEF IdentityInv

\* A link is made only for an identity and an account that have none.
LEMMA IdentityLinked ==
  ASSUME IdentityInv, NEW i \in Identities, NEW a \in OAuth!Accounts, OAuth!MayLink(i, a),
         identity' = [identity EXCEPT ![i] = a], UNCHANGED account
  PROVE  IdentityInv'
<1>1. /\ identity[i] = OAuth!Nobody /\ OAuth!Present(a)
      /\ \A j \in Identities : identity[j] # a
  BY DEF OAuth!MayLink, OAuth!Linked
<1>2. /\ identity' \in [Identities -> OAuth!Accounts \cup {OAuth!Nobody}]
      /\ identity'[i] = a /\ \A j \in Identities \ {i} : identity'[j] = identity[j]
  BY DEF IdentityInv
<1>3. OAuth!OneIdentity'
  BY <1>1, <1>2 DEF IdentityInv, OAuth!OneIdentity
<1>4. OAuth!NoOrphan'
  BY <1>1, <1>2 DEF IdentityInv, OAuth!NoOrphan, OAuth!Present
<1>. QED
  BY <1>2, <1>3, <1>4 DEF IdentityInv

\* Flags of an account that stays.
LEMMA AccountSet ==
  ASSUME IdentityInv, NEW e \in Employees, NEW s \in {"active", "inactive", "blocked"},
         account' = [account EXCEPT ![e] = s], UNCHANGED identity
  PROVE  IdentityInv'
<1>1. /\ account' \in [Employees -> {"active", "inactive", "blocked", "deleted"}]
      /\ \A f \in Employees : account'[f] = "deleted" => account[f] = "deleted"
  BY DEF IdentityInv
<1>. QED
  BY <1>1 DEF IdentityInv, OAuth!OneIdentity, OAuth!NoOrphan, OAuth!Present

LEMMA IdentitiesStay ==
  ASSUME IdentityInv, UNCHANGED <<account, identity>>
  PROVE  IdentityInv'
BY DEF IdentityInv, OAuth!OneIdentity, OAuth!NoOrphan, OAuth!Present

-----------------------------------------------------------------------------
(* Transactions, callbacks and fetches. *)

\* A row of the table.
RowFine(t) ==
  /\ txn[t] \in OAuth!Transaction
  /\ txn[t].result # "none" =>
       txn[t].consumed /\ txn[t].purpose = "login" /\ txn[t].portal = "employee"
  /\ txn[t].target # OAuth!Nobody => txn[t].purpose = "link" /\ OAuth!Present(txn[t].target)

TxnTyped ==
  /\ started \in 0 .. MaxTxn
  /\ DOMAIN txn \subseteq 1 .. started /\ txn = [t \in DOMAIN txn |-> txn[t]]
  /\ \A t \in DOMAIN txn : RowFine(t)
  /\ callback \in [Callbacks -> {OAuth!NoCall} \cup [id : 1 .. started, row : OAuth!Transaction]]
  /\ fetch \in [Fetches -> 0 .. MaxTxn]
  /\ completed \in [1 .. MaxTxn -> Nat] /\ delivered \in [1 .. MaxTxn -> Nat]
  /\ cancelled \subseteq 1 .. started

TxnInv == TxnTyped /\ \A t \in 1 .. MaxTxn : OAuth!CompletesLater(t)

LEMMA OAuthParts == OAuth!IInv <=> IdentityInv /\ TxnInv
BY DEF OAuth!IInv, OAuth!TypeOK, IdentityInv, TxnInv, TxnTyped, RowFine

LEMMA OAuthPartsNext == OAuth!IInv' <=> IdentityInv' /\ TxnInv'
BY DEF OAuth!IInv, OAuth!TypeOK, IdentityInv, TxnInv, TxnTyped, RowFine

LEMMA TxnStarts == OAuth!Init => TxnInv
<1>. SUFFICES ASSUME OAuth!Init
              PROVE  TxnInv
  OBVIOUS
<1>1. MaxTxn \in Nat
  BY OAuthAssumption DEF OAuth!ExternalAuthAssumption
<1>2. OAuth!NoCall.id = 0
  BY DEF OAuth!NoCall
<1>3. TxnTyped
  BY <1>1 DEF OAuth!Init, TxnTyped
<1>4. \A t \in 1 .. MaxTxn : OAuth!CompletesLater(t)
  BY <1>1, <1>2 DEF OAuth!Init, OAuth!CompletesLater, OAuth!Untouched, OAuth!Unfetched, OAuth!Uncalled
<1>. QED
  BY <1>3, <1>4 DEF TxnInv

\* A callback holds nothing, or a transaction that was started.
LEMMA Held ==
  ASSUME TxnTyped, NEW c \in Callbacks
  PROVE  \/ callback[c] = OAuth!NoCall /\ callback[c].id = 0
         \/ /\ callback[c] # OAuth!NoCall
            /\ callback[c].id \in 1 .. started /\ callback[c].id \in 1 .. MaxTxn
            /\ callback[c].row \in OAuth!Transaction
<1>1. OAuth!NoCall.id = 0
  BY DEF OAuth!NoCall
<1>2. started \in Nat /\ MaxTxn \in Nat /\ started <= MaxTxn
  BY OAuthAssumption DEF OAuth!ExternalAuthAssumption, TxnTyped
<1>3. CASE callback[c] = OAuth!NoCall
  BY <1>1, <1>3
<1>4. CASE callback[c] \in [id : 1 .. started, row : OAuth!Transaction]
  <2>1. callback[c].id \in 1 .. started /\ callback[c].row \in OAuth!Transaction
    BY <1>4
  <2>. QED
    BY <1>1, <1>2, <2>1
<1>. QED
  BY <1>3, <1>4 DEF TxnTyped

\* Rows disappear or grow older; the ones that an unlinking removes were never called.
LEMMA RowsStay ==
  ASSUME TxnInv, DOMAIN txn' \subseteq DOMAIN txn, txn' = [t \in DOMAIN txn' |-> txn'[t]],
         UNCHANGED <<started, callback, fetch, completed, delivered>>,
         \A t \in DOMAIN txn' :
           /\ RowFine(t)' /\ txn'[t].purpose = txn[t].purpose /\ txn'[t].portal = txn[t].portal
           /\ txn'[t].consumed = txn[t].consumed
           /\ txn[t].result = "none" <=> txn'[t].result = "none",
         NEW C \in SUBSET DOMAIN txn, cancelled' = cancelled \cup C,
         \A t \in C : t \notin DOMAIN txn' /\ ~ txn[t].consumed
  PROVE  TxnInv'
<1>1. TxnTyped'
  BY DEF TxnInv, TxnTyped
<1>2. ASSUME NEW t \in 1 .. MaxTxn
      PROVE  OAuth!CompletesLater(t)'
  <2>1. OAuth!CompletesLater(t)
    BY DEF TxnInv
  <2>2. (OAuth!Untouched(t) <=> OAuth!Untouched(t)') /\ (OAuth!Uncalled(t) <=> OAuth!Uncalled(t)')
        /\ (OAuth!Unfetched(t) <=> OAuth!Unfetched(t)')
    BY DEF OAuth!Untouched, OAuth!Uncalled, OAuth!Unfetched
  <2>3. \A c \in Callbacks : OAuth!AsRead(callback[c]) => OAuth!AsRead(callback[c])'
    BY DEF OAuth!AsRead
  <2>4. t \in C => OAuth!Untouched(t) /\ OAuth!Uncalled(t) /\ completed[t] = 0
    BY <2>1 DEF OAuth!CompletesLater, OAuth!Untouched
  <2>. QED
    BY <2>1, <2>2, <2>3, <2>4 DEF OAuth!CompletesLater
<1>. QED
  BY <1>1, <1>2 DEF TxnInv

\* A new transaction takes a number that nobody has seen.
LEMMA TxnStarted ==
  ASSUME TxnInv, NEW purpose \in {"login", "link"}, NEW portal \in {"employee", "admin"},
         NEW target \in OAuth!Accounts \cup {OAuth!Nobody},
         target # OAuth!Nobody => purpose = "link" /\ OAuth!Present(target),
         OAuth!start_transaction(purpose, portal, target)
  PROVE  TxnInv'
<1>. DEFINE new == [purpose |-> purpose, portal |-> portal, target |-> target,
                    age |-> "live", consumed |-> FALSE, result |-> "none"]
            D == {u \in DOMAIN txn : txn[u].age # "old"} \cup {started'}
<1>1. /\ started < MaxTxn /\ started' = started + 1
      /\ txn' = [t \in D |-> IF t \in DOMAIN txn THEN txn[t] ELSE new]
      /\ UNCHANGED <<account, callback, fetch, completed, delivered, cancelled>>
  BY DEF OAuth!start_transaction, OAuth!underWay
<1>2. MaxTxn \in Nat /\ started \in Nat /\ DOMAIN txn \subseteq 1 .. started
  BY OAuthAssumption DEF OAuth!ExternalAuthAssumption, TxnInv, TxnTyped
<1>3. /\ new \in OAuth!Transaction /\ new.result = "none" /\ new.target = target
      /\ new.purpose = purpose /\ ~ new.consumed
  BY DEF OAuth!Transaction
<1>. HIDE DEF new
<1>4. /\ started' \in 1 .. MaxTxn /\ started' \notin DOMAIN txn
      /\ DOMAIN txn' = D /\ D \subseteq 1 .. started' /\ D \subseteq DOMAIN txn \cup {started'}
      /\ txn' = [t \in DOMAIN txn' |-> txn'[t]]
  BY <1>1, <1>2
<1>5. txn'[started'] = new /\ \A t \in DOMAIN txn' : t # started' => t \in DOMAIN txn /\ txn'[t] = txn[t]
  BY <1>1, <1>4
<1>. HIDE DEF D
<1>6. \A t \in DOMAIN txn' : RowFine(t)'
  BY <1>1, <1>3, <1>5 DEF RowFine, TxnInv, TxnTyped, OAuth!Present
<1>7. callback' \in [Callbacks -> {OAuth!NoCall} \cup [id : 1 .. started', row : OAuth!Transaction]]
  <2>1. [id : 1 .. started, row : OAuth!Transaction] \subseteq [id : 1 .. started', row : OAuth!Transaction]
    BY <1>1, <1>2
  <2>. QED
    BY <1>1, <2>1 DEF TxnInv, TxnTyped
<1>8. TxnTyped'
  BY <1>1, <1>2, <1>4, <1>6, <1>7 DEF TxnInv, TxnTyped
<1>9. ASSUME NEW t \in 1 .. MaxTxn
      PROVE  OAuth!CompletesLater(t)'
  <2>1. OAuth!CompletesLater(t)
    BY DEF TxnInv
  <2>2. (OAuth!Untouched(t) <=> OAuth!Untouched(t)') /\ (OAuth!Uncalled(t) <=> OAuth!Uncalled(t)')
        /\ (OAuth!Unfetched(t) <=> OAuth!Unfetched(t)')
    BY <1>1 DEF OAuth!Untouched, OAuth!Uncalled, OAuth!Unfetched
  <2>3. \A c \in Callbacks : callback[c].id # started'
    BY <1>1, <1>2, Held DEF TxnInv
  <2>4. t > started' => t > started
    BY <1>1, <1>2
  <2>5. CASE t = started'
    <3>1. t > started /\ ~ (t > started')
      BY <1>1, <1>2, <2>5
    <3>2. t \notin cancelled
      BY <1>2, <3>1 DEF TxnInv, TxnTyped
    <3>3. OAuth!Untouched(t)' /\ OAuth!Unfetched(t)' /\ OAuth!Uncalled(t)'
      BY <1>1, <2>1, <2>2, <2>3, <2>5, <3>1 DEF OAuth!CompletesLater, OAuth!Uncalled, OAuth!Untouched
    <3>. QED
      BY <1>1, <2>1, <3>1, <3>2, <3>3 DEF OAuth!CompletesLater, OAuth!Uncalled
  <2>6. CASE t # started'
    <3>1. \A c \in Callbacks : callback[c].id = t => (OAuth!AsRead(callback[c]) => OAuth!AsRead(callback[c])')
      BY <1>1, <1>5, <2>6 DEF OAuth!AsRead
    <3>. QED
      BY <1>1, <1>5, <2>1, <2>2, <2>4, <2>6, <3>1 DEF OAuth!CompletesLater
  <2>. QED
    BY <2>5, <2>6
<1>. QED
  BY <1>8, <1>9 DEF TxnInv

\* The row lock: one callback finds the transaction unconsumed.
LEMMA TxnConsumed ==
  ASSUME TxnInv, NEW c \in Callbacks, NEW t \in DOMAIN txn, OAuth!consume_transaction(c, t)
  PROVE  TxnInv'
<1>1. /\ callback[c] = OAuth!NoCall /\ ~ txn[t].consumed
      /\ txn' = [txn EXCEPT ![t].consumed = TRUE]
      /\ callback' = [callback EXCEPT ![c] = IF txn[t].age = "live" THEN OAuth!Call(t) ELSE OAuth!NoCall]
      /\ UNCHANGED <<account, identity, started, fetch, completed, delivered, cancelled>>
  BY DEF OAuth!consume_transaction
<1>2. /\ MaxTxn \in Nat /\ started \in 0 .. MaxTxn /\ DOMAIN txn \subseteq 1 .. started
      /\ txn = [u \in DOMAIN txn |-> txn[u]]
      /\ \A u \in DOMAIN txn : RowFine(u)
      /\ t \in 1 .. started /\ t \in 1 .. MaxTxn
  BY OAuthAssumption DEF OAuth!ExternalAuthAssumption, TxnInv, TxnTyped
<1>3. /\ DOMAIN txn' = DOMAIN txn /\ txn' = [u \in DOMAIN txn' |-> txn'[u]]
      /\ txn'[t] = [txn[t] EXCEPT !.consumed = TRUE]
      /\ \A u \in DOMAIN txn \ {t} : txn'[u] = txn[u]
  BY <1>1, <1>2
<1>4. /\ txn'[t] \in OAuth!Transaction /\ txn'[t].consumed /\ txn'[t].result = txn[t].result
      /\ txn'[t].purpose = txn[t].purpose /\ txn'[t].portal = txn[t].portal
      /\ txn'[t].target = txn[t].target
  BY <1>2, <1>3 DEF RowFine, OAuth!Transaction
<1>5. txn[t].result = "none"
  BY <1>1, <1>2 DEF RowFine
<1>6. \A u \in DOMAIN txn' : RowFine(u)'
  BY <1>1, <1>2, <1>3, <1>4 DEF RowFine, OAuth!Present
<1>7. /\ OAuth!NoCall.id = 0 /\ OAuth!Call(t).id = t /\ OAuth!Call(t).row = txn[t]
      /\ OAuth!Call(t) \in [id : 1 .. started, row : OAuth!Transaction]
  BY <1>2 DEF OAuth!NoCall, OAuth!Call, RowFine
<1>8. /\ callback' \in [Callbacks -> {OAuth!NoCall} \cup [id : 1 .. started, row : OAuth!Transaction]]
      /\ callback'[c] \in {OAuth!NoCall, OAuth!Call(t)}
      /\ \A d \in Callbacks \ {c} : callback'[d] = callback[d]
  BY <1>1, <1>7 DEF TxnInv, TxnTyped
<1>9. TxnTyped'
  BY <1>1, <1>2, <1>3, <1>6, <1>8 DEF TxnInv, TxnTyped
<1>10. ASSUME NEW u \in 1 .. MaxTxn
       PROVE  OAuth!CompletesLater(u)'
  <2>1. /\ OAuth!CompletesLater(u) /\ (OAuth!Untouched(u) <=> OAuth!Untouched(u)')
        /\ OAuth!Unfetched(u) <=> OAuth!Unfetched(u)'
    BY <1>1 DEF TxnInv, OAuth!Untouched, OAuth!Unfetched
  <2>2. CASE u = t
    <3>1. OAuth!Untouched(t) /\ OAuth!Uncalled(t) /\ t \notin cancelled
      BY <1>1, <2>1, <2>2 DEF OAuth!CompletesLater
    <3>2. \A d \in Callbacks : callback'[d].id = t => d = c /\ callback'[d] = OAuth!Call(t)
      BY <1>2, <1>7, <1>8, <3>1 DEF OAuth!Uncalled
    <3>3. \A d \in Callbacks : callback'[d].id = t => OAuth!AsRead(callback[d])'
      BY <1>3, <1>4, <1>5, <1>7, <3>2 DEF OAuth!AsRead
    <3>. QED
      BY <1>1, <1>2, <1>4, <2>1, <2>2, <3>1, <3>2, <3>3 DEF OAuth!CompletesLater
  <2>3. CASE u # t
    <3>1. \A d \in Callbacks : callback'[d].id = u => callback'[d] = callback[d] /\ callback[d].id = u
      BY <1>1, <1>7, <1>8, <2>3
    <3>2. OAuth!Uncalled(u) => OAuth!Uncalled(u)'
      BY <3>1 DEF OAuth!Uncalled
    <3>3. \A d \in Callbacks : callback'[d].id = u => (OAuth!AsRead(callback[d]) => OAuth!AsRead(callback[d])')
      BY <1>3, <2>3, <3>1 DEF OAuth!AsRead
    <3>. QED
      BY <1>1, <1>3, <2>1, <2>3, <3>1, <3>2, <3>3 DEF OAuth!CompletesLater
  <2>. QED
    BY <2>2, <2>3
<1>. QED
  BY <1>9, <1>10 DEF TxnInv

\* A callback ends: it may have completed its transaction, and written a result for it.
LEMMA CallEnds ==
  ASSUME TxnInv, NEW c \in Callbacks, callback[c] # OAuth!NoCall,
         callback' = [callback EXCEPT ![c] = OAuth!NoCall],
         \/ UNCHANGED completed
         \/ completed' = [completed EXCEPT ![callback[c].id] = @ + 1],
         \/ UNCHANGED txn
         \/ /\ txn' = [txn EXCEPT ![callback[c].id].result = "ready"]
            /\ callback[c].row.purpose = "login" /\ callback[c].row.portal = "employee",
         UNCHANGED <<account, started, fetch, delivered, cancelled>>
  PROVE  TxnInv'
<1>1. PICK t \in 1 .. MaxTxn : t = callback[c].id /\ t \in 1 .. started
  BY Held DEF TxnInv
<1>2. /\ MaxTxn \in Nat /\ started \in 0 .. MaxTxn /\ DOMAIN txn \subseteq 1 .. started
      /\ txn = [u \in DOMAIN txn |-> txn[u]] /\ completed \in [1 .. MaxTxn -> Nat]
      /\ \A u \in DOMAIN txn : RowFine(u)
  BY OAuthAssumption DEF OAuth!ExternalAuthAssumption, TxnInv, TxnTyped
<1>3. /\ OAuth!CompletesLater(t) /\ OAuth!Untouched(t) /\ OAuth!AsRead(callback[c])
      /\ \A d \in Callbacks : callback[d].id = t => c = d
  BY <1>1 DEF TxnInv, OAuth!CompletesLater
<1>4. /\ DOMAIN txn' = DOMAIN txn /\ txn' = [u \in DOMAIN txn' |-> txn'[u]]
      /\ \A u \in DOMAIN txn \ {t} : txn'[u] = txn[u]
      /\ t \in DOMAIN txn /\ txn' # txn => txn'[t] = [txn[t] EXCEPT !.result = "ready"]
  BY <1>1, <1>2
<1>5. ASSUME t \in DOMAIN txn
      PROVE  RowFine(t)' /\ txn'[t].consumed = txn[t].consumed
  <2>1. /\ txn[t].consumed /\ txn[t].result = "none"
        /\ txn[t].purpose = callback[c].row.purpose /\ txn[t].portal = callback[c].row.portal
    BY <1>1, <1>3, <1>5 DEF OAuth!AsRead
  <2>2. RowFine(t)
    BY <1>2, <1>5
  <2>3. CASE txn' = txn
    BY <2>2, <2>3 DEF RowFine, OAuth!Present
  <2>4. CASE txn' # txn
    <3>1. txn'[t] = [txn[t] EXCEPT !.result = "ready"]
      BY <1>4, <1>5, <2>4
    <3>2. /\ txn'[t] \in OAuth!Transaction /\ txn'[t].result = "ready"
          /\ txn'[t].consumed = txn[t].consumed /\ txn'[t].target = txn[t].target
          /\ txn'[t].purpose = txn[t].purpose /\ txn'[t].portal = txn[t].portal
      BY <2>2, <3>1 DEF RowFine, OAuth!Transaction
    <3>. QED
      BY <2>1, <2>2, <2>4, <3>2 DEF RowFine, OAuth!Present
  <2>. QED
    BY <2>3, <2>4
<1>6. \A u \in DOMAIN txn' : RowFine(u)'
  BY <1>2, <1>4, <1>5 DEF RowFine, OAuth!Present
<1>7. /\ callback' \in [Callbacks -> {OAuth!NoCall} \cup [id : 1 .. started, row : OAuth!Transaction]]
      /\ callback'[c] = OAuth!NoCall /\ callback'[c].id = 0
      /\ \A d \in Callbacks \ {c} : callback'[d] = callback[d]
  BY DEF TxnInv, TxnTyped, OAuth!NoCall
<1>8. /\ completed' \in [1 .. MaxTxn -> Nat]
      /\ completed'[t] \in {completed[t], completed[t] + 1}
      /\ \A u \in (1 .. MaxTxn) \ {t} : completed'[u] = completed[u]
  <2>1. CASE UNCHANGED completed
    BY <1>2, <2>1
  <2>2. CASE completed' = [completed EXCEPT ![t] = @ + 1]
    <3>1. completed[t] + 1 \in Nat
      BY <1>2
    <3>. QED
      BY <1>2, <2>2, <3>1
  <2>. QED
    BY <1>1, <2>1, <2>2
<1>9. TxnTyped'
  BY <1>2, <1>4, <1>6, <1>7, <1>8 DEF TxnInv, TxnTyped
<1>10. OAuth!CompletesLater(t)'
  <2>1. OAuth!Uncalled(t)'
    BY <1>1, <1>3, <1>7 DEF OAuth!Uncalled
  <2>2. t \notin cancelled /\ ~ (t > started) /\ (t \in DOMAIN txn => txn[t].consumed)
    BY <1>1, <1>2, <1>3 DEF OAuth!CompletesLater, OAuth!Uncalled, OAuth!AsRead
  <2>3. completed'[t] <= 1
    BY <1>3, <1>8 DEF OAuth!Untouched
  <2>4. OAuth!Unfetched(t)'
    BY <1>3 DEF OAuth!Untouched, OAuth!Unfetched
  <2>. QED
    BY <1>4, <1>5, <2>1, <2>2, <2>3, <2>4 DEF OAuth!CompletesLater, OAuth!Uncalled
<1>11. ASSUME NEW u \in (1 .. MaxTxn) \ {t}
       PROVE  OAuth!CompletesLater(u)'
  <2>1. /\ OAuth!CompletesLater(u) /\ (OAuth!Untouched(u) <=> OAuth!Untouched(u)')
        /\ OAuth!Unfetched(u) <=> OAuth!Unfetched(u)'
    BY <1>8 DEF TxnInv, OAuth!Untouched, OAuth!Unfetched
  <2>2. \A d \in Callbacks : callback'[d].id = u => callback'[d] = callback[d] /\ callback[d].id = u
    BY <1>7
  <2>3. OAuth!Uncalled(u) => OAuth!Uncalled(u)'
    BY <2>2 DEF OAuth!Uncalled
  <2>4. \A d \in Callbacks : callback'[d].id = u => (OAuth!AsRead(callback[d]) => OAuth!AsRead(callback[d])')
    BY <1>4, <2>2 DEF OAuth!AsRead
  <2>. QED
    BY <1>4, <1>8, <2>1, <2>2, <2>3, <2>4 DEF OAuth!CompletesLater
<1>. QED
  BY <1>9, <1>10, <1>11 DEF TxnInv

\* A fetch reads a result that is ready, and takes it.
LEMMA ResultRead ==
  ASSUME TxnInv, NEW f \in Fetches, NEW t \in DOMAIN txn, OAuth!ReadResult(f, t)
  PROVE  TxnInv'
<1>1. /\ fetch' = [fetch EXCEPT ![f] = t] /\ txn[t].result = "ready"
      /\ UNCHANGED <<account, txn, started, callback, completed, delivered, cancelled>>
  BY DEF OAuth!ReadResult
<1>2. /\ MaxTxn \in Nat /\ started \in 0 .. MaxTxn /\ t \in 1 .. MaxTxn /\ t \in 1 .. started
      /\ RowFine(t)
  BY OAuthAssumption DEF OAuth!ExternalAuthAssumption, TxnInv, TxnTyped
<1>3. fetch' \in [Fetches -> 0 .. MaxTxn]
  BY <1>1, <1>2 DEF TxnInv, TxnTyped
<1>4. TxnTyped'
  BY <1>1, <1>3 DEF TxnInv, TxnTyped, RowFine, OAuth!Present
<1>5. ASSUME NEW u \in 1 .. MaxTxn
      PROVE  OAuth!CompletesLater(u)'
  <2>1. OAuth!CompletesLater(u) /\ (OAuth!Uncalled(u) <=> OAuth!Uncalled(u)')
    BY <1>1 DEF TxnInv, OAuth!Uncalled
  <2>2. \A d \in Callbacks : OAuth!AsRead(callback[d]) <=> OAuth!AsRead(callback[d])'
    BY <1>1 DEF OAuth!AsRead
  <2>3. CASE u # t
    <3>1. /\ OAuth!Untouched(u) => OAuth!Untouched(u)'
          /\ OAuth!Unfetched(u) => OAuth!Unfetched(u)'
      BY <1>1, <2>3 DEF OAuth!Untouched, OAuth!Unfetched, TxnInv, TxnTyped
    <3>. QED
      BY <1>1, <2>1, <2>2, <3>1 DEF OAuth!CompletesLater
  <2>4. CASE u = t
    <3>1. ~ (t > started) /\ txn[t].consumed /\ OAuth!Uncalled(t)
      BY <1>1, <1>2, <2>1, <2>4 DEF RowFine, OAuth!CompletesLater, OAuth!AsRead, OAuth!Uncalled
    <3>. QED
      BY <1>1, <2>1, <2>4, <3>1 DEF OAuth!CompletesLater, OAuth!Uncalled
  <2>. QED
    BY <2>3, <2>4
<1>. QED
  BY <1>4, <1>5 DEF TxnInv

LEMMA ResultTaken ==
  ASSUME TxnInv, NEW f \in Fetches, OAuth!TakeResult(f)
  PROVE  TxnInv'
<1>1. PICK t \in DOMAIN txn : t = fetch[f]
  BY DEF OAuth!TakeResult
<1>2. /\ txn' = [txn EXCEPT ![t].result = "taken"]
      /\ delivered' = [delivered EXCEPT ![t] = @ + 1] /\ fetch' = [fetch EXCEPT ![f] = 0]
      /\ UNCHANGED <<account, started, callback, completed, cancelled>>
  BY <1>1 DEF OAuth!TakeResult
<1>3. /\ MaxTxn \in Nat /\ started \in 0 .. MaxTxn /\ t \in 1 .. MaxTxn /\ t \in 1 .. started
      /\ DOMAIN txn \subseteq 1 .. started
      /\ txn = [u \in DOMAIN txn |-> txn[u]] /\ delivered \in [1 .. MaxTxn -> Nat]
      /\ \A u \in DOMAIN txn : RowFine(u)
      /\ fetch \in [Fetches -> 0 .. MaxTxn]
  BY OAuthAssumption DEF OAuth!ExternalAuthAssumption, TxnInv, TxnTyped
<1>4. /\ DOMAIN txn' = DOMAIN txn /\ txn' = [u \in DOMAIN txn' |-> txn'[u]]
      /\ \A u \in DOMAIN txn \ {t} : txn'[u] = txn[u]
      /\ txn'[t] = [txn[t] EXCEPT !.result = "taken"]
  BY <1>2, <1>3
<1>5. txn[t].result # "none" /\ txn[t].consumed /\ OAuth!Uncalled(t) /\ ~ (t > started)
  <2>1. OAuth!CompletesLater(t) /\ RowFine(t) /\ ~ OAuth!Unfetched(t)
    BY <1>1, <1>3 DEF TxnInv, OAuth!Unfetched
  <2>. QED
    BY <1>3, <2>1 DEF OAuth!CompletesLater, OAuth!Untouched, OAuth!Uncalled, RowFine
<1>6. /\ txn'[t] \in OAuth!Transaction /\ txn'[t].result = "taken"
      /\ txn'[t].consumed = txn[t].consumed /\ txn'[t].target = txn[t].target
      /\ txn'[t].purpose = txn[t].purpose /\ txn'[t].portal = txn[t].portal
  BY <1>3, <1>4 DEF RowFine, OAuth!Transaction
<1>7. \A u \in DOMAIN txn' : RowFine(u)'
  BY <1>2, <1>3, <1>4, <1>5, <1>6 DEF RowFine, OAuth!Present
<1>8. /\ delivered' \in [1 .. MaxTxn -> Nat] /\ \A u \in (1 .. MaxTxn) \ {t} : delivered'[u] = delivered[u]
      /\ fetch' \in [Fetches -> 0 .. MaxTxn]
      /\ \A g \in Fetches : fetch'[g] \in {fetch[g], 0}
  <2>1. delivered[t] + 1 \in Nat /\ 0 \in 0 .. MaxTxn
    BY <1>3
  <2>. QED
    BY <1>2, <1>3, <2>1
<1>9. TxnTyped'
  BY <1>2, <1>3, <1>4, <1>7, <1>8 DEF TxnInv, TxnTyped
<1>10. OAuth!CompletesLater(t)'
  <2>1. OAuth!CompletesLater(t)
    BY <1>3 DEF TxnInv
  <2>. QED
    BY <1>2, <1>4, <1>5, <1>6, <2>1 DEF OAuth!CompletesLater, OAuth!Uncalled
<1>11. ASSUME NEW u \in (1 .. MaxTxn) \ {t}
       PROVE  OAuth!CompletesLater(u)'
  <2>1. /\ OAuth!CompletesLater(u) /\ (OAuth!Uncalled(u) <=> OAuth!Uncalled(u)')
        /\ OAuth!Unfetched(u) => OAuth!Unfetched(u)'
        /\ OAuth!Untouched(u) => OAuth!Untouched(u)'
    BY <1>2, <1>8 DEF TxnInv, OAuth!Uncalled, OAuth!Unfetched, OAuth!Untouched
  <2>2. \A d \in Callbacks : callback[d].id = u => (OAuth!AsRead(callback[d]) => OAuth!AsRead(callback[d])')
    BY <1>2, <1>4 DEF OAuth!AsRead
  <2>. QED
    BY <1>2, <1>4, <2>1, <2>2 DEF OAuth!CompletesLater
<1>. QED
  BY <1>9, <1>10, <1>11 DEF TxnInv

-----------------------------------------------------------------------------
(* The invariant. *)

LEMMA TxnAges ==
  ASSUME TxnInv, NEW t \in DOMAIN txn, OAuth!Grow(t)
  PROVE  TxnInv'
<1>1. UNCHANGED <<account, identity, started, callback, fetch, completed, delivered, cancelled>>
  BY DEF OAuth!Grow, OAuth!underWay
<1>2. txn = [u \in DOMAIN txn |-> txn[u]] /\ \A u \in DOMAIN txn : RowFine(u)
  BY DEF TxnInv, TxnTyped
<1>3. \/ \E a \in {"expired", "old"} : txn' = [txn EXCEPT ![t].age = a]
      \/ txn[t].result = "ready" /\ txn' = [txn EXCEPT ![t].result = "expired"]
  BY DEF OAuth!Grow
<1>4. /\ DOMAIN txn' = DOMAIN txn /\ txn' = [u \in DOMAIN txn' |-> txn'[u]]
      /\ \A u \in DOMAIN txn \ {t} : txn'[u] = txn[u]
      /\ \/ \E a \in {"expired", "old"} : txn'[t] = [txn[t] EXCEPT !.age = a]
         \/ txn[t].result = "ready" /\ txn'[t] = [txn[t] EXCEPT !.result = "expired"]
  BY <1>2, <1>3
<1>5. /\ txn'[t] \in OAuth!Transaction
      /\ txn'[t].purpose = txn[t].purpose /\ txn'[t].portal = txn[t].portal
      /\ txn'[t].consumed = txn[t].consumed /\ txn'[t].target = txn[t].target
      /\ txn[t].result = "none" <=> txn'[t].result = "none"
  BY <1>2, <1>4 DEF RowFine, OAuth!Transaction
<1>6. \A u \in DOMAIN txn' :
         /\ RowFine(u)' /\ txn'[u].purpose = txn[u].purpose /\ txn'[u].portal = txn[u].portal
         /\ txn'[u].consumed = txn[u].consumed
         /\ txn[u].result = "none" <=> txn'[u].result = "none"
  BY <1>1, <1>2, <1>4, <1>5 DEF RowFine, OAuth!Present
<1>7. cancelled' = cancelled \cup {} /\ {} \in SUBSET DOMAIN txn
  BY <1>1
<1>. QED
  BY <1>1, <1>4, <1>6, <1>7, RowsStay

\* Rows are removed, and the accounts of the ones that stay are still there.
LEMMA TxnRemoved ==
  ASSUME TxnInv, NEW T \in SUBSET DOMAIN txn, txn' = OAuth!Without(T),
         UNCHANGED <<started, callback, fetch, completed, delivered>>,
         \A e \in Employees, t \in DOMAIN txn \ T :
           txn[t].target = e /\ account[e] # "deleted" => account'[e] # "deleted",
         NEW C \in SUBSET T, cancelled' = cancelled \cup C, \A t \in C : ~ txn[t].consumed
  PROVE  TxnInv'
<1>1. /\ DOMAIN txn' = DOMAIN txn \ T /\ txn' = [t \in DOMAIN txn' |-> txn'[t]]
      /\ \A t \in DOMAIN txn' : txn'[t] = txn[t]
  BY DEF OAuth!Without
<1>2. ASSUME NEW t \in DOMAIN txn'
      PROVE  RowFine(t)'
  <2>1. t \in DOMAIN txn \ T /\ txn'[t] = txn[t] /\ RowFine(t)
    BY <1>1 DEF TxnInv, TxnTyped
  <2>2. OAuth!Present(txn[t].target) => OAuth!Present(txn[t].target)'
    BY <2>1 DEF OAuth!Present
  <2>. QED
    BY <2>1, <2>2 DEF RowFine
<1>3. C \in SUBSET DOMAIN txn /\ \A t \in C : t \notin DOMAIN txn' /\ ~ txn[t].consumed
  BY <1>1
<1>. QED
  BY <1>1, <1>2, <1>3, RowsStay

LEMMA OAuthInductive == OAuth!IInv /\ [Next]_vars => OAuth!IInv'
<1>. SUFFICES ASSUME IdentityInv, TxnInv, [OAuth!Next]_oauthVars
              PROVE  IdentityInv' /\ TxnInv'
  BY OAuthOnly, OAuthParts, OAuthPartsNext
<1>. USE DEF OAuth!underWay
<1>1. OAuth!Nobody \notin OAuth!Accounts /\ Admin \notin Employees
  BY OAuthAssumption DEF OAuth!ExternalAuthAssumption
<1>2. CASE UNCHANGED oauthVars
  <2>1. TxnInv'
    BY <1>2 DEF oauthVars, TxnInv, TxnTyped, RowFine, OAuth!Present, OAuth!CompletesLater,
       OAuth!Untouched, OAuth!Unfetched, OAuth!Uncalled, OAuth!AsRead
  <2>. QED
    BY <1>2, <2>1, IdentitiesStay DEF oauthVars
<1>3. ASSUME NEW p \in {"employee", "admin"}, OAuth!login_start(p)
      PROVE  IdentityInv' /\ TxnInv'
  <2>1. TxnInv'
    BY <1>3, TxnStarted DEF OAuth!login_start
  <2>. QED
    BY <1>3, <2>1, IdentitiesStay DEF OAuth!login_start, OAuth!start_transaction
<1>4. ASSUME NEW a \in OAuth!Accounts, OAuth!_start_link(a)
      PROVE  IdentityInv' /\ TxnInv'
  <2>1. PICK p \in {"employee", "admin"} : p = OAuth!Portal(a)
    BY DEF OAuth!Portal
  <2>2. OAuth!start_transaction("link", p, a) /\ OAuth!Present(a)
    BY <1>4, <2>1 DEF OAuth!_start_link
  <2>3. TxnInv'
    BY <2>2, TxnStarted
  <2>. QED
    BY <2>2, <2>3, IdentitiesStay DEF OAuth!start_transaction
<1>5. ASSUME NEW a \in OAuth!Accounts, OAuth!_unlink(a)
      PROVE  IdentityInv' /\ TxnInv'
  <2>1. /\ identity' = [i \in Identities |-> IF identity[i] = a THEN OAuth!Nobody ELSE identity[i]]
        /\ txn' = OAuth!Without(OAuth!PendingLinks(a))
        /\ cancelled' = cancelled \cup OAuth!PendingLinks(a)
        /\ UNCHANGED <<account, started, callback, fetch, completed, delivered>>
    BY <1>5 DEF OAuth!_unlink
  <2>2. PICK T \in SUBSET DOMAIN txn : T = OAuth!PendingLinks(a)
    BY DEF OAuth!PendingLinks
  <2>3. \A t \in T : ~ txn[t].consumed
    BY <2>2 DEF OAuth!PendingLinks
  <2>4. T \in SUBSET T
    OBVIOUS
  <2>5. TxnInv'
    BY <2>1, <2>2, <2>3, <2>4, TxnRemoved
  <2>. QED
    BY <2>1, <2>5, IdentityRemoved
<1>6. ASSUME NEW c \in Callbacks, NEW t \in DOMAIN txn, OAuth!consume_transaction(c, t)
      PROVE  IdentityInv' /\ TxnInv'
  BY <1>6, TxnConsumed, IdentitiesStay DEF OAuth!consume_transaction
<1>7. ASSUME NEW c \in Callbacks, OAuth!CallbackFails(c)
      PROVE  IdentityInv' /\ TxnInv'
  BY <1>7, CallEnds, IdentitiesStay DEF OAuth!CallbackFails, OAuth!CallbackEnds
<1>8. ASSUME NEW c \in Callbacks, NEW i \in Identities, OAuth!_complete_link(c, i)
      PROVE  IdentityInv' /\ TxnInv'
  <2>1. /\ callback[c] # OAuth!NoCall /\ callback' = [callback EXCEPT ![c] = OAuth!NoCall]
        /\ OAuth!MayLink(i, callback[c].row.target)
        /\ identity' = [identity EXCEPT ![i] = callback[c].row.target]
        /\ completed' = [completed EXCEPT ![callback[c].id] = @ + 1]
        /\ UNCHANGED <<account, txn, started, fetch, delivered, cancelled>>
    BY <1>8 DEF OAuth!_complete_link, OAuth!CallbackEnds
  <2>2. TxnInv'
    BY <2>1, CallEnds
  <2>3. callback[c].row \in OAuth!Transaction
    BY <2>1, Held DEF TxnInv
  <2>4. PICK a \in OAuth!Accounts \cup {OAuth!Nobody} : a = callback[c].row.target
    BY <2>3 DEF OAuth!Transaction
  <2>5. OAuth!MayLink(i, a)
    BY <2>1, <2>4 DEF OAuth!MayLink, OAuth!Linked, OAuth!Present
  <2>6. a # OAuth!Nobody
    BY <2>5 DEF OAuth!MayLink, OAuth!Linked
  <2>. QED
    BY <2>1, <2>2, <2>4, <2>5, <2>6, IdentityLinked
<1>9. ASSUME NEW c \in Callbacks, NEW i \in Identities, OAuth!_complete_login(c, i)
      PROVE  IdentityInv' /\ TxnInv'
  <2>1. /\ callback[c] # OAuth!NoCall /\ callback' = [callback EXCEPT ![c] = OAuth!NoCall]
        /\ callback[c].row.purpose = "login"
        /\ OAuth!Portal(identity[i]) = callback[c].row.portal
        /\ txn' = IF identity[i] = Admin THEN txn ELSE [txn EXCEPT ![callback[c].id].result = "ready"]
        /\ completed' = [completed EXCEPT ![callback[c].id] = @ + 1]
        /\ UNCHANGED <<account, identity, started, fetch, delivered, cancelled>>
    BY <1>9 DEF OAuth!_complete_login, OAuth!CallbackEnds
  <2>2. TxnInv'
    BY <2>1, CallEnds DEF OAuth!Portal
  <2>. QED
    BY <2>1, <2>2, IdentitiesStay
<1>10. ASSUME NEW f \in Fetches, NEW t \in DOMAIN txn, OAuth!ReadResult(f, t)
       PROVE  IdentityInv' /\ TxnInv'
  BY <1>10, ResultRead, IdentitiesStay DEF OAuth!ReadResult
<1>11. ASSUME NEW f \in Fetches, OAuth!TakeResult(f)
       PROVE  IdentityInv' /\ TxnInv'
  BY <1>11, ResultTaken, IdentitiesStay DEF OAuth!TakeResult
<1>12. ASSUME NEW t \in DOMAIN txn, OAuth!Grow(t)
       PROVE  IdentityInv' /\ TxnInv'
  BY <1>12, TxnAges, IdentitiesStay DEF OAuth!Grow
<1>13. ASSUME NEW e \in Employees, NEW s \in {"active", "inactive", "blocked"}, OAuth!SetAccount(e, s)
       PROVE  IdentityInv' /\ TxnInv'
  <2>1. /\ account' = [account EXCEPT ![e] = s]
        /\ UNCHANGED <<identity, txn, started, callback, fetch, completed, delivered, cancelled>>
    BY <1>13 DEF OAuth!SetAccount
  <2>2. {} \in SUBSET DOMAIN txn /\ cancelled' = cancelled \cup {} /\ txn' = OAuth!Without({})
    BY <2>1 DEF OAuth!Without, TxnInv, TxnTyped
  <2>3. \A f \in Employees : account[f] # "deleted" => account'[f] # "deleted"
    BY <2>1 DEF IdentityInv
  <2>4. TxnInv'
    BY <2>1, <2>2, <2>3, TxnRemoved
  <2>. QED
    BY <2>1, <2>4, AccountSet
<1>14. ASSUME NEW e \in Employees, OAuth!delete_user(e)
       PROVE  IdentityInv' /\ TxnInv'
  <2>1. /\ account' = [account EXCEPT ![e] = "deleted"]
        /\ identity' = [i \in Identities |-> IF identity[i] = e THEN OAuth!Nobody ELSE identity[i]]
        /\ txn' = OAuth!Without({t \in DOMAIN txn : txn[t].target = e})
        /\ UNCHANGED <<started, callback, fetch, completed, delivered, cancelled>>
    BY <1>14 DEF OAuth!delete_user
  <2>2. PICK T \in SUBSET DOMAIN txn : T = {t \in DOMAIN txn : txn[t].target = e}
    OBVIOUS
  <2>3. {} \in SUBSET T /\ cancelled' = cancelled \cup {}
    BY <2>1
  <2>4. \A f \in Employees, t \in DOMAIN txn \ T :
           txn[t].target = f /\ account[f] # "deleted" => account'[f] # "deleted"
    BY <2>1, <2>2 DEF IdentityInv
  <2>5. TxnInv'
    BY <2>1, <2>2, <2>3, <2>4, TxnRemoved
  <2>6. e \in OAuth!Accounts
    BY DEF OAuth!Accounts
  <2>. QED
    BY <2>1, <2>5, <2>6, IdentityRemoved
<1>. QED
  BY <1>2, <1>3, <1>4, <1>5, <1>6, <1>7, <1>8, <1>9, <1>10, <1>11, <1>12, <1>13, <1>14
     DEF OAuth!Next

\* An account has at most one identity, no link points to a deleted user, and a link that
\* was started before an unlinking is not completed after it (external_auth.py).
THEOREM LinksAreSound == Spec => []LinksSound
<1>1. Init => OAuth!IInv
  BY IdentitiesStart, TxnStarts, OAuthParts DEF Init
<1>2. OAuth!IInv /\ [Next]_vars => OAuth!IInv'
  BY OAuthInductive
<1>3. OAuth!IInv => LinksSound
  <2>. SUFFICES ASSUME OAuth!IInv
                PROVE  LinksSound
    OBVIOUS
  <2>1. IdentityInv /\ TxnInv
    BY OAuthParts
  <2>2. MaxTxn \in Nat /\ started \in 0 .. MaxTxn /\ cancelled \subseteq 1 .. started
    BY <2>1, OAuthAssumption DEF OAuth!ExternalAuthAssumption, TxnInv, TxnTyped
  <2>3. ASSUME NEW t \in cancelled
        PROVE  completed[t] = 0
    <3>1. t \in 1 .. MaxTxn
      BY <2>2
    <3>. QED
      BY <2>1, <3>1 DEF TxnInv, OAuth!CompletesLater
  <2>. QED
    BY <2>1, <2>3 DEF LinksSound, IdentityInv, OAuth!UnlinkCancels
<1>. QED
  BY <1>1, <1>2, <1>3, PTL DEF Spec

\* However many callbacks present a state value, one completes it (consume_transaction).
THEOREM CallbackCompletesOnce == Spec => []CompletedOnce
<1>1. Init => OAuth!IInv
  BY IdentitiesStart, TxnStarts, OAuthParts DEF Init
<1>2. OAuth!IInv /\ [Next]_vars => OAuth!IInv'
  BY OAuthInductive
<1>3. OAuth!IInv => CompletedOnce
  BY OAuthParts DEF TxnInv, OAuth!CompletesLater, OAuth!CompletedOnce, CompletedOnce
<1>. QED
  BY <1>1, <1>2, <1>3, PTL DEF Spec
=============================================================================
