------------------------- MODULE SigningKeysProofs -------------------------
(***************************************************************************)
(* Proofs about SigningKeys, for every number of requests, claims and keys.*)
(***************************************************************************)
EXTENDS SigningKeys, TLAPS

\* A key that is stored belongs to a live claim, one that is gone to a deleted claim.
Placed ==
    \A k \in Keys :
        /\ status[k] \in Stored => domainOf[k] \in Rows /\ Live(domainOf[k])
        /\ status[k] = "gone" => domainOf[k] \in Rows /\ row[domainOf[k]] = "deleted"

\* What a Verify found was there to be found.
Found ==
    \A c \in Calls :
        /\ owned[c] => pc[c] # "idle" /\ mine[c] \in tokens
        /\ seen[c] \subseteq dns

\* The key a Verify promotes is one of its domain, and was published.
Chosen ==
    \A c \in Calls : pc[c] \in {"chosen", "retiring", "activating"} =>
        /\ choice[c] \in dns
        /\ domainOf[choice[c]] = mine[c]
        /\ status[choice[c]] # "none"

\* The rows a transaction has locked are signing keys of its domain, and its alone.
LocksHold ==
    \A c \in Calls :
        /\ Locked(c) \subseteq Signing(mine[c])
        /\ Unlocked(Locked(c), c)

KeysInv ==
    /\ DomainTypes /\ Placed /\ Found /\ Chosen /\ LocksHold
    /\ OneSigner /\ RetiredHasSuccessor /\ SignerWasPublished /\ VerifiedByOwnToken

-----------------------------------------------------------------------------

LEMMA InitKeysInv == Init => KeysInv
  <1>. SUFFICES ASSUME Init PROVE KeysInv
    OBVIOUS
  <1>1. DomainTypes
    BY DEF Init, DomainTypes, Steps
  <1>2. Placed /\ Found /\ Chosen /\ SignerWasPublished /\ VerifiedByOwnToken
    BY DEF Init, Placed, Found, Chosen, SignerWasPublished, VerifiedByOwnToken, Stored
  <1>3. LocksHold
    BY DEF Init, LocksHold, Locked, Unlocked
  <1>4. OneSigner /\ RetiredHasSuccessor
    BY DEF Init, OneSigner, RetiredHasSuccessor, Signing, KeysOf, Stored
  <1>5. QED
    BY <1>1, <1>2, <1>3, <1>4 DEF KeysInv

\* A step that writes neither a claim nor a key: only what the requests know changes.
LEMMA RequestsOnly ==
  ASSUME KeysInv, UNCHANGED <<row, keyVars>>, tokens \subseteq tokens', dns \subseteq dns'
  PROVE  /\ \A r : Signing(r)' = Signing(r) /\ KeysOf(r)' = KeysOf(r)
         /\ (Placed /\ OneSigner /\ RetiredHasSuccessor /\ SignerWasPublished /\ VerifiedByOwnToken)'
  <1>1. \A r : Signing(r)' = Signing(r) /\ KeysOf(r)' = KeysOf(r)
    BY DEF keyVars, Signing, KeysOf
  <1>2. Placed'
    BY DEF KeysInv, keyVars, Placed, Live
  <1>3. OneSigner'
    BY <1>1 DEF KeysInv, OneSigner
  <1>4. RetiredHasSuccessor'
    BY <1>1 DEF KeysInv, keyVars, RetiredHasSuccessor
  <1>5. SignerWasPublished'
    BY DEF KeysInv, keyVars, SignerWasPublished
  <1>6. VerifiedByOwnToken'
    BY DEF KeysInv, VerifiedByOwnToken
  <1>7. QED
    BY <1>1, <1>2, <1>3, <1>4, <1>5, <1>6

\* The other requests' locked keys are signing.
LEMMA LockedAreSigning ==
  ASSUME KeysInv, NEW c \in Calls, NEW k \in Locked(c)
  PROVE  k \in Keys /\ domainOf[k] = mine[c] /\ status[k] = "active"
  BY DEF KeysInv, LocksHold, Signing, KeysOf

\* A step of one request: the others know what they knew, so it is enough that it loses
\* no key, leaves signing those the others have locked, and is right about its own.
LEMMA OneRequest ==
  ASSUME KeysInv, NEW c \in Calls,
         tokens \subseteq tokens', dns \subseteq dns',
         \A k \in Keys : status[k] # "none" => domainOf'[k] = domainOf[k] /\ status'[k] # "none",
         \A d \in Calls \ {c} : \A k \in Locked(d) : status'[k] = "active",
         \A d \in Calls \ {c} :
            /\ pc'[d] = pc[d] /\ mine'[d] = mine[d] /\ owned'[d] = owned[d]
            /\ seen'[d] = seen[d] /\ choice'[d] = choice[d] /\ target'[d] = target[d],
         owned'[c] => pc'[c] # "idle" /\ mine'[c] \in tokens',
         seen'[c] \subseteq dns',
         pc'[c] \in {"chosen", "retiring", "activating"} =>
            /\ choice'[c] \in dns' /\ domainOf'[choice'[c]] = mine'[c] /\ status'[choice'[c]] # "none",
         Locked(c)' \subseteq Signing(mine[c])',
         \A d \in Calls \ {c} : Locked(c)' \cap Locked(d) = {}
  PROVE  (Found /\ Chosen /\ LocksHold)'
  <1>. USE DEF KeysInv
  <1>1. Found'
    BY DEF Found
  <1>2. Chosen'
    <2>. SUFFICES ASSUME NEW d \in Calls \ {c}, pc'[d] \in {"chosen", "retiring", "activating"}
                  PROVE  /\ choice'[d] \in dns' /\ domainOf'[choice'[d]] = mine'[d]
                         /\ status'[choice'[d]] # "none"
      BY DEF Chosen
    <2>1. choice[d] \in Keys
      BY DEF DomainTypes
    <2>2. QED
      BY <2>1 DEF Chosen
  <1>3. \A d \in Calls \ {c} : Locked(d)' = Locked(d)
    BY DEF Locked
  <1>4. \A d \in Calls : (Locked(d) \subseteq Signing(mine[d]))'
    <2>. SUFFICES ASSUME NEW d \in Calls \ {c}, NEW k \in Locked(d)' PROVE k \in Signing(mine[d])'
      OBVIOUS
    <2>1. k \in Locked(d) /\ mine'[d] = mine[d]
      BY <1>3
    <2>2. k \in Keys /\ domainOf[k] = mine[d] /\ status[k] = "active"
      BY <2>1, LockedAreSigning
    <2>3. k \in Keys /\ domainOf'[k] = mine'[d] /\ status'[k] = "active"
      BY <2>1, <2>2
    <2>4. QED
      BY <2>3 DEF Signing, KeysOf, Stored
  <1>5. \A d \in Calls : Unlocked(Locked(d), d)'
    <2>. SUFFICES ASSUME NEW d \in Calls, NEW e \in Calls, e # d PROVE Locked(d)' \cap Locked(e)' = {}
      BY DEF Unlocked
    <2>1. CASE d # c /\ e # c
      BY <2>1, <1>3 DEF LocksHold, Unlocked
    <2>2. CASE d = c \/ e = c
      BY <2>2, <1>3
    <2>3. QED
      BY <2>1, <2>2
  <1>6. QED
    BY <1>1, <1>2, <1>4, <1>5 DEF LocksHold

\* A request that returns knows nothing any more.
LEMMA ReturnTypes ==
  ASSUME KeysInv, NEW c \in Calls, Return(c)
  PROVE  /\ pc' \in [Calls -> Steps]
         /\ mine' \in [Calls -> Rows \cup {NoRow}]
         /\ owned' \in [Calls -> BOOLEAN]
         /\ seen' \in [Calls -> SUBSET Keys]
         /\ choice' \in [Calls -> Keys \cup {NoKey}]
         /\ target' \in [Calls -> SUBSET Keys]
         /\ \A d \in Calls : pc'[d] # "idle" => mine'[d] \in Rows
         /\ \A d \in Calls : pc'[d] \in {"chosen", "retiring", "activating"} => choice'[d] \in Keys
  BY DEF KeysInv, DomainTypes, Return, Steps

LEMMA ReturnKeeps ==
  ASSUME KeysInv, NEW c \in Calls, Return(c), tokens' = tokens, dns' = dns,
         \A k \in Keys : status[k] # "none" => domainOf'[k] = domainOf[k] /\ status'[k] # "none",
         \A d \in Calls \ {c} : \A k \in Locked(d) : status'[k] = "active"
  PROVE  (Found /\ Chosen /\ LocksHold)'
  <1>1. pc'[c] = "idle" /\ ~owned'[c] /\ seen'[c] = {} /\ Locked(c)' = {}
    BY DEF KeysInv, DomainTypes, Return, Locked
  <1>2. \A d \in Calls \ {c} :
            /\ pc'[d] = pc[d] /\ mine'[d] = mine[d] /\ owned'[d] = owned[d]
            /\ seen'[d] = seen[d] /\ choice'[d] = choice[d] /\ target'[d] = target[d]
    BY DEF KeysInv, DomainTypes, Return
  <1>3. QED
    BY <1>1, <1>2, OneRequest

-----------------------------------------------------------------------------
(* The steps that make no key and retire none.                              *)

LEMMA CreateStep == ASSUME KeysInv, NEW c \in Calls, NEW r \in Rows, Create(c, r) PROVE KeysInv'
  <1>. USE DEF KeysInv, Create, keyVars
  <1>1. DomainTypes'
    BY DEF DomainTypes, Steps
  <1>2. \A k \in Keys : domainOf[k] # r \/ status[k] = "none"
    BY DEF DomainTypes, Placed, Live, Stored
  <1>3. Placed'
    BY <1>2 DEF DomainTypes, Placed, Live, Stored
  <1>4. (Found /\ Chosen /\ LocksHold)'
    <2>1. pc'[c] = "adding" /\ Locked(c)' = {} /\ ~owned'[c]
      BY DEF DomainTypes, Found, Locked
    <2>2. QED
      BY <2>1, OneRequest, LockedAreSigning DEF DomainTypes, Found
  <1>5. OneSigner' /\ RetiredHasSuccessor' /\ SignerWasPublished'
    BY DEF OneSigner, RetiredHasSuccessor, SignerWasPublished, Signing, KeysOf
  <1>6. VerifiedByOwnToken'
    BY DEF DomainTypes, VerifiedByOwnToken
  <1>7. QED
    BY <1>1, <1>3, <1>4, <1>5, <1>6

LEMMA RotateStep == ASSUME KeysInv, NEW c \in Calls, NEW r \in Rows, Rotate(c, r) PROVE KeysInv'
  <1>. USE DEF KeysInv, Rotate, keyVars
  <1>1. DomainTypes'
    BY DEF DomainTypes, Steps
  <1>2. pc'[c] = "rotating" /\ Locked(c)' = {} /\ ~owned'[c]
    BY DEF DomainTypes, Found, Locked
  <1>3. (Found /\ Chosen /\ LocksHold)'
    BY <1>2, OneRequest, LockedAreSigning DEF DomainTypes, Found
  <1>4. QED
    BY <1>1, <1>3, RequestsOnly

LEMMA CheckStep == ASSUME KeysInv, NEW c \in Calls, NEW r \in Rows, Check(c, r) PROVE KeysInv'
  <1>. USE DEF KeysInv, Check, keyVars
  <1>1. DomainTypes'
    BY DEF DomainTypes, Steps, KeysOf
  <1>2. pc'[c] = "checked" /\ Locked(c)' = {} /\ (owned'[c] => mine'[c] \in tokens) /\ seen'[c] \subseteq dns
    BY DEF DomainTypes, Locked
  <1>3. (Found /\ Chosen /\ LocksHold)'
    BY <1>2, OneRequest, LockedAreSigning DEF DomainTypes
  <1>4. QED
    BY <1>1, <1>3, RequestsOnly

LEMMA RecordCheckStep == ASSUME KeysInv, NEW c \in Calls, RecordCheck(c) PROVE KeysInv'
  <1>. USE DEF KeysInv, keyVars
  <1>1. CASE Live(mine[c]) /\ pc' = [pc EXCEPT ![c] = "recorded"]
    <2>. USE <1>1 DEF RecordCheck
    <2>1. mine[c] \in Rows /\ pc[c] = "checked" /\ UNCHANGED <<mine, owned, seen, choice, target>>
      BY DEF DomainTypes, Return
    <2>2. DomainTypes'
      BY <2>1 DEF DomainTypes, Steps, Live
    <2>3. pc'[c] = "recorded" /\ Locked(c)' = {}
      BY DEF DomainTypes, Locked
    <2>4. (Found /\ Chosen /\ LocksHold)'
      BY <2>1, <2>3, OneRequest, LockedAreSigning DEF DomainTypes, Found
    <2>5. \A r \in Rows : Live(r)' = Live(r) /\ (row'[r] = "deleted") = (row[r] = "deleted")
      BY <2>1 DEF DomainTypes, Live
    <2>6. Placed'
      BY <2>5 DEF Placed, Live
    <2>7. VerifiedByOwnToken'
      BY <2>1 DEF DomainTypes, Found, VerifiedByOwnToken
    <2>8. OneSigner' /\ RetiredHasSuccessor' /\ SignerWasPublished'
      BY DEF OneSigner, RetiredHasSuccessor, SignerWasPublished, Signing, KeysOf
    <2>9. QED
      BY <2>2, <2>4, <2>6, <2>7, <2>8
  <1>2. CASE Return(c) /\ UNCHANGED row
    <2>. USE <1>2 DEF RecordCheck
    <2>1. DomainTypes'
      BY ReturnTypes DEF DomainTypes
    <2>2. (Found /\ Chosen /\ LocksHold)'
      BY ReturnKeeps, LockedAreSigning
    <2>3. QED
      BY <2>1, <2>2, RequestsOnly
  <1>3. QED
    BY <1>1, <1>2 DEF RecordCheck

LEMMA PromotePendingKeyStep == ASSUME KeysInv, NEW c \in Calls, PromotePendingKey(c) PROVE KeysInv'
  <1>. USE DEF KeysInv, keyVars
  <1>1. ASSUME NEW k \in Promotable(c),
               choice' = [choice EXCEPT ![c] = k], pc' = [pc EXCEPT ![c] = "chosen"],
               UNCHANGED <<mine, owned, seen, target>>
        PROVE KeysInv'
    <2>. USE <1>1 DEF PromotePendingKey
    <2>1. k \in Keys /\ k \in dns /\ domainOf[k] = mine[c] /\ status[k] = "pending"
      BY DEF Promotable, KeysOf, Found
    <2>2. DomainTypes'
      BY <2>1 DEF DomainTypes, Steps
    <2>3. pc'[c] = "chosen" /\ choice'[c] = k /\ Locked(c)' = {}
      BY DEF DomainTypes, Locked
    <2>4. (Found /\ Chosen /\ LocksHold)'
      BY <2>1, <2>3, OneRequest, LockedAreSigning DEF DomainTypes, Found
    <2>5. QED
      BY <2>2, <2>4, RequestsOnly
  <1>2. CASE Return(c)
    <2>. USE <1>2 DEF PromotePendingKey
    <2>1. DomainTypes'
      BY ReturnTypes DEF DomainTypes
    <2>2. (Found /\ Chosen /\ LocksHold)'
      BY ReturnKeeps, LockedAreSigning
    <2>3. QED
      BY <2>1, <2>2, RequestsOnly
  <1>3. QED
    BY <1>1, <1>2 DEF PromotePendingKey

LEMMA BeginActivateStep == ASSUME KeysInv, NEW c \in Calls, BeginActivate(c) PROVE KeysInv'
  <1>. USE DEF KeysInv, BeginActivate, keyVars
  <1>1. DomainTypes'
    BY DEF DomainTypes, Steps, Signing, KeysOf
  <1>2. pc'[c] = "retiring" /\ Locked(c)' = {}
    BY DEF DomainTypes, Locked
  <1>3. (Found /\ Chosen /\ LocksHold)'
    BY <1>2, OneRequest, LockedAreSigning DEF DomainTypes, Found, Chosen
  <1>4. QED
    BY <1>1, <1>3, RequestsOnly

\* The locks are taken on rows that nobody else has locked and that still sign.
LEMMA RetireStep == ASSUME KeysInv, NEW c \in Calls, Retire(c) PROVE KeysInv'
  <1>. USE DEF KeysInv, Retire, keyVars
  <1>1. DomainTypes'
    BY DEF DomainTypes, Steps
  <1>2. pc'[c] = "activating" /\ Locked(c)' = target[c] \cap Signing(mine[c])
    BY DEF DomainTypes, Locked
  <1>3. Signing(mine[c])' = Signing(mine[c])
    BY DEF Signing, KeysOf
  <1>4. \A d \in Calls \ {c} : Locked(c)' \cap Locked(d) = {}
    BY <1>2 DEF Unlocked
  <1>5. /\ \A d \in Calls \ {c} : pc'[d] = pc[d] /\ target'[d] = target[d]
        /\ UNCHANGED <<domainOf, status, tokens, dns, mine, owned, seen, choice>>
        /\ pc[c] = "retiring"
    BY DEF DomainTypes
  <1>6. /\ owned'[c] => mine'[c] \in tokens
        /\ seen'[c] \subseteq dns
        /\ choice'[c] \in dns /\ domainOf'[choice'[c]] = mine'[c] /\ status'[choice'[c]] # "none"
    BY <1>5 DEF Found, Chosen
  <1>7. \A d \in Calls \ {c} : \A k \in Locked(d) : status'[k] = "active"
    BY <1>5, LockedAreSigning
  <1>8. (Found /\ Chosen /\ LocksHold)'
    BY <1>2, <1>3, <1>4, <1>5, <1>6, <1>7, OneRequest
  <1>9. QED
    BY <1>1, <1>8, RequestsOnly

LEMMA FailStep == ASSUME KeysInv, NEW c \in Calls, Fail(c) PROVE KeysInv'
  <1>. USE DEF KeysInv, Fail, keyVars
  <1>1. DomainTypes'
    BY ReturnTypes DEF DomainTypes
  <1>2. (Found /\ Chosen /\ LocksHold)'
    BY ReturnKeeps, LockedAreSigning
  <1>3. QED
    BY <1>1, <1>2, RequestsOnly

LEMMA PublishStep ==
  ASSUME KeysInv, (\E r \in Rows : PublishToken(r)) \/ (\E k \in Keys : PublishKey(k))
  PROVE  KeysInv'
  <1>. USE DEF KeysInv, PublishToken, PublishKey, keyVars, callVars
  <1>1. tokens \subseteq tokens' /\ dns \subseteq dns' /\ DomainTypes'
    BY DEF DomainTypes
  <1>2. Found' /\ Chosen'
    BY <1>1 DEF Found, Chosen
  <1>3. LocksHold'
    BY DEF LocksHold, Unlocked, Locked, Signing, KeysOf
  <1>4. QED
    BY <1>1, <1>2, <1>3, RequestsOnly

-----------------------------------------------------------------------------
(* The steps that make, retire and remove keys.                             *)

\* A new key is nobody's yet, and signs only where none does.
LEMMA NewKey ==
  ASSUME KeysInv, NEW r \in Rows, NEW new \in {"pending", "active"}, CreateDKIMKey(r, new),
         new = "active" => Signing(r) = {}, UNCHANGED <<row, tokens, dns>>
  PROVE  /\ (Placed /\ OneSigner /\ RetiredHasSuccessor /\ SignerWasPublished /\ VerifiedByOwnToken)'
         /\ domainOf' \in [Keys -> Rows \cup {NoRow}]
         /\ status' \in [Keys -> {"none", "pending", "active", "retired", "gone"}]
         /\ bornActive' \subseteq Keys
         /\ \A k \in Keys : status[k] # "none" => domainOf'[k] = domainOf[k] /\ status'[k] = status[k]
  <1>. USE DEF KeysInv
  <1>1. PICK k \in Keys :
           /\ status[k] = "none"
           /\ domainOf' = [domainOf EXCEPT ![k] = r]
           /\ status' = [status EXCEPT ![k] = new]
           /\ bornActive' = IF new = "active" THEN bornActive \cup {k} ELSE bornActive
    BY DEF CreateDKIMKey
  <1>2. /\ domainOf'[k] = r /\ status'[k] = new
        /\ \A j \in Keys \ {k} : domainOf'[j] = domainOf[j] /\ status'[j] = status[j]
    BY <1>1 DEF DomainTypes
  <1>3. /\ domainOf' \in [Keys -> Rows \cup {NoRow}]
        /\ status' \in [Keys -> {"none", "pending", "active", "retired", "gone"}]
        /\ bornActive' \subseteq Keys
    BY <1>1 DEF DomainTypes
  <1>4. Live(r)
    BY DEF CreateDKIMKey
  <1>5. Placed'
    BY <1>2, <1>4 DEF Placed, Live
  <1>6. \A q : Signing(q) \subseteq Signing(q)' /\ Signing(q)' \subseteq Signing(q) \cup {k}
    BY <1>1, <1>2 DEF Signing, KeysOf, Stored
  <1>7. \A q \in Rows : k \in Signing(q)' => q = r /\ new = "active"
    BY <1>2 DEF Signing, KeysOf
  <1>8. OneSigner'
    BY <1>6, <1>7 DEF OneSigner
  <1>9. RetiredHasSuccessor'
    BY <1>2, <1>6 DEF RetiredHasSuccessor
  <1>10. SignerWasPublished'
    BY <1>1, <1>2 DEF SignerWasPublished
  <1>11. VerifiedByOwnToken'
    BY DEF VerifiedByOwnToken
  <1>12. QED
    BY <1>1, <1>2, <1>3, <1>5, <1>8, <1>9, <1>10, <1>11

LEMMA FirstKeyStep == ASSUME KeysInv, NEW c \in Calls, FirstKey(c) PROVE KeysInv'
  <1>. USE DEF KeysInv
  <1>1. Return(c) /\ UNCHANGED <<row, tokens, dns>> /\ mine[c] \in Rows
    BY DEF FirstKey, DomainTypes
  <1>2. CASE Signing(mine[c]) = {} /\ CreateDKIMKey(mine[c], "active")
    <2>1. /\ (Placed /\ OneSigner /\ RetiredHasSuccessor /\ SignerWasPublished /\ VerifiedByOwnToken)'
          /\ domainOf' \in [Keys -> Rows \cup {NoRow}]
          /\ status' \in [Keys -> {"none", "pending", "active", "retired", "gone"}]
          /\ bornActive' \subseteq Keys
          /\ \A k \in Keys : status[k] # "none" => domainOf'[k] = domainOf[k] /\ status'[k] = status[k]
      BY <1>1, <1>2, NewKey
    <2>2. DomainTypes'
      BY <1>1, <2>1, ReturnTypes DEF DomainTypes
    <2>3. (Found /\ Chosen /\ LocksHold)'
      BY <1>1, <2>1, ReturnKeeps, LockedAreSigning
    <2>4. QED
      BY <2>1, <2>2, <2>3
  <1>3. CASE UNCHANGED keyVars
    <2>1. DomainTypes'
      BY <1>1, <1>3, ReturnTypes DEF DomainTypes, keyVars
    <2>2. (Found /\ Chosen /\ LocksHold)'
      BY <1>1, <1>3, ReturnKeeps, LockedAreSigning DEF keyVars
    <2>3. QED
      BY <1>1, <1>3, <2>1, <2>2, RequestsOnly
  <1>4. QED
    BY <1>2, <1>3 DEF FirstKey

LEMMA NextKeyStep == ASSUME KeysInv, NEW c \in Calls, NextKey(c) PROVE KeysInv'
  <1>. USE DEF KeysInv
  <1>1. Return(c) /\ UNCHANGED <<row, tokens, dns>> /\ mine[c] \in Rows
    BY DEF NextKey, DomainTypes
  <1>2. CASE CreateDKIMKey(mine[c], "pending")
    <2>1. /\ (Placed /\ OneSigner /\ RetiredHasSuccessor /\ SignerWasPublished /\ VerifiedByOwnToken)'
          /\ domainOf' \in [Keys -> Rows \cup {NoRow}]
          /\ status' \in [Keys -> {"none", "pending", "active", "retired", "gone"}]
          /\ bornActive' \subseteq Keys
          /\ \A k \in Keys : status[k] # "none" => domainOf'[k] = domainOf[k] /\ status'[k] = status[k]
      BY <1>1, <1>2, NewKey
    <2>2. DomainTypes'
      BY <1>1, <2>1, ReturnTypes DEF DomainTypes
    <2>3. (Found /\ Chosen /\ LocksHold)'
      BY <1>1, <2>1, ReturnKeeps, LockedAreSigning
    <2>4. QED
      BY <2>1, <2>2, <2>3
  <1>3. CASE UNCHANGED keyVars
    <2>1. DomainTypes'
      BY <1>1, <1>3, ReturnTypes DEF DomainTypes, keyVars
    <2>2. (Found /\ Chosen /\ LocksHold)'
      BY <1>1, <1>3, ReturnKeeps, LockedAreSigning DEF keyVars
    <2>3. QED
      BY <1>1, <1>3, <2>1, <2>2, RequestsOnly
  <1>4. QED
    BY <1>2, <1>3 DEF NextKey

\* The swap: the keys it has locked are all that signed, unless the index refuses it or
\* the domain is gone.
LEMMA ActivateStep == ASSUME KeysInv, NEW c \in Calls, Activate(c) PROVE KeysInv'
  <1>. USE DEF KeysInv
  <1>0. PICK k \in Keys, m \in Rows : k = choice[c] /\ m = mine[c]
    BY DEF Activate, DomainTypes
  <1>1. /\ Return(c) /\ UNCHANGED <<row, domainOf, bornActive, tokens, dns>>
        /\ k \in dns /\ domainOf[k] = m /\ status[k] # "none"
        /\ Locked(c) = target[c]
    BY <1>0 DEF Activate, DomainTypes, Chosen, Locked
  <1>2. CASE Rivals(c) # {}
    <2>1. UNCHANGED keyVars
      BY <1>1, <1>2 DEF Activate, keyVars
    <2>2. DomainTypes'
      BY <1>1, <2>1, ReturnTypes DEF DomainTypes, keyVars
    <2>3. (Found /\ Chosen /\ LocksHold)'
      BY <1>1, <2>1, ReturnKeeps, LockedAreSigning DEF keyVars
    <2>4. QED
      BY <1>1, <2>1, <2>2, <2>3, RequestsOnly
  <1>3. CASE Rivals(c) = {}
    <2>1. status' = [j \in Keys |-> IF j = k /\ status[j] \in Stored THEN "active"
                                    ELSE IF j \in target[c] THEN "retired" ELSE status[j]]
      BY <1>0, <1>3 DEF Activate
    <2>2. target[c] \subseteq Signing(m) /\ Signing(m) \subseteq target[c] \cup {k}
      BY <1>0, <1>1, <1>3 DEF LocksHold, Rivals
    <2>3. \A j \in target[c] : j \in Keys /\ domainOf[j] = m /\ status[j] = "active"
      BY <2>2 DEF Signing, KeysOf
    <2>4. DomainTypes'
      <3>1. status' \in [Keys -> {"none", "pending", "active", "retired", "gone"}]
        BY <2>1 DEF DomainTypes
      <3>2. QED
        BY <1>1, <3>1, ReturnTypes DEF DomainTypes
    <2>5. Placed'
      BY <1>1, <2>1, <2>3 DEF Placed, Live, Stored
    <2>6. (Found /\ Chosen /\ LocksHold)'
      <3>1. \A j \in Keys : status[j] # "none" => domainOf'[j] = domainOf[j] /\ status'[j] # "none"
        BY <1>1, <2>1
      <3>2. ASSUME NEW d \in Calls \ {c}, NEW j \in Locked(d) PROVE status'[j] = "active"
        <4>1. j \notin target[c]
          BY <1>1 DEF LocksHold, Unlocked
        <4>2. j \in Keys /\ status[j] = "active"
          BY LockedAreSigning
        <4>3. QED
          BY <2>1, <4>1, <4>2
      <3>3. QED
        BY <1>1, <3>1, <3>2, ReturnKeeps
    <2>7. \A r \in Rows : r # m => Signing(r)' = Signing(r)
      BY <1>1, <2>1, <2>3 DEF Signing, KeysOf, Stored
    <2>8. Signing(m)' \subseteq {k}
      BY <1>1, <2>1, <2>2 DEF Signing, KeysOf, Stored
    <2>9. OneSigner'
      BY <2>7, <2>8 DEF OneSigner
    <2>10. RetiredHasSuccessor'
      <3>. SUFFICES ASSUME NEW j \in Keys, NEW q \in Rows, domainOf'[j] = q, status'[j] = "retired"
                    PROVE Signing(q)' # {}
        BY <2>5 DEF RetiredHasSuccessor, Placed, Stored
      <3>0. domainOf[j] = q /\ (j \in target[c] \/ status[j] = "retired")
        BY <1>1, <2>1
      <3>1. CASE q # m
        <4>1. status[j] = "retired"
          BY <2>3, <3>0, <3>1
        <4>2. Signing(q) # {}
          BY <3>0, <4>1 DEF RetiredHasSuccessor
        <4>3. QED
          BY <2>7, <3>1, <4>2
      <3>2. CASE q = m /\ status[k] \in Stored
        <4>1. status'[k] = "active" /\ domainOf'[k] = m
          BY <1>1, <2>1, <3>2
        <4>2. k \in Signing(q)'
          BY <3>2, <4>1 DEF Signing, KeysOf, Stored
        <4>3. QED
          BY <4>2
      <3>3. CASE q = m /\ status[k] \notin Stored
        <4>1. row[m] = "deleted"
          BY <1>1, <3>3 DEF DomainTypes, Placed, Stored
        <4>2. \A i \in Keys : domainOf[i] = m => status[i] \notin Stored
          BY <4>1 DEF Placed, Live
        <4>3. QED
          BY <2>3, <3>0, <3>3, <4>2 DEF Stored
      <3>4. QED
        BY <3>1, <3>2, <3>3
    <2>11. SignerWasPublished'
      BY <1>1, <2>1 DEF SignerWasPublished
    <2>12. VerifiedByOwnToken'
      BY <1>1 DEF VerifiedByOwnToken
    <2>13. QED
      BY <2>4, <2>5, <2>6, <2>9, <2>10, <2>11, <2>12
  <1>4. QED
    BY <1>2, <1>3

LEMMA DeleteStep == ASSUME KeysInv, NEW r \in Rows, Delete(r) PROVE KeysInv'
  <1>. USE DEF KeysInv, Delete, callVars
  <1>1. \A k \in Keys : status'[k] = IF k \in KeysOf(r) THEN "gone" ELSE status[k]
    OBVIOUS
  <1>2. DomainTypes'
    BY DEF DomainTypes
  <1>3. row'[r] = "deleted" /\ \A q \in Rows \ {r} : row'[q] = row[q]
    BY DEF DomainTypes
  <1>4. Placed'
    BY <1>1, <1>3 DEF Placed, Live, KeysOf, Stored
  <1>5. Found' /\ Chosen'
    BY <1>1 DEF DomainTypes, Found, Chosen, KeysOf
  <1>6. LocksHold'
    <2>. SUFFICES ASSUME NEW d \in Calls PROVE (Locked(d) \subseteq Signing(mine[d]) /\ Unlocked(Locked(d), d))'
      BY DEF LocksHold
    <2>1. Unlocked(Locked(d), d)'
      BY DEF LocksHold, Unlocked, Locked
    <2>2. Locked(d)' = Locked(d)
      BY DEF Locked
    <2>3. \A k \in Locked(d) : k \in Keys /\ domainOf[k] = mine[d] /\ status[k] = "active" /\ k \notin KeysOf(r)
      BY LockedAreSigning
    <2>4. \A k \in Locked(d) : k \in Signing(mine[d])'
      BY <1>1, <2>3 DEF Signing, KeysOf, Stored
    <2>5. QED
      BY <2>1, <2>2, <2>4
  <1>7. \A q : q # r => Signing(q)' = Signing(q)
    BY <1>1 DEF Signing, KeysOf, Stored
  <1>8. Signing(r)' = {}
    BY <1>1 DEF Signing, KeysOf, Stored
  <1>9. OneSigner'
    BY <1>7, <1>8 DEF OneSigner
  <1>10. RetiredHasSuccessor'
    BY <1>1, <1>7 DEF RetiredHasSuccessor, KeysOf, Stored
  <1>11. SignerWasPublished' /\ VerifiedByOwnToken'
    BY <1>1, <1>3 DEF SignerWasPublished, VerifiedByOwnToken
  <1>12. QED
    BY <1>2, <1>4, <1>5, <1>6, <1>9, <1>10, <1>11

-----------------------------------------------------------------------------

LEMMA NextKeysInv == KeysInv /\ [Next]_vars => KeysInv'
  <1>. SUFFICES ASSUME KeysInv, [Next]_vars PROVE KeysInv'
    OBVIOUS
  <1>1. ASSUME NEW c \in Calls, NEW r \in Rows, Create(c, r) \/ Rotate(c, r) \/ Check(c, r) PROVE KeysInv'
    BY <1>1, CreateStep, RotateStep, CheckStep
  <1>2. ASSUME NEW c \in Calls, FirstKey(c) \/ NextKey(c) \/ RecordCheck(c) \/ PromotePendingKey(c)
        PROVE KeysInv'
    BY <1>2, FirstKeyStep, NextKeyStep, RecordCheckStep, PromotePendingKeyStep
  <1>3. ASSUME NEW c \in Calls, BeginActivate(c) \/ Retire(c) \/ Activate(c) \/ Fail(c) PROVE KeysInv'
    BY <1>3, BeginActivateStep, RetireStep, ActivateStep, FailStep
  <1>4. ASSUME NEW r \in Rows, Delete(r) PROVE KeysInv'
    BY <1>4, DeleteStep
  <1>5. CASE (\E r \in Rows : PublishToken(r)) \/ (\E k \in Keys : PublishKey(k))
    BY <1>5, PublishStep
  <1>6. CASE UNCHANGED domainVars
    <2>. USE <1>6 DEF domainVars, keyVars, callVars, KeysInv
    <2>1. DomainTypes' /\ Found' /\ Chosen'
      BY DEF DomainTypes, Found, Chosen
    <2>2. LocksHold'
      BY DEF LocksHold, Unlocked, Locked, Signing, KeysOf
    <2>3. QED
      BY <2>1, <2>2, RequestsOnly
  <1>7. QED
    BY <1>1, <1>2, <1>3, <1>4, <1>5, <1>6 DEF Next, Domains, vars

LEMMA AlwaysKeysInv == Spec => []KeysInv
  BY InitKeysInv, NextKeysInv, PTL DEF Spec

-----------------------------------------------------------------------------
(***************************************************************************)
(* Mail.  A domain that has a signing key keeps one for as long as it is   *)
(* there: what a mail was to be signed with when its domain was looked up  *)
(* it still can be signed with when the key is read.                       *)
(***************************************************************************)

\* What has signed or may sign stays known, and a claim that is gone does not return.
LEMMA DomainsMoveOn ==
  ASSUME KeysInv, Domains
  PROVE  /\ bornActive \cup dns \subseteq bornActive' \cup dns'
         /\ \A r \in Rows : row[r] # "free" => row'[r] # "free" /\ (Live(r)' => Live(r))
  <1>. USE DEF KeysInv, DomainTypes, Live, keyVars, callVars
  <1>1. ASSUME NEW c \in Calls, NEW r \in Rows, Create(c, r)
        PROVE  /\ UNCHANGED <<bornActive, dns>>
               /\ \A q \in Rows : row[q] # "free" => row'[q] = row[q]
    BY <1>1 DEF Create
  <1>2. ASSUME NEW c \in Calls, NEW r \in Rows, Rotate(c, r) \/ Check(c, r)
        PROVE  UNCHANGED <<bornActive, dns, row>>
    BY <1>2 DEF Rotate, Check
  <1>3. ASSUME NEW c \in Calls, FirstKey(c) \/ NextKey(c)
        PROVE  bornActive \subseteq bornActive' /\ UNCHANGED <<dns, row>>
    BY <1>3 DEF FirstKey, NextKey, CreateDKIMKey
  <1>4. ASSUME NEW c \in Calls, RecordCheck(c)
        PROVE  /\ UNCHANGED <<bornActive, dns>>
               /\ \A q \in Rows : row[q] # "free" => row'[q] # "free" /\ (Live(q)' => Live(q))
    BY <1>4 DEF RecordCheck
  <1>5. ASSUME NEW c \in Calls, \/ PromotePendingKey(c) \/ BeginActivate(c) \/ Retire(c)
                                \/ Activate(c) \/ Fail(c)
        PROVE  UNCHANGED <<bornActive, dns, row>>
    BY <1>5 DEF PromotePendingKey, BeginActivate, Retire, Activate, Fail
  <1>6. ASSUME NEW r \in Rows, Delete(r)
        PROVE  /\ UNCHANGED <<bornActive, dns>>
               /\ \A q \in Rows : row'[q] # "free" \/ row[q] = "free"
               /\ \A q \in Rows : Live(q)' => Live(q)
    BY <1>6 DEF Delete
  <1>7. ASSUME NEW r \in Rows, PublishToken(r) PROVE UNCHANGED <<bornActive, dns, row>>
    BY <1>7 DEF PublishToken
  <1>8. ASSUME NEW k \in Keys, PublishKey(k) PROVE dns \subseteq dns' /\ UNCHANGED <<bornActive, row>>
    BY <1>8 DEF PublishKey
  <1>9. bornActive \cup dns \subseteq bornActive' \cup dns'
    BY <1>1, <1>2, <1>3, <1>4, <1>5, <1>6, <1>7, <1>8 DEF Domains
  <1>10. \A q \in Rows : row[q] # "free" => row'[q] # "free" /\ (Live(q)' => Live(q))
    BY <1>1, <1>2, <1>3, <1>4, <1>5, <1>6, <1>7, <1>8 DEF Domains
  <1>11. QED
    BY <1>9, <1>10

\* A swap leaves the domain a key: the one it activates, if that is still there.
LEMMA ActivateLeavesSigner ==
  ASSUME KeysInv, NEW c \in Calls, Activate(c), NEW r \in Rows, Signing(r) # {}
  PROVE  Signing(r)' # {}
  <1>. USE DEF KeysInv
  <1>0. PICK k \in Keys, m \in Rows : k = choice[c] /\ m = mine[c]
    BY DEF Activate, DomainTypes
  <1>1. /\ domainOf' = domainOf /\ domainOf[k] = m /\ status[k] # "none"
        /\ Locked(c) = target[c]
    BY <1>0 DEF Activate, Chosen, Locked
  <1>2. CASE Rivals(c) # {}
    BY <1>1, <1>2 DEF Activate, Signing, KeysOf
  <1>3. CASE Rivals(c) = {}
    <2>1. status' = [j \in Keys |-> IF j = k /\ status[j] \in Stored THEN "active"
                                    ELSE IF j \in target[c] THEN "retired" ELSE status[j]]
      BY <1>0, <1>3 DEF Activate
    <2>2. \A j \in target[c] : j \in Keys /\ domainOf[j] = m
      BY <1>0, <1>1 DEF LocksHold, Signing, KeysOf
    <2>3. CASE r # m
      BY <1>1, <2>1, <2>2, <2>3 DEF Signing, KeysOf, Stored
    <2>4. CASE r = m /\ status[k] \in Stored
      <3>1. status'[k] = "active" /\ domainOf'[k] = r
        BY <1>1, <2>1, <2>4
      <3>2. k \in Signing(r)'
        BY <3>1 DEF Signing, KeysOf, Stored
      <3>3. QED
        BY <3>2
    <2>5. CASE r = m /\ status[k] \notin Stored
      <3>1. row[m] = "deleted"
        BY <1>1, <2>5 DEF DomainTypes, Placed, Stored
      <3>2. \A i \in Keys : domainOf[i] = m => status[i] \notin Stored
        BY <3>1 DEF Placed, Live
      <3>3. QED
        BY <2>5, <3>2 DEF Signing, KeysOf
    <2>6. QED
      BY <2>3, <2>4, <2>5
  <1>4. QED
    BY <1>2, <1>3

LEMMA SignersStay ==
  ASSUME KeysInv, Domains, NEW r \in Rows, Signing(r) # {}, Live(r)'
  PROVE  Signing(r)' # {}
  <1>. USE DEF KeysInv, keyVars, callVars
  <1>1. CASE UNCHANGED <<domainOf, status>>
    BY <1>1 DEF Signing, KeysOf
  <1>2. ASSUME NEW c \in Calls, NEW q \in Rows, Create(c, q) \/ Rotate(c, q) \/ Check(c, q)
        PROVE  UNCHANGED <<domainOf, status>>
    BY <1>2 DEF Create, Rotate, Check
  <1>3. ASSUME NEW c \in Calls, FirstKey(c) \/ NextKey(c)
        PROVE  \A k \in Keys : status[k] # "none" => domainOf'[k] = domainOf[k] /\ status'[k] = status[k]
    BY <1>3 DEF FirstKey, NextKey, CreateDKIMKey, DomainTypes
  <1>4. ASSUME NEW c \in Calls, FirstKey(c) \/ NextKey(c) PROVE Signing(r)' # {}
    BY <1>3, <1>4 DEF Signing, KeysOf, Stored
  <1>5. ASSUME NEW c \in Calls, \/ RecordCheck(c) \/ PromotePendingKey(c) \/ BeginActivate(c)
                                \/ Retire(c) \/ Fail(c)
        PROVE  UNCHANGED <<domainOf, status>>
    BY <1>5 DEF RecordCheck, PromotePendingKey, BeginActivate, Retire, Fail
  <1>6. ASSUME NEW c \in Calls, Activate(c) PROVE Signing(r)' # {}
    BY <1>6, ActivateLeavesSigner
  <1>7. ASSUME NEW q \in Rows, Delete(q) PROVE Signing(r)' # {}
    <2>1. q # r
      BY <1>7 DEF Delete, DomainTypes, Live
    <2>2. QED
      BY <1>7, <2>1 DEF Delete, Signing, KeysOf
  <1>8. ASSUME NEW q \in Rows, PublishToken(q) PROVE UNCHANGED <<domainOf, status>>
    BY <1>8 DEF PublishToken
  <1>9. ASSUME NEW k \in Keys, PublishKey(k) PROVE UNCHANGED <<domainOf, status>>
    BY <1>9 DEF PublishKey
  <1>10. QED
    BY <1>1, <1>2, <1>4, <1>5, <1>6, <1>7, <1>8, <1>9 DEF Domains

StillSigned(m) ==
    /\ m.had => row[m.row] # "free"
    /\ m.at = "found" /\ m.had /\ Live(m.row) => Signing(m.row) # {}

RightlyLeaving(m) ==
    m.at = "resolved" /\ m.by # "api" =>
        IF m.key = NoKey THEN m.by = "worker" /\ ~(m.had /\ Live(m.row))
        ELSE m.key \in bornActive \cup dns

MailRight(m) == StillSigned(m) /\ RightlyLeaving(m)

MailInv == MailTypes /\ \A c \in Calls : MailRight(mail[c])

LEMMA NoMailIsRight ==
  ASSUME KeysInv
  PROVE  /\ NoMail \in [at : {"idle", "found", "resolved"}, by : Senders, row : Rows \cup {NoRow},
                        had : BOOLEAN, key : Keys \cup {NoKey}]
         /\ NoMail.at = "idle" /\ ~NoMail.had
         /\ MailRight(NoMail)
  BY DEF NoMail, Senders, MailRight, StillSigned, RightlyLeaving

\* What a request does to the domain takes nothing away from a mail under way.
LEMMA DomainsKeepMail ==
  ASSUME KeysInv, MailInv, Domains, UNCHANGED mail
  PROVE  MailInv'
  <1>1. MailTypes'
    BY DEF MailInv, MailTypes
  <1>2. ASSUME NEW c \in Calls PROVE MailRight(mail[c])'
    <2>. DEFINE m == mail[c]
    <2>1. m' = m /\ MailRight(m) /\ (m.had => m.row \in Rows)
      BY DEF MailInv, MailTypes
    <2>2. m.had => row[m.row] # "free" /\ row'[m.row] # "free" /\ (Live(m.row)' => Live(m.row))
      BY <2>1, DomainsMoveOn DEF MailRight, StillSigned
    <2>3. m.at = "found" /\ m.had /\ Live(m.row)' => Signing(m.row)' # {}
      BY <2>1, <2>2, SignersStay DEF MailRight, StillSigned
    <2>4. StillSigned(m)'
      BY <2>1, <2>2, <2>3 DEF StillSigned, Live, Signing, KeysOf
    <2>5. m.key \in bornActive \cup dns => m.key \in bornActive' \cup dns'
      BY DomainsMoveOn
    <2>6. RightlyLeaving(m)'
      BY <2>1, <2>2, <2>5 DEF MailRight, RightlyLeaving, Live
    <2>7. QED
      BY <2>4, <2>6 DEF MailRight
  <1>3. QED
    BY <1>1, <1>2 DEF MailInv

LEMMA LookUpIsRight ==
  ASSUME KeysInv, MailInv, NEW c \in Calls, NEW by \in Senders, LookUpDomain(c, by)
  PROVE  \E new \in [at : {"idle", "found", "resolved"}, by : Senders, row : Rows \cup {NoRow},
                     had : BOOLEAN, key : Keys \cup {NoKey}] :
            /\ Becomes(c, new) /\ MailRight(new)
            /\ new.at = "found" \/ new.had => new.row \in Rows
  <1>1. ASSUME NEW r \in Rows, row[r] = "verified", Becomes(c, At("found", by, r, Signing(r) # {}, NoKey))
        PROVE  \E new \in [at : {"idle", "found", "resolved"}, by : Senders, row : Rows \cup {NoRow},
                           had : BOOLEAN, key : Keys \cup {NoKey}] :
                  /\ Becomes(c, new) /\ MailRight(new)
                  /\ new.at = "found" \/ new.had => new.row \in Rows
    <2>. DEFINE new == At("found", by, r, Signing(r) # {}, NoKey)
    <2>1. (Signing(r) # {}) \in BOOLEAN
      OBVIOUS
    <2>2. /\ new.at = "found" /\ new.by = by /\ new.row = r
          /\ new.had = (Signing(r) # {}) /\ new.key = NoKey
      BY DEF At
    <2>3. new \in [at : {"idle", "found", "resolved"}, by : Senders, row : Rows \cup {NoRow},
                   had : BOOLEAN, key : Keys \cup {NoKey}]
      BY <2>1 DEF At
    <2>4. MailRight(new)
      BY <1>1, <2>2 DEF MailRight, StillSigned, RightlyLeaving
    <2>5. QED
      BY <1>1, <2>2, <2>3, <2>4
  <1>2. CASE Becomes(c, Unsigned(by, NoRow, FALSE))
    <2>1. CASE by = "submissiond"
      BY <1>2, <2>1, NoMailIsRight DEF Unsigned
    <2>2. CASE by # "submissiond"
      <3>. DEFINE new == At("resolved", by, NoRow, FALSE, NoKey)
      <3>1. /\ new.at = "resolved" /\ new.by = by /\ new.row = NoRow
            /\ new.had = FALSE /\ new.key = NoKey
        BY DEF At
      <3>2. new \in [at : {"idle", "found", "resolved"}, by : Senders, row : Rows \cup {NoRow},
                     had : BOOLEAN, key : Keys \cup {NoKey}]
        BY DEF At
      <3>3. by = "worker" \/ by = "api"
        BY <2>2 DEF Senders
      <3>4. MailRight(new)
        BY <3>1, <3>3 DEF MailRight, StillSigned, RightlyLeaving
      <3>5. Becomes(c, new)
        BY <1>2, <2>2 DEF Unsigned
      <3>6. QED
        BY <3>1, <3>2, <3>4, <3>5
    <2>3. QED
      BY <2>1, <2>2
  <1>3. QED
    BY <1>1, <1>2 DEF LookUpDomain

LEMMA ReadKeyIsRight ==
  ASSUME KeysInv, MailInv, NEW c \in Calls, ReadKey(c)
  PROVE  \E new \in [at : {"idle", "found", "resolved"}, by : Senders, row : Rows \cup {NoRow},
                     had : BOOLEAN, key : Keys \cup {NoKey}] :
            /\ Becomes(c, new) /\ MailRight(new)
            /\ new.at = "found" \/ new.had => new.row \in Rows
  <1>. DEFINE m == mail[c]
              Good(new) ==
                /\ new \in [at : {"idle", "found", "resolved"}, by : Senders, row : Rows \cup {NoRow},
                            had : BOOLEAN, key : Keys \cup {NoKey}]
                /\ Becomes(c, new) /\ MailRight(new)
                /\ new.at = "found" \/ new.had => new.row \in Rows
  <1>. SUFFICES \E new : Good(new)
    OBVIOUS
  <1>1. /\ m.at = "found" /\ m.by \in Senders /\ m.row \in Rows /\ m.had \in BOOLEAN
        /\ StillSigned(m)
    BY DEF ReadKey, MailInv, MailTypes, MailRight
  <1>2. ASSUME NEW k \in Signing(m.row), Becomes(c, At("resolved", m.by, m.row, m.had, k))
        PROVE  Good(At("resolved", m.by, m.row, m.had, k))
    <2>. DEFINE new == At("resolved", m.by, m.row, m.had, k)
    <2>1. /\ new.at = "resolved" /\ new.by = m.by /\ new.row = m.row
          /\ new.had = m.had /\ new.key = k
      BY DEF At
    <2>2. k \in Keys /\ status[k] = "active"
      BY <1>2 DEF Signing, KeysOf
    <2>3. k \in bornActive \cup dns /\ k # NoKey
      BY <2>2, KeysAssumption DEF KeysInv, SignerWasPublished
    <2>4. MailRight(new)
      BY <1>1, <2>1, <2>3 DEF MailRight, StillSigned, RightlyLeaving
    <2>5. new \in [at : {"idle", "found", "resolved"}, by : Senders, row : Rows \cup {NoRow},
                   had : BOOLEAN, key : Keys \cup {NoKey}]
      BY <1>1, <2>2 DEF At
    <2>6. QED
      BY <1>1, <1>2, <2>1, <2>4, <2>5
  <1>3. ASSUME Signing(m.row) = {} \/ m.by = "api", Becomes(c, Unsigned(m.by, m.row, m.had))
        PROVE  Good(Unsigned(m.by, m.row, m.had))
    <2>1. CASE m.by = "submissiond"
      BY <1>3, <2>1, NoMailIsRight DEF Unsigned
    <2>2. CASE m.by # "submissiond"
      <3>. DEFINE new == At("resolved", m.by, m.row, m.had, NoKey)
      <3>1. /\ new.at = "resolved" /\ new.by = m.by /\ new.row = m.row
            /\ new.had = m.had /\ new.key = NoKey
        BY DEF At
      <3>2. new \in [at : {"idle", "found", "resolved"}, by : Senders, row : Rows \cup {NoRow},
                     had : BOOLEAN, key : Keys \cup {NoKey}]
        BY <1>1 DEF At
      <3>3. m.by = "worker" \/ m.by = "api"
        BY <1>1, <2>2 DEF Senders
      <3>4. MailRight(new)
        BY <1>1, <1>3, <3>1, <3>3 DEF MailRight, StillSigned, RightlyLeaving
      <3>5. Unsigned(m.by, m.row, m.had) = new
        BY <2>2 DEF Unsigned
      <3>6. QED
        BY <1>1, <1>3, <3>1, <3>2, <3>4, <3>5
    <2>3. QED
      BY <2>1, <2>2
  <1>4. ASSUME Becomes(c, NoMail) PROVE Good(NoMail)
    BY <1>4, NoMailIsRight
  <1>5. \/ \E k \in Signing(m.row) : Becomes(c, At("resolved", m.by, m.row, m.had, k))
        \/ Signing(m.row) = {} /\ Becomes(c, Unsigned(m.by, m.row, m.had))
        \/ m.by = "api" /\ Becomes(c, Unsigned(m.by, m.row, m.had))
        \/ Becomes(c, NoMail)
    BY DEF ReadKey, Opened
  <1>. HIDE DEF Good, m
  <1>6. QED
    BY <1>2, <1>3, <1>4, <1>5

\* A step of one mail leaves the others where they are.
LEMMA MailKeepsMail ==
  ASSUME KeysInv, MailInv, NEW c \in Calls, Mail(c), UNCHANGED domainVars
  PROVE  MailInv'
  <1>1. PICK new \in [at : {"idle", "found", "resolved"}, by : Senders, row : Rows \cup {NoRow},
                      had : BOOLEAN, key : Keys \cup {NoKey}] :
           /\ Becomes(c, new) /\ MailRight(new)
           /\ new.at = "found" \/ new.had => new.row \in Rows
    <2>1. CASE Leave(c)
      BY <2>1, NoMailIsRight DEF Leave
    <2>2. QED
      BY <2>1, LookUpIsRight, ReadKeyIsRight DEF Mail
  <1>2. mail' = [mail EXCEPT ![c] = new]
    BY <1>1 DEF Becomes
  <1>3. MailTypes'
    BY <1>1, <1>2 DEF MailInv, MailTypes
  <1>4. ASSUME NEW d \in Calls PROVE MailRight(mail'[d])
    BY <1>1, <1>2 DEF MailInv, MailTypes
  <1>5. ASSUME NEW d \in Calls PROVE MailRight(mail[d])'
    BY <1>4 DEF domainVars, keyVars, MailRight, StillSigned, RightlyLeaving, Live, Signing, KeysOf
  <1>6. QED
    BY <1>3, <1>5 DEF MailInv

LEMMA AlwaysMailInv == Spec => []MailInv
  <1>1. Init => MailInv
    <2>. SUFFICES ASSUME Init PROVE MailInv
      OBVIOUS
    <2>1. KeysInv /\ \A c \in Calls : mail[c] = NoMail
      BY InitKeysInv DEF Init
    <2>2. mail \in [Calls -> {NoMail}]
      BY DEF Init
    <2>3. QED
      BY <2>1, <2>2, NoMailIsRight DEF MailInv, MailTypes
  <1>2. KeysInv /\ MailInv /\ [Next]_vars => MailInv'
    <2>. SUFFICES ASSUME KeysInv, MailInv, [Next]_vars PROVE MailInv'
      OBVIOUS
    <2>1. CASE UNCHANGED vars
      BY <2>1 DEF vars, domainVars, keyVars, MailInv, MailTypes, MailRight, StillSigned, RightlyLeaving,
         Live, Signing, KeysOf
    <2>2. QED
      BY <2>1, DomainsKeepMail, MailKeepsMail DEF Next
  <1>3. QED
    BY <1>1, <1>2, AlwaysKeysInv, PTL DEF Spec

\* Every variable keeps its type (SigningKeys).
THEOREM TypeCorrect == Spec => []TypeOK
  <1>1. KeysInv /\ MailInv => TypeOK
    BY DEF KeysInv, MailInv, TypeOK
  <1>2. QED
    BY <1>1, AlwaysKeysInv, AlwaysMailInv, PTL

\* However Add, RotateDKIM, Verify and Delete interleave, a domain has at most one key
\* that signs (dkim_keys_one_active with the transaction of ActivateDKIMKey).
THEOREM SignerIsOne == Spec => []OneSigner
  <1>1. KeysInv => OneSigner
    BY DEF KeysInv
  <1>2. QED
    BY <1>1, AlwaysKeysInv, PTL

\* No failure and no race in a rotation leaves a domain that signed without a signing
\* key (ActivateDKIMKey).
THEOREM SigningGoesOn == Spec => []RetiredHasSuccessor
  <1>1. KeysInv => RetiredHasSuccessor
    BY DEF KeysInv
  <1>2. QED
    BY <1>1, AlwaysKeysInv, PTL

\* Whatever is signed after a rotation can be checked against a record that was
\* published (Verify, promotePendingKey).
THEOREM SignerKnown == Spec => []SignerWasPublished
  <1>1. KeysInv => SignerWasPublished
    BY DEF KeysInv
  <1>2. QED
    BY <1>1, AlwaysKeysInv, PTL

\* A claim is verified by its own challenge only (RecordCheck).
THEOREM OwnershipProven == Spec => []VerifiedByOwnToken
  <1>1. KeysInv => VerifiedByOwnToken
    BY DEF KeysInv
  <1>2. QED
    BY <1>1, AlwaysKeysInv, PTL

\* A domain's mail does not leave unsigned because its keys were rotated meanwhile or one
\* could not be opened, and what signs it has been published (resolveDKIM).
THEOREM SignedOrKept == Spec => []SignedOrNotSent
  <1>1. MailInv => SignedOrNotSent
    BY DEF MailInv, MailRight, RightlyLeaving, SignedOrNotSent
  <1>2. QED
    BY <1>1, AlwaysMailInv, PTL
=============================================================================
