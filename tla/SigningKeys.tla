---------------------------- MODULE SigningKeys ----------------------------
(***************************************************************************)
(* The DKIM keys of a sending domain.  Add claims the name and makes the   *)
(* key that signs at once; RotateDKIM makes a pending one; Verify looks    *)
(* the records up in the DNS, notes that the domain is owned and promotes  *)
(* a pending key it saw published, retiring the one that signed.  Meanwhile*)
(* mail from the domain looks for the key to sign with.                    *)
(*                                                                         *)
(* Source: internal/maildomain/{maildomain,dkim,records}.go and the index  *)
(* dkim_keys_one_active; for the mail also internal/email/queue.go,        *)
(* internal/account/service.go and internal/submission/relay.go.  One      *)
(* domain name: a row is one claim to it, and the name being unique, one   *)
(* row at a time.  A request for a workspace that has no row for the name  *)
(* changes nothing and is no step.                                         *)
(***************************************************************************)
EXTENDS Naturals, FiniteSets

CONSTANTS
    Calls,      \* requests being served, and mails being sent
    Rows,       \* claims to the name
    Keys,       \* keys ever made, numbered in the order of created_at
    SealedElsewhere,  \* those made by a replica with another SECRET_KEY than the senders'
    NoRow, NoKey

ASSUME KeysAssumption == Keys \subseteq Nat /\ NoRow \notin Rows /\ NoKey \notin Keys

VARIABLES
    row,        \* of each claim: not yet made, claimed, verified, deleted
    domainOf,   \* domain_id of each key
    status,     \* is_active and retired_at of each key
    tokens,     \* claims whose challenge record has been in the DNS
    dns,        \* keys whose record has been in the DNS
    pc,         \* where each request stands
    mine,       \* the row it read
    owned,      \* Verify: it found the challenge record
    seen,       \* Verify: the keys whose record it found
    choice,     \* Verify: the key it is promoting
    target,     \* Verify: the keys its transaction retires
    bornActive, \* keys that signed from the start, a history variable
    mail        \* the mail each is about, if it is one

keyVars == <<domainOf, status, bornActive>>
callVars == <<pc, mine, owned, seen, choice, target>>
domainVars == <<row, keyVars, tokens, dns, callVars>>
vars == <<domainVars, mail>>

Steps == {"idle", "adding", "rotating", "checked", "recorded", "chosen", "retiring", "activating"}

\* The worker, the submission server, and the API for its own codes and links.
Senders == {"worker", "submissiond", "api"}

\* had: the domain had a signing key when it was looked up, a history field.
NoMail == [at |-> "idle", by |-> "worker", row |-> NoRow, had |-> FALSE, key |-> NoKey]

DomainTypes ==
    /\ row \in [Rows -> {"free", "claimed", "verified", "deleted"}]
    /\ domainOf \in [Keys -> Rows \cup {NoRow}]
    /\ status \in [Keys -> {"none", "pending", "active", "retired", "gone"}]
    /\ tokens \subseteq Rows
    /\ dns \subseteq Keys
    /\ pc \in [Calls -> Steps]
    /\ mine \in [Calls -> Rows \cup {NoRow}]
    /\ owned \in [Calls -> BOOLEAN]
    /\ seen \in [Calls -> SUBSET Keys]
    /\ choice \in [Calls -> Keys \cup {NoKey}]
    /\ target \in [Calls -> SUBSET Keys]
    /\ bornActive \subseteq Keys
    /\ \A c \in Calls : pc[c] # "idle" => mine[c] \in Rows
    /\ \A c \in Calls : pc[c] \in {"chosen", "retiring", "activating"} => choice[c] \in Keys

MailTypes ==
    /\ mail \in [Calls -> [at : {"idle", "found", "resolved"}, by : Senders, row : Rows \cup {NoRow},
                           had : BOOLEAN, key : Keys \cup {NoKey}]]
    /\ \A c \in Calls : mail[c].at = "found" \/ mail[c].had => mail[c].row \in Rows

TypeOK == DomainTypes /\ MailTypes

Init ==
    /\ row = [r \in Rows |-> "free"]
    /\ domainOf = [k \in Keys |-> NoRow]
    /\ status = [k \in Keys |-> "none"]
    /\ tokens = {} /\ dns = {} /\ bornActive = {}
    /\ pc = [c \in Calls |-> "idle"]
    /\ mine = [c \in Calls |-> NoRow]
    /\ owned = [c \in Calls |-> FALSE]
    /\ seen = [c \in Calls |-> {}]
    /\ choice = [c \in Calls |-> NoKey]
    /\ target = [c \in Calls |-> {}]
    /\ mail = [c \in Calls |-> NoMail]

Stored == {"pending", "active", "retired"}
Live(r) == row[r] \in {"claimed", "verified"}
KeysOf(r) == {k \in Keys : domainOf[k] = r /\ status[k] \in Stored}
Signing(r) == {k \in KeysOf(r) : status[k] = "active"}

\* The row locks of an ActivateDKIMKey between its two statements.
Locked(c) == IF pc[c] = "activating" THEN target[c] ELSE {}
Unlocked(S, c) == \A d \in Calls \ {c} : S \cap Locked(d) = {}

Return(c) ==
    /\ pc' = [pc EXCEPT ![c] = "idle"]
    /\ mine' = [mine EXCEPT ![c] = NoRow]
    /\ owned' = [owned EXCEPT ![c] = FALSE]
    /\ seen' = [seen EXCEPT ![c] = {}]
    /\ choice' = [choice EXCEPT ![c] = NoKey]
    /\ target' = [target EXCEPT ![c] = {}]

-----------------------------------------------------------------------------
(* Add and RotateDKIM.  A key is made after the domain's row is read or     *)
(* written, in a statement of its own.                                      *)

Create(c, r) ==
    /\ pc[c] = "idle"
    /\ row[r] = "free" /\ \A q \in Rows : ~Live(q)
    /\ row' = [row EXCEPT ![r] = "claimed"]
    /\ pc' = [pc EXCEPT ![c] = "adding"]
    /\ mine' = [mine EXCEPT ![c] = r]
    /\ UNCHANGED <<keyVars, tokens, dns, owned, seen, choice, target>>

Rotate(c, r) ==
    /\ pc[c] = "idle" /\ Live(r)
    /\ pc' = [pc EXCEPT ![c] = "rotating"]
    /\ mine' = [mine EXCEPT ![c] = r]
    /\ UNCHANGED <<row, keyVars, tokens, dns, owned, seen, choice, target>>

\* The foreign key wants the domain's row.
CreateDKIMKey(r, new) ==
    /\ Live(r)
    /\ \E k \in Keys :
          /\ status[k] = "none" /\ \A j \in Keys : j < k => status[j] # "none"
          /\ domainOf' = [domainOf EXCEPT ![k] = r]
          /\ status' = [status EXCEPT ![k] = new]
          /\ bornActive' = IF new = "active" THEN bornActive \cup {k} ELSE bornActive

\* The index refuses a second active key; while the first one's row is locked, it waits.
FirstKey(c) ==
    /\ pc[c] = "adding"
    /\ \/ Signing(mine[c]) = {} /\ CreateDKIMKey(mine[c], "active")
       \/ /\ ~Live(mine[c]) \/ Signing(mine[c]) # {}
          /\ Unlocked(Signing(mine[c]), c)
          /\ UNCHANGED keyVars
    /\ Return(c)
    /\ UNCHANGED <<row, tokens, dns>>

NextKey(c) ==
    /\ pc[c] = "rotating"
    /\ CreateDKIMKey(mine[c], "pending") \/ (~Live(mine[c]) /\ UNCHANGED keyVars)
    /\ Return(c)
    /\ UNCHANGED <<row, tokens, dns>>

-----------------------------------------------------------------------------
(* Verify.  It reads the row and the list of its keys and looks each record *)
(* up.  A lookup may miss a record that is there, so what all of them found *)
(* is any part of what is published by the last one; listing the keys at    *)
(* that moment loses no outcome either, for it may have missed the new ones.*)

Check(c, r) ==
    /\ pc[c] = "idle" /\ Live(r)
    /\ \E o \in BOOLEAN, found \in SUBSET (KeysOf(r) \cap dns) :
          /\ o => r \in tokens
          /\ owned' = [owned EXCEPT ![c] = o]
          /\ seen' = [seen EXCEPT ![c] = found]
    /\ pc' = [pc EXCEPT ![c] = "checked"]
    /\ mine' = [mine EXCEPT ![c] = r]
    /\ UNCHANGED <<row, keyVars, tokens, dns, choice, target>>

\* Mutant: RecordCheck by name: it verifies whatever claim now has it.
MutRecordCheck(c) ==
    /\ pc[c] = "checked"
    /\ row' = [r \in Rows |-> IF Live(r) /\ owned[c] THEN "verified" ELSE row[r]]
    /\ pc' = [pc EXCEPT ![c] = "recorded"]
    /\ UNCHANGED <<keyVars, tokens, dns, mine, owned, seen, choice, target>>

\* By id: ErrNotFound if the row is gone.  A failed check leaves verified_at alone.
RecordCheck(c) ==
    /\ pc[c] = "checked"
    /\ \/ /\ Live(mine[c])
          /\ row' = IF owned[c] THEN [row EXCEPT ![mine[c]] = "verified"] ELSE row
          /\ pc' = [pc EXCEPT ![c] = "recorded"]
          /\ UNCHANGED <<mine, owned, seen, choice, target>>
       \/ ~Live(mine[c]) /\ Return(c) /\ UNCHANGED row
    /\ UNCHANGED <<keyVars, tokens, dns>>

\* Mutant: promotePendingKey without asking what was published.
MutPromotable(c) == {k \in KeysOf(mine[c]) : status[k] = "pending"}

\* The pending keys the check found published, read afresh.
Promotable(c) == {k \in KeysOf(mine[c]) : status[k] = "pending" /\ k \in seen[c]}

\* The newest of them.
PromotePendingKey(c) ==
    /\ pc[c] = "recorded"
    /\ \/ \E k \in Promotable(c) :
          /\ \A j \in Promotable(c) : j <= k
          /\ choice' = [choice EXCEPT ![c] = k]
          /\ pc' = [pc EXCEPT ![c] = "chosen"]
          /\ UNCHANGED <<mine, owned, seen, target>>
       \/ Promotable(c) = {} /\ Return(c)
    /\ UNCHANGED <<row, keyVars, tokens, dns>>

\* ActivateDKIMKey, a READ COMMITTED transaction.  Its first statement begins: these
\* are the rows its snapshot shows to be active.
BeginActivate(c) ==
    /\ pc[c] = "chosen"
    /\ target' = [target EXCEPT ![c] = Signing(mine[c]) \ {choice[c]}]
    /\ pc' = [pc EXCEPT ![c] = "retiring"]
    /\ UNCHANGED <<row, keyVars, tokens, dns, mine, owned, seen, choice>>

\* Mutant: each statement of ActivateDKIMKey commits by itself.
MutRetire(c) ==
    /\ pc[c] = "retiring"
    /\ Unlocked(target[c], c)
    /\ status' = [k \in Keys |-> IF k \in target[c] \cap Signing(mine[c]) THEN "retired" ELSE status[k]]
    /\ pc' = [pc EXCEPT ![c] = "activating"]
    /\ UNCHANGED <<row, domainOf, bornActive, tokens, dns, mine, owned, seen, choice, target>>

\* It has waited for whoever had locked them, and retires those still active.
Retire(c) ==
    /\ pc[c] = "retiring"
    /\ Unlocked(target[c], c)
    /\ target' = [target EXCEPT ![c] = @ \cap Signing(mine[c])]
    /\ pc' = [pc EXCEPT ![c] = "activating"]
    /\ UNCHANGED <<row, keyVars, tokens, dns, mine, owned, seen, choice>>

\* Mutant: without the partial unique index.
MutRivals(c) == {}

\* The keys dkim_keys_one_active would set against the one being activated.
Rivals(c) == Signing(mine[c]) \ (target[c] \cup {choice[c]})

\* The second statement, by id alone, and the commit; a rival rolls both back.
Activate(c) ==
    /\ pc[c] = "activating"
    /\ Unlocked(Rivals(c) \cup {choice[c]}, c)
    /\ status' = IF Rivals(c) # {} THEN status
                 ELSE [k \in Keys |-> IF k = choice[c] /\ status[k] \in Stored THEN "active"
                                      ELSE IF k \in target[c] THEN "retired" ELSE status[k]]
    /\ Return(c)
    /\ UNCHANGED <<row, domainOf, bornActive, tokens, dns>>

-----------------------------------------------------------------------------
\* The keys go with the domain, once nobody has locked them.
Delete(r) ==
    /\ Live(r)
    /\ \A c \in Calls : KeysOf(r) \cap Locked(c) = {}
    /\ row' = [row EXCEPT ![r] = "deleted"]
    /\ status' = [k \in Keys |-> IF k \in KeysOf(r) THEN "gone" ELSE status[k]]
    /\ UNCHANGED <<domainOf, bornActive, tokens, dns, callVars>>

\* Any request may end at an error of the database, or with the process.
Fail(c) ==
    /\ pc[c] # "idle"
    /\ Return(c)
    /\ UNCHANGED <<row, keyVars, tokens, dns>>

\* The customer publishes what the settings page lists.
PublishToken(r) == Live(r) /\ tokens' = tokens \cup {r} /\ UNCHANGED <<row, keyVars, dns, callVars>>
PublishKey(k) == status[k] \in Stored /\ dns' = dns \cup {k} /\ UNCHANGED <<row, keyVars, tokens, callVars>>

Domains ==
    \/ \E c \in Calls, r \in Rows :
          mail[c] = NoMail /\ (Create(c, r) \/ Rotate(c, r) \/ Check(c, r))
    \/ \E c \in Calls :
          \/ FirstKey(c) \/ NextKey(c) \/ RecordCheck(c) \/ PromotePendingKey(c)
          \/ BeginActivate(c) \/ Retire(c) \/ Activate(c) \/ Fail(c)
    \/ \E r \in Rows : Delete(r) \/ PublishToken(r)
    \/ \E k \in Keys : PublishKey(k)

-----------------------------------------------------------------------------
(* A mail: its domain and the key are read in statements of their own, and  *)
(* it leaves later still.                                                   *)

Becomes(c, new) == mail' = [mail EXCEPT ![c] = new]

At(at, by, r, had, key) == [at |-> at, by |-> by, row |-> r, had |-> had, key |-> key]

\* Only submission has no unsigned mail at all; there the mail is refused.
Unsigned(by, r, had) == IF by = "submissiond" THEN NoMail ELSE At("resolved", by, r, had, NoKey)

\* SigningKeyForDomain, SystemSigningKey: ByName finds the sender's claim, or none.
\* Unverified counts as none.
LookUpDomain(c, by) ==
    /\ pc[c] = "idle" /\ mail[c] = NoMail
    /\ \/ \E r \in Rows :
             row[r] = "verified" /\ Becomes(c, At("found", by, r, Signing(r) # {}, NoKey))
       \/ Becomes(c, Unsigned(by, NoRow, FALSE))

\* Another SECRET_KEY does not open a key.
Opened(r) == Signing(r) \ SealedElsewhere

\* SigningKey: the active key's row, opened.  A key that cannot be is, like any other
\* error, one to retry for a worker and to refuse for submission; the API sends its mail
\* all the same (resolveDKIM, signMailFrom).
ReadKey(c) ==
    /\ mail[c].at = "found"
    /\ LET m == mail[c] IN
          \/ \E k \in Opened(m.row) : Becomes(c, At("resolved", m.by, m.row, m.had, k))
          \/ Signing(m.row) = {} /\ Becomes(c, Unsigned(m.by, m.row, m.had))
          \/ Becomes(c, IF m.by = "api" THEN Unsigned(m.by, m.row, m.had) ELSE NoMail)

\* sender.Send, the relay; or it is lost with its process.
Leave(c) == mail[c].at = "resolved" /\ Becomes(c, NoMail)

Mail(c) == (\E by \in Senders : LookUpDomain(c, by)) \/ ReadKey(c) \/ Leave(c)

Next ==
    \/ Domains /\ UNCHANGED mail
    \/ (\E c \in Calls : Mail(c)) /\ UNCHANGED domainVars

Spec == Init /\ [][Next]_vars

-----------------------------------------------------------------------------
\* Exactly one signing key per domain: at most one, whoever else is promoting or adding
\* one (dkim_keys_one_active and the transaction of ActivateDKIMKey).
OneSigner == \A r \in Rows : \A j, k \in Signing(r) : j = k

\* A key stops signing only for another to sign: no error, crash or race in the middle
\* of a rotation leaves a domain that signed without a key (ActivateDKIMKey).
RetiredHasSuccessor ==
    \A k \in Keys : status[k] = "retired" => Signing(domainOf[k]) # {}

\* But for a domain's first key, nothing signs before its record was in the DNS, however
\* old the check that saw it is (Verify, promotePendingKey).
SignerWasPublished ==
    \A k \in Keys : status[k] = "active" => k \in bornActive \cup dns

\* A claim counts as verified only if its own challenge was published: not a check
\* begun for an earlier claim to the same name (RecordCheck).
VerifiedByOwnToken == \A r \in Rows : row[r] = "verified" => r \in tokens

\* Mail from a domain that had a signing key when it was looked up is signed when it
\* leaves, or it does not leave, whatever is rotated or activated in between and whether
\* the key can be opened or not; and what signs it has been in the DNS, if it did not sign
\* from the start (queue.go:149-157).  Excepted are a domain deleted in between and
\* the API's own mail.
SignedOrNotSent ==
    \A c \in Calls : mail[c].at = "resolved" /\ mail[c].by # "api" =>
        IF mail[c].key = NoKey THEN mail[c].by = "worker" /\ ~(mail[c].had /\ Live(mail[c].row))
        ELSE mail[c].key \in bornActive \cup dns

\* ActivateDKIMKey "promotes a pending key": a key that was retired signs no more.
RetiredForGood ==
    [][\A k \in Keys : status[k] = "retired" => status'[k] # "active"]_vars

=============================================================================
