-------------------------- MODULE DeploymentProofs --------------------------
(***************************************************************************)
(* Proofs about Deployment, for every set of processes, environments and   *)
(* scenes and every number of migrations.                                  *)
(***************************************************************************)
EXTENDS Deployment, SequenceTheorems, TLAPS

\* A replica takes a first part of the schema for applied, and has one more migration
\* to apply while it is at one.
KnownIsPrefix ==
    \A p \in Processes : \E n \in 0..Len(schema) :
        /\ known[p] = 1..n
        /\ pc[p] \in {"record", "commit"} => n < release[p]

\* Who has inserted a row of schema_migrations knows all of the schema, and is alone.
InsertedAlone ==
    \A p \in Processes : pc[p] = "commit" =>
        /\ known[p] = 1..Len(schema)
        /\ Len(schema) < release[p]
        /\ \A q \in Processes : pc[q] = "commit" => q = p

\* A replica past migrate finds its own schema.
UpToDate ==
    \A p \in Processes : Kind[p] = "api" /\ pc[p] \in {"configure", "serving"} =>
        release[p] <= Len(schema)

BootInv == SchemaInOrder /\ KnownIsPrefix /\ InsertedAlone /\ UpToDate

Inv == TypeOK /\ BootInv

-----------------------------------------------------------------------------
(* What is due.                                                             *)

\* The least of what is left of 1..r after 1..n.
LEMMA LeastLeft ==
    ASSUME NEW n \in Nat, NEW r \in Nat, n < r
    PROVE  (CHOOSE v \in (1..r) \ (1..n) : \A u \in (1..r) \ (1..n) : v <= u) = n + 1
<1> DEFINE S == (1..r) \ (1..n)
<1>1. n + 1 \in S /\ \A u \in S : n + 1 <= u
  OBVIOUS
<1>2. \A v \in S : (\A u \in S : v <= u) => v = n + 1
  BY <1>1
<1>3. \A v : v \in S /\ (\A u \in S : v <= u) => v = n + 1
  BY <1>2
<1>4. n + 1 \in S /\ (\A u \in S : n + 1 <= u)
  BY <1>1
<1> HIDE DEF S
<1>5. (CHOOSE v \in S : \A u \in S : v <= u) = n + 1
  <2>1. /\ (CHOOSE v \in S : \A u \in S : v <= u) \in S
        /\ \A u \in S : (CHOOSE v \in S : \A u2 \in S : v <= u2) <= u
    BY <1>4
  <2> QED
    BY <2>1, <1>3
<1> QED
  BY <1>5 DEF S

\* The migration a replica has come to follows those it knows.
LEMMA DueFollows ==
    ASSUME NEW p \in Processes, NEW n \in Nat, release[p] \in Nat, known[p] = 1..n
    PROVE  /\ Pending(p) # {} <=> n < release[p]
           /\ Pending(p) # {} => Due(p) = n + 1
<1>1. Pending(p) # {} <=> n < release[p]
  <2>1. CASE n < release[p]
    <3>1. n + 1 \in Pending(p)
      BY <2>1 DEF Pending
    <3> QED
      BY <3>1, <2>1
  <2>2. CASE ~(n < release[p])
    BY <2>2 DEF Pending
  <2> QED
    BY <2>1, <2>2
<1>2. ASSUME Pending(p) # {}
      PROVE  Due(p) = n + 1
  BY <1>1, <1>2, LeastLeft DEF Due, Pending
<1> QED
  BY <1>1, <1>2

-----------------------------------------------------------------------------
(* The steps of coming up.                                                  *)

\* The start satisfies everything.
LEMMA InitInv == Init => Inv
<1> SUFFICES ASSUME Init PROVE Inv
  OBVIOUS
<1> USE DeploymentAssumption
<1>1. /\ scene \in Scenes /\ scene.envs \subseteq Envs
      /\ pc \in [Processes -> Booting \cup {"down", "serving"}]
      /\ env \in [Processes -> Envs]
      /\ release \in [Processes -> 0..Releases]
  BY DEF Init, Booting
<1>2. TypeOK
  <2>1. known \in [Processes -> SUBSET Versions] /\ putting \in [Processes -> Files \cup {NoFile}]
    BY DEF Init
  <2>2. schema \in Seq(Versions)
    BY DEF Init
  <2>3. /\ table \in BOOLEAN /\ recorded \subseteq Versions
        /\ files \subseteq Files /\ told \subseteq files /\ undoing \subseteq Processes
    BY DEF Init
  <2> QED
    BY <1>1, <2>1, <2>2, <2>3 DEF TypeOK
<1>3. Len(schema) = 0 /\ recorded = {} /\ schema = <<>>
  BY DEF Init
<1>4. SchemaInOrder
  BY <1>3 DEF SchemaInOrder
<1>5. \A p \in Processes : known[p] = 1..0 /\ pc[p] \in {"connect", "down"}
  BY DEF Init
<1>6. KnownIsPrefix
  BY <1>3, <1>5 DEF KnownIsPrefix
<1>7. InsertedAlone /\ UpToDate
  BY <1>5 DEF InsertedAlone, UpToDate
<1> QED
  BY <1>2, <1>4, <1>6, <1>7 DEF Inv, BootInv

\* A process moves on, or ends, and nothing of the database changes.
LEMMA QuietStep ==
    ASSUME Inv, NEW p \in Processes, NEW to \in Booting \cup {"down", "serving"},
           pc' = [pc EXCEPT ![p] = to],
           UNCHANGED <<release, known, schema, recorded>>,
           to = "record" => Pending(p) # {},
           to = "commit" => /\ Pending(p) # {} /\ Due(p) \notin recorded
                            /\ \A q \in Processes : pc[q] = "commit" => Due(q) # Due(p),
           to = "configure" => Pending(p) = {},
           to = "serving" /\ Kind[p] = "api" => pc[p] = "configure"
    PROVE  BootInv'
<1> DEFINE L == Len(schema)
<1>1. /\ L \in Nat /\ \A q \in Processes : release[q] \in Nat
      /\ pc \in [Processes -> Booting \cup {"down", "serving"}]
  BY DeploymentAssumption DEF Inv, TypeOK
<1>2. /\ pc'[p] = to
      /\ \A q \in Processes : q # p => pc'[q] = pc[q]
  BY <1>1
<1>3. SchemaInOrder' /\ Len(schema') = L /\ recorded = 1..L
  BY DEF Inv, BootInv, SchemaInOrder
<1>4. PICK n \in 0..L : known[p] = 1..n
  BY DEF Inv, BootInv, KnownIsPrefix
<1>5. /\ Pending(p) # {} <=> n < release[p]
      /\ Pending(p) # {} => Due(p) = n + 1
  BY <1>1, <1>4, DueFollows
<1>6. to = "commit" => n = L
  BY <1>1, <1>3, <1>4, <1>5
<1>7. KnownIsPrefix'
  <2> SUFFICES ASSUME NEW q \in Processes
               PROVE  \E k \in 0..L : /\ known[q] = 1..k
                                      /\ pc'[q] \in {"record", "commit"} => k < release[q]
    BY <1>3 DEF KnownIsPrefix
  <2>1. CASE q = p
    BY <2>1, <1>2, <1>4, <1>5
  <2>2. CASE q # p
    BY <2>2, <1>2 DEF Inv, BootInv, KnownIsPrefix
  <2> QED
    BY <2>1, <2>2
<1>8. \A q \in Processes : pc[q] = "commit" => to # "commit"
  <2> SUFFICES ASSUME NEW q \in Processes, pc[q] = "commit", to = "commit" PROVE FALSE
    OBVIOUS
  <2>1. known[q] = 1..L /\ L < release[q]
    BY DEF Inv, BootInv, InsertedAlone
  <2>2. Due(q) = L + 1
    BY <2>1, <1>1, DueFollows
  <2> QED
    BY <2>2, <1>5, <1>6
<1>9. InsertedAlone'
  <2> SUFFICES ASSUME NEW q \in Processes, pc'[q] = "commit"
               PROVE  /\ known[q] = 1..L /\ L < release[q]
                      /\ \A r \in Processes : pc'[r] = "commit" => r = q
    BY <1>3 DEF InsertedAlone
  <2>1. CASE q = p
    BY <2>1, <1>2, <1>4, <1>5, <1>6, <1>8
  <2>2. CASE q # p
    BY <2>2, <1>2, <1>8 DEF Inv, BootInv, InsertedAlone
  <2> QED
    BY <2>1, <2>2
<1>10. UpToDate'
  <2> SUFFICES ASSUME NEW q \in Processes, Kind[q] = "api", pc'[q] \in {"configure", "serving"}
               PROVE  release[q] <= L
    BY <1>3 DEF UpToDate
  <2>1. CASE q = p /\ to = "configure"
    BY <2>1, <1>1, <1>4, <1>5
  <2>2. CASE q = p /\ to = "serving"
    BY <2>2 DEF Inv, BootInv, UpToDate
  <2>3. CASE q # p
    BY <2>3, <1>2 DEF Inv, BootInv, UpToDate
  <2> QED
    BY <2>1, <2>2, <2>3, <1>2
<1> QED
  BY <1>3, <1>7, <1>9, <1>10 DEF BootInv

\* A process that is started again knows nothing.
LEMMA StartStep ==
    ASSUME Inv, NEW p \in Processes, Start(p)
    PROVE  BootInv'
<1>1. /\ Len(schema) \in Nat /\ UNCHANGED <<schema, recorded>>
      /\ pc \in [Processes -> Booting \cup {"down", "serving"}]
      /\ known \in [Processes -> SUBSET Versions]
  BY DEF Inv, TypeOK, Start
<1>2. /\ pc'[p] = "connect" /\ known'[p] = 1..0
      /\ \A q \in Processes : q # p => /\ pc'[q] = pc[q] /\ known'[q] = known[q]
                                       /\ release'[q] = release[q]
  BY DEF Inv, TypeOK, Start, Goes
<1>3. KnownIsPrefix'
  <2> SUFFICES ASSUME NEW q \in Processes
               PROVE  \E n \in 0..Len(schema) : /\ known'[q] = 1..n
                                                /\ pc'[q] \in {"record", "commit"} => n < release'[q]
    BY <1>1 DEF KnownIsPrefix
  <2>1. CASE q = p
    BY <2>1, <1>1, <1>2
  <2>2. CASE q # p
    BY <2>2, <1>2 DEF Inv, BootInv, KnownIsPrefix
  <2> QED
    BY <2>1, <2>2
<1>4. SchemaInOrder' /\ InsertedAlone' /\ UpToDate'
  BY <1>1, <1>2 DEF Inv, BootInv, SchemaInOrder, InsertedAlone, UpToDate
<1> QED
  BY <1>3, <1>4 DEF BootInv

\* What is read is all of the schema.
LEMMA ReadStep ==
    ASSUME Inv, NEW p \in Processes, ReadApplied(p)
    PROVE  BootInv'
<1>1. /\ Len(schema) \in Nat /\ UNCHANGED <<schema, recorded, release>>
      /\ recorded = 1..Len(schema)
      /\ pc \in [Processes -> Booting \cup {"down", "serving"}]
      /\ known \in [Processes -> SUBSET Versions]
  BY DEF Inv, BootInv, SchemaInOrder, TypeOK, ReadApplied
<1>2. /\ pc'[p] = "apply" /\ known'[p] = 1..Len(schema)
      /\ \A q \in Processes : q # p => pc'[q] = pc[q] /\ known'[q] = known[q]
  BY <1>1 DEF ReadApplied, Goes
<1>3. KnownIsPrefix'
  <2> SUFFICES ASSUME NEW q \in Processes
               PROVE  \E n \in 0..Len(schema) : /\ known'[q] = 1..n
                                                /\ pc'[q] \in {"record", "commit"} => n < release[q]
    BY <1>1 DEF KnownIsPrefix
  <2>1. CASE q = p
    BY <2>1, <1>1, <1>2
  <2>2. CASE q # p
    BY <2>2, <1>2 DEF Inv, BootInv, KnownIsPrefix
  <2> QED
    BY <2>1, <2>2
<1>4. SchemaInOrder' /\ InsertedAlone' /\ UpToDate'
  BY <1>1, <1>2 DEF Inv, BootInv, SchemaInOrder, InsertedAlone, UpToDate
<1> QED
  BY <1>3, <1>4 DEF BootInv

\* What takes effect is the next of all migrations.
LEMMA CommitStep ==
    ASSUME Inv, NEW p \in Processes, Commit(p)
    PROVE  BootInv' /\ Due(p) \in Versions
<1> DEFINE L == Len(schema)
<1>1. /\ L \in Nat /\ schema \in Seq(Versions) /\ UNCHANGED release /\ pc[p] = "commit"
      /\ \A q \in Processes : release[q] \in 0..Releases
      /\ pc \in [Processes -> Booting \cup {"down", "serving"}]
      /\ known \in [Processes -> SUBSET Versions] /\ Releases \in Nat
  BY DeploymentAssumption DEF Inv, TypeOK, Commit, Goes, Exits
<1>2. known[p] = 1..L /\ L < release[p] /\ \A q \in Processes : pc[q] = "commit" => q = p
  BY <1>1 DEF Inv, BootInv, InsertedAlone
<1>3. Due(p) = L + 1 /\ Due(p) \in Versions
  BY <1>1, <1>2, DueFollows DEF Versions
<1>4. schema' = Append(schema, L + 1) /\ recorded' = recorded \cup {L + 1}
  BY <1>3 DEF Commit
<1>5. Len(schema') = L + 1 /\ \A i \in 1..(L + 1) : schema'[i] = IF i = L + 1 THEN L + 1 ELSE schema[i]
  BY <1>1, <1>3, <1>4
<1>6. /\ \A q \in Processes : q # p => pc'[q] = pc[q] /\ known'[q] = known[q]
      /\ pc'[p] \in {"apply", "down"}
      /\ known'[p] = 1..L \/ known'[p] = 1..(L + 1)
  <2>1. known' = known \/ known' = [known EXCEPT ![p] = @ \cup {L + 1}]
    BY <1>3 DEF Commit
  <2>2. \/ pc' = [pc EXCEPT ![p] = "apply"]
        \/ pc' = [pc EXCEPT ![p] = "down"]
    BY DEF Commit, Goes, Exits
  <2>3. (1..L) \cup {L + 1} = 1..(L + 1)
    BY <1>1
  <2> QED
    BY <2>1, <2>2, <2>3, <1>1, <1>2
<1>7. SchemaInOrder'
  <2>1. DOMAIN schema' = 1..(L + 1) /\ DOMAIN schema = 1..L
    BY <1>1, <1>3, <1>4
  <2>2. \A i \in 1..(L + 1) : schema'[i] = i
    BY <1>5, <2>1, <1>1 DEF Inv, BootInv, SchemaInOrder
  <2>3. recorded' = 1..(L + 1)
    BY <1>1, <1>4 DEF Inv, BootInv, SchemaInOrder
  <2> QED
    BY <2>1, <2>2, <2>3, <1>5 DEF SchemaInOrder
<1>8. KnownIsPrefix'
  <2> SUFFICES ASSUME NEW q \in Processes
               PROVE  \E n \in 0..(L + 1) : /\ known'[q] = 1..n
                                            /\ pc'[q] \in {"record", "commit"} => n < release[q]
    BY <1>1, <1>5 DEF KnownIsPrefix
  <2>1. CASE q = p
    BY <2>1, <1>1, <1>6
  <2>2. CASE q # p
    BY <2>2, <1>1, <1>6 DEF Inv, BootInv, KnownIsPrefix
  <2> QED
    BY <2>1, <2>2
<1>9. InsertedAlone'
  BY <1>2, <1>6 DEF InsertedAlone
<1>10. UpToDate'
  <2> SUFFICES ASSUME NEW q \in Processes, Kind[q] = "api", pc'[q] \in {"configure", "serving"}
               PROVE  release[q] <= L + 1
    BY <1>1, <1>5 DEF UpToDate
  <2>1. q # p /\ release[q] <= L
    BY <1>6 DEF Inv, BootInv, UpToDate
  <2> QED
    BY <2>1, <1>1
<1> QED
  BY <1>3, <1>7, <1>8, <1>9, <1>10 DEF BootInv

-----------------------------------------------------------------------------
(* Every step.                                                              *)

\* The steps of Boot that change the place of a process only.
LEMMA BootStep ==
    ASSUME Inv, NEW p \in Processes, Boot(p)
    PROVE  BootInv'
<1> USE DEF Goes, Exits
<1>1. CASE Connect(p)
  <2>1. \E to \in {"create", "down"} : pc' = [pc EXCEPT ![p] = to]
    BY <1>1 DEF Connect
  <2> QED
    BY <2>1, <1>1, QuietStep DEF Connect, Booting
<1>2. CASE LookForTable(p)
  <2>1. \E to \in {"read", "creating"} : pc' = [pc EXCEPT ![p] = to]
    BY <1>2 DEF LookForTable
  <2> QED
    BY <2>1, <1>2, QuietStep DEF LookForTable, Booting
<1>3. CASE CreateTable(p)
  <2>1. \E to \in {"read", "down"} : pc' = [pc EXCEPT ![p] = to]
    BY <1>3 DEF CreateTable
  <2> QED
    BY <2>1, <1>3, QuietStep DEF CreateTable, Booting
<1>4. CASE ReadApplied(p)
  BY <1>4, ReadStep
<1>5. CASE RunBody(p)
  <2>1. \E to \in {"record", "down"} : pc' = [pc EXCEPT ![p] = to]
    BY <1>5 DEF RunBody
  <2> QED
    BY <2>1, <1>5, QuietStep DEF RunBody, Booting
<1>6. CASE RecordVersion(p)
  <2>1. Pending(p) # {}
    <3>1. PICK n \in 0..Len(schema) : known[p] = 1..n /\ n < release[p]
      BY <1>6 DEF RecordVersion, Inv, BootInv, KnownIsPrefix
    <3> QED
      BY <3>1, DueFollows, DeploymentAssumption DEF Inv, TypeOK
  <2>2. CASE pc' = [pc EXCEPT ![p] = "down"]
    BY <2>2, <1>6, QuietStep DEF RecordVersion, Booting
  <2>3. CASE /\ pc' = [pc EXCEPT ![p] = "commit"] /\ Due(p) \notin recorded
             /\ \A q \in Processes : pc[q] = "commit" => Due(q) # Due(p)
    BY <2>1, <2>3, <1>6, QuietStep DEF RecordVersion, Booting
  <2> QED
    BY <2>2, <2>3, <1>6 DEF RecordVersion
<1>7. CASE Commit(p)
  BY <1>7, CommitStep
<1>8. CASE Migrated(p)
  BY <1>8, QuietStep DEF Migrated, Booting
<1>9. CASE ServeApi(p)
  <2>1. pc[p] = "configure" /\ \E to \in {"serving", "down"} : pc' = [pc EXCEPT ![p] = to]
    BY <1>9 DEF ServeApi
  <2> QED
    BY <2>1, <1>9, QuietStep DEF ServeApi, Booting
<1>10. ASSUME NEW kind \in {"worker", "lmtpd", "imapd", "submissiond"}, NEW configured,
              Serve(p, kind, configured)
       PROVE  BootInv'
  <2>1. Kind[p] # "api" /\ \E to \in {"serving", "down"} : pc' = [pc EXCEPT ![p] = to]
    BY <1>10 DEF Serve
  <2> QED
    BY <2>1, <1>10, QuietStep DEF Serve, Booting
<1>11. CASE ServeWorker(p) \/ ServeLmtp(p) \/ ServeImap(p) \/ ServeSubmission(p)
  BY <1>11, <1>10 DEF ServeWorker, ServeLmtp, ServeImap, ServeSubmission
<1> QED
  BY <1>1, <1>2, <1>3, <1>4, <1>5, <1>6, <1>7, <1>8, <1>9, <1>11 DEF Boot

\* Every variable keeps its type.
LEMMA TypeStep ==
    ASSUME Inv, [Next]_vars
    PROVE  TypeOK'
<1> USE DeploymentAssumption DEF Goes, Exits
<1>1. TypeOK
  BY DEF Inv
<1>2. CASE UNCHANGED vars
  BY <1>1, <1>2 DEF TypeOK, vars, bootVars, fileVars
<1>3. ASSUME NEW p \in Processes, Start(p)
      PROVE  TypeOK'
  BY <1>1, <1>3 DEF TypeOK, Start, Booting
<1>4. ASSUME NEW p \in Processes, NEW to \in Booting \cup {"down", "serving"},
             pc' = [pc EXCEPT ![p] = to], UNCHANGED <<env, release, schema, recorded, Kept>>,
             table' \in BOOLEAN, known' \in [Processes -> SUBSET Versions]
      PROVE  TypeOK'
  BY <1>1, <1>4 DEF TypeOK, Kept, fileVars
<1>5. ASSUME NEW p \in Processes, Connect(p) \/ LookForTable(p) \/ CreateTable(p) \/ RunBody(p)
      PROVE  TypeOK'
  <2>1. \E to \in Booting \cup {"down"} : pc' = [pc EXCEPT ![p] = to]
    BY <1>5 DEF Connect, LookForTable, CreateTable, RunBody, Booting
  <2>2. /\ UNCHANGED <<env, release, known, schema, recorded, Kept>> /\ table' \in BOOLEAN
    BY <1>1, <1>5 DEF Connect, LookForTable, CreateTable, RunBody, TypeOK
  <2> QED
    BY <1>1, <1>4, <2>1, <2>2 DEF TypeOK
<1>6. ASSUME NEW p \in Processes, RecordVersion(p) \/ Migrated(p) \/ ServeApi(p)
                                  \/ StatementFails(p) \/ Crash(p)
      PROVE  TypeOK'
  <2>1. \E to \in Booting \cup {"down", "serving"} : pc' = [pc EXCEPT ![p] = to]
    BY <1>6 DEF RecordVersion, Migrated, ServeApi, StatementFails, Crash, Booting
  <2>2. UNCHANGED <<env, release, known, table, schema, recorded, Kept>>
    BY <1>6 DEF RecordVersion, Migrated, ServeApi, StatementFails, Crash
  <2> QED
    BY <1>1, <1>4, <2>1, <2>2 DEF TypeOK
<1>7. ASSUME NEW p \in Processes, ServeWorker(p) \/ ServeLmtp(p) \/ ServeImap(p) \/ ServeSubmission(p)
      PROVE  TypeOK'
  <2>1. \E to \in Booting \cup {"down", "serving"} : pc' = [pc EXCEPT ![p] = to]
    BY <1>7 DEF ServeWorker, ServeLmtp, ServeImap, ServeSubmission, Serve
  <2>2. UNCHANGED <<env, release, known, table, schema, recorded, Kept>>
    BY <1>7 DEF ServeWorker, ServeLmtp, ServeImap, ServeSubmission, Serve
  <2> QED
    BY <1>1, <1>4, <2>1, <2>2 DEF TypeOK
<1>8. ASSUME NEW p \in Processes, ReadApplied(p)
      PROVE  TypeOK'
  <2>1. known' \in [Processes -> SUBSET Versions]
    BY <1>1, <1>8 DEF ReadApplied, TypeOK
  <2> QED
    BY <1>1, <1>4, <1>8, <2>1 DEF ReadApplied, TypeOK, Booting
<1>9. ASSUME NEW p \in Processes, Commit(p)
      PROVE  TypeOK'
  <2>1. Due(p) \in Versions
    BY <1>9, CommitStep
  <2>2. schema' \in Seq(Versions) /\ recorded' \subseteq Versions
    BY <1>1, <1>9, <2>1 DEF Commit, TypeOK
  <2>3. known' \in [Processes -> SUBSET Versions]
    <3>1. known \in [Processes -> SUBSET Versions]
      BY <1>1 DEF TypeOK
    <3>2. CASE known' = [known EXCEPT ![p] = @ \cup {Due(p)}]
      BY <3>1, <3>2, <2>1
    <3>3. CASE known' = known
      BY <3>1, <3>3
    <3> QED
      BY <3>2, <3>3, <1>9 DEF Commit
  <2>4. pc' \in [Processes -> Booting \cup {"down", "serving"}]
    BY <1>1, <1>9 DEF Commit, TypeOK, Booting
  <2> QED
    BY <1>1, <1>9, <2>2, <2>3, <2>4 DEF Commit, TypeOK, Kept, fileVars
<1>10. ASSUME NEW p \in Processes, Use(p)
       PROVE  TypeOK'
  <2>1. UNCHANGED <<scene, bootVars>>
    BY <1>10 DEF Use, InsertAttachment, DeleteObject, PutObject
  <2>2. /\ files \subseteq Files /\ told \subseteq files /\ undoing \subseteq Processes
        /\ putting \in [Processes -> Files \cup {NoFile}]
    BY <1>1 DEF TypeOK
  <2>3. ASSUME NEW f \in Files, PutObject(p, f)
        PROVE  /\ files' \subseteq Files /\ told' \subseteq files' /\ undoing' \subseteq Processes
               /\ putting' \in [Processes -> Files \cup {NoFile}]
    BY <2>2, <2>3 DEF PutObject
  <2>4. ASSUME InsertAttachment(p)
        PROVE  /\ files' \subseteq Files /\ told' \subseteq files' /\ undoing' \subseteq Processes
               /\ putting' \in [Processes -> Files \cup {NoFile}]
    BY <2>2, <2>4 DEF InsertAttachment
  <2>5. ASSUME DeleteObject(p)
        PROVE  /\ files' \subseteq Files /\ told' \subseteq files' /\ undoing' \subseteq Processes
               /\ putting' \in [Processes -> Files \cup {NoFile}]
    BY <2>2, <2>5 DEF DeleteObject
  <2>6. /\ files' \subseteq Files /\ told' \subseteq files' /\ undoing' \subseteq Processes
        /\ putting' \in [Processes -> Files \cup {NoFile}]
    BY <1>10, <2>3, <2>4, <2>5 DEF Use
  <2> QED
    BY <1>1, <2>1, <2>6 DEF TypeOK, bootVars
<1> QED
  BY <1>2, <1>3, <1>5, <1>6, <1>7, <1>8, <1>9, <1>10 DEF Next, Boot

\* The invariant of coming up is kept.
LEMMA InvStep ==
    ASSUME Inv, [Next]_vars
    PROVE  Inv'
<1>1. TypeOK'
  BY TypeStep
<1>2. ASSUME UNCHANGED bootVars
      PROVE  BootInv'
  <2>1. UNCHANGED <<pc, release, known, schema, recorded>>
    BY <1>2 DEF bootVars
  <2>2. SchemaInOrder' /\ InsertedAlone' /\ UpToDate'
    BY <2>1 DEF Inv, BootInv, SchemaInOrder, InsertedAlone, UpToDate
  <2>3. KnownIsPrefix'
    BY <2>1 DEF Inv, BootInv, KnownIsPrefix
  <2> QED
    BY <2>2, <2>3 DEF BootInv
<1>3. ASSUME UNCHANGED vars
      PROVE  BootInv'
  <2>1. UNCHANGED bootVars
    BY <1>3 DEF vars, bootVars
  <2> QED
    BY <1>2, <2>1
<1>4. ASSUME NEW p \in Processes, StatementFails(p) \/ Crash(p)
      PROVE  BootInv'
  <2>1. pc' = [pc EXCEPT ![p] = "down"]
    BY <1>4 DEF StatementFails, Crash, Exits, Goes
  <2> QED
    BY <2>1, <1>4, QuietStep DEF StatementFails, Crash
<1>5. ASSUME NEW p \in Processes, Use(p)
      PROVE  BootInv'
  <2>1. UNCHANGED bootVars
    BY <1>5 DEF Use, InsertAttachment, DeleteObject, PutObject
  <2> QED
    BY <1>2, <2>1
<1>6. ASSUME NEW p \in Processes, Start(p) \/ Boot(p)
      PROVE  BootInv'
  BY <1>6, BootStep, StartStep
<1>7. BootInv'
  BY <1>3, <1>4, <1>5, <1>6 DEF Next
<1> QED
  BY <1>1, <1>7 DEF Inv

LEMMA InvHolds == Spec => []Inv
  BY InitInv, InvStep, PTL DEF Spec

-----------------------------------------------------------------------------

\* Whatever the processes are started with, every variable keeps its type.
THEOREM TypesCorrect == Spec => []TypeOK
<1>1. Inv => TypeOK
  BY DEF Inv
<1> QED
  BY <1>1, InvHolds, PTL

\* However many replicas of whatever releases race through migrate, each migration
\* takes effect once, in order, and is recorded exactly when it has (migrate.go:16-18).
THEOREM SchemaStaysInOrder == Spec => []SchemaInOrder
<1>1. Inv => SchemaInOrder
  BY DEF Inv, BootInv
<1> QED
  BY <1>1, InvHolds, PTL

\* A replica that serves finds all the migrations it embeds (main.go:36).
THEOREM ServesAfterMigrating == Spec => []ServesItsSchema
<1>1. Inv => ServesItsSchema
  <2> SUFFICES ASSUME Inv, NEW p \in Processes, Serving(p, "api")
               PROVE  1..release[p] \subseteq recorded
    BY DEF ServesItsSchema
  <2>1. release[p] <= Len(schema) /\ recorded = 1..Len(schema)
    BY DEF Inv, BootInv, UpToDate, SchemaInOrder, Serving
  <2>2. release[p] \in Nat /\ Len(schema) \in Nat
    BY DeploymentAssumption DEF Inv, TypeOK
  <2> QED
    BY <2>1, <2>2
<1> QED
  BY <1>1, InvHolds, PTL

-----------------------------------------------------------------------------
(* Files.  All that share the bucket look in one directory, where every     *)
(* file somebody was told of, or may yet be, has an object of its own.      *)

\* Where the processes of the scene look, whoever looks.
Shared == {e \in scene.envs : e.bucket = "set"}

\* A file on its way is nobody else's, and in the bucket until it is taken back.
Uploading ==
    \A p \in Processes : putting[p] # NoFile =>
        /\ env[p] \in Shared
        /\ putting[p] \notin told
        /\ p \notin undoing => Path(env[p], putting[p]) \in blobs
        /\ \A q \in Processes : putting[q] = putting[p] => q = p

\* An answered file is where any of them would look.
Answered == \A f \in told, e \in Shared : Path(e, f) \in blobs

FilesInv ==
    /\ scene \in Scenes
    /\ files \subseteq Files /\ told \subseteq files
    /\ putting \in [Processes -> Files \cup {NoFile}]
    /\ \A p \in undoing : p \in Processes /\ putting[p] # NoFile
    /\ env \in [Processes -> scene.envs]
    /\ Uploading
    /\ Answered
    /\ Foreign \subseteq blobs

Words == STRING \cup {"/"}

LEMMA PrefixOfWords ==
    ASSUME NEW prefix \in Seq(STRING)
    PROVE  prefix \in Seq(Words)
<1>1. \A i \in 1..Len(prefix) : prefix[i] \in Words
  BY DEF Words
<1>2. Len(prefix) \in Nat /\ prefix \in [1..Len(prefix) -> STRING]
  OBVIOUS
<1>3. SubSeq(prefix, 1, Len(prefix)) \in Seq(Words)
  BY <1>1, <1>2, SubSeqProperties
<1> QED
  BY <1>3, SubSeqFull

\* S3_PREFIX names the same directory with its trailing slash and without (s3.go:93-99).
LEMMA SlashIsOptional ==
    ASSUME NEW prefix \in Seq(Words), prefix # <<>>, Last(prefix) # "/"
    PROVE  Directory(Append(prefix, "/")) = Directory(prefix)
<1> DEFINE slashed == Append(prefix, "/")
<1>1. /\ slashed \in Seq(Words) /\ Len(slashed) = Len(prefix) + 1 /\ slashed # <<>>
      /\ slashed[Len(prefix) + 1] = "/"
  <2>1. "/" \in Words
    BY DEF Words
  <2>2. slashed \in Seq(Words) /\ Len(slashed) = Len(prefix) + 1 /\ slashed[Len(prefix) + 1] = "/"
    BY <2>1
  <2>3. slashed # <<>>
    BY <2>2
  <2> QED
    BY <2>2, <2>3
<1>2. Last(slashed) = "/"
  BY <1>1 DEF Last
<1>3. Front(slashed) = prefix
  BY <1>1 DEF Front
<1> HIDE DEF slashed
<1>4. Directory(slashed) = prefix \o <<"/">>
  BY <1>1, <1>2, <1>3 DEF Directory
<1>5. Directory(prefix) = prefix \o <<"/">>
  BY DEF Directory
<1> QED
  BY <1>4, <1>5 DEF slashed

LEMMA DirectoryIsPath ==
    ASSUME NEW prefix \in Seq(Words)
    PROVE  Directory(prefix) \in Seq(Words)
<1>1. CASE prefix = <<>>
  BY <1>1 DEF Directory
<1>2. CASE prefix # <<>>
  <2>1. Len(prefix) \in Nat /\ Len(prefix) > 0
    BY <1>2
  <2>2. Front(prefix) \in Seq(Words)
    BY <2>1, SubSeqProperties DEF Front
  <2>3. <<"/">> \in Seq(Words)
    BY DEF Words
  <2>4. Front(prefix) \o <<"/">> \in Seq(Words) /\ prefix \o <<"/">> \in Seq(Words)
    BY <2>2, <2>3
  <2> QED
    BY <1>2, <2>4 DEF Directory
<1> QED
  BY <1>1, <1>2

\* In one scene a file has one path, which it shares with no other file.
LEMMA OnePath ==
    ASSUME scene \in Scenes, NEW e \in Shared, NEW other \in Shared, NEW f \in Files
    PROVE  /\ Path(e, f) = Path(other, f)
           /\ Path(e, f) \notin Foreign
           /\ \A g \in Files : Path(e, f) = Path(other, g) => f = g
<1>1. /\ e \in Envs /\ other \in Envs
      /\ SamePlace(e.prefix, other.prefix) \/ SamePlace(other.prefix, e.prefix)
      /\ Path(e, f) \notin Foreign
  BY BucketAssumption, DeploymentAssumption DEF Shared
<1>2. e.prefix \in Seq(Words) /\ other.prefix \in Seq(Words)
  BY <1>1, BucketAssumption, PrefixOfWords
<1>3. Directory(e.prefix) = Directory(other.prefix)
  BY <1>1, <1>2, SlashIsOptional DEF SamePlace
<1>4. \A g : Append(Directory(e.prefix), f) = Append(Directory(e.prefix), g) => f = g
  <2> DEFINE d == Directory(e.prefix)
  <2>1. d \in Seq(Words)
    BY <1>2, DirectoryIsPath
  <2> HIDE DEF d
  <2>2. ASSUME NEW g, Append(d, f) = Append(d, g) PROVE f = g
    <3>1. Append(d, f)[Len(d) + 1] = f /\ Append(d, g)[Len(d) + 1] = g
      BY <2>1
    <3> QED
      BY <2>2, <3>1
  <2> QED
    BY <2>2 DEF d
<1> QED
  BY <1>1, <1>3, <1>4 DEF Path

LEMMA InitFiles == Init => FilesInv
<1> SUFFICES ASSUME Init PROVE FilesInv
  OBVIOUS
<1>1. putting \in [Processes -> Files \cup {NoFile}] /\ \A p \in Processes : putting[p] = NoFile
  BY DEF Init
<1>2. env \in [Processes -> scene.envs]
  BY DEF Init
<1> QED
  BY <1>1, <1>2 DEF Init, FilesInv, Uploading, Answered

\* Coming up touches no file.
LEMMA FilesUntouched ==
    ASSUME FilesInv, UNCHANGED <<scene, env, files, told, blobs, putting, undoing>>
    PROVE  FilesInv'
<1>1. Shared' = Shared
  BY DEF Shared
<1>2. Uploading'
  BY <1>1 DEF FilesInv, Uploading, Path
<1>3. Answered'
  BY <1>1 DEF FilesInv, Answered, Path
<1> QED
  BY <1>2, <1>3 DEF FilesInv

\* A process that is started again has forgotten its upload.
LEMMA StartFiles ==
    ASSUME FilesInv, NEW p \in Processes, Start(p)
    PROVE  FilesInv'
<1>1. UNCHANGED <<scene, files, told, blobs>> /\ Shared' = Shared /\ undoing' = undoing \ {p}
  BY DEF Start, Shared
<1>2. PICK e \in scene.envs : env' = [env EXCEPT ![p] = e]
  BY DEF Start, MayStart
<1>3. env' \in [Processes -> scene.envs] /\ \A q \in Processes : q # p => env'[q] = env[q]
  BY <1>2 DEF FilesInv
<1>4. /\ putting' \in [Processes -> Files \cup {NoFile}] /\ putting'[p] = NoFile
      /\ \A q \in Processes : q # p => putting'[q] = putting[q]
  BY DEF Start, FilesInv
<1>5. Uploading'
  BY <1>1, <1>3, <1>4 DEF FilesInv, Uploading, Path
<1>6. Answered'
  BY <1>1 DEF FilesInv, Answered, Path
<1> QED
  BY <1>1, <1>3, <1>4, <1>5, <1>6 DEF FilesInv

LEMMA PutFiles ==
    ASSUME FilesInv, NEW p \in Processes, NEW f \in Files, PutObject(p, f)
    PROVE  FilesInv'
<1>1. UNCHANGED <<scene, env, files, told, undoing>> /\ Shared' = Shared /\ blobs \subseteq blobs'
  BY DEF PutObject, bootVars, Shared
<1>2. /\ env[p] \in Shared /\ f \notin files /\ \A q \in Processes : putting[q] # f
      /\ Path(env[p], f) \in blobs'
  BY DEF PutObject, Shared, FilesInv
<1>3. /\ putting' \in [Processes -> Files \cup {NoFile}] /\ putting'[p] = f
      /\ \A q \in Processes : q # p => putting'[q] = putting[q]
  BY DEF PutObject, FilesInv
<1>4. Uploading'
  BY <1>1, <1>2, <1>3 DEF FilesInv, Uploading, Path
<1>5. Answered'
  BY <1>1 DEF FilesInv, Answered, Path
<1>6. \A q \in undoing' : q \in Processes /\ putting'[q] # NoFile
  BY <1>1, <1>3, BucketAssumption DEF FilesInv
<1> QED
  BY <1>1, <1>3, <1>4, <1>5, <1>6 DEF FilesInv

\* What is answered was in the bucket, at the path all the others use; what failed, or
\* seems to have, is nobody's until it is taken back.
LEMMA InsertFiles ==
    ASSUME FilesInv, NEW p \in Processes, InsertAttachment(p)
    PROVE  FilesInv'
<1>1. UNCHANGED <<scene, env, blobs>> /\ Shared' = Shared
  BY DEF InsertAttachment, bootVars, Shared
<1>2. /\ putting[p] \in Files /\ putting[p] # NoFile /\ env[p] \in Shared
      /\ Path(env[p], putting[p]) \in blobs
      /\ files' \subseteq files \cup {putting[p]} /\ files \subseteq files'
      /\ \A q \in Processes : putting[q] = putting[p] => q = p
  BY DEF InsertAttachment, FilesInv, Uploading
<1>3. CASE /\ told' = told \cup {putting[p]} /\ files' = files \cup {putting[p]}
           /\ putting' = [putting EXCEPT ![p] = NoFile]
           /\ UNCHANGED undoing
  <2>1. /\ putting' \in [Processes -> Files \cup {NoFile}] /\ putting'[p] = NoFile
        /\ \A q \in Processes : q # p => putting'[q] = putting[q]
        /\ p \notin undoing
    BY <1>3 DEF FilesInv, InsertAttachment
  <2>2. \A e \in Shared : Path(e, putting[p]) \in blobs
    BY <1>2, OnePath DEF FilesInv
  <2>3. Answered'
    BY <1>1, <1>3, <2>2 DEF FilesInv, Answered, Path
  <2>4. Uploading'
    BY <1>1, <1>2, <1>3, <2>1 DEF FilesInv, Uploading, Path
  <2> QED
    BY <1>1, <1>2, <1>3, <2>1, <2>3, <2>4 DEF FilesInv
<1>4. CASE undoing' = undoing \cup {p} /\ UNCHANGED <<told, putting>>
  <2>1. Answered'
    BY <1>1, <1>4 DEF FilesInv, Answered, Path
  <2>2. Uploading'
    BY <1>1, <1>4 DEF FilesInv, Uploading, Path
  <2> QED
    BY <1>1, <1>2, <1>4, <2>1, <2>2 DEF FilesInv
<1> QED
  BY <1>3, <1>4 DEF InsertAttachment

\* What is deleted is the object of a file nobody else has: none that was answered, none
\* on its way, and nothing of another deployment.
LEMMA DeleteFiles ==
    ASSUME FilesInv, NEW p \in Processes, DeleteObject(p)
    PROVE  FilesInv'
<1>1. UNCHANGED <<scene, env, files, told>> /\ Shared' = Shared /\ undoing' = undoing \ {p}
  BY DEF DeleteObject, bootVars, Shared
<1>2. /\ putting[p] \in Files /\ env[p] \in Shared /\ putting[p] \notin told
      /\ blobs' = blobs \ {Path(env[p], putting[p])} \/ blobs' = blobs
      /\ \A q \in Processes : putting[q] = putting[p] => q = p
  BY DEF DeleteObject, FilesInv, Uploading
<1>3. /\ putting' \in [Processes -> Files \cup {NoFile}] /\ putting'[p] = NoFile
      /\ \A q \in Processes : q # p => putting'[q] = putting[q]
  BY DEF DeleteObject, FilesInv
<1>4. ASSUME NEW e \in Shared, NEW g \in Files, g # putting[p], Path(e, g) \in blobs
      PROVE  Path(e, g) \in blobs'
  BY <1>2, <1>4, OnePath DEF FilesInv
<1>5. Answered'
  BY <1>1, <1>2, <1>4 DEF FilesInv, Answered, Path
<1>6. Uploading'
  <2> SUFFICES ASSUME NEW q \in Processes, putting'[q] # NoFile
               PROVE  /\ env[q] \in Shared
                      /\ putting'[q] \notin told
                      /\ q \notin undoing' => Path(env[q], putting'[q]) \in blobs'
                      /\ \A r \in Processes : putting'[r] = putting'[q] => r = q
    BY <1>1 DEF Uploading, Path
  <2>1. q # p /\ putting'[q] = putting[q] /\ putting[q] # putting[p] /\ putting[q] \in Files
    BY <1>2, <1>3 DEF FilesInv
  <2>2. /\ env[q] \in Shared /\ putting[q] \notin told
        /\ q \notin undoing => Path(env[q], putting[q]) \in blobs
        /\ \A r \in Processes : putting[r] = putting[q] => r = q
    BY <2>1 DEF FilesInv, Uploading
  <2>3. q \notin undoing' => Path(env[q], putting[q]) \in blobs'
    BY <1>1, <1>4, <2>1, <2>2
  <2> QED
    BY <1>3, <2>1, <2>2, <2>3
<1>7. Foreign \subseteq blobs'
  BY <1>2, OnePath DEF FilesInv
<1>8. \A q \in undoing' : q \in Processes /\ putting'[q] # NoFile
  BY <1>1, <1>3 DEF FilesInv
<1> QED
  BY <1>1, <1>3, <1>5, <1>6, <1>7, <1>8 DEF FilesInv

LEMMA FilesStep == FilesInv /\ [Next]_vars => FilesInv'
<1> SUFFICES ASSUME FilesInv, [Next]_vars PROVE FilesInv'
  OBVIOUS
<1>1. CASE UNCHANGED vars
  BY <1>1, FilesUntouched DEF vars, bootVars, fileVars
<1>2. ASSUME NEW p \in Processes, Boot(p) \/ StatementFails(p) \/ Crash(p)
      PROVE  FilesInv'
  <2>1. UNCHANGED <<scene, env, files, told, blobs, putting, undoing>>
    BY <1>2 DEF Boot, Connect, LookForTable, CreateTable, ReadApplied, RunBody,
                RecordVersion, Commit, Migrated, ServeApi, ServeWorker, ServeLmtp, ServeImap,
                ServeSubmission, Serve, StatementFails, Crash, Kept, fileVars
  <2> QED
    BY <2>1, FilesUntouched
<1>3. ASSUME NEW p \in Processes, Use(p)
      PROVE  FilesInv'
  BY <1>3, PutFiles, InsertFiles, DeleteFiles DEF Use
<1> QED
  BY <1>1, <1>2, <1>3, StartFiles DEF Next

\* However S3_PREFIX is written, and whoever crashes or takes back what it could not
\* record: workers with a bucket find every file whose upload was answered, and other
\* deployments' objects stay (s3.go:93-107, service.go:320-334).
THEOREM FilesStayFound == Spec => []FilesAreFound
<1>1. FilesInv => FilesAreFound
  <2> SUFFICES ASSUME FilesInv PROVE FilesAreFound
    OBVIOUS
  <2>1. ASSUME NEW w \in Processes, NEW f \in told, env[w].bucket = "set"
        PROVE  GetObject(w, f)
    <3>1. env[w] \in Shared
      BY <2>1 DEF FilesInv, Shared
    <3> QED
      BY <2>1, <3>1 DEF FilesInv, Answered, GetObject
  <2> QED
    BY <2>1 DEF FilesInv, FilesAreFound
<1> QED
  BY <1>1, InitFiles, FilesStep, PTL DEF Spec
=============================================================================
