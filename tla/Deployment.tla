----------------------------- MODULE Deployment -----------------------------
(***************************************************************************)
(* The processes of a deployment: API replicas, delivery workers, LMTP,    *)
(* IMAP and submission servers.  How each comes up from its environment    *)
(* (main.go, cmd/...), how API replicas that start together migrate one    *)
(* database (migrate.go), and what later works between processes that were *)
(* given different environments: files put by one and fetched by another   *)
(* (internal/storage, UploadAttachment).                                   *)
(*                                                                         *)
(* A migration is its place in the order of file names.  What it does is   *)
(* in the database (schema) exactly when its transaction commits.          *)
(***************************************************************************)
EXTENDS Naturals, Sequences, SequencesExt

CONSTANTS
    Processes,
    Kind,        \* of each process: "api", "worker", "lmtpd", "imapd", "submissiond"
    Releases,    \* the newest release: how many migrations it brings
    Envs,        \* the environments a process may be started with
    Files,       \* attachments, by storage key
    NoFile,
    Foreign,     \* objects in the bucket that belong to other deployments
    Scenes       \* who takes part, with which environments, releases and failures

Kinds == {"api", "worker", "lmtpd", "imapd", "submissiond"}
Apis == {p \in Processes : Kind[p] = "api"}
Versions == 1..Releases

ASSUME DeploymentAssumption ==
    /\ Releases \in Nat
    /\ Kind \in [Processes -> Kinds]
    /\ \A sc \in Scenes : /\ sc.who \subseteq Processes
                          /\ sc.envs \subseteq Envs /\ sc.envs # {}
                          /\ sc.releases \subseteq 0..Releases /\ sc.releases # {}
                          /\ sc.faults \subseteq {"crash", "db"}

VARIABLES
    scene,      \* the processes that take part, and how they may be started
    pc,         \* where each process stands on its way to serving
    env,        \* the environment it was started with
    release,    \* the migrations its binary embeds are 1..release[p]
    known,      \* the versions it takes for applied
    table,      \* schema_migrations exists
    schema,     \* the migrations that have taken effect, in the order they did
    recorded,   \* the rows of schema_migrations
    files,      \* the attachment rows
    told,       \* those whose upload was answered
    blobs,      \* the paths of the bucket's objects
    putting,    \* the file each process is uploading
    undoing     \* the processes whose row failed, as far as they know

bootVars == <<pc, env, release, known, table, schema, recorded>>
fileVars == <<files, told, blobs, putting, undoing>>
vars == <<scene, bootVars, fileVars>>

Booting == {"connect", "create", "creating", "read", "apply", "record", "commit", "configure"}
Kept == <<scene, fileVars>>

-----------------------------------------------------------------------------
(* What an environment must hold.                                           *)

\* secrets.NewFromEnv: required, never defaulted.
HasSealer(e) == e.key

\* smtp.NewFromEnv: SMTP_HOST, and a port that is a number.
HasSender(e) == e.smtp

\* storage.NewFromEnv: no bucket is fine, a bucket that cannot be set up is not.
StorageUsable(e) == e.bucket # "invalid"

ApiConfigured(e) == HasSender(e) /\ StorageUsable(e) /\ HasSealer(e)
WorkerConfigured(e) == e.db /\ HasSender(e) /\ StorageUsable(e) /\ HasSealer(e)
LmtpConfigured(e) == e.db
ImapConfigured(e) == e.tls
SubmissionConfigured(e) == e.tls /\ e.relay /\ HasSealer(e)

\* Bug: the slash is appended without a look at what is there.
MutDirectoryUntrimmed(prefix) == IF prefix = <<>> THEN <<>> ELSE prefix \o <<"/">>

\* S3_PREFIX with or without its trailing slash, as a sequence of names and slashes.
Directory(prefix) ==
    IF prefix = <<>> THEN <<>>
    ELSE (IF Last(prefix) = "/" THEN Front(prefix) ELSE prefix) \o <<"/">>

Path(e, f) == Append(Directory(e.prefix), f)

\* One prefix for all that share the bucket, the trailing slash written or not.
SamePlace(prefix, other) ==
    \/ prefix = other
    \/ prefix # <<>> /\ Last(prefix) # "/" /\ other = Append(prefix, "/")

ASSUME BucketAssumption ==
    /\ NoFile \notin Files
    /\ \A e \in Envs : e.prefix \in Seq(STRING)
    /\ \A sc \in Scenes : \A e, other \in {x \in sc.envs : x.bucket = "set"} :
          /\ SamePlace(e.prefix, other.prefix) \/ SamePlace(other.prefix, e.prefix)
          /\ \A f \in Files : Path(e, f) \notin Foreign

-----------------------------------------------------------------------------
TypeOK ==
    /\ scene \in Scenes
    /\ pc \in [Processes -> Booting \cup {"down", "serving"}]
    /\ env \in [Processes -> Envs]
    /\ release \in [Processes -> 0..Releases]
    /\ known \in [Processes -> SUBSET Versions]
    /\ table \in BOOLEAN
    /\ schema \in Seq(Versions)
    /\ recorded \subseteq Versions
    /\ files \subseteq Files /\ told \subseteq files
    /\ putting \in [Processes -> Files \cup {NoFile}]
    /\ undoing \subseteq Processes

\* Only the API embeds migrations.
MayStart(p, e, n) == e \in scene.envs /\ n \in IF p \in Apis THEN scene.releases ELSE {0}

\* The processes of the scene have just been started, on an empty database.
Init ==
    /\ scene \in Scenes
    /\ pc = [p \in Processes |-> IF p \in scene.who THEN "connect" ELSE "down"]
    /\ env \in {e \in [Processes -> scene.envs] :
                 \A p, q \in Processes \ scene.who : e[p] = e[q]}
    /\ release \in {r \in [Processes -> 0..Releases] :
                     \A p \in Processes :
                        IF p \in scene.who THEN MayStart(p, env[p], r[p]) ELSE r[p] = 0}
    /\ known = [p \in Processes |-> {}]
    /\ table = FALSE
    /\ schema = <<>>
    /\ recorded = {}
    /\ files = {} /\ told = {}
    /\ blobs = Foreign
    /\ putting = [p \in Processes |-> NoFile]
    /\ undoing = {}

-----------------------------------------------------------------------------
(* Coming up.                                                               *)

Goes(p, from, to) == pc[p] = from /\ pc' = [pc EXCEPT ![p] = to]

\* log.Fatal: an open transaction is rolled back with the connection.
Exits(p, from) == Goes(p, from, "down")

\* Whatever supervises the processes starts one again, perhaps with another binary
\* and another environment.
Start(p) ==
    /\ p \in scene.who
    /\ Goes(p, "down", "connect")
    /\ \E e \in Envs, n \in 0..Releases :
          /\ MayStart(p, e, n)
          /\ env' = [env EXCEPT ![p] = e]
          /\ release' = [release EXCEPT ![p] = n]
    /\ known' = [known EXCEPT ![p] = {}]
    /\ putting' = [putting EXCEPT ![p] = NoFile]
    /\ undoing' = undoing \ {p}
    /\ UNCHANGED <<scene, table, schema, recorded, files, told, blobs>>

\* connectDB: one of its ten attempts is answered, or none is.
Connect(p) ==
    /\ p \in Apis
    /\ \/ env[p].db /\ Goes(p, "connect", "create")
       \/ (~env[p].db \/ "db" \in scene.faults) /\ Exits(p, "connect")
    /\ UNCHANGED <<env, release, known, table, schema, recorded, Kept>>

\* CREATE TABLE IF NOT EXISTS: it looks, and creates when there was none.  Who
\* meanwhile comes second fails at the catalogue's unique index.
LookForTable(p) ==
    /\ \/ table /\ Goes(p, "create", "read")
       \/ ~table /\ Goes(p, "create", "creating")
    /\ UNCHANGED <<env, release, known, table, schema, recorded, Kept>>

CreateTable(p) ==
    /\ \/ ~table /\ Goes(p, "creating", "read")
       \/ table /\ Exits(p, "creating")
    /\ table' = TRUE
    /\ UNCHANGED <<env, release, known, schema, recorded, Kept>>

ReadApplied(p) ==
    /\ Goes(p, "read", "apply")
    /\ known' = [known EXCEPT ![p] = recorded]
    /\ UNCHANGED <<env, release, table, schema, recorded, Kept>>

Pending(p) == (1..release[p]) \ known[p]

\* The migration the loop over the sorted names has come to.
Due(p) == CHOOSE v \in Pending(p) : \A u \in Pending(p) : v <= u

\* Bug: what another replica has begun is taken for applied.
MutRunBodyLeftToOthers(p) ==
    /\ Pending(p) # {}
    /\ IF \E q \in Processes : pc[q] \in {"record", "commit"} /\ Due(q) = Due(p)
       THEN /\ pc[p] = "apply"
            /\ known' = [known EXCEPT ![p] = @ \cup {Due(p)}]
            /\ UNCHANGED pc
       ELSE Goes(p, "apply", "record") /\ UNCHANGED known
    /\ UNCHANGED <<env, release, table, schema, recorded, Kept>>

\* Begin and the file's statements.  Against a database where another replica has
\* committed the same file they may fail ("already exists") or not.
RunBody(p) ==
    /\ Pending(p) # {}
    /\ \/ Goes(p, "apply", "record")
       \/ Due(p) \in recorded /\ Exits(p, "apply")
    /\ UNCHANGED <<env, release, known, table, schema, recorded, Kept>>

\* Bug: versions are not unique.
MutRecordTwice(p) ==
    /\ Goes(p, "record", "commit")
    /\ UNCHANGED <<env, release, known, table, schema, recorded, Kept>>

\* Bug: whoever has run the statements waits until nobody else has.
MutRecordAlone(p) ==
    /\ pc[p] = "record"
    /\ \A q \in Processes \ {p} : pc[q] \in {"record", "commit"} => Due(q) # Due(p)
    /\ \/ Due(p) \notin recorded /\ Goes(p, "record", "commit")
       \/ Due(p) \in recorded /\ Exits(p, "record")
    /\ UNCHANGED <<env, release, known, table, schema, recorded, Kept>>

\* The row of schema_migrations, in the same transaction: it waits for whoever has
\* inserted the same one, and the primary key refuses a second.
RecordVersion(p) ==
    /\ pc[p] = "record"
    /\ \/ /\ Due(p) \notin recorded
          /\ \A q \in Processes : pc[q] = "commit" => Due(q) # Due(p)
          /\ Goes(p, "record", "commit")
       \/ Due(p) \in recorded /\ Exits(p, "record")
    /\ UNCHANGED <<env, release, known, table, schema, recorded, Kept>>

\* Statements and row become visible together; the answer may be lost.
Commit(p) ==
    /\ \/ /\ Goes(p, "commit", "apply")
          /\ known' = [known EXCEPT ![p] = @ \cup {Due(p)}]
       \/ /\ "db" \in scene.faults
          /\ Exits(p, "commit")
          /\ UNCHANGED known
    /\ schema' = Append(schema, Due(p))
    /\ recorded' = recorded \cup {Due(p)}
    /\ UNCHANGED <<env, release, table, Kept>>

Migrated(p) ==
    /\ Pending(p) = {}
    /\ Goes(p, "apply", "configure")
    /\ UNCHANGED <<env, release, known, table, schema, recorded, Kept>>

\* main after migrate: the provider, the bucket and the sealer, then the listener.
\* A replica that is refused here has migrated the database nevertheless.
ServeApi(p) ==
    /\ \/ ApiConfigured(env[p]) /\ Goes(p, "configure", "serving")
       \/ ~ApiConfigured(env[p]) /\ Exits(p, "configure")
    /\ UNCHANGED <<env, release, known, table, schema, recorded, Kept>>

\* The other processes open their pools lazily and wait for no schema.
Serve(p, kind, configured) ==
    /\ Kind[p] = kind
    /\ \/ configured /\ Goes(p, "connect", "serving")
       \/ ~configured /\ Exits(p, "connect")
    /\ UNCHANGED <<env, release, known, table, schema, recorded, Kept>>

ServeWorker(p) == Serve(p, "worker", WorkerConfigured(env[p]))
ServeLmtp(p) == Serve(p, "lmtpd", LmtpConfigured(env[p]))
ServeImap(p) == Serve(p, "imapd", ImapConfigured(env[p]))
ServeSubmission(p) == Serve(p, "submissiond", SubmissionConfigured(env[p]))

\* A statement of migrate fails for reasons of its own.
StatementFails(p) ==
    /\ "db" \in scene.faults
    /\ \E at \in {"create", "creating", "read", "apply", "record", "commit"} : Exits(p, at)
    /\ UNCHANGED <<env, release, known, table, schema, recorded, Kept>>

\* Killed, or stopped.
Crash(p) ==
    /\ "crash" \in scene.faults
    /\ pc[p] # "down"
    /\ pc' = [pc EXCEPT ![p] = "down"]
    /\ UNCHANGED <<env, release, known, table, schema, recorded, Kept>>

Boot(p) ==
    \/ Connect(p) \/ LookForTable(p) \/ CreateTable(p) \/ ReadApplied(p) \/ RunBody(p)
    \/ RecordVersion(p) \/ Commit(p) \/ Migrated(p) \/ ServeApi(p)
    \/ ServeWorker(p) \/ ServeLmtp(p) \/ ServeImap(p) \/ ServeSubmission(p)

-----------------------------------------------------------------------------
(* What the processes share.                                                *)

Serving(p, kind) == Kind[p] = kind /\ pc[p] = "serving"

\* UploadAttachment: the object first, under a name that is new.
PutObject(p, f) ==
    /\ Serving(p, "api")
    /\ env[p].bucket = "set"
    /\ putting[p] = NoFile
    /\ \A q \in Processes : putting[q] # f
    /\ f \notin files
    /\ putting' = [putting EXCEPT ![p] = f]
    /\ blobs' = blobs \cup {Path(env[p], f)}
    /\ UNCHANGED <<scene, bootVars, files, told, undoing>>

\* Then the row.  It may be there although its answer was lost; then the object is taken
\* back from under it, but nobody was told of it.
InsertAttachment(p) ==
    /\ Serving(p, "api")
    /\ putting[p] # NoFile /\ p \notin undoing
    /\ \/ /\ files' = files \cup {putting[p]}
          /\ told' = told \cup {putting[p]}
          /\ putting' = [putting EXCEPT ![p] = NoFile]
          /\ UNCHANGED undoing
       \/ /\ "db" \in scene.faults
          /\ files' = files \cup {putting[p]} \/ UNCHANGED files
          /\ undoing' = undoing \cup {p}
          /\ UNCHANGED <<told, putting>>
    /\ UNCHANGED <<scene, bootVars, blobs>>

\* An error here is ignored.
DeleteObject(p) ==
    /\ Serving(p, "api")
    /\ p \in undoing
    /\ blobs' = blobs \ {Path(env[p], putting[p])} \/ UNCHANGED blobs
    /\ putting' = [putting EXCEPT ![p] = NoFile]
    /\ undoing' = undoing \ {p}
    /\ UNCHANGED <<scene, bootVars, files, told>>

GetObject(p, f) == env[p].bucket = "set" /\ Path(env[p], f) \in blobs

Use(p) == InsertAttachment(p) \/ DeleteObject(p) \/ \E f \in Files : PutObject(p, f)

Next == \E p \in Processes : Start(p) \/ Boot(p) \/ StatementFails(p) \/ Crash(p) \/ Use(p)

\* A process that is coming up goes on; nothing is assumed of who starts it again.
Spec == Init /\ [][Next]_vars /\ \A p \in Processes : WF_vars(Boot(p))

-----------------------------------------------------------------------------
(* Properties.                                                              *)

\* However replicas race through migrate, die in it and come back with other
\* binaries: every migration takes effect once, in the order of the names, and is
\* recorded exactly when it has (migrate.go:16-18).
SchemaInOrder ==
    /\ \A i \in DOMAIN schema : schema[i] = i
    /\ recorded = 1..Len(schema)

\* A replica serves only on a database that has all its own migrations, whoever
\* applied them (main.go:36).
ServesItsSchema ==
    \A p \in Processes : Serving(p, "api") => 1..release[p] \subseteq recorded

\* A file whose upload was answered every worker with a bucket finds, with S3_PREFIX
\* written either way, whatever other uploads take back and whoever crashes; and other
\* deployments keep what is theirs (s3.go:93-107, service.go:320-334).  Of rows nobody
\* was told of nothing is said: they may lack their object.
FilesAreFound ==
    /\ \A w \in Processes, f \in told :
          Serving(w, "worker") /\ env[w].bucket = "set" => GetObject(w, f)
    /\ Foreign \subseteq blobs

\* Replicas started together on an empty database exclude each other, one migration at
\* a time, but never all of one another: without other failures one of them serves.
\* Nothing is assumed of restarts.
Complete(p) == env[p].db /\ ApiConfigured(env[p])

SomeoneServes ==
    (/\ scene.faults = {} /\ scene.who \cap Apis # {}
     /\ [](\A p \in scene.who \cap Apis : Complete(p)))
    => <>(\E p \in Apis : Serving(p, "api"))
=============================================================================
