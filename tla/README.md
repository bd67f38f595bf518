# HeroMail in TLA+

A verification development of the HeroMail backend: what the mail API, its
delivery workers and its account service do when requests, workers, clocks and
failures interleave. Modules are translated from the Go source; paths below are
relative to the repository.

## The system

HeroMail is a multi-tenant mail service: an HTTP API over Postgres, a delivery
worker fed through Redis (asynq), an LMTP server that takes inbound mail, an
IMAP server over the same mailboxes and an SMTP submission server. The
processes share nothing but the database, the queue and the object store; every
guarantee therefore comes from SQL: conditional updates, unique indexes, row
locks, transactions.

### Components

| component | state | operations | hard part |
|---|---|---|---|
| Delivery worker (`internal/email/queue.go`, `cmd/worker`) | `emails.status`, `email_events`, the asynq task, leases | enqueue, load, claim, prepare, send, record, give up | at-least-once tasks, lost leases, crashes between hand-off and record |
| Send service (`internal/email/service.go`, `store.go`) | `emails`, `attachments`, idempotency index | send, upload, read | races for a key or a file, a request that stops half-way |
| Passwords, links, sessions (`internal/account`) | `identities`, `users.must_change_password`, `user_tokens`, `sessions` | register, login, provider sign-in, reset, change initial password, logout | login straddling a change, two clicks on one link, stale reads |
| Verification codes (`internal/account`) | `user_tokens.attempts`, `locked_until` | issue, guess | parallel guesses, lock and lifetime boundaries |
| Sending domains (`internal/maildomain`) | `domains`, `dkim_keys` | add, verify, rotate, delete, choose primary | concurrent verifications around a DNS lookup |
| Inbound mail (`internal/inbound`, `cmd/lmtpd`) | mailboxes, folders, messages, UIDs | LMTP delivery, move, flags, append | redelivery, UID order, several recipients |
| IMAP sessions (`internal/imapservice`) | a snapshot of a folder per session | select, poll, idle, store, copy, move, expunge | a view that diverges from the folder |
| Submission, mailbox credentials (`internal/submission`, `inbound/smtp_password.go`, `inbound/access.go`) | mailbox owner, SMTP password, membership | authenticate, check, relay | rights that change between check and use |
| Workspaces, members, invites (`internal/workspace`, `internal/httpapi/members.go`) | workspaces, members, invites | create, invite, accept, remove, delete | last owner, cascades under running work |
| Rate limits (`internal/ratelimit`) | Redis counters | allow, allow strict | fixed windows, Redis away |
| API keys, HTTP handlers (`internal/apikey`, `internal/auth`, `internal/httpapi`) | live keys; requests between two statements | create, revoke, use a key; look a role up, then act | a role or an object that goes between the two |
| Start-up, schema, secrets, storage (`main.go`, `migrate.go`, `cmd/*`, `internal/secrets`, `internal/storage`) | `schema_migrations`, the environment of each process, sealed keys, the bucket | connect, migrate, configure, serve; seal, open, put, get, delete | replicas that migrate at once, processes with different environments, crashes between two migrations |
| Message parsing and presentation, building (`internal/inbound/parse.go`, `attachments.go`, `presentation.go`, `prepare` of `internal/submission`, `internal/provider`) | none | take a message apart, show it, reply to it, put one together | damaged input, limits that two functions must agree on |
| Generated code (`internal/httpapi/gen.go`) | none | decode and dispatch | see *Not modelled* |

How they interact: the API writes an `emails` row and its first event in one
transaction, attaches files in another, and enqueues a task named after the
row. A worker takes the task, claims the row, reads the files and the DKIM key,
talks to the receiver's server and records the outcome. Deleting a workspace
cascades through all tables under all of them. The account service and the
worker meet only in the provider. LMTP, IMAP and the API meet in the mailbox
tables. The API alone migrates the schema all of them use, and each process has its own
environment: what one seals or stores another must be able to open and find.

What makes each correct:

- *delivery*: no message handed over twice, no false outcome, a trail that
  matches the status, a bounded number of attempts, no task that never ends;
- *send*: one message per key, complete messages, no file in two messages,
  no success for a message nobody will deliver, and nothing sent of a refused request;
- *sessions*: whoever holds a session proved the password it rests on, links
  and duties to change a password are used up exactly once;
- *codes*: the cap on guesses is real, a code works once;
- *domains*: one signing key at most, through every rotation, and only keys seen
  in the DNS take over; a claim is verified by its own challenge; mail of a domain that
  signs is signed or kept back;
- *inbound*: an acknowledged message is stored once, UIDs grow in the order
  clients see them;
- *IMAP*: the client's numbering always matches what it was told;
- *access*: no mail leaves and none is shown for a right that is gone, a password
  that has stopped to hold never holds again, private mail stays private when its
  address changes hands, every workspace has one owner;
- *limits*: what all ways of sending let through in one window stays within it;
- *deployment*: migrations take effect once and in order, whoever runs them; a
  replica serves on its own schema or a newer one; an uploaded file is found;
- *messages*: files are listed or said to be missing, whatever is damaged; no body takes
  the place of an earlier one that can be read; no draft goes out under another name; what
  one end accepts the other does not refuse.

`PROJECT.json` lists under "hazards" the places where each can go wrong, with
the property that would notice.

## Modules

| module | models |
|---|---|
| `EmailPromise` | abstract: what the pipeline promises about one message |
| `Delivery` | rows, tasks, leases and workers, one step per transaction or call |
| `Outbound` | `Service.Send` composed with `Delivery` |
| `PasswordSessions` | one account's password, links and sessions |
| `VerificationCode` | one account's one-time codes, with a clock |
| `SigningKeys` | the DKIM keys of a domain: claim, rotation, verification, deletion; mail that looks for its key |
| `MailStore` | mailboxes, folders, messages and UIDs; LMTP deliveries; the web client's moves |
| `ImapSessions` | IMAP sessions over `MailStore`: snapshots, polls and commands |
| `Workspaces` | one workspace: members, domain, mailbox, SMTP password, API key, sent mail |
| `MailAccess` | who is shown received mail, over `Workspaces`: IMAP connections, web requests |
| `Submission` | how mail leaves, over `MailAccess`: SMTP sessions, sends by web and key, the quota |
| `Deployment` | the processes from start to service, the migrations, what depends on their environments |
| `Messages` | functions: a message's files, bodies, fields and detail view; a draft and a composed message on their way out |
| `Conversation` | a message that arrives, is shown, answered, sent and read, or handed in and relayed |
| `MC...` | instances for TLC |
| `DeliveryProofs`, `OutboundProofs`, `PasswordSessionsProofs`, `VerificationCodeProofs`, `SigningKeysProofs`, `ImapSessionsProofs`, `SubmissionProofs`, `DeploymentProofs` | theorems and proofs |

Definitions named `Mut...` are versions of the definition that follows them with
a plausible bug; no behaviour uses them. Each shows which mistake in the code a
property would notice (`PROJECT.json`, "mutants").

### Delivery

State: the status and event trail of every message, the asynq task with its
retry count and lease, and each worker's place in `Worker.Deliver` with the
message and retry count it was started with. `copies` counts what the receiving
server took, `handOffs` the confirmations that were read, `asks` the enqueue calls,
`stops` the handlers cut short by a shutdown.

`Create` and `EnqueueSend` are the API's steps. `Load`, `Claim`/`ClaimFails`,
`LoadAttachments`, `ResolveDKIM`, the SMTP conversation (`ReceiverTakes`,
`SendSucceeds`, `SendFails`), `RecordSent`, `GiveUp`, `RetryLater` are the handler in
its order; `Mark...` calls update rows whatever their status is, as the SQL does. The
receiver may have taken a message whose answer is then lost: the attempt failed, and
the next one sends another copy. asynq is outside the repository and modelled as it is
used: one task per id until it is acknowledged (an archived one included), a lease per
running task, `RetryOrArchive` for a returned error, a timeout or a lost lease,
`Abort` for a shutdown, `Recover` for the tasks of dead workers. A worker whose
lease is gone keeps running; its acknowledgement no longer counts, its database
calls may fail with its context. A transaction that fails may have committed.

`asynq.MaxRetry(8)` allows nine attempts, one more than the comment on
`maxAttempts` counts; `AttemptsWithinBudget` states the real number.

`EmailPromise` says the same without queue and workers: a message is accepted,
attempted, confirmed at most once, sent in as many copies as answers were lost and one
more, and its outcome is the truth. `Delivery` implements it under the mapping written
out in `Promise` (`status`, `copies` and `handOffs` stand for themselves, all else is
hidden).

### Outbound

A call of `Send` is a process with one step per statement: look the key up,
compare content and then files (`seen` is the status the lookup returned and the
decision about re-enqueueing uses it, stale or not), resolve the files, insert
row and event, attach, enqueue. A call writes at most one row, which has the
call's name. `Reread` is the answer of the loser at the unique index. With
`"api"` among the faults a call may end between any two steps, and an enqueue may
succeed without its answer arriving. The workers' `LoadAttachments` also reads the files
and `ReceiverTakes` sends what was read (`sentWith`). Every other step is `Delivery`'s
own.

An upload is `Put`, `InsertAttachment` and, after an error, `CleanUp`: the bytes are
in the bucket before the row exists, and a request names a file only when the answer
of its upload has come. `LoadAttachments` gets as far as sending only with the bytes of
every file. An insert whose answer is lost leaves a row whose bytes are then deleted; it
stays unattached, since nobody was told its id.

A call that loses one of its files at `Attach` is refused after its row is committed. What
it leaves, a queued row with some of the files, stays for good: `RefusedIsNotSent` says that
nobody sends it and that no retry is told it is accepted, for `Compare` compares the files
that the row has, not those it was meant to have.

### PasswordSessions

A hash is a password and a version, because bcrypt salts: setting the same
password gives another hash, and `startPasswordSession` compares hashes.
`Login` verifies a hash it has read and opens its session in a transaction that
compares it again; `ResetPassword` is seven steps; `ChangeInitialPassword` one
transaction and a session. A call ends anywhere. The account may not exist yet
or have an initial password given by an administrator, which is how
`must_change_password` is set (migration 0014). Sign-in with an external
provider (`SignInWithIdentity`), which tests call and no route reaches yet, finds or
links an identity by its verified address.

### VerificationCode

`ConsumeOTP` as the database runs it: the transaction begins (its `now()` is
fixed), the SELECT finds the live row, waits for its lock and looks at it again,
the answer is decided with the clock of that moment. The code's lock and its
lifetime both last 15 minutes, so a lock normally outlives the code; only a
transaction that began before the expiry and waited for the lock reaches the
fresh budget of `store.go:331`. The API and the database are taken to share a
clock.

### SigningKeys

One domain name and the claims to it, one at a time. `Create` and `FirstKey` are
`Add`, `Rotate` and `NextKey` are `RotateDKIM`. `Verify` is `Check` (its reads and
DNS lookups in one step: a lookup may miss a record that is there, so what they
find is any part of what is published at the end, and a row or key that changes
in between is met again by the statements that follow), `RecordCheck`,
`PromotePendingKey` and the transaction of `ActivateDKIMKey` in three steps. The
first of them is what a READ COMMITTED statement sees when it begins, the second
has waited for the locks of others and looks at the rows again, the third is the
second statement, the unique index `dkim_keys_one_active` and the commit. An
uncommitted retirement is a lock (`target`) and nothing else; whoever would meet
it waits. `tokens` and `dns` hold what has ever been published. A request may fail
at any step. Three promotions that wait for each other in a circle are aborted by
the database, which is `Fail`. Domains carried over by the migration, verified
without a challenge and without a key, are left out, and so is `SetPrimary`.

Meanwhile mail looks for a key. `LookUpDomain` reads the domain, `ReadKey` the active key,
and `Leave` hands the mail over, three steps with the others' in between. `by` says who
sends: the worker (`resolveDKIM`) sends unsigned when there is no claim, no verification or
no key, and tries later after any other error; the submission server refuses without a key;
the API sends its own codes and links in any case (`signMailFrom`). `SealedElsewhere` are the
keys made under another SECRET_KEY than the senders have: they are not opened. A mail found
unsigned may leave after the domain has got its first key, and mail of a domain deleted
meanwhile leaves unsigned; `SignedOrNotSent` speaks of domains that had a signing key when
they were looked up (`had`) and are still there.

### MailStore and ImapSessions

`rows` are the committed messages, each with mailbox, folder, UID, mail and the flag
`smtp` that tells deliveries from what clients have put there. A folder is its
UIDVALIDITY under a name (`dirs`). Whoever inserts or moves a message takes the
mailbox's advisory lock and a UID from the sequence in one step and commits in
another; `open` holds what will be added and removed, which is all that locks, the
foreign key and the unique indexes are about. An LMTP transaction (`Rcpt`, `Data`,
then per recipient `DeliverFolder`, `DeliverInsert`, `DeliverCommit`) has one answer
for all; a retry is another transaction with the same mail. `DeliverCommit` may
store the mail and answer with an error; `DeliverFails` stands for every other
failure. `landed` counts what was stored, `marks` what IMAP clients have done.

A session is a snapshot (`snap`), and `told` is the numbering its client has made of
the answers. `Status` and `Select` wait for the advisory lock. `ExpungeNumbers` and
`Polled` are `Poll`'s responses. EXPUNGE is three steps because the library between
them is not ours: `Search` (what the library will report), `ReadDeleted` and `Purge`.
MOVE inserts its copies in one statement and deletes by folder name in the next
(`MoveInsert`, `MoveDelete`). Folders are created, deleted and renamed, INBOX by moving
its messages.

Known behaviour of the code that the properties except, each seen in the model:

- A MOVE during a rename of its source copies from the one folder and deletes in the
  other: twin copies, or with two renames a message lost. An EXPUNGE whose folder is
  renamed away while it reads and back before it deletes goes by the flags of its
  snapshot (`"torn"` in `KeptUntilRemoved`).
- A delivery retried after an IMAP MOVE or EXPUNGE of the first copy is stored again:
  the unique index covers only rows with `smtp_delivery` (`RetryStoredOnce`). A message
  without a Message-ID is stored at every try.
- An EXPUNGE that another session's STORE overtakes removes what the library does not
  report; the client's numbers are wrong from then on (`lost` in `NumberingAgrees`). So may
  they be when the folder is renamed during the EXPUNGE: what is reported is then not
  removed, and when it comes back under the folder's name it has a low number, where `Poll`
  tells of arrivals only at the end. The proof of `NumberingAgrees` fails without this
  exception, and the scenes with `"rename"` show why.
- Poll compares flags with the session's snapshot: a flag that another session set and
  took back is not told. Flags other than \Deleted are not modelled.

### Workspaces, MailAccess and Submission

`db` holds the committed rows. A handler finds workspace and role by `Scope` and acts in
a later statement by the ids it has read; `req` are the handlers in between. Where a
statement asks again, so does its action (`SetSMTPPassword`, `DeleteWorkspace`), and
where it does not, the action does not: a role lost after `Scope` still acts once, which
is how the code is. Triggers are operators of the action that fires them
(`WithoutIssuer`, `Retained`). A password row being written is a request at `"commit"`,
invisible to the triggers and, when it replaces a row, a lock on it.

`MailAccess` adds IMAP connections, which repeat their login's check before each
command in two queries (`CheckAccess`, `CheckActive`), and the web client's reading.
`Submission` adds SMTP sessions (`Auth`, `MailFrom`, `RcptTo`, `Data`, `Quota`, `Sign`,
`Recheck`), the sends that end in a row for `Outbound`, and the limiter: `AllowAll` goes
on without Redis, `AllowStrict` does not. `revoked` are the passwords that have once
opened a session and stopped to; `held` are the commands and reads in flight whose right
has been there, whole, at some moment since they were sent; `open` in a mail is who may
ever have been meant to read it; `passed` and `submitted` count what was let through.

Known behaviour of the code that the properties except:

- A mail row created after its mailbox went (the check of the sender came before) is not
  seen by the trigger that notes the owner: every member may read it. `open` says so.
- A second deletion of the domain overwrites the noted owner with that of the second
  mailbox; who is given the address may read what was sent from it.
- A password written and not committed while its issuer loses the role is missed by the
  trigger; it is then not honoured, until the issuer gets the role back.
  `RevokedForGood` speaks of passwords that have been good.
- Windows are fixed: twice the limit may pass around a boundary (`ratelimit.go:35-40`
  says so). `QuotaHolds` speaks of one window, and excepts those in which Redis failed,
  but not for SMTP.

Left out: personal workspaces, whose members never change; an unverified domain, which
allows nothing; the state `must_change_password`, which bars the account's password.

### Deployment

A migration is its place in the order of file names; `schema` is the sequence of those
that have taken effect. `Boot` is one step per statement of `main`, `connectDB` (its ten
attempts are one that succeeds or fails) and `migrate`: create the table, read what is
recorded, then per migration a transaction that applies it, records it and commits. Two
replicas may apply the same migration at once: the primary key of `schema_migrations`
makes the second wait and then fail, and its process dies and is started again by a
supervisor, which is outside the repository. Workers, LMTP, IMAP and submission servers
migrate nothing and wait for no schema. A process is started with any environment and
release of the scene. A path in the bucket is `S3_PREFIX` and a key, written with or
without its slash. An upload is `PutObject`, `InsertAttachment` and, after an error,
`DeleteObject`, as in `Outbound`, here with the environments they run in. The INSERT may
commit and lose its answer: the row is there, the object goes, and `FilesAreFound` says
nothing of the row. It speaks of `told`, the uploads that were answered.

### Messages

The MIME tree is a sequence of parts in the order of the walk, each with its depth; of a
text only the characters that matter are told apart, and bodies are lengths. The
operators have the names of the Go functions. `Reached` are the parts a walk counts,
`Place` is what it counts a part as, and so the part's id; `Opened` are those it looks into.
`CollectBodies` applies `Collect` to one part after the other, `InlineMedia` `Inline`,
`Prepare` `CopyLine` to the lines of the head; each is a recursive function of the
place, for the proofs. A file whose name leaves nothing is named after its id: a word of three
or more characters stands for that. The MIME library is outside the repository: a part it cannot decode is an
error to the loop that reads it, a damaged multipart ends early, and what the mail
library builds of the provider's calls is `Build`. Addresses are told apart by case, because
`splitAddress` stores the one it can parse in lower case (`Lower`), while a sent one keeps
the case it was given in.

### Conversation

One message on its way: it arrives (`Arrive`) or is composed (`Compose`), is shown,
answered with the references of what is shown (`Reply`, which is `SendWorkspaceEmail`
with `reply_to_message_id`), checked and built (`Send`) and read again, any number of
times; or a draft is handed in and relayed (`HandIn`, `Relay`). The steps apply the
functions of `Messages`, and touch nothing of the store: `MCImapSessions` runs them in a
scene in which nobody else acts. `MailSurvivesHandling` is `ShownIsWhole`,
`RepliesAreAccepted`, `SentIsRead` and `RelayedIsOwn`. What may arrive, be composed and be
handed in is any `IsMessage`, `IsComposed` and `IsDraft`: parts of any number, in any
nesting that is a tree, with any names, sizes and damage. An id has at most 900 characters,
and more bytes when they are not ASCII: `Present` counts bytes and `Send` characters, and
the reply to such a message carries no reference.

Known behaviour of the code that the properties except:

- Bodies are lost without a word (`LostInSilence`). A part in an encoding or charset the
  library does not know ends the loop of `collectBodies` (`parse.go:68-72`): that part and
  its later siblings are not read, and nothing says so. `BodiesAreFirst` says that what is
  shown is the first body of all the others.
- Of a message go-message cannot open (`lenient` is FALSE) no body and no inline media are
  shown, and nothing says that they are missing (`parse.go:50-60`, `presentation.go:43-46`);
  its files are listed if `net/mail` can open it, and said to be missing otherwise.
- A body is cut at `maxBodyBytes`, and what of it cannot be decoded is left out; the raw
  message is kept.
- The type of an uploaded file is what the client says it is (`service.go:294-327`). One
  uploaded as `multipart/...` goes out as a part of that type, and who receives it takes it
  apart, finds no file, and the view says that something is missing. `File` has no such
  type, and the proof of `SentIsRead` fails without this exception.

## What the runs check

| run | instance | shows |
|---|---|---|
| `delivery` | 1 message, 2 handlers, 3 attempts, 2 enqueues, 1 shutdown; no faults or every fault | all properties of `Delivery`, safety and liveness, and `ImplementsPromise` |
| `outbound` | 3 calls, 1 key, 2 files and their uploads, 1 worker, 2 attempts; a failing API and deletion, or failing workers | `OneMessagePerKey`, `SentWhole`, `FileSentOnce`, `AcceptedIsUnderway`, `RefusedIsNotSent` |
| `password_sessions` | 3 calls of any kind, 2 links, 2 passwords, 2 external identities | `LoginSessionIsCurrent`, `LinkHonouredOnce`, `InitialPasswordReplaced`, `WaysInAreProven` |
| `verification_code` | 3 guesses, 2 codes asked for, cap 2, lockout 2, lifetime 2, clock to 2 | `GuessesCapped`, `CodeWorksOnce`, `LockedIsRefused` |
| `signing_keys` | 2 requests or mails, 2 claims to one name, 3 keys, one of which cannot be opened | `OneSigner`, `RetiredHasSuccessor`, `SignerWasPublished`, `VerifiedByOwnToken`, `SignedOrNotSent` |
| `imap_sessions` | 2 deliveries of one mail, the web client, 2 sessions on one mailbox; 13 scenes. In one more, conversations: all trees of 3 parts and some of up to 8, 20 000 drafts, messages composed of up to 3 files, replies without end | `TypeOK`, `AcknowledgedIsStored`, `RetryStoredOnce`, `KeptUntilRemoved`, `NumberingAgrees`, `UidsAscend`, `MailSurvivesHandling` |
| `submission` | 3 members, 2 requests, an SMTP session, an IMAP connection; 17 scenes | `RevokedForGood`, `PrivateMailStaysPrivate`, `QuotaHolds` |
| `deployment` | 2 replicas with 2 releases, a worker, 3 mail servers, 5 environments, 2 files; 5 scenes | `SchemaInOrder`, `ServesItsSchema`, `FilesAreFound`, `SomeoneServes` |
| `delivery_stuck` | workers may die | violated: `NotLeftProcessing` |
| `outbound_file_dropped` | 2 calls, one key, with and without the file, no faults | violated: `SentWhole` |
| `outbound_other_content` | 2 calls, one key, different content, no faults | violated: `AnsweredWithOwnContent` |
| `signing_keys_back` | 2 requests, 1 claim, 3 keys | violated: `RetiredForGood` |

The four violated properties state what comments in the code say; "findings" in
`PROJECT.json` quotes them.

1. A worker that dies after `MarkProcessing` leaves the row `processing` for
   ever: the redelivered task cannot claim it and is acknowledged.
2. Between `Create` and `AttachToEmail` a row has no files. A second request with
   the same key and text and no files compares equal and enqueues it, and it is
   sent without the first request's file.
3. The loser of a race for a key is not compared with the row it is answered with: another
   message's answer, and its own is never stored.
4. `Verify` chooses a pending key and activates it by id later. If other `Verify`
   calls activate and replace that key in between, the older one brings the retired
   key back, whose record the customer may have removed.

`Outbound.cfg` states `SentWhole` for clients that always name the same files
under one key, which excludes the second finding.
`AcceptedIsUnderway` and `RefusedIsNotSent` except answers that hand back a concurrent call's row: if the winner
fails before its enqueue, the loser has reported success for a message that waits for
nobody.

### Bounds, and why they are enough

- *Messages and files.* Messages meet only through keys, files and workers. One message
  shows every interleaving of its delivery; `Outbound` has three. Two files are a call that
  gets one and loses the other, which takes a third call under no key.
- *Workers.* Two handlers are enough for every pair that can collide on a row: a
  third would stand where one of the two stands. `Outbound` has one, since what it
  adds is between calls and the queue.
- *`MaxRetry`* 2 gives a first, a middle and a last attempt. The theorems hold
  for every value.
- *`MaxAsks`* bounds enqueue calls per message, *`MaxStops`* the aborted
  handlers: an abort does not count as a retry, so without it a message could
  be attempted for ever.
- *Calls, links, passwords.* Three calls allow one that is overtaken twice; two
  links an old and a new one; two passwords a right and a wrong one. The theorems
  hold for every number.
- *Keys.* Three: one that signs from the start and two that replace it, which is what
  an overtaken `Verify` takes. The theorems hold for every number.
- *Scenes.* `imap_sessions` and `submission` start in one of several scenes: who acts,
  what is done, what mail or owner there is. Each scene holds the kinds of writers that
  can meet on one row or lock, so every pair of them meets; all at once would be out
  of reach and would add no new pair.
- *UIDs, ids, folders.* `maxUid`, `ids` and `MaxFolders` stop the sequences: at least
  one number for every writer of the scene and one to spare.
- *Mail in `submission`.* One mail, one mailbox, one domain: privacy is about one mail
  and the hands its address passes through. Limits of 1 and 2 are met and passed.
- *Cap, lockout, lifetime* of 2 let three guesses reach the lock, outlast it and
  meet the expiry. `CapIsReal` holds for every value.
- *`MaxTime`* stops the clock.
- *Processes, releases, environments.* Two replicas are every race for a migration, two
  migrations have one that is recorded and one that is not; two files are one that is
  answered and one that is taken back. The theorems hold for every number.
- *Messages.* The limits are small so that each is met, just passed and far passed: 6
  parts, depth 2, names of 3 characters, a budget smaller than two pictures, chains of 5.
  Trees of three parts hold every pair of neighbours and of parent and child; wide ones
  pass the number of parts. The limit on chains bounds a conversation, so that it may go on
  for ever in finitely many states.

### Deadlock and fairness

Every run has `CHECK_DEADLOCK FALSE`: when all requests are answered and the
queue is empty the modelled system rests.

`Delivery` and `Deployment` have liveness properties. `QueueFairness` assumes weak fairness of
every handler (asynq runs it in its own goroutine, each blocking call is bounded
by the task's timeout), of the scheduler that forwards retries and of the
recoverer (loops of the asynq server), and strong fairness of dequeuing a given
pending task by some worker: workers are busy in between, and asynq serves its
queue in order. Nothing is assumed of failures, of the API or of shutdowns.
`QueueDrains` holds with all failures; `EventuallySettled` without any.
`SomeoneServes` assumes weak fairness of the start of each process that has been started,
which is a sequence of bounded calls, and nothing of restarts: of two replicas that
migrate at once and do not die, one comes up.

## What is proved

All with TLAPS, for every value of the constants under the modules' assumptions
(`DeliveryAssumption`, `OutboundAssumption`, `SessionsAssumption`, `CodeAssumption`,
`KeysAssumption`, `StoreAssumption`, `SessionAssumption`, `WorkspaceAssumption`,
`LimitAssumption`, `DeploymentAssumption`, `BucketAssumption`, `TalkAssumption`, which TLC
evaluates in the runs). Of the type invariants proved here only that of `ImapSessions`, which has bounds in
it, is also checked by a run.

*Delivery* (`DeliveryProofs`). Type correctness first. None of the other
properties is inductive: that nobody else claims a message follows from where
its holder stands, so `ClaimInv` adds

- `HolderProcesses`: a message that is held is `processing` or deleted with its
  workspace,
- `HolderKnows`: a holder has handed over exactly when it stands at the record,
- `ConfirmedIsThere`: what was confirmed was taken by the receiver,
- `AbsentUnsent`: nothing is handed over before its row exists.

With them `ClaimIsExclusive`, `AtMostOneHandOff` and `OutcomeIsTrue` are inductive:
a claim needs `queued` or `failed`, which excludes a holder and a past hand-off, and
every record is made by the holder. `TerminalFinal` is a step property of the
same invariant: only claims and records write, and neither is enabled on a final
message. `DeliveryImplementsPromise` maps each step to an abstract one or a stutter.
`TrailAgreement` pairs every status with the events that lead to it (`Paired`), since each
transaction writes both. The budget pays for every attempt: what a task has
`Used` is at most what its enqueues, retries and aborts have `Paid`; `LeaseInv` keeps two
handlers from paying with one retry, `CopiesInv` counts the copies of lost answers.

*Outbound* (`OutboundProofs`). Every step is one of `Delivery` or leaves its variables alone
(`StepIsDelivery`), by which the invariants of `Delivery` carry over. `OneMessage` rests on `KeyInv`: a live row with a key is the only one, which is
the unique index. `FileOnce` and `WholeMessages` rest on `FileInv` and `WholeInv`: what a
worker has read or sent is what the row's call attached, provided that a key names the same
files (`SameFilesUnderKey`, which excludes the second finding). `AcceptedUnderway` rests
on `Served`, `AcceptedSettled` and `UploadInv`, for behaviours without failing workers.
`RefusedNotSent` rests on `RefusedInv`: the row of a call that is about to attach has none
of its files, so no other call finds it equal, and when one file is lost it never has them
all. This, too, needs `SameFilesUnderKey`.

*PasswordSessions* (`PasswordSessionsProofs`). `LoginInv`: a live login session's
hash is current, because every change of the hash revokes, in the same step, what
is live. `DutyInv`: while the duty lasts, a reset that passed its comparison
chose a password other than the one stored, since the stored one only changes
together with the duty. `LinkInv`: a redeemed link is consumed or deleted, and
only the newest link is live. `ProvenInv`: every identity of the account was proved by
whoever holds its address.

*VerificationCode* (`VerificationCodeProofs`). `CodeInv`: who is about to answer
holds the row's lock and has read what is still there (`HoldsItsRow`); the last
`attempts` guesses belong to the current budget and all earlier ones are at least a
lockout old (`Counted`). A new guess is therefore `MaxAttempts` after one that is
old enough.

*SigningKeys* (`SigningKeysProofs`). `KeysInv`: locked rows are signing keys of the
lock's domain and of no other lock (`LocksHold`), a chosen key belongs to its
request's domain and was published (`Chosen`), stored keys belong to live claims
(`Placed`). At the commit the index leaves nothing signing but what is locked and
what is chosen, so one key signs afterwards (`SignerIsOne`); and nothing is
retired unless the chosen key is still there, for the locks keep the domain from
being deleted (`SigningGoesOn`). `OneRequest` carries the part that says what the
other requests know, once for all steps. `SignedOrKept` rests on `MailInv`: a mail whose
domain had a signer when it was looked up finds one as long as the domain lives
(`StillSigned`), because the two statements of a rotation commit together
(`ActivateLeavesSigner`, `SignersStay`).

*MailStore and ImapSessions* (`ImapSessionsProofs`). `StoreInv` follows rows by the message
they hold: an uncommitted row of a delivery holds the lock of its mailbox, which no other
transaction has (`OneLock`), and its message was not stored there when the index was
asked, nor since (`DeliveriesHold`); what any other transaction writes replaces the same
message (`CarriedOver`); what was ever stored is still recognised, or a client has moved or
removed it (`StoredIsKnown`); and each recipient is still to come or has the mail
(`RestIsToCome`). LMTP transactions, web clients and sessions are different actors
(`StoreAssumption`, `SessionAssumption`).
`NumbersInv` adds the numbers: no message of a mailbox shares its UID (`OneUid`), no two
folders their UIDVALIDITY (`Folders`), and what a transaction will write under the lock is
above every committed UID of its mailbox and everything announced of it (`Above`), for the
sequence is read under the lock and STATUS and SELECT wait for it. INBOX renamed is
the one write without the lock, and it keeps the numbers in a folder that is new
(`Follows`). `UidsAscend` is what then holds of a commit. `KeptInv` adds that a MOVE under
way has a copy of every message it saw (`MovesKeep`): the lock keeps others from giving
one of its UIDs to another message.

`ViewInv` is what `NumberingAgrees` needs. `Sees` says of a session that its client was
told the numbers of its snapshot, each at its rank; that what lies with these messages and
is not in the snapshot is above them (`ArrivalsAbove`), and so is what others are about to
commit (`LaterAbove`). EXISTS can only add at the end, so this is what makes `Poll` right. It
holds because messages that lie together have lain together before or were numbered under
the lock (`Steady`, `Fresh`): a renamed folder keeps all its messages, and INBOX renamed
gives all of them away (`OneFolder`). What a client makes of EXPUNGE responses is proved for
lists of any length, from the last number down (`ExpungedDown`, the library's report) and
from the first up with the shift that `Poll` makes (`ExpungedUp`); `PolledInOrder` joins them
with the arrivals. These are inductions over the list, done by the smallest place at which
the list would be wrong. `TypeInv` is what `TypeOK` needs besides: a UID is given once, by
what is committed and what is to come (`UidsOnce`), and the sequences stay within the scene
(`Bounded`).

*Messages and Conversation* (`ImapSessionsProofs`, whose instance they share).
`TalkAssumption` says of the limits that what is sent at its own limits is within those of
reading: walks see four parts more than a message may have files (the root, and a body of
at most three parts), and go two deep; names have three characters at least. The code's
limits are 256 parts, depth 32, names of 200 characters, and 20 files. Of messages it says
only what `IsMessage`, `IsComposed` and `IsDraft` do. The inductive invariant is
`TalkInv`: what is received is an `IsMessage`, what is requested has an `IsComposed` content
and a chain within the limit, what is relayed is `Prepare` of a draft that was
accepted. That a built message is again an `IsMessage` (`BuildIsMessage`) is what lets a
conversation go on.

What the walks compute is proved for messages with any number of parts. The step of each
walk keeps a statement about the parts walked so far, and `StepByStep` carries it to the end:
that a place that breaks it has a smallest one, which the step refutes. For the bodies the
statement has two halves: what is kept is the first readable part of its type (`Found`), and
the depth at which the walk skips is that of a damaged part which hides what comes next
(`Skips`, `HiddenIsActive`). For inline media, that the budget pays for all that is shown, and that
nothing was left out unless the view says so (`ViewRight`, `BoundedInline`). For drafts, that the
copy is the kept lines, each at its rank (`Copied`). Ids are ranks, too: `RankProperties`
and `RankSteps` are shared with the numbers of IMAP. `ReferencesFit` proves that the chain
the code looks for exists, so that `CHOOSE` has something to choose from.

*Submission* (`SubmissionProofs`), which covers `Workspaces` and `MailAccess` as well.
`QuotaInv`: what was let through is at most what was counted, unless Redis was away
(`Booked` for SMTP, which never is). `PrivateAlways`: every change of a mailbox's owner
opens the mail to whom it then admits, in the same step. `RevokedInv`: a password that
is honoured has the number of a row that is there, no row gets an old number, and only
`AssignOwner`, which deletes the row when the owner changes, gives a mailbox to another.

*Deployment* (`DeploymentProofs`). `BootInv`: what took effect is a prefix of the
migrations in their order (`SchemaInOrder`), what a process takes for applied is a prefix of
that (`KnownIsPrefix`), an uncommitted row of `schema_migrations` keeps others from
inserting it (`InsertedAlone`), and a process past the migrations has all of its own
(`UpToDate`). `DueFollows`, that the migration a process applies is the next one, carries
the commit. `FilesInv`: every file that was answered, or still may be, has an object where
all that share the bucket would look, and a file on its way is nobody else's (`Answered`,
`Uploading`), so that what is taken back was never answered. That they look in one place is `BucketAssumption`: those who have the bucket
have one prefix, with or without its slash (`SamePlace`), and other deployments keep their
objects elsewhere.

Every invariant and every action property the runs check, and the refinement of
`EmailPromise`, are stated by a theorem. Only model-checked is what eventually happens (`QueueDrains`,
`EventuallySettled`, `SomeoneServes`), for liveness under fairness is outside the proof
system's reach.

## Not modelled, and why

- Generated code: `internal/httpapi/gen.go` is 41% of all Go lines, decodes requests and
  calls the handlers, and has no state. Nothing is mapped to it, which is why the lines the
  modules stand for are a third of the code, and half of what is written by hand.
- HTTP status codes, decoding, listings and conversions: stateless layers over the
  services. The routes' guards and roles are in `Workspaces`.
- The computation of signatures, hashes and ciphertexts, and the bytes of SMTP, IMAP and
  S3: the models see who has which key and what a call can answer.
- Request validation, other than what `Messages` needs of it: it changes nothing.
- The limits on log-ins, codes and uploads: single counters of the same limiter, which
  `Submission` has for the quota.
- Personal workspaces, invites, renaming, the primary domain.
- IMAP FETCH and subscriptions, and what the library does with them.
- What a migration does to the data. The constraints and triggers they declare are part
  of the actions they guard.

## Plan

What is left, in the order of what matters most:

1. The choice of the primary domain, and personal workspaces, whose mailbox follows its
   owner.
2. Flags other than \Deleted, with what a client knows of them.

Runs stay within minutes: two or three actors, two objects, clocks of two or
three ticks, symmetry over actors where no property names one.
