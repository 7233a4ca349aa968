# SecureMail backend: specifications and proofs

TLA+ modules of the SecureMail backend (NestJS, Prisma on PostgreSQL, BullMQ on
Redis), the TLC runs that check them on small instances, and theorems about them
checked by TLAPS. Paths are those of the repository (`src/...`, `prisma/...`).

## 1. The system

The backend connects a user's mailboxes (Gmail, Outlook, IMAP), copies their mail
into the database, analyses every message in a security pipeline, files it by the
verdict and lets the owner act on it. It is one Node.js process with three BullMQ
workers that matter here: `email-sync` (concurrency 5), `email-process`
(concurrency 3) and `email-send` (concurrency 1). Handlers interleave at every `await`.

| Component | State | Operations | Interacts by | What makes it correct |
|---|---|---|---|---|
| Email sync (`mailboxes/email-sync.*`) | Email, Attachment, Folder rows, `lastSyncedAt` | schedule, sync per provider, upsertAndEnqueue | reads the provider, writes rows, adds `process-<id>` jobs | every listed message gets one record and one job; rows follow the provider; deleted mail stays deleted |
| Analysis jobs (`mailboxes/email-process.processor.ts`) | the job, Email.analysisStatus | load, fetch attachments, analyse, mark, notify, catch and retry | runs the security service; retried by the queue | PENDING ends; a finished report survives failures |
| Security service (`security/security.service.ts`) | report, flags, folder, malware verdict of the Email row; a malware scan in memory | runPipeline, persistResults, late continuation | writes the row from the job, and again after it | flags, folder and verdict agree whoever wrote last; a duplicate is removed only beside a copy |
| Email operations (`mailboxes/emails/emails.service.ts`) | Email rows, the queue | scan, scanAll, cancel, pause, resume, clear, delete, report, reclassify; queries | HTTP; writes rows and the queue in separate calls | what the answer promises happens |
| Mailboxes (`mailboxes/mailboxes.service.ts`) | MailBox, OauthToken, Imap/SmtpConfig | connect, refresh tokens, remove | cascades to emails; tokens used by sync, send and analysis | a token stored later is not older; removal leaves no work behind that fails |
| Email sending (`mailboxes/emails/email-send.*`) | send jobs, SENT records | validate, queue, send, store | SMTP or the provider's API | a mail is sent, at most as often as attempted; the SENT record exists once |
| Sessions and guard (`sessions`, `auth/guards`) | Session rows, Redis blacklist | create, list, revoke one, others, all; canActivate | every request | a revoked session is refused from then on |
| Authentication (`auth/auth.service.ts`) | User rows, codes with expiry, a cooldown in Redis | register, resend, verify, login, 2FA, forgot, reset, Google | mailer, sessions | the code or link that arrived last works; what a stale request may still do is bounded |
| User settings (`user-settings`) | User rows, avatars in the file storage | profile, password, 2FA setup, enable, disable; two preferences | authentication | 2FA is on only with a secret its owner has; the avatar is a file that exists |
| Intelligence cache (`security/intelligence`) | memory and Redis entries | lookups of links, addresses and domains, reports of the URL service, invalidate, statistics | reputation and URL stages, the test controller | an answer is not older than its time to live; invalidation is effective; a reported threat is remembered |
| Scoring and decision (`pipeline/8-scoring`, `9-decision`) | none | computeRisk, computeAction | called by the pipeline | more evidence is never answered milder; no threat passes |
| Detection rules, signal stages (`pipeline/1..7`) | none (lookups); one run's context | parse and score one message, the malware scan beside it | called by the pipeline | a run ends whatever fails; a rescan is not milder |
| Security test (`security/security-test.controller.ts`) | none | five scenarios, the pipeline without a row, cache invalidation | the pipeline, the cache | a scenario gets the answer its name promises |
| Post-delivery (`pipeline/monitoring`) | Email rows | user report, retraction, digest | nothing calls it | |
| Notifications (`notifications`) | Notification rows, sockets | create, list, mark read | called by all; failures swallowed | delivery is best effort |
| Retention (`retention`) | old rows | daily deletion | beside running analyses | only expired rows go |
| Administration, analytics (`admin`, `analytics`) | User rows; read-only queries | ban, unban, soft delete, statistics | sessions | a banned user is refused |
| Web layer, mail templates (`common`, `node-mailer`) | none | filters, encryption, formatting | | not behaviour of interest |

What is hard: rows and jobs are written by separate calls, with a crash or another
handler in between; jobs are retried, stalled and handed out again; job ids are
reused while finished jobs are kept; the malware scan outlives the pipeline and
writes last; copies of one message collide on a unique index; one owner's queue
control acts on every mailbox. `PROJECT.json` lists these hazards at their lines,
with the properties that watch each, or why none does.

## 2. The modules

### `JobQueue`

One BullMQ job as this program relies on it. The library is external; the module
states its documented behaviour: `add` with a known id is ignored, `remove` refuses
an active job, a rejected attempt is delayed until `attempts` run out, a stalled job
is handed out again `maxStalledCount` times, finished jobs are kept and evicted by
the options of the producer. `MaxAttempts` is the `attempts: 3` of the module files.

### `EmailAnalysis`

The core: the life of an Email row from the sync to its verdict, with everything
that reads or writes it.

| State | Code |
|---|---|
| `email` | the row: `st` (absent, present, deleted), `status` (`analysisStatus`), `report` (`aiReport` set), `folder`, `flags` (`isSpam`, `isPhishing`), `malicious` (`malwareVerdict`), `old` (`createdAt` more than four minutes ago) |
| `rows`, `trash`, `boxes` | Attachment rows, mailboxes with a TRASH folder, connected mailboxes |
| `job`, `paused` | the job `process-<id>`, the queue's pause flag |
| `sync`, `worker`, `req` | how far `upsertAndEnqueue`, the processor and each request are |
| `late`, `lateDup` | malware scans left running by `runPipeline`, and their duplicate removals |
| `requests`, `crashes` | counters that bound a behaviour |
| `holes`, `moved` | observers, never read by an action's guard: which cause left a PENDING record without a job; whether the owner moved the record since the last verdict |

One action is one stretch of code between two calls on which another actor can
interleave. The processor is `Take, Load | LoadMissing, Fetch, AnalyzeVerdict |
AnalyzeFails | AnalyzeFallback, Persist | PersistLost | PersistConflict, DupDelete,
Mark | MarkFails, Finish, Catch | CatchUnmarked`; the late scan is `Late...`; the
sync is `Sync...`; requests begin with `Begin...` and go on with `ScanWrite`,
`ScanAllWrite`, `ScanAdd`, `CleanPaused`, `CleanDelayed`, `MarkFailed` or end in an
error (`Abandon`). Requests whose only state change is one update (delete, report,
reclassify, pause, disconnect) are one action. `StoreSent` is the record the send
processor creates: PENDING like any other, and no job is added for it. `Crash` loses what is in memory.

Abstractions. A verdict is one of five outcomes of the scoring. All attachments of a
record are one, and one download stores all or none. A mailbox has one folder of
each type and folders other than TRASH always exist, since each is created when
first needed. Scores, wording and notifications are not state: nothing reads them
back, and a failing notification is swallowed. The read of a record and the write
that follows are one step for the moves, which write constants. A record id is
created at most once. The check of ownership before a request is not modelled
beyond the mailbox being connected. The provider's mailbox is part of `MailboxSync`.

### `EmailRecord`

The promise behind `EmailAnalysis`: each record as its owner sees it, without jobs,
workers, retries, scans in memory or duplicates. A record `Arrive`s once and is
`Remove`d for good; it is `Judge`d or `Condemn`ed, `Complete`d, and marked FAILED by
the backend (`Fail`) only while there is no judgement; other statuses are written by
requests in progress (`Ask, Settle, Answer`); only `Refile`, the owner's move, takes
a record with a malicious attachment out of MALWARE. `record` is `RecordOf`: the row
without flags, folder reduced to MALWARE or not, with the observer `moved`; `asked`
is `AskedOf`: the handlers whose request is about the record. `EmailAnalysis` states
the refinement as `RecordLife`.

### `MailDelivery`

The promise behind `EmailSend`: what becomes of a mail, without queue, attempts, crashes
or the sync's two steps. A mail is `Accept`ed while its mailbox is connected, handed over
(`HandOver`) at most `MaxCopies` times and only until it is sent or lost; copies that were
handed over are `Shelve`d in a connected mailbox; the mail is `Settle`d only with its last
copy there, unless a record of it was deleted (`Discard`) or the mailbox is gone, or given up
(`GiveUp`), delivered or not. `Disconnect` clears a mailbox's shelf. `state` is `MailState`,
read off the job; `copies` is `delivered`; `shelf` the copies that have a record, in whatever
folder; `discarded` is `deleted`; `MaxCopies` is `MaxAttempts + MaxStalled`. `EmailSend` states the refinement as `MailsDelivered`.

### `EmailSend`

The send pipeline, composed with what meets its records: the syncs of the sent folder,
everybody who creates a SENT folder, and the owner.

| State | Code |
|---|---|
| `request`, `files` | how far a send, reply or forward request is; its uploaded attachments |
| `job`, `worker` | the job in `email-send`; the processor's stretch: `read` attachments, mailbox and tokens, `send`, `find` and create the `folder`, `store`, `done` |
| `delivered`, `remote` | copies the provider accepted; those in the provider's sent folder |
| `folders`, `target` | how many SENT folders a mailbox has; the one the processor found |
| `making` | syncs and requests that found no SENT folder and are about to create one |
| `records`, `finding` | rows of sent mail with their key and folder; copies a sync found no row of and is about to create, and where |
| `boxes`, `provider` | connected mailboxes and their providers |
| `raced`, `deleted` | observers: where two were about to create the folder; copies of which a record was deleted |
| `events`, `crashes` | bounds |

`Upload`, `Enqueue` and `Refuse` are the request; `Take`, `Prepare`, `Deliver`,
`DeliverUnanswered`, `AttemptFails`, `FindFolder`, `CreateFolder`, `Store` and `Finish`
the processor, the three before the last being `saveSentEmail`; `SyncFind` and
`SyncCreate` the two calls of `upsertAndEnqueue`. Handing the mail over, finding the
folder, creating it and storing the record are actions of their own, as they are awaits:
everything that fails in between rejects the attempt. `MissFolder` and `MakeFolder` are
the find and the create of whoever else needs a SENT folder (a sync, a listing, a
reclassification); `Folder` has no unique index, so each create adds one. `Move` and
`Delete` are what the owner and the analysis do to a record: a row that was moved out of
SENT no longer keeps the index from accepting another.

Abstractions. The attachments of a request are one file set, stored or deleted as a
whole. Refreshing the token is part of `Prepare`. A sync that loaded the
folders creates SENT as one that has just looked. Gmail and Outlook keep a copy of
what they send; an SMTP server may. Outlook's `sendMail` answers without an id, so
its record gets a local key, all others the provider's. A provider that answers with
an empty id and a `Queue.add` that throws after adding are left out. What the sync
queues for a row it creates is `EmailAnalysis`.

### `Sessions`

Login sessions: rows in the database, the blacklist in Redis, tokens in the hands of
the clients, and the guard, which reads the blacklist and the account but never the row.

| State | Code |
|---|---|
| `session` | the UserSession rows: `none`, `present` or `gone`, with user, device (address and user agent) and `expiresAt` |
| `blocked` | when the entry `bl:session:<id>` expires; 0 if it was never written |
| `tokens`, `loggedOut` | tokens handed out (`sessionId`, `exp`); those whose logout was answered |
| `account` | `bannedAt`, `deletedAt` |
| `call` | how far each request is, what it has read (`seen`), spares (`keep`) and has left to blacklist (`todo`) |
| `causes` | observer, read by no guard: which race made row, token and blacklist of a session disagree |
| `clock`, `calls`, `crashes` | time in steps of a day; bounds |

A login is `BeginLogin, FindSession, Extend | CreateSession, Sign`; a revocation
`Begin..., ReadOne | ReadAll, BlockOne ..., BlocksWritten, DeleteOne | DeleteAll`; a
logout is a revocation that goes to `Fallback` when any of its calls throws. Each is
one await. `Fail` is a call that throws: a missing row, a refused time to live, or
the database or Redis. `Accepted` is the guard.

Abstractions. What a login checks before it signs (password, second factor, Google)
is `Accounts`, whose `Grant` stands for what begins here with `BeginLogin`; a banned user may begin one, as the guard is what refuses him.
Tokens without a session, which the second factor uses, are left out with their own
blacklist key. The guard's reads are one step, and so are ban's read and write. A
call that takes effect and still throws is left out. Expired rows stay, as nothing
deletes them. An id is given to one row only.

### `SessionLife`

The promise behind `Sessions`: what an owner may rely on, without rows, blacklist, calls
or crashes. A session is `Open`ed once, for one user; a login is `Grant`ed tokens of it,
which are in force only while it is open; a revocation takes them back (`Block`) and
ends the session for good (`Close`); tokens run out (`Lapse`). Nothing puts a token back
in force. Races are not hidden: a session that one of them hits is `spoiled` from then on,
none of its tokens counts as in force, and `Close` may miss a token only by spoiling its
session. `state` and `owner` are read off the row, `granted` is `tokens`, `inForce` the
tokens of unspoiled sessions that neither age nor blacklist refuses (a ban, which is
lifted again, apart), `spoiled` the sessions with a cause. `Sessions` states the
refinement as `SessionsLive`.

### `MailboxSync`

One mailbox at its provider, the rows the syncs make of it, and its owner, who marks,
moves and deletes them meanwhile. Where `EmailAnalysis` follows what becomes of a
row, this module follows which rows there are. Several syncs of a mailbox may run at
a time: the cron timer, a request and a new connection each add a job, with an id of
its own, and the queue has concurrency 5.

| State | Code |
|---|---|
| `provider`, `connected` | of the mailbox: which loop of the processor runs; whether the MailBox row exists |
| `place`, `seen` | the provider's side: the folder of each message (or not arrived, or gone) and its flags |
| `folders` | the number of Folder rows of each type; the rows are `<<type, n>>` |
| `rows` | Email rows: message, folder row, flags (`isRead`, `isFlagged`) |
| `job`, `sync` | the jobs, and per job where the loop is: `at` (the folder), `known` (the folders loaded with the mailbox), `folder` (the row found), `stage` and `copy` of each listed message |
| `request` | how far each request of the owner, or analysis, is with a folder or a provider call |
| `settled`, `contested` | observers, read by no guard: messages deleted on both sides that no sync holds; messages two syncs were about to create at the same time |
| `events`, `failures`, `crashes` | bounds |

A job is `Schedule, Take | TakeMissing`, then for each folder `FindFolder
(CreateFolder, List | SkipFolder)` and `NextFolder`, at last `Finish`; anything that
throws outside of one message is `AttemptFails`. A listed message is `Fetch, Find,
Update | Create`, or `SkipMessage` when one of its calls throws; the messages of a
folder interleave, as the batches run under `Promise.all`. The three providers differ
as in the code: Gmail looks for each folder in the database, Outlook and IMAP among
the rows they loaded with the mailbox; only Outlook skips a folder it cannot create;
IMAP reads the flags with the listing, the others with the message; Outlook gives a
moved message another id. The owner's requests are the local write and then the
provider's call (`BeginMarkRead, MarkRemotely | SearchRemotely`, `BeginDelete,
TrashRemotely`, and `RemoteFails`), a star is local only (`ToggleStar`), and a folder
that is missing is looked for and created in two steps (`MissFolder, MakeFolder`).

Abstractions. A folder's budget (70, 20 and 10 messages of Gmail, 100 of the others)
is one `Window`. `FILED` stands for PHISHING and MALWARE, which no sync lists and
moves treat alike. Finding a folder row and listing are one step, as a row that is
found stays until the mailbox goes. Creating a folder and moving the row there are
one step. A row that was deleted and stored anew between `Find` and `Update` is taken
for the one found, where the code's update by id would fail and the message be
skipped. A move at Outlook is a message that leaves and another that arrives. At IMAP
a deleted message is flagged and stays listed until the server expunges it, which
nothing here does. Losing a token is a failing call. An IMAP message that has not
got a Message-ID, whose key is made of folder and UID, is left out. What is queued
for a row that is created is `EmailAnalysis`.

### `RiskScore`, `Signals`, `Rules`, `Detection` and `Scenarios`

The security pipeline on one mail, from what the processor hands over to tier and
action. Four modules build on each other: `RiskScore` is the arithmetic of
`ScoringService` and `DecisionService`; `Signals` what the stages read off a mail and
what their failure leaves; `Rules` the registered rules with their scores, the graph
that amplifies them and the attack patterns that combine them; `Detection` the run.
`Scenarios` adds the five mails of the security test, each with what whois, the feeds, the
scanner and the sender's past may say of it.

| State | Code |
|---|---|
| `mail`, `filed`, `runs` | the mail, with what feeds, scanner and history would answer; whether its own row is flagged; analyses begun |
| `pc`, `waiting`, `failed` | `runPipeline`: the stages under `Promise.all` that have not answered, those that failed |
| `context` | `DetectionContext` |
| `window`, `scan` | whether the scan's five seconds run; `runMalwareScan`: its attachment, attempts of a file, merged report |
| `results` | `ctx.ruleResults`, original and amplified score of each rule that fired |
| `signals`, `risk`, `action` | what was scored, the assessment, the verdict |
| `history` | observer: mail, flag found and tier of the runs in which nothing failed |

`CheckReputation`, `AnalyzeBehavior`, `AnalyzeUrls` answer in any order and each may
fail (`FailStage`); beside them the scan goes through the attachments
(`ScanAnswers | ScanUnavailable | ScanFails`) until `CloseWindow`. Then come
`RunRules`, `Amplify` and `Judge`, and the owner may `Rescan` a stored mail, when
lookups, scanner and history may know more or less of it.

Text is abstract: a cue stands for one pattern list or word list of the code, and a
mail has the set of those that match. How a regular expression matches, the wording of
explanations and the weights' provenance are not modelled; every score, cap, gate,
threshold and rounding is. The two sums whose doubles fall just below a half are named
in `Blend` and `ShortHalves`. A scan that outlives the window is `EmailAnalysis`'
late scan, and the AI report is `EmailAnalysis`' mandatory report. A domain's score is
VirusTotal's balance of votes (`intelligence/feeds/domain-feeds.ts:17`), any integer.

### `Accounts`

One user's account: the handlers of `AuthService` and `UserSettingsService`.

| State | Code |
|---|---|
| `row` | the User row: `provider`, `verified`, `password`, `otp` and `link` (code or token with expiry), `secret`, `totp`, `avatar`; values are numbers, 0 is null |
| `cooldown`, `temp` | when `otp_cooldown:<email>` and the last token that awaits the second factor expire |
| `loggedIn`, `apps`, `mailed`, `latest` | the owner: a session, secrets in the authenticator, codes and links received |
| `files` | avatars in the file storage |
| `call` | how far each request is: its step, what it made, what it read, its mail |
| `uses`, `stale`, `resent`, `mixed`, `crossed`, `lost` | observers, read by no guard |
| `clock`, `serial`, `calls`, `failures` | time; a counter that names what is made; bounds |

A request begins with its lookup and the checks on what it read (`Register`,
`Resend`, `VerifyRegisterOtp`, `Login`, `Verify2FA`, `GoogleLogin`, `ForgetPassword`,
`ResetPassword`, `ChangePassword`, `Setup2FA`, `Enable2FA`, `Disable2FA`,
`EditProfile`), and each later await is an action: the row's update (`Create`,
`WriteOtp`, `Confirm`, `SetPassword`, ...), the mail (`Mail`), the cooldown (`Cool`),
the session (`Grant`), the file (`DeleteFile`, `SaveFile`). `Fail` is a call that
throws, `Crash` the end of the process, a failure of every request in progress; what was
written stays.

Abstractions. Requests come with the right password, and with codes, links and
authenticator codes of what the owner has received; refusals change nothing and are
left out. The two reads of a resend (cooldown, user) are one step, and so are a login
and the signing of its temporary token. The session a login gets, bans and deletions
are `Sessions`. Welcome mails and the notification of a changed password are not
state, the two preferences of the settings row are single writes nobody else reads.

### `Intelligence`

One key of the intelligence cache, a link, address or domain.

| State | Code |
|---|---|
| `shared` | whether `REDIS_CLIENT` is injected |
| `redis`, `memory` | the entry in Redis and in `memoryCache`: verdict, when stored, when it expires |
| `call`, `reports` | lookups and reports in progress; questions to the URL service without an answer |
| `deleting` | an invalidation whose `del` has not reached Redis |
| `listed` | whether the feeds list the key |
| `sameKey` | whether `invalidate` spells the key as the lookups do, chosen once |
| `listedSince`, `invalidated`, `kept`, `age` and `late` of an entry and a call | observers |

`LookUp` is the read of Redis, `ReadMemory` the fallback, `AskFeeds` the feeds,
`StoreShared` and `StoreMemory` the two writes of `cacheSet`. `Report` is the URL
service's answer, which `url-analysis.service.ts` asks for beside the lookup and
stores with `setUrlResult`. `Invalidate` is the operator's request, which puts out of date
what both caches hold (`age`) and what the requests in progress are still to store;
`Delete` is the `del` it sends to Redis, which is all it does, and nothing without Redis.
A failing get counts as a miss, a failing set or del is swallowed. `Publish` changes what the feeds say.

Abstractions. "clean" and "suspicious" live like "unknown" and are one with it. The
statistics only read. One invalidation is on its way at a time. A key that `invalidate`
writes differently (see 4) misses the entry: `sameKey` is FALSE.

### `EmailAnalysisMC`, `EmailSendMC`, `SessionsMC`, `MailboxSyncMC`, `DetectionMC`,
`AccountsMC`, `IntelligenceMC` and the `_proofs` modules

The instances for TLC, and the theorems.

## 3. The runs

TLC may find that nothing can happen any more (the mailbox is gone, the bounds are
used up and no mail arrives), so deadlock is not checked; progress is stated as
liveness instead.

| Run | Instance | Shows |
|---|---|---|
| `analysis_requests` | 1 record, 2 mailboxes, 2 concurrent requests of 5 kinds, 2 attempts, 1 stall, 1 crash | `NoSilentPending`: a PENDING record has a job, is owed a job or a status, or one of six named causes stranded it. `ReportSurvivesFailures`: COMPLETED with a report is lost only to a request |
| `analysis_moves` | 1 record with an attachment, 2 owner requests among rescan, delete, report, reclassify, disconnect, send, late scan, crash | folder, flags and malware verdict agree (`MalwareFolderUnflagged`, `MaliciousOnlyMovedByOwner`); attachments are stored at most `MaxAttempts + MaxStalled` times (`AttachmentCopiesBounded`); every step is one of `EmailRecord` (`RecordLife`), with moves, deletions and the late scan |
| `analysis_copies` | 2 records of one message, 2 workers, retries, late scan | `NoSilentPending` with the unique index and both removals of duplicates |
| `analysis_progress` | 1 record, 2 mailboxes, 2 requests, 1 crash, fairness | `PendingSettles`, `JobsEnd` |
| `email_sending` | 1 mail from a mailbox of each provider, 1 sync or request beside the processor that may create the folder, 1 sync that may store the copy, 1 move or deletion, 2 attempts, 1 stall, 1 crash, fairness | every step is one of `MailDelivery`: a mail is handed over at most once per attempt and stall and never once its job has ended (`MailsDelivered`); it is not sent again once its record is stored (`RecordedNotResent`); a completed job left its record, wherever it was moved, unless it was deleted (`CompletedIsRecorded`); sync and processor leave one SENT folder and one record of a copy in it, unless two were about to create the folder: then one record in each (`OneRecordPerCopy`); jobs end (`SendsEnd`) |
| `session_races` | 1 user and device, 2 sessions, 2 requests at a time of 4 in all, a lifetime of 2 days, 2 days, 1 crash | a token the guard accepts has its row, for as long as the token lasts (`AcceptedIsListed`); a row that logins reuse is not blacklisted (`ReusableIsUsable`); an answered logout is final (`LoggedOutIsRefused`); each but for named races. Every step is one of `SessionLife` (`SessionsLive`): a session is one user's and ends for good, its tokens are in force only while it is open, and none comes back into force, but for spoiled sessions |
| `sync_rows` | each provider, 2 overlapping syncs of 2 folders, 1 message, 1 event of its owner or the provider, 2 attempts, 1 stall | a message has one row (`OneRowPerMessage`), but for two syncs that looked before either stored it; a deleted one does not come back (`DeletedStaysDeleted`), but for IMAP and a sync that had listed it; the folders of a type are bounded by who can look for one at a time (`FoldersBounded`) |
| `sync_progress` | Gmail and IMAP, 1 job, 2 folders, 2 messages, both flags, a window of 1, 1 event, 1 failure, 1 crash, fairness | what stays in the window is stored (`ListedIsStored`); a row ends with the flags the message keeps at the provider (`FlagsConverge`); syncs end (`SyncsEnd`) |
| `detection` | 171 mails (quiet ones, social engineering, links, attachments, histories, texts at the edge of a tier, the security test's scenarios), 2 analyses of each, 2 retries of a scan, fairness | no threat is let through (`ThreatsAnswered`); a malicious file decides whatever else fails (`MaliciousFileDecides`); an innocuous mail passes (`InnocuousPasses`); a rescan is not milder (`RescanKeepsVerdict`), nor is a run that finds more (`EvidenceNeverSoftens`); the phishing, bec, malware and clean scenarios are judged as their names say (`ScenariosJudged`); a run ends (`AnalysisEnds`) |
| `accounts` | 4 requests of 13 kinds, 2 at a time, from no account, one not yet verified, a plain one or one with avatar and second factor; lives of 1, 1 tick, 1 failure or crash | the newest code or link works (`NewestMailWorks`); a link sets no more passwords than requests held it (`LinkUsesBounded`); stale logins are fewer than requests (`StaleLoginsBounded`); the second factor can be passed (`SecondFactorUsable`); resends are spaced but for requests side by side (`ResendsSpaced`); the avatar is stored (`AvatarStored`); each but for the named crossings |
| `intelligence` | 2 requests at a time, 2 lookups, with and without Redis; a malicious verdict lives 3 ticks, others and memory 1, 3 ticks, 1 failure or restart | once an invalidation is through, what it put out of date is gone from Redis and never comes back, and memory answers it only for its own life (`InvalidationHolds`); a reported threat is remembered (`ReportsRemembered`); a listing takes effect (`ListingTakesEffect`) |
| `duplicates` | 2 records of one message | `DuplicateLeavesACopy` is violated: see findings |

The bounds. Every hazard involves at most two actors on one record, or two records
of one message: hence one record with two requests, and two records with two
workers. A second, empty mailbox is enough for the control that acts on all
mailboxes. Two attempts give a first, a repeated and a last attempt; one stall and
one crash reach both outcomes of a stall. `MaxLate` bounds scans outstanding for a
record: they are indistinguishable, and one already races every other writer.
Causes of stranding in `holes`: `abandoned` (a handler died or failed between two
calls), `cleared` (another mailbox's clear), `ignored` (an add met a job that will
not run again), `stalled` (given up without the processor), `sent` (the
record of a sent mail, for which nobody queues an analysis), `unmarked` (the last
attempt left the status because of an older report or a failing database).

For sending, the mailbox is any of the three providers'. Mails meet in the one worker, the
folders and the bounds only, and the theorems are for any number, so the run has one mail,
sent up to three times. The processor and one other are the two that a race for the folder
takes; a sync that has found the copy missing may stay about to create it, so one such
finding serves two syncs, whose rows go to either folder. One move makes room for a second
row, or one deletion takes away the only one.
The crash that `RecordedNotResent` excludes is a real one: a job whose worker died
after its record was stored is handed out again and the mail is sent twice, at most
as often as `MailDelivery` allows.

For sessions, each hazard is one login or logout against one revocation on a
session: two requests at a time, four in all (a login and what races a second one),
and two sessions so that a revocation of all meets one it has not read. The causes:
`late` (the token is signed a day after the row's expiry was computed), `overwritten`
(two logins of one device write their expiries in the opposite order), `extended` (a
login extends a row whose expiry a revocation has read), `unlisted` (`deleteMany`
removes a row `findMany` did not list), `shortened` (an entry is replaced by one
that ends earlier), `abandoned` (a revocation ends between blacklist and row, or a
logout fell back). Without any one of them the properties that name it fail, within these
bounds; `SessionsLive` needs all six. `abandoned` matters to it as a session whose
revocation was given up keeps its row: a login extends it past the blacklist entry, and
when the entry ends, tokens that were refused are accepted again. Two days are a lifetime:
an entry written on the first day is over while a token of the second still runs. A second
user or device adds nothing: a row belongs to one of each, and that a revocation touches
no other user's session is the theorems'.

For the sync, rows and folders go wrong by two syncs, or a sync and a request, on one
message: hence two jobs, one handler and one message that can be in either of two
folders; `sync_rows` has no failures, as a failing call only leaves a step out that
another interleaving leaves for later. That a message is missed takes a window that
another message fills, a failure and a crash: hence two messages and a window of one
in `sync_progress`, with one job, since syncs do not stop each other. An event is
what anybody but a sync does to a stored message or a folder; the second of two
would start from a state that the first of another behaviour reaches.

For the detection, an analysis is a function of the mail and of what failed; the
mails are chosen so that rules, patterns, caps, gates and tier boundaries meet in them,
and two analyses are what a rescan needs. Three attempts and two files meet
the end of the retries and the merge of two reports.

For an account, every hazard is one request that writes on what it read before another
one wrote, hence two at a time; the four calls of a behaviour are an account's way to
the state that matters (four initial states shorten it) and the two that race. With
one tick a life is either running or over, and a wait of one tick is a cooldown, a
code's life or a temporary token's. Deeper sequences, and any lives, are the theorems'.

For the cache, a lookup races one other lookup, report or invalidation: two callers,
and two lookups, as the properties read what the next one would be told off the caches. The lives keep the order of the code's (an
hour or more, 15 minutes, 5 minutes), two of them equal at one tick, and the clock
reaches the end of the longest.

Handlers, jobs, callers and session ids are interchangeable: `analysis_requests`,
`session_races`, `sync_rows`, `accounts` and `intelligence` are checked up to their
permutation.

Fairness. Weak fairness of the worker, of handing out a job, of the backoff timer,
of the stalled check and of the next step of a handler: Node.js runs a callback
that is ready, and BullMQ runs its timers while the process is up. Nothing is
assumed of requests, new mail, evictions, the late scan, or crashes. For the sync it
is the cron timer, which adds a job while there is room, the processor, and a
request's next step; that a failing call succeeds later follows from their bound. For
an analysis it is the pipeline's own steps, the window's timer among them, and nothing
of the scanner: stages answer or fail, as each lookup has a timeout or a catch of its
own. The liveness
properties of the queue have the premise that the queue is not left paused, as `resume` is the
owner's choice. None assumes that any call succeeds.

The type invariants are theorems (5), and so is that a malicious record is unflagged
with copies beside it, or that requests keep `RecordLife`: the runs keep to what only
an interleaving can break and name each property where it is most at risk.

## 4. Findings

* `duplicates`: two copies, each moving to the folder of the other, are both
  removed. The comment says a copy is left.

Also met while modelling, each plain from the code and so without a run. Mailboxes:
a rescan's `add` is ignored while the record's last job is still kept, or is past its
status update, and the answer is `Scan enqueued` all the same (the cause `ignored`);
two Gmail syncs of one mailbox may each find no folder of a type and create it, which
the comment says is prevented and nothing in the schema refuses; the same way a first send
and a first sync may each create a SENT folder, and if both go on to store the sent mail it
has a row in each, as it has when its row was moved out of SENT before the other was stored
(`raced` and the two conditions on folders in `OneRecordPerCopy`);
`DELETE` removes the record at once where the mailbox has no TRASH folder and never
removes one that is already in TRASH, against the endpoint's description;
`clear` strands other mailboxes' records (the cause `cleared`), against "so they
don't get stuck"; a cancel cannot stop a job that is running; the late scan acts on
the verdict `malicious` only, while the pipeline also takes a score of 50; a mail
whose copy the sync stored first in the same folder is sent again, as the processor's own
create meets the unique index after the delivery and rejects the attempt; a mail sent through
Outlook has two rows in SENT, one under the local key and one of the sync; a device
whose revocation stopped between blacklist and row gets tokens the guard refuses
until the entry expires (the cause `abandoned`); a token signed through a row that
`deleteMany` removes without having listed it stays accepted and cannot be revoked
any more (`unlisted`). A star is never told to the provider, and neither is a mark
whose call fails: the next sync sets the row back. A message deleted from an IMAP
mailbox without a TRASH folder is stored again by the next sync, as the server still
lists it. Marking an IMAP message as read asks for the lock of the folder it holds,
and waits until the connection fails. A job whose mailbox went while it ran fails to
write even its log entry. Of more messages than a folder's budget that arrive between
two syncs, the older ones are never fetched.

Detection: a stored mail has lost its headers, so SPF, DKIM, DMARC and Reply-To never
count for synced mail (`email-process.processor.ts:148`, the action `Input`); a rule's
`amplifiedScore` is what the graph adds and replaces the original in the sum
(`rule-graph.service.ts:14`), and the test for a strong rule adds the two up
(`scoring.service.ts:253`); whois that does not answer makes a domain 0 days old
(`threat-feeds.service.ts:99`), which a rule then scores; one malformed link takes
the signals of all links away (`url-analysis.service.ts:179`), and heuristics alone can
make a link malicious (`:231`); the history of a sender stored as "Name <a@b>" is not
found (`behavior.service.ts:76`). The sender's history holds the analysed mail with the
flag of its last analysis (`:72`): an analysis that finds the flag may be harsher than
the one that set it, and one after the owner took it off milder again, so verdicts of
repeated scans are ordered by the flag they found and not by time. The security test's
program in an invoice is let through where the mailbox holds mails of its sender and none of
them is flagged: without a word of the scanner, or with a clean one, its signals score 21,
which is SAFE. `ScenariosJudged` therefore speaks of that scenario for a sender who is new or
flagged. Of the spam scenario it says nothing: whois, feeds and the sender's past decide
whether it is quarantined or let through.

Accounts: two registrations of one address pass the check and one of them fails at the
unique index; logins and resends replace each other's codes, forgotten passwords each
other's links, and a reset clears whichever link it finds, so the mail that arrives last need not be the one that works (`crossed`); a set-up that
crosses the verification of the second factor may switch it on with a secret the owner
was not shown (`mixed`), and an upload that fails after the old avatar was deleted
leaves the row with a file that is gone (`lost`). The cooldown of a resend is last, so requests side by side all send, and as many again after a crash that ended them.

Cache: the comment calls the question to the URL service "fire and forget, enriches
cache for next lookups", but the same analysis' own lookup runs beside it and may write
the feeds' "unknown" over the report (the exception in `ReportsRemembered`);
`invalidate` does nothing without Redis, is answered with success when Redis fails, and
lowercases the value where `lookupIp` takes it as given and `lookupDomain` also trims.

## 5. The proofs

`EmailAnalysis_proofs` proves, for all values of the constants that satisfy
`QueueAssumption` and `ModelAssumption`:

* `TypeCorrect`: `Spec => []TypeOK`. `TypeOK` alone is not inductive: a rejected
  attempt adds one to `attempts`. The invariant adds `WorkerHoldsJob` (a worker's
  job is active) and `AttemptsLeft` (a live job has an attempt left).
* `NothingStrandedSilently`: `Spec => []NoSilentPending`. Needs `PresentInBox`
  (the rows of a disconnected mailbox are gone, so a worker that finds no mailbox
  strands nothing) and `ScansQueueTargets` (a rescan writes PENDING to records it
  will queue). Lemmas `QueueAddSettles` and `CleanStrands` carry the two shared
  operators.
* `MalwareIsUnflagged` and `OnlyTheOwnerMovesMalware`: one invariant with
  `AbsentIsClean` (a record is created without a malware verdict).

* `FailuresKeepReports`: `Spec => ReportSurvivesFailures`, an action property. A
  step from a COMPLETED record with a report either leaves both (`SettledRow`), or is
  a request's, or removes the row.

Each is an invariant proof: `Init` gives it, every action keeps it (one step per
action), and the last step is temporal.

* `CopiesAreBounded`: `Spec => []AttachmentCopiesBounded`. The bound is not inductive, as
  an attempt adds a copy. `CopiesInv` bounds the copies of a record by how often its job
  was handed out and is past its download (`Handed`: attempts, stalls and the attempt in
  progress), and says that only a job a sync queued downloads (`SyncJob`) and that a
  record gets at most one, before which nothing is stored.

`EmailRecord_proofs` proves `AnalysisKeepsRecords`: `Spec => RecordLife`, the
refinement. `StepRefines` has one step per action and names the abstract step it is;
the facts it needs are `LifeInv`: the two invariants above, `AbsentIsUnknown` (a
record that is not stored has the abstract initial value), `IdleIsFree` (an idle
handler is about nothing) and `ScansAreJudged` (a scan that does not set its record
back to PENDING saw a report). `AbsentIsUnknown`, and that the report a scan saw is
still there, follow from the abstract steps themselves (`LifeKeeps`), so `LifeInv`
is carried along the simulation. `RecordsAreFinal` is what the refinement is good for:
judged stays judged, a record is stored once, and a deleted one is frozen, each read off
the abstract steps.

`EmailSend_proofs` proves, from `QueueAssumption` and `SendAssumption`, `SendTypes`,
`DeliveriesAreBounded`, `CompletedSendsAreRecorded`, `CopiesAreRecordedOnce` and
`RecordedMailsStaySent` from one invariant, `SendInv`. `DeliveriesBounded` is not
inductive: a delivery adds one, so `DeliveriesPaid` accounts for each copy by a
rejected attempt, a stall or the attempt in progress. `StoredBeforeDone` carries the
record, through moves and unless it is deleted, from `Store` to the completed job,
`CopiesAreDeliveries` says that the sync only finds accepted copies and that no two rows
of a copy under one key share a folder, and `RecordedIsOver` that, until the server dies,
an active job has its worker and a stored mail is past its last attempt. That one folder
is left unless two raced is `FoldersMade`: it counts, besides the folders of a mailbox,
its prospects (`making`, and the processor if it is about to create one), of which there
is one at most until a second call misses the folder; since the worker has one mail at a
time (`OneWorker`) the processor is never two of them. `FoldersKnown` says that rows,
findings and the worker's target name folders that are there. Two rows of a copy are then
in two folders, hence in a mailbox whose folder was raced for. The refinement,
`SendingImplementsDelivery`: `Spec => MailsDelivered`, follows from the same invariant:
`HandsOver` (a worker that is about to send holds a live job with an attempt to pay for
the copy), `Shelves` (a new record is of a copy that was handed over), and for `Finish`
that `StoredBeforeDone` has the record in place or discarded; a step that moves no job to another kind
of state and leaves copies, mailboxes and records alone is none of the contract's
(`Unnoticed`). From the contract's steps alone follows `EndedMailsStayEnded`: after
`sent` or `lost` a mail's state is final and no copy is handed over
(`DeliveryEnds`).

`Sessions_proofs` proves, from `SessionAssumption`, `SessionTypes`,
`AcceptedTokensAreListed`, `ReusableSessionsAreUsable` and `LogoutsAreFinal`, for any
number of users, devices, sessions, concurrent requests and crashes. None of the
three is inductive; the invariant `SessionInv` says what each request holds between
its calls (`CallInv`): a login signs for no longer than its row lasts, a revocation
has blacklisted each session it read up to the row's expiry or still has the entry
to write, a logout the same up to its token's expiry. `TokensCovered`,
`BlacklistCovers` and `LogoutsCovered` carry that to tokens, rows that are gone and
answered logouts. `Keeps` is what every step guarantees to the requests that do not
take part in it: expiries that sink or that somebody has read leave their cause. So
a step needs a proof for its own request only (`OthersKept`), and a step that only
moves a request on needs no more than that request's part (`QuietMove`).

The refinement, `SessionsImplementLife`: `Spec => SessionsLive`, needs one more invariant,
`BlocksReach`: a blacklist entry lasts as long as the row it is about, unless a cause says
otherwise. With `TokensCovered` it follows that whatever an entry refuses is over before the
entry is, which is why time alone brings no token back (`PassesLapse`). Every step of
`Sessions` has one of six shapes (`StepShapes`: it `Moves`, `Opens`, `Signs`, `Blocks`,
`Deletes` or `Passes`), and each shape is an action of the contract, `DeletesClose` being the
one that needs the invariant of the state after the step: a token in force whose row is
deleted has a session that the step spoils. From the contract's steps alone follow
`RefusedTokensStayRefused`, `SessionsEndForGood` and `TokensInForceAreOpen`.

`MailboxSync_proofs` proves, from `QueueAssumption` and `SyncAssumption`, `SyncTypes`,
`MessagesHaveOneRow`, `DeletedMessagesStayDeleted` and `FoldersAreBounded`, for any
number of messages, folders, jobs, requests, failures and crashes. `TypeInv` adds to
`TypeOK` that a sync that stores messages has a folder row (`SyncsSound`) and that a
request at the provider has a message. `RowsInv` is `CreationsInv` (whoever is about
to create an uncontested message is alone and no row of it is stored) and
`DeletionsInv` (a settled message is gone, has no row and is held by no sync). Most
steps are `Quiet`: they store no new message, advance none to `create` and bring none
back, and `QuietRows` covers them all; `Find`, `Create` and `TrashRemotely` have
lemmas of their own. `FoldersBounded` is not inductive; `FoldersInv` counts, besides the
folders of a type, its `Makers`: those that will create one more, by what they have
read so far. A step either keeps folders and makers (`FolderKept`) or turns one maker
into a folder (`FolderMade`), and nobody becomes a maker once there is a folder. That
an Outlook or IMAP sync goes on with the folders it loaded makes it a maker from its
`Take` on, for every type ahead of it. `RowsRespectTheSchema` shows that the foreign key and
the unique index of the rows hold although the model checks the first nowhere: `SchemaInv`
adds that what a sync has read of the folders is still true while the mailbox is there
(`Knows`), and that no row is left once it is not. Each step writes at most one row, to a
folder that exists and has no row of its message (`RowsFit`); a request that has just
created a folder moves its row there unchecked, and the invariant says that the new folder
is empty.

`Detection_proofs` proves, first, two facts about every combination of signals.
`ThreatsNeverAllowed`: a tier other than SAFE is never answered with `allow`, provided the
signals are `Coherent` (a bonus comes with a pattern, a spoofed domain with its rule's
score or a failed authentication). Above the threshold of SPAM the confidence that
`computeAction` asks for is there; `WeakSignalsStayLow` and `MiddleScoresAreTrusted` bound
the score of signals without tier 1. `EvidenceAlwaysCounts`: `Spec => EvidenceNeverSoftens`,
from monotonicity of each part of the score (`BlendMonotone`, `TiersGrow`,
`FinalScoreGrows`, `ConfidenceGrows`, `OverrideGrows`, `VerdictGrows`) and the invariant
that tier and action are the ones computed from the stored signals.

Then it proves the run's invariants for every set of mails that satisfies
`DetectionAssumption` (any number of links, files and earlier mails, any age and votes),
any number of analyses and retries: `DetectionTyped`, `ThreatsAreAnswered`,
`MaliciousFilesDecide`, `InnocuousMailsPass` and `RescansKeepVerdicts`, all from
`DetectionInv`:

* `Gathered`: a stage that has answered has left in the context what it finds of this
  mail, one that failed its default; `Scanned`: the merged report is `Best` of the files
  that answered (the highest score, of equal ones the first), and unless a scan failed
  these are all files up to the current one; `Phase`: the rules are run on a complete
  context and amplified once; `Decided`: what is scored, assessed and answered is computed
  from them; `Recorded`: each entry of the history is the tier of a whole analysis of its
  mail under the flag it found.
* `SignalsCohere`: what the rules, the graph and the correlation hand over is a signal set
  and `Coherent`. The graph may lower the score of a rule for a spoofed sender, but only
  after `email_auth_failure` fired, and then the authentication itself is worth 10
  (`AuthFailureIsPenalised`).
* `QuietFiresNothing` and `QuietPasses`: on the context of an innocuous mail
  (`InnocuousContext`) no rule fires, so tiers 1 and 2 are at most 17 and 20 and nothing
  corroborates.
* `ScenariosAreJudged`: the run fixes what is known of the security test's mails; the theorem
  lets whois, feeds, scanner and history say
  anything and every stage fail. `PatternsOfScenarios` and `AmplifiersOfScenarios` find the
  rules and patterns that fire on the text alone; `RuleScoreFloors`, `ScoreFloor`,
  `ScoreOfFired` and `BonusOfPattern` turn them into a score the mail has at least:
  90 with a confidence of 85 for the phishing mail (`PhishingDeleted`), 26 and 28 for the
  bec mail and the program in an invoice, where 25 is what is held (`HeldFrom25`, `BecHeld`,
  `InvoiceHeld`). For the last the sender's past counts: one that is new or flagged is an
  anomaly (`UnknownSender`, `FlaggedSender`). The clean mail is `Quiet`, as innocuous ones are,
  so nothing fires. `Answered` is the invariant behind it: of a mail without a row, behaviour
  and links are what their stage finds or its default, and no IP is known without a
  `Received` header.
* `FlagOnlyAdds`: the flag changes only score and anomaly of the behaviour stage, upwards;
  the rules read only how many mails there are (`RulesIgnoreTheScore`); `VerdictGrows` does
  the rest. `BestIsUnique` makes the scanner's part the same in both analyses.

The sums over rules, links, files and patterns are `SumFunction`, a recursion over the
subsets of its domain. `Sums` (a sum of naturals is a natural, no smaller than any term, and
0 over nothing) is proved without an induction rule: a smallest subset for which it fails
(`MinimalSubset`, from the well-founded order of the subsets of a finite set) cannot exist.

`Accounts_proofs` proves, from `AccountAssumption`, `TypeCorrect`, `FactorsUsable`,
`LinksRunOut`, `StaleLoginsRunOut`, `AvatarsStored`, `NewestMailsWork` and
`ResendsAreSpaced` for any number of requests. The invariant is `IInv`: what each
request may hold (`CallsOK`), that nothing is made twice (`Distinct`), and one
strengthening per theorem. A bound like `LinkUsesBounded` is not inductive, as a use
adds one; `UsesCounted` counts the uses together with the requests that still hold the
link, and `LinksSpent` says that a link that has been used is in no column and nobody is
about to write it, so its holders can only become fewer. `LoginsCounted` counts stale
logins with those still to be granted. `FactorSafe` says no set-up is in progress while
an uncrossed factor is on. `UploadsSafe` keeps a file that is being uploaded out of
anybody's hands. For `NewestMailsWork`, `MailsInv` says of either column what it holds:
a value the owner was mailed is the last he was mailed, or that one is in `crossed`
(`Delivered`); one he was not mailed is on its way or lost (`OnItsWay`); an empty column
was emptied by a use or a crossing (`Cleared`). It rests on who may make and mail what
(`Fresh`, `InFlight`). For `ResendsAreSpaced`, `ResendsInv` splits at the cooldown:
until one covers the rest of a window, whoever resent in it is about to set it or has
failed (`Sent`); from then on only those come to send that had passed the check before
(`Unsent`). The first attempt at this proof failed for a good reason: with the crash
counted as one failure the bound is false past the run's four calls, as a crash ends
every request between its mail and its cooldown, and they all may send again.

`Intelligence_proofs` proves, from `IntelligenceAssumption`, `TypeCorrect`,
`InvalidationTakesEffect`, `ReportsEnrich` and `ListingsReachLookups` for all lives with
memory's at most unknown's at most known's. `Outdating` says that Redis holds an invalidated
entry of the right key only while the deletion is on its way (no later step puts one back,
as requests store what they found themselves), and bounds one in memory by the moment of
the invalidation; `Remembered` says that while a report is
promised no request holds a word of the feeds that it could store over it; `Lives` that
an entry lives as long as its verdict deserves at most.

Only model-checked: liveness (`PendingSettles`, `JobsEnd`, `SendsEnd`, `SyncsEnd`,
`ListedIsStored`, `FlagsConverge`, `AnalysisEnds`), which is out of this prover's reach. That
`DuplicateLeavesACopy` fails is a counterexample.

## 6. What is left out

Not modelled, and why:

* Connecting a mailbox and refreshing its OAuth token: two workers may refresh at the
  same time and store the older token. Whether a superseded token still works is the
  provider's decision and nothing in the repository says so; in `EmailSend` and
  `MailboxSync` a mailbox's credentials may be refused at any call.
* Post-delivery monitoring: nothing in the repository calls it.
* Retention: one sequential daily loop that deletes attachments of more than 30 days,
  each with a catch of its own. For a rescan a deleted file is one that cannot be read
  (`ScanFails`).
* Notifications: rows and socket events that no other component reads, whose failures
  the callers swallow.
* Analytics, the administrators' statistics, listings: read only.
* Parsing, templates, HTTP wiring and how a text matches a rule's pattern: they hold no
  state and make no choice another actor can disturb.
