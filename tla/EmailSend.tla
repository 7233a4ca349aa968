----------------------------- MODULE EmailSend -----------------------------
(***************************************************************************)
(* Sending a mail: the request that uploads the attachments and queues the *)
(* job, the worker that hands the mail to the provider and then stores the *)
(* record in the SENT folder, the sync that finds the same mail in the     *)
(* provider's sent folder, and the owner who moves and deletes the records.*)
(*                                                                         *)
(* Handing over and storing are two calls: whatever fails after the first  *)
(* rejects the attempt, and the retry hands the mail over again.  The SENT *)
(* folder is looked for and created by whoever needs it first, processor,  *)
(* sync or request, and nothing keeps two of them from creating one each.  *)
(***************************************************************************)
EXTENDS FiniteSets, Integers, JobQueue

CONSTANTS
    Mails,        \* the send, reply and forward requests of a behaviour
    Mailboxes,
    MailboxOf,    \* the mailbox each mail is sent from
    OtherFolders, \* the folders of other types that records can be moved to
    MaxMakers,    \* syncs and requests that can be about to create a SENT folder
    MaxFound,     \* copies that syncs can be about to store
    MaxEvents,    \* bound on the moves and deletions of records
    MaxCrashes    \* bound on the crashes of a behaviour

Providers == {"gmail", "outlook", "smtp"}

ASSUME SendAssumption ==
    /\ MailboxOf \in [Mails -> Mailboxes]
    /\ OtherFolders \cap Nat = {}
    /\ {MaxMakers, MaxFound, MaxEvents, MaxCrashes} \subseteq Nat

VARIABLES
    request,    \* how far the request of each mail is
    files,      \* its uploaded attachments
    boxes,      \* the connected mailboxes
    provider,   \* of each mailbox: chosen once
    job,        \* its job in the queue `email-send`
    worker,     \* the processor's progress on that job
    delivered,  \* how many copies the provider accepted
    remote,     \* the copies in the provider's sent folder
    folders,    \* how many SENT folder rows each mailbox has
    making,     \* how many syncs and requests found none and are about to create one
    target,     \* the SENT folder the processor found for each mail
    records,    \* the Email rows of sent mail
    finding,    \* copies a sync found no record of, and the folder it is to store them in
    raced,      \* observer: mailboxes whose SENT folder two were about to create at once
    deleted,    \* observer: copies of which a record was deleted
    events, crashes

requestVars == <<request, files>>
boxVars     == <<boxes, provider>>
queueVars   == <<job, worker, target>>
mailVars    == <<delivered, remote>>
folderVars  == <<folders, making, raced>>
recordVars  == <<records, deleted, events>>
vars == <<requestVars, boxVars, queueVars, mailVars, folderVars, recordVars, finding, crashes>>

-----------------------------------------------------------------------------
Requests == {"none", "uploaded", "queued", "refused"}
WorkerPcs == {"idle", "read", "send", "find", "folder", "store", "done"}

\* The n-th copy of a mail that the provider accepted.
Copies == Mails \X (Nat \ {0})
LastCopy(m) == <<m, delivered[m]>>

\* The SENT folders of a mailbox are numbered: findFirst may answer any of them.
SentFolders(box) == 1..folders[box]
NoFolder == 0

\* A row: the copy it stands for, its messageId (the provider's or one made up here),
\* its folder and who stored it.
Records == [copy   : Copies,             key : {"remote", "local"},
            folder : Nat \cup OtherFolders, by  : {"send", "sync"}]

\* Outlook's sendMail answers without an id, so the record gets a local one.
SentRecord(m) ==
    [copy |-> LastCopy(m), by |-> "send", folder |-> target[m],
     key  |-> IF provider[MailboxOf[m]] = "outlook" THEN "local" ELSE "remote"]
SyncRecord(copy, n) == [copy |-> copy, by |-> "sync", folder |-> n, key |-> "remote"]

\* @@unique([mailBoxId, folderId, messageId]).
Taken(record) ==
    \E r \in records : r.copy = record.copy /\ r.key = record.key /\ r.folder = record.folder

Connected(m) == MailboxOf[m] \in boxes

\* Somebody found no SENT folder and is about to create one.
BeingMade(box) ==
    making[box] > 0 \/ \E m \in Mails : MailboxOf[m] = box /\ worker[m] = "folder"

\* One more call finds no SENT folder in the mailbox.
Misses(box) ==
    /\ folders[box] = 0
    /\ raced' = IF BeingMade(box) THEN raced \cup {box} ELSE raced

\* Folder has no unique index, so the row is created whatever is there by now.
NewFolder(box) == folders' = [folders EXCEPT ![box] = @ + 1]

Init ==
    /\ request = [m \in Mails |-> "none"]
    /\ files = [m \in Mails |-> "none"]
    /\ boxes = Mailboxes /\ provider \in [Mailboxes -> Providers]
    /\ job = [m \in Mails |-> NoJob]
    /\ worker = [m \in Mails |-> "idle"]
    /\ delivered = [m \in Mails |-> 0]
    /\ folders = [box \in Mailboxes |-> 0] /\ making = [box \in Mailboxes |-> 0]
    /\ target = [m \in Mails |-> NoFolder]
    /\ remote = {} /\ records = {} /\ finding = {}
    /\ raced = {} /\ deleted = {}
    /\ events = 0 /\ crashes = 0

-----------------------------------------------------------------------------
(* EmailsController.send, reply and forward.                               *)

\* prepareAttachments; when it fails nothing else happens.
Upload(m) ==
    /\ request[m] = "none"
    /\ request' = [request EXCEPT ![m] = "uploaded"]
    /\ files' = [files EXCEPT ![m] = "stored"]
    /\ UNCHANGED <<boxVars, queueVars, mailVars, folderVars, recordVars, finding, crashes>>

\* queueSend, queueReply, queueForward.
Enqueue(m) ==
    /\ request[m] = "uploaded" /\ Connected(m)
    /\ request' = [request EXCEPT ![m] = "queued"]
    /\ job' = [job EXCEPT ![m] = AddJob(@, "send")]
    /\ UNCHANGED <<files, boxVars, worker, target, mailVars, folderVars, recordVars,
                   finding, crashes>>

\* The mailbox or the email to answer is gone, or the queue refuses: the
\* uploads are deleted, as far as the storage lets them be.
Refuse(m) ==
    /\ request[m] = "uploaded"
    /\ request' = [request EXCEPT ![m] = "refused"]
    /\ files' \in {files, [files EXCEPT ![m] = "deleted"]}
    /\ UNCHANGED <<boxVars, queueVars, mailVars, folderVars, recordVars, finding, crashes>>

-----------------------------------------------------------------------------
(* EmailSendProcessor.process.                                             *)

\* The processor has the default concurrency of one.
Take(m) ==
    /\ job[m].st = "waiting"
    /\ \A n \in Mails : worker[n] = "idle"
    /\ job' = [job EXCEPT ![m].st = "active"]
    /\ worker' = [worker EXCEPT ![m] = "read"]
    /\ UNCHANGED <<requestVars, boxVars, target, mailVars, folderVars, recordVars,
                   finding, crashes>>

\* The attachments are read back, the mailbox and its credentials looked up.
Prepare(m) ==
    /\ worker[m] = "read" /\ Connected(m) /\ files[m] = "stored"
    /\ worker' = [worker EXCEPT ![m] = "send"]
    /\ UNCHANGED <<requestVars, boxVars, job, target, mailVars, folderVars, recordVars,
                   finding, crashes>>

\* The provider accepts the mail.  Gmail and Outlook keep a copy in the sent
\* folder, an SMTP server may.
Accepted(m) ==
    /\ delivered' = [delivered EXCEPT ![m] = @ + 1]
    /\ LET kept == remote \cup {<<m, delivered[m] + 1>>} IN
       IF provider[MailboxOf[m]] = "smtp" THEN remote' \in {remote, kept} ELSE remote' = kept

Deliver(m) ==
    /\ worker[m] = "send"
    /\ Accepted(m)
    /\ worker' = [worker EXCEPT ![m] = "find"]
    /\ UNCHANGED <<requestVars, boxVars, job, target, folderVars, recordVars, finding,
                   crashes>>

\* Anything that throws rejects the attempt.
Reject(m) ==
    /\ job' = [job EXCEPT ![m] = FailJob(@)]
    /\ worker' = [worker EXCEPT ![m] = "idle"]
    /\ target' = [target EXCEPT ![m] = NoFolder]

\* Something fails before the provider has the mail, or the record cannot be
\* stored: the mailbox is gone, the index refuses the row, the database fails.
AttemptFails(m) ==
    /\ worker[m] \in {"read", "send", "find", "folder", "store"}
    /\ Reject(m)
    /\ UNCHANGED <<requestVars, boxVars, mailVars, folderVars, recordVars, finding,
                   crashes>>

\* The provider took the mail and its answer was lost.
DeliverUnanswered(m) ==
    /\ worker[m] = "send"
    /\ Accepted(m)
    /\ Reject(m)
    /\ UNCHANGED <<requestVars, boxVars, folderVars, recordVars, finding, crashes>>

\* Mutant: the folder is created without looking for it.
FindNoFolder(m) ==
    /\ worker[m] = "find"
    /\ worker' = [worker EXCEPT ![m] = "folder"]
    /\ UNCHANGED <<requestVars, boxVars, job, target, mailVars, folderVars, recordVars,
                   finding, crashes>>

\* saveSentEmail: the SENT folder is looked for ...
FindFolder(m) ==
    /\ worker[m] = "find"
    /\ \/ /\ Misses(MailboxOf[m])
          /\ worker' = [worker EXCEPT ![m] = "folder"]
          /\ UNCHANGED target
       \/ /\ \E n \in SentFolders(MailboxOf[m]) : target' = [target EXCEPT ![m] = n]
          /\ worker' = [worker EXCEPT ![m] = "store"]
          /\ UNCHANGED raced
    /\ UNCHANGED <<requestVars, boxVars, job, mailVars, folders, making, recordVars,
                   finding, crashes>>

\* ... and created when it was not found.
CreateFolder(m) ==
    /\ worker[m] = "folder" /\ Connected(m)
    /\ NewFolder(MailboxOf[m])
    /\ target' = [target EXCEPT ![m] = folders[MailboxOf[m]] + 1]
    /\ worker' = [worker EXCEPT ![m] = "store"]
    /\ UNCHANGED <<requestVars, boxVars, job, mailVars, making, raced, recordVars,
                   finding, crashes>>

Storable(m) == worker[m] = "store" /\ Connected(m) /\ ~Taken(SentRecord(m))

\* Mutant: a record that cannot be stored is only logged.
StoreOrLog(m) ==
    /\ worker[m] = "store"
    /\ records' = IF Storable(m) THEN records \cup {SentRecord(m)} ELSE records
    /\ worker' = [worker EXCEPT ![m] = "done"]
    /\ target' = [target EXCEPT ![m] = NoFolder]
    /\ UNCHANGED <<requestVars, boxVars, job, mailVars, folderVars, deleted, events,
                   finding, crashes>>

\* Mutant: the attempt is rejected by a call after the record is stored.
StoreThenFail(m) ==
    /\ Storable(m)
    /\ records' = records \cup {SentRecord(m)}
    /\ Reject(m)
    /\ UNCHANGED <<requestVars, boxVars, mailVars, folderVars, deleted, events, finding,
                   crashes>>

\* One row, with the attachments, in that folder.
Store(m) ==
    /\ Storable(m)
    /\ records' = records \cup {SentRecord(m)}
    /\ worker' = [worker EXCEPT ![m] = "done"]
    /\ target' = [target EXCEPT ![m] = NoFolder]
    /\ UNCHANGED <<requestVars, boxVars, job, mailVars, folderVars, deleted, events,
                   finding, crashes>>

Finish(m) ==
    /\ worker[m] = "done"
    /\ job' = [job EXCEPT ![m] = CompleteJob(@)]
    /\ worker' = [worker EXCEPT ![m] = "idle"]
    /\ UNCHANGED <<requestVars, boxVars, target, mailVars, folderVars, recordVars,
                   finding, crashes>>

-----------------------------------------------------------------------------
(* EmailSyncProcessor.upsertAndEnqueue over the sent folder.               *)

\* The message is looked for in the whole mailbox.
SyncFind(copy, n) ==
    /\ copy \in remote /\ n \in SentFolders(MailboxOf[copy[1]])
    /\ \A r \in records : ~(r.copy = copy /\ r.key = "remote")
    /\ Cardinality(finding) < MaxFound
    /\ finding' = finding \cup {<<copy, n>>}
    /\ UNCHANGED <<requestVars, boxVars, queueVars, mailVars, folderVars, recordVars,
                   crashes>>

\* Mutant: the index does not stop a second row.
SyncCreateAnyway(copy, n) ==
    /\ <<copy, n>> \in finding
    /\ records' = records \cup {SyncRecord(copy, n)}
    /\ finding' = finding \ {<<copy, n>>}
    /\ UNCHANGED <<requestVars, boxVars, queueVars, mailVars, folderVars, deleted, events,
                   crashes>>

\* The row, unless the index refuses it, the mailbox is gone or the call fails.  Another
\* sync may have got as far with the same copy.
SyncCreate(copy, n) ==
    /\ <<copy, n>> \in finding
    /\ \/ UNCHANGED records
       \/ /\ ~Taken(SyncRecord(copy, n))
          /\ records' = records \cup {SyncRecord(copy, n)}
    /\ finding' \in {finding, finding \ {<<copy, n>>}}
    /\ UNCHANGED <<requestVars, boxVars, queueVars, mailVars, folderVars, deleted, events,
                   crashes>>

-----------------------------------------------------------------------------
(* Who else creates SENT folders, and what becomes of a record.            *)

\* A sync has loaded or looked for the folders, or a request that lists or reclassifies
\* mails looks for SENT.
MissFolder(box) ==
    /\ box \in boxes /\ making[box] < MaxMakers
    /\ Misses(box)
    /\ making' = [making EXCEPT ![box] = @ + 1]
    /\ UNCHANGED <<requestVars, boxVars, queueVars, mailVars, folders, recordVars,
                   finding, crashes>>

\* It creates it, unless the mailbox is gone or the call fails.
MakeFolder(box) ==
    /\ making[box] > 0
    /\ making' = [making EXCEPT ![box] = @ - 1]
    /\ UNCHANGED folders \/ NewFolder(box)
    /\ UNCHANGED <<requestVars, boxVars, queueVars, mailVars, raced, recordVars, finding,
                   crashes>>

Event == events < MaxEvents /\ events' = events + 1

\* delete with a TRASH folder, reclassify, or the analysis of the row.
Move(r, n) ==
    /\ Event
    /\ n # r.folder /\ ~Taken([r EXCEPT !.folder = n])
    /\ records' = (records \ {r}) \cup {[r EXCEPT !.folder = n]}
    /\ UNCHANGED <<requestVars, boxVars, queueVars, mailVars, folderVars, deleted,
                   finding, crashes>>

\* delete without a TRASH folder, or an analysis that meets a copy where it moves the row.
Delete(r) ==
    /\ Event
    /\ records' = records \ {r}
    /\ deleted' = deleted \cup {r.copy}
    /\ UNCHANGED <<requestVars, boxVars, queueVars, mailVars, folderVars, finding,
                   crashes>>

-----------------------------------------------------------------------------
(* The rest of the program.                                                *)

\* MailboxesService.remove: folders and rows go with the mailbox and what the syncs were
\* about to create fails; the jobs stay.
RemoveMailbox(box) ==
    /\ box \in boxes
    /\ boxes' = boxes \ {box}
    /\ folders' = [folders EXCEPT ![box] = 0] /\ making' = [making EXCEPT ![box] = 0]
    /\ records' = {r \in records : MailboxOf[r.copy[1]] # box}
    /\ finding' = {found \in finding : MailboxOf[found[1][1]] # box}
    /\ UNCHANGED <<requestVars, provider, queueVars, mailVars, raced, deleted, events,
                   crashes>>

Promote(m) ==
    /\ job[m].st = "delayed"
    /\ job' = [job EXCEPT ![m].st = "waiting"]
    /\ UNCHANGED <<requestVars, boxVars, worker, target, mailVars, folderVars, recordVars,
                   finding, crashes>>

Stall(m) ==
    /\ job[m].st = "active" /\ worker[m] = "idle"
    /\ job' = [job EXCEPT ![m] = StallJob(@)]
    /\ UNCHANGED <<requestVars, boxVars, worker, target, mailVars, folderVars, recordVars,
                   finding, crashes>>

\* The server dies; a request that had not queued its job never will.
Crash ==
    /\ crashes < MaxCrashes
    /\ crashes' = crashes + 1
    /\ worker' = [m \in Mails |-> "idle"]
    /\ request' = [m \in Mails |-> IF request[m] = "uploaded" THEN "refused" ELSE request[m]]
    /\ finding' = {} /\ making' = [box \in Mailboxes |-> 0]
    /\ target' = [m \in Mails |-> NoFolder]
    /\ UNCHANGED <<files, boxVars, job, mailVars, folders, raced, recordVars>>

Process(m) ==
    \/ Prepare(m) \/ Deliver(m) \/ DeliverUnanswered(m) \/ AttemptFails(m)
    \/ FindFolder(m) \/ CreateFolder(m) \/ Store(m) \/ Finish(m)

Next ==
    \/ \E m \in Mails :
         \/ Upload(m) \/ Enqueue(m) \/ Refuse(m)
         \/ Take(m) \/ Process(m) \/ Promote(m) \/ Stall(m)
    \/ \E copy \in remote : \E n \in SentFolders(MailboxOf[copy[1]]) : SyncFind(copy, n)
    \/ \E found \in finding : SyncCreate(found[1], found[2])
    \/ \E box \in Mailboxes : MissFolder(box) \/ MakeFolder(box) \/ RemoveMailbox(box)
    \/ \E r \in records :
         Delete(r) \/ \E n \in SentFolders(MailboxOf[r.copy[1]]) \cup OtherFolders : Move(r, n)
    \/ Crash

\* The worker and the queue's timers make progress: in every state of its job one of these
\* is all that can happen to a mail.  Nothing is assumed of the provider, of requests, syncs
\* or crashes.
Fairness == \A m \in Mails : WF_vars(Take(m) \/ Process(m) \/ Promote(m) \/ Stall(m))

Spec == Init /\ [][Next]_vars /\ Fairness

-----------------------------------------------------------------------------
(* What became of a mail, whoever works on it.                             *)

MailState(m) ==
    CASE job[m].st = "none"      -> "new"
      [] job[m].st = "completed" -> "sent"
      [] job[m].st = "failed"    -> "lost"
      [] OTHER                   -> "accepted"

Delivery == INSTANCE MailDelivery WITH
    state     <- [m \in Mails |-> MailState(m)],
    copies    <- delivered,
    shelf     <- {r.copy : r \in records},
    discarded <- deleted,
    MaxCopies <- MaxAttempts + MaxStalled

\* Requests, retries, lost answers, stalls, crashes and syncs together implement
\* the contract: a job that has ended hands nothing over, no job hands a mail over
\* more often than the queue hands the job out, and no mail passes for sent without
\* the record of the copy that left last.
MailsDelivered == Delivery!Spec

\* Every variable has its type.
TypeOK ==
    /\ request \in [Mails -> Requests]
    /\ files \in [Mails -> {"none", "stored", "deleted"}]
    /\ boxes \subseteq Mailboxes /\ provider \in [Mailboxes -> Providers]
    /\ job \in [Mails -> Jobs]
    /\ worker \in [Mails -> WorkerPcs]
    /\ delivered \in [Mails -> Nat]
    /\ remote \subseteq Copies /\ finding \subseteq remote \X Nat
    /\ folders \in [Mailboxes -> Nat] /\ making \in [Mailboxes -> Nat]
    /\ target \in [Mails -> Nat]
    /\ records \subseteq Records
    /\ raced \subseteq Mailboxes /\ deleted \subseteq Copies
    /\ events \in Nat /\ crashes \in Nat

\* Rejected attempts, lost answers and stalls hand a mail over again, but never
\* more often than the queue hands out its job.
DeliveriesBounded == \A m \in Mails : delivered[m] <= MaxAttempts + MaxStalled

\* A job that completed left, while its mailbox is there, the record of the copy it
\* delivered last, wherever it was moved since, unless somebody deleted it: no accepted
\* mail disappears behind a completed job.
CompletedIsRecorded ==
    \A m \in Mails : job[m].st = "completed" /\ Connected(m)
        => /\ delivered[m] > 0
           /\ \/ LastCopy(m) \in deleted
              \/ \E r \in records : r.copy = LastCopy(m) /\ r.by = "send"

\* The processor and the syncs that race for the same copy leave one row of it in SENT,
\* unless two of them, or of the owner's requests, looked for the folder before either had
\* created it: then there may be as many folders as were looking, and a row in each.
\* Another row of the copy is one that was moved out of SENT before.  Rows are of accepted
\* copies only.  The record of a mail sent through Outlook has a key of its own.
OneRecordPerCopy ==
    /\ \A box \in boxes : folders[box] <= IF box \in raced THEN MaxMakers + 1 ELSE 1
    /\ \A r \in records : r.copy[2] <= delivered[r.copy[1]]
    /\ \A r, s \in records :
         /\ r.copy = s.copy /\ r.key = s.key /\ r # s
         /\ {r.folder, s.folder} \cap OtherFolders = {}
         => r.folder # s.folder /\ MailboxOf[r.copy[1]] \in raced

\* While the server stays up, a mail whose record was stored is not sent again.
RecordedNotResent ==
    [][\A m \in Mails :
         /\ crashes = 0
         /\ \E r \in records : r.copy[1] = m /\ r.by = "send"
         => delivered'[m] = delivered[m]]_vars

\* Every job the queue accepted comes to an end, one way or the other.
SendsEnd == \A m \in Mails : Live(job[m]) ~> ~Live(job[m])
=============================================================================
