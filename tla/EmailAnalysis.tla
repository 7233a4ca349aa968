--------------------------- MODULE EmailAnalysis ---------------------------
(***************************************************************************)
(* The life of an email record's security analysis: the sync that stores   *)
(* the record and queues its job, the worker that runs the pipeline, the   *)
(* malware scan that may finish after the pipeline, and the requests of    *)
(* the mailbox's owner (rescan, cancel, clear, pause, move, delete).       *)
(*                                                                         *)
(* Every database or queue call on which another actor can interleave is a *)
(* step of its own.  The process is a single Node.js server: a crash loses *)
(* every handler in progress and keeps the database and the queue.         *)
(***************************************************************************)
EXTENDS FiniteSets, Integers, JobQueue

CONSTANTS
    Emails,        \* ids of the records the syncs may create, each used once
    Mailboxes,
    Handlers,      \* API requests that can be in progress at the same time
    MailboxOf,     \* the mailbox each record would belong to
    MessageOf,     \* the provider's message a record is a copy of
    RemoteParts,   \* records whose attachment is fetched by the worker
    LocalParts,    \* records whose attachment the sync already holds (IMAP)
    SyncFolders,   \* the folders a sync reads
    Concurrency,   \* `concurrency` of the processor
    Requests,      \* the kinds of request a run explores
    MaxRequests,   \* bound on the requests of a behaviour
    MaxCrashes,    \* bound on the crashes of a behaviour
    MaxLate        \* bound on the malware scans outstanding for one record

FolderTypes == {"INBOX", "SENT", "SPAM", "PHISHING", "MALWARE", "TRASH"}

RequestKinds == {"scan", "scanAll", "cancel", "clear", "pause",
                 "delete", "report", "reclassify", "remove", "send"}

ASSUME ModelAssumption ==
    /\ MailboxOf \in [Emails -> Mailboxes]
    /\ DOMAIN MessageOf = Emails
    /\ RemoteParts \subseteq Emails
    /\ LocalParts \subseteq Emails \ RemoteParts
    /\ SyncFolders \subseteq {"INBOX", "SENT", "SPAM"}
    /\ Concurrency \in Nat \ {0}
    /\ Requests \subseteq RequestKinds
    /\ MaxRequests \in Nat /\ MaxCrashes \in Nat /\ MaxLate \in Nat

VARIABLES
    email,     \* the Email rows
    rows,      \* how many Attachment rows each email has
    trash,     \* the mailboxes that have a TRASH folder
    boxes,     \* the connected mailboxes
    job,       \* the email-process queue, one jobId `process-<id>` per record
    paused,    \* the queue's pause flag
    sync,      \* progress of the upsertAndEnqueue call for each record
    worker,    \* progress of the processor on each record's job
    late,      \* malware scans that outlived the pipeline, per record
    lateDup,   \* records such a scan is about to remove as duplicates
    req,       \* progress of each API request
    requests,  \* requests so far
    crashes,   \* crashes so far
    holes,     \* observer: how a PENDING record came to have no job
    moved      \* observer: the owner moved the record since its last verdict

emailVars   == <<email, rows, trash, boxes>>
queueVars   == <<job, paused>>
lateVars    == <<late, lateDup>>
requestVars == <<req, requests>>
observers   == <<holes, moved>>
vars == <<emailVars, queueVars, sync, worker, lateVars, requestVars, crashes, observers>>

-----------------------------------------------------------------------------
Statuses == {"PENDING", "COMPLETED", "FAILED"}

EmailRows == [st        : {"absent", "present", "deleted"},
              status    : Statuses,
              report    : BOOLEAN,                     \* aiReport is set
              folder    : FolderTypes,
              flags     : SUBSET {"spam", "phishing"}, \* isSpam, isPhishing
              malicious : BOOLEAN,                     \* malwareVerdict
              old       : BOOLEAN]                     \* createdAt > 4 minutes ago

\* What the pipeline found.  "malware" is an attachment with the verdict
\* `malicious`; "url" is the other threat the scoring calls malware, a malicious
\* link or a score of 50 without that verdict.
Verdicts == {"safe", "spam", "phishing", "malware", "url"}

WorkerPcs == {"idle", "load", "fetch", "analyze", "persist", "dupDelete",
              "mark", "finish", "catch"}

WorkerStates == [pc : WorkerPcs, verdict : Verdicts, slow : BOOLEAN]

IdleWorker == [pc |-> "idle", verdict |-> "safe", slow |-> FALSE]
WorkerAt(pc) == [IdleWorker EXCEPT !.pc = pc]

RequestPcs == {"idle", "scanWrite", "scanAllWrite", "add", "cancelMark",
               "cleanPaused", "cleanDelayed", "clearMark"}

RequestStates == [pc : RequestPcs, targets : SUBSET Emails, noReport : SUBSET Emails]

IdleRequest == [pc |-> "idle", targets |-> {}, noReport |-> {}]

\* "abandoned": a handler died or failed before the call that would have
\* queued or settled the record; "cleared": another mailbox's clear removed
\* the job; "ignored": a rescan's add met a job that will not run again;
\* "stalled": the job was given up without its processor; "unmarked": the
\* last attempt failed and left the status alone; "sent": the record was stored
\* by the send processor, which queues no analysis.
Holes == {"abandoned", "cleared", "ignored", "stalled", "unmarked", "sent"}

Present(e) == email[e].st = "present"
Pending(e) == Present(e) /\ email[e].status = "PENDING"

\* The other records of the same provider message.
Copies(e) == {d \in Emails \ {e} : /\ MailboxOf[d] = MailboxOf[e]
                                   /\ MessageOf[d] = MessageOf[e]}

\* The unique index on (mailbox, folder, message) refuses e in this folder.
Occupied(e, folder) == \E d \in Copies(e) : Present(d) /\ email[d].folder = folder

\* The record is about to be given a job, or a status other than PENDING.
SyncOwes(e) == sync[e] \in {"store", "enqueue"}
RequestOwes(h, e) ==
    /\ e \in req[h].targets
    /\ req[h].pc \in {"add", "cancelMark", "cleanPaused", "cleanDelayed", "clearMark"}
Owed(e) == SyncOwes(e) \/ \E h \in Handlers : RequestOwes(h, e)

\* The worker will not write the record's status again in this attempt.
PastMark(e) == worker[e].pc = "finish"

\* PENDING, and the queue will not change that.
Stranded(e) == Pending(e) /\ (~Live(job[e]) \/ PastMark(e))

\* Statuses and observers written by several handlers.
WithStatus(S, status) ==
    [e \in Emails |-> IF e \in S THEN [email[e] EXCEPT !.status = status] ELSE email[e]]
Gone(S) == [e \in Emails |-> IF e \in S THEN [email[e] EXCEPT !.st = "deleted"] ELSE email[e]]
NoHole(S) == [e \in Emails |-> IF e \in S THEN {} ELSE holes[e]]
Hole(S, cause) == [e \in Emails |-> IF e \in S THEN holes[e] \cup {cause} ELSE holes[e]]

-----------------------------------------------------------------------------
Init ==
    /\ email = [e \in Emails |->
                  [st |-> "absent", status |-> "PENDING", report |-> FALSE,
                   folder |-> "INBOX", flags |-> {}, malicious |-> FALSE, old |-> FALSE]]
    /\ rows = [e \in Emails |-> 0]
    /\ trash = {}
    /\ boxes = Mailboxes
    /\ job = [e \in Emails |-> NoJob]
    /\ paused = FALSE
    /\ sync = [e \in Emails |-> "idle"]
    /\ worker = [e \in Emails |-> IdleWorker]
    /\ late = [e \in Emails |-> 0]
    /\ lateDup = {}
    /\ req = [h \in Handlers |-> IdleRequest]
    /\ requests = 0
    /\ crashes = 0
    /\ holes = [e \in Emails |-> {}]
    /\ moved = [e \in Emails |-> FALSE]

-----------------------------------------------------------------------------
\* Queue.add with jobId `process-<id>`.  A job that is known already is left as
\* it is; when it will not write the status again, the add was for nothing.
QueueAdd(S, origin) ==
    LET added   == {e \in S : job[e].st = "none"}
        ignored == {e \in S \ added : Stranded(e)} IN
    /\ job' = [e \in Emails |-> IF e \in added THEN AddJob(job[e], origin) ELSE job[e]]
    /\ holes' = [e \in Emails |-> IF e \in added THEN {}
                                  ELSE IF e \in ignored THEN holes[e] \cup {"ignored"}
                                  ELSE holes[e]]

-----------------------------------------------------------------------------
(* EmailSyncProcessor.upsertAndEnqueue, for the record e it may create.    *)

\* No record of the message was found; one that is found is only refreshed.
SyncFind(e) ==
    /\ sync[e] = "idle" /\ email[e].st = "absent"
    /\ MailboxOf[e] \in boxes
    /\ \A d \in Copies(e) : ~Present(d)
    /\ sync' = [sync EXCEPT ![e] = "create"]
    /\ UNCHANGED <<emailVars, queueVars, worker, lateVars, requestVars, crashes, observers>>

\* The row email.create stores.  Gmail and IMAP flag the junk folder's mail as
\* spam, Outlook does not.
Stored(row, folder, flags) ==
    [row EXCEPT !.st = "present", !.folder = folder, !.flags = flags]
SyncFlags(folder) == IF folder = "SPAM" THEN {{}, {"spam"}} ELSE {{}}

\* email.create, which the unique index or a removed mailbox may refuse; the
\* caller logs the error and goes on with the next message.
SyncCreate(e, folder) ==
    /\ sync[e] = "create"
    /\ IF Occupied(e, folder) \/ MailboxOf[e] \notin boxes
       THEN /\ sync' = [sync EXCEPT ![e] = "idle"]
            /\ UNCHANGED email
       ELSE /\ sync' = [sync EXCEPT ![e] = IF e \in LocalParts THEN "store" ELSE "enqueue"]
            /\ \E flags \in SyncFlags(folder) :
                 email' = [email EXCEPT ![e] = Stored(@, folder, flags)]
    /\ UNCHANGED <<rows, trash, boxes, queueVars, worker, lateVars, requestVars, crashes,
                   observers>>

\* The attachment an IMAP sync already downloaded; a failure is only logged.
SyncStore(e) ==
    /\ sync[e] = "store"
    /\ rows' \in {rows, IF Present(e) THEN [rows EXCEPT ![e] = @ + 1] ELSE rows}
    /\ sync' = [sync EXCEPT ![e] = "enqueue"]
    /\ UNCHANGED <<email, trash, boxes, queueVars, worker, lateVars, requestVars, crashes,
                   observers>>

\* Mutant: the job is not added.
SyncWithoutEnqueue(e) ==
    /\ sync[e] = "enqueue"
    /\ sync' = [sync EXCEPT ![e] = "idle"]
    /\ UNCHANGED <<emailVars, queueVars, worker, lateVars, requestVars, crashes, observers>>

SyncEnqueue(e) ==
    /\ sync[e] = "enqueue"
    /\ QueueAdd({e}, "sync")
    /\ sync' = [sync EXCEPT ![e] = "idle"]
    /\ UNCHANGED <<emailVars, paused, worker, lateVars, requestVars, crashes, moved>>

\* The queue refuses the job: the message's catch block swallows the error.
SyncAbandon(e) ==
    /\ SyncOwes(e)
    /\ sync' = [sync EXCEPT ![e] = "idle"]
    /\ holes' = IF Stranded(e) THEN Hole({e}, "abandoned") ELSE holes
    /\ UNCHANGED <<emailVars, queueVars, worker, lateVars, requestVars, crashes, moved>>

-----------------------------------------------------------------------------
(* EmailProcessProcessor.process and the pipeline it awaits.               *)

Goto(e, pc) == worker' = [worker EXCEPT ![e] = WorkerAt(pc)]

\* The queue hands out a waiting job.
Take(e) ==
    /\ job[e].st = "waiting" /\ ~paused
    /\ Cardinality({d \in Emails : worker[d].pc # "idle"}) < Concurrency
    /\ job' = [job EXCEPT ![e].st = "active"]
    /\ Goto(e, "load")
    /\ UNCHANGED <<emailVars, paused, sync, lateVars, requestVars, crashes, observers>>

\* The processor returned: the job is completed.
JobDone(e) ==
    /\ job' = [job EXCEPT ![e] = CompleteJob(@)]
    /\ worker' = [worker EXCEPT ![e] = IdleWorker]

LoadMissing(e) ==
    /\ worker[e].pc = "load"
    /\ ~Present(e) \/ MailboxOf[e] \notin boxes
    /\ JobDone(e)
    /\ UNCHANGED <<emailVars, paused, sync, lateVars, requestVars, crashes, observers>>

\* Mutant: a rescan downloads the attachments again.
LoadWithAttachments(e) ==
    /\ worker[e].pc = "load"
    /\ Present(e) /\ MailboxOf[e] \in boxes
    /\ Goto(e, IF e \in RemoteParts THEN "fetch" ELSE "analyze")
    /\ UNCHANGED <<emailVars, queueVars, sync, lateVars, requestVars, crashes, observers>>

\* Only the jobs of a sync name the attachments to download.
Load(e) ==
    /\ worker[e].pc = "load"
    /\ Present(e) /\ MailboxOf[e] \in boxes
    /\ Goto(e, IF e \in RemoteParts /\ job[e].origin = "sync" THEN "fetch" ELSE "analyze")
    /\ UNCHANGED <<emailVars, queueVars, sync, lateVars, requestVars, crashes, observers>>

\* The attachment is downloaded and stored again on every attempt; a failed
\* download is logged and the analysis goes on without it.
Fetch(e) ==
    /\ worker[e].pc = "fetch"
    /\ rows' \in {rows, IF Present(e) THEN [rows EXCEPT ![e] = @ + 1] ELSE rows}
    /\ Goto(e, "analyze")
    /\ UNCHANGED <<email, trash, boxes, queueVars, sync, lateVars, requestVars, crashes,
                   observers>>

\* SecurityService.analyze reaches a verdict.  When the malware scan outlasts
\* the 5 s window (slow) its result is not part of the verdict.
AnalyzeVerdict(e, verdict, slow) ==
    /\ worker[e].pc = "analyze"
    /\ slow => rows[e] > 0 /\ late[e] < MaxLate
    /\ verdict = "malware" => rows[e] > 0 /\ ~slow
    /\ worker' = [worker EXCEPT ![e] = [pc |-> "persist", verdict |-> verdict, slow |-> slow]]
    /\ UNCHANGED <<emailVars, queueVars, sync, lateVars, requestVars, crashes, observers>>

\* The AI report is mandatory: its failure rejects the attempt.
AnalyzeFails(e) ==
    /\ worker[e].pc = "analyze"
    /\ Goto(e, "catch")
    /\ UNCHANGED <<emailVars, queueVars, sync, lateVars, requestVars, crashes, observers>>

\* Any other failure of a stage, up to the update of the row: the fallback
\* verdict, nothing persisted, and no one waits for a malware scan any more.
AnalyzeFallback(e) ==
    /\ worker[e].pc \in {"analyze", "persist"}
    /\ Goto(e, "mark")
    /\ UNCHANGED <<emailVars, queueVars, sync, lateVars, requestVars, crashes, observers>>

VerdictFolder(verdict) ==
    CASE verdict \in {"malware", "url"} -> "MALWARE"
      [] verdict = "phishing"           -> "PHISHING"
      [] verdict = "spam"               -> "SPAM"
      [] OTHER                          -> "none"

VerdictFlags(verdict) == {verdict} \cap {"spam", "phishing"}

\* Mutant: a scan without a result keeps the verdict of the one before.
AnalysedKeepingMalware(row, verdict) ==
    [row EXCEPT !.report    = TRUE,
                !.flags     = VerdictFlags(verdict),
                !.malicious = row.malicious \/ verdict = "malware",
                !.folder    = IF VerdictFolder(verdict) = "none" THEN row.folder
                              ELSE VerdictFolder(verdict)]

\* The row after persistResults: a safe verdict leaves the folder alone.
Analysed(row, verdict) ==
    [row EXCEPT !.report    = TRUE,
                !.flags     = VerdictFlags(verdict),
                !.malicious = verdict = "malware",
                !.folder    = IF VerdictFolder(verdict) = "none" THEN row.folder
                              ELSE VerdictFolder(verdict)]

\* The pipeline ends; a malware scan still running is left to itself.
PipelineEnds(e) ==
    /\ Goto(e, "mark")
    /\ late' = [late EXCEPT ![e] = @ + (IF worker[e].slow THEN 1 ELSE 0)]

Persist(e) ==
    /\ worker[e].pc = "persist"
    /\ Present(e) /\ ~Occupied(e, VerdictFolder(worker[e].verdict))
    /\ email' = [email EXCEPT ![e] = Analysed(@, worker[e].verdict)]
    /\ moved' = [moved EXCEPT ![e] = FALSE]
    /\ PipelineEnds(e)
    /\ UNCHANGED <<rows, trash, boxes, queueVars, sync, lateDup, requestVars, crashes, holes>>

\* The update failed for another reason, or the row is gone: only logged.
PersistLost(e) ==
    /\ worker[e].pc = "persist"
    /\ PipelineEnds(e)
    /\ UNCHANGED <<emailVars, queueVars, sync, lateDup, requestVars, crashes, observers>>

\* A copy of the message is in the target folder: this record is deleted,
\* by a second call.
PersistConflict(e) ==
    /\ worker[e].pc = "persist"
    /\ Present(e) /\ Occupied(e, VerdictFolder(worker[e].verdict))
    /\ worker' = [worker EXCEPT ![e].pc = "dupDelete"]
    /\ UNCHANGED <<emailVars, queueVars, sync, lateVars, requestVars, crashes, observers>>

DupDelete(e) ==
    /\ worker[e].pc = "dupDelete"
    /\ email' = IF Present(e) THEN Gone({e}) ELSE email
    /\ rows' = [rows EXCEPT ![e] = 0]
    /\ PipelineEnds(e)
    /\ UNCHANGED <<trash, boxes, queueVars, sync, lateDup, requestVars, crashes, observers>>

Mark(e) ==
    /\ worker[e].pc = "mark" /\ Present(e)
    /\ email' = WithStatus({e}, "COMPLETED")
    /\ holes' = NoHole({e})
    /\ Goto(e, "finish")
    /\ UNCHANGED <<rows, trash, boxes, queueVars, sync, lateVars, requestVars, crashes, moved>>

\* The update throws: the row is gone, or the database failed.
MarkFails(e) ==
    /\ worker[e].pc = "mark"
    /\ Goto(e, "catch")
    /\ UNCHANGED <<emailVars, queueVars, sync, lateVars, requestVars, crashes, observers>>

\* The owner is notified, whatever becomes of that, and the processor returns.
Finish(e) ==
    /\ worker[e].pc = "finish"
    /\ JobDone(e)
    /\ UNCHANGED <<emailVars, paused, sync, lateVars, requestVars, crashes, observers>>

\* Mutant: the attempt is rejected and the status left alone.
CatchWithoutStatus(e) ==
    /\ worker[e].pc = "catch"
    /\ Present(e) /\ ~email[e].report
    /\ job' = [job EXCEPT ![e] = FailJob(@)]
    /\ worker' = [worker EXCEPT ![e] = IdleWorker]
    /\ UNCHANGED <<emailVars, paused, sync, lateVars, requestVars, crashes, observers>>

\* Mutant: FAILED whether or not there is a report.
CatchDespiteReport(e) ==
    /\ worker[e].pc = "catch"
    /\ Present(e)
    /\ email' = WithStatus({e}, "FAILED")
    /\ holes' = NoHole({e})
    /\ job' = [job EXCEPT ![e] = FailJob(@)]
    /\ worker' = [worker EXCEPT ![e] = IdleWorker]
    /\ UNCHANGED <<rows, trash, boxes, paused, sync, lateVars, requestVars, crashes, moved>>

\* The rejected attempt: FAILED unless an earlier attempt left a report.
Catch(e) ==
    /\ worker[e].pc = "catch"
    /\ Present(e) /\ ~email[e].report
    /\ email' = WithStatus({e}, "FAILED")
    /\ holes' = NoHole({e})
    /\ job' = [job EXCEPT ![e] = FailJob(@)]
    /\ worker' = [worker EXCEPT ![e] = IdleWorker]
    /\ UNCHANGED <<rows, trash, boxes, paused, sync, lateVars, requestVars, crashes, moved>>

\* A report exists, the row is gone, or the database fails again.
CatchUnmarked(e) ==
    /\ worker[e].pc = "catch"
    /\ job' = [job EXCEPT ![e] = FailJob(@)]
    /\ worker' = [worker EXCEPT ![e] = IdleWorker]
    /\ holes' = IF Pending(e) /\ ~Live(job'[e]) THEN Hole({e}, "unmarked") ELSE holes
    /\ UNCHANGED <<emailVars, paused, sync, lateVars, requestVars, crashes, moved>>

-----------------------------------------------------------------------------
(* The malware scan that outlived the pipeline.                            *)

LateEnds(e) == late[e] > 0 /\ late' = [late EXCEPT ![e] = @ - 1]

\* Not malicious, failed, or the row is gone.
LateNothing(e) ==
    /\ LateEnds(e)
    /\ UNCHANGED <<emailVars, queueVars, sync, worker, lateDup, requestVars, crashes, observers>>

\* Mutant: the flags of the first verdict stay.
LateMaliciousKeepingFlags(e) ==
    /\ LateEnds(e)
    /\ Present(e) /\ ~Occupied(e, "MALWARE")
    /\ email' = [email EXCEPT ![e] = [@ EXCEPT !.malicious = TRUE, !.folder = "MALWARE"]]
    /\ moved' = [moved EXCEPT ![e] = FALSE]
    /\ UNCHANGED <<rows, trash, boxes, queueVars, sync, worker, lateDup, requestVars, crashes,
                   holes>>

\* Mutant: the verdict is written and the record stays where it is.
LateMaliciousInPlace(e) ==
    /\ LateEnds(e)
    /\ Present(e) /\ ~Occupied(e, "MALWARE")
    /\ email' = [email EXCEPT ![e] = [@ EXCEPT !.malicious = TRUE, !.flags = {}]]
    /\ moved' = [moved EXCEPT ![e] = FALSE]
    /\ UNCHANGED <<rows, trash, boxes, queueVars, sync, worker, lateDup, requestVars, crashes,
                   holes>>

LateMalicious(e) ==
    /\ LateEnds(e)
    /\ Present(e) /\ ~Occupied(e, "MALWARE")
    /\ email' = [email EXCEPT ![e] = [@ EXCEPT !.malicious = TRUE, !.flags = {},
                                               !.folder = "MALWARE"]]
    /\ moved' = [moved EXCEPT ![e] = FALSE]
    /\ UNCHANGED <<rows, trash, boxes, queueVars, sync, worker, lateDup, requestVars, crashes,
                   holes>>

LateConflict(e) ==
    /\ LateEnds(e)
    /\ Present(e) /\ Occupied(e, "MALWARE")
    /\ lateDup' = lateDup \cup {e}
    /\ UNCHANGED <<emailVars, queueVars, sync, worker, requestVars, crashes, observers>>

LateDupDelete(e) ==
    /\ e \in lateDup
    /\ lateDup' = lateDup \ {e}
    /\ email' = IF Present(e) THEN Gone({e}) ELSE email
    /\ rows' = [rows EXCEPT ![e] = 0]
    /\ UNCHANGED <<trash, boxes, queueVars, sync, worker, late, requestVars, crashes, observers>>

-----------------------------------------------------------------------------
(* The requests of the mailbox's owner.                                    *)

\* A request of this kind, on a mailbox the owner still has connected.
Request(kind, box) ==
    /\ kind \in Requests /\ requests < MaxRequests
    /\ box \in boxes
    /\ requests' = requests + 1

Progress(h, pc) == req' = [req EXCEPT ![h].pc = pc]
Done(h) == req' = [req EXCEPT ![h] = IdleRequest]

\* EmailsService.scanEmail: a PENDING record is refused for four minutes.
BeginScan(h, e) ==
    /\ Request("scan", MailboxOf[e]) /\ req[h].pc = "idle"
    /\ Present(e) /\ (email[e].status = "PENDING" => email[e].old)
    /\ req' = [req EXCEPT ![h] = [pc |-> "scanWrite", targets |-> {e},
                                  noReport |-> IF email[e].report THEN {} ELSE {e}]]
    /\ UNCHANGED <<emailVars, queueVars, sync, worker, lateVars, crashes, observers>>

\* The status to write was decided by the report that was read.
ScanWrite(h) == \E e \in req[h].targets :
    /\ req[h].pc = "scanWrite" /\ Present(e)
    /\ LET status == IF e \in req[h].noReport THEN "PENDING" ELSE "COMPLETED" IN
       /\ email' = [email EXCEPT ![e] = [@ EXCEPT !.status = status, !.old = FALSE]]
       /\ holes' = IF status = "COMPLETED" THEN NoHole({e}) ELSE holes
    /\ Progress(h, "add")
    /\ UNCHANGED <<rows, trash, boxes, queueVars, sync, worker, lateVars, requests, crashes,
                   moved>>

\* EmailsService.scanAllEmails: every record of the mailbox.
BeginScanAll(h, box) ==
    /\ Request("scanAll", box) /\ req[h].pc = "idle"
    /\ LET found == {e \in Emails : Present(e) /\ MailboxOf[e] = box} IN
       /\ found # {}
       /\ req' = [req EXCEPT ![h] = [pc |-> "scanAllWrite", targets |-> found,
                                     noReport |-> {e \in found : ~email[e].report}]]
    /\ UNCHANGED <<emailVars, queueVars, sync, worker, lateVars, crashes, observers>>

ScanAllWrite(h) ==
    /\ req[h].pc = "scanAllWrite"
    /\ email' = WithStatus({e \in req[h].noReport : Present(e)}, "PENDING")
    /\ Progress(h, "add")
    /\ UNCHANGED <<rows, trash, boxes, queueVars, sync, worker, lateVars, requests, crashes,
                   observers>>

\* Queue.add or addBulk.
ScanAdd(h) ==
    /\ req[h].pc = "add"
    /\ QueueAdd(req[h].targets, "scan")
    /\ Done(h)
    /\ UNCHANGED <<emailVars, paused, sync, worker, lateVars, requests, crashes, moved>>

\* EmailsService.cancelScanJob: a job that is being worked on stays.
BeginCancel(h, e) ==
    /\ Request("cancel", MailboxOf[e]) /\ req[h].pc = "idle"
    /\ email[e].st # "absent"
    /\ job' = [job EXCEPT ![e] = RemoveJob(@)]
    /\ req' = [req EXCEPT ![h] = [IdleRequest EXCEPT !.pc = "cancelMark", !.targets = {e}]]
    /\ UNCHANGED <<emailVars, paused, sync, worker, lateVars, crashes, observers>>

\* controlQueue('clear'): three cleans of the whole queue, then the statuses of
\* one mailbox.  The first clean comes with the request.
Clean(owner, st) ==
    LET removed == {e \in Emails : job[e].st = st} IN
    /\ job' = [e \in Emails |-> IF e \in removed THEN NoJob ELSE job[e]]
    /\ holes' = Hole({e \in removed : Pending(e) /\ MailboxOf[e] # owner}, "cleared")

BeginClear(h, box) ==
    /\ Request("clear", box) /\ req[h].pc = "idle"
    /\ IF paused THEN UNCHANGED <<job, holes>> ELSE Clean(box, "waiting")
    /\ req' = [req EXCEPT ![h] = [IdleRequest EXCEPT !.pc = "cleanPaused",
                                    !.targets = {e \in Emails : MailboxOf[e] = box}]]
    /\ UNCHANGED <<emailVars, paused, sync, worker, lateVars, crashes, moved>>

\* While the queue is paused its waiting jobs are in the list of paused ones.
CleanPaused(h, box) ==
    /\ req[h].pc = "cleanPaused" /\ req[h].targets = {e \in Emails : MailboxOf[e] = box}
    /\ IF paused THEN Clean(box, "waiting") ELSE UNCHANGED <<job, holes>>
    /\ Progress(h, "cleanDelayed")
    /\ UNCHANGED <<emailVars, paused, sync, worker, lateVars, requests, crashes, moved>>

CleanDelayed(h, box) ==
    /\ req[h].pc = "cleanDelayed" /\ req[h].targets = {e \in Emails : MailboxOf[e] = box}
    /\ Clean(box, "delayed")
    /\ Progress(h, "clearMark")
    /\ UNCHANGED <<emailVars, paused, sync, worker, lateVars, requests, crashes, moved>>

\* Mutant: a cancel settles nothing.
MarkFailedOnClearOnly(h) ==
    LET failed == {e \in req[h].targets : req[h].pc = "clearMark" /\ Pending(e)} IN
    /\ req[h].pc \in {"cancelMark", "clearMark"}
    /\ email' = WithStatus(failed, "FAILED")
    /\ holes' = NoHole(failed)
    /\ Done(h)
    /\ UNCHANGED <<rows, trash, boxes, queueVars, sync, worker, lateVars, requests, crashes,
                   moved>>

\* The last step of a cancel (any status) or of a clear (PENDING only).
MarkFailed(h) ==
    LET failed == {e \in req[h].targets :
                     IF req[h].pc = "cancelMark" THEN Present(e) ELSE Pending(e)} IN
    /\ req[h].pc \in {"cancelMark", "clearMark"}
    /\ email' = WithStatus(failed, "FAILED")
    /\ holes' = NoHole(failed)
    /\ Done(h)
    /\ UNCHANGED <<rows, trash, boxes, queueVars, sync, worker, lateVars, requests, crashes,
                   moved>>

\* A database or queue call of the request throws: the request ends in an error.
Abandon(h) ==
    /\ req[h].pc # "idle"
    /\ holes' = Hole({e \in req[h].targets : RequestOwes(h, e) /\ Stranded(e)}, "abandoned")
    /\ Done(h)
    /\ UNCHANGED <<emailVars, queueVars, sync, worker, lateVars, requests, crashes, moved>>

\* controlQueue('pause') and ('resume'): one flag for all the mailboxes.
SetPaused(box, flag) ==
    /\ "pause" \in Requests /\ box \in boxes
    /\ paused' = flag
    /\ UNCHANGED <<emailVars, job, sync, worker, lateVars, requestVars, crashes, observers>>

\* EmailsService.delete: into TRASH where that folder exists, else for good.
\* The unique index may refuse the move.
Delete(e) ==
    /\ Request("delete", MailboxOf[e]) /\ Present(e)
    /\ IF MailboxOf[e] \in trash
       THEN /\ ~Occupied(e, "TRASH")
            /\ email' = [email EXCEPT ![e].folder = "TRASH"]
            /\ moved' = [moved EXCEPT ![e] = TRUE]
            /\ UNCHANGED rows
       ELSE /\ email' = Gone({e})
            /\ rows' = [rows EXCEPT ![e] = 0]
            /\ UNCHANGED moved
    /\ UNCHANGED <<trash, boxes, queueVars, sync, worker, lateVars, req, crashes, holes>>

\* EmailsService.report: the other flag is left as it is.
Reported(row, type) ==
    [row EXCEPT !.folder = VerdictFolder(type), !.flags = row.flags \cup {type}]

Report(e, type) ==
    /\ Request("report", MailboxOf[e]) /\ Present(e)
    /\ ~Occupied(e, VerdictFolder(type))
    /\ email' = [email EXCEPT ![e] = Reported(@, type)]
    /\ moved' = [moved EXCEPT ![e] = TRUE]
    /\ UNCHANGED <<rows, trash, boxes, queueVars, sync, worker, lateVars, req, crashes, holes>>

\* EmailsService.reclassify: spam and phishing set their own flag, the other
\* folders clear both.  The target folder is created on first use.
Refiled(row, folder) ==
    [row EXCEPT !.folder = folder,
                !.flags  = CASE folder = "SPAM"     -> row.flags \cup {"spam"}
                             [] folder = "PHISHING" -> row.flags \cup {"phishing"}
                             [] OTHER               -> {}]

Reclassify(e, folder) ==
    /\ Request("reclassify", MailboxOf[e]) /\ Present(e)
    /\ trash' = IF folder = "TRASH" THEN trash \cup {MailboxOf[e]} ELSE trash
    /\ IF Occupied(e, folder)
       THEN UNCHANGED <<email, moved>>
       ELSE /\ email' = [email EXCEPT ![e] = Refiled(@, folder)]
            /\ moved' = [moved EXCEPT ![e] = TRUE]
    /\ UNCHANGED <<rows, boxes, queueVars, sync, worker, lateVars, req, crashes, holes>>

\* MailboxesService.remove: the rows go with the mailbox, the jobs stay.
RemoveMailbox(box) ==
    /\ Request("remove", box)
    /\ boxes' = boxes \ {box}
    /\ trash' = trash \ {box}
    /\ email' = Gone({e \in Emails : Present(e) /\ MailboxOf[e] = box})
    /\ rows' = [e \in Emails |-> IF MailboxOf[e] = box THEN 0 ELSE rows[e]]
    /\ UNCHANGED <<queueVars, sync, worker, lateVars, req, crashes, observers>>

\* EmailSendProcessor.saveSentEmail: the record of a mail the owner sent, with
\* its attachments, PENDING like any new record.
StoreSent(e) ==
    /\ Request("send", MailboxOf[e])
    /\ sync[e] = "idle" /\ email[e].st = "absent" /\ ~Occupied(e, "SENT")
    /\ email' = [email EXCEPT ![e] = Stored(@, "SENT", {})]
    /\ rows' = [rows EXCEPT ![e] = IF e \in RemoteParts \cup LocalParts THEN 1 ELSE 0]
    /\ holes' = Hole({e}, "sent")
    /\ UNCHANGED <<trash, boxes, queueVars, sync, worker, lateVars, req, crashes, moved>>

-----------------------------------------------------------------------------
(* The queue, the clock and the process.                                   *)

\* The backoff of a failed attempt is over.
Promote(e) ==
    /\ job[e].st = "delayed"
    /\ job' = [job EXCEPT ![e].st = "waiting"]
    /\ UNCHANGED <<emailVars, paused, sync, worker, lateVars, requestVars, crashes, observers>>

\* An active job whose worker is gone.
Stall(e) ==
    /\ job[e].st = "active" /\ worker[e].pc = "idle"
    /\ job' = [job EXCEPT ![e] = StallJob(@)]
    /\ holes' = IF Pending(e) /\ ~Live(job'[e]) THEN Hole({e}, "stalled") ELSE holes
    /\ UNCHANGED <<emailVars, paused, sync, worker, lateVars, requestVars, crashes, moved>>

Evict(e) ==
    /\ Evictable(job[e])
    /\ job' = [job EXCEPT ![e] = NoJob]
    /\ UNCHANGED <<emailVars, paused, sync, worker, lateVars, requestVars, crashes, observers>>

\* Four minutes pass since createdAt, which is looked at while PENDING only.
Age(e) ==
    /\ Pending(e) /\ ~email[e].old
    /\ email' = [email EXCEPT ![e].old = TRUE]
    /\ UNCHANGED <<rows, trash, boxes, queueVars, sync, worker, lateVars, requestVars, crashes,
                   observers>>

\* The server dies and restarts: nothing in memory survives.
Crash ==
    /\ crashes < MaxCrashes
    /\ crashes' = crashes + 1
    /\ holes' = Hole({e \in Emails : Owed(e) /\ Pending(e) /\ ~Live(job[e])}, "abandoned")
    /\ sync' = [e \in Emails |-> "idle"]
    /\ worker' = [e \in Emails |-> IdleWorker]
    /\ late' = [e \in Emails |-> 0]
    /\ lateDup' = {}
    /\ req' = [h \in Handlers |-> IdleRequest]
    /\ UNCHANGED <<emailVars, queueVars, requests, moved>>

-----------------------------------------------------------------------------
SyncStep(e) ==
    \/ \E folder \in SyncFolders : SyncCreate(e, folder)
    \/ SyncStore(e)
    \/ SyncEnqueue(e)
    \/ SyncAbandon(e)

Process(e) ==
    \/ LoadMissing(e) \/ Load(e) \/ Fetch(e)
    \/ \E verdict \in Verdicts, slow \in BOOLEAN : AnalyzeVerdict(e, verdict, slow)
    \/ AnalyzeFails(e) \/ AnalyzeFallback(e)
    \/ Persist(e) \/ PersistLost(e) \/ PersistConflict(e) \/ DupDelete(e)
    \/ Mark(e) \/ MarkFails(e) \/ Finish(e)
    \/ Catch(e) \/ CatchUnmarked(e)

LateScan(e) ==
    \/ LateNothing(e) \/ LateMalicious(e) \/ LateConflict(e)
    \/ LateDupDelete(e)

\* The steps a request still has to take once it was accepted.
Serve(h) ==
    \/ ScanWrite(h) \/ ScanAllWrite(h) \/ ScanAdd(h)
    \/ \E box \in Mailboxes : CleanPaused(h, box) \/ CleanDelayed(h, box)
    \/ MarkFailed(h) \/ Abandon(h)

Begin(h) ==
    \/ \E e \in Emails : BeginScan(h, e) \/ BeginCancel(h, e)
    \/ \E box \in Mailboxes : BeginScanAll(h, box) \/ BeginClear(h, box)

Move ==
    \/ \E e \in Emails : Delete(e) \/ StoreSent(e)
    \/ \E e \in Emails, type \in {"spam", "phishing"} : Report(e, type)
    \/ \E e \in Emails, folder \in FolderTypes \ {"MALWARE"} : Reclassify(e, folder)
    \/ \E box \in Mailboxes : RemoveMailbox(box)
    \/ \E box \in Mailboxes, flag \in BOOLEAN : SetPaused(box, flag)

Next ==
    \/ \E e \in Emails :
         \/ SyncFind(e) \/ SyncStep(e)
         \/ Take(e) \/ Process(e) \/ LateScan(e)
         \/ Promote(e) \/ Stall(e) \/ Evict(e) \/ Age(e)
    \/ \E h \in Handlers : Begin(h) \/ Serve(h)
    \/ Move
    \/ Crash

\* The event loop, the worker and the queue's own timers make progress; nothing
\* is assumed of the owner, of new mail, of evictions or of crashes.
Fairness ==
    /\ \A e \in Emails : /\ WF_vars(SyncStep(e))
                         /\ WF_vars(Take(e)) /\ WF_vars(Process(e))
                         /\ WF_vars(Promote(e)) /\ WF_vars(Stall(e))
    /\ \A h \in Handlers : WF_vars(Serve(h))

Spec == Init /\ [][Next]_vars /\ Fairness
-----------------------------------------------------------------------------
(* The abstract record behind all this: the row without folders and flags,  *)
(* and the requests made for it.                                           *)

RecordOf(e) == [st |-> email[e].st, status |-> email[e].status, judged |-> email[e].report,
                guilty |-> email[e].malicious, kept |-> email[e].folder = "MALWARE",
                moved |-> moved[e]]
AskedOf(e) == {h \in Handlers : e \in req[h].targets}

Life == INSTANCE EmailRecord WITH record <- [e \in Emails |-> RecordOf(e)],
                                  asked  <- [e \in Emails |-> AskedOf(e)]

\* The jobs, retries, late scans, duplicates and requests together implement the
\* abstract record: it is stored once, its judgement is never taken back, a failure
\* never marks a judged record, only requests in progress write other statuses, and
\* only the owner takes a malicious mail out of MALWARE.
RecordLife == Life!Spec

\* Every variable has its type.
TypeOK ==
    /\ email \in [Emails -> EmailRows]
    /\ rows \in [Emails -> Nat]
    /\ trash \subseteq Mailboxes /\ boxes \subseteq Mailboxes
    /\ job \in [Emails -> Jobs]
    /\ paused \in BOOLEAN
    /\ sync \in [Emails -> {"idle", "create", "store", "enqueue"}]
    /\ worker \in [Emails -> WorkerStates]
    /\ late \in [Emails -> Nat] /\ lateDup \subseteq Emails
    /\ req \in [Handlers -> RequestStates]
    /\ requests \in Nat /\ crashes \in Nat
    /\ holes \in [Emails -> SUBSET Holes]
    /\ moved \in [Emails -> BOOLEAN]

\* A record that reads PENDING is still going to be analysed, or a handler that
\* is in progress owes it a job or a status, or one of the named causes
\* stranded it: there is no other way for a record to hang in PENDING.
NoSilentPending ==
    \A e \in Emails : Stranded(e) => Owed(e) \/ holes[e] # {}

\* The MALWARE folder never shows a record as spam or as phishing, whichever of
\* the worker, the late malware scan and the owner wrote the row last.
MalwareFolderUnflagged ==
    \A e \in Emails : Present(e) /\ email[e].folder = "MALWARE" => email[e].flags = {}

\* A record with a malicious attachment leaves the MALWARE folder only by the
\* owner's hand: no later verdict moves it and keeps the malware verdict.
MaliciousOnlyMovedByOwner ==
    \A e \in Emails :
        Present(e) /\ email[e].malicious /\ email[e].folder # "MALWARE" => moved[e]

\* Every attempt stores the attachment again, but retries, stalls and rescans
\* together never store it more often than the job is handed out.
AttachmentCopiesBounded ==
    \A e \in Emails : rows[e] <= MaxAttempts + MaxStalled

\* Once an analysis is COMPLETED with a report, no failed or repeated attempt,
\* no sync and no crash takes that status away: only a request of the owner
\* does, or the removal of a duplicate.
ReportSurvivesFailures ==
    [][\A e \in Emails :
         /\ Present(e) /\ email[e].report /\ email[e].status = "COMPLETED"
         /\ req' = req
         /\ Present(e)'
         => email'[e].report /\ email'[e].status = "COMPLETED"]_vars

\* When the queue is not left paused, a record does not stay PENDING, unless one
\* of the named causes stranded it: retries, stalls and cancellations included.
PendingSettles ==
    <>[]~paused => \A e \in Emails : Pending(e) ~> (~Pending(e) \/ holes[e] # {})

\* When the queue is not left paused, every job it accepted comes to an end.
JobsEnd ==
    <>[]~paused => \A e \in Emails : Live(job[e]) ~> ~Live(job[e])

\* The comment on the duplicate's removal: the target folder already has a
\* copy.  Refuted: the copy can be on its own way out when this one is deleted.
DuplicateLeavesACopy ==
    [][\A e \in Emails :
         worker[e].pc = "dupDelete" /\ worker'[e].pc = "mark" /\ Present(e)
         => \E d \in Copies(e) : Present(d)]_vars
=============================================================================
