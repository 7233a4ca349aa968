-------------------------- MODULE EmailSend_proofs --------------------------
(***************************************************************************)
(* Theorems about EmailSend, for every number of mails, mailboxes, attempts*)
(* and crashes.                                                            *)
(***************************************************************************)
EXTENDS EmailSend, TLAPS

\* Only an active job has a worker, and a job that will run again has an attempt
\* left.
WorkerHoldsJob == \A m \in Mails : worker[m] # "idle" => job[m].st = "active"
AttemptsLeft == \A m \in Mails : Live(job[m]) => job[m].attempts < MaxAttempts
TypeInv == TypeOK /\ WorkerHoldsJob /\ AttemptsLeft

-----------------------------------------------------------------------------
(* The queue's operators.                                                  *)

LEMMA NoJobType == NoJob \in Jobs /\ NoJob.st = "none"
BY QueueAssumption DEF NoJob, Jobs, Origins, LiveStates, FinishedStates

LEMMA AddJobType ==
    ASSUME NEW j \in Jobs
    PROVE  /\ AddJob(j, "send") \in Jobs
           /\ AddJob(j, "send") = j \/ AddJob(j, "send").st = "waiting"
           /\ j.st # "none" => AddJob(j, "send") = j
           /\ j.st = "none" => /\ AddJob(j, "send").attempts = 0
                               /\ AddJob(j, "send").stalls = 0
<1>1. "waiting" \in LiveStates /\ "send" \in Origins
  BY DEF LiveStates, Origins
<1>2. /\ NoJob \in Jobs /\ NoJob.attempts = 0 /\ NoJob.stalls = 0
  BY NoJobType DEF NoJob
<1>3. /\ NewJob("send") \in Jobs /\ NewJob("send").st = "waiting"
      /\ NewJob("send").attempts = 0 /\ NewJob("send").stalls = 0
  BY <1>1, <1>2 DEF NewJob, Jobs
<1> QED BY <1>3 DEF AddJob

LEMMA FailJobType ==
    ASSUME NEW j \in Jobs, j.attempts < MaxAttempts
    PROVE  /\ FailJob(j) \in Jobs
           /\ FailJob(j).attempts = j.attempts + 1 /\ FailJob(j).stalls = j.stalls
           /\ FailJob(j).st \in {"delayed", "failed"}
           /\ Live(FailJob(j)) => FailJob(j).attempts < MaxAttempts
<1>1. MaxAttempts \in Nat /\ j.attempts \in Nat /\ j.attempts + 1 \in 0..MaxAttempts
  BY QueueAssumption DEF Jobs
<1>2. CASE j.attempts + 1 < MaxAttempts
  <2>1. FailJob(j) = [j EXCEPT !.attempts = j.attempts + 1, !.st = "delayed"]
    BY <1>2 DEF FailJob
  <2> QED BY <1>1, <1>2, <2>1 DEF Jobs, LiveStates
<1>3. CASE ~(j.attempts + 1 < MaxAttempts)
  <2>1. FailJob(j) = [j EXCEPT !.attempts = j.attempts + 1, !.st = "failed"]
    BY <1>3 DEF FailJob
  <2> QED BY <1>1, <2>1 DEF Jobs, FinishedStates, LiveStates, Live
<1> QED BY <1>2, <1>3

LEMMA StallJobType ==
    ASSUME NEW j \in Jobs
    PROVE  /\ StallJob(j) \in Jobs
           /\ StallJob(j).attempts = j.attempts
           /\ \/ StallJob(j).st = "waiting" /\ StallJob(j).stalls = j.stalls + 1
              \/ StallJob(j).st = "failed" /\ StallJob(j).stalls = j.stalls
<1>1. MaxStalled \in Nat /\ j.stalls \in 0..MaxStalled
  BY QueueAssumption DEF Jobs
<1>2. CASE j.stalls < MaxStalled
  <2>1. StallJob(j) = [j EXCEPT !.st = "waiting", !.stalls = j.stalls + 1]
    BY <1>2 DEF StallJob
  <2>2. j.stalls + 1 \in 0..MaxStalled
    BY <1>1, <1>2
  <2> QED BY <2>1, <2>2 DEF Jobs, LiveStates
<1>3. CASE ~(j.stalls < MaxStalled)
  <2>1. StallJob(j) = [j EXCEPT !.st = "failed"]
    BY <1>3 DEF StallJob
  <2> QED BY <2>1 DEF Jobs, FinishedStates
<1> QED BY <1>2, <1>3

LEMMA JobUpdates ==
    ASSUME NEW j \in Jobs
    PROVE  /\ \A st \in LiveStates \cup FinishedStates :
                 /\ [j EXCEPT !.st = st] \in Jobs
                 /\ [j EXCEPT !.st = st].st = st
                 /\ [j EXCEPT !.st = st].attempts = j.attempts
                 /\ [j EXCEPT !.st = st].stalls = j.stalls
           /\ CompleteJob(j) \in Jobs /\ CompleteJob(j).st = "completed"
           /\ j.attempts \in Nat /\ j.attempts <= MaxAttempts
           /\ j.stalls \in Nat /\ j.stalls <= MaxStalled
BY QueueAssumption DEF Jobs, CompleteJob, LiveStates, FinishedStates

\* What an accepted mail changes.
LEMMA AcceptedEffect ==
    ASSUME TypeOK, NEW m \in Mails, Accepted(m)
    PROVE  /\ delivered' \in [Mails -> Nat]
           /\ delivered'[m] = delivered[m] + 1
           /\ \A n \in Mails \ {m} : delivered'[n] = delivered[n]
           /\ remote \subseteq remote' /\ remote' \subseteq remote \cup {<<m, delivered[m] + 1>>}
           /\ remote' \subseteq Copies
BY DEF Accepted, TypeOK, Copies

LEMMA RecordType ==
    ASSUME TypeOK
    PROVE  /\ \A m \in Mails : delivered[m] > 0 => SentRecord(m) \in Records
           /\ \A found \in finding : SyncRecord(found[1], found[2]) \in Records
           /\ \A r \in records, n \in Nat \cup OtherFolders :
                 /\ [r EXCEPT !.folder = n] \in Records /\ [r EXCEPT !.folder = n].folder = n
                 /\ [r EXCEPT !.folder = n].copy = r.copy /\ [r EXCEPT !.folder = n].key = r.key
                 /\ [r EXCEPT !.folder = n].by = r.by
<1>1. \A m \in Mails : delivered[m] > 0 => SentRecord(m) \in Records
  BY DEF TypeOK, SentRecord, Records, LastCopy, Copies
<1>2. \A found \in finding : SyncRecord(found[1], found[2]) \in Records
  BY DEF TypeOK, SyncRecord, Records
<1>3. ASSUME NEW r \in records, NEW n \in Nat \cup OtherFolders
      PROVE  /\ [r EXCEPT !.folder = n] \in Records /\ [r EXCEPT !.folder = n].folder = n
             /\ [r EXCEPT !.folder = n].copy = r.copy /\ [r EXCEPT !.folder = n].key = r.key
             /\ [r EXCEPT !.folder = n].by = r.by
  BY DEF TypeOK, Records
<1> QED BY <1>1, <1>2, <1>3

\* A rejected attempt.
LEMMA RejectEffect ==
    ASSUME TypeInv, NEW m \in Mails, job[m].st = "active", Reject(m)
    PROVE  /\ job' \in [Mails -> Jobs] /\ worker' \in [Mails -> WorkerPcs]
           /\ job'[m].attempts = job[m].attempts + 1 /\ job'[m].stalls = job[m].stalls
           /\ job'[m].st \in {"delayed", "failed"}
           /\ Live(job'[m]) => job'[m].attempts < MaxAttempts
           /\ worker'[m] = "idle" /\ target' \in [Mails -> Nat] /\ target'[m] = NoFolder
           /\ \A n \in Mails \ {m} :
                 job'[n] = job[n] /\ worker'[n] = worker[n] /\ target'[n] = target[n]
<1>1. job[m].attempts < MaxAttempts
  BY DEF TypeInv, AttemptsLeft, Live, LiveStates
<1> QED BY <1>1, FailJobType DEF TypeInv, TypeOK, Reject, WorkerPcs, NoFolder

-----------------------------------------------------------------------------
(* The invariant.                                                          *)

\* How many copies the provider can have: one for each attempt that was rejected
\* or stalled, and one for the attempt in progress once it has handed the mail
\* over.
DeliveriesPaid ==
    \A m \in Mails :
        /\ job[m].st = "none" => delivered[m] = 0 /\ worker[m] = "idle"
        /\ job[m].st \in {"waiting", "delayed"} \/ worker[m] \in {"read", "send"}
             => delivered[m] <= job[m].attempts + job[m].stalls
        /\ job[m].st = "active" => delivered[m] <= job[m].attempts + job[m].stalls + 1
        /\ delivered[m] <= MaxAttempts + MaxStalled

\* The record is in place from the moment it is stored, unless somebody deletes it.
Kept(m) == \/ LastCopy(m) \in deleted
           \/ \E r \in records : r.copy = LastCopy(m) /\ r.by = "send"
StoredBeforeDone ==
    \A m \in Mails :
        /\ worker[m] \in {"find", "folder", "store"} => delivered[m] > 0
        /\ worker[m] = "done" \/ job[m].st = "completed"
             => delivered[m] > 0 /\ (Connected(m) => Kept(m))

\* Only accepted copies can be found, and no two rows of a folder share copy and key.
CopiesAreDeliveries ==
    /\ \A copy \in remote : copy[2] <= delivered[copy[1]]
    /\ \A r \in records : r.copy[2] <= delivered[r.copy[1]]
    /\ \A r, s \in records :
          r.copy = s.copy /\ r.key = s.key /\ r.folder = s.folder => r = s

\* The processor runs one job at a time.
OneWorker == \A m, n \in Mails : worker[m] # "idle" /\ worker[n] # "idle" => m = n

\* How many SENT folders a mailbox may come to have: those it has and one for everybody
\* who is about to create one, and the second of those makes it a race.
AtFolder(box) == IF \E m \in Mails : MailboxOf[m] = box /\ worker[m] = "folder" THEN 1 ELSE 0
Prospects(box) == folders[box] + making[box] + AtFolder(box)
FoldersMade ==
    \A box \in Mailboxes :
        /\ making[box] <= MaxMakers /\ Prospects(box) <= MaxMakers + 1
        /\ box \notin raced => Prospects(box) <= 1
        /\ box \notin boxes => folders[box] = 0 /\ making[box] = 0

\* The processor, the syncs and the rows speak of folders that are there.
BoxOf(copy) == MailboxOf[copy[1]]
FoldersKnown ==
    /\ \A m \in Mails :
          worker[m] = "store" /\ Connected(m) => target[m] \in SentFolders(MailboxOf[m])
    /\ \A found \in finding : found[2] \in SentFolders(BoxOf(found[1]))
    /\ \A r \in records : r.folder \in SentFolders(BoxOf(r.copy)) \cup OtherFolders

\* Until the server dies, an active job has its worker, and a mail whose record is
\* stored is past its last attempt.
RecordedIsOver ==
    crashes = 0 =>
        \A m \in Mails :
            /\ job[m].st = "active" => worker[m] # "idle"
            /\ (\E r \in records : r.copy[1] = m /\ r.by = "send")
                 => worker[m] = "done" \/ job[m].st = "completed"

SendInv ==
    /\ TypeInv
    /\ DeliveriesPaid /\ StoredBeforeDone /\ CopiesAreDeliveries /\ RecordedIsOver
    /\ OneWorker /\ FoldersMade /\ FoldersKnown

LEMMA TypeInvInit == Init => TypeInv
BY NoJobType DEF Init, TypeInv, TypeOK, WorkerHoldsJob, AttemptsLeft, Requests, WorkerPcs,
                 Live, LiveStates, NoFolder

LEMMA SendInvInit == Init => SendInv
<1> SUFFICES ASSUME Init PROVE SendInv
  OBVIOUS
<1>1. \A m \in Mails : job[m] = NoJob /\ worker[m] = "idle" /\ delivered[m] = 0
  BY DEF Init
<1>2. DeliveriesPaid
  BY <1>1, NoJobType, QueueAssumption DEF DeliveriesPaid
<1>3. StoredBeforeDone /\ CopiesAreDeliveries /\ RecordedIsOver /\ OneWorker
  BY <1>1, NoJobType DEF Init, StoredBeforeDone, CopiesAreDeliveries, RecordedIsOver, OneWorker
<1>4. FoldersMade
  <2>1. \A box \in Mailboxes : folders[box] = 0 /\ making[box] = 0 /\ AtFolder(box) = 0
    BY <1>1 DEF Init, AtFolder
  <2> QED BY <2>1, SendAssumption DEF Init, FoldersMade, Prospects
<1>5. FoldersKnown
  BY <1>1 DEF Init, FoldersKnown
<1> QED BY TypeInvInit, <1>2, <1>3, <1>4, <1>5 DEF SendInv

-----------------------------------------------------------------------------
LEMMA TypeInvNext == TypeInv /\ StoredBeforeDone /\ [Next]_vars => TypeInv'
<1> SUFFICES ASSUME TypeInv, StoredBeforeDone, [Next]_vars PROVE TypeInv'
  OBVIOUS
<1> USE DEF TypeInv, TypeOK, WorkerHoldsJob, AttemptsLeft, requestVars, boxVars, queueVars,
            mailVars, folderVars, recordVars
<1>1. ASSUME NEW m \in Mails, Upload(m) PROVE TypeInv'
  BY <1>1 DEF Upload, Requests
<1>2. ASSUME NEW m \in Mails, Enqueue(m) PROVE TypeInv'
  BY <1>2, AddJobType, QueueAssumption DEF Enqueue, Requests, Live, LiveStates
<1>3. ASSUME NEW m \in Mails, Refuse(m) PROVE TypeInv'
  BY <1>3 DEF Refuse, Requests
<1>4. ASSUME NEW m \in Mails, Take(m) PROVE TypeInv'
  <2>1. job' = [job EXCEPT ![m] = [job[m] EXCEPT !.st = "active"]]
    BY <1>4 DEF Take
  <2>2. /\ job[m] \in Jobs /\ Live(job[m]) /\ "active" \in LiveStates
    BY <1>4 DEF Take, Live, LiveStates
  <2>3. /\ [job[m] EXCEPT !.st = "active"] \in Jobs
        /\ [job[m] EXCEPT !.st = "active"].st = "active"
        /\ [job[m] EXCEPT !.st = "active"].attempts = job[m].attempts
    BY <2>2, JobUpdates
  <2>4. /\ job' \in [Mails -> Jobs] /\ job'[m].st = "active" /\ job'[m].attempts < MaxAttempts
        /\ \A n \in Mails \ {m} : job'[n] = job[n]
    BY <2>1, <2>2, <2>3
  <2> QED BY <1>4, <2>4 DEF Take, WorkerPcs, Live
<1>5. ASSUME NEW m \in Mails, Prepare(m) PROVE TypeInv'
  BY <1>5 DEF Prepare, WorkerPcs
<1>6. ASSUME NEW m \in Mails, Deliver(m) PROVE TypeInv'
  BY <1>6, AcceptedEffect DEF Deliver, WorkerPcs
<1>7. ASSUME NEW m \in Mails, DeliverUnanswered(m) PROVE TypeInv'
  BY <1>7, AcceptedEffect, RejectEffect DEF DeliverUnanswered, WorkerPcs
<1>8. ASSUME NEW m \in Mails, AttemptFails(m) PROVE TypeInv'
  BY <1>8, RejectEffect DEF AttemptFails, WorkerPcs
<1>9. ASSUME NEW m \in Mails, Store(m) PROVE TypeInv'
  BY <1>9, RecordType DEF Store, Storable, WorkerPcs, StoredBeforeDone, NoFolder
<1>10. ASSUME NEW m \in Mails, Finish(m) PROVE TypeInv'
  BY <1>10, JobUpdates DEF Finish, WorkerPcs, Live, LiveStates
<1>11. ASSUME NEW copy \in remote, NEW n \in Nat, SyncFind(copy, n) PROVE TypeInv'
  BY <1>11 DEF SyncFind
<1>12. ASSUME NEW found \in finding, SyncCreate(found[1], found[2]) PROVE TypeInv'
  BY <1>12, RecordType DEF SyncCreate
<1>13. ASSUME NEW box \in Mailboxes, RemoveMailbox(box) PROVE TypeInv'
  BY <1>13 DEF RemoveMailbox
<1>14. ASSUME NEW m \in Mails, Promote(m) PROVE TypeInv'
  <2>1. job' = [job EXCEPT ![m] = [job[m] EXCEPT !.st = "waiting"]]
    BY <1>14 DEF Promote
  <2>2. /\ job[m] \in Jobs /\ Live(job[m]) /\ "waiting" \in LiveStates
    BY <1>14 DEF Promote, Live, LiveStates
  <2>3. /\ [job[m] EXCEPT !.st = "waiting"] \in Jobs
        /\ [job[m] EXCEPT !.st = "waiting"].st = "waiting"
        /\ [job[m] EXCEPT !.st = "waiting"].attempts = job[m].attempts
    BY <2>2, JobUpdates
  <2>4. /\ job' \in [Mails -> Jobs] /\ job'[m].st = "waiting" /\ job'[m].attempts < MaxAttempts
        /\ \A n \in Mails \ {m} : job'[n] = job[n]
    BY <2>1, <2>2, <2>3
  <2> QED BY <1>14, <2>4 DEF Promote, WorkerPcs, Live, LiveStates
<1>15. ASSUME NEW m \in Mails, Stall(m) PROVE TypeInv'
  BY <1>15, StallJobType DEF Stall, Live, LiveStates
<1>16. CASE Crash
  BY <1>16 DEF Crash, WorkerPcs, Requests, NoFolder
<1>17. ASSUME NEW m \in Mails, FindFolder(m) PROVE TypeInv'
  <2>1. /\ UNCHANGED <<requestVars, boxVars, job, mailVars, folders, making, recordVars, finding,
                      crashes>>
        /\ worker[m] = "find" /\ worker' \in [Mails -> WorkerPcs]
        /\ \A n \in Mails \ {m} : worker'[n] = worker[n]
    BY <1>17 DEF FindFolder, WorkerPcs
  <2>2. raced' \subseteq Mailboxes
    BY <1>17, SendAssumption DEF FindFolder, Misses
  <2>3. target' \in [Mails -> Nat]
    BY <1>17, SendAssumption DEF FindFolder, SentFolders
  <2> QED BY <2>1, <2>2, <2>3
<1>18. ASSUME NEW m \in Mails, CreateFolder(m) PROVE TypeInv'
  <2>1. MailboxOf[m] \in Mailboxes /\ folders[MailboxOf[m]] + 1 \in Nat
    BY SendAssumption
  <2>2. folders' \in [Mailboxes -> Nat] /\ target' \in [Mails -> Nat]
    BY <1>18, <2>1 DEF CreateFolder, NewFolder
  <2>3. worker[m] = "folder" /\ worker' = [worker EXCEPT ![m] = "store"]
    BY <1>18 DEF CreateFolder
  <2>4. worker' \in [Mails -> WorkerPcs] /\ WorkerHoldsJob'
    BY <1>18, <2>3 DEF CreateFolder, WorkerPcs
  <2> QED BY <1>18, <2>2, <2>4 DEF CreateFolder
<1>19. ASSUME NEW box \in Mailboxes, MissFolder(box) \/ MakeFolder(box) PROVE TypeInv'
  BY <1>19 DEF MissFolder, MakeFolder, Misses, NewFolder
<1>20. ASSUME NEW r \in records, Delete(r) PROVE TypeInv'
  BY <1>20 DEF Delete, Event, Records
<1>21. ASSUME NEW r \in records, NEW n \in Nat \cup OtherFolders, Move(r, n) PROVE TypeInv'
  <2>1. [r EXCEPT !.folder = n] \in Records
    BY RecordType
  <2>2. records' \subseteq Records /\ events' \in Nat
    BY <1>21, <2>1 DEF Move, Event
  <2> QED BY <1>21, <2>2 DEF Move
<1>22. CASE UNCHANGED vars
  BY <1>22 DEF vars
<1> QED BY <1>1, <1>2, <1>3, <1>4, <1>5, <1>6, <1>7, <1>8, <1>9, <1>10, <1>11, <1>12, <1>13,
     <1>14, <1>15, <1>16, <1>17, <1>18, <1>19, <1>20, <1>21, <1>22
     DEF Next, Process, SentFolders

\* A step that leaves the deliveries, the copies and the records alone keeps what
\* is said of them.
LEMMA CopiesKept ==
    ASSUME CopiesAreDeliveries, UNCHANGED <<delivered, remote>>, records' \subseteq records
    PROVE  CopiesAreDeliveries'
BY DEF CopiesAreDeliveries

\* A new delivery: the counter only grows.
LEMMA CopiesGrow ==
    ASSUME TypeOK, CopiesAreDeliveries, NEW m \in Mails, Accepted(m), UNCHANGED records
    PROVE  CopiesAreDeliveries'
<1>1. \A n \in Mails : delivered'[n] \in Nat /\ delivered[n] \in Nat /\ delivered[n] <= delivered'[n]
  BY AcceptedEffect DEF TypeOK
<1>2. ASSUME NEW copy \in remote' PROVE copy[2] <= delivered'[copy[1]]
  <2>1. copy \in Copies
    BY AcceptedEffect
  <2>2. CASE copy \in remote
    BY <1>1, <2>1, <2>2 DEF CopiesAreDeliveries, Copies
  <2>3. CASE copy = <<m, delivered[m] + 1>>
    BY <2>3, AcceptedEffect DEF TypeOK
  <2> QED BY <2>2, <2>3, AcceptedEffect
<1>3. ASSUME NEW r \in records PROVE r.copy[2] <= delivered'[r.copy[1]]
  <2>1. r.copy \in Copies
    BY DEF TypeOK, Records
  <2> QED BY <1>1, <2>1 DEF CopiesAreDeliveries, Copies
<1> QED BY <1>2, <1>3 DEF CopiesAreDeliveries

\* A row of an accepted copy that the index lets in, new or moved.
LEMMA CopiesRecorded ==
    ASSUME CopiesAreDeliveries, NEW record, ~Taken(record),
           record.copy[2] <= delivered[record.copy[1]],
           records' \subseteq records \cup {record}, UNCHANGED <<delivered, remote>>
    PROVE  CopiesAreDeliveries'
BY DEF CopiesAreDeliveries, Taken

\* A step that leaves the records alone and completes nothing.
LEMMA StoredStays ==
    ASSUME StoredBeforeDone, UNCHANGED <<boxes, records, deleted>>,
           \A m \in Mails :
              \/ /\ delivered'[m] = delivered[m]
                 /\ worker'[m] \in {"find", "folder", "store"}
                      => worker[m] \in {"find", "folder", "store"}
                 /\ worker'[m] = "done" \/ job'[m].st = "completed"
                      => worker[m] = "done" \/ job[m].st = "completed"
              \/ delivered'[m] > 0 /\ worker'[m] # "done" /\ job'[m].st # "completed"
    PROVE  StoredBeforeDone'
<1>1. \A m \in Mails : delivered'[m] = delivered[m] => (Kept(m) <=> Kept(m)')
  BY DEF Kept, LastCopy
<1>2. \A m \in Mails : Connected(m) <=> Connected(m)'
  BY DEF Connected
<1> QED BY <1>1, <1>2 DEF StoredBeforeDone

-----------------------------------------------------------------------------
(* The SENT folders.                                                       *)

\* Workers go on or stop; only Take starts one.
LEMMA WorkersGoOn ==
    ASSUME OneWorker, \A m \in Mails : worker'[m] # "idle" => worker[m] # "idle"
    PROVE  OneWorker'
BY DEF OneWorker

LEMMA OneWorkerNext == TypeInv /\ OneWorker /\ [Next]_vars => OneWorker'
<1> SUFFICES ASSUME TypeInv, OneWorker, [Next]_vars PROVE OneWorker'
  OBVIOUS
<1>1. ASSUME NEW m \in Mails, Take(m) PROVE OneWorker'
  <2>1. \A n \in Mails \ {m} : worker'[n] = "idle"
    BY <1>1 DEF Take, TypeInv, TypeOK
  <2> QED BY <2>1 DEF OneWorker
<1>2. ASSUME NEW m \in Mails,
             Upload(m) \/ Enqueue(m) \/ Refuse(m) \/ Promote(m) \/ Stall(m)
      PROVE  OneWorker'
  BY <1>2, WorkersGoOn DEF Upload, Enqueue, Refuse, Promote, Stall, queueVars
<1>3. ASSUME NEW m \in Mails, Process(m) PROVE OneWorker'
  <2>1. worker[m] # "idle" /\ \A n \in Mails \ {m} : worker'[n] = worker[n]
    BY <1>3 DEF Process, Prepare, Deliver, DeliverUnanswered, AttemptFails, FindFolder,
                CreateFolder, Store, Storable, Finish, Reject, TypeInv, TypeOK
  <2> QED BY <2>1, WorkersGoOn
<1>4. ASSUME NEW copy, NEW n, SyncFind(copy, n) \/ SyncCreate(copy, n) PROVE OneWorker'
  BY <1>4, WorkersGoOn DEF SyncFind, SyncCreate, queueVars
<1>5. ASSUME NEW box, MissFolder(box) \/ MakeFolder(box) \/ RemoveMailbox(box) PROVE OneWorker'
  BY <1>5, WorkersGoOn DEF MissFolder, MakeFolder, RemoveMailbox, queueVars
<1>6. ASSUME NEW r, NEW n, Move(r, n) \/ Delete(r) PROVE OneWorker'
  BY <1>6, WorkersGoOn DEF Move, Delete, queueVars
<1>7. CASE Crash \/ UNCHANGED vars
  BY <1>7, WorkersGoOn DEF Crash, vars, queueVars
<1> QED BY <1>1, <1>2, <1>3, <1>4, <1>5, <1>6, <1>7 DEF Next

\* Nobody comes to be about to create a folder.
LEMMA FoldersStay ==
    ASSUME TypeInv, FoldersMade, UNCHANGED <<boxes, folders, making, raced>>,
           \A m \in Mails : worker'[m] = "folder" => worker[m] = "folder"
    PROVE  FoldersMade'
<1>1. ASSUME NEW box \in Mailboxes
      PROVE  AtFolder(box) \in {0, 1} /\ AtFolder(box)' \in {0, 1} /\ AtFolder(box)' <= AtFolder(box)
  BY DEF AtFolder
<1>2. ASSUME NEW box \in Mailboxes
      PROVE  Prospects(box) \in Nat /\ Prospects(box)' \in Nat /\ Prospects(box)' <= Prospects(box)
  BY <1>1, <1>2 DEF Prospects, TypeInv, TypeOK
<1> QED BY <1>2, SendAssumption DEF FoldersMade

\* One more is about to create the folder.
LEMMA FoldersRaced ==
    ASSUME TypeInv, TypeInv', FoldersMade, NEW box \in Mailboxes, Misses(box),
           UNCHANGED <<boxes, folders>>, making'[box] <= MaxMakers,
           box \in boxes \/ making'[box] = making[box],
           making'[box] + AtFolder(box)' = making[box] + AtFolder(box) + 1,
           \A b \in Mailboxes \ {box} : making'[b] = making[b] /\ AtFolder(b)' = AtFolder(b)
    PROVE  FoldersMade'
<1>1. /\ folders[box] = 0 /\ MaxMakers \in Nat
      /\ making[box] \in Nat /\ making'[box] \in Nat
      /\ AtFolder(box) \in {0, 1} /\ AtFolder(box)' \in {0, 1}
  BY SendAssumption DEF Misses, AtFolder, TypeInv, TypeOK
<1>2. ASSUME NEW b \in Mailboxes \ {box}
      PROVE  Prospects(b)' = Prospects(b) /\ making'[b] = making[b] /\ (b \notin raced' => b \notin raced)
  BY DEF Prospects, Misses
<1>3. Prospects(box)' = making[box] + AtFolder(box) + 1 /\ Prospects(box)' = making'[box] + AtFolder(box)'
  BY <1>1 DEF Prospects
<1>4. Prospects(box)' <= MaxMakers + 1
  BY <1>1, <1>3
<1>5. box \notin raced' => Prospects(box)' <= 1
  <2> SUFFICES ASSUME box \notin raced' PROVE Prospects(box)' <= 1
    OBVIOUS
  <2>1. ~BeingMade(box)
    BY DEF Misses
  <2>2. making[box] = 0 /\ AtFolder(box) = 0
    BY <1>1, <2>1 DEF BeingMade, AtFolder
  <2> QED BY <1>3, <2>2
<1> QED BY <1>1, <1>2, <1>4, <1>5 DEF FoldersMade

\* A folder is created by one of those who were about to, or one of them gives up.
LEMMA FoldersCreated ==
    ASSUME TypeInv, TypeInv', FoldersMade, NEW box \in boxes, UNCHANGED <<boxes, raced>>,
           making'[box] <= making[box],
           folders'[box] + making'[box] + AtFolder(box)' <= folders[box] + making[box] + AtFolder(box),
           \A b \in Mailboxes \ {box} : /\ folders'[b] = folders[b] /\ making'[b] = making[b]
                                      /\ AtFolder(b)' = AtFolder(b)
    PROVE  FoldersMade'
<1>1. /\ box \in Mailboxes /\ MaxMakers \in Nat
      /\ folders[box] \in Nat /\ folders'[box] \in Nat /\ making[box] \in Nat /\ making'[box] \in Nat
      /\ AtFolder(box) \in {0, 1} /\ AtFolder(box)' \in {0, 1}
  BY SendAssumption DEF AtFolder, TypeInv, TypeOK
<1>2. ASSUME NEW b \in Mailboxes \ {box}
      PROVE  Prospects(b)' = Prospects(b) /\ making'[b] = making[b] /\ folders'[b] = folders[b]
  BY DEF Prospects
<1>3. /\ Prospects(box)' <= Prospects(box) /\ Prospects(box)' \in Nat /\ Prospects(box) \in Nat
  BY <1>1 DEF Prospects
<1> QED BY <1>1, <1>2, <1>3 DEF FoldersMade

LEMMA FoldersMadeNext ==
    TypeInv /\ TypeInv' /\ OneWorker /\ FoldersMade /\ [Next]_vars => FoldersMade'
<1> SUFFICES ASSUME TypeInv, TypeInv', OneWorker, FoldersMade, [Next]_vars PROVE FoldersMade'
  OBVIOUS
<1>a. \A m \in Mails : MailboxOf[m] \in Mailboxes
  BY SendAssumption
<1>b. \A box \in Mailboxes : folders[box] \in Nat /\ making[box] \in Nat
  BY DEF TypeInv, TypeOK
<1>1. ASSUME NEW m \in Mails,
             Upload(m) \/ Enqueue(m) \/ Refuse(m) \/ Promote(m) \/ Stall(m)
      PROVE  FoldersMade'
  BY <1>1, FoldersStay DEF Upload, Enqueue, Refuse, Promote, Stall, queueVars, boxVars, folderVars
<1>2. ASSUME NEW m \in Mails,
             \/ Take(m) \/ Prepare(m) \/ Deliver(m) \/ DeliverUnanswered(m) \/ AttemptFails(m)
             \/ Store(m) \/ Finish(m)
      PROVE  FoldersMade'
  <2>1. /\ UNCHANGED <<boxes, folders, making, raced>>
        /\ worker'[m] # "folder" /\ \A n \in Mails \ {m} : worker'[n] = worker[n]
    BY <1>2 DEF Take, Prepare, Deliver, DeliverUnanswered, AttemptFails, Store, Storable, Finish,
                Reject, boxVars, folderVars, TypeInv, TypeOK
  <2> QED BY <2>1, FoldersStay
<1>3. ASSUME NEW copy, NEW n, SyncFind(copy, n) \/ SyncCreate(copy, n) PROVE FoldersMade'
  BY <1>3, FoldersStay DEF SyncFind, SyncCreate, queueVars, boxVars, folderVars
<1>4. ASSUME NEW r, NEW n, Move(r, n) \/ Delete(r) PROVE FoldersMade'
  BY <1>4, FoldersStay DEF Move, Delete, queueVars, boxVars, folderVars
<1>5. ASSUME NEW m \in Mails, FindFolder(m) PROVE FoldersMade'
  <2>1. /\ UNCHANGED <<boxes, folders, making>> /\ worker[m] = "find"
        /\ \A n \in Mails \ {m} : worker'[n] = worker[n]
    BY <1>5 DEF FindFolder, boxVars, TypeInv, TypeOK
  <2>2. CASE UNCHANGED raced /\ worker' = [worker EXCEPT ![m] = "store"]
    <3>1. \A n \in Mails : worker'[n] = "folder" => worker[n] = "folder"
      BY <2>1, <2>2 DEF TypeInv, TypeOK
    <3> QED BY <2>1, <2>2, <3>1, FoldersStay
  <2>3. CASE Misses(MailboxOf[m]) /\ worker' = [worker EXCEPT ![m] = "folder"]
    <3>1. \A n \in Mails : worker[n] # "folder"
      BY <2>1 DEF OneWorker
    <3>2. worker'[m] = "folder" /\ \A n \in Mails \ {m} : worker'[n] # "folder"
      BY <2>1, <2>3, <3>1 DEF TypeInv, TypeOK
    <3>3. \A b \in Mailboxes : /\ AtFolder(b) = 0
                             /\ AtFolder(b)' = IF b = MailboxOf[m] THEN 1 ELSE 0
      BY <3>1, <3>2 DEF AtFolder
    <3>4. making[MailboxOf[m]] <= MaxMakers
      BY <1>a DEF FoldersMade
    <3>5. making'[MailboxOf[m]] + AtFolder(MailboxOf[m])' = making[MailboxOf[m]] + AtFolder(MailboxOf[m]) + 1
      BY <1>a, <1>b, <2>1, <3>3
    <3> QED BY <1>a, <2>1, <2>3, <3>3, <3>4, <3>5, FoldersRaced
  <2> QED BY <1>5, <2>2, <2>3 DEF FindFolder
<1>6. ASSUME NEW m \in Mails, CreateFolder(m) PROVE FoldersMade'
  <2>1. /\ UNCHANGED <<boxes, raced>> /\ worker[m] = "folder" /\ MailboxOf[m] \in boxes
        /\ folders' = [folders EXCEPT ![MailboxOf[m]] = @ + 1]
        /\ making' = making /\ worker'[m] = "store"
        /\ \A n \in Mails \ {m} : worker'[n] = worker[n]
    BY <1>6 DEF CreateFolder, NewFolder, Connected, boxVars, TypeInv, TypeOK
  <2>2. \A n \in Mails \ {m} : worker[n] # "folder" /\ worker'[n] # "folder"
    BY <2>1 DEF OneWorker
  <2>3. \A b \in Mailboxes : /\ AtFolder(b) = IF b = MailboxOf[m] THEN 1 ELSE 0
                           /\ AtFolder(b)' = 0
    BY <2>1, <2>2 DEF AtFolder
  <2>4. /\ folders'[MailboxOf[m]] = folders[MailboxOf[m]] + 1
        /\ \A b \in Mailboxes \ {MailboxOf[m]} : folders'[b] = folders[b]
    BY <1>a, <2>1 DEF TypeInv, TypeOK
  <2>5. making'[MailboxOf[m]] <= making[MailboxOf[m]]
    BY <1>a, <1>b, <2>1
  <2>6. folders'[MailboxOf[m]] + making'[MailboxOf[m]] + AtFolder(MailboxOf[m])'
          <= folders[MailboxOf[m]] + making[MailboxOf[m]] + AtFolder(MailboxOf[m])
    BY <1>a, <1>b, <2>1, <2>3, <2>4
  <2> QED BY <1>a, <2>1, <2>3, <2>4, <2>5, <2>6, FoldersCreated
<1>7. ASSUME NEW box \in Mailboxes, MissFolder(box) PROVE FoldersMade'
  <2>1. /\ UNCHANGED <<boxes, folders, worker>> /\ box \in boxes /\ making[box] < MaxMakers
        /\ Misses(box) /\ making' = [making EXCEPT ![box] = @ + 1]
    BY <1>7 DEF MissFolder, queueVars, boxVars
  <2>2. /\ \A b \in Mailboxes : AtFolder(b)' = AtFolder(b)
        /\ AtFolder(box) \in {0, 1}
    BY <2>1 DEF AtFolder
  <2>3. /\ making'[box] = making[box] + 1 /\ making'[box] <= MaxMakers
        /\ \A b \in Mailboxes \ {box} : making'[b] = making[b]
    BY <1>b, <2>1, SendAssumption DEF TypeInv, TypeOK
  <2>4. making'[box] + AtFolder(box)' = making[box] + AtFolder(box) + 1
    BY <1>b, <2>2, <2>3
  <2> QED BY <2>1, <2>2, <2>3, <2>4, FoldersRaced
<1>8. ASSUME NEW box \in Mailboxes, MakeFolder(box) PROVE FoldersMade'
  <2>1. /\ UNCHANGED <<boxes, raced, worker>> /\ making[box] > 0
        /\ making' = [making EXCEPT ![box] = @ - 1]
        /\ UNCHANGED folders \/ folders' = [folders EXCEPT ![box] = @ + 1]
    BY <1>8 DEF MakeFolder, NewFolder, queueVars, boxVars
  <2>2. box \in boxes
    BY <1>b, <2>1 DEF FoldersMade
  <2>3. /\ \A b \in Mailboxes : AtFolder(b)' = AtFolder(b)
        /\ AtFolder(box) \in {0, 1}
    BY <2>1 DEF AtFolder
  <2>4. /\ making'[box] = making[box] - 1 /\ folders'[box] \in {folders[box], folders[box] + 1}
        /\ \A b \in Mailboxes \ {box} : making'[b] = making[b] /\ folders'[b] = folders[b]
    BY <2>1 DEF TypeInv, TypeOK
  <2>5. /\ making'[box] <= making[box]
        /\ folders'[box] + making'[box] + AtFolder(box)' <= folders[box] + making[box] + AtFolder(box)
    BY <1>b, <2>3, <2>4
  <2> QED BY <2>1, <2>2, <2>3, <2>4, <2>5, FoldersCreated
<1>9. ASSUME NEW box \in Mailboxes, RemoveMailbox(box) PROVE FoldersMade'
  <2>1. /\ UNCHANGED <<raced, worker>> /\ boxes' = boxes \ {box}
        /\ folders' = [folders EXCEPT ![box] = 0] /\ making' = [making EXCEPT ![box] = 0]
    BY <1>9 DEF RemoveMailbox, queueVars
  <2>2. \A b \in Mailboxes : AtFolder(b) \in {0, 1} /\ AtFolder(b)' = AtFolder(b)
    BY <2>1 DEF AtFolder
  <2>3. /\ folders'[box] = 0 /\ making'[box] = 0 /\ Prospects(box)' <= 1
    BY <1>b, <2>1, <2>2 DEF Prospects, TypeInv, TypeOK
  <2>4. Prospects(box)' \in Nat
    BY <1>b, <2>1, <2>2 DEF Prospects, TypeInv, TypeOK
  <2>5. \A b \in Mailboxes \ {box} : /\ Prospects(b)' = Prospects(b) /\ making'[b] = making[b]
                                   /\ folders'[b] = folders[b]
    BY <2>1, <2>2 DEF Prospects, TypeInv, TypeOK
  <2> QED BY <2>1, <2>3, <2>4, <2>5, SendAssumption DEF FoldersMade
<1>10. CASE Crash
  <2>1. /\ UNCHANGED <<raced, boxes, folders>> /\ making' = [box \in Mailboxes |-> 0]
        /\ \A m \in Mails : worker'[m] = "idle"
    BY <1>10 DEF Crash, boxVars
  <2>2. \A b \in Mailboxes : AtFolder(b) \in {0, 1} /\ AtFolder(b)' = 0 /\ making'[b] = 0
    BY <2>1 DEF AtFolder
  <2>3. \A b \in Mailboxes : /\ Prospects(b)' \in Nat /\ Prospects(b) \in Nat
                           /\ Prospects(b)' <= Prospects(b)
    BY <1>b, <2>1, <2>2 DEF Prospects
  <2> QED BY <2>1, <2>2, <2>3, SendAssumption DEF FoldersMade
<1>11. CASE UNCHANGED vars
  BY <1>11, FoldersStay DEF vars, queueVars, boxVars, folderVars
<1> QED BY <1>1, <1>2, <1>3, <1>4, <1>5, <1>6, <1>7, <1>8, <1>9, <1>10, <1>11 DEF Next, Process

\* Folders stay or come, and what speaks of them is kept or goes.
LEMMA FoldersStayKnown ==
    ASSUME TypeInv, FoldersKnown, boxes' = boxes, folders' \in [Mailboxes -> Nat],
           \A box \in Mailboxes : folders[box] <= folders'[box],
           \A m \in Mails : worker'[m] = "store" => worker[m] = "store" /\ target'[m] = target[m],
           finding' \subseteq finding, records' \subseteq records
    PROVE  FoldersKnown'
<1>1. \A box \in Mailboxes : SentFolders(box) \subseteq SentFolders(box)'
  BY DEF SentFolders, TypeInv, TypeOK
<1>2. \A m \in Mails : MailboxOf[m] \in Mailboxes
  BY SendAssumption
<1>3. \A m \in Mails : worker'[m] = "store" /\ Connected(m)'
                      => target'[m] \in SentFolders(MailboxOf[m])'
  BY <1>1, <1>2 DEF FoldersKnown, Connected
<1>4. \A found \in finding' : found[2] \in SentFolders(BoxOf(found[1]))'
  BY <1>1, <1>2 DEF FoldersKnown, BoxOf, TypeInv, TypeOK, Copies
<1>5. \A r \in records' : r.folder \in SentFolders(BoxOf(r.copy))' \cup OtherFolders
  BY <1>1, <1>2 DEF FoldersKnown, BoxOf, TypeInv, TypeOK, Records, Copies
<1> QED BY <1>3, <1>4, <1>5 DEF FoldersKnown, BoxOf

LEMMA FoldersKnownNext == TypeInv /\ TypeInv' /\ FoldersKnown /\ [Next]_vars => FoldersKnown'
<1> SUFFICES ASSUME TypeInv, TypeInv', FoldersKnown, [Next]_vars PROVE FoldersKnown'
  OBVIOUS
<1>a. /\ folders \in [Mailboxes -> Nat] /\ folders' \in [Mailboxes -> Nat]
      /\ UNCHANGED folders => \A box \in Mailboxes : folders[box] <= folders'[box]
  BY DEF TypeInv, TypeOK
<1>b. \A m \in Mails : MailboxOf[m] \in Mailboxes
  BY SendAssumption
<1>1. ASSUME NEW m \in Mails,
             Upload(m) \/ Enqueue(m) \/ Refuse(m) \/ Promote(m) \/ Stall(m)
      PROVE  FoldersKnown'
  BY <1>1, <1>a, FoldersStayKnown
     DEF Upload, Enqueue, Refuse, Promote, Stall, queueVars, boxVars, folderVars, recordVars
<1>2. ASSUME NEW m \in Mails,
             \/ Take(m) \/ Prepare(m) \/ Deliver(m) \/ DeliverUnanswered(m) \/ AttemptFails(m)
             \/ Finish(m)
      PROVE  FoldersKnown'
  <2>1. /\ UNCHANGED <<boxes, folders, finding, records>> /\ worker'[m] # "store"
        /\ \A n \in Mails \ {m} : worker'[n] = worker[n] /\ target'[n] = target[n]
    BY <1>2 DEF Take, Prepare, Deliver, DeliverUnanswered, AttemptFails, Finish, Reject, boxVars,
                folderVars, recordVars, TypeInv, TypeOK
  <2> QED BY <1>a, <2>1, FoldersStayKnown
<1>3. ASSUME NEW m \in Mails, FindFolder(m) PROVE FoldersKnown'
  <2>1. /\ UNCHANGED <<boxes, folders, finding, records>> /\ worker[m] = "find"
        /\ \A n \in Mails \ {m} : worker'[n] = worker[n] /\ target'[n] = target[n]
        /\ worker'[m] = "store" => target'[m] \in SentFolders(MailboxOf[m])
    BY <1>3 DEF FindFolder, boxVars, recordVars, TypeInv, TypeOK
  <2> QED BY <2>1 DEF FoldersKnown, Connected, SentFolders, BoxOf
<1>4. ASSUME NEW m \in Mails, CreateFolder(m) PROVE FoldersKnown'
  <2>1. /\ UNCHANGED <<boxes, finding, records>>
        /\ folders' = [folders EXCEPT ![MailboxOf[m]] = folders[MailboxOf[m]] + 1]
        /\ target'[m] = folders[MailboxOf[m]] + 1
        /\ \A n \in Mails \ {m} : worker'[n] = worker[n] /\ target'[n] = target[n]
    BY <1>4 DEF CreateFolder, NewFolder, boxVars, recordVars, TypeInv, TypeOK
  <2>2. \A box \in Mailboxes : SentFolders(box) \subseteq SentFolders(box)'
    BY <1>a, <1>b, <2>1 DEF SentFolders
  <2>3. target'[m] \in SentFolders(MailboxOf[m])'
    BY <1>a, <1>b, <2>1 DEF SentFolders
  <2>4. \A n \in Mails : worker'[n] = "store" /\ Connected(n)'
                        => target'[n] \in SentFolders(MailboxOf[n])'
    BY <1>b, <2>1, <2>2, <2>3 DEF FoldersKnown, Connected
  <2>5. \A found \in finding' : found[2] \in SentFolders(BoxOf(found[1]))'
    BY <1>b, <2>1, <2>2 DEF FoldersKnown, BoxOf, TypeInv, TypeOK, Copies
  <2>6. \A r \in records' : r.folder \in SentFolders(BoxOf(r.copy))' \cup OtherFolders
    BY <1>b, <2>1, <2>2 DEF FoldersKnown, BoxOf, TypeInv, TypeOK, Records, Copies
  <2> QED BY <2>4, <2>5, <2>6 DEF FoldersKnown, BoxOf
<1>5. ASSUME NEW m \in Mails, Store(m) PROVE FoldersKnown'
  <2>1. /\ UNCHANGED <<boxes, folders, finding>> /\ worker[m] = "store" /\ Connected(m)
        /\ worker'[m] = "done" /\ records' = records \cup {SentRecord(m)}
        /\ \A n \in Mails \ {m} : worker'[n] = worker[n] /\ target'[n] = target[n]
    BY <1>5 DEF Store, Storable, boxVars, folderVars, TypeInv, TypeOK
  <2>2. SentRecord(m).folder \in SentFolders(BoxOf(SentRecord(m).copy))
    BY <2>1 DEF FoldersKnown, SentRecord, BoxOf, LastCopy
  <2> QED BY <2>1, <2>2 DEF FoldersKnown, Connected, SentFolders, BoxOf
<1>6. ASSUME NEW copy \in remote, NEW n \in SentFolders(MailboxOf[copy[1]]), SyncFind(copy, n)
      PROVE  FoldersKnown'
  <2>1. /\ UNCHANGED <<boxes, folders, worker, target, records>>
        /\ finding' = finding \cup {<<copy, n>>}
    BY <1>6 DEF SyncFind, boxVars, folderVars, recordVars, queueVars
  <2> QED BY <2>1 DEF FoldersKnown, Connected, SentFolders, BoxOf
<1>7. ASSUME NEW found \in finding, SyncCreate(found[1], found[2]) PROVE FoldersKnown'
  <2>1. /\ UNCHANGED <<boxes, folders, worker, target>> /\ finding' \subseteq finding
        /\ records' \subseteq records \cup {SyncRecord(found[1], found[2])}
    BY <1>7 DEF SyncCreate, boxVars, folderVars, queueVars
  <2>2. LET r == SyncRecord(found[1], found[2]) IN r.folder \in SentFolders(BoxOf(r.copy))
    BY DEF FoldersKnown, SyncRecord, BoxOf
  <2> QED BY <2>1, <2>2 DEF FoldersKnown, Connected, SentFolders, BoxOf
<1>8. ASSUME NEW box \in Mailboxes, MissFolder(box) \/ MakeFolder(box) PROVE FoldersKnown'
  <2>1. /\ UNCHANGED <<boxes, finding, records, worker, target>>
        /\ UNCHANGED folders \/ folders' = [folders EXCEPT ![box] = folders[box] + 1]
    BY <1>8 DEF MissFolder, MakeFolder, NewFolder, boxVars, recordVars, queueVars
  <2>2. \A b \in Mailboxes : folders[b] <= folders'[b]
    BY <1>a, <2>1
  <2> QED BY <1>a, <2>1, <2>2, FoldersStayKnown
<1>9. ASSUME NEW r \in records,
             NEW n \in SentFolders(MailboxOf[r.copy[1]]) \cup OtherFolders, Move(r, n)
      PROVE  FoldersKnown'
  <2>1. /\ UNCHANGED <<boxes, folders, finding, worker, target>>
        /\ records' \subseteq records \cup {[r EXCEPT !.folder = n]}
    BY <1>9 DEF Move, boxVars, folderVars, queueVars
  <2>2. /\ [r EXCEPT !.folder = n].folder = n /\ [r EXCEPT !.folder = n].copy = r.copy
    BY <1>a, <1>b, RecordType DEF TypeInv, TypeOK, SentFolders
  <2> QED BY <2>1, <2>2 DEF FoldersKnown, Connected, SentFolders, BoxOf
<1>10. ASSUME NEW r \in records, Delete(r) PROVE FoldersKnown'
  BY <1>10, <1>a, FoldersStayKnown DEF Delete, boxVars, folderVars, queueVars
<1>11. ASSUME NEW box \in Mailboxes, RemoveMailbox(box) PROVE FoldersKnown'
  <2>1. /\ UNCHANGED <<worker, target>> /\ boxes' = boxes \ {box}
        /\ folders' = [folders EXCEPT ![box] = 0]
        /\ records' = {r \in records : MailboxOf[r.copy[1]] # box}
        /\ finding' = {found \in finding : MailboxOf[found[1][1]] # box}
    BY <1>11 DEF RemoveMailbox, queueVars
  <2>2. \A b \in Mailboxes \ {box} : SentFolders(b)' = SentFolders(b)
    BY <1>a, <2>1 DEF SentFolders
  <2>3. \A n \in Mails : worker'[n] = "store" /\ Connected(n)'
                        => target'[n] \in SentFolders(MailboxOf[n])'
    BY <1>b, <2>1, <2>2 DEF FoldersKnown, Connected
  <2>4. \A found \in finding' : found[2] \in SentFolders(BoxOf(found[1]))'
    BY <1>b, <2>1, <2>2 DEF FoldersKnown, BoxOf, TypeInv, TypeOK, Copies
  <2>5. \A r \in records' : r.folder \in SentFolders(BoxOf(r.copy))' \cup OtherFolders
    BY <1>b, <2>1, <2>2 DEF FoldersKnown, BoxOf, TypeInv, TypeOK, Records, Copies
  <2> QED BY <2>3, <2>4, <2>5 DEF FoldersKnown, BoxOf
<1>12. CASE Crash
  BY <1>12, <1>a, FoldersStayKnown DEF Crash, boxVars, recordVars
<1>13. CASE UNCHANGED vars
  BY <1>13, <1>a, FoldersStayKnown DEF vars, boxVars, folderVars, recordVars, queueVars
<1> QED BY <1>1, <1>2, <1>3, <1>4, <1>5, <1>6, <1>7, <1>8, <1>9, <1>10, <1>11, <1>12, <1>13
        DEF Next, Process

-----------------------------------------------------------------------------
LEMMA SendInvNext == SendInv /\ [Next]_vars => SendInv'
<1> DEFINE Rest == DeliveriesPaid /\ StoredBeforeDone /\ CopiesAreDeliveries /\ RecordedIsOver
<1> SUFFICES ASSUME SendInv, TypeInv', [Next]_vars PROVE Rest'
  BY TypeInvNext, OneWorkerNext, FoldersMadeNext, FoldersKnownNext DEF SendInv
<1> USE DEF SendInv, TypeInv, TypeOK, WorkerHoldsJob, AttemptsLeft, requestVars, boxVars, queueVars,
            mailVars, folderVars, recordVars
<1>a. \A m \in Mails : job[m] \in Jobs /\ worker[m] \in WorkerPcs /\ delivered[m] \in Nat
  OBVIOUS
<1>1. ASSUME NEW m \in Mails, Upload(m) \/ Refuse(m) PROVE Rest'
  BY <1>1, CopiesKept, StoredStays DEF Upload, Refuse, DeliveriesPaid, RecordedIsOver
<1>2. ASSUME NEW m \in Mails, Enqueue(m) PROVE Rest'
  <2>1. UNCHANGED <<boxes, worker, delivered, remote, records, deleted, crashes>>
    BY <1>2 DEF Enqueue
  <2>2. job'[m] = AddJob(job[m], "send") /\ \A n \in Mails \ {m} : job'[n] = job[n]
    BY <1>2 DEF Enqueue
  <2>3. DeliveriesPaid'
    BY <1>a, <2>1, <2>2, AddJobType, JobUpdates DEF DeliveriesPaid
  <2>4. StoredBeforeDone'
    BY <1>a, <2>1, <2>2, AddJobType, StoredStays
  <2>5. RecordedIsOver'
    BY <1>a, <2>1, <2>2, AddJobType DEF RecordedIsOver
  <2> QED BY <2>1, <2>3, <2>4, <2>5, CopiesKept
<1>3. ASSUME NEW m \in Mails, Take(m) PROVE Rest'
  <2>1. /\ UNCHANGED <<boxes, delivered, remote, records, deleted, crashes>>
        /\ job[m].st = "waiting" /\ worker'[m] = "read"
        /\ job'[m] = [job[m] EXCEPT !.st = "active"]
        /\ \A n \in Mails \ {m} : job'[n] = job[n] /\ worker'[n] = worker[n]
    BY <1>3 DEF Take
  <2>2. job'[m].st = "active" /\ job'[m].attempts = job[m].attempts /\ job'[m].stalls = job[m].stalls
    BY <1>a, <2>1, JobUpdates DEF LiveStates
  <2>a. \A n \in Mails : job[n].attempts \in Nat /\ job[n].stalls \in Nat
    BY <1>a, JobUpdates
  <2>b. delivered[m] <= job[m].attempts + job[m].stalls /\ delivered[m] <= MaxAttempts + MaxStalled
    BY <2>1 DEF DeliveriesPaid
  <2>3. DeliveriesPaid'
    <3>1. delivered' = delivered /\ \A n \in Mails \ {m} : job'[n] = job[n] /\ worker'[n] = worker[n]
      BY <2>1
    <3> QED BY <1>a, <2>a, <2>b, <3>1, <2>2 DEF DeliveriesPaid
  <2>4. StoredBeforeDone'
    BY <2>1, <2>2, StoredStays
  <2>5. RecordedIsOver'
    <3>1. /\ UNCHANGED <<records, deleted, crashes>> /\ job[m].st = "waiting" /\ worker'[m] = "read"
          /\ \A n \in Mails \ {m} : job'[n] = job[n] /\ worker'[n] = worker[n]
      BY <2>1
    <3>2. worker[m] = "idle"
      BY <3>1
    <3> QED BY <2>2, <3>1, <3>2 DEF RecordedIsOver
  <2> QED BY <2>1, <2>3, <2>4, <2>5, CopiesKept
<1>4. ASSUME NEW m \in Mails, Prepare(m) PROVE Rest'
  BY <1>4, CopiesKept, StoredStays DEF Prepare, DeliveriesPaid, RecordedIsOver
<1>5. ASSUME NEW m \in Mails, Deliver(m) PROVE Rest'
  <2>1. /\ UNCHANGED <<boxes, job, records, deleted, crashes>>
        /\ worker[m] = "send" /\ worker'[m] = "find" /\ job[m].st = "active"
        /\ \A n \in Mails \ {m} : worker'[n] = worker[n]
    BY <1>5 DEF Deliver
  <2>2. /\ delivered'[m] = delivered[m] + 1
        /\ \A n \in Mails \ {m} : delivered'[n] = delivered[n]
    BY <1>5, AcceptedEffect DEF Deliver
  <2>3. delivered[m] <= job[m].attempts + job[m].stalls /\ job[m].attempts < MaxAttempts
    BY <2>1 DEF DeliveriesPaid, Live, LiveStates
  <2>4. DeliveriesPaid'
    BY <1>a, <2>1, <2>2, <2>3, JobUpdates, QueueAssumption DEF DeliveriesPaid
  <2>5. StoredBeforeDone'
    BY <1>a, <2>1, <2>2, StoredStays
  <2>6. RecordedIsOver'
    BY <2>1 DEF RecordedIsOver
  <2> QED BY <1>5, <2>1, <2>4, <2>5, <2>6, CopiesGrow DEF Deliver
<1>6. ASSUME NEW m \in Mails, DeliverUnanswered(m) PROVE Rest'
  <2>1. UNCHANGED <<boxes, records, deleted, crashes>> /\ worker[m] = "send" /\ job[m].st = "active"
    BY <1>6 DEF DeliverUnanswered
  <2>2. /\ delivered'[m] = delivered[m] + 1
        /\ \A n \in Mails \ {m} : delivered'[n] = delivered[n]
    BY <1>6, AcceptedEffect DEF DeliverUnanswered
  <2>3. /\ job'[m].attempts = job[m].attempts + 1 /\ job'[m].stalls = job[m].stalls
        /\ job'[m].st \in {"delayed", "failed"} /\ worker'[m] = "idle"
        /\ \A n \in Mails \ {m} : job'[n] = job[n] /\ worker'[n] = worker[n]
    BY <1>6, <2>1, RejectEffect DEF DeliverUnanswered
  <2>4. delivered[m] <= job[m].attempts + job[m].stalls /\ job[m].attempts < MaxAttempts
    BY <2>1 DEF DeliveriesPaid, Live, LiveStates
  <2>5. DeliveriesPaid'
    BY <1>a, <2>1, <2>2, <2>3, <2>4, JobUpdates, QueueAssumption DEF DeliveriesPaid
  <2>6. StoredBeforeDone'
    BY <1>a, <2>1, <2>2, <2>3, StoredStays
  <2>7. RecordedIsOver'
    BY <2>1, <2>3 DEF RecordedIsOver
  <2> QED BY <1>6, <2>1, <2>5, <2>6, <2>7, CopiesGrow DEF DeliverUnanswered
<1>7. ASSUME NEW m \in Mails, AttemptFails(m) PROVE Rest'
  <2>1. /\ UNCHANGED <<boxes, delivered, remote, records, deleted, crashes>>
        /\ worker[m] \in {"read", "send", "find", "folder", "store"} /\ job[m].st = "active"
    BY <1>7 DEF AttemptFails
  <2>2. /\ job'[m].attempts = job[m].attempts + 1 /\ job'[m].stalls = job[m].stalls
        /\ job'[m].st \in {"delayed", "failed"} /\ worker'[m] = "idle"
        /\ \A n \in Mails \ {m} : job'[n] = job[n] /\ worker'[n] = worker[n]
    BY <1>7, <2>1, RejectEffect DEF AttemptFails
  <2>3. DeliveriesPaid'
    BY <1>a, <2>1, <2>2, JobUpdates, QueueAssumption DEF DeliveriesPaid
  <2>4. StoredBeforeDone'
    BY <2>1, <2>2, StoredStays
  <2>5. RecordedIsOver'
    BY <2>1, <2>2 DEF RecordedIsOver
  <2> QED BY <2>1, <2>3, <2>4, <2>5, CopiesKept
<1>8. ASSUME NEW m \in Mails, Store(m) PROVE Rest'
  <2>1. /\ UNCHANGED <<boxes, job, delivered, remote, deleted, crashes>>
        /\ worker[m] = "store" /\ worker'[m] = "done" /\ job[m].st = "active"
        /\ \A n \in Mails \ {m} : worker'[n] = worker[n]
        /\ ~Taken(SentRecord(m)) /\ records' = records \cup {SentRecord(m)}
    BY <1>8 DEF Store, Storable
  <2>2. delivered[m] > 0
    BY <2>1 DEF StoredBeforeDone
  <2>3. SentRecord(m).copy = <<m, delivered[m]>> /\ SentRecord(m).by = "send"
    BY DEF SentRecord, LastCopy
  <2>4. DeliveriesPaid'
    BY <2>1 DEF DeliveriesPaid
  <2>5. StoredBeforeDone'
    BY <2>1, <2>2, <2>3 DEF StoredBeforeDone, Connected, Kept, LastCopy
  <2>6. RecordedIsOver'
    BY <2>1, <2>3 DEF RecordedIsOver
  <2>7. SentRecord(m).copy[2] <= delivered[SentRecord(m).copy[1]]
    BY <1>a, <2>3
  <2> QED BY <2>1, <2>4, <2>5, <2>6, <2>7, CopiesRecorded
<1>9. ASSUME NEW m \in Mails, Finish(m) PROVE Rest'
  <2>1. /\ UNCHANGED <<boxes, delivered, remote, records, deleted, crashes>>
        /\ worker[m] = "done" /\ worker'[m] = "idle" /\ job[m].st = "active"
        /\ job'[m] = CompleteJob(job[m])
        /\ \A n \in Mails \ {m} : job'[n] = job[n] /\ worker'[n] = worker[n]
    BY <1>9 DEF Finish
  <2>2. job'[m].st = "completed"
    BY <1>a, <2>1, JobUpdates
  <2>3. DeliveriesPaid'
    BY <2>1, <2>2 DEF DeliveriesPaid
  <2>4. StoredBeforeDone'
    BY <2>1, <2>2 DEF StoredBeforeDone, Connected, Kept, LastCopy
  <2>5. RecordedIsOver'
    BY <2>1, <2>2 DEF RecordedIsOver
  <2> QED BY <2>1, <2>3, <2>4, <2>5, CopiesKept
<1>10. ASSUME NEW copy, NEW n, SyncFind(copy, n) PROVE Rest'
  BY <1>10, CopiesKept, StoredStays DEF SyncFind, DeliveriesPaid, RecordedIsOver
<1>11. ASSUME NEW found \in finding, SyncCreate(found[1], found[2]) PROVE Rest'
  <2> DEFINE record == SyncRecord(found[1], found[2])
  <2>1. UNCHANGED <<boxes, job, worker, delivered, remote, deleted, crashes>>
    BY <1>11 DEF SyncCreate
  <2>2. CASE UNCHANGED records
    BY <2>1, <2>2, CopiesKept, StoredStays DEF DeliveriesPaid, RecordedIsOver
  <2>3. CASE ~Taken(record) /\ records' = records \cup {record}
    <3>1. record.copy = found[1] /\ record.by = "sync" /\ found[1] \in remote
      BY DEF SyncRecord
    <3>2. record.copy[2] <= delivered[record.copy[1]]
      BY <3>1 DEF CopiesAreDeliveries
    <3>3. DeliveriesPaid' /\ StoredBeforeDone'
      BY <2>1, <2>3 DEF DeliveriesPaid, StoredBeforeDone, Connected, Kept, LastCopy
    <3>4. RecordedIsOver'
      BY <2>1, <2>3, <3>1 DEF RecordedIsOver
    <3> QED BY <2>1, <2>3, <3>2, <3>3, <3>4, CopiesRecorded
  <2> QED BY <1>11, <2>2, <2>3 DEF SyncCreate
<1>12. ASSUME NEW box \in Mailboxes, RemoveMailbox(box) PROVE Rest'
  <2>1. /\ UNCHANGED <<job, worker, delivered, remote, deleted, crashes>>
        /\ boxes' = boxes \ {box} /\ records' = {r \in records : MailboxOf[r.copy[1]] # box}
    BY <1>12 DEF RemoveMailbox
  <2>2. StoredBeforeDone'
    <3>1. \A m \in Mails : Connected(m)' => Connected(m) /\ MailboxOf[m] # box
      BY <2>1 DEF Connected
    <3>2. \A m \in Mails : MailboxOf[m] # box /\ Kept(m) => Kept(m)'
      BY <2>1 DEF Kept, LastCopy
    <3> QED BY <2>1, <3>1, <3>2 DEF StoredBeforeDone
  <2>3. CopiesAreDeliveries'
    BY <2>1, CopiesKept
  <2> QED BY <2>1, <2>2, <2>3 DEF DeliveriesPaid, RecordedIsOver
<1>13. ASSUME NEW m \in Mails, Promote(m) PROVE Rest'
  <2>1. /\ UNCHANGED <<boxes, worker, delivered, remote, records, deleted, crashes>>
        /\ job[m].st = "delayed" /\ job'[m] = [job[m] EXCEPT !.st = "waiting"]
        /\ \A n \in Mails \ {m} : job'[n] = job[n]
    BY <1>13 DEF Promote
  <2>2. job'[m].st = "waiting" /\ job'[m].attempts = job[m].attempts /\ job'[m].stalls = job[m].stalls
    BY <1>a, <2>1, JobUpdates DEF LiveStates
  <2>3. DeliveriesPaid'
    <3>1. /\ delivered' = delivered /\ worker' = worker /\ worker[m] = "idle"
          /\ delivered[m] <= job[m].attempts + job[m].stalls /\ job[m].st # "none"
          /\ delivered[m] <= MaxAttempts + MaxStalled
          /\ \A n \in Mails \ {m} : job'[n] = job[n]
      BY <1>a, <2>1 DEF DeliveriesPaid
    <3>2. job[m].attempts \in Nat /\ job[m].stalls \in Nat
      BY <1>a, JobUpdates
    <3> QED BY <1>a, <2>2, <3>1, <3>2 DEF DeliveriesPaid
  <2>4. StoredBeforeDone'
    BY <2>1, <2>2, StoredStays
  <2>5. RecordedIsOver'
    <3>1. /\ UNCHANGED <<worker, records, deleted, crashes>> /\ job[m].st = "delayed"
          /\ \A n \in Mails \ {m} : job'[n] = job[n]
      BY <2>1
    <3>2. worker[m] = "idle"
      BY <3>1
    <3> QED BY <2>2, <3>1, <3>2 DEF RecordedIsOver
  <2> QED BY <2>1, <2>3, <2>4, <2>5, CopiesKept
<1>14. ASSUME NEW m \in Mails, Stall(m) PROVE Rest'
  <2>1. /\ UNCHANGED <<boxes, worker, delivered, remote, records, deleted, crashes>>
        /\ job[m].st = "active" /\ worker[m] = "idle" /\ job'[m] = StallJob(job[m])
        /\ \A n \in Mails \ {m} : job'[n] = job[n]
    BY <1>14 DEF Stall
  <2>2. /\ job'[m].attempts = job[m].attempts
        /\ \/ job'[m].st = "waiting" /\ job'[m].stalls = job[m].stalls + 1
           \/ job'[m].st = "failed" /\ job'[m].stalls = job[m].stalls
    BY <1>a, <2>1, StallJobType
  <2>3. DeliveriesPaid'
    BY <1>a, <2>1, <2>2, JobUpdates DEF DeliveriesPaid
  <2>4. StoredBeforeDone'
    BY <2>1, <2>2, StoredStays
  <2>5. RecordedIsOver'
    BY <2>1, <2>2 DEF RecordedIsOver
  <2> QED BY <2>1, <2>3, <2>4, <2>5, CopiesKept
<1>15. CASE Crash
  <2>1. /\ UNCHANGED <<boxes, job, delivered, remote, records, deleted>>
        /\ \A m \in Mails : worker'[m] = "idle"
        /\ crashes' = crashes + 1 /\ crashes \in Nat
    BY <1>15 DEF Crash
  <2>2. DeliveriesPaid' /\ StoredBeforeDone'
    BY <2>1 DEF DeliveriesPaid, StoredBeforeDone, Connected, Kept, LastCopy
  <2>3. RecordedIsOver'
    BY <2>1 DEF RecordedIsOver
  <2> QED BY <2>1, <2>2, <2>3, CopiesKept
<1>16. ASSUME NEW m \in Mails, FindFolder(m) \/ CreateFolder(m) PROVE Rest'
  <2>1. /\ UNCHANGED <<boxes, job, delivered, remote, records, deleted, crashes>>
        /\ worker[m] \in {"find", "folder"} /\ worker'[m] \in {"folder", "store"}
        /\ \A n \in Mails \ {m} : worker'[n] = worker[n]
    BY <1>16 DEF FindFolder, CreateFolder
  <2>2. DeliveriesPaid'
    BY <2>1 DEF DeliveriesPaid
  <2>3. StoredBeforeDone'
    BY <2>1, StoredStays
  <2>4. RecordedIsOver'
    BY <2>1 DEF RecordedIsOver
  <2> QED BY <2>1, <2>2, <2>3, <2>4, CopiesKept
<1>17. ASSUME NEW box, MissFolder(box) \/ MakeFolder(box) PROVE Rest'
  BY <1>17, CopiesKept, StoredStays DEF MissFolder, MakeFolder, DeliveriesPaid, RecordedIsOver
<1>18. ASSUME NEW r \in records, NEW n \in Nat \cup OtherFolders, Move(r, n) PROVE Rest'
  <2> DEFINE moved == [r EXCEPT !.folder = n]
  <2>1. /\ UNCHANGED <<boxes, job, worker, delivered, remote, deleted, crashes>>
        /\ records' = (records \ {r}) \cup {moved} /\ ~Taken(moved)
    BY <1>18 DEF Move
  <2>2. moved.copy = r.copy /\ moved.by = r.by
    BY RecordType
  <2>3. moved.copy[2] <= delivered[moved.copy[1]]
    BY <2>2 DEF CopiesAreDeliveries
  <2>4. CopiesAreDeliveries'
    BY <2>1, <2>3, CopiesRecorded
  <2> HIDE DEF moved
  <2>5. DeliveriesPaid'
    BY <2>1 DEF DeliveriesPaid
  <2>7. StoredBeforeDone'
    <3>1. \A m \in Mails : Kept(m) => Kept(m)'
      BY <2>1, <2>2 DEF Kept, LastCopy
    <3> QED BY <2>1, <3>1 DEF StoredBeforeDone, Connected
  <2>6. RecordedIsOver'
    BY <2>1, <2>2 DEF RecordedIsOver
  <2> QED BY <2>4, <2>5, <2>6, <2>7
<1>19. ASSUME NEW r \in records, Delete(r) PROVE Rest'
  <2>1. /\ UNCHANGED <<boxes, job, worker, delivered, remote, crashes>>
        /\ records' = records \ {r} /\ deleted' = deleted \cup {r.copy}
    BY <1>19 DEF Delete
  <2>2. DeliveriesPaid' /\ StoredBeforeDone'
    BY <2>1 DEF DeliveriesPaid, StoredBeforeDone, Connected, Kept, LastCopy
  <2>3. RecordedIsOver'
    BY <2>1 DEF RecordedIsOver
  <2> QED BY <2>1, <2>2, <2>3, CopiesKept
<1>20. CASE UNCHANGED vars
  BY <1>20, CopiesKept, StoredStays DEF vars, DeliveriesPaid, RecordedIsOver
<1> QED BY <1>1, <1>2, <1>3, <1>4, <1>5, <1>6, <1>7, <1>8, <1>9, <1>10, <1>11, <1>12, <1>13,
     <1>14, <1>15, <1>16, <1>17, <1>18, <1>19, <1>20 DEF Next, Process, SentFolders

LEMMA SendInvAlways == Spec => []SendInv
BY SendInvInit, SendInvNext, PTL DEF Spec

-----------------------------------------------------------------------------
\* The processor's retries never hand a mail over more often than the queue hands
\* out its job: `attempts` and the stalled limit bound the copies a mail can have.
THEOREM DeliveriesAreBounded == Spec => []DeliveriesBounded
<1>1. SendInv => DeliveriesBounded
  BY DEF SendInv, DeliveriesPaid, DeliveriesBounded
<1> QED BY <1>1, SendInvAlways, PTL

\* A completed send job left the SENT record of the copy it handed over.
THEOREM CompletedSendsAreRecorded == Spec => []CompletedIsRecorded
<1>1. SendInv => CompletedIsRecorded
  BY DEF SendInv, StoredBeforeDone, CompletedIsRecorded, Kept
<1> QED BY <1>1, SendInvAlways, PTL

\* The two find-then-creates of processor and syncs, of the SENT folder and of the row, leave
\* one folder, and one row of a copy in it, unless two looked for the folder before either
\* created it, and then no more folders than were looking and one row in each.
THEOREM CopiesAreRecordedOnce == Spec => []OneRecordPerCopy
<1>1. SendInv => OneRecordPerCopy
  <2> SUFFICES ASSUME SendInv PROVE OneRecordPerCopy
    OBVIOUS
  <2>1. ASSUME NEW box \in Mailboxes
        PROVE  /\ folders[box] \in Nat /\ folders[box] <= MaxMakers + 1
               /\ box \notin raced => folders[box] <= 1
    <3>1. AtFolder(box) \in {0, 1} /\ folders[box] \in Nat /\ making[box] \in Nat
      BY DEF AtFolder, SendInv, TypeInv, TypeOK
    <3>2. folders[box] <= Prospects(box) /\ Prospects(box) \in Nat
      BY <3>1 DEF Prospects
    <3> QED BY <3>1, <3>2, SendAssumption DEF SendInv, FoldersMade
  <2>2. ASSUME NEW r \in records, NEW s \in records, r.copy = s.copy, r.key = s.key, r # s,
               {r.folder, s.folder} \cap OtherFolders = {}
        PROVE  r.folder # s.folder /\ MailboxOf[r.copy[1]] \in raced
    <3>1. r.folder # s.folder
      BY <2>2 DEF SendInv, CopiesAreDeliveries
    <3>2. r.folder \in 1..folders[BoxOf(r.copy)] /\ s.folder \in 1..folders[BoxOf(r.copy)]
      BY <2>2 DEF SendInv, FoldersKnown, SentFolders
    <3>3. BoxOf(r.copy) \in Mailboxes
      BY SendAssumption DEF SendInv, TypeInv, TypeOK, Records, Copies, BoxOf
    <3>4. ~(folders[BoxOf(r.copy)] <= 1)
      BY <2>1, <3>1, <3>2, <3>3
    <3> QED BY <2>1, <3>1, <3>3, <3>4 DEF BoxOf
  <2>3. \A box \in boxes : folders[box] <= IF box \in raced THEN MaxMakers + 1 ELSE 1
    BY <2>1 DEF SendInv, TypeInv, TypeOK
  <2> QED BY <2>2, <2>3 DEF OneRecordPerCopy, SendInv, CopiesAreDeliveries
<1> QED BY <1>1, SendInvAlways, PTL

\* While the server stays up, no retry sends a mail whose record is stored.
THEOREM RecordedMailsStaySent == Spec => RecordedNotResent
<1>1. ASSUME SendInv, [Next]_vars, crashes = 0, NEW m \in Mails,
             \E r \in records : r.copy[1] = m /\ r.by = "send"
      PROVE  delivered'[m] = delivered[m]
  <2>1. worker[m] # "send"
    BY <1>1 DEF SendInv, TypeInv, WorkerHoldsJob, RecordedIsOver
  <2>2. ASSUME NEW n \in Mails, Accepted(n), worker[n] = "send" PROVE delivered'[m] = delivered[m]
    BY <1>1, <2>1, <2>2, AcceptedEffect DEF SendInv, TypeInv
  <2> QED BY <1>1, <2>2 DEF Next, Process, vars, mailVars, Upload, Enqueue, Refuse, Take, Prepare,
       Deliver, DeliverUnanswered, AttemptFails, FindFolder, CreateFolder, Store, Finish,
       SyncFind, SyncCreate, MissFolder, MakeFolder, Move, Delete, RemoveMailbox, Promote, Stall,
       Crash
<1>2. SendInv /\ [Next]_vars
      => [\A m \in Mails :
            /\ crashes = 0
            /\ \E r \in records : r.copy[1] = m /\ r.by = "send"
            => delivered'[m] = delivered[m]]_vars
  BY <1>1
<1> QED BY <1>2, SendInvAlways, PTL DEF Spec, RecordedNotResent

\* Every variable keeps its type.
THEOREM SendTypes == Spec => []TypeOK
<1>1. SendInv => TypeOK
  BY DEF SendInv, TypeInv
<1> QED BY <1>1, SendInvAlways, PTL

-----------------------------------------------------------------------------
(* EmailSend implements MailDelivery.                                      *)

State == [m \in Mails |-> MailState(m)]
Shelf == {r.copy : r \in records}

\* What a mail's job says of the mail.
LEMMA MailStates ==
    ASSUME NEW m \in Mails
    PROVE  /\ job[m].st = "none" => MailState(m) = "new"
           /\ Live(job[m]) => MailState(m) = "accepted"
           /\ job[m].st = "completed" => MailState(m) = "sent"
           /\ job[m].st = "failed" => MailState(m) = "lost"
BY DEF MailState, Live, LiveStates

\* A step whose jobs stay in their states is none of the contract's.
LEMMA SameStates ==
    ASSUME \A m \in Mails : job'[m].st = job[m].st \/ (Live(job[m]) /\ Live(job'[m]))
    PROVE  State' = State
<1>1. ASSUME NEW m \in Mails PROVE MailState(m)' = MailState(m)
  BY <1>1 DEF MailState, Live, LiveStates
<1> QED BY <1>1 DEF State

\* A step that changes the job of one mail.
LEMMA StateBecomes ==
    ASSUME NEW m \in Mails, NEW st, MailState(m)' = st,
           \A n \in Mails \ {m} : job'[n] = job[n]
    PROVE  /\ State[m] = MailState(m)
           /\ State' = [State EXCEPT ![m] = st]
<1>1. \A n \in Mails \ {m} : MailState(n)' = MailState(n)
  BY DEF MailState
<1>2. State' = [n \in Mails |-> MailState(n)']
  BY DEF State
<1> QED BY <1>1, <1>2 DEF State

\* The delivery of one more copy.
LEMMA HandsOver ==
    ASSUME SendInv, NEW m \in Mails, worker[m] = "send", Accepted(m),
           UNCHANGED <<boxes, records, deleted>>
    PROVE  /\ Live(job[m]) /\ State[m] = "accepted"
           /\ delivered[m] < MaxAttempts + MaxStalled
           /\ delivered' = [delivered EXCEPT ![m] = @ + 1]
           /\ Shelf' = Shelf
<1>1. job[m].st = "active"
  BY DEF SendInv, TypeInv, WorkerHoldsJob
<1>2. Live(job[m]) /\ State[m] = "accepted"
  BY <1>1, MailStates DEF Live, LiveStates, State
<1>3. /\ delivered[m] <= job[m].attempts + job[m].stalls
      /\ job[m].attempts < MaxAttempts
  BY <1>2 DEF SendInv, DeliveriesPaid, TypeInv, AttemptsLeft
<1>4. /\ job[m].attempts \in Nat /\ job[m].stalls \in Nat /\ job[m].stalls <= MaxStalled
      /\ delivered[m] \in Nat
  BY JobUpdates DEF SendInv, TypeInv, TypeOK
<1> QED BY <1>2, <1>3, <1>4, QueueAssumption DEF Accepted, Shelf

\* A record of an accepted copy puts it on the shelf.
LEMMA Shelves ==
    ASSUME SendInv, NEW record \in Records, records' = records \cup {record},
           record.copy[2] <= delivered[record.copy[1]], Connected(record.copy[1]),
           UNCHANGED <<job, delivered, boxes, deleted>>
    PROVE  Delivery!Next
<1>1. PICK m \in Mails, n \in Nat \ {0} : record.copy = <<m, n>>
  BY DEF Records, Copies
<1>2. n \in 1..delivered[m] /\ MailboxOf[m] \in boxes
  BY <1>1 DEF Connected, SendInv, TypeInv, TypeOK
<1>3. Shelf' = Shelf \cup {<<m, n>>}
  BY <1>1 DEF Shelf
<1>4. State' = State
  BY SameStates
<1>5. Delivery!Shelve(m, n)
  BY <1>2, <1>3, <1>4 DEF Delivery!Shelve, State, Shelf
<1> QED BY <1>2, <1>5 DEF Delivery!Next

\* A step that moves no job to another state and leaves the rest alone.
LEMMA Unnoticed ==
    ASSUME \A m \in Mails : job'[m].st = job[m].st \/ (Live(job[m]) /\ Live(job'[m])),
           UNCHANGED <<delivered, boxes, records, deleted>>
    PROVE  UNCHANGED Delivery!vars
BY SameStates DEF Delivery!vars, State, Shelf

LEMMA InitContract == Init => Delivery!Init
<1> SUFFICES ASSUME Init PROVE Delivery!Init
  OBVIOUS
<1>1. State = [m \in Mails |-> "new"]
  BY NoJobType, MailStates DEF Init, State
<1>2. Shelf = {}
  BY DEF Init, Shelf
<1> QED BY <1>1, <1>2 DEF Init, Delivery!Init, State, Shelf

\* Every step is a step of the contract or none.
LEMMA NextContract == SendInv /\ [Next]_vars => [Delivery!Next]_(Delivery!vars)
<1> SUFFICES ASSUME SendInv, [Next]_vars
             PROVE  Delivery!Next \/ UNCHANGED Delivery!vars
  OBVIOUS
<1>a. \A m \in Mails : job[m] \in Jobs /\ delivered[m] \in Nat /\ State[m] = MailState(m)
  BY DEF SendInv, TypeInv, TypeOK, State
<1>1. ASSUME NEW m \in Mails, Upload(m) \/ Refuse(m) \/ Prepare(m) PROVE UNCHANGED Delivery!vars
  BY <1>1, Unnoticed DEF Upload, Refuse, Prepare, queueVars, mailVars, boxVars, recordVars
<1>2. ASSUME NEW m \in Mails, Enqueue(m) PROVE Delivery!Next \/ UNCHANGED Delivery!vars
  <2>1. /\ UNCHANGED <<delivered, boxes, records, deleted>> /\ MailboxOf[m] \in boxes
        /\ job'[m] = AddJob(job[m], "send") /\ \A n \in Mails \ {m} : job'[n] = job[n]
    BY <1>2, <1>a DEF Enqueue, mailVars, boxVars, recordVars, Connected, SendInv, TypeInv, TypeOK
  <2>2. CASE job'[m] = job[m]
    BY <2>1, <2>2, Unnoticed
  <2>3. CASE job'[m] # job[m]
    <3>1. job[m].st = "none" /\ job'[m].st = "waiting"
      BY <1>a, <2>1, <2>3, AddJobType
    <3>2. State[m] = "new" /\ MailState(m)' = "accepted"
      BY <1>a, <3>1, MailStates DEF MailState
    <3>3. Delivery!Accept(m)
      BY <2>1, <3>2, StateBecomes DEF Delivery!Accept, Delivery!Become, State, Shelf
    <3> QED BY <3>3 DEF Delivery!Next
  <2> QED BY <2>2, <2>3
<1>3. ASSUME NEW m \in Mails, Take(m) \/ Promote(m) PROVE UNCHANGED Delivery!vars
  <2>1. UNCHANGED <<delivered, boxes, records, deleted>> /\ Live(job[m])
    BY <1>3 DEF Take, Promote, mailVars, boxVars, recordVars, Live, LiveStates
  <2>2. PICK st \in {"active", "waiting"} : job' = [job EXCEPT ![m] = [job[m] EXCEPT !.st = st]]
    BY <1>3 DEF Take, Promote
  <2>3. st \in LiveStates
    BY DEF LiveStates
  <2>4. [job[m] EXCEPT !.st = st].st = st
    BY <1>a, <2>3, JobUpdates
  <2>5. Live(job'[m]) /\ \A n \in Mails \ {m} : job'[n] = job[n]
    BY <2>2, <2>3, <2>4 DEF Live, SendInv, TypeInv, TypeOK
  <2> QED BY <2>1, <2>5, Unnoticed
<1>4. ASSUME NEW m \in Mails, Deliver(m) PROVE Delivery!Next
  <2>1. /\ worker[m] = "send" /\ Accepted(m) /\ UNCHANGED <<boxes, records, deleted, job>>
    BY <1>4 DEF Deliver, boxVars, recordVars
  <2>2. State' = State
    BY <2>1, SameStates
  <2>3. Delivery!HandOver(m)
    BY <2>1, <2>2, HandsOver DEF Delivery!HandOver, State, Shelf
  <2> QED BY <2>3 DEF Delivery!Next
<1>5. ASSUME NEW m \in Mails, DeliverUnanswered(m) PROVE Delivery!Next
  <2>1. /\ worker[m] = "send" /\ Accepted(m) /\ Reject(m) /\ UNCHANGED <<boxes, records, deleted>>
        /\ job[m].st = "active"
    BY <1>5 DEF DeliverUnanswered, boxVars, recordVars, SendInv, TypeInv, WorkerHoldsJob
  <2>2. job'[m].st \in {"delayed", "failed"} /\ \A n \in Mails \ {m} : job'[n] = job[n]
    BY <2>1, RejectEffect DEF SendInv
  <2>3. CASE job'[m].st = "delayed"
    <3>1. State' = State
      BY <2>1, <2>2, <2>3, SameStates DEF Live, LiveStates
    <3>2. Delivery!HandOver(m)
      BY <2>1, <3>1, HandsOver DEF Delivery!HandOver, State, Shelf
    <3> QED BY <3>2 DEF Delivery!Next
  <2>4. CASE job'[m].st = "failed"
    <3>1. State' = [State EXCEPT ![m] = "lost"]
      BY <2>2, <2>4, StateBecomes DEF MailState
    <3>2. Delivery!HandOver(m)
      BY <2>1, <3>1, HandsOver DEF Delivery!HandOver, Delivery!Become, State, Shelf
    <3> QED BY <3>2 DEF Delivery!Next
  <2> QED BY <2>2, <2>3, <2>4
<1>6. ASSUME NEW m \in Mails, AttemptFails(m) \/ Stall(m)
      PROVE  Delivery!Next \/ UNCHANGED Delivery!vars
  <2>1. /\ UNCHANGED <<delivered, boxes, records, deleted>> /\ Live(job[m]) /\ job[m].st = "active"
    BY <1>6 DEF AttemptFails, Stall, mailVars, boxVars, recordVars, Live, LiveStates, SendInv,
                TypeInv, WorkerHoldsJob
  <2>2. /\ job'[m].st \in {"delayed", "waiting", "failed"}
        /\ \A n \in Mails \ {m} : job'[n] = job[n]
    <3>1. CASE AttemptFails(m)
      BY <2>1, <3>1, RejectEffect DEF AttemptFails, SendInv
    <3>2. CASE Stall(m)
      <4>1. job'[m] = StallJob(job[m]) /\ \A n \in Mails \ {m} : job'[n] = job[n]
        BY <3>2 DEF Stall, SendInv, TypeInv, TypeOK
      <4> QED BY <1>a, <4>1, StallJobType
    <3> QED BY <1>6, <3>1, <3>2
  <2>3. CASE job'[m].st # "failed"
    BY <2>1, <2>2, <2>3, Unnoticed DEF Live, LiveStates
  <2>4. CASE job'[m].st = "failed"
    <3>1. State[m] = "accepted" /\ State' = [State EXCEPT ![m] = "lost"]
      BY <1>a, <2>1, <2>2, <2>4, StateBecomes, MailStates DEF MailState
    <3>2. Delivery!GiveUp(m)
      BY <2>1, <3>1 DEF Delivery!GiveUp, Delivery!Become, State, Shelf
    <3> QED BY <3>2 DEF Delivery!Next
  <2> QED BY <2>3, <2>4
<1>7. ASSUME NEW m \in Mails, Store(m) PROVE Delivery!Next
  <2>1. /\ worker[m] = "store" /\ Connected(m) /\ records' = records \cup {SentRecord(m)}
        /\ UNCHANGED <<job, delivered, boxes, deleted>>
    BY <1>7 DEF Store, Storable, mailVars, boxVars
  <2>2. delivered[m] > 0 /\ SentRecord(m) \in Records /\ SentRecord(m).copy = <<m, delivered[m]>>
    BY <2>1, RecordType DEF SendInv, StoredBeforeDone, TypeInv, SentRecord, LastCopy
  <2> QED BY <1>a, <2>1, <2>2, Shelves
<1>8. ASSUME NEW m \in Mails, Finish(m) PROVE Delivery!Next
  <2>1. /\ UNCHANGED <<delivered, boxes, records, deleted>> /\ worker[m] = "done" /\ job[m].st = "active"
        /\ job'[m] = CompleteJob(job[m]) /\ \A n \in Mails \ {m} : job'[n] = job[n]
    BY <1>8 DEF Finish, mailVars, boxVars, recordVars, SendInv, TypeInv, TypeOK, WorkerHoldsJob
  <2>2. State[m] = "accepted" /\ State' = [State EXCEPT ![m] = "sent"]
    <3>1. job'[m].st = "completed"
      BY <1>a, <2>1, JobUpdates
    <3> QED BY <1>a, <2>1, <3>1, StateBecomes, MailStates DEF MailState, Live, LiveStates
  <2>3. /\ delivered[m] > 0
        /\ MailboxOf[m] \in boxes => <<m, delivered[m]>> \in Shelf \cup deleted
    BY <2>1 DEF SendInv, StoredBeforeDone, Kept, LastCopy, Connected, Shelf
  <2>4. Delivery!Settle(m)
    BY <2>1, <2>2, <2>3 DEF Delivery!Settle, Delivery!Become, State, Shelf
  <2> QED BY <2>4 DEF Delivery!Next
<1>9. ASSUME NEW copy, NEW n, SyncFind(copy, n) PROVE UNCHANGED Delivery!vars
  BY <1>9, Unnoticed DEF SyncFind, queueVars, mailVars, boxVars, recordVars
<1>10. ASSUME NEW found \in finding, SyncCreate(found[1], found[2])
       PROVE  Delivery!Next \/ UNCHANGED Delivery!vars
  <2> DEFINE record == SyncRecord(found[1], found[2])
  <2>1. UNCHANGED <<job, delivered, boxes, deleted>>
    BY <1>10 DEF SyncCreate, queueVars, mailVars, boxVars
  <2>2. CASE UNCHANGED records
    BY <2>1, <2>2, Unnoticed
  <2>3. CASE records' = records \cup {record}
    <3>1. /\ record \in Records /\ record.copy = found[1] /\ found[1] \in Copies
          /\ record.copy[2] <= delivered[record.copy[1]]
      BY RecordType DEF SendInv, CopiesAreDeliveries, TypeInv, TypeOK, SyncRecord
    <3>2. Connected(record.copy[1])
      <4>1. found[2] \in 1..folders[BoxOf(found[1])] /\ BoxOf(found[1]) \in Mailboxes
        BY <3>1, SendAssumption DEF SendInv, FoldersKnown, SentFolders, BoxOf, Copies
      <4>2. folders[BoxOf(found[1])] # 0
        BY <4>1
      <4> QED BY <3>1, <4>1, <4>2 DEF SendInv, FoldersMade, Connected, BoxOf
    <3> QED BY <2>1, <2>3, <3>1, <3>2, Shelves
  <2> QED BY <1>10, <2>2, <2>3 DEF SyncCreate
<1>11. ASSUME NEW box \in Mailboxes, RemoveMailbox(box) PROVE Delivery!Next
  <2>1. /\ UNCHANGED <<job, delivered, deleted>> /\ box \in boxes /\ boxes' = boxes \ {box}
        /\ records' = {r \in records : MailboxOf[r.copy[1]] # box}
    BY <1>11 DEF RemoveMailbox, queueVars, mailVars, boxVars, recordVars
  <2>2. Shelf' = {copy \in Shelf : MailboxOf[copy[1]] # box}
    BY <2>1 DEF Shelf
  <2>3. State' = State
    BY <2>1, SameStates
  <2>4. Delivery!Disconnect(box)
    BY <2>1, <2>2, <2>3 DEF Delivery!Disconnect, State, Shelf
  <2> QED BY <2>4 DEF Delivery!Next
<1>12. ASSUME NEW m \in Mails, FindFolder(m) \/ CreateFolder(m) PROVE UNCHANGED Delivery!vars
  BY <1>12, Unnoticed DEF FindFolder, CreateFolder, mailVars, boxVars, recordVars
<1>13. ASSUME NEW box, MissFolder(box) \/ MakeFolder(box) PROVE UNCHANGED Delivery!vars
  BY <1>13, Unnoticed DEF MissFolder, MakeFolder, queueVars, mailVars, boxVars, recordVars
<1>14. ASSUME NEW r \in records, NEW n \in Nat \cup OtherFolders, Move(r, n)
       PROVE  UNCHANGED Delivery!vars
  <2> DEFINE moved == [r EXCEPT !.folder = n]
  <2>1. /\ UNCHANGED <<job, delivered, boxes, deleted>>
        /\ records' = (records \ {r}) \cup {moved}
    BY <1>14 DEF Move, queueVars, mailVars, boxVars
  <2>2. moved.copy = r.copy
    BY RecordType DEF SendInv, TypeInv
  <2> HIDE DEF moved
  <2>3. Shelf' = Shelf
    BY <2>1, <2>2 DEF Shelf
  <2>4. State' = State
    BY <2>1, SameStates
  <2> QED BY <2>1, <2>3, <2>4 DEF Delivery!vars, State, Shelf
<1>15. ASSUME NEW r \in records, Delete(r) PROVE Delivery!Next
  <2>1. /\ UNCHANGED <<job, delivered, boxes>>
        /\ records' = records \ {r} /\ deleted' = deleted \cup {r.copy}
    BY <1>15 DEF Delete, queueVars, mailVars, boxVars
  <2>2. PICK m \in Mails, n \in Nat \ {0} : r.copy = <<m, n>>
    BY DEF SendInv, TypeInv, TypeOK, Records, Copies
  <2>3. n \in 1..delivered[m]
    BY <1>a, <2>2 DEF SendInv, CopiesAreDeliveries
  <2>4. <<m, n>> \in Shelf /\ Shelf' \in {Shelf, Shelf \ {<<m, n>>}}
    BY <2>1, <2>2 DEF Shelf
  <2>5. State' = State
    BY <2>1, SameStates
  <2>6. Delivery!Discard(m, n)
    BY <2>1, <2>2, <2>4, <2>5 DEF Delivery!Discard, State, Shelf
  <2> QED BY <2>3, <2>6 DEF Delivery!Next
<1>16. CASE Crash \/ UNCHANGED vars
  BY <1>16, Unnoticed DEF Crash, vars, queueVars, mailVars, boxVars, recordVars
<1> QED BY <1>1, <1>2, <1>3, <1>4, <1>5, <1>6, <1>7, <1>8, <1>9, <1>10, <1>11, <1>12, <1>13,
     <1>14, <1>15, <1>16 DEF Next, Process, SentFolders

\* Sending keeps its contract: every behaviour of the requests, the queue, the
\* processor and the sync is one of MailDelivery.
THEOREM SendingImplementsDelivery == Spec => MailsDelivered
BY InitContract, NextContract, SendInvAlways, PTL DEF Spec, MailsDelivered, Delivery!Spec

\* The contract's word on a mail whose job is over.
LEMMA DeliveryEnds ==
    ASSUME [Delivery!Next]_(Delivery!vars), NEW m \in Mails, State[m] \in {"sent", "lost"},
           delivered \in [Mails -> Nat]
    PROVE  State'[m] = State[m] /\ delivered'[m] = delivered[m]
<1> DEFINE Goal == State'[m] = State[m] /\ delivered'[m] = delivered[m]
<1>1. ASSUME NEW n \in Mails,
             Delivery!Accept(n) \/ Delivery!Settle(n) \/ Delivery!GiveUp(n)
      PROVE  Goal
  <2>1. State[n] \in {"new", "accepted"} /\ delivered' = delivered
    BY <1>1 DEF Delivery!Accept, Delivery!Settle, Delivery!GiveUp, State
  <2>2. PICK st : State' = [State EXCEPT ![n] = st]
    BY <1>1 DEF Delivery!Accept, Delivery!Settle, Delivery!GiveUp, Delivery!Become, State
  <2>3. n # m
    BY <2>1
  <2> QED BY <2>1, <2>2, <2>3
<1>2. ASSUME NEW n \in Mails, Delivery!HandOver(n) PROVE Goal
  <2>1. /\ State[n] = "accepted" /\ delivered' = [delivered EXCEPT ![n] = @ + 1]
        /\ State' = State \/ State' = [State EXCEPT ![n] = "lost"]
    BY <1>2 DEF Delivery!HandOver, Delivery!Become, State
  <2>2. n # m
    BY <2>1
  <2>3. delivered'[m] = delivered[m]
    BY <2>1, <2>2
  <2>4. CASE State' = State
    BY <2>3, <2>4
  <2>5. CASE State' = [State EXCEPT ![n] = "lost"]
    BY <2>2, <2>3, <2>5
  <2> QED BY <2>1, <2>4, <2>5
<1>3. ASSUME NEW n \in Mails, NEW c, Delivery!Shelve(n, c) \/ Delivery!Discard(n, c) PROVE Goal
  BY <1>3 DEF Delivery!Shelve, Delivery!Discard, State
<1>4. ASSUME NEW box, Delivery!Disconnect(box) PROVE Goal
  BY <1>4 DEF Delivery!Disconnect, State
<1>5. CASE UNCHANGED Delivery!vars
  BY <1>5 DEF Delivery!vars, State
<1> QED BY <1>1, <1>2, <1>3, <1>4, <1>5 DEF Delivery!Next

\* A job that has ended, completed or failed, never runs again: no stall, late timer,
\* crash or retry brings it back, and nobody hands its mail over once more.
THEOREM EndedMailsStayEnded ==
    Spec => [][\A m \in Mails : job[m].st \in FinishedStates
                 => job'[m].st = job[m].st /\ delivered'[m] = delivered[m]]_vars
<1>1. SendInv /\ SendInv' /\ [Next]_vars
      => [\A m \in Mails : job[m].st \in FinishedStates
            => job'[m].st = job[m].st /\ delivered'[m] = delivered[m]]_vars
  <2> SUFFICES ASSUME SendInv, SendInv', [Next]_vars, NEW m \in Mails,
                      job[m].st \in FinishedStates
               PROVE  job'[m].st = job[m].st /\ delivered'[m] = delivered[m]
    OBVIOUS
  <2>1. State[m] \in {"sent", "lost"} /\ State[m] = MailState(m) /\ State'[m] = MailState(m)'
    BY MailStates DEF State, FinishedStates
  <2>2. State'[m] = State[m] /\ delivered'[m] = delivered[m]
    BY <2>1, NextContract, DeliveryEnds DEF SendInv, TypeInv, TypeOK
  <2>3. /\ job[m].st = IF State[m] = "sent" THEN "completed" ELSE "failed"
        /\ State'[m] \in {"sent", "lost"}
             => job'[m].st = IF State'[m] = "sent" THEN "completed" ELSE "failed"
    <3>1. job[m].st = IF State[m] = "sent" THEN "completed" ELSE "failed"
      BY <2>1, MailStates DEF FinishedStates
    <3>2. CASE job'[m].st \in {"completed", "failed"}
      <4>1. MailState(m)' = IF job'[m].st = "completed" THEN "sent" ELSE "lost"
        BY <3>2 DEF MailState
      <4> QED BY <2>1, <3>1, <3>2, <4>1
    <3>3. CASE job'[m].st \notin {"completed", "failed"}
      <4>1. MailState(m)' \in {"new", "accepted"}
        BY <3>3 DEF MailState
      <4> QED BY <2>1, <3>1, <4>1
    <3> QED BY <3>2, <3>3
  <2> QED BY <2>1, <2>2, <2>3
<1> QED BY <1>1, SendInvAlways, PTL DEF Spec
=============================================================================
