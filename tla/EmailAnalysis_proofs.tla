------------------------ MODULE EmailAnalysis_proofs ------------------------
(***************************************************************************)
(* Theorems about EmailAnalysis, for every number of records, mailboxes,   *)
(* handlers, attempts, requests and crashes.                               *)
(***************************************************************************)
EXTENDS EmailAnalysis, TLAPS

\* What TypeOK needs to be inductive: only an active job has a worker, and a
\* job that will run again has an attempt left.
WorkerHoldsJob ==
    \A e \in Emails : worker[e].pc # "idle" => job[e].st = "active"
AttemptsLeft ==
    \A e \in Emails : Live(job[e]) => job[e].attempts < MaxAttempts
TypeInv == TypeOK /\ WorkerHoldsJob /\ AttemptsLeft

-----------------------------------------------------------------------------
(* The queue's operators.                                                  *)

LEMMA NewJobType ==
    ASSUME NEW origin \in Origins
    PROVE  /\ NewJob(origin) \in Jobs /\ NoJob \in Jobs
           /\ NewJob(origin).st = "waiting" /\ NewJob(origin).attempts < MaxAttempts
           /\ ~Live(NoJob)
<1>1. /\ MaxAttempts \in Nat /\ 0 < MaxAttempts /\ 0 \in 0..MaxAttempts
      /\ MaxStalled \in Nat /\ 0 \in 0..MaxStalled
  BY QueueAssumption
<1>2. NoJob \in Jobs
  BY <1>1 DEF NoJob, Jobs, Origins, LiveStates, FinishedStates
<1>3. NoJob.attempts = 0
  BY DEF NoJob
<1>4. NewJob(origin) \in Jobs /\ NewJob(origin).st = "waiting" /\ NewJob(origin).attempts = 0
  BY <1>2, <1>3 DEF NewJob, Jobs, LiveStates
<1>5. ~Live(NoJob)
  BY DEF NoJob, Live, LiveStates
<1> QED BY <1>1, <1>2, <1>3, <1>4, <1>5

LEMMA FailJobType ==
    ASSUME NEW j \in Jobs, j.attempts < MaxAttempts
    PROVE  /\ FailJob(j) \in Jobs
           /\ Live(FailJob(j)) => FailJob(j).attempts < MaxAttempts
<1>1. MaxAttempts \in Nat /\ j.attempts \in Nat /\ j.attempts + 1 \in 0..MaxAttempts
  BY QueueAssumption DEF Jobs
<1>2. CASE j.attempts + 1 < MaxAttempts
  <2>1. FailJob(j) = [j EXCEPT !.attempts = j.attempts + 1, !.st = "delayed"]
    BY <1>2 DEF FailJob
  <2> QED BY <1>1, <1>2, <2>1 DEF Jobs, LiveStates
<1>3. CASE ~(j.attempts + 1 < MaxAttempts)
  <2>1. FailJob(j) = [j EXCEPT !.attempts = j.attempts + 1, !.st = "failed"]
    BY <1>3 DEF FailJob
  <2> QED BY <1>1, <2>1 DEF Jobs, FinishedStates, LiveStates, Live
<1> QED BY <1>2, <1>3

LEMMA StallJobType ==
    ASSUME NEW j \in Jobs
    PROVE  /\ StallJob(j) \in Jobs /\ StallJob(j).attempts = j.attempts
           /\ StallJob(j).st \in {"waiting", "failed"}
<1>1. MaxStalled \in Nat /\ j.stalls \in 0..MaxStalled
  BY QueueAssumption DEF Jobs
<1>2. CASE j.stalls < MaxStalled
  <2>1. StallJob(j) = [j EXCEPT !.st = "waiting", !.stalls = j.stalls + 1]
    BY <1>2 DEF StallJob
  <2>2. j.stalls + 1 \in 0..MaxStalled
    BY <1>1, <1>2
  <2> QED BY <2>1, <2>2 DEF Jobs, LiveStates
<1>3. CASE ~(j.stalls < MaxStalled)
  <2>1. StallJob(j) = [j EXCEPT !.st = "failed"]
    BY <1>3 DEF StallJob
  <2> QED BY <2>1 DEF Jobs, FinishedStates
<1> QED BY <1>2, <1>3

LEMMA QueueAddEffect ==
    ASSUME TypeOK, NEW S \in SUBSET Emails, NEW origin \in Origins, QueueAdd(S, origin)
    PROVE  /\ job' \in [Emails -> Jobs]
           /\ holes' \in [Emails -> SUBSET Holes]
           /\ \A e \in Emails : \/ job'[e] = job[e]
                                \/ /\ job[e].st = "none" /\ e \in S
                                   /\ job'[e] = NewJob(origin)
BY NewJobType DEF TypeOK, QueueAdd, AddJob, Holes

LEMMA CleanEffect ==
    ASSUME TypeOK, NEW owner, NEW st \in {"waiting", "delayed"}, Clean(owner, st)
    PROVE  /\ job' \in [Emails -> Jobs]
           /\ holes' \in [Emails -> SUBSET Holes]
           /\ \A e \in Emails : \/ job'[e] = job[e]
                                \/ /\ job[e].st = st /\ job'[e] = NoJob
BY NewJobType DEF TypeOK, Clean, Hole, Holes, Origins

-----------------------------------------------------------------------------
(* The rows and the helpers that write them.                               *)

LEMMA InitialRow ==
    [st |-> "absent", status |-> "PENDING", report |-> FALSE, folder |-> "INBOX",
     flags |-> {}, malicious |-> FALSE, old |-> FALSE] \in EmailRows
BY DEF EmailRows, Statuses, FolderTypes

LEMMA RowUpdates ==
    ASSUME NEW row \in EmailRows
    PROVE  /\ \A status \in Statuses : [row EXCEPT !.status = status] \in EmailRows
           /\ [row EXCEPT !.st = "deleted"] \in EmailRows
           /\ [row EXCEPT !.old = TRUE] \in EmailRows
           /\ \A status \in Statuses : [row EXCEPT !.status = status, !.old = FALSE] \in EmailRows
           /\ \A folder \in FolderTypes : [row EXCEPT !.folder = folder] \in EmailRows
           /\ \A folder \in FolderTypes, flags \in SUBSET {"spam", "phishing"} :
                 [row EXCEPT !.folder = folder, !.flags = flags] \in EmailRows
BY DEF EmailRows

LEMMA StoredRow ==
    ASSUME NEW row \in EmailRows, NEW folder \in FolderTypes,
           NEW flags \in SUBSET {"spam", "phishing"}
    PROVE  LET stored == Stored(row, folder, flags) IN
           /\ stored \in EmailRows
           /\ stored.st = "present" /\ stored.folder = folder /\ stored.flags = flags
           /\ stored.status = row.status /\ stored.report = row.report
           /\ stored.malicious = row.malicious
BY DEF EmailRows, Stored

LEMMA SyncFlagsType ==
    ASSUME NEW folder \in SyncFolders
    PROVE  folder \in FolderTypes \ {"MALWARE"} /\ SyncFlags(folder) \subseteq SUBSET {"spam", "phishing"}
BY ModelAssumption DEF FolderTypes, SyncFlags

LEMMA AnalysedRow ==
    ASSUME NEW row \in EmailRows, NEW verdict \in Verdicts
    PROVE  Analysed(row, verdict) \in EmailRows
<1>1. /\ VerdictFlags(verdict) \in SUBSET {"spam", "phishing"}
      /\ (verdict = "malware") \in BOOLEAN
  BY DEF VerdictFlags
<1>2. (IF VerdictFolder(verdict) = "none" THEN row.folder ELSE VerdictFolder(verdict)) \in FolderTypes
  BY DEF VerdictFolder, Verdicts, EmailRows, FolderTypes
<1> QED BY <1>1, <1>2 DEF Analysed, EmailRows

LEMMA RefiledRow ==
    ASSUME NEW row \in EmailRows, NEW folder \in FolderTypes
    PROVE  Refiled(row, folder) \in EmailRows
<1>1. (CASE folder = "SPAM"     -> row.flags \cup {"spam"}
         [] folder = "PHISHING" -> row.flags \cup {"phishing"}
         [] OTHER               -> {}) \in SUBSET {"spam", "phishing"}
  BY DEF EmailRows
<1> QED BY <1>1, RowUpdates DEF Refiled

LEMMA ReportedRow ==
    ASSUME NEW row \in EmailRows, NEW type \in {"spam", "phishing"}
    PROVE  Reported(row, type) \in EmailRows
<1>1. /\ VerdictFolder(type) \in FolderTypes
      /\ row.flags \cup {type} \in SUBSET {"spam", "phishing"}
  BY DEF VerdictFolder, FolderTypes, EmailRows
<1> QED BY <1>1, RowUpdates DEF Reported

LEMMA WithStatusType ==
    ASSUME TypeOK, NEW S, NEW status \in Statuses
    PROVE  WithStatus(S, status) \in [Emails -> EmailRows]
BY RowUpdates DEF WithStatus, TypeOK

LEMMA GoneType ==
    ASSUME TypeOK, NEW S
    PROVE  Gone(S) \in [Emails -> EmailRows]
BY RowUpdates DEF Gone, TypeOK

LEMMA HoleType ==
    ASSUME TypeOK, NEW S
    PROVE  /\ NoHole(S) \in [Emails -> SUBSET Holes]
           /\ \A cause \in Holes : Hole(S, cause) \in [Emails -> SUBSET Holes]
BY DEF Hole, NoHole, TypeOK

LEMMA GotoType ==
    ASSUME TypeOK, NEW e \in Emails, NEW pc \in WorkerPcs, Goto(e, pc)
    PROVE  /\ worker' \in [Emails -> WorkerStates]
           /\ worker'[e].pc = pc
           /\ \A d \in Emails \ {e} : worker'[d] = worker[d]
BY DEF Goto, WorkerAt, IdleWorker, WorkerStates, WorkerPcs, Verdicts, TypeOK

LEMMA PipelineEndsType ==
    ASSUME TypeOK, NEW e \in Emails, PipelineEnds(e)
    PROVE  /\ Goto(e, "mark")
           /\ late' \in [Emails -> Nat]
BY DEF PipelineEnds, TypeOK

LEMMA JobDoneType ==
    ASSUME TypeInv, NEW e \in Emails, JobDone(e)
    PROVE  /\ job' \in [Emails -> Jobs]
           /\ worker' \in [Emails -> WorkerStates]
           /\ ~Live(job'[e]) /\ worker'[e] = IdleWorker
           /\ \A d \in Emails \ {e} : job'[d] = job[d] /\ worker'[d] = worker[d]
BY DEF JobDone, CompleteJob, TypeInv, TypeOK, Jobs, FinishedStates, Live, LiveStates,
       IdleWorker, WorkerStates, WorkerPcs, Verdicts

-----------------------------------------------------------------------------
(* Type correctness.                                                       *)

LEMMA TypeInvInit == Init => TypeInv
<1> SUFFICES ASSUME Init PROVE TypeInv
  OBVIOUS
<1>1. email \in [Emails -> EmailRows]
  BY InitialRow DEF Init
<1>2. job \in [Emails -> Jobs] /\ AttemptsLeft
  BY NewJobType DEF Init, AttemptsLeft, Origins
<1>3. worker \in [Emails -> WorkerStates] /\ WorkerHoldsJob
  BY DEF Init, WorkerHoldsJob, WorkerStates, WorkerPcs, Verdicts, IdleWorker
<1>4. req \in [Handlers -> RequestStates]
  BY DEF Init, RequestStates, RequestPcs, IdleRequest
<1> QED BY <1>1, <1>2, <1>3, <1>4 DEF Init, TypeInv, TypeOK, Holes

LEMMA TypeInvNext == TypeInv /\ [Next]_vars => TypeInv'
<1> SUFFICES ASSUME TypeInv, [Next]_vars PROVE TypeInv'
  OBVIOUS
<1> USE DEF TypeInv, TypeOK, WorkerHoldsJob, AttemptsLeft, emailVars, queueVars, lateVars,
            requestVars, observers
<1>1. ASSUME NEW e \in Emails, SyncFind(e) PROVE TypeInv'
  BY <1>1 DEF SyncFind
<1>2. ASSUME NEW e \in Emails, NEW folder \in SyncFolders, SyncCreate(e, folder) PROVE TypeInv'
  <2>1. email' \in [Emails -> EmailRows]
    BY <1>2, StoredRow, SyncFlagsType DEF SyncCreate
  <2> QED BY <1>2, <2>1 DEF SyncCreate
<1>3. ASSUME NEW e \in Emails, SyncStore(e) PROVE TypeInv'
  BY <1>3 DEF SyncStore
<1>4. ASSUME NEW e \in Emails, SyncEnqueue(e) PROVE TypeInv'
  BY <1>4, QueueAddEffect, NewJobType DEF SyncEnqueue, Origins, Live, LiveStates
<1>5. ASSUME NEW e \in Emails, SyncAbandon(e) PROVE TypeInv'
  BY <1>5 DEF SyncAbandon, Hole, Holes
<1>6. ASSUME NEW e \in Emails, Take(e) PROVE TypeInv'
  <2>1. Goto(e, "load") /\ job[e].st = "waiting" /\ job' = [job EXCEPT ![e].st = "active"]
    BY <1>6 DEF Take
  <2>2. /\ job' \in [Emails -> Jobs]
        /\ job'[e].st = "active" /\ job'[e].attempts = job[e].attempts
        /\ \A d \in Emails \ {e} : job'[d] = job[d]
    BY <2>1 DEF Jobs, LiveStates
  <2>3. Live(job[e])
    BY <2>1 DEF Live, LiveStates
  <2> QED BY <1>6, <2>1, <2>2, <2>3, GotoType DEF Take, WorkerPcs
<1>7. ASSUME NEW e \in Emails, LoadMissing(e) PROVE TypeInv'
  <2>1. JobDone(e)
    BY <1>7 DEF LoadMissing
  <2> QED BY <1>7, <2>1, JobDoneType DEF LoadMissing, IdleWorker
<1>8. ASSUME NEW e \in Emails, Load(e) PROVE TypeInv'
  BY <1>8 DEF Load, Goto, WorkerAt, IdleWorker, WorkerStates, WorkerPcs, Verdicts
<1>9. ASSUME NEW e \in Emails, Fetch(e) PROVE TypeInv'
  BY <1>9, GotoType DEF Fetch, WorkerPcs
<1>10. ASSUME NEW e \in Emails, NEW verdict \in Verdicts, NEW slow \in BOOLEAN, AnalyzeVerdict(e, verdict, slow) PROVE TypeInv'
  BY <1>10 DEF AnalyzeVerdict, Goto, WorkerAt, IdleWorker, WorkerStates, WorkerPcs,
     Verdicts
<1>11. ASSUME NEW e \in Emails, AnalyzeFails(e) PROVE TypeInv'
  BY <1>11 DEF AnalyzeFails, Goto, WorkerAt, IdleWorker, WorkerStates, WorkerPcs,
     Verdicts
<1>12. ASSUME NEW e \in Emails, AnalyzeFallback(e) PROVE TypeInv'
  BY <1>12 DEF AnalyzeFallback, Goto, WorkerAt, IdleWorker, WorkerStates, WorkerPcs,
     Verdicts
<1>13. ASSUME NEW e \in Emails, Persist(e) PROVE TypeInv'
  <2>1. Analysed(email[e], worker[e].verdict) \in EmailRows
    BY AnalysedRow DEF WorkerStates
  <2>2. PipelineEnds(e) /\ Goto(e, "mark") /\ late' \in [Emails -> Nat]
    BY <1>13, PipelineEndsType DEF Persist
  <2> QED BY <1>13, <2>1, <2>2, GotoType DEF Persist, WorkerPcs
<1>14. ASSUME NEW e \in Emails, PersistLost(e) PROVE TypeInv'
  <2>1. PipelineEnds(e) /\ Goto(e, "mark") /\ late' \in [Emails -> Nat]
    BY <1>14, PipelineEndsType DEF PersistLost
  <2> QED BY <1>14, <2>1, GotoType DEF PersistLost, WorkerPcs
<1>15. ASSUME NEW e \in Emails, PersistConflict(e) PROVE TypeInv'
  BY <1>15 DEF PersistConflict, Goto, WorkerAt, IdleWorker, WorkerStates, WorkerPcs,
     Verdicts
<1>16. ASSUME NEW e \in Emails, DupDelete(e) PROVE TypeInv'
  <2>1. PipelineEnds(e) /\ Goto(e, "mark") /\ late' \in [Emails -> Nat]
    BY <1>16, PipelineEndsType DEF DupDelete
  <2> QED BY <1>16, <2>1, GotoType, GoneType DEF DupDelete, WorkerPcs
<1>17. ASSUME NEW e \in Emails, Mark(e) PROVE TypeInv'
  BY <1>17, GotoType, WithStatusType, HoleType DEF Mark, Statuses, WorkerPcs
<1>18. ASSUME NEW e \in Emails, MarkFails(e) PROVE TypeInv'
  BY <1>18 DEF MarkFails, Goto, WorkerAt, IdleWorker, WorkerStates, WorkerPcs, Verdicts
<1>19. ASSUME NEW e \in Emails, Finish(e) PROVE TypeInv'
  <2>1. JobDone(e)
    BY <1>19 DEF Finish
  <2> QED BY <1>19, <2>1, JobDoneType DEF Finish, IdleWorker
<1>20. ASSUME NEW e \in Emails, Catch(e) PROVE TypeInv'
  <2>1. Live(job[e])
    BY <1>20 DEF Catch, Live, LiveStates
  <2>2. FailJob(job[e]) \in Jobs /\ (Live(FailJob(job[e])) => FailJob(job[e]).attempts < MaxAttempts)
    BY <2>1, FailJobType
  <2>3. IdleWorker \in WorkerStates /\ IdleWorker.pc = "idle"
    BY DEF IdleWorker, WorkerStates, WorkerPcs, Verdicts
  <2> QED BY <1>20, <2>2, <2>3, WithStatusType, HoleType DEF Catch, Statuses
<1>21. ASSUME NEW e \in Emails, CatchUnmarked(e) PROVE TypeInv'
  BY <1>21, FailJobType DEF CatchUnmarked, Hole, Holes, IdleWorker, WorkerStates,
     WorkerPcs, Verdicts, Live, LiveStates
<1>22. ASSUME NEW e \in Emails, LateNothing(e) PROVE TypeInv'
  BY <1>22 DEF LateNothing, LateEnds
<1>23. ASSUME NEW e \in Emails, LateMalicious(e) PROVE TypeInv'
  <2>1. [email[e] EXCEPT !.malicious = TRUE, !.flags = {}, !.folder = "MALWARE"] \in EmailRows
    BY DEF EmailRows, FolderTypes
  <2> QED BY <1>23, <2>1 DEF LateMalicious, LateEnds
<1>24. ASSUME NEW e \in Emails, LateConflict(e) PROVE TypeInv'
  BY <1>24 DEF LateConflict, LateEnds
<1>25. ASSUME NEW e \in Emails, LateDupDelete(e) PROVE TypeInv'
  BY <1>25, GoneType DEF LateDupDelete
<1>26. ASSUME NEW e \in Emails, Promote(e) PROVE TypeInv'
  BY <1>26 DEF Promote, Jobs, Live, LiveStates, FinishedStates
<1>27. ASSUME NEW e \in Emails, Stall(e) PROVE TypeInv'
  BY <1>27, StallJobType DEF Stall, Hole, Holes, Live, LiveStates
<1>28. ASSUME NEW e \in Emails, Evict(e) PROVE TypeInv'
  BY <1>28, NewJobType DEF Evict, Evictable, Origins, Live, LiveStates
<1>29. ASSUME NEW e \in Emails, Age(e) PROVE TypeInv'
  <2>1. email' = [email EXCEPT ![e] = [email[e] EXCEPT !.old = TRUE]]
    BY <1>29 DEF Age
  <2>2. [email[e] EXCEPT !.old = TRUE] \in EmailRows
    BY RowUpdates
  <2> QED BY <1>29, <2>1, <2>2 DEF Age
<1>30. ASSUME NEW h \in Handlers, NEW e \in Emails, BeginScan(h, e) PROVE TypeInv'
  BY <1>30 DEF BeginScan, Request, RequestStates, RequestPcs, IdleRequest, Progress,
     Done
<1>31. ASSUME NEW h \in Handlers, NEW box \in Mailboxes, BeginScanAll(h, box) PROVE TypeInv'
  BY <1>31 DEF BeginScanAll, Request, RequestStates, RequestPcs, IdleRequest, Progress,
     Done
<1>32. ASSUME NEW h \in Handlers, NEW e \in Emails, BeginCancel(h, e) PROVE TypeInv'
  <2>1. /\ RemoveJob(job[e]) \in Jobs
        /\ \/ RemoveJob(job[e]) = job[e]
           \/ job[e].st # "active" /\ RemoveJob(job[e]) = NoJob
    BY NewJobType DEF RemoveJob, Origins
  <2>2. req' \in [Handlers -> RequestStates]
    BY <1>32 DEF BeginCancel, RequestStates, RequestPcs, IdleRequest
  <2> QED BY <1>32, <2>1, <2>2, NewJobType DEF BeginCancel, Request, Origins
<1>33. ASSUME NEW h \in Handlers, NEW box \in Mailboxes, BeginClear(h, box) PROVE TypeInv'
  <2>1. /\ job' \in [Emails -> Jobs] /\ holes' \in [Emails -> SUBSET Holes]
        /\ \A e \in Emails : \/ job'[e] = job[e]
                             \/ job[e].st \in {"waiting", "delayed"} /\ job'[e] = NoJob
    BY <1>33, CleanEffect DEF BeginClear
  <2>2. req' \in [Handlers -> RequestStates]
    BY <1>33 DEF BeginClear, RequestStates, RequestPcs, IdleRequest, Progress
  <2> QED BY <1>33, <2>1, <2>2, NewJobType DEF BeginClear, Request, Origins
<1>34. ASSUME NEW h \in Handlers, ScanWrite(h) PROVE TypeInv'
  <2>1. PICK e \in req[h].targets :
          email' = [email EXCEPT ![e] = [email[e] EXCEPT
                     !.status = IF e \in req[h].noReport THEN "PENDING" ELSE "COMPLETED",
                     !.old = FALSE]]
    BY <1>34 DEF ScanWrite
  <2>2. e \in Emails
    BY DEF RequestStates
  <2> DEFINE status == IF e \in req[h].noReport THEN "PENDING" ELSE "COMPLETED"
  <2>3. status \in Statuses
    BY DEF Statuses
  <2>4. [email[e] EXCEPT !.status = status, !.old = FALSE] \in EmailRows
    BY <2>2, <2>3, RowUpdates
  <2> QED BY <1>34, <2>1, <2>2, <2>4, HoleType DEF ScanWrite, RequestStates, RequestPcs, Progress
<1>35. ASSUME NEW h \in Handlers, ScanAllWrite(h) PROVE TypeInv'
  BY <1>35, WithStatusType DEF ScanAllWrite, Statuses, RequestStates, RequestPcs, Progress
<1>36. ASSUME NEW h \in Handlers, ScanAdd(h) PROVE TypeInv'
  BY <1>36, QueueAddEffect, NewJobType DEF ScanAdd, Origins, RequestStates, RequestPcs,
     IdleRequest, Progress, Done
<1>37. ASSUME NEW h \in Handlers, NEW box \in Mailboxes, CleanPaused(h, box) PROVE TypeInv'
  <2>1. /\ job' \in [Emails -> Jobs] /\ holes' \in [Emails -> SUBSET Holes]
        /\ \A e \in Emails : \/ job'[e] = job[e]
                             \/ job[e].st \in {"waiting", "delayed"} /\ job'[e] = NoJob
    BY <1>37, CleanEffect DEF CleanPaused
  <2>2. req' \in [Handlers -> RequestStates]
    BY <1>37 DEF CleanPaused, RequestStates, RequestPcs, IdleRequest, Progress
  <2> QED BY <1>37, <2>1, <2>2, NewJobType DEF CleanPaused, Origins
<1>38. ASSUME NEW h \in Handlers, NEW box \in Mailboxes, CleanDelayed(h, box) PROVE TypeInv'
  <2>1. /\ job' \in [Emails -> Jobs] /\ holes' \in [Emails -> SUBSET Holes]
        /\ \A e \in Emails : \/ job'[e] = job[e]
                             \/ job[e].st \in {"waiting", "delayed"} /\ job'[e] = NoJob
    BY <1>38, CleanEffect DEF CleanDelayed
  <2>2. req' \in [Handlers -> RequestStates]
    BY <1>38 DEF CleanDelayed, RequestStates, RequestPcs, IdleRequest, Progress
  <2> QED BY <1>38, <2>1, <2>2, NewJobType DEF CleanDelayed, Origins
<1>39. ASSUME NEW h \in Handlers, MarkFailed(h) PROVE TypeInv'
  BY <1>39, WithStatusType, HoleType
     DEF MarkFailed, Statuses, RequestStates, RequestPcs, IdleRequest, Done
<1>40. ASSUME NEW h \in Handlers, Abandon(h) PROVE TypeInv'
  BY <1>40 DEF Abandon, Hole, Holes, RequestStates, RequestPcs, IdleRequest, Progress,
     Done
<1>41. ASSUME NEW e \in Emails, Delete(e) PROVE TypeInv'
  <2>1. [email[e] EXCEPT !.folder = "TRASH"] \in EmailRows
    BY RowUpdates DEF FolderTypes
  <2>2. CASE MailboxOf[e] \in trash
    <3>1. email' = [email EXCEPT ![e] = [email[e] EXCEPT !.folder = "TRASH"]]
      BY <1>41, <2>2 DEF Delete
    <3>2. email' \in [Emails -> EmailRows]
      BY <2>1, <3>1
    <3>3. rows' = rows /\ moved' = [moved EXCEPT ![e] = TRUE]
      BY <1>41, <2>2 DEF Delete
    <3>4. /\ requests' = requests + 1
          /\ UNCHANGED <<trash, boxes, job, paused, sync, worker, late, lateDup, req, crashes, holes>>
      BY <1>41 DEF Delete, Request
    <3> QED BY <3>2, <3>3, <3>4
  <2>3. CASE MailboxOf[e] \notin trash
    BY <1>41, <2>3, GoneType DEF Delete, Request
  <2> QED BY <2>2, <2>3
<1>42. ASSUME NEW e \in Emails, NEW type \in {"spam", "phishing"}, Report(e, type) PROVE TypeInv'
  <2>1. Reported(email[e], type) \in EmailRows
    BY ReportedRow
  <2> QED BY <1>42, <2>1 DEF Report, Request
<1>43. ASSUME NEW e \in Emails, NEW folder \in FolderTypes \ {"MALWARE"}, Reclassify(e, folder) PROVE TypeInv'
  <2>1. Refiled(email[e], folder) \in EmailRows
    BY RefiledRow
  <2>2. trash' \subseteq Mailboxes
    BY <1>43, ModelAssumption DEF Reclassify
  <2>3. email' \in [Emails -> EmailRows] /\ moved' \in [Emails -> BOOLEAN]
    <3>1. CASE Occupied(e, folder)
      BY <1>43, <3>1 DEF Reclassify
    <3>2. CASE ~Occupied(e, folder)
      BY <1>43, <2>1, <3>2 DEF Reclassify
    <3> QED BY <3>1, <3>2
  <2> QED BY <1>43, <2>2, <2>3 DEF Reclassify, Request
<1>44. ASSUME NEW box \in Mailboxes, RemoveMailbox(box) PROVE TypeInv'
  BY <1>44, GoneType DEF RemoveMailbox, Request
<1>45. ASSUME NEW box \in Mailboxes, NEW flag \in BOOLEAN, SetPaused(box, flag) PROVE TypeInv'
  BY <1>45 DEF SetPaused
<1>46. ASSUME NEW e \in Emails, StoreSent(e) PROVE TypeInv'
  <2>1. email' \in [Emails -> EmailRows]
    BY <1>46, StoredRow DEF StoreSent, FolderTypes
  <2> QED BY <1>46, <2>1 DEF StoreSent, Request, Hole, Holes
<1>47. CASE Crash
  BY <1>47 DEF Crash, Hole, Holes, IdleWorker, WorkerStates, WorkerPcs, Verdicts,
     RequestStates, RequestPcs, IdleRequest
<1>48. CASE UNCHANGED vars
  BY <1>48 DEF vars
<1> QED BY <1>1, <1>2, <1>3, <1>4, <1>5, <1>6, <1>7, <1>8, <1>9, <1>10, <1>11, <1>12,
     <1>13, <1>14, <1>15, <1>16, <1>17, <1>18, <1>19, <1>20, <1>21, <1>22, <1>23, <1>24,
     <1>25, <1>26, <1>27, <1>28, <1>29, <1>30, <1>31, <1>32, <1>33, <1>34, <1>35, <1>36,
     <1>37, <1>38, <1>39, <1>40, <1>41, <1>42, <1>43, <1>44, <1>45, <1>46, <1>47, <1>48 DEF
     Next, SyncStep, Process, LateScan, Serve, Begin, Move

\* Every variable keeps its type: the job of a record never counts more attempts
\* than the queue allows, because only a live job has a worker and a live job
\* has an attempt left.
THEOREM TypeCorrect == Spec => []TypeOK
<1>1. TypeInv => TypeOK
  BY DEF TypeInv
<1> QED BY <1>1, TypeInvInit, TypeInvNext, PTL DEF Spec

-----------------------------------------------------------------------------
(* No record is left PENDING silently.                                     *)

\* The rows of a mailbox go with it, and a scan writes PENDING only to records it
\* is going to queue.
PresentInBox == \A e \in Emails : Present(e) => MailboxOf[e] \in boxes
ScansQueueTargets == \A h \in Handlers : req[h].noReport \subseteq req[h].targets
PendingInv == TypeInv /\ PresentInBox /\ ScansQueueTargets /\ NoSilentPending

LEMMA PendingInvInit == Init => PendingInv
BY TypeInvInit
   DEF Init, PendingInv, PresentInBox, ScansQueueTargets, NoSilentPending, Stranded, Pending,
       Present, IdleRequest

\* An add leaves a record of its own with a job to come, or with a cause.
LEMMA QueueAddSettles ==
    ASSUME TypeInv, NEW S \in SUBSET Emails, NEW origin \in Origins, QueueAdd(S, origin),
           UNCHANGED <<email, worker>>, NEW e \in Emails
    PROVE  /\ e \in S /\ Stranded(e)' => holes'[e] # {}
           /\ e \notin S => job'[e] = job[e] /\ holes'[e] = holes[e]
<1>1. CASE e \notin S
  BY <1>1 DEF QueueAdd, TypeInv, TypeOK
<1>2. CASE e \in S /\ job[e].st = "none"
  <2>1. job'[e] = NewJob(origin)
    BY <1>2 DEF QueueAdd, AddJob, TypeInv, TypeOK
  <2>2. Live(job'[e])
    BY <2>1, NewJobType DEF Live, LiveStates
  <2>3. worker[e].pc = "idle"
    BY <1>2 DEF TypeInv, WorkerHoldsJob
  <2> QED BY <1>2, <2>2, <2>3 DEF Stranded, PastMark
<1>3. CASE e \in S /\ job[e].st # "none"
  <2>1. job'[e] = job[e]
    BY <1>3 DEF QueueAdd, TypeInv, TypeOK
  <2>2. Stranded(e)' = Stranded(e)
    BY <2>1 DEF Stranded, Pending, Present, PastMark
  <2>3. Stranded(e) => holes'[e] = holes[e] \cup {"ignored"}
    BY <1>3 DEF QueueAdd, TypeInv, TypeOK
  <2> QED BY <1>3, <2>2, <2>3
<1> QED BY <1>1, <1>2, <1>3

\* A clean strands a record of another mailbox with a cause only.
LEMMA CleanStrands ==
    ASSUME TypeInv, NEW owner, NEW st \in {"waiting", "delayed"}, Clean(owner, st),
           UNCHANGED <<email, worker>>, NEW e \in Emails
    PROVE  /\ holes[e] \subseteq holes'[e]
           /\ Stranded(e)' => Stranded(e) \/ MailboxOf[e] = owner \/ holes'[e] # {}
<1>1. holes[e] \subseteq holes'[e]
  BY DEF Clean, Hole, TypeInv, TypeOK
<1>2. CASE job[e].st = st
  <2>1. Pending(e) /\ MailboxOf[e] # owner => holes'[e] = holes[e] \cup {"cleared"}
    BY <1>2 DEF Clean, Hole, TypeInv, TypeOK
  <2>2. Pending(e)' = Pending(e)
    BY DEF Pending, Present
  <2> QED BY <1>1, <2>1, <2>2 DEF Stranded
<1>3. CASE job[e].st # st
  <2>1. job'[e] = job[e]
    BY <1>3 DEF Clean, TypeInv, TypeOK
  <2> QED BY <1>1, <2>1 DEF Stranded, Pending, Present, PastMark
<1> QED BY <1>2, <1>3

LEMMA PendingInvNext == PendingInv /\ [Next]_vars => PendingInv'
<1> SUFFICES ASSUME PendingInv, TypeInv', [Next]_vars
             PROVE  (PresentInBox /\ ScansQueueTargets /\ NoSilentPending)'
  BY TypeInvNext DEF PendingInv
<1> USE DEF PendingInv, TypeInv, TypeOK, WorkerHoldsJob, PresentInBox, ScansQueueTargets,
            NoSilentPending, Stranded, Pending, Present, Owed, SyncOwes, RequestOwes, PastMark,
            Live, LiveStates, emailVars, queueVars, lateVars, requestVars, observers
<1>1. ASSUME NEW e \in Emails, SyncFind(e)
      PROVE  (PresentInBox /\ ScansQueueTargets /\ NoSilentPending)'
  BY <1>1 DEF SyncFind
<1>2. ASSUME NEW e \in Emails, NEW folder \in SyncFolders, SyncCreate(e, folder)
      PROVE  (PresentInBox /\ ScansQueueTargets /\ NoSilentPending)'
  <2>1. CASE UNCHANGED email
    BY <1>2, <2>1 DEF SyncCreate
  <2>2. CASE ~UNCHANGED email
    <3>1. /\ MailboxOf[e] \in boxes /\ SyncOwes(e)' /\ email'[e].st = "present"
          /\ \A d \in Emails \ {e} : email'[d] = email[d] /\ sync'[d] = sync[d]
      BY <1>2, <2>2, StoredRow, SyncFlagsType DEF SyncCreate
    <3> QED BY <1>2, <3>1 DEF SyncCreate
  <2> QED BY <2>1, <2>2
<1>3. ASSUME NEW e \in Emails, SyncStore(e)
      PROVE  (PresentInBox /\ ScansQueueTargets /\ NoSilentPending)'
  BY <1>3 DEF SyncStore
<1>4. ASSUME NEW e \in Emails, SyncEnqueue(e)
      PROVE  (PresentInBox /\ ScansQueueTargets /\ NoSilentPending)'
  <2>1. QueueAdd({e}, "sync") /\ sync' = [sync EXCEPT ![e] = "idle"]
        /\ UNCHANGED <<email, worker, boxes, req>>
    BY <1>4 DEF SyncEnqueue
  <2>2. \A d \in Emails : /\ d = e /\ Stranded(d)' => holes'[d] # {}
                          /\ d # e => job'[d] = job[d] /\ holes'[d] = holes[d]
    BY <2>1, QueueAddSettles DEF Origins
  <2> QED BY <2>1, <2>2
<1>5. ASSUME NEW e \in Emails, SyncAbandon(e)
      PROVE  (PresentInBox /\ ScansQueueTargets /\ NoSilentPending)'
  BY <1>5 DEF SyncAbandon, Hole
<1>6. ASSUME NEW e \in Emails, Take(e)
      PROVE  (PresentInBox /\ ScansQueueTargets /\ NoSilentPending)'
  BY <1>6 DEF Take, Goto, WorkerAt, IdleWorker
<1>7. ASSUME NEW e \in Emails, LoadMissing(e)
      PROVE  (PresentInBox /\ ScansQueueTargets /\ NoSilentPending)'
  <2>1. JobDone(e) /\ ~Present(e) /\ UNCHANGED <<email, boxes, sync, req, holes>>
    BY <1>7 DEF LoadMissing
  <2> QED BY <2>1, JobDoneType
<1>8. ASSUME NEW e \in Emails, Load(e)
      PROVE  (PresentInBox /\ ScansQueueTargets /\ NoSilentPending)'
  BY <1>8, GotoType DEF Load, WorkerPcs
<1>9. ASSUME NEW e \in Emails, Fetch(e)
      PROVE  (PresentInBox /\ ScansQueueTargets /\ NoSilentPending)'
  BY <1>9, GotoType DEF Fetch, WorkerPcs
<1>10. ASSUME NEW e \in Emails, NEW verdict \in Verdicts, NEW slow \in BOOLEAN, AnalyzeVerdict(e, verdict, slow)
      PROVE  (PresentInBox /\ ScansQueueTargets /\ NoSilentPending)'
  BY <1>10 DEF AnalyzeVerdict
<1>11. ASSUME NEW e \in Emails, AnalyzeFails(e)
      PROVE  (PresentInBox /\ ScansQueueTargets /\ NoSilentPending)'
  BY <1>11, GotoType DEF AnalyzeFails, WorkerPcs
<1>12. ASSUME NEW e \in Emails, AnalyzeFallback(e)
      PROVE  (PresentInBox /\ ScansQueueTargets /\ NoSilentPending)'
  BY <1>12, GotoType DEF AnalyzeFallback, WorkerPcs
<1>13. ASSUME NEW e \in Emails, Persist(e)
      PROVE  (PresentInBox /\ ScansQueueTargets /\ NoSilentPending)'
  BY <1>13, PipelineEndsType, GotoType DEF Persist, Analysed, WorkerPcs
<1>14. ASSUME NEW e \in Emails, PersistLost(e)
      PROVE  (PresentInBox /\ ScansQueueTargets /\ NoSilentPending)'
  BY <1>14, PipelineEndsType, GotoType DEF PersistLost, WorkerPcs
<1>15. ASSUME NEW e \in Emails, PersistConflict(e)
      PROVE  (PresentInBox /\ ScansQueueTargets /\ NoSilentPending)'
  BY <1>15 DEF PersistConflict
<1>16. ASSUME NEW e \in Emails, DupDelete(e)
      PROVE  (PresentInBox /\ ScansQueueTargets /\ NoSilentPending)'
  BY <1>16, PipelineEndsType, GotoType DEF DupDelete, Gone, WorkerPcs
<1>17. ASSUME NEW e \in Emails, Mark(e)
      PROVE  (PresentInBox /\ ScansQueueTargets /\ NoSilentPending)'
  BY <1>17, GotoType DEF Mark, WithStatus, NoHole, WorkerPcs
<1>18. ASSUME NEW e \in Emails, MarkFails(e)
      PROVE  (PresentInBox /\ ScansQueueTargets /\ NoSilentPending)'
  BY <1>18, GotoType DEF MarkFails, WorkerPcs
<1>19. ASSUME NEW e \in Emails, Finish(e)
      PROVE  (PresentInBox /\ ScansQueueTargets /\ NoSilentPending)'
  BY <1>19, JobDoneType DEF Finish
<1>20. ASSUME NEW e \in Emails, Catch(e)
      PROVE  (PresentInBox /\ ScansQueueTargets /\ NoSilentPending)'
  <2>1. PresentInBox'
    BY <1>20 DEF Catch, WithStatus, NoHole, IdleWorker
  <2>2. ScansQueueTargets'
    BY <1>20 DEF Catch, WithStatus, NoHole, IdleWorker
  <2>3. NoSilentPending'
    BY <1>20 DEF Catch, WithStatus, NoHole, IdleWorker
  <2> QED
    BY <2>1, <2>2, <2>3
<1>21. ASSUME NEW e \in Emails, CatchUnmarked(e)
      PROVE  (PresentInBox /\ ScansQueueTargets /\ NoSilentPending)'
  <2>1. PresentInBox'
    BY <1>21 DEF CatchUnmarked, Hole, IdleWorker
  <2>2. ScansQueueTargets'
    BY <1>21 DEF CatchUnmarked, Hole, IdleWorker
  <2>3. NoSilentPending'
    <3> SUFFICES ASSUME NEW d \in Emails, Stranded(d)'
                 PROVE  Owed(d)' \/ holes'[d] # {}
      OBVIOUS
    <3>1. UNCHANGED <<email, sync, req>>
      BY <1>21 DEF CatchUnmarked
    <3>2. CASE d = e
      <4>1. worker'[e] = IdleWorker /\ Pending(e) /\ ~Live(job'[e])
        BY <1>21, <3>1, <3>2 DEF CatchUnmarked, IdleWorker
      <4>2. holes'[e] = holes[e] \cup {"unmarked"}
        BY <1>21, <4>1 DEF CatchUnmarked, Hole
      <4> QED
        BY <3>2, <4>2
    <3>3. CASE d # e
      <4>1. job'[d] = job[d] /\ worker'[d] = worker[d] /\ holes'[d] = holes[d]
        BY <1>21, <3>3 DEF CatchUnmarked, Hole
      <4>2. Stranded(d)
        BY <3>1, <4>1
      <4>3. Owed(d) \/ holes[d] # {}
        BY <4>2
      <4> QED
        BY <3>1, <4>1, <4>3
    <3> QED
      BY <3>2, <3>3
  <2> QED
    BY <2>1, <2>2, <2>3
<1>22. ASSUME NEW e \in Emails, LateNothing(e)
      PROVE  (PresentInBox /\ ScansQueueTargets /\ NoSilentPending)'
  BY <1>22 DEF LateNothing
<1>23. ASSUME NEW e \in Emails, LateMalicious(e)
      PROVE  (PresentInBox /\ ScansQueueTargets /\ NoSilentPending)'
  BY <1>23 DEF LateMalicious
<1>24. ASSUME NEW e \in Emails, LateConflict(e)
      PROVE  (PresentInBox /\ ScansQueueTargets /\ NoSilentPending)'
  BY <1>24 DEF LateConflict
<1>25. ASSUME NEW e \in Emails, LateDupDelete(e)
      PROVE  (PresentInBox /\ ScansQueueTargets /\ NoSilentPending)'
  BY <1>25 DEF LateDupDelete, Gone
<1>26. ASSUME NEW e \in Emails, Promote(e)
      PROVE  (PresentInBox /\ ScansQueueTargets /\ NoSilentPending)'
  BY <1>26 DEF Promote
<1>27. ASSUME NEW e \in Emails, Stall(e)
      PROVE  (PresentInBox /\ ScansQueueTargets /\ NoSilentPending)'
  BY <1>27 DEF Stall, Hole
<1>28. ASSUME NEW e \in Emails, Evict(e)
      PROVE  (PresentInBox /\ ScansQueueTargets /\ NoSilentPending)'
  BY <1>28 DEF Evict, Evictable, NoJob
<1>29. ASSUME NEW e \in Emails, Age(e)
      PROVE  (PresentInBox /\ ScansQueueTargets /\ NoSilentPending)'
  BY <1>29 DEF Age
<1>30. ASSUME NEW h \in Handlers, NEW e \in Emails, BeginScan(h, e)
      PROVE  (PresentInBox /\ ScansQueueTargets /\ NoSilentPending)'
  BY <1>30 DEF BeginScan
<1>31. ASSUME NEW h \in Handlers, NEW box \in Mailboxes, BeginScanAll(h, box)
      PROVE  (PresentInBox /\ ScansQueueTargets /\ NoSilentPending)'
  BY <1>31 DEF BeginScanAll
<1>32. ASSUME NEW h \in Handlers, NEW e \in Emails, BeginCancel(h, e)
      PROVE  (PresentInBox /\ ScansQueueTargets /\ NoSilentPending)'
  BY <1>32 DEF BeginCancel, RemoveJob, NoJob, IdleRequest
<1>33. ASSUME NEW h \in Handlers, NEW box \in Mailboxes, BeginClear(h, box)
      PROVE  (PresentInBox /\ ScansQueueTargets /\ NoSilentPending)'
  <2>1. /\ UNCHANGED <<email, boxes, sync, worker>>
        /\ req[h].pc = "idle" /\ req' = [req EXCEPT ![h] = [IdleRequest EXCEPT !.pc = "cleanPaused",
                                            !.targets = {d \in Emails : MailboxOf[d] = box}]]
    BY <1>33 DEF BeginClear
  <2>2. /\ req'[h].pc = "cleanPaused" /\ req'[h].noReport = {}
        /\ req'[h].targets = {d \in Emails : MailboxOf[d] = box}
    BY <2>1 DEF IdleRequest
  <2>3. \A g \in Handlers \ {h} : req'[g] = req[g]
    BY <2>1
  <2>4. Clean(box, "waiting") \/ UNCHANGED <<job, holes>>
    BY <1>33 DEF BeginClear
  <2>5. \A d \in Emails : /\ holes[d] \subseteq holes'[d]
                          /\ Stranded(d)' => Stranded(d) \/ MailboxOf[d] = box \/ holes'[d] # {}
    BY <2>1, <2>4, CleanStrands
  <2>6. \A d \in Emails : Owed(d) => Owed(d)'
    BY <2>1, <2>2, <2>3
  <2>7. \A d \in Emails : MailboxOf[d] = box => Owed(d)'
    BY <2>2
  <2>8. (PresentInBox /\ ScansQueueTargets)'
    BY <2>1, <2>2, <2>3
  <2> QED BY <2>5, <2>6, <2>7, <2>8
<1>34. ASSUME NEW h \in Handlers, ScanWrite(h)
      PROVE  (PresentInBox /\ ScansQueueTargets /\ NoSilentPending)'
  BY <1>34 DEF ScanWrite, NoHole, Progress
<1>35. ASSUME NEW h \in Handlers, ScanAllWrite(h)
      PROVE  (PresentInBox /\ ScansQueueTargets /\ NoSilentPending)'
  BY <1>35 DEF ScanAllWrite, WithStatus, Progress
<1>36. ASSUME NEW h \in Handlers, ScanAdd(h)
      PROVE  (PresentInBox /\ ScansQueueTargets /\ NoSilentPending)'
  <2> DEFINE S == req[h].targets
  <2>1. /\ QueueAdd(S, "scan") /\ req' = [req EXCEPT ![h] = IdleRequest]
        /\ UNCHANGED <<email, worker, boxes, sync>>
    BY <1>36 DEF ScanAdd, Done
  <2>2. S \subseteq Emails
    BY DEF RequestStates
  <2>3. \A d \in Emails : /\ d \in S /\ Stranded(d)' => holes'[d] # {}
                          /\ d \notin S => job'[d] = job[d] /\ holes'[d] = holes[d]
    BY <2>1, <2>2, QueueAddSettles DEF Origins
  <2>4. \A d \in Emails \ S : Stranded(d)' = Stranded(d) /\ (Owed(d) => Owed(d)')
    BY <2>1, <2>3 DEF IdleRequest
  <2>5. (PresentInBox /\ ScansQueueTargets)'
    BY <2>1 DEF IdleRequest
  <2> QED BY <2>3, <2>4, <2>5
<1>37. ASSUME NEW h \in Handlers, NEW box \in Mailboxes, CleanPaused(h, box)
      PROVE  (PresentInBox /\ ScansQueueTargets /\ NoSilentPending)'
  <2>1. /\ UNCHANGED <<email, boxes, sync, worker>>
        /\ req' = [req EXCEPT ![h].pc = "cleanDelayed"]
        /\ req[h].targets = {d \in Emails : MailboxOf[d] = box}
    BY <1>37 DEF CleanPaused, Progress
  <2>2. /\ req'[h].pc = "cleanDelayed" /\ req'[h].targets = {d \in Emails : MailboxOf[d] = box}
        /\ req'[h].noReport = req[h].noReport
    BY <2>1 DEF RequestStates
  <2>3. \A g \in Handlers \ {h} : req'[g] = req[g]
    BY <2>1
  <2>4. Clean(box, "waiting") \/ UNCHANGED <<job, holes>>
    BY <1>37 DEF CleanPaused
  <2>5. \A d \in Emails : /\ holes[d] \subseteq holes'[d]
                          /\ Stranded(d)' => Stranded(d) \/ MailboxOf[d] = box \/ holes'[d] # {}
    BY <2>1, <2>4, CleanStrands
  <2>6. \A d \in Emails : Owed(d) => Owed(d)'
    BY <2>1, <2>2, <2>3
  <2>7. \A d \in Emails : MailboxOf[d] = box => Owed(d)'
    BY <2>2
  <2>8. (PresentInBox /\ ScansQueueTargets)'
    BY <2>1, <2>2, <2>3
  <2> QED BY <2>5, <2>6, <2>7, <2>8
<1>38. ASSUME NEW h \in Handlers, NEW box \in Mailboxes, CleanDelayed(h, box)
      PROVE  (PresentInBox /\ ScansQueueTargets /\ NoSilentPending)'
  <2>1. /\ UNCHANGED <<email, boxes, sync, worker>>
        /\ req' = [req EXCEPT ![h].pc = "clearMark"]
        /\ req[h].targets = {d \in Emails : MailboxOf[d] = box}
    BY <1>38 DEF CleanDelayed, Progress
  <2>2. /\ req'[h].pc = "clearMark" /\ req'[h].targets = {d \in Emails : MailboxOf[d] = box}
        /\ req'[h].noReport = req[h].noReport
    BY <2>1 DEF RequestStates
  <2>3. \A g \in Handlers \ {h} : req'[g] = req[g]
    BY <2>1
  <2>4. Clean(box, "delayed")
    BY <1>38 DEF CleanDelayed
  <2>5. \A d \in Emails : /\ holes[d] \subseteq holes'[d]
                          /\ Stranded(d)' => Stranded(d) \/ MailboxOf[d] = box \/ holes'[d] # {}
    BY <2>1, <2>4, CleanStrands
  <2>6. \A d \in Emails : Owed(d) => Owed(d)'
    BY <2>1, <2>2, <2>3
  <2>7. \A d \in Emails : MailboxOf[d] = box => Owed(d)'
    BY <2>2
  <2>8. (PresentInBox /\ ScansQueueTargets)'
    BY <2>1, <2>2, <2>3
  <2> QED BY <2>5, <2>6, <2>7, <2>8
<1>39. ASSUME NEW h \in Handlers, MarkFailed(h)
      PROVE  (PresentInBox /\ ScansQueueTargets /\ NoSilentPending)'
  BY <1>39 DEF MarkFailed, WithStatus, NoHole, Done, IdleRequest
<1>40. ASSUME NEW h \in Handlers, Abandon(h)
      PROVE  (PresentInBox /\ ScansQueueTargets /\ NoSilentPending)'
  BY <1>40 DEF Abandon, Hole, Done, IdleRequest
<1>41. ASSUME NEW e \in Emails, Delete(e)
      PROVE  (PresentInBox /\ ScansQueueTargets /\ NoSilentPending)'
  <2>1. UNCHANGED <<boxes, job, sync, worker, req, holes>>
    BY <1>41 DEF Delete
  <2>2. \A d \in Emails : Present(d)' => /\ Present(d)
                                         /\ email'[d].status = email[d].status
    <3>1. CASE MailboxOf[e] \in trash
      <4>1. email' = [email EXCEPT ![e] = [email[e] EXCEPT !.folder = "TRASH"]]
        BY <1>41, <3>1 DEF Delete
      <4>2. /\ [email[e] EXCEPT !.folder = "TRASH"].st = email[e].st
            /\ [email[e] EXCEPT !.folder = "TRASH"].status = email[e].status
        BY DEF EmailRows
      <4> QED BY <4>1, <4>2
    <3>2. CASE MailboxOf[e] \notin trash
      <4>1. email' = Gone({e})
        BY <1>41, <3>2 DEF Delete
      <4>2. [email[e] EXCEPT !.st = "deleted"].st = "deleted"
        BY DEF EmailRows
      <4> QED BY <4>1, <4>2 DEF Gone
    <3> QED BY <3>1, <3>2
  <2> QED BY <2>1, <2>2
<1>42. ASSUME NEW e \in Emails, NEW type \in {"spam", "phishing"}, Report(e, type)
      PROVE  (PresentInBox /\ ScansQueueTargets /\ NoSilentPending)'
  BY <1>42 DEF Report, Reported
<1>43. ASSUME NEW e \in Emails, NEW folder \in FolderTypes \ {"MALWARE"}, Reclassify(e, folder)
      PROVE  (PresentInBox /\ ScansQueueTargets /\ NoSilentPending)'
  <2>1. UNCHANGED <<boxes, job, sync, worker, req, holes>>
    BY <1>43 DEF Reclassify
  <2>2. email' = email \/ email' = [email EXCEPT ![e] = Refiled(email[e], folder)]
    BY <1>43 DEF Reclassify
  <2>3. /\ Refiled(email[e], folder).st = email[e].st
        /\ Refiled(email[e], folder).status = email[e].status
    BY DEF Refiled, EmailRows
  <2> QED BY <2>1, <2>2, <2>3
<1>44. ASSUME NEW box \in Mailboxes, RemoveMailbox(box)
      PROVE  (PresentInBox /\ ScansQueueTargets /\ NoSilentPending)'
  BY <1>44 DEF RemoveMailbox, Gone
<1>45. ASSUME NEW box \in Mailboxes, NEW flag \in BOOLEAN, SetPaused(box, flag)
      PROVE  (PresentInBox /\ ScansQueueTargets /\ NoSilentPending)'
  BY <1>45 DEF SetPaused
<1>46. ASSUME NEW e \in Emails, StoreSent(e)
       PROVE  (PresentInBox /\ ScansQueueTargets /\ NoSilentPending)'
  <2>1. /\ MailboxOf[e] \in boxes /\ holes'[e] # {} /\ email'[e].st = "present"
        /\ \A d \in Emails \ {e} : email'[d] = email[d] /\ holes'[d] = holes[d]
    BY <1>46, StoredRow DEF StoreSent, Request, Hole, FolderTypes
  <2>2. UNCHANGED <<boxes, job, sync, worker, req>>
    BY <1>46 DEF StoreSent
  <2>3. PresentInBox' /\ ScansQueueTargets'
    BY <2>1, <2>2
  <2>4. ASSUME NEW d \in Emails, Stranded(d)' PROVE Owed(d)' \/ holes'[d] # {}
    BY <2>1, <2>2, <2>4
  <2> QED BY <2>3, <2>4
<1>47. CASE Crash
  BY <1>47 DEF Crash, Hole, IdleWorker, IdleRequest
<1>48. CASE UNCHANGED vars
  BY <1>48 DEF vars
<1> QED BY <1>1, <1>2, <1>3, <1>4, <1>5, <1>6, <1>7, <1>8, <1>9, <1>10, <1>11, <1>12,
     <1>13, <1>14, <1>15, <1>16, <1>17, <1>18, <1>19, <1>20, <1>21, <1>22, <1>23, <1>24,
     <1>25, <1>26, <1>27, <1>28, <1>29, <1>30, <1>31, <1>32, <1>33, <1>34, <1>35, <1>36,
     <1>37, <1>38, <1>39, <1>40, <1>41, <1>42, <1>43, <1>44, <1>45, <1>46, <1>47, <1>48 DEF
     Next, SyncStep, Process, LateScan, Serve, Begin, Move

\* A record that reads PENDING is going to be analysed, is owed a job or a status
\* by a handler in progress, or was stranded by one of the named causes.
THEOREM NothingStrandedSilently == Spec => []NoSilentPending
<1>1. PendingInv => NoSilentPending
  BY DEF PendingInv
<1> QED BY <1>1, PendingInvInit, PendingInvNext, PTL DEF Spec

-----------------------------------------------------------------------------
(* The folder, the flags and the malware verdict.                          *)

\* A record is created clean: the sync that is about to create it found no row.
AbsentIsClean ==
    \A e \in Emails : /\ email[e].st = "absent" => ~email[e].malicious
                      /\ sync[e] = "create" => email[e].st = "absent"
FilingInv ==
    TypeInv /\ AbsentIsClean /\ MalwareFolderUnflagged /\ MaliciousOnlyMovedByOwner

LEMMA WithStatusFiling ==
    ASSUME TypeOK, NEW S, NEW status \in Statuses, NEW e \in Emails
    PROVE  LET row == WithStatus(S, status)[e] IN
           /\ row.st = email[e].st /\ row.folder = email[e].folder
           /\ row.flags = email[e].flags /\ row.malicious = email[e].malicious
BY DEF TypeOK, WithStatus, EmailRows

\* A status is no part of how a record is filed, and a removed record is not filed.
LEMMA StatusKeepsFiling ==
    ASSUME FilingInv, NEW S, NEW status \in Statuses, email' = WithStatus(S, status),
           UNCHANGED <<moved, sync>>
    PROVE  (AbsentIsClean /\ MalwareFolderUnflagged /\ MaliciousOnlyMovedByOwner)'
BY WithStatusFiling DEF FilingInv, TypeInv, AbsentIsClean, MalwareFolderUnflagged,
                        MaliciousOnlyMovedByOwner, Present

LEMMA GoneKeepsFiling ==
    ASSUME FilingInv, NEW S, \A e \in S : e \in Emails /\ Present(e), email' = Gone(S),
           UNCHANGED <<moved, sync>>
    PROVE  (AbsentIsClean /\ MalwareFolderUnflagged /\ MaliciousOnlyMovedByOwner)'
<1>1. \A e \in Emails : email'[e] = email[e] \/ (Present(e) /\ email'[e].st = "deleted")
  <2> SUFFICES ASSUME NEW e \in Emails
               PROVE  email'[e] = email[e] \/ (Present(e) /\ email'[e].st = "deleted")
    OBVIOUS
  <2>1. [email[e] EXCEPT !.st = "deleted"].st = "deleted"
    BY DEF FilingInv, TypeInv, TypeOK, EmailRows
  <2>2. email'[e] = IF e \in S THEN [email[e] EXCEPT !.st = "deleted"] ELSE email[e]
    BY Zenon DEF Gone
  <2>3. CASE e \in S
    BY <2>1, <2>2, <2>3
  <2>4. CASE e \notin S
    BY <2>2, <2>4
  <2> QED BY <2>3, <2>4
<1> QED BY <1>1 DEF FilingInv, AbsentIsClean, MalwareFolderUnflagged,
                    MaliciousOnlyMovedByOwner, Present

LEMMA AnalysedFiling ==
    ASSUME NEW row \in EmailRows, NEW verdict \in Verdicts
    PROVE  /\ Analysed(row, verdict).st = row.st
           /\ Analysed(row, verdict).folder = "MALWARE" => Analysed(row, verdict).flags = {}
           /\ Analysed(row, verdict).malicious => Analysed(row, verdict).folder = "MALWARE"
<1> DEFINE folder == IF VerdictFolder(verdict) = "none" THEN row.folder ELSE VerdictFolder(verdict)
<1>1. /\ Analysed(row, verdict).st = row.st
      /\ Analysed(row, verdict).folder = folder
      /\ Analysed(row, verdict).flags = VerdictFlags(verdict)
      /\ Analysed(row, verdict).malicious = (verdict = "malware")
  BY DEF Analysed, EmailRows
<1>2. /\ verdict = "malware" => VerdictFolder(verdict) = "MALWARE"
      /\ verdict = "spam" => VerdictFolder(verdict) = "SPAM"
      /\ verdict = "phishing" => VerdictFolder(verdict) = "PHISHING"
  BY DEF VerdictFolder
<1>3. verdict \notin {"spam", "phishing"} => VerdictFlags(verdict) = {}
  BY DEF VerdictFlags
<1> QED BY <1>1, <1>2, <1>3

LEMMA FilingInvInit == Init => FilingInv
BY TypeInvInit
   DEF Init, FilingInv, AbsentIsClean, MalwareFolderUnflagged, MaliciousOnlyMovedByOwner, Present

LEMMA FilingInvNext == FilingInv /\ [Next]_vars => FilingInv'
<1> DEFINE Goal == AbsentIsClean /\ MalwareFolderUnflagged /\ MaliciousOnlyMovedByOwner
<1> SUFFICES ASSUME FilingInv, TypeInv', [Next]_vars PROVE Goal'
  BY TypeInvNext DEF FilingInv
<1> USE DEF FilingInv, TypeInv, TypeOK, AbsentIsClean, MalwareFolderUnflagged,
            MaliciousOnlyMovedByOwner, Present, emailVars, queueVars, lateVars, requestVars,
            observers
<1>1. ASSUME NEW e \in Emails, SyncFind(e) PROVE Goal'
  BY <1>1 DEF SyncFind
<1>2. ASSUME NEW e \in Emails, NEW folder \in SyncFolders, SyncCreate(e, folder) PROVE Goal'
  <2>1. /\ UNCHANGED moved /\ sync[e] = "create" /\ sync'[e] # "create"
        /\ \A d \in Emails \ {e} : sync'[d] = sync[d]
    BY <1>2 DEF SyncCreate
  <2>2. CASE Occupied(e, folder) \/ MailboxOf[e] \notin boxes
    BY <1>2, <2>1, <2>2 DEF SyncCreate
  <2>3. CASE ~(Occupied(e, folder) \/ MailboxOf[e] \notin boxes)
    <3>1. PICK flags \in SyncFlags(folder) :
            email' = [email EXCEPT ![e] = Stored(email[e], folder, flags)]
      BY <1>2, <2>3 DEF SyncCreate
    <3>2. LET row == Stored(email[e], folder, flags) IN
          row.folder = folder /\ row.malicious = email[e].malicious /\ row.st = "present"
      BY StoredRow, SyncFlagsType
    <3>3. folder # "MALWARE"
      BY SyncFlagsType
    <3> QED BY <2>1, <3>1, <3>2, <3>3
  <2> QED BY <2>2, <2>3
<1>3. ASSUME NEW e \in Emails, SyncStore(e) PROVE Goal'
  BY <1>3 DEF SyncStore
<1>4. ASSUME NEW e \in Emails, SyncEnqueue(e) PROVE Goal'
  BY <1>4 DEF SyncEnqueue
<1>5. ASSUME NEW e \in Emails, SyncAbandon(e) PROVE Goal'
  BY <1>5 DEF SyncAbandon
<1>6. ASSUME NEW e \in Emails, Take(e) PROVE Goal'
  BY <1>6 DEF Take
<1>7. ASSUME NEW e \in Emails, LoadMissing(e) PROVE Goal'
  BY <1>7 DEF LoadMissing
<1>8. ASSUME NEW e \in Emails, Load(e) PROVE Goal'
  BY <1>8 DEF Load
<1>9. ASSUME NEW e \in Emails, Fetch(e) PROVE Goal'
  BY <1>9 DEF Fetch
<1>10. ASSUME NEW e \in Emails, NEW verdict \in Verdicts, NEW slow \in BOOLEAN, AnalyzeVerdict(e, verdict, slow) PROVE Goal'
  BY <1>10 DEF AnalyzeVerdict
<1>11. ASSUME NEW e \in Emails, AnalyzeFails(e) PROVE Goal'
  BY <1>11 DEF AnalyzeFails
<1>12. ASSUME NEW e \in Emails, AnalyzeFallback(e) PROVE Goal'
  BY <1>12 DEF AnalyzeFallback
<1>13. ASSUME NEW e \in Emails, Persist(e) PROVE Goal'
  <2>1. /\ email' = [email EXCEPT ![e] = Analysed(email[e], worker[e].verdict)]
        /\ moved' = [moved EXCEPT ![e] = FALSE]
        /\ Present(e) /\ UNCHANGED sync
    BY <1>13 DEF Persist
  <2>2. worker[e].verdict \in Verdicts /\ email[e] \in EmailRows
    BY DEF WorkerStates
  <2> QED BY <2>1, <2>2, AnalysedFiling
<1>14. ASSUME NEW e \in Emails, PersistLost(e) PROVE Goal'
  BY <1>14 DEF PersistLost
<1>15. ASSUME NEW e \in Emails, PersistConflict(e) PROVE Goal'
  BY <1>15 DEF PersistConflict
<1>16. ASSUME NEW e \in Emails, DupDelete(e) PROVE Goal'
  <2>1. UNCHANGED <<moved, sync>>
    BY <1>16 DEF DupDelete
  <2>2. CASE Present(e)
    <3> DEFINE S == {e}
    <3>1. email' = Gone(S) /\ \A d \in S : d \in Emails /\ Present(d)
      BY <1>16, <2>2 DEF DupDelete
    <3> HIDE DEF S
    <3> QED BY <2>1, <3>1, GoneKeepsFiling
  <2>3. CASE ~Present(e)
    BY <1>16, <2>1, <2>3 DEF DupDelete
  <2> QED BY <2>2, <2>3
<1>17. ASSUME NEW e \in Emails, Mark(e) PROVE Goal'
  <2>1. UNCHANGED <<moved, sync>> /\ \E S : email' = WithStatus(S, "COMPLETED")
    BY <1>17 DEF Mark
  <2> QED BY <2>1, StatusKeepsFiling DEF Statuses
<1>18. ASSUME NEW e \in Emails, MarkFails(e) PROVE Goal'
  BY <1>18 DEF MarkFails
<1>19. ASSUME NEW e \in Emails, Finish(e) PROVE Goal'
  BY <1>19 DEF Finish
<1>20. ASSUME NEW e \in Emails, Catch(e) PROVE Goal'
  <2>1. UNCHANGED <<moved, sync>> /\ \E S : email' = WithStatus(S, "FAILED")
    BY <1>20 DEF Catch
  <2> QED BY <2>1, StatusKeepsFiling DEF Statuses
<1>21. ASSUME NEW e \in Emails, CatchUnmarked(e) PROVE Goal'
  BY <1>21 DEF CatchUnmarked
<1>22. ASSUME NEW e \in Emails, LateNothing(e) PROVE Goal'
  BY <1>22 DEF LateNothing
<1>23. ASSUME NEW e \in Emails, LateMalicious(e) PROVE Goal'
  BY <1>23 DEF LateMalicious, EmailRows
<1>24. ASSUME NEW e \in Emails, LateConflict(e) PROVE Goal'
  BY <1>24 DEF LateConflict
<1>25. ASSUME NEW e \in Emails, LateDupDelete(e) PROVE Goal'
  <2>1. UNCHANGED <<moved, sync>>
    BY <1>25 DEF LateDupDelete
  <2>2. CASE Present(e)
    <3> DEFINE S == {e}
    <3>1. email' = Gone(S) /\ \A d \in S : d \in Emails /\ Present(d)
      BY <1>25, <2>2 DEF LateDupDelete
    <3> HIDE DEF S
    <3> QED BY <2>1, <3>1, GoneKeepsFiling
  <2>3. CASE ~Present(e)
    BY <1>25, <2>1, <2>3 DEF LateDupDelete
  <2> QED BY <2>2, <2>3
<1>26. ASSUME NEW e \in Emails, Promote(e) PROVE Goal'
  BY <1>26 DEF Promote
<1>27. ASSUME NEW e \in Emails, Stall(e) PROVE Goal'
  BY <1>27 DEF Stall
<1>28. ASSUME NEW e \in Emails, Evict(e) PROVE Goal'
  BY <1>28 DEF Evict
<1>29. ASSUME NEW e \in Emails, Age(e) PROVE Goal'
  BY <1>29 DEF Age, EmailRows
<1>30. ASSUME NEW h \in Handlers, NEW e \in Emails, BeginScan(h, e) PROVE Goal'
  BY <1>30 DEF BeginScan
<1>31. ASSUME NEW h \in Handlers, NEW box \in Mailboxes, BeginScanAll(h, box) PROVE Goal'
  BY <1>31 DEF BeginScanAll
<1>32. ASSUME NEW h \in Handlers, NEW e \in Emails, BeginCancel(h, e) PROVE Goal'
  BY <1>32 DEF BeginCancel
<1>33. ASSUME NEW h \in Handlers, NEW box \in Mailboxes, BeginClear(h, box) PROVE Goal'
  BY <1>33 DEF BeginClear
<1>34. ASSUME NEW h \in Handlers, ScanWrite(h) PROVE Goal'
  <2>1. PICK e \in req[h].targets :
          email' = [email EXCEPT ![e] = [email[e] EXCEPT
                     !.status = IF e \in req[h].noReport THEN "PENDING" ELSE "COMPLETED",
                     !.old = FALSE]]
    BY <1>34 DEF ScanWrite
  <2>2. UNCHANGED <<moved, sync>> /\ e \in Emails
    BY <1>34 DEF ScanWrite, RequestStates
  <2>3. \A status : LET row == [email[e] EXCEPT !.status = status, !.old = FALSE] IN
          /\ row.st = email[e].st /\ row.folder = email[e].folder
          /\ row.flags = email[e].flags /\ row.malicious = email[e].malicious
    BY <2>2 DEF EmailRows
  <2> QED BY <2>1, <2>2, <2>3
<1>35. ASSUME NEW h \in Handlers, ScanAllWrite(h) PROVE Goal'
  <2>1. UNCHANGED <<moved, sync>> /\ \E S : email' = WithStatus(S, "PENDING")
    BY <1>35 DEF ScanAllWrite
  <2> QED BY <2>1, StatusKeepsFiling DEF Statuses
<1>36. ASSUME NEW h \in Handlers, ScanAdd(h) PROVE Goal'
  BY <1>36 DEF ScanAdd
<1>37. ASSUME NEW h \in Handlers, NEW box \in Mailboxes, CleanPaused(h, box) PROVE Goal'
  BY <1>37 DEF CleanPaused
<1>38. ASSUME NEW h \in Handlers, NEW box \in Mailboxes, CleanDelayed(h, box) PROVE Goal'
  BY <1>38 DEF CleanDelayed
<1>39. ASSUME NEW h \in Handlers, MarkFailed(h) PROVE Goal'
  <2>1. UNCHANGED <<moved, sync>> /\ \E S : email' = WithStatus(S, "FAILED")
    BY <1>39 DEF MarkFailed
  <2> QED BY <2>1, StatusKeepsFiling DEF Statuses
<1>40. ASSUME NEW h \in Handlers, Abandon(h) PROVE Goal'
  BY <1>40 DEF Abandon
<1>41. ASSUME NEW e \in Emails, Delete(e) PROVE Goal'
  <2>1. UNCHANGED sync /\ Present(e)
    BY <1>41 DEF Delete
  <2>2. CASE MailboxOf[e] \in trash
    <3>1. /\ email' = [email EXCEPT ![e] = [email[e] EXCEPT !.folder = "TRASH"]]
          /\ moved' = [moved EXCEPT ![e] = TRUE]
      BY <1>41, <2>2 DEF Delete
    <3>2. /\ [email[e] EXCEPT !.folder = "TRASH"].folder = "TRASH"
          /\ [email[e] EXCEPT !.folder = "TRASH"].st = email[e].st
      BY DEF EmailRows
    <3> QED BY <2>1, <3>1, <3>2
  <2>3. CASE MailboxOf[e] \notin trash
    <3> DEFINE S == {e}
    <3>1. /\ email' = Gone(S) /\ UNCHANGED moved
          /\ \A d \in S : d \in Emails /\ Present(d)
      BY <1>41, <2>1, <2>3 DEF Delete
    <3> HIDE DEF S
    <3> QED BY <2>1, <3>1, GoneKeepsFiling
  <2> QED BY <2>2, <2>3
<1>42. ASSUME NEW e \in Emails, NEW type \in {"spam", "phishing"}, Report(e, type) PROVE Goal'
  <2>1. /\ Reported(email[e], type).folder # "MALWARE"
        /\ Reported(email[e], type).st = email[e].st
    BY DEF Reported, VerdictFolder, EmailRows
  <2>2. /\ email' = [email EXCEPT ![e] = Reported(email[e], type)]
        /\ moved' = [moved EXCEPT ![e] = TRUE] /\ UNCHANGED sync /\ Present(e)
    BY <1>42 DEF Report
  <2> QED BY <2>1, <2>2
<1>43. ASSUME NEW e \in Emails, NEW folder \in FolderTypes \ {"MALWARE"}, Reclassify(e, folder) PROVE Goal'
  <2>1. /\ Refiled(email[e], folder).folder # "MALWARE"
        /\ Refiled(email[e], folder).st = email[e].st
    BY DEF Refiled, EmailRows
  <2>2. \/ UNCHANGED <<email, moved>>
        \/ /\ email' = [email EXCEPT ![e] = Refiled(email[e], folder)]
           /\ moved' = [moved EXCEPT ![e] = TRUE]
    BY <1>43 DEF Reclassify
  <2>3. UNCHANGED sync /\ Present(e)
    BY <1>43 DEF Reclassify
  <2> QED BY <2>1, <2>2, <2>3
<1>44. ASSUME NEW box \in Mailboxes, RemoveMailbox(box) PROVE Goal'
  <2> DEFINE S == {e \in Emails : Present(e) /\ MailboxOf[e] = box}
  <2>1. email' = Gone(S) /\ UNCHANGED <<moved, sync>>
    BY <1>44 DEF RemoveMailbox
  <2> QED BY <2>1, GoneKeepsFiling
<1>45. ASSUME NEW box \in Mailboxes, NEW flag \in BOOLEAN, SetPaused(box, flag) PROVE Goal'
  BY <1>45 DEF SetPaused
<1>46. ASSUME NEW e \in Emails, StoreSent(e) PROVE Goal'
  <2>1. LET row == Stored(email[e], "SENT", {}) IN
        row.folder = "SENT" /\ row.malicious = email[e].malicious /\ row.st = "present"
    BY StoredRow DEF FolderTypes
  <2> QED BY <1>46, <2>1 DEF StoreSent
<1>47. CASE Crash
  BY <1>47 DEF Crash
<1>48. CASE UNCHANGED vars
  BY <1>48 DEF vars
<1> QED BY <1>1, <1>2, <1>3, <1>4, <1>5, <1>6, <1>7, <1>8, <1>9, <1>10, <1>11, <1>12,
     <1>13, <1>14, <1>15, <1>16, <1>17, <1>18, <1>19, <1>20, <1>21, <1>22, <1>23, <1>24,
     <1>25, <1>26, <1>27, <1>28, <1>29, <1>30, <1>31, <1>32, <1>33, <1>34, <1>35, <1>36,
     <1>37, <1>38, <1>39, <1>40, <1>41, <1>42, <1>43, <1>44, <1>45, <1>46, <1>47, <1>48 DEF
     Next, SyncStep, Process, LateScan, Serve, Begin, Move

\* A record in the MALWARE folder is flagged neither as spam nor as phishing,
\* whichever of the worker, the late scan and the owner wrote it last.
THEOREM MalwareIsUnflagged == Spec => []MalwareFolderUnflagged
<1>1. FilingInv => MalwareFolderUnflagged
  BY DEF FilingInv
<1> QED BY <1>1, FilingInvInit, FilingInvNext, PTL DEF Spec

\* A record with a malicious attachment is outside the MALWARE folder only if its
\* owner moved it after the verdict.
THEOREM OnlyTheOwnerMovesMalware == Spec => []MaliciousOnlyMovedByOwner
<1>1. FilingInv => MaliciousOnlyMovedByOwner
  BY DEF FilingInv
<1> QED BY <1>1, FilingInvInit, FilingInvNext, PTL DEF Spec

-----------------------------------------------------------------------------
(* A finished analysis.                                                    *)

\* The record has its report and reads COMPLETED.
Settled(row) == row.report /\ row.status = "COMPLETED"

LEMMA SettledRow ==
    ASSUME NEW row \in EmailRows, Settled(row)
    PROVE  /\ \A verdict \in Verdicts : Settled(Analysed(row, verdict))
           /\ \A folder \in FolderTypes : Settled(Refiled(row, folder))
           /\ \A type \in {"spam", "phishing"} : Settled(Reported(row, type))
           /\ \A folder \in FolderTypes : Settled([row EXCEPT !.folder = folder])
           /\ Settled([row EXCEPT !.malicious = TRUE, !.flags = {}, !.folder = "MALWARE"])
           /\ Settled([row EXCEPT !.status = "COMPLETED"])
           /\ Settled([row EXCEPT !.st = "deleted"])
           /\ Settled([row EXCEPT !.old = TRUE])
<1>1. \A verdict \in Verdicts : Settled(Analysed(row, verdict))
  BY DEF Settled, EmailRows, Analysed
<1>2. \A folder \in FolderTypes : Settled(Refiled(row, folder))
  BY DEF Settled, EmailRows, Refiled
<1>3. \A type \in {"spam", "phishing"} : Settled(Reported(row, type))
  BY DEF Settled, EmailRows, Reported
<1> QED BY <1>1, <1>2, <1>3 DEF Settled, EmailRows

\* Only three steps of a request write another status over a finished analysis,
\* and each of them changes the request's own progress.
LEMMA SettledNext ==
    ASSUME TypeOK, [Next]_vars, req' = req,
           NEW e \in Emails, Settled(email[e]), Present(e)
    PROVE  Settled(email'[e])
<1> USE DEF TypeOK
<1>1. email[e] \in EmailRows
  OBVIOUS
<1>2. CASE email' = email
  BY <1>2
<1>3. ASSUME NEW S, email' = Gone(S) PROVE Settled(email'[e])
  <2>1. email'[e] = IF e \in S THEN [email[e] EXCEPT !.st = "deleted"] ELSE email[e]
    BY <1>3, Zenon DEF Gone
  <2> QED BY <2>1, <1>1, SettledRow
<1>4. ASSUME NEW d \in Emails, NEW row, email' = [email EXCEPT ![d] = row],
             d = e => Settled(row)
      PROVE  Settled(email'[e])
  BY <1>4
<1>5. ASSUME NEW d \in Emails, NEW folder \in SyncFolders, SyncCreate(d, folder)
      PROVE  Settled(email'[e])
  <2>1. CASE email' = email
    BY <2>1
  <2>2. ASSUME NEW flags \in SyncFlags(folder),
               email' = [email EXCEPT ![d] = Stored(email[d], folder, flags)]
        PROVE  Settled(email'[e])
    BY <2>2, <1>1, SyncFlagsType, StoredRow DEF Settled
  <2> QED BY <2>1, <2>2, <1>5 DEF SyncCreate
<1>6. ASSUME NEW d \in Emails, Persist(d) PROVE Settled(email'[e])
  <2>1. worker[d].verdict \in Verdicts
    BY DEF WorkerStates
  <2>2. email' = [email EXCEPT ![d] = Analysed(email[d], worker[d].verdict)]
    BY <1>6 DEF Persist
  <2> QED BY <2>1, <2>2, <1>1, <1>4, SettledRow
<1>7. ASSUME NEW d \in Emails, Mark(d) PROVE Settled(email'[e])
  <2>1. email'[e] = IF e \in {d} THEN [email[e] EXCEPT !.status = "COMPLETED"] ELSE email[e]
    BY <1>7, Zenon DEF Mark, WithStatus
  <2> QED BY <2>1, <1>1, SettledRow
<1>8. ASSUME NEW d \in Emails, Catch(d) PROVE Settled(email'[e])
  <2>1. d # e
    BY <1>8 DEF Catch, Settled
  <2>2. email'[e] = IF e \in {d} THEN [email[e] EXCEPT !.status = "FAILED"] ELSE email[e]
    BY <1>8, Zenon DEF Catch, WithStatus
  <2> QED BY <2>1, <2>2
<1>9. ASSUME NEW d \in Emails, Process(d) PROVE Settled(email'[e])
  <2>1. CASE DupDelete(d)
    BY <2>1, <1>2, <1>3 DEF DupDelete
  <2> QED BY <2>1, <1>2, <1>6, <1>7, <1>8, <1>9
       DEF Process, LoadMissing, Load, Fetch, AnalyzeVerdict, AnalyzeFails, AnalyzeFallback,
           PersistLost, PersistConflict, MarkFails, Finish, CatchUnmarked, emailVars
<1>10. ASSUME NEW d \in Emails, LateScan(d) PROVE Settled(email'[e])
  <2>1. CASE LateMalicious(d)
    <3>1. email' = [email EXCEPT ![d] = [email[d] EXCEPT !.malicious = TRUE, !.flags = {},
                                                         !.folder = "MALWARE"]]
      BY <2>1 DEF LateMalicious
    <3> QED BY <3>1, <1>1, <1>4, SettledRow
  <2>2. CASE LateDupDelete(d)
    BY <2>2, <1>2, <1>3 DEF LateDupDelete
  <2> QED BY <2>1, <2>2, <1>2, <1>10 DEF LateScan, LateNothing, LateConflict, emailVars
<1>11. ASSUME NEW h \in Handlers, Serve(h) PROVE Settled(email'[e])
  <2>1. req[h] \in RequestStates
    OBVIOUS
  <2>2. CASE ScanWrite(h)
    BY <2>1, <2>2 DEF ScanWrite, Progress, RequestStates
  <2>3. CASE ScanAllWrite(h)
    BY <2>1, <2>3 DEF ScanAllWrite, Progress, RequestStates
  <2>4. CASE MarkFailed(h)
    BY <2>1, <2>4 DEF MarkFailed, Done, RequestStates, IdleRequest
  <2> QED BY <2>2, <2>3, <2>4, <1>2, <1>11
       DEF Serve, ScanAdd, CleanPaused, CleanDelayed, Abandon, emailVars
<1>12. ASSUME Move PROVE Settled(email'[e])
  <2>1. ASSUME NEW d \in Emails, Delete(d) PROVE Settled(email'[e])
    <3>1. CASE email' = [email EXCEPT ![d].folder = "TRASH"]
      <4>1. email' = [email EXCEPT ![d] = [email[d] EXCEPT !.folder = "TRASH"]]
        BY <3>1
      <4> QED BY <4>1, <1>1, <1>4, SettledRow DEF FolderTypes
    <3> QED BY <2>1, <3>1, <1>3 DEF Delete
  <2>2. ASSUME NEW d \in Emails, NEW type \in {"spam", "phishing"}, Report(d, type)
        PROVE  Settled(email'[e])
    <3>1. email' = [email EXCEPT ![d] = Reported(email[d], type)]
      BY <2>2 DEF Report
    <3> QED BY <3>1, <1>1, <1>4, SettledRow
  <2>3. ASSUME NEW d \in Emails, NEW folder \in FolderTypes \ {"MALWARE"}, Reclassify(d, folder)
        PROVE  Settled(email'[e])
    <3>1. CASE email' = [email EXCEPT ![d] = Refiled(email[d], folder)]
      BY <3>1, <1>1, <1>4, SettledRow
    <3> QED BY <2>3, <3>1, <1>2 DEF Reclassify
  <2>4. ASSUME NEW d \in Emails, StoreSent(d) PROVE Settled(email'[e])
    BY <2>4, <1>4, StoredRow DEF StoreSent, Present
  <2> QED BY <2>1, <2>2, <2>3, <2>4, <1>2, <1>3, <1>12
       DEF Move, RemoveMailbox, SetPaused, emailVars
<1>13. ASSUME NEW d \in Emails, Age(d) PROVE Settled(email'[e])
  <2>1. email' = [email EXCEPT ![d] = [email[d] EXCEPT !.old = TRUE]]
    BY <1>13 DEF Age
  <2> QED BY <2>1, <1>1, <1>4, SettledRow
<1>14. ASSUME NEW d \in Emails,
              SyncFind(d) \/ SyncStore(d) \/ SyncEnqueue(d) \/ SyncAbandon(d) \/ Take(d)
              \/ Promote(d) \/ Stall(d) \/ Evict(d)
       PROVE  Settled(email'[e])
  BY <1>2, <1>14 DEF SyncFind, SyncStore, SyncEnqueue, SyncAbandon, Take, Promote, Stall, Evict,
                     emailVars
<1>15. ASSUME NEW h \in Handlers, Begin(h) PROVE Settled(email'[e])
  BY <1>2, <1>15 DEF Begin, BeginScan, BeginCancel, BeginScanAll, BeginClear, emailVars
<1>16. CASE Crash
  BY <1>2, <1>16 DEF Crash, emailVars
<1>17. CASE UNCHANGED vars
  BY <1>2, <1>17 DEF vars, emailVars
<1> QED BY <1>5, <1>9, <1>10, <1>11, <1>12, <1>13, <1>14, <1>15, <1>16, <1>17
     DEF Next, SyncStep

\* No failed attempt, retry, late scan, sync or crash takes COMPLETED and the
\* report away from a record: the catch of EmailProcessProcessor.process and the
\* deletions of duplicates are the steps that could.
THEOREM FailuresKeepReports == Spec => ReportSurvivesFailures
<1>1. TypeOK /\ [Next]_vars
      => [\A e \in Emails :
            /\ Present(e) /\ email[e].report /\ email[e].status = "COMPLETED"
            /\ req' = req
            /\ Present(e)'
            => email'[e].report /\ email'[e].status = "COMPLETED"]_vars
  BY SettledNext DEF Settled
<1> QED BY <1>1, TypeCorrect, PTL DEF Spec, ReportSurvivesFailures

-----------------------------------------------------------------------------
(* How often an attachment is stored.                                      *)

\* Only a job that a sync queued downloads, and a sync queues one job per record.
SyncJob(e) == job[e].st # "none" /\ job[e].origin = "sync"

\* How often the job has been handed out and was past its download, or may have been.
Handed(e) ==
    job[e].attempts + job[e].stalls
        + (IF job[e].st = "active" /\ worker[e].pc \notin {"load", "fetch"} THEN 1 ELSE 0)

CopiesOK(e) ==
    /\ rows[e] <= MaxAttempts + MaxStalled
    /\ e \notin RemoteParts => rows[e] <= 1
    /\ sync[e] = "create" => email[e].st = "absent"
    /\ email[e].st = "absent" => rows[e] = 0 /\ sync[e] \in {"idle", "create"}
    /\ email[e].st = "absent" \/ sync[e] # "idle" => ~SyncJob(e)
    /\ sync[e] = "store" => e \in LocalParts
    /\ sync[e] = "store" \/ (sync[e] = "enqueue" /\ e \in RemoteParts) => rows[e] = 0
    /\ worker[e].pc = "fetch" => e \in RemoteParts /\ SyncJob(e)
    /\ SyncJob(e) /\ Live(job[e]) /\ e \in RemoteParts => rows[e] <= Handed(e)

CopiesInv == TypeInv /\ \A e \in Emails : CopiesOK(e)

\* Steps that store nothing, and no new record, and queue nothing for a sync.
RowKept(e) ==
    /\ rows'[e] \in {0, rows[e]} /\ sync'[e] \in {sync[e], "idle"}
    /\ email'[e].st = "absent" <=> email[e].st = "absent"
JobKept(e) ==
    \/ ~SyncJob(e)' /\ worker'[e].pc # "fetch"
    \/ /\ job'[e] = job[e]
       /\ worker'[e].pc = "fetch" => worker[e].pc = "fetch"
       /\ worker'[e].pc = "load" => worker[e].pc = "load"

LEMMA CopiesTypes ==
    ASSUME TypeInv, NEW e \in Emails
    PROVE  /\ rows[e] \in Nat /\ job[e] \in Jobs /\ job[e].attempts \in Nat
           /\ job[e].stalls \in Nat /\ job[e].stalls <= MaxStalled
           /\ job[e].attempts <= MaxAttempts /\ email[e] \in EmailRows
           /\ Live(job[e]) => job[e].attempts < MaxAttempts
           /\ MaxAttempts \in Nat \ {0} /\ MaxStalled \in Nat
           /\ worker[e].pc # "idle" => job[e].st = "active"
           /\ Handed(e) \in {job[e].attempts + job[e].stalls,
                             job[e].attempts + job[e].stalls + 1}
           /\ sync[e] \in {"idle", "create", "store", "enqueue"}
BY QueueAssumption DEF TypeInv, TypeOK, AttemptsLeft, WorkerHoldsJob, Jobs, Handed

LEMMA CopiesKept ==
    ASSUME TypeInv, NEW e \in Emails, CopiesOK(e), RowKept(e), JobKept(e)
    PROVE  CopiesOK(e)'
<1>1. /\ rows'[e] <= rows[e] /\ rows[e] \in Nat /\ rows'[e] \in Nat
      /\ sync'[e] \in {sync[e], "idle"}
      /\ email'[e].st = "absent" <=> email[e].st = "absent"
  BY CopiesTypes DEF RowKept
<1>2. /\ rows'[e] <= MaxAttempts + MaxStalled
      /\ e \notin RemoteParts => rows'[e] <= 1
      /\ sync'[e] = "create" => email'[e].st = "absent"
      /\ email'[e].st = "absent" => rows'[e] = 0 /\ sync'[e] \in {"idle", "create"}
      /\ sync'[e] = "store" => e \in LocalParts
      /\ sync'[e] = "store" \/ (sync'[e] = "enqueue" /\ e \in RemoteParts) => rows'[e] = 0
  BY <1>1, CopiesTypes DEF CopiesOK
<1>3. CASE ~SyncJob(e)' /\ worker'[e].pc # "fetch"
  BY <1>2, <1>3 DEF CopiesOK
<1>4. CASE /\ job'[e] = job[e]
           /\ worker'[e].pc = "fetch" => worker[e].pc = "fetch"
           /\ worker'[e].pc = "load" => worker[e].pc = "load"
  <2>1. SyncJob(e)' = SyncJob(e) /\ Live(job[e])' = Live(job[e])
    BY <1>4 DEF SyncJob, Live
  <2>2. Handed(e) <= Handed(e)' /\ Handed(e) \in Nat /\ Handed(e)' \in Nat
    BY <1>4, CopiesTypes DEF Handed
  <2>3. SyncJob(e)' /\ Live(job[e])' /\ e \in RemoteParts => rows'[e] <= Handed(e)'
    BY <1>1, <2>1, <2>2 DEF CopiesOK
  <2>4. /\ email'[e].st = "absent" \/ sync'[e] # "idle" => ~SyncJob(e)'
        /\ worker'[e].pc = "fetch" => e \in RemoteParts /\ SyncJob(e)'
    BY <1>1, <1>4, <2>1 DEF CopiesOK
  <2> QED BY <1>2, <2>3, <2>4 DEF CopiesOK
<1> QED BY <1>3, <1>4 DEF JobKept

\* The queue drops jobs, or takes a rescan's.
LEMMA Requeued ==
    ASSUME TypeInv, NEW e \in Emails, worker' = worker,
           job'[e] = job[e] \/ (job[e].st # "active" /\ ~SyncJob(e)')
    PROVE  JobKept(e)
BY CopiesTypes DEF JobKept

LEMMA NotOfSync == /\ NoJob.st = "none"
                   /\ NewJob("scan").origin = "scan"
                   /\ NewJob("sync").attempts = 0 /\ NewJob("sync").stalls = 0
                   /\ NewJob("sync").st = "waiting"
BY DEF NoJob, NewJob

\* The ways a row is written without being stored anew.
LEMMA RowsStay ==
    ASSUME TypeInv, NEW e \in Emails
    PROVE  /\ \A S, status : WithStatus(S, status)[e].st = email[e].st
           /\ \A S : (\A d \in S : d \in Emails /\ Present(d))
                        => (Gone(S)[e].st = "absent" <=> email[e].st = "absent")
BY CopiesTypes DEF WithStatus, Gone, EmailRows, Present

\* The job runs again, or will, with one attempt or one stall counted more; or it ends.
LEMMA CopiesCounted ==
    ASSUME TypeInv, NEW e \in Emails, CopiesOK(e), RowKept(e),
           job[e].st = "active", worker'[e].pc = "idle", job'[e].origin = job[e].origin,
           job'[e].st \in {"waiting", "delayed", "completed", "failed"},
           job'[e].attempts \in Nat, job'[e].stalls \in Nat,
           Live(job'[e]) => job'[e].attempts + job'[e].stalls
                               = job[e].attempts + job[e].stalls + 1
    PROVE  CopiesOK(e)'
<1>1. /\ rows'[e] <= rows[e] /\ rows[e] \in Nat /\ rows'[e] \in Nat
      /\ sync'[e] \in {sync[e], "idle"}
      /\ email'[e].st = "absent" <=> email[e].st = "absent"
  BY CopiesTypes DEF RowKept
<1>2. SyncJob(e)' = SyncJob(e) /\ Live(job[e])
  BY DEF SyncJob, Live, LiveStates
<1>3. SyncJob(e)' /\ Live(job[e])' /\ e \in RemoteParts => rows'[e] <= Handed(e)'
  <2> SUFFICES ASSUME SyncJob(e)', Live(job[e])', e \in RemoteParts
               PROVE  rows'[e] <= Handed(e)'
    OBVIOUS
  <2>1. rows[e] <= Handed(e)
    BY <1>2 DEF CopiesOK
  <2>2. Handed(e)' = job'[e].attempts + job'[e].stalls
    BY DEF Handed
  <2> QED BY <1>1, <2>1, <2>2, CopiesTypes DEF Live
<1> QED BY <1>1, <1>2, <1>3, CopiesTypes DEF CopiesOK

LEMMA CopiesInit == Init => CopiesInv
<1> SUFFICES ASSUME Init PROVE \A e \in Emails : CopiesOK(e)
  BY TypeInvInit DEF CopiesInv
<1> QED BY QueueAssumption, NotOfSync DEF Init, CopiesOK, SyncJob, IdleWorker

\* The steps of a sync.
LEMMA SyncCopies ==
    ASSUME CopiesInv, NEW d \in Emails, NEW e \in Emails,
           \/ SyncFind(e) \/ SyncStore(e) \/ SyncEnqueue(e) \/ SyncAbandon(e)
           \/ \E folder \in SyncFolders : SyncCreate(e, folder)
    PROVE  CopiesOK(d)'
<1> USE DEF emailVars, queueVars, lateVars, requestVars, observers
<1>0. TypeInv /\ CopiesOK(d) /\ CopiesOK(e)
  BY DEF CopiesInv
<1>1. CASE SyncFind(e)
  <2>1. /\ UNCHANGED <<email, rows, job, worker>> /\ email[e].st = "absent" /\ sync[e] = "idle"
        /\ sync' = [sync EXCEPT ![e] = "create"]
    BY <1>1 DEF SyncFind
  <2>2. CASE d = e
    BY <1>0, <2>1, <2>2 DEF CopiesOK, SyncJob, Handed, TypeInv, TypeOK
  <2>3. CASE d # e
    BY <1>0, <2>1, <2>3, CopiesKept DEF RowKept, JobKept, TypeInv, TypeOK
  <2> QED BY <2>2, <2>3
<1>2. ASSUME NEW folder \in SyncFolders, SyncCreate(e, folder) PROVE CopiesOK(d)'
  <2>0. UNCHANGED <<rows, job, worker>> /\ sync[e] = "create" /\ email[e].st = "absent"
    BY <1>0, <1>2 DEF SyncCreate, CopiesOK
  <2>1. CASE Occupied(e, folder) \/ MailboxOf[e] \notin boxes
    <3>1. email' = email /\ sync' = [sync EXCEPT ![e] = "idle"]
      BY <1>2, <2>1 DEF SyncCreate
    <3> QED BY <1>0, <2>0, <3>1, CopiesKept DEF RowKept, JobKept, TypeInv, TypeOK
  <2>2. CASE ~(Occupied(e, folder) \/ MailboxOf[e] \notin boxes)
    <3>1. PICK flags \in SyncFlags(folder) :
            email' = [email EXCEPT ![e] = Stored(email[e], folder, flags)]
      BY <1>2, <2>2 DEF SyncCreate
    <3>2. sync' = [sync EXCEPT ![e] = IF e \in LocalParts THEN "store" ELSE "enqueue"]
      BY <1>2, <2>2 DEF SyncCreate
    <3>3. Stored(email[e], folder, flags).st = "present"
      BY <1>0, CopiesTypes, StoredRow, SyncFlagsType
    <3>4. CASE d = e
      <4>1. email'[e].st = "present" /\ sync'[e] \in {"store", "enqueue"}
            /\ (sync'[e] = "store" => e \in LocalParts)
        BY <1>0, <3>1, <3>2, <3>3 DEF TypeInv, TypeOK
      <4> QED BY <1>0, <2>0, <3>4, <4>1 DEF CopiesOK, SyncJob, Handed
    <3>5. CASE d # e
      <4>1. email'[d] = email[d] /\ sync'[d] = sync[d]
        BY <1>0, <3>1, <3>2, <3>5 DEF TypeInv, TypeOK
      <4> QED BY <1>0, <2>0, <4>1, CopiesKept DEF RowKept, JobKept
    <3> QED BY <3>4, <3>5
  <2> QED BY <2>1, <2>2
<1>3. CASE SyncStore(e)
  <2>1. /\ UNCHANGED <<email, job, worker>> /\ sync[e] = "store" /\ e \in LocalParts
        /\ rows[e] = 0 /\ rows' \in {rows, [rows EXCEPT ![e] = rows[e] + 1]}
        /\ sync' = [sync EXCEPT ![e] = "enqueue"]
    BY <1>0, <1>3 DEF SyncStore, CopiesOK
  <2>2. CASE d = e
    <3>1. e \notin RemoteParts /\ rows'[e] \in {0, 1} /\ sync'[e] = "enqueue"
      BY <1>0, <2>1, ModelAssumption DEF TypeInv, TypeOK
    <3> QED BY <1>0, <2>1, <2>2, <3>1, CopiesTypes DEF CopiesOK, SyncJob
  <2>3. CASE d # e
    BY <1>0, <2>1, <2>3, CopiesKept DEF RowKept, JobKept, TypeInv, TypeOK
  <2> QED BY <2>2, <2>3
<1>4. CASE SyncEnqueue(e)
  <2>1. /\ UNCHANGED <<email, rows, worker>> /\ sync[e] = "enqueue" /\ QueueAdd({e}, "sync")
        /\ sync' = [sync EXCEPT ![e] = "idle"]
    BY <1>4 DEF SyncEnqueue
  <2>2. \/ job'[d] = job[d]
        \/ job[d].st = "none" /\ d = e /\ job'[d] = NewJob("sync")
    BY <1>0, <2>1, QueueAddEffect DEF Origins, TypeInv
  <2>3. CASE job'[d] = job[d]
    BY <1>0, <2>1, <2>3, CopiesKept DEF RowKept, JobKept, TypeInv, TypeOK
  <2>4. CASE job[d].st = "none" /\ d = e /\ job'[d] = NewJob("sync")
    <3>1. worker[e].pc = "idle" /\ worker'[e].pc = "idle" /\ sync'[e] = "idle"
      BY <1>0, <2>1, <2>4, CopiesTypes DEF TypeInv, TypeOK
    <3>2. Handed(e)' = 0 /\ email[e].st # "absent" /\ (e \in RemoteParts => rows[e] = 0)
      BY <1>0, <2>1, <2>4, <3>1, NotOfSync DEF Handed, CopiesOK
    <3> QED BY <1>0, <2>1, <2>4, <3>1, <3>2 DEF CopiesOK
  <2> QED BY <2>2, <2>3, <2>4
<1>5. CASE SyncAbandon(e)
  BY <1>0, <1>5, CopiesKept DEF SyncAbandon, RowKept, JobKept, TypeInv, TypeOK
<1> QED BY <1>1, <1>2, <1>3, <1>4, <1>5

\* The steps of a job.
LEMMA JobCopies ==
    ASSUME CopiesInv, NEW d \in Emails, NEW e \in Emails,
           Take(e) \/ Process(e) \/ Promote(e) \/ Stall(e) \/ Evict(e)
    PROVE  CopiesOK(d)'
<1> USE DEF emailVars, queueVars, lateVars, requestVars, observers
<1>0. TypeInv /\ CopiesOK(d) /\ CopiesOK(e)
  BY DEF CopiesInv
<1>1. ASSUME UNCHANGED job, NEW pc \in {"analyze", "persist", "dupDelete", "mark", "finish", "catch"},
             worker'[e].pc = pc, \A g \in Emails \ {e} : worker'[g] = worker[g],
             UNCHANGED sync, rows'[d] \in {0, rows[d]},
             email'[d].st = "absent" <=> email[d].st = "absent"
      PROVE  CopiesOK(d)'
  BY <1>0, <1>1, CopiesKept DEF RowKept, JobKept
<1>2. ASSUME UNCHANGED <<rows, sync>>, job[e].st = "active", worker'[e].pc = "idle",
             \A g \in Emails \ {e} : worker'[g] = worker[g],
             job' \in [Emails -> Jobs], \A g \in Emails \ {e} : job'[g] = job[g],
             job'[e].origin = job[e].origin,
             job'[e].st \in {"waiting", "delayed", "completed", "failed"},
             Live(job'[e]) => job'[e].attempts + job'[e].stalls
                                 = job[e].attempts + job[e].stalls + 1,
             email'[d].st = "absent" <=> email[d].st = "absent"
      PROVE  CopiesOK(d)'
  <2>1. RowKept(d)
    BY <1>2 DEF RowKept
  <2>2. CASE d = e
    <3>1. job'[e].attempts \in Nat /\ job'[e].stalls \in Nat
      BY <1>2 DEF Jobs
    <3> QED BY <1>0, <1>2, <2>1, <2>2, <3>1, CopiesCounted
  <2>3. CASE d # e
    BY <1>0, <1>2, <2>1, <2>3, CopiesKept DEF JobKept
  <2> QED BY <2>2, <2>3
<1>3. CASE Take(e)
  <2>1. /\ UNCHANGED <<email, rows, sync>> /\ job[e].st = "waiting" /\ Goto(e, "load")
        /\ job' = [job EXCEPT ![e].st = "active"]
    BY <1>3 DEF Take
  <2>2. worker'[e].pc = "load" /\ \A g \in Emails \ {e} : worker'[g] = worker[g]
    BY <1>0, <2>1, GotoType DEF TypeInv, WorkerPcs
  <2>3. CASE d = e
    <3>1. /\ job'[e].st = "active" /\ job'[e].origin = job[e].origin
          /\ job'[e].attempts = job[e].attempts /\ job'[e].stalls = job[e].stalls
      BY <1>0, <2>1 DEF TypeInv, TypeOK, Jobs
    <3>2. SyncJob(e)' = SyncJob(e) /\ Handed(e)' = Handed(e) /\ Live(job[e])
      BY <1>0, <2>1, <2>2, <3>1, CopiesTypes DEF SyncJob, Handed, Live, LiveStates
    <3> QED BY <1>0, <2>1, <2>2, <2>3, <3>2 DEF CopiesOK
  <2>4. CASE d # e
    BY <1>0, <2>1, <2>2, <2>4, CopiesKept DEF RowKept, JobKept, TypeInv, TypeOK
  <2> QED BY <2>3, <2>4
<1>4. CASE Load(e)
  <2>1. /\ UNCHANGED <<email, rows, sync, job>> /\ worker[e].pc = "load"
        /\ Goto(e, IF e \in RemoteParts /\ job[e].origin = "sync" THEN "fetch" ELSE "analyze")
    BY <1>4 DEF Load
  <2>2. CASE e \in RemoteParts /\ job[e].origin = "sync"
    <3>1. worker'[e].pc = "fetch" /\ \A g \in Emails \ {e} : worker'[g] = worker[g]
      BY <1>0, <2>1, <2>2, GotoType DEF TypeInv, WorkerPcs
    <3>2. CASE d = e
      <4>1. SyncJob(e)' /\ SyncJob(e) /\ Handed(e)' = Handed(e)
        BY <1>0, <2>1, <2>2, <3>1, CopiesTypes DEF SyncJob, Handed
      <4> QED BY <1>0, <2>1, <2>2, <3>1, <3>2, <4>1 DEF CopiesOK, Live
    <3>3. CASE d # e
      BY <1>0, <2>1, <3>1, <3>3, CopiesKept DEF RowKept, JobKept
    <3> QED BY <3>2, <3>3
  <2>3. CASE ~(e \in RemoteParts /\ job[e].origin = "sync")
    <3>1. worker'[e].pc = "analyze" /\ \A g \in Emails \ {e} : worker'[g] = worker[g]
      BY <1>0, <2>1, <2>3, GotoType DEF TypeInv, WorkerPcs
    <3> QED BY <1>1, <2>1, <3>1
  <2> QED BY <2>2, <2>3
<1>5. CASE Fetch(e)
  <2>1. /\ UNCHANGED <<email, sync, job>> /\ worker[e].pc = "fetch"
        /\ rows' \in {rows, [rows EXCEPT ![e] = rows[e] + 1]} /\ Goto(e, "analyze")
    BY <1>5 DEF Fetch
  <2>2. worker'[e].pc = "analyze" /\ \A g \in Emails \ {e} : worker'[g] = worker[g]
    BY <1>0, <2>1, GotoType DEF TypeInv, WorkerPcs
  <2>3. CASE d = e
    <3>1. e \in RemoteParts /\ SyncJob(e) /\ SyncJob(e)' /\ job[e].st = "active" /\ Live(job[e])
      BY <1>0, <2>1, CopiesTypes DEF CopiesOK, SyncJob, Live, LiveStates
    <3>2. /\ Handed(e) = job[e].attempts + job[e].stalls
          /\ Handed(e)' = job[e].attempts + job[e].stalls + 1
      BY <1>0, <2>1, <2>2, <3>1, CopiesTypes DEF Handed
    <3>3. /\ rows[e] <= Handed(e) /\ rows'[e] \in {rows[e], rows[e] + 1}
          /\ sync'[e] = "idle" /\ email'[e].st # "absent"
      BY <1>0, <2>1, <3>1 DEF CopiesOK, TypeInv, TypeOK
    <3>4. rows'[e] <= MaxAttempts + MaxStalled /\ rows'[e] <= Handed(e)'
      BY <1>0, <3>1, <3>2, <3>3, CopiesTypes
    <3> QED BY <2>2, <2>3, <3>1, <3>3, <3>4 DEF CopiesOK
  <2>4. CASE d # e
    BY <1>0, <2>1, <2>2, <2>4, CopiesKept DEF RowKept, JobKept, TypeInv, TypeOK
  <2> QED BY <2>3, <2>4
<1>6. CASE LoadMissing(e) \/ Finish(e)
  <2>1. JobDone(e) /\ UNCHANGED <<email, rows, sync>> /\ worker[e].pc # "idle"
    BY <1>6 DEF LoadMissing, Finish
  <2>2. /\ job' \in [Emails -> Jobs] /\ worker'[e].pc = "idle"
        /\ \A g \in Emails \ {e} : job'[g] = job[g] /\ worker'[g] = worker[g]
    BY <1>0, <2>1, JobDoneType DEF IdleWorker
  <2>3. job'[e].origin = job[e].origin /\ job'[e].st = "completed"
    BY <1>0, <2>1, CopiesTypes DEF JobDone, CompleteJob, Jobs, TypeInv, TypeOK
  <2> QED BY <1>0, <1>2, <2>1, <2>2, <2>3, CopiesTypes DEF Live, LiveStates
<1>7. CASE Catch(e) \/ CatchUnmarked(e)
  <2>1. /\ UNCHANGED <<rows, sync>> /\ worker[e].pc = "catch"
        /\ job' = [job EXCEPT ![e] = FailJob(job[e])]
        /\ worker' = [worker EXCEPT ![e] = IdleWorker]
        /\ email' = email \/ email' = WithStatus({e}, "FAILED")
    BY <1>7 DEF Catch, CatchUnmarked
  <2>2. job[e].st = "active" /\ job[e].attempts < MaxAttempts
    BY <1>0, <2>1, CopiesTypes DEF Live, LiveStates
  <2>3. /\ worker'[e].pc = "idle" /\ \A g \in Emails \ {e} : worker'[g] = worker[g]
        /\ job'[e] = FailJob(job[e]) /\ \A g \in Emails \ {e} : job'[g] = job[g]
        /\ job' \in [Emails -> Jobs]
    BY <1>0, <2>1, <2>2, FailJobType DEF TypeInv, TypeOK, IdleWorker
  <2>4. /\ FailJob(job[e]).origin = job[e].origin
        /\ FailJob(job[e]).st \in {"delayed", "failed"}
        /\ FailJob(job[e]).attempts = job[e].attempts + 1
        /\ FailJob(job[e]).stalls = job[e].stalls
    BY <1>0, CopiesTypes DEF FailJob, Jobs
  <2>5. email'[d].st = "absent" <=> email[d].st = "absent"
    BY <1>0, <2>1, RowsStay
  <2> QED BY <1>0, <1>2, <2>1, <2>2, <2>3, <2>4, <2>5, CopiesTypes
<1>8. CASE Stall(e)
  <2>1. /\ UNCHANGED <<email, rows, sync, worker>> /\ worker[e].pc = "idle"
        /\ job[e].st = "active" /\ job' = [job EXCEPT ![e] = StallJob(job[e])]
    BY <1>8 DEF Stall
  <2>2. /\ job'[e] = StallJob(job[e]) /\ \A g \in Emails \ {e} : job'[g] = job[g]
        /\ job' \in [Emails -> Jobs]
    BY <1>0, <2>1, CopiesTypes, StallJobType DEF TypeInv, TypeOK
  <2>3. /\ StallJob(job[e]).origin = job[e].origin
        /\ StallJob(job[e]).attempts = job[e].attempts
        /\ \/ StallJob(job[e]).st = "failed"
           \/ StallJob(job[e]).st = "waiting" /\ StallJob(job[e]).stalls = job[e].stalls + 1
    BY <1>0, CopiesTypes DEF StallJob, Jobs
  <2> QED BY <1>0, <1>2, <2>1, <2>2, <2>3, CopiesTypes DEF Live, LiveStates
<1>9. CASE Promote(e)
  <2>1. /\ UNCHANGED <<email, rows, sync, worker>> /\ job[e].st = "delayed"
        /\ job' = [job EXCEPT ![e].st = "waiting"]
    BY <1>9 DEF Promote
  <2>2. CASE d = e
    <3>1. /\ job'[e].st = "waiting" /\ job'[e].origin = job[e].origin
          /\ job'[e].attempts = job[e].attempts /\ job'[e].stalls = job[e].stalls
      BY <1>0, <2>1 DEF TypeInv, TypeOK, Jobs
    <3>2. SyncJob(e)' = SyncJob(e) /\ Handed(e)' = Handed(e) /\ Live(job[e])
      BY <1>0, <2>1, <3>1, CopiesTypes DEF SyncJob, Handed, Live, LiveStates
    <3> QED BY <1>0, <2>1, <2>2, <3>2 DEF CopiesOK
  <2>3. CASE d # e
    BY <1>0, <2>1, <2>3, CopiesKept DEF RowKept, JobKept, TypeInv, TypeOK
  <2> QED BY <2>2, <2>3
<1>10. CASE Evict(e)
  <2>1. /\ UNCHANGED <<email, rows, sync, worker>> /\ job' = [job EXCEPT ![e] = NoJob]
        /\ job[e].st \in {"completed", "failed"}
    BY <1>10 DEF Evict, Evictable
  <2>2. job'[d] = job[d] \/ (job[d].st # "active" /\ ~SyncJob(d)')
    BY <1>0, <2>1, NotOfSync DEF TypeInv, TypeOK, SyncJob
  <2>3. JobKept(d)
    BY <1>0, <2>1, <2>2, Requeued
  <2> QED BY <1>0, <2>1, <2>3, CopiesKept DEF RowKept
<1>11. CASE \E verdict \in Verdicts, slow \in BOOLEAN : AnalyzeVerdict(e, verdict, slow)
  <2>1. /\ UNCHANGED <<email, rows, sync, job>> /\ worker'[e].pc = "persist"
        /\ \A g \in Emails \ {e} : worker'[g] = worker[g]
    BY <1>0, <1>11 DEF AnalyzeVerdict, TypeInv, TypeOK
  <2> QED BY <1>1, <2>1
<1>12. CASE AnalyzeFails(e) \/ AnalyzeFallback(e) \/ MarkFails(e)
  <2>1. UNCHANGED <<email, rows, sync, job>> /\ (Goto(e, "catch") \/ Goto(e, "mark"))
    BY <1>12 DEF AnalyzeFails, AnalyzeFallback, MarkFails
  <2>2. worker'[e].pc \in {"catch", "mark"} /\ \A g \in Emails \ {e} : worker'[g] = worker[g]
    BY <1>0, <2>1, GotoType DEF TypeInv, WorkerPcs
  <2> QED BY <1>1, <2>1, <2>2
<1>13. CASE Persist(e) \/ PersistLost(e)
  <2>1. /\ UNCHANGED <<rows, sync, job>> /\ PipelineEnds(e)
        /\ \/ email' = email
           \/ email' = [email EXCEPT ![e] = Analysed(email[e], worker[e].verdict)]
    BY <1>13 DEF Persist, PersistLost
  <2>2. worker'[e].pc = "mark" /\ \A g \in Emails \ {e} : worker'[g] = worker[g]
    BY <1>0, <2>1, PipelineEndsType, GotoType DEF TypeInv, WorkerPcs
  <2>3. Analysed(email[e], worker[e].verdict).st = email[e].st
    BY <1>0, CopiesTypes DEF Analysed, EmailRows
  <2>4. email'[d].st = email[d].st
    BY <1>0, <2>1, <2>3 DEF TypeInv, TypeOK
  <2> QED BY <1>1, <2>1, <2>2, <2>4
<1>14. CASE PersistConflict(e)
  <2>1. /\ UNCHANGED <<email, rows, sync, job>> /\ worker'[e].pc = "dupDelete"
        /\ \A g \in Emails \ {e} : worker'[g] = worker[g]
    BY <1>0, <1>14 DEF PersistConflict, TypeInv, TypeOK, WorkerStates
  <2> QED BY <1>1, <2>1
<1>15. CASE DupDelete(e)
  <2>1. /\ UNCHANGED <<sync, job>> /\ PipelineEnds(e) /\ rows' = [rows EXCEPT ![e] = 0]
        /\ email' = IF Present(e) THEN Gone({e}) ELSE email
    BY <1>15 DEF DupDelete
  <2>2. worker'[e].pc = "mark" /\ \A g \in Emails \ {e} : worker'[g] = worker[g]
    BY <1>0, <2>1, PipelineEndsType, GotoType DEF TypeInv, WorkerPcs
  <2>3. email'[d].st = "absent" <=> email[d].st = "absent"
    BY <1>0, <2>1, RowsStay
  <2>4. rows'[d] \in {0, rows[d]}
    BY <1>0, <2>1 DEF TypeInv, TypeOK
  <2> QED BY <1>1, <2>1, <2>2, <2>3, <2>4
<1>16. CASE Mark(e)
  <2>1. UNCHANGED <<rows, sync, job>> /\ Goto(e, "finish") /\ email' = WithStatus({e}, "COMPLETED")
    BY <1>16 DEF Mark
  <2>2. worker'[e].pc = "finish" /\ \A g \in Emails \ {e} : worker'[g] = worker[g]
    BY <1>0, <2>1, GotoType DEF TypeInv, WorkerPcs
  <2>3. email'[d].st = email[d].st
    BY <1>0, <2>1, RowsStay
  <2> QED BY <1>1, <2>1, <2>2, <2>3
<1> QED BY <1>3, <1>4, <1>5, <1>6, <1>7, <1>8, <1>9, <1>10, <1>11, <1>12, <1>13, <1>14, <1>15,
           <1>16 DEF Process

\* The late scans, the clock, the owner's requests and a crash.
LEMMA OtherCopies ==
    ASSUME CopiesInv, NEW d \in Emails,
           \/ \E e \in Emails : LateScan(e) \/ Age(e)
           \/ \E h \in Handlers : Begin(h) \/ Serve(h)
           \/ Move \/ Crash \/ UNCHANGED vars
    PROVE  CopiesOK(d)'
<1> USE DEF emailVars, queueVars, lateVars, requestVars, observers
<1>0. TypeInv /\ CopiesOK(d) /\ worker \in [Emails -> WorkerStates]
      /\ email \in [Emails -> EmailRows] /\ rows \in [Emails -> Nat]
  BY DEF CopiesInv, TypeInv, TypeOK
\* What leaves the queue and the syncs alone.
<1>1. ASSUME UNCHANGED <<sync, job, worker>>, rows'[d] \in {0, rows[d]},
             email'[d].st = "absent" <=> email[d].st = "absent"
      PROVE  CopiesOK(d)'
  BY <1>0, <1>1, CopiesKept DEF RowKept, JobKept
\* What changes jobs only.
<1>2. ASSUME UNCHANGED <<email, rows, sync, worker>>,
             job'[d] = job[d] \/ (job[d].st # "active" /\ ~SyncJob(d)')
      PROVE  CopiesOK(d)'
  BY <1>0, <1>2, CopiesKept, Requeued DEF RowKept
<1>3. ASSUME NEW e \in Emails, LateNothing(e) \/ LateConflict(e) PROVE CopiesOK(d)'
  BY <1>1, <1>3 DEF LateNothing, LateConflict
<1>4. ASSUME NEW e \in Emails, LateMalicious(e) PROVE CopiesOK(d)'
  <2>1. email'[d].st = email[d].st
    BY <1>0, <1>4 DEF LateMalicious, EmailRows
  <2> QED BY <1>1, <1>4, <2>1 DEF LateMalicious
<1>5. ASSUME NEW e \in Emails, LateDupDelete(e) PROVE CopiesOK(d)'
  <2>1. email'[d].st = "absent" <=> email[d].st = "absent"
    BY <1>0, <1>5, RowsStay DEF LateDupDelete
  <2> QED BY <1>0, <1>1, <1>5, <2>1 DEF LateDupDelete
<1>6. ASSUME NEW e \in Emails, Age(e) PROVE CopiesOK(d)'
  <2>1. email'[d].st = email[d].st
    BY <1>0, <1>6 DEF Age, EmailRows
  <2> QED BY <1>1, <1>6, <2>1 DEF Age
<1>7. ASSUME NEW h \in Handlers, Begin(h) PROVE CopiesOK(d)'
  <2>1. ASSUME NEW e \in Emails, BeginScan(h, e) PROVE CopiesOK(d)'
    BY <1>1, <2>1 DEF BeginScan
  <2>2. ASSUME NEW box \in Mailboxes, BeginScanAll(h, box) PROVE CopiesOK(d)'
    BY <1>1, <2>2 DEF BeginScanAll
  <2>3. ASSUME NEW e \in Emails, BeginCancel(h, e) PROVE CopiesOK(d)'
    <3>1. UNCHANGED <<email, rows, sync, worker>> /\ job' = [job EXCEPT ![e] = RemoveJob(job[e])]
      BY <2>3 DEF BeginCancel
    <3>2. job'[d] = job[d] \/ (job[d].st # "active" /\ ~SyncJob(d)')
      BY <1>0, <3>1, NotOfSync DEF RemoveJob, SyncJob, TypeInv, TypeOK
    <3> QED BY <1>2, <3>1, <3>2
  <2>4. ASSUME NEW box \in Mailboxes, BeginClear(h, box) PROVE CopiesOK(d)'
    <3>1. UNCHANGED <<email, rows, sync, worker>> /\ (job' = job \/ Clean(box, "waiting"))
      BY <2>4 DEF BeginClear
    <3>2. job'[d] = job[d] \/ (job[d].st # "active" /\ ~SyncJob(d)')
      BY <1>0, <3>1, CleanEffect, NotOfSync DEF SyncJob, TypeInv
    <3> QED BY <1>2, <3>1, <3>2
  <2> QED BY <1>7, <2>1, <2>2, <2>3, <2>4 DEF Begin
<1>8. ASSUME NEW h \in Handlers, Serve(h) PROVE CopiesOK(d)'
  <2>1. CASE ScanWrite(h)
    <3>1. email'[d].st = email[d].st
      BY <1>0, <2>1 DEF ScanWrite, EmailRows
    <3> QED BY <1>1, <2>1, <3>1 DEF ScanWrite
  <2>2. CASE ScanAllWrite(h)
    <3>1. email'[d].st = email[d].st
      BY <1>0, <2>2, RowsStay DEF ScanAllWrite
    <3> QED BY <1>1, <2>2, <3>1 DEF ScanAllWrite
  <2>3. CASE ScanAdd(h)
    <3>1. /\ UNCHANGED <<email, rows, sync, worker>>
          /\ QueueAdd(req[h].targets, "scan") /\ req[h].targets \subseteq Emails
      BY <1>0, <2>3 DEF ScanAdd, TypeInv, TypeOK, RequestStates
    <3>2. job'[d] = job[d] \/ (job[d].st # "active" /\ ~SyncJob(d)')
      BY <1>0, <3>1, QueueAddEffect, NotOfSync DEF SyncJob, TypeInv, Origins
    <3> QED BY <1>2, <3>1, <3>2
  <2>4. ASSUME NEW box \in Mailboxes, CleanPaused(h, box) \/ CleanDelayed(h, box)
        PROVE  CopiesOK(d)'
    <3>1. /\ UNCHANGED <<email, rows, sync, worker>>
          /\ job' = job \/ Clean(box, "waiting") \/ Clean(box, "delayed")
      BY <2>4 DEF CleanPaused, CleanDelayed
    <3>2. job'[d] = job[d] \/ (job[d].st # "active" /\ ~SyncJob(d)')
      BY <1>0, <3>1, CleanEffect, NotOfSync DEF SyncJob, TypeInv
    <3> QED BY <1>2, <3>1, <3>2
  <2>5. CASE MarkFailed(h)
    <3>1. email'[d].st = email[d].st
      BY <1>0, <2>5, RowsStay DEF MarkFailed
    <3> QED BY <1>1, <2>5, <3>1 DEF MarkFailed
  <2>6. CASE Abandon(h)
    BY <1>1, <2>6 DEF Abandon
  <2> QED BY <1>8, <2>1, <2>2, <2>3, <2>4, <2>5, <2>6 DEF Serve
<1>9. CASE Move
  <2>1. ASSUME NEW e \in Emails, Delete(e) PROVE CopiesOK(d)'
    <3>1. UNCHANGED <<sync, job, worker>> /\ Present(e)
      BY <2>1 DEF Delete
    <3>2. CASE MailboxOf[e] \in trash
      <4>1. rows' = rows /\ email'[d].st = email[d].st
        BY <1>0, <2>1, <3>2 DEF Delete, EmailRows
      <4> QED BY <1>1, <3>1, <4>1
    <3>3. CASE MailboxOf[e] \notin trash
      <4>1. email' = Gone({e}) /\ rows' = [rows EXCEPT ![e] = 0]
        BY <2>1, <3>3 DEF Delete
      <4>2. /\ email'[d].st = "absent" <=> email[d].st = "absent"
            /\ rows'[d] \in {0, rows[d]}
        BY <1>0, <3>1, <4>1, RowsStay
      <4> QED BY <1>1, <3>1, <4>2
    <3> QED BY <3>2, <3>3
  <2>2. ASSUME NEW e \in Emails, StoreSent(e) PROVE CopiesOK(d)'
    <3>1. /\ UNCHANGED <<sync, job, worker>> /\ sync[e] = "idle" /\ email[e].st = "absent"
          /\ email' = [email EXCEPT ![e] = Stored(email[e], "SENT", {})]
          /\ rows' = [rows EXCEPT ![e] = IF e \in RemoteParts \cup LocalParts THEN 1 ELSE 0]
      BY <2>2 DEF StoreSent
    <3>2. CASE d = e
      <4>1. Stored(email[e], "SENT", {}).st = "present"
        BY <1>0, StoredRow DEF FolderTypes
      <4>2. rows'[e] \in {0, 1} /\ email'[e].st = "present" /\ ~SyncJob(e) /\ ~SyncJob(e)'
        BY <1>0, <3>1, <3>2, <4>1 DEF CopiesOK, SyncJob
      <4>3. sync'[e] = "idle" /\ worker'[e].pc # "fetch"
        BY <1>0, <3>1, <3>2, <4>2 DEF CopiesOK
      <4>4. e \in Emails /\ MaxAttempts \in Nat \ {0} /\ MaxStalled \in Nat
        BY <3>2, CopiesTypes, <1>0
      <4>5. rows'[e] <= 1 /\ rows'[e] <= MaxAttempts + MaxStalled
        BY <4>2, <4>4
      <4>6. CopiesOK(e)'
        BY <4>2, <4>3, <4>5 DEF CopiesOK
      <4> QED BY <3>2, <4>6
    <3>3. CASE d # e
      <4>1. email'[d] = email[d] /\ rows'[d] = rows[d]
        BY <1>0, <3>1, <3>3
      <4> QED BY <1>1, <3>1, <4>1
    <3> QED BY <3>2, <3>3
  <2>3. ASSUME NEW e \in Emails, NEW type \in {"spam", "phishing"}, Report(e, type)
        PROVE  CopiesOK(d)'
    <3>1. email'[d].st = email[d].st
      BY <1>0, <2>3 DEF Report, Reported, EmailRows
    <3> QED BY <1>1, <2>3, <3>1 DEF Report
  <2>4. ASSUME NEW e \in Emails, NEW folder \in FolderTypes \ {"MALWARE"}, Reclassify(e, folder)
        PROVE  CopiesOK(d)'
    <3>1. email'[d].st = email[d].st
      <4>1. Refiled(email[e], folder).st = email[e].st
        BY <1>0 DEF Refiled, EmailRows
      <4>2. email' \in {email, [email EXCEPT ![e] = Refiled(email[e], folder)]}
        BY <2>4 DEF Reclassify
      <4> QED BY <1>0, <4>1, <4>2
    <3> QED BY <1>1, <2>4, <3>1 DEF Reclassify
  <2>5. ASSUME NEW box \in Mailboxes, RemoveMailbox(box) PROVE CopiesOK(d)'
    <3> DEFINE S == {e \in Emails : Present(e) /\ MailboxOf[e] = box}
    <3>1. email' = Gone(S) /\ \A e \in S : e \in Emails /\ Present(e)
      BY <2>5 DEF RemoveMailbox
    <3> HIDE DEF S
    <3>2. email'[d].st = "absent" <=> email[d].st = "absent"
      BY <1>0, <3>1, RowsStay
    <3> QED BY <1>1, <2>5, <3>2 DEF RemoveMailbox
  <2>6. ASSUME NEW box \in Mailboxes, NEW flag \in BOOLEAN, SetPaused(box, flag)
        PROVE  CopiesOK(d)'
    BY <1>1, <2>6 DEF SetPaused
  <2> QED BY <1>9, <2>1, <2>2, <2>3, <2>4, <2>5, <2>6 DEF Move
<1>10. CASE Crash
  BY <1>0, <1>10, CopiesKept DEF Crash, RowKept, JobKept, IdleWorker
<1>11. CASE UNCHANGED vars
  BY <1>1, <1>11 DEF vars
<1> QED BY <1>3, <1>4, <1>5, <1>6, <1>7, <1>8, <1>9, <1>10, <1>11 DEF LateScan

LEMMA CopiesNext == CopiesInv /\ [Next]_vars => CopiesInv'
<1> SUFFICES ASSUME CopiesInv, [Next]_vars PROVE \A d \in Emails : CopiesOK(d)'
  BY TypeInvNext DEF CopiesInv
<1> TAKE d \in Emails
<1>1. ASSUME NEW e \in Emails, SyncFind(e) \/ SyncStep(e) PROVE CopiesOK(d)'
  BY <1>1, SyncCopies DEF SyncStep
<1> QED BY <1>1, JobCopies, OtherCopies DEF Next

\* However often a job is retried, stalls or is asked for again, an attachment is stored
\* no more often than the queue hands the sync's job out.
THEOREM CopiesAreBounded == Spec => []AttachmentCopiesBounded
<1>1. CopiesInv => AttachmentCopiesBounded
  BY DEF CopiesInv, CopiesOK, AttachmentCopiesBounded
<1> QED BY <1>1, CopiesInit, CopiesNext, PTL DEF Spec
=============================================================================
