------------------------- MODULE EmailRecord_proofs -------------------------
(***************************************************************************)
(* EmailAnalysis implements EmailRecord, for every number of records,      *)
(* mailboxes, handlers, attempts, requests and crashes.                    *)
(***************************************************************************)
EXTENDS EmailAnalysis_proofs

Record == [e \in Emails |-> RecordOf(e)]
Asked == [e \in Emails |-> AskedOf(e)]

\* What the mapping needs: a record that is not stored is unknown, an idle
\* handler has no request, and the scan of a record that is not set back to
\* PENDING saw a report, which stays.
AbsentIsUnknown == \A e \in Emails : email[e].st = "absent" => RecordOf(e) = Life!Unknown
IdleIsFree == \A h \in Handlers : req[h].pc = "idle" => req[h].targets = {}
ScansAreJudged ==
    \A h \in Handlers : req[h].pc = "scanWrite" =>
        \A e \in req[h].targets \ req[h].noReport : email[e].report
LifeInv == PendingInv /\ FilingInv /\ AbsentIsUnknown /\ IdleIsFree /\ ScansAreJudged

-----------------------------------------------------------------------------
(* What a change of the rows or of the requests is for the record.         *)

LEMMA SameRows ==
    ASSUME UNCHANGED <<email, moved>>
    PROVE  Record' = Record
BY DEF Record, RecordOf

LEMMA SameRequests ==
    ASSUME UNCHANGED req
    PROVE  Asked' = Asked
BY DEF Asked, AskedOf

LEMMA Becomes ==
    ASSUME NEW e \in Emails, NEW row, UNCHANGED req,
           RecordOf(e)' = row, \A d \in Emails \ {e} : RecordOf(d)' = RecordOf(d)
    PROVE  Life!Become(e, row)
<1>1. Record' = [Record EXCEPT ![e] = row]
  BY DEF Record
<1>2. Asked' = Asked
  BY SameRequests
<1> QED BY <1>1, <1>2 DEF Life!Become, Record, Asked

LEMMA RecordType ==
    ASSUME TypeOK, NEW e \in Emails
    PROVE  LET now == RecordOf(e) IN
           /\ now \in Life!Records
           /\ now.st = email[e].st /\ now.status = email[e].status
           /\ now.judged = email[e].report /\ now.guilty = email[e].malicious
BY DEF TypeOK, RecordOf, EmailRows, Statuses, Life!Records, Life!Statuses

LEMMA SameRecord ==
    ASSUME NEW r \in Life!Records, NEW q \in Life!Records,
           r.st = q.st, r.status = q.status, r.judged = q.judged,
           r.guilty = q.guilty, r.kept = q.kept, r.moved = q.moved
    PROVE  r = q
BY DEF Life!Records

LEMMA OneRow ==
    ASSUME TypeOK, NEW e \in Emails, NEW row \in EmailRows, NEW kept \in BOOLEAN,
           NEW m \in BOOLEAN,
           email' = [email EXCEPT ![e] = row], moved' = [moved EXCEPT ![e] = m],
           kept <=> row.folder = "MALWARE"
    PROVE  LET new == RecordOf(e)' IN
           /\ new \in Life!Records
           /\ new.st = row.st /\ new.status = row.status /\ new.judged = row.report
           /\ new.guilty = row.malicious /\ new.kept = kept /\ new.moved = m
           /\ \A d \in Emails \ {e} : RecordOf(d)' = RecordOf(d)
<1>1. email'[e] = row /\ moved'[e] = m
  BY DEF TypeOK
<1>2. \A d \in Emails \ {e} : RecordOf(d)' = RecordOf(d)
  BY DEF TypeOK, RecordOf
<1> QED BY <1>1, <1>2 DEF RecordOf, EmailRows, Statuses, Life!Records, Life!Statuses

LEMMA StatusesWritten ==
    ASSUME TypeOK, NEW S, NEW status \in Statuses, email' = WithStatus(S, status),
           UNCHANGED moved
    PROVE  Record' = [e \in Emails |-> IF e \in S THEN [Record[e] EXCEPT !.status = status]
                                       ELSE Record[e]]
<1>1. ASSUME NEW e \in Emails
      PROVE  RecordOf(e)' = IF e \in S THEN [RecordOf(e) EXCEPT !.status = status]
                            ELSE RecordOf(e)
  <2>1. email'[e] = IF e \in S THEN [email[e] EXCEPT !.status = status] ELSE email[e]
    BY Zenon DEF WithStatus
  <2>2. email[e] \in EmailRows
    BY DEF TypeOK
  <2> QED BY <2>1, <2>2 DEF RecordOf, EmailRows
<1> QED BY <1>1 DEF Record

LEMMA RowsGone ==
    ASSUME TypeOK, NEW S, email' = Gone(S), UNCHANGED <<moved, req>>,
           \A e \in S : e \in Emails /\ Present(e)
    PROVE  Life!Remove(S)
<1>1. ASSUME NEW e \in Emails
      PROVE  RecordOf(e)' = IF e \in S THEN [RecordOf(e) EXCEPT !.st = "deleted"]
                            ELSE RecordOf(e)
  <2>1. email'[e] = IF e \in S THEN [email[e] EXCEPT !.st = "deleted"] ELSE email[e]
    BY Zenon DEF Gone
  <2>2. email[e] \in EmailRows
    BY DEF TypeOK
  <2> QED BY <2>1, <2>2 DEF RecordOf, EmailRows
<1>2. Record' = [e \in Emails |-> IF e \in S THEN [Record[e] EXCEPT !.st = "deleted"]
                                  ELSE Record[e]]
  BY <1>1 DEF Record
<1>3. \A e \in S : Record[e].st = "present"
  BY DEF Record, RecordOf, Present
<1> QED BY <1>2, <1>3, SameRequests DEF Life!Remove, Life!Present, Record, Asked

\* A request that is accepted, and one that ends.
LEMMA Asks ==
    ASSUME LifeInv, NEW h \in Handlers, NEW r, req[h].pc = "idle",
           req' = [req EXCEPT ![h] = r], UNCHANGED <<email, moved>>,
           NEW S, r.targets = S
    PROVE  Life!Ask(h, S)
<1>1. req \in [Handlers -> RequestStates] /\ req[h].targets = {}
  BY DEF LifeInv, FilingInv, TypeInv, TypeOK, IdleIsFree
<1>2. ASSUME NEW e \in Emails
      PROVE  AskedOf(e)' = IF e \in S THEN AskedOf(e) \cup {h} ELSE AskedOf(e)
  <2>1. \A g \in Handlers : req'[g] = IF g = h THEN r ELSE req[g]
    BY <1>1
  <2> QED BY <1>1, <2>1 DEF AskedOf
<1>3. Asked' = [e \in Emails |-> IF e \in S THEN Asked[e] \cup {h} ELSE Asked[e]]
  BY <1>2 DEF Asked
<1> QED BY <1>3, SameRows DEF Life!Ask, Record, Asked

LEMMA Ends ==
    ASSUME TypeOK, NEW h \in Handlers, Done(h)
    PROVE  Asked' = Life!Without(h)
<1>1. \A g \in Handlers : req'[g] = IF g = h THEN IdleRequest ELSE req[g]
  BY DEF TypeOK, Done
<1>2. ASSUME NEW e \in Emails PROVE AskedOf(e)' = AskedOf(e) \ {h}
  BY <1>1 DEF AskedOf, IdleRequest
<1> QED BY <1>2 DEF Asked, Life!Without

LEMMA Progresses ==
    ASSUME TypeOK, NEW h \in Handlers, NEW pc, Progress(h, pc)
    PROVE  Asked' = Asked
<1>1. \A g \in Handlers : req'[g].targets = req[g].targets
  BY DEF TypeOK, Progress, RequestStates
<1> QED BY <1>1 DEF Asked, AskedOf

\* A request that writes a status over records it was made for.
LEMMA Settles ==
    ASSUME TypeOK, NEW h \in Handlers, NEW S \in SUBSET Emails, NEW status \in Statuses,
           email' = WithStatus(S, status), UNCHANGED moved,
           \A e \in S : Present(e) /\ e \in req[h].targets,
           status # "COMPLETED",
           Asked' = Asked \/ Asked' = Life!Without(h)
    PROVE  Life!Settle(h, S, status)
<1>1. \A e \in S : Record[e].st = "present" /\ h \in Asked[e]
  BY DEF Record, RecordOf, Present, Asked, AskedOf
<1> QED BY <1>1, StatusesWritten DEF Life!Settle, Life!Present, Record, Asked
-----------------------------------------------------------------------------
(* The steps that are steps of the record.                                 *)

LEMMA Unseen ==
    ASSUME UNCHANGED <<email, moved, req>>
    PROVE  UNCHANGED Life!vars
BY SameRows, SameRequests DEF Life!vars, Record, Asked

\* The sync and the send processor store a record in a folder other than MALWARE.
LEMMA StoredArrives ==
    ASSUME LifeInv, NEW e \in Emails, email[e].st = "absent",
           NEW folder \in FolderTypes \ {"MALWARE"}, NEW flags \in SUBSET {"spam", "phishing"},
           email' = [email EXCEPT ![e] = Stored(email[e], folder, flags)],
           UNCHANGED <<moved, req>>
    PROVE  Life!Arrive(e)
<1>1. TypeOK /\ email[e] \in EmailRows /\ moved[e] \in BOOLEAN
  BY DEF LifeInv, FilingInv, TypeInv, TypeOK
<1>2. RecordOf(e) = Life!Unknown
  BY DEF LifeInv, AbsentIsUnknown
<1>3. /\ email[e].status = "PENDING" /\ email[e].report = FALSE
      /\ email[e].malicious = FALSE /\ moved[e] = FALSE
  BY <1>2 DEF RecordOf, Life!Unknown
<1> DEFINE row == Stored(email[e], folder, flags)
<1>4. /\ row.st = "present" /\ row.folder = folder /\ row.status = "PENDING"
      /\ row.report = FALSE /\ row.malicious = FALSE /\ row \in EmailRows
  BY <1>1, <1>3, StoredRow
<1>5. email' = [email EXCEPT ![e] = row] /\ moved' = [moved EXCEPT ![e] = FALSE]
  BY <1>1, <1>3 DEF TypeOK
<1> HIDE DEF row
<1>6. /\ RecordOf(e)' = [Life!Unknown EXCEPT !.st = "present"]
      /\ \A d \in Emails \ {e} : RecordOf(d)' = RecordOf(d)
  <2> DEFINE new == RecordOf(e)'
  <2>1. /\ new \in Life!Records
        /\ new.st = "present" /\ new.status = "PENDING" /\ new.judged = FALSE
        /\ new.guilty = FALSE /\ new.kept = FALSE /\ new.moved = FALSE
        /\ \A d \in Emails \ {e} : RecordOf(d)' = RecordOf(d)
    BY <1>1, <1>4, <1>5, OneRow
  <2> DEFINE stored == [Life!Unknown EXCEPT !.st = "present"]
  <2>2. /\ stored \in Life!Records
        /\ stored.st = "present" /\ stored.status = "PENDING" /\ stored.judged = FALSE
        /\ stored.guilty = FALSE /\ stored.kept = FALSE /\ stored.moved = FALSE
    BY DEF Life!Unknown, Life!Records, Life!Statuses
  <2> HIDE DEF new, stored
  <2>3. new = stored
    BY <2>1, <2>2, SameRecord
  <2> QED BY <2>1, <2>3 DEF new, stored
<1>7. Life!Become(e, [Life!Unknown EXCEPT !.st = "present"])
  BY <1>6, Becomes
<1> QED BY <1>2, <1>7 DEF Life!Arrive

\* The pipeline's result is a judgement.
LEMMA PersistJudges ==
    ASSUME LifeInv, NEW e \in Emails, Persist(e)
    PROVE  Life!Judge(e)
<1>1. TypeOK /\ email[e] \in EmailRows /\ worker[e].verdict \in Verdicts
  BY DEF LifeInv, FilingInv, TypeInv, TypeOK, WorkerStates
<1> DEFINE row == Analysed(email[e], worker[e].verdict)
<1>2. /\ email' = [email EXCEPT ![e] = row] /\ moved' = [moved EXCEPT ![e] = FALSE]
      /\ Present(e) /\ UNCHANGED req
  BY DEF Persist, requestVars
<1>3. row.st = email[e].st /\ (row.malicious => row.folder = "MALWARE")
  BY <1>1, AnalysedFiling
<1>4. row.report = TRUE /\ row.status = email[e].status /\ row.malicious \in BOOLEAN
  BY <1>1 DEF Analysed, EmailRows
<1>5. row \in EmailRows
  BY <1>1, AnalysedRow
<1> HIDE DEF row
<1> DEFINE kept == row.folder = "MALWARE"
<1> HIDE DEF kept
<1>6. kept \in BOOLEAN /\ (kept <=> row.folder = "MALWARE")
  BY DEF kept
<1>7. /\ RecordOf(e)' = [RecordOf(e) EXCEPT !.judged = TRUE, !.guilty = row.malicious,
                                            !.kept = kept, !.moved = FALSE]
      /\ \A d \in Emails \ {e} : RecordOf(d)' = RecordOf(d)
  <2> DEFINE now == RecordOf(e)
             new == RecordOf(e)'
  <2>1. /\ now \in Life!Records
        /\ now.st = email[e].st /\ now.status = email[e].status
        /\ now.judged = email[e].report /\ now.guilty = email[e].malicious
    BY <1>1, RecordType
  <2>2. /\ new \in Life!Records
        /\ new.st = email[e].st /\ new.status = email[e].status /\ new.judged = TRUE
        /\ new.guilty = row.malicious /\ new.kept = kept /\ new.moved = FALSE
        /\ \A d \in Emails \ {e} : RecordOf(d)' = RecordOf(d)
    BY <1>1, <1>2, <1>3, <1>4, <1>6, <1>5, OneRow
  <2> HIDE DEF now, new
  <2> DEFINE judged == [now EXCEPT !.judged = TRUE, !.guilty = row.malicious, !.kept = kept,
                                   !.moved = FALSE]
  <2>3. /\ judged \in Life!Records
        /\ judged.st = now.st /\ judged.status = now.status /\ judged.judged = TRUE
        /\ judged.guilty = row.malicious /\ judged.kept = kept /\ judged.moved = FALSE
    BY <1>4, <1>6, <2>1 DEF Life!Records
  <2> HIDE DEF judged
  <2>4. new = judged
    BY <2>1, <2>2, <2>3, SameRecord
  <2> QED BY <2>2, <2>4 DEF now, new, judged
<1>8. Life!Become(e, [RecordOf(e) EXCEPT !.judged = TRUE, !.guilty = row.malicious,
                                        !.kept = kept, !.moved = FALSE])
  BY <1>2, <1>7, Becomes
<1>9. Record[e] = RecordOf(e) /\ Record[e].st = "present"
  BY <1>2 DEF Record, RecordOf, Present
<1> QED BY <1>3, <1>4, <1>6, <1>8, <1>9 DEF Life!Judge, Life!Present, Record

\* A malware scan that ends late condemns.
LEMMA LateCondemns ==
    ASSUME LifeInv, NEW e \in Emails, LateMalicious(e)
    PROVE  Life!Condemn(e)
<1>1. TypeOK /\ email[e] \in EmailRows
  BY DEF LifeInv, FilingInv, TypeInv, TypeOK
<1> DEFINE row == [email[e] EXCEPT !.malicious = TRUE, !.flags = {}, !.folder = "MALWARE"]
<1>2. /\ email' = [email EXCEPT ![e] = row] /\ moved' = [moved EXCEPT ![e] = FALSE]
      /\ Present(e) /\ UNCHANGED req
  BY DEF LateMalicious, requestVars
<1>3. /\ row.st = email[e].st /\ row.malicious = TRUE /\ row.folder = "MALWARE"
      /\ row.report = email[e].report /\ row.status = email[e].status
      /\ row \in EmailRows
  BY <1>1 DEF EmailRows, FolderTypes
<1> HIDE DEF row
<1>4. /\ RecordOf(e)' = [RecordOf(e) EXCEPT !.guilty = TRUE, !.kept = TRUE, !.moved = FALSE]
      /\ \A d \in Emails \ {e} : RecordOf(d)' = RecordOf(d)
  <2> DEFINE now == RecordOf(e)
             new == RecordOf(e)'
  <2>1. /\ now \in Life!Records
        /\ now.st = email[e].st /\ now.status = email[e].status
        /\ now.judged = email[e].report /\ now.guilty = email[e].malicious
    BY <1>1, RecordType
  <2>2. /\ new \in Life!Records
        /\ new.st = email[e].st /\ new.status = email[e].status
        /\ new.judged = email[e].report /\ new.guilty = TRUE /\ new.kept = TRUE
        /\ new.moved = FALSE
        /\ \A d \in Emails \ {e} : RecordOf(d)' = RecordOf(d)
    BY <1>1, <1>2, <1>3, OneRow
  <2> HIDE DEF now, new
  <2> DEFINE condemned == [now EXCEPT !.guilty = TRUE, !.kept = TRUE, !.moved = FALSE]
  <2>3. /\ condemned \in Life!Records
        /\ condemned.st = now.st /\ condemned.status = now.status
        /\ condemned.judged = now.judged /\ condemned.guilty = TRUE
        /\ condemned.kept = TRUE /\ condemned.moved = FALSE
    BY <2>1 DEF Life!Records
  <2> HIDE DEF condemned
  <2>4. new = condemned
    BY <2>1, <2>2, <2>3, SameRecord
  <2> QED BY <2>2, <2>4 DEF now, new, condemned
<1>5. Life!Become(e, [RecordOf(e) EXCEPT !.guilty = TRUE, !.kept = TRUE, !.moved = FALSE])
  BY <1>2, <1>4, Becomes
<1>6. Record[e] = RecordOf(e) /\ Record[e].st = "present"
  BY <1>2 DEF Record, RecordOf, Present
<1> QED BY <1>5, <1>6 DEF Life!Condemn, Life!Present, Record

\* A move of the owner's, to a folder other than MALWARE.
LEMMA MovesRefile ==
    ASSUME LifeInv, NEW e \in Emails, NEW row \in EmailRows, Present(e),
           email' = [email EXCEPT ![e] = row], moved' = [moved EXCEPT ![e] = TRUE],
           row.st = email[e].st, row.status = email[e].status, row.report = email[e].report,
           row.malicious = email[e].malicious, row.folder # "MALWARE",
           UNCHANGED req
    PROVE  Life!Refile(e)
<1>1. TypeOK
  BY DEF LifeInv, FilingInv, TypeInv
<1>2. /\ RecordOf(e)' = [RecordOf(e) EXCEPT !.kept = FALSE, !.moved = TRUE]
      /\ \A d \in Emails \ {e} : RecordOf(d)' = RecordOf(d)
  <2> DEFINE now == RecordOf(e)
             new == RecordOf(e)'
  <2>1. /\ now \in Life!Records
        /\ now.st = email[e].st /\ now.status = email[e].status
        /\ now.judged = email[e].report /\ now.guilty = email[e].malicious
    BY <1>1, RecordType
  <2>2. /\ new \in Life!Records
        /\ new.st = email[e].st /\ new.status = email[e].status
        /\ new.judged = email[e].report /\ new.guilty = email[e].malicious
        /\ new.kept = FALSE /\ new.moved = TRUE
        /\ \A d \in Emails \ {e} : RecordOf(d)' = RecordOf(d)
    BY <1>1, OneRow
  <2> HIDE DEF now, new
  <2> DEFINE refiled == [now EXCEPT !.kept = FALSE, !.moved = TRUE]
  <2>3. /\ refiled \in Life!Records
        /\ refiled.st = now.st /\ refiled.status = now.status /\ refiled.judged = now.judged
        /\ refiled.guilty = now.guilty /\ refiled.kept = FALSE /\ refiled.moved = TRUE
    BY <2>1 DEF Life!Records
  <2> HIDE DEF refiled
  <2>4. new = refiled
    BY <2>1, <2>2, <2>3, SameRecord
  <2> QED BY <2>2, <2>4 DEF now, new, refiled
<1>3. Life!Become(e, [RecordOf(e) EXCEPT !.kept = FALSE, !.moved = TRUE])
  BY <1>2, Becomes
<1>4. Record[e] = RecordOf(e) /\ Record[e].st = "present"
  BY DEF Record, RecordOf, Present
<1> QED BY <1>3, <1>4 DEF Life!Refile, Life!Present, Record

LEMMA StepRefines == LifeInv /\ [Next]_vars => [Life!Next]_(Life!vars)
<1> DEFINE Goal == [Life!Next]_(Life!vars)
<1> SUFFICES ASSUME LifeInv, [Next]_vars PROVE Goal
  OBVIOUS
<1>1. TypeOK
  BY DEF LifeInv, FilingInv, TypeInv
<1> USE DEF emailVars, queueVars, lateVars, requestVars, observers
<1>2. ASSUME UNCHANGED <<email, moved, req>> PROVE Goal
  BY <1>2, Unseen
<1>3. ASSUME NEW S \in SUBSET Emails, email' = Gone(S), UNCHANGED <<moved, req>>,
             \A e \in S : Present(e)
      PROVE  Goal
  <2>1. Life!Remove(S)
    BY <1>1, <1>3, RowsGone
  <2> QED BY <2>1 DEF Life!Next
<1>4. ASSUME NEW e \in Emails, SyncStep(e) PROVE Goal
  <2>1. ASSUME NEW folder \in SyncFolders, SyncCreate(e, folder) PROVE Goal
    <3>1. folder \in FolderTypes \ {"MALWARE"}
          /\ SyncFlags(folder) \subseteq SUBSET {"spam", "phishing"}
      BY SyncFlagsType
    <3>2. email[e].st = "absent" /\ UNCHANGED <<moved, req>>
      BY <2>1 DEF SyncCreate, LifeInv, FilingInv, AbsentIsClean
    <3>3. ASSUME NEW flags \in SyncFlags(folder),
                 email' = [email EXCEPT ![e] = Stored(email[e], folder, flags)]
          PROVE  Goal
      <4>1. Life!Arrive(e)
        BY <3>1, <3>2, <3>3, StoredArrives
      <4> QED BY <4>1 DEF Life!Next
    <3> QED BY <2>1, <3>2, <3>3, <1>2 DEF SyncCreate
  <2> QED BY <1>2, <1>4, <2>1 DEF SyncStep, SyncStore, SyncEnqueue, SyncAbandon
<1>5. ASSUME NEW e \in Emails, Process(e) PROVE Goal
  <2>1. ASSUME Persist(e) PROVE Goal
    BY <2>1, PersistJudges DEF Life!Next
  <2>2. ASSUME DupDelete(e) PROVE Goal
    <3> DEFINE S == {e}
    <3>1. Present(e) => S \in SUBSET Emails /\ email' = Gone(S) /\ \A d \in S : Present(d)
      BY <2>2 DEF DupDelete
    <3>2. ~Present(e) => email' = email
      BY <2>2 DEF DupDelete
    <3> HIDE DEF S
    <3> QED BY <2>2, <3>1, <3>2, <1>2, <1>3 DEF DupDelete
  <2>3. ASSUME Mark(e) PROVE Goal
    <3> DEFINE S == {e}
    <3>1. Present(e) /\ email' = WithStatus(S, "COMPLETED") /\ UNCHANGED <<moved, req>>
      BY <2>3 DEF Mark
    <3>2. RecordOf(e)' = [RecordOf(e) EXCEPT !.status = "COMPLETED"]
          /\ \A d \in Emails \ {e} : RecordOf(d)' = RecordOf(d)
      BY <1>1, <3>1, StatusesWritten DEF Statuses, Record
    <3>3. Life!Complete(e)
      <4>1. Life!Become(e, [RecordOf(e) EXCEPT !.status = "COMPLETED"])
        BY <3>1, <3>2, Becomes
      <4>2. /\ Record[e] = RecordOf(e) /\ Record[e].st = "present"
            /\ Record[e].judged = email[e].report
        BY <3>1 DEF Record, RecordOf, Present
      <4> QED BY <3>1, <4>1, <4>2 DEF Life!Complete, Life!Present, Record
    <3> QED BY <3>3 DEF Life!Next
  <2>4. ASSUME Catch(e) PROVE Goal
    <3> DEFINE S == {e}
    <3>1. /\ Present(e) /\ ~email[e].report
          /\ email' = WithStatus(S, "FAILED") /\ UNCHANGED <<moved, req>>
      BY <2>4 DEF Catch
    <3>2. RecordOf(e)' = [RecordOf(e) EXCEPT !.status = "FAILED"]
          /\ \A d \in Emails \ {e} : RecordOf(d)' = RecordOf(d)
      BY <1>1, <3>1, StatusesWritten DEF Statuses, Record
    <3>3. Life!Fail(e)
      <4>1. Life!Become(e, [RecordOf(e) EXCEPT !.status = "FAILED"])
        BY <3>1, <3>2, Becomes
      <4>2. /\ Record[e] = RecordOf(e) /\ Record[e].st = "present"
            /\ Record[e].judged = email[e].report
        BY <3>1 DEF Record, RecordOf, Present
      <4> QED BY <3>1, <4>1, <4>2 DEF Life!Fail, Life!Present, Record
    <3> QED BY <3>3 DEF Life!Next
  <2> QED BY <1>2, <1>5, <2>1, <2>2, <2>3, <2>4
       DEF Process, LoadMissing, Load, Fetch, AnalyzeVerdict, AnalyzeFails, AnalyzeFallback,
           PersistLost, PersistConflict, MarkFails, Finish, CatchUnmarked
<1>6. ASSUME NEW e \in Emails, LateScan(e) PROVE Goal
  <2>1. ASSUME LateMalicious(e) PROVE Goal
    BY <2>1, LateCondemns DEF Life!Next
  <2>2. ASSUME LateDupDelete(e) PROVE Goal
    <3> DEFINE S == {e}
    <3>1. Present(e) => S \in SUBSET Emails /\ email' = Gone(S) /\ \A d \in S : Present(d)
      BY <2>2 DEF LateDupDelete
    <3>2. ~Present(e) => email' = email
      BY <2>2 DEF LateDupDelete
    <3> HIDE DEF S
    <3> QED BY <2>2, <3>1, <3>2, <1>2, <1>3 DEF LateDupDelete
  <2> QED BY <1>2, <1>6, <2>1, <2>2 DEF LateScan, LateNothing, LateConflict
<1>7. ASSUME NEW h \in Handlers, Serve(h) PROVE Goal
  <2> req[h] \in RequestStates /\ req[h].targets \subseteq Emails
    BY <1>1 DEF TypeOK, RequestStates
  <2>1. ASSUME ScanWrite(h) PROVE Goal
    <3>1. PICK e \in req[h].targets :
            /\ req[h].pc = "scanWrite" /\ Present(e)
            /\ email' = [email EXCEPT ![e] = [email[e] EXCEPT
                            !.status = IF e \in req[h].noReport THEN "PENDING" ELSE "COMPLETED",
                            !.old = FALSE]]
      BY <2>1 DEF ScanWrite
    <3> DEFINE status == IF e \in req[h].noReport THEN "PENDING" ELSE "COMPLETED"
               row == [email[e] EXCEPT !.status = status, !.old = FALSE]
               S == {e}
    <3>2. UNCHANGED moved /\ Progress(h, "add") /\ e \in Emails
      BY <2>1 DEF ScanWrite
    <3>3. /\ email' = [email EXCEPT ![e] = row] /\ status \in Statuses
          /\ status = "COMPLETED" => email[e].report
      BY <3>1 DEF Statuses, LifeInv, ScansAreJudged
    <3>4. /\ row.st = email[e].st /\ row.report = email[e].report
          /\ row.malicious = email[e].malicious /\ row.folder = email[e].folder
          /\ row.status = status
      BY <1>1, <3>2 DEF TypeOK, EmailRows
    <3> HIDE DEF status, row
    <3>5. \A d \in Emails : RecordOf(d)' = IF d \in S THEN [RecordOf(d) EXCEPT !.status = status]
                                           ELSE RecordOf(d)
      <4>1. email'[e] = row /\ \A d \in Emails \ {e} : email'[d] = email[d]
        BY <1>1, <3>2, <3>3 DEF TypeOK
      <4> QED BY <3>2, <3>4, <4>1 DEF RecordOf
    <3>6. Record' = [d \in Emails |-> IF d \in S THEN [Record[d] EXCEPT !.status = status]
                                      ELSE Record[d]]
      BY <3>5 DEF Record
    <3>7. /\ Record[e].st = "present" /\ Record[e].judged = email[e].report
          /\ h \in Asked[e]
      BY <3>1, <3>2 DEF Record, RecordOf, Present, Asked, AskedOf
    <3>8. Asked' = Asked
      BY <1>1, <3>2, Progresses
    <3>9. Life!Settle(h, S, status)
      BY <3>3, <3>6, <3>7, <3>8 DEF Life!Settle, Life!Present, Record, Asked
    <3>10. S \in SUBSET Emails /\ status \in Life!Statuses
      BY <3>2, <3>3 DEF Statuses, Life!Statuses
    <3> HIDE DEF S
    <3> QED BY <3>9, <3>10 DEF Life!Next
  <2>2. ASSUME ScanAllWrite(h) PROVE Goal
    <3> DEFINE S == {e \in req[h].noReport : Present(e)}
    <3>1. /\ email' = WithStatus(S, "PENDING") /\ UNCHANGED moved /\ Progress(h, "add")
      BY <2>2 DEF ScanAllWrite
    <3>2. S \in SUBSET Emails /\ \A e \in S : Present(e) /\ e \in req[h].targets
      BY DEF LifeInv, PendingInv, ScansQueueTargets
    <3> HIDE DEF S
    <3>3. Asked' = Asked
      BY <1>1, <3>1, Progresses
    <3>4. Life!Settle(h, S, "PENDING")
      BY <1>1, <3>1, <3>2, <3>3, Settles DEF Statuses
    <3> QED BY <3>2, <3>4 DEF Life!Next, Life!Statuses
  <2>3. ASSUME MarkFailed(h) PROVE Goal
    <3> DEFINE S == {e \in req[h].targets :
                       IF req[h].pc = "cancelMark" THEN Present(e) ELSE Pending(e)}
    <3>1. /\ email' = WithStatus(S, "FAILED") /\ UNCHANGED moved /\ Done(h)
      BY <2>3 DEF MarkFailed
    <3>2. S \in SUBSET Emails /\ \A e \in S : Present(e) /\ e \in req[h].targets
      BY DEF Pending
    <3> HIDE DEF S
    <3>3. Asked' = Life!Without(h)
      BY <1>1, <3>1, Ends
    <3>4. Life!Settle(h, S, "FAILED")
      BY <1>1, <3>1, <3>2, <3>3, Settles DEF Statuses
    <3> QED BY <3>2, <3>4 DEF Life!Next, Life!Statuses
  <2>4. ASSUME ScanAdd(h) \/ Abandon(h) PROVE Goal
    <3>1. UNCHANGED <<email, moved>> /\ Done(h)
      BY <2>4 DEF ScanAdd, Abandon
    <3>2. Asked' = Life!Without(h) /\ Record' = Record
      BY <1>1, <3>1, Ends, SameRows
    <3>3. Life!Answer(h)
      BY <3>2 DEF Life!Answer, Record, Asked
    <3> QED BY <3>3 DEF Life!Next
  <2>5. ASSUME NEW box \in Mailboxes, CleanPaused(h, box) \/ CleanDelayed(h, box) PROVE Goal
    <3>1. UNCHANGED <<email, moved>>
          /\ (Progress(h, "cleanDelayed") \/ Progress(h, "clearMark"))
      BY <2>5 DEF CleanPaused, CleanDelayed
    <3>2. Asked' = Asked
      BY <1>1, <3>1, Progresses
    <3> QED BY <3>1, <3>2, SameRows DEF Life!vars, Record, Asked
  <2> QED BY <1>7, <2>1, <2>2, <2>3, <2>4, <2>5 DEF Serve
<1>8. ASSUME NEW h \in Handlers, Begin(h) PROVE Goal
  <2>1. UNCHANGED <<email, moved>>
    BY <1>8 DEF Begin, BeginScan, BeginCancel, BeginScanAll, BeginClear
  <2>2. ASSUME NEW e \in Emails, BeginScan(h, e) PROVE Goal
    <3> DEFINE r == [pc |-> "scanWrite", targets |-> {e},
                    noReport |-> IF email[e].report THEN {} ELSE {e}]
               S == {e}
    <3>1. req[h].pc = "idle" /\ req' = [req EXCEPT ![h] = r] /\ r.targets = S
      BY <2>2 DEF BeginScan, IdleRequest
    <3>2. S \in SUBSET Emails
      OBVIOUS
    <3> HIDE DEF r, S
    <3>3. Life!Ask(h, S)
      BY <2>1, <3>1, Asks
    <3> QED BY <3>2, <3>3 DEF Life!Next
  <2>3. ASSUME NEW e \in Emails, BeginCancel(h, e) PROVE Goal
    <3> DEFINE r == [IdleRequest EXCEPT !.pc = "cancelMark", !.targets = {e}]
               S == {e}
    <3>1. req[h].pc = "idle" /\ req' = [req EXCEPT ![h] = r] /\ r.targets = S
      BY <2>3 DEF BeginCancel, IdleRequest
    <3>2. S \in SUBSET Emails
      OBVIOUS
    <3> HIDE DEF r, S
    <3>3. Life!Ask(h, S)
      BY <2>1, <3>1, Asks
    <3> QED BY <3>2, <3>3 DEF Life!Next
  <2>4. ASSUME NEW box \in Mailboxes, BeginScanAll(h, box) PROVE Goal
    <3> DEFINE r == [pc |-> "scanAllWrite", targets |-> {e \in Emails : Present(e) /\ MailboxOf[e] = box},
                    noReport |-> {e \in {d \in Emails : Present(d) /\ MailboxOf[d] = box} :
                                    ~email[e].report}]
               S == {e \in Emails : Present(e) /\ MailboxOf[e] = box}
    <3>1. req[h].pc = "idle" /\ req' = [req EXCEPT ![h] = r] /\ r.targets = S
      BY <2>4 DEF BeginScanAll, IdleRequest
    <3>2. S \in SUBSET Emails
      OBVIOUS
    <3> HIDE DEF r, S
    <3>3. Life!Ask(h, S)
      BY <2>1, <3>1, Asks
    <3> QED BY <3>2, <3>3 DEF Life!Next
  <2>5. ASSUME NEW box \in Mailboxes, BeginClear(h, box) PROVE Goal
    <3> DEFINE r == [IdleRequest EXCEPT !.pc = "cleanPaused",
                                        !.targets = {e \in Emails : MailboxOf[e] = box}]
               S == {e \in Emails : MailboxOf[e] = box}
    <3>1. req[h].pc = "idle" /\ req' = [req EXCEPT ![h] = r] /\ r.targets = S
      BY <2>5 DEF BeginClear, IdleRequest
    <3>2. S \in SUBSET Emails
      OBVIOUS
    <3> HIDE DEF r, S
    <3>3. Life!Ask(h, S)
      BY <2>1, <3>1, Asks
    <3> QED BY <3>2, <3>3 DEF Life!Next
  <2> QED BY <1>8, <2>2, <2>3, <2>4, <2>5 DEF Begin
<1>9. ASSUME Move PROVE Goal
  <2>1. ASSUME NEW e \in Emails, Delete(e) PROVE Goal
    <3>1. Present(e) /\ UNCHANGED req
      BY <2>1 DEF Delete
    <3>2. CASE MailboxOf[e] \in trash
      <4> DEFINE row == [email[e] EXCEPT !.folder = "TRASH"]
      <4>1. email' = [email EXCEPT ![e] = row] /\ moved' = [moved EXCEPT ![e] = TRUE]
        BY <2>1, <3>2 DEF Delete
      <4>2. /\ row \in EmailRows /\ row.folder = "TRASH" /\ row.st = email[e].st
            /\ row.status = email[e].status /\ row.report = email[e].report
            /\ row.malicious = email[e].malicious
        <5>1. email[e] \in EmailRows
          BY <1>1 DEF TypeOK
        <5>2. row \in EmailRows
          BY <5>1, RowUpdates DEF FolderTypes
        <5> QED BY <5>1, <5>2 DEF EmailRows
      <4> HIDE DEF row
      <4>3. Life!Refile(e)
        BY <3>1, <4>1, <4>2, MovesRefile
      <4> QED BY <4>3 DEF Life!Next
    <3>3. CASE MailboxOf[e] \notin trash
      <4> DEFINE S == {e}
      <4>1. /\ email' = Gone(S) /\ UNCHANGED moved
            /\ S \in SUBSET Emails /\ \A d \in S : Present(d)
        BY <2>1, <3>1, <3>3 DEF Delete
      <4> HIDE DEF S
      <4> QED BY <3>1, <4>1, <1>3
    <3> QED BY <3>2, <3>3
  <2>2. ASSUME NEW e \in Emails, NEW type \in {"spam", "phishing"}, Report(e, type) PROVE Goal
    <3> DEFINE row == Reported(email[e], type)
    <3>1. /\ email' = [email EXCEPT ![e] = row] /\ moved' = [moved EXCEPT ![e] = TRUE]
          /\ Present(e) /\ UNCHANGED req
      BY <2>2 DEF Report
    <3>2. row \in EmailRows
      BY <1>1, ReportedRow DEF TypeOK
    <3>3. /\ row.folder # "MALWARE" /\ row.st = email[e].st
          /\ row.status = email[e].status /\ row.report = email[e].report
          /\ row.malicious = email[e].malicious
      BY <1>1 DEF TypeOK, EmailRows, Reported, VerdictFolder
    <3> HIDE DEF row
    <3>4. Life!Refile(e)
      BY <3>1, <3>2, <3>3, MovesRefile
    <3> QED BY <3>4 DEF Life!Next
  <2>3. ASSUME NEW e \in Emails, NEW folder \in FolderTypes \ {"MALWARE"}, Reclassify(e, folder)
        PROVE  Goal
    <3> DEFINE row == Refiled(email[e], folder)
    <3>1. Present(e) /\ UNCHANGED req
      BY <2>3 DEF Reclassify
    <3>2. \/ UNCHANGED <<email, moved>>
          \/ email' = [email EXCEPT ![e] = row] /\ moved' = [moved EXCEPT ![e] = TRUE]
      BY <2>3 DEF Reclassify
    <3>3. row \in EmailRows
      BY <1>1, RefiledRow DEF TypeOK
    <3>4. /\ row.folder # "MALWARE" /\ row.st = email[e].st
          /\ row.status = email[e].status /\ row.report = email[e].report
          /\ row.malicious = email[e].malicious
      BY <1>1 DEF TypeOK, EmailRows, Refiled
    <3> HIDE DEF row
    <3>5. ASSUME email' = [email EXCEPT ![e] = row], moved' = [moved EXCEPT ![e] = TRUE]
          PROVE  Goal
      <4>1. Life!Refile(e)
        BY <3>1, <3>3, <3>4, <3>5, MovesRefile
      <4> QED BY <4>1 DEF Life!Next
    <3> QED BY <3>1, <3>2, <3>5, <1>2
  <2>4. ASSUME NEW e \in Emails, StoreSent(e) PROVE Goal
    <3>1. /\ email[e].st = "absent" /\ UNCHANGED <<moved, req>>
          /\ email' = [email EXCEPT ![e] = Stored(email[e], "SENT", {})]
      BY <2>4 DEF StoreSent
    <3>2. Life!Arrive(e)
      <4>1. "SENT" \in FolderTypes \ {"MALWARE"} /\ {} \in SUBSET {"spam", "phishing"}
        BY DEF FolderTypes
      <4> QED BY <3>1, <4>1, StoredArrives
    <3> QED BY <3>2 DEF Life!Next
  <2>5. ASSUME NEW box \in Mailboxes, RemoveMailbox(box) PROVE Goal
    <3> DEFINE S == {e \in Emails : Present(e) /\ MailboxOf[e] = box}
    <3>1. /\ email' = Gone(S) /\ UNCHANGED <<moved, req>>
          /\ S \in SUBSET Emails /\ \A e \in S : Present(e)
      BY <2>5 DEF RemoveMailbox
    <3> HIDE DEF S
    <3> QED BY <3>1, <1>3
  <2>6. ASSUME NEW box \in Mailboxes, NEW flag \in BOOLEAN, SetPaused(box, flag) PROVE Goal
    BY <2>6, <1>2 DEF SetPaused
  <2> QED BY <1>9, <2>1, <2>2, <2>3, <2>4, <2>5, <2>6 DEF Move
<1>10. ASSUME NEW e \in Emails, Age(e) PROVE Goal
  <2> DEFINE row == [email[e] EXCEPT !.old = TRUE]
  <2>1. email' = [email EXCEPT ![e] = row] /\ UNCHANGED <<moved, req>>
    BY <1>10 DEF Age
  <2>2. /\ row.st = email[e].st /\ row.status = email[e].status
        /\ row.report = email[e].report /\ row.malicious = email[e].malicious
        /\ row.folder = email[e].folder
    BY <1>1 DEF TypeOK, EmailRows
  <2> HIDE DEF row
  <2>3. \A d \in Emails : RecordOf(d)' = RecordOf(d)
    <3>1. email'[e] = row /\ \A d \in Emails \ {e} : email'[d] = email[d]
      BY <1>1, <2>1 DEF TypeOK
    <3> QED BY <2>1, <2>2, <3>1 DEF RecordOf
  <2>4. Record' = Record
    BY <2>3 DEF Record
  <2> QED BY <2>1, <2>4, SameRequests DEF Life!vars, Record, Asked
<1>11. ASSUME NEW e \in Emails,
              \/ SyncFind(e) \/ Take(e) \/ Promote(e) \/ Stall(e) \/ Evict(e)
       PROVE  Goal
  BY <1>2, <1>11 DEF SyncFind, Take, Promote, Stall, Evict
<1>12. ASSUME Crash PROVE Goal
  <2>1. UNCHANGED <<email, moved>> /\ req' = [h \in Handlers |-> IdleRequest]
    BY <1>12 DEF Crash
  <2>2. \A e \in Emails : AskedOf(e)' = {}
    BY <2>1 DEF AskedOf, IdleRequest
  <2>3. Asked' = [e \in Emails |-> {}]
    BY <2>2 DEF Asked
  <2>4. Life!Restart
    BY <2>1, <2>3, SameRows DEF Life!Restart, Record, Asked
  <2> QED BY <2>4 DEF Life!Next
<1>13. ASSUME UNCHANGED vars PROVE Goal
  BY <1>2, <1>13 DEF vars
<1> QED BY <1>4, <1>5, <1>6, <1>7, <1>8, <1>9, <1>10, <1>11, <1>12, <1>13 DEF Next
-----------------------------------------------------------------------------
(* The invariant, and the refinement.                                      *)

\* A step of the record keeps a judgement, and what is not stored unknown.
LEMMA LifeKeeps ==
    ASSUME TypeOK, [Life!Next]_(Life!vars), NEW e \in Emails,
           Record[e].st = "absent" => Record[e] = Life!Unknown
    PROVE  /\ Record[e].judged => Record'[e].judged
           /\ Record'[e].st = "absent" => Record'[e] = Life!Unknown
           /\ Record[e].st = "deleted" => Record'[e] = Record[e]
           /\ Record[e].st # "absent" => Record'[e].st # "absent"
<1> DEFINE Goal == /\ Record[e].judged => Record'[e].judged
                   /\ Record'[e].st = "absent" => Record'[e] = Life!Unknown
                   /\ Record[e].st = "deleted" => Record'[e] = Record[e]
                   /\ Record[e].st # "absent" => Record'[e].st # "absent"
<1>1. \A d \in Emails : Record[d] \in Life!Records
  BY RecordType DEF Record
<1>2. DOMAIN Record = Emails
  BY DEF Record
<1>3. ASSUME NEW d \in Emails, NEW row, Record' = [Record EXCEPT ![d] = row],
             Record[d].judged => row.judged, row.st # "absent", Record[d].st # "deleted"
      PROVE  Goal
  BY <1>2, <1>3
<1>4. ASSUME NEW d \in Emails, Life!Arrive(d) PROVE Goal
  <2>1. /\ Record' = [Record EXCEPT ![d] = [Life!Unknown EXCEPT !.st = "present"]]
        /\ Record[d] = Life!Unknown
    BY <1>4 DEF Life!Arrive, Life!Become, Record
  <2>2. /\ [Life!Unknown EXCEPT !.st = "present"].st = "present" /\ ~Life!Unknown.judged
        /\ Life!Unknown.st = "absent"
    BY DEF Life!Unknown
  <2> QED BY <2>1, <2>2, <1>3
<1>5. ASSUME NEW d \in Emails,
             \/ Life!Judge(d) \/ Life!Condemn(d) \/ Life!Complete(d) \/ Life!Fail(d)
             \/ Life!Refile(d)
      PROVE  Goal
  <2>1. Record[d].st = "present" /\ Record[d] \in Life!Records
    BY <1>1, <1>5 DEF Life!Judge, Life!Condemn, Life!Complete, Life!Fail, Life!Refile,
                      Life!Present, Record
  <2>2. ASSUME Life!Judge(d) PROVE Goal
    <3>1. PICK guilty \in BOOLEAN, kept \in BOOLEAN :
            Record' = [Record EXCEPT ![d] = [Record[d] EXCEPT !.judged = TRUE, !.guilty = guilty,
                                                              !.kept = kept, !.moved = FALSE]]
      BY <2>2 DEF Life!Judge, Life!Become, Record
    <3> DEFINE row == [Record[d] EXCEPT !.judged = TRUE, !.guilty = guilty, !.kept = kept,
                                        !.moved = FALSE]
    <3>2. Record' = [Record EXCEPT ![d] = row] /\ row.judged /\ row.st = "present"
      BY <2>1, <3>1 DEF Life!Records
    <3> HIDE DEF row
    <3> QED BY <2>1, <3>2, <1>3
  <2>3. ASSUME Life!Condemn(d) PROVE Goal
    <3> DEFINE row == [Record[d] EXCEPT !.guilty = TRUE, !.kept = TRUE, !.moved = FALSE]
    <3>1. Record' = [Record EXCEPT ![d] = row]
      BY <2>3 DEF Life!Condemn, Life!Become, Record
    <3>2. (Record[d].judged => row.judged) /\ row.st = "present"
      BY <2>1 DEF Life!Records
    <3> HIDE DEF row
    <3> QED BY <2>1, <3>1, <3>2, <1>3
  <2>4. ASSUME Life!Complete(d) PROVE Goal
    <3> DEFINE row == [Record[d] EXCEPT !.status = "COMPLETED"]
    <3>1. Record' = [Record EXCEPT ![d] = row]
      BY <2>4 DEF Life!Complete, Life!Become, Record
    <3>2. (Record[d].judged => row.judged) /\ row.st = "present"
      BY <2>1 DEF Life!Records
    <3> HIDE DEF row
    <3> QED BY <2>1, <3>1, <3>2, <1>3
  <2>5. ASSUME Life!Fail(d) PROVE Goal
    <3> DEFINE row == [Record[d] EXCEPT !.status = "FAILED"]
    <3>1. Record' = [Record EXCEPT ![d] = row]
      BY <2>5 DEF Life!Fail, Life!Become, Record
    <3>2. (Record[d].judged => row.judged) /\ row.st = "present"
      BY <2>1 DEF Life!Records
    <3> HIDE DEF row
    <3> QED BY <2>1, <3>1, <3>2, <1>3
  <2>6. ASSUME Life!Refile(d) PROVE Goal
    <3> DEFINE row == [Record[d] EXCEPT !.kept = FALSE, !.moved = TRUE]
    <3>1. Record' = [Record EXCEPT ![d] = row]
      BY <2>6 DEF Life!Refile, Life!Become, Record
    <3>2. (Record[d].judged => row.judged) /\ row.st = "present"
      BY <2>1 DEF Life!Records
    <3> HIDE DEF row
    <3> QED BY <2>1, <3>1, <3>2, <1>3
  <2> QED BY <1>5, <2>2, <2>3, <2>4, <2>5, <2>6
<1>6. ASSUME NEW S \in SUBSET Emails, Life!Remove(S) PROVE Goal
  <2>1. Record'[e] = IF e \in S THEN [Record[e] EXCEPT !.st = "deleted"] ELSE Record[e]
    BY <1>6 DEF Life!Remove, Record
  <2>2. e \in S => Record[e].st = "present"
    BY <1>6 DEF Life!Remove, Life!Present, Record
  <2> QED BY <1>1, <2>1, <2>2 DEF Life!Records
<1>7. ASSUME NEW h \in Handlers, NEW S \in SUBSET Emails, NEW status \in Life!Statuses,
             Life!Settle(h, S, status)
      PROVE  Goal
  <2>1. Record'[e] = IF e \in S THEN [Record[e] EXCEPT !.status = status] ELSE Record[e]
    BY <1>7 DEF Life!Settle, Record
  <2>2. e \in S => Record[e].st = "present"
    BY <1>7 DEF Life!Settle, Life!Present, Record
  <2> QED BY <1>1, <2>1, <2>2 DEF Life!Records
<1>8. ASSUME Record' = Record PROVE Goal
  BY <1>8
<1> QED BY <1>4, <1>5, <1>6, <1>7, <1>8
     DEF Life!Next, Life!vars, Life!Restart, Life!Ask, Life!Answer, Record

LEMMA LifeInvInit == Init => LifeInv /\ Life!Init
<1> SUFFICES ASSUME Init PROVE LifeInv /\ Life!Init
  OBVIOUS
<1>1. \A e \in Emails : RecordOf(e) = Life!Unknown /\ AskedOf(e) = {}
  BY DEF Init, RecordOf, AskedOf, IdleRequest, Life!Unknown
<1>2. Life!Init
  BY <1>1 DEF Life!Init
<1>3. AbsentIsUnknown /\ IdleIsFree /\ ScansAreJudged
  BY <1>1 DEF Init, AbsentIsUnknown, IdleIsFree, ScansAreJudged, IdleRequest
<1> QED BY <1>2, <1>3, PendingInvInit, FilingInvInit DEF LifeInv

\* A handler's request: what any step leaves of it.
LEMMA RequestsKeepOrder ==
    ASSUME TypeOK, [Next]_vars, IdleIsFree, ScansAreJudged,
           \A e \in Emails : email[e].report => email'[e].report
    PROVE  (IdleIsFree /\ ScansAreJudged)'
<1> DEFINE Goal == (IdleIsFree /\ ScansAreJudged)'
<1> USE DEF emailVars, queueVars, lateVars, requestVars, observers
<1>1. \A h \in Handlers : req[h].targets \subseteq Emails
  BY DEF TypeOK, RequestStates
<1>2. ASSUME UNCHANGED req PROVE Goal
  BY <1>1, <1>2 DEF IdleIsFree, ScansAreJudged
<1>3. ASSUME NEW h \in Handlers, NEW r, req' = [req EXCEPT ![h] = r],
             r.pc = "idle" => r.targets = {},
             r.pc = "scanWrite" => \A e \in r.targets \ r.noReport : email'[e].report
      PROVE  Goal
  <2>1. \A g \in Handlers : req'[g] = IF g = h THEN r ELSE req[g]
    BY <1>3 DEF TypeOK
  <2> QED BY <1>1, <1>3, <2>1 DEF IdleIsFree, ScansAreJudged
<1>4. ASSUME NEW h \in Handlers, Done(h) PROVE Goal
  BY <1>3, <1>4 DEF Done, IdleRequest
<1>5. ASSUME NEW h \in Handlers, NEW pc \in RequestPcs \ {"idle", "scanWrite"}, Progress(h, pc)
      PROVE  Goal
  <2> DEFINE r == [req[h] EXCEPT !.pc = pc]
  <2>1. req' = [req EXCEPT ![h] = r] /\ r.pc = pc
    BY <1>5 DEF Progress, TypeOK, RequestStates
  <2> HIDE DEF r
  <2> QED BY <1>3, <2>1
<1>6. ASSUME NEW h \in Handlers, Serve(h) PROVE Goal
  <2>1. \/ Done(h)
        \/ \E pc \in {"add", "cleanDelayed", "clearMark"} : Progress(h, pc)
    BY <1>6 DEF Serve, ScanWrite, ScanAllWrite, ScanAdd, CleanPaused, CleanDelayed, MarkFailed,
                Abandon
  <2> QED BY <2>1, <1>4, <1>5 DEF RequestPcs
<1>7. ASSUME NEW h \in Handlers, NEW e \in Emails, BeginScan(h, e) PROVE Goal
  <2> DEFINE r == [pc |-> "scanWrite", targets |-> {e},
                  noReport |-> IF email[e].report THEN {} ELSE {e}]
  <2>1. req' = [req EXCEPT ![h] = r] /\ r.pc = "scanWrite"
    BY <1>7 DEF BeginScan
  <2>2. \A d \in r.targets \ r.noReport : email'[d].report
    OBVIOUS
  <2> HIDE DEF r
  <2> QED BY <1>3, <2>1, <2>2
<1>8. ASSUME NEW h \in Handlers, NEW r, req' = [req EXCEPT ![h] = r],
             r.pc \notin {"idle", "scanWrite"}
      PROVE  Goal
  BY <1>3, <1>8
<1>9. ASSUME NEW h \in Handlers, Begin(h) PROVE Goal
  <2>1. ASSUME NEW e \in Emails, BeginCancel(h, e) PROVE Goal
    <3> DEFINE r == [IdleRequest EXCEPT !.pc = "cancelMark", !.targets = {e}]
    <3>1. req' = [req EXCEPT ![h] = r] /\ r.pc = "cancelMark"
      BY <2>1 DEF BeginCancel, IdleRequest
    <3> HIDE DEF r
    <3> QED BY <3>1, <1>8
  <2>2. ASSUME NEW box \in Mailboxes, BeginScanAll(h, box) PROVE Goal
    <3> DEFINE found == {e \in Emails : Present(e) /\ MailboxOf[e] = box}
               r == [pc |-> "scanAllWrite", targets |-> found,
                     noReport |-> {e \in found : ~email[e].report}]
    <3>1. req' = [req EXCEPT ![h] = r] /\ r.pc = "scanAllWrite"
      BY <2>2 DEF BeginScanAll
    <3> HIDE DEF r
    <3> QED BY <3>1, <1>8
  <2>3. ASSUME NEW box \in Mailboxes, BeginClear(h, box) PROVE Goal
    <3> DEFINE r == [IdleRequest EXCEPT !.pc = "cleanPaused",
                                        !.targets = {e \in Emails : MailboxOf[e] = box}]
    <3>1. req' = [req EXCEPT ![h] = r] /\ r.pc = "cleanPaused"
      BY <2>3 DEF BeginClear, IdleRequest
    <3> HIDE DEF r
    <3> QED BY <3>1, <1>8
  <2> QED BY <1>7, <1>9, <2>1, <2>2, <2>3 DEF Begin
<1>10. ASSUME Crash PROVE Goal
  BY <1>10 DEF Crash, IdleRequest, IdleIsFree, ScansAreJudged
<1>11. ASSUME NEW e \in Emails,
              \/ SyncFind(e) \/ SyncStep(e) \/ Take(e) \/ Process(e) \/ LateScan(e)
              \/ Promote(e) \/ Stall(e) \/ Evict(e) \/ Age(e)
       PROVE  Goal
  BY <1>2, <1>11
     DEF SyncFind, SyncStep, SyncCreate, SyncStore, SyncEnqueue, SyncAbandon, Take, Process,
         LoadMissing, Load, Fetch, AnalyzeVerdict, AnalyzeFails, AnalyzeFallback, Persist,
         PersistLost, PersistConflict, DupDelete, Mark, MarkFails, Finish, Catch, CatchUnmarked,
         LateScan, LateNothing, LateMalicious, LateConflict, LateDupDelete, Promote, Stall,
         Evict, Age
<1>12. ASSUME Move PROVE Goal
  BY <1>2, <1>12 DEF Move, Delete, StoreSent, Report, Reclassify, RemoveMailbox, SetPaused
<1>13. ASSUME UNCHANGED vars PROVE Goal
  BY <1>2, <1>13 DEF vars
<1> QED BY <1>6, <1>9, <1>10, <1>11, <1>12, <1>13 DEF Next

LEMMA LifeInvNext == LifeInv /\ [Next]_vars => LifeInv'
<1> SUFFICES ASSUME LifeInv, [Next]_vars PROVE LifeInv'
  OBVIOUS
<1>1. PendingInv' /\ FilingInv'
  BY PendingInvNext, FilingInvNext DEF LifeInv
<1>2. TypeOK /\ [Life!Next]_(Life!vars)
  BY StepRefines DEF LifeInv, FilingInv, TypeInv
<1>3. \A e \in Emails : /\ Record[e].judged => Record'[e].judged
                        /\ Record'[e].st = "absent" => Record'[e] = Life!Unknown
  BY <1>2, LifeKeeps DEF LifeInv, AbsentIsUnknown, Record, RecordOf
<1>4. AbsentIsUnknown'
  BY <1>3 DEF AbsentIsUnknown, Record, RecordOf
<1>5. \A e \in Emails : email[e].report => email'[e].report
  BY <1>3 DEF Record, RecordOf
<1>6. (IdleIsFree /\ ScansAreJudged)'
  BY <1>2, <1>5, RequestsKeepOrder DEF LifeInv
<1> QED BY <1>1, <1>4, <1>6 DEF LifeInv

\* The sync, the worker with its retries, the late scans, the removals of
\* duplicates, the requests and the crashes together implement the abstract
\* record: every step of theirs is one of its steps, or leaves it alone.
THEOREM AnalysisKeepsRecords == Spec => RecordLife
<1>1. Init => LifeInv /\ Life!Init
  BY LifeInvInit
<1>2. LifeInv /\ [Next]_vars => LifeInv' /\ [Life!Next]_(Life!vars)
  BY LifeInvNext, StepRefines
<1> QED BY <1>1, <1>2, PTL DEF Spec, RecordLife, Life!Spec

\* What is judged stays judged and what is gone stays as it went: no retry, late
\* scan, second copy or request of a slow client stores it again or writes to it.
THEOREM RecordsAreFinal ==
    Spec => [][\A e \in Emails :
                 /\ email[e].report => email'[e].report
                 /\ email[e].st # "absent" => email'[e].st # "absent"
                 /\ email[e].st = "deleted" => RecordOf(e)' = RecordOf(e)]_vars
<1>1. LifeInv /\ [Next]_vars
      => [\A e \in Emails :
            /\ email[e].report => email'[e].report
            /\ email[e].st # "absent" => email'[e].st # "absent"
            /\ email[e].st = "deleted" => RecordOf(e)' = RecordOf(e)]_vars
  <2> SUFFICES ASSUME LifeInv, [Next]_vars, NEW e \in Emails
               PROVE  /\ email[e].report => email'[e].report
                      /\ email[e].st # "absent" => email'[e].st # "absent"
                      /\ email[e].st = "deleted" => RecordOf(e)' = RecordOf(e)
    OBVIOUS
  <2>1. TypeOK /\ [Life!Next]_(Life!vars)
    BY StepRefines DEF LifeInv, FilingInv, TypeInv
  <2>2. /\ Record[e].judged => Record'[e].judged
        /\ Record[e].st # "absent" => Record'[e].st # "absent"
        /\ Record[e].st = "deleted" => Record'[e] = Record[e]
    BY <2>1, LifeKeeps DEF LifeInv, AbsentIsUnknown, Record, RecordOf
  <2>3. Record[e] = RecordOf(e) /\ Record'[e] = RecordOf(e)'
    BY DEF Record
  <2>4. /\ RecordOf(e).judged = email[e].report /\ RecordOf(e).st = email[e].st
        /\ RecordOf(e)'.judged = email'[e].report /\ RecordOf(e)'.st = email'[e].st
    BY DEF RecordOf
  <2> QED BY <2>2, <2>3, <2>4
<1>2. Spec => []LifeInv
  BY LifeInvInit, LifeInvNext, PTL DEF Spec
<1> QED BY <1>1, <1>2, PTL DEF Spec
=============================================================================
