------------------------- MODULE MailboxSync_proofs -------------------------
(***************************************************************************)
(* Theorems about MailboxSync, for every number of messages, folders, sync *)
(* jobs and requests, any window and any number of failures and crashes.   *)
(***************************************************************************)
EXTENDS MailboxSync, FiniteSetTheorems, TLAPS

\* What a request carries to the provider is about a message it has.
RequestsSound ==
    \A h \in Handlers :
        /\ request[h].pc \in {"read", "search", "relock", "trash"} => request[h].message \in Messages
        /\ request[h].pc = "read" => "read" \in Flags

\* A sync that is about to list or store messages knows the folder row for them.
SoundSyncs == {s \in Syncs :
    s.pc = "list" \/ (\E m \in Messages : s.stage[m] # "none") => s.folder \in FolderRows}
SyncsSound == sync \in [SyncJobs -> SoundSyncs]
TypeInv == TypeOK /\ RequestsSound /\ SyncsSound

-----------------------------------------------------------------------------
(* Constants, and the values the actions are built from.                   *)

LEMMA Constants ==
    /\ Messages \subseteq Nat /\ Messages \subseteq 0..LastMessage /\ 0 \notin Messages
    /\ DOMAIN FolderOrder = 1..Len(FolderOrder) /\ Len(FolderOrder) \in Nat
    /\ 1 \in DOMAIN FolderOrder
    /\ \A k \in DOMAIN FolderOrder : FolderOrder[k] \in Types
<1>1. LastMessage \in Nat /\ FolderOrder \in Seq({"INBOX", "SENT", "SPAM"}) /\ FolderOrder # <<>>
  BY SyncAssumption
<1>2. Messages \subseteq Nat /\ Messages \subseteq 0..LastMessage /\ 0 \notin Messages
  BY <1>1 DEF Messages
<1>3. /\ DOMAIN FolderOrder = 1..Len(FolderOrder) /\ Len(FolderOrder) \in Nat
      /\ 1 \in DOMAIN FolderOrder
  BY <1>1
<1> QED BY <1>2, <1>3 DEF Types

LEMMA Initials == NoJob \in Jobs /\ NoSync \in SoundSyncs /\ NoRequest \in Requests /\ NoFolders \in [FolderTypes -> Nat]
<1>1. NoJob \in Jobs
  BY QueueAssumption DEF NoJob, Jobs, Origins, LiveStates, FinishedStates
<1>2. NoFolders \in [FolderTypes -> Nat]
  BY DEF NoFolders
<1>3. NoSync \in SoundSyncs
  BY <1>2, Constants DEF NoSync, Syncs, SoundSyncs, SyncPcs, Stages
<1>4. NoRequest \in Requests
  BY SyncAssumption DEF NoRequest, Requests, FolderTypes
<1> QED BY <1>1, <1>2, <1>3, <1>4

LEMMA JobSteps ==
    ASSUME NEW j \in Jobs
    PROVE  /\ [j EXCEPT !.st = "active"] \in Jobs /\ [j EXCEPT !.st = "waiting"] \in Jobs
           /\ NewJob("sync") \in Jobs
           /\ Forget(CompleteJob(j)) \in Jobs
           /\ Forget(FailJob(j)) \in Jobs
           /\ Forget(StallJob(j)) \in Jobs
<1> USE DEF LiveStates, FinishedStates
<1>1. [j EXCEPT !.st = "active"] \in Jobs /\ [j EXCEPT !.st = "waiting"] \in Jobs
  BY DEF Jobs
<1>2. NewJob("sync") \in Jobs
  BY Initials DEF NewJob, Jobs, Origins
<1>3. Forget(CompleteJob(j)) \in Jobs
  BY Initials DEF Forget, Live, CompleteJob, Jobs
<1>4. /\ MaxAttempts \in Nat /\ j.attempts \in 0..MaxAttempts
      /\ MaxStalled \in Nat /\ j.stalls \in 0..MaxStalled
  BY QueueAssumption DEF Jobs
<1>5. Forget(FailJob(j)) \in Jobs
  <2>1. CASE j.attempts + 1 < MaxAttempts
    <3>1. FailJob(j) = [j EXCEPT !.attempts = j.attempts + 1, !.st = "delayed"]
      BY <2>1 DEF FailJob
    <3>2. j.attempts + 1 \in 0..MaxAttempts
      BY <1>4, <2>1
    <3>3. FailJob(j) \in Jobs
      BY <3>1, <3>2 DEF Jobs
    <3> QED BY <3>3, Initials DEF Forget
  <2>2. CASE ~(j.attempts + 1 < MaxAttempts)
    <3>1. FailJob(j) = [j EXCEPT !.attempts = j.attempts + 1, !.st = "failed"]
      BY <2>2 DEF FailJob
    <3>2. FailJob(j).st = "failed"
      BY <3>1 DEF Jobs
    <3> QED BY <3>2, Initials DEF Forget, Live
  <2> QED BY <2>1, <2>2
<1>6. Forget(StallJob(j)) \in Jobs
  <2>1. CASE j.stalls < MaxStalled
    <3>1. StallJob(j) = [j EXCEPT !.st = "waiting", !.stalls = j.stalls + 1]
      BY <2>1 DEF StallJob
    <3>2. j.stalls + 1 \in 0..MaxStalled
      BY <1>4, <2>1
    <3>3. StallJob(j) \in Jobs
      BY <3>1, <3>2 DEF Jobs
    <3> QED BY <3>3, Initials DEF Forget
  <2>2. CASE ~(j.stalls < MaxStalled)
    <3>1. StallJob(j) = [j EXCEPT !.st = "failed"]
      BY <2>2 DEF StallJob
    <3>2. StallJob(j).st = "failed"
      BY <3>1 DEF Jobs
    <3> QED BY <3>2, Initials DEF Forget, Live
  <2> QED BY <2>1, <2>2
<1> QED BY <1>1, <1>2, <1>3, <1>5, <1>6

\* A sync that moves on, by whichever of its fields.
LEMMA SyncSteps ==
    ASSUME NEW s \in SoundSyncs, NEW m \in Messages
    PROVE  /\ \A pc \in SyncPcs \ {"list"} : [s EXCEPT !.pc = pc] \in SoundSyncs
           /\ \A stage \in Stages : s.stage[m] # "none" \/ stage = "none" =>
                 [s EXCEPT !.stage[m] = stage] \in SoundSyncs
           /\ \A flags \in SUBSET Flags : \A stage \in Stages : s.stage[m] # "none" \/ stage = "none" =>
                 [s EXCEPT !.stage[m] = stage, !.copy[m] = flags] \in SoundSyncs
           /\ \A pc \in SyncPcs, folder \in FolderRows :
                 [s EXCEPT !.pc = pc, !.folder = folder] \in SoundSyncs
           /\ \A stage \in [Messages -> Stages], copy \in [Messages -> SUBSET Flags] :
                 \A folder \in FolderRows :
                 [s EXCEPT !.pc = "items", !.folder = folder, !.stage = stage, !.copy = copy]
                 \in SoundSyncs
<1> USE DEF Syncs, SoundSyncs
<1>1. \A pc \in SyncPcs \ {"list"} : [s EXCEPT !.pc = pc] \in SoundSyncs
  OBVIOUS
<1>2. \A stage \in Stages : s.stage[m] # "none" \/ stage = "none" =>
         [s EXCEPT !.stage[m] = stage] \in SoundSyncs
  OBVIOUS
<1>3. \A flags \in SUBSET Flags : \A stage \in Stages : s.stage[m] # "none" \/ stage = "none" =>
         [s EXCEPT !.stage[m] = stage, !.copy[m] = flags] \in SoundSyncs
  OBVIOUS
<1>4. \A pc \in SyncPcs, folder \in FolderRows :
         [s EXCEPT !.pc = pc, !.folder = folder] \in SoundSyncs
  OBVIOUS
<1>5. \A stage \in [Messages -> Stages], copy \in [Messages -> SUBSET Flags] :
         \A folder \in FolderRows :
         [s EXCEPT !.pc = "items", !.folder = folder, !.stage = stage, !.copy = copy] \in SoundSyncs
  BY DEF SyncPcs
<1> QED BY <1>1, <1>2, <1>3, <1>4, <1>5

LEMMA RowSteps ==
    ASSUME rows \subseteq Rows, NEW r \in rows
    PROVE  /\ r.message \in Messages
           /\ \A flags \in SUBSET Flags : Replaced(r, [r EXCEPT !.flags = flags]) \subseteq Rows
           /\ \A folder \in FolderRows : Replaced(r, [r EXCEPT !.folder = folder]) \subseteq Rows
           /\ r.flags \subseteq Flags
BY DEF Rows, Replaced

-----------------------------------------------------------------------------
(* Type correctness.                                                       *)

\* The steps of the program, one disjunct per action.
LEMMA NextCases ==
    ASSUME Next
    PROVE  \/ \E j \in SyncJobs :
                \/ Schedule(j) \/ Take(j) \/ TakeMissing(j) \/ Promote(j) \/ Stall(j)
                \/ FindFolder(j) \/ CreateFolder(j) \/ SkipFolder(j) \/ List(j)
                \/ NextFolder(j) \/ Finish(j) \/ AttemptFails(j)
           \/ \E j \in SyncJobs, m \in Messages :
                Fetch(j, m) \/ Find(j, m) \/ Update(j, m) \/ Create(j, m) \/ SkipMessage(j, m)
           \/ \E m \in Messages : Arrive(m) \/ MoveRemotely(m) \/ FlagRemotely(m)
           \/ \E h \in Handlers, r \in rows :
                \/ \E on \in BOOLEAN : BeginMarkRead(h, r, on) \/ ToggleStar(h, r, on)
                \/ \E type \in FolderTypes : Refile(h, r, type)
                \/ BeginDelete(h, r)
           \/ \E h \in Handlers :
                \/ \E m \in 0..LastMessage, type \in FolderTypes : MissFolder(h, m, type)
                \/ MakeFolder(h) \/ MarkRemotely(h) \/ SearchRemotely(h) \/ TrashRemotely(h)
                \/ RemoteFails(h)
           \/ RemoveMailbox \/ Crash
BY DEF Next, Process, Serve, Respond

\* A step of one sync.
LEMMA BecomeTypes ==
    ASSUME sync \in [SyncJobs -> SoundSyncs], NEW j \in SyncJobs, NEW s \in SoundSyncs, Become(j, s)
    PROVE  /\ sync' \in [SyncJobs -> SoundSyncs]
           /\ sync'[j] = s /\ \A i \in SyncJobs \ {j} : sync'[i] = sync[i]
BY DEF Become

\* What a listing leaves behind.
LEMMA ListingTypes ==
    ASSUME TypeInv, NEW j \in SyncJobs, NEW folder \in FolderRows, Listing(j, folder)
    PROVE  /\ sync' \in [SyncJobs -> SoundSyncs]
           /\ sync'[j].pc = "items" /\ sync'[j].at = sync[j].at /\ sync'[j].known = sync[j].known
           /\ sync'[j].folder = folder
           /\ \A m \in Messages : sync'[j].stage[m] =
                                    IF m \in Listed(Type(j)) THEN "fetch" ELSE "none"
           /\ \A i \in SyncJobs \ {j} : sync'[i] = sync[i]
<1> DEFINE stage == [m \in Messages |-> IF m \in Listed(Type(j)) THEN "fetch" ELSE "none"]
           copy == [m \in Messages |-> IF provider = "CUSTOM" /\ m \in Listed(Type(j))
                                       THEN seen[m] ELSE {}]
           s == [sync[j] EXCEPT !.pc = "items", !.folder = folder, !.stage = stage, !.copy = copy]
<1>1. stage \in [Messages -> Stages]
  BY DEF Stages
<1>2. copy \in [Messages -> SUBSET Flags]
  BY DEF TypeInv, TypeOK
<1>3. sync \in [SyncJobs -> SoundSyncs] /\ sync[j] \in SoundSyncs
  BY DEF TypeInv, SyncsSound
<1>4. 1 \in Messages
  BY SyncAssumption DEF Messages
<1> HIDE DEF stage, copy
<1>5. s \in SoundSyncs
  BY <1>1, <1>2, <1>3, <1>4, SyncSteps
<1>6. Become(j, s)
  BY DEF Listing, stage, copy
<1>7. s.pc = "items" /\ s.at = sync[j].at /\ s.known = sync[j].known /\ s.stage = stage
      /\ s.folder = folder
  BY <1>3 DEF Syncs, SoundSyncs
<1> HIDE DEF s
<1>8. /\ sync' \in [SyncJobs -> SoundSyncs] /\ sync'[j] = s
      /\ \A i \in SyncJobs \ {j} : sync'[i] = sync[i]
  BY <1>3, <1>5, <1>6, BecomeTypes
<1>9. \A m \in Messages : stage[m] = IF m \in Listed(Type(j)) THEN "fetch" ELSE "none"
  BY DEF stage
<1> QED BY <1>7, <1>8, <1>9

\* What the steps of a sync leave of its types.
LEMMA SyncStepTypes ==
    ASSUME TypeInv, NEW j \in SyncJobs
    PROVE  /\ Take(j) => sync' \in [SyncJobs -> SoundSyncs]
           /\ FindFolder(j) => sync' \in [SyncJobs -> SoundSyncs]
           /\ CreateFolder(j) => sync' \in [SyncJobs -> SoundSyncs] /\ folders' \in [FolderTypes -> Nat]
           /\ SkipFolder(j) => sync' \in [SyncJobs -> SoundSyncs]
           /\ List(j) => sync' \in [SyncJobs -> SoundSyncs]
           /\ NextFolder(j) => sync' \in [SyncJobs -> SoundSyncs]
<1>1. /\ sync \in [SyncJobs -> SoundSyncs] /\ sync[j] \in SoundSyncs /\ folders \in [FolderTypes -> Nat]
      /\ sync[j].at \in DOMAIN FolderOrder /\ sync[j].known \in [FolderTypes -> Nat]
      /\ sync[j].folder \in FolderRows \cup {NoFolder}
  BY DEF TypeInv, TypeOK, Syncs, SyncsSound, SoundSyncs
<1>2. Type(j) \in Types /\ Type(j) \in FolderTypes
  BY <1>1, Constants DEF Type, FolderTypes
<1>3. 1 \in Messages
  BY SyncAssumption DEF Messages
<1>4. ASSUME Take(j) PROVE sync' \in [SyncJobs -> SoundSyncs]
  <2> DEFINE known == IF provider = "GMAIL" THEN NoFolders ELSE folders
             s == [NoSync EXCEPT !.pc = "folder", !.known = known]
  <2>1. known \in [FolderTypes -> Nat]
    BY <1>1, Initials
  <2> HIDE DEF known
  <2>2. s \in SoundSyncs
    BY <2>1, Initials DEF Syncs, SoundSyncs, SyncPcs
  <2>3. Become(j, s)
    BY <1>4 DEF Take, known
  <2> HIDE DEF s
  <2> QED BY <1>1, <2>2, <2>3, BecomeTypes
<1>5. ASSUME FindFolder(j) PROVE sync' \in [SyncJobs -> SoundSyncs]
  <2>1. CASE Goto(j, "newFolder")
    <3>1. [sync[j] EXCEPT !.pc = "newFolder"] \in SoundSyncs
      BY <1>1, <1>3, SyncSteps DEF SyncPcs
    <3> QED BY <1>1, <2>1, <3>1, BecomeTypes DEF Goto
  <2>2. ASSUME NEW n \in 1..FoldersFound(j), Listing(j, <<Type(j), n>>)
        PROVE  sync' \in [SyncJobs -> SoundSyncs]
    <3>1. FoldersFound(j) \in Nat
      BY <1>1, <1>2 DEF FoldersFound
    <3>2. <<Type(j), n>> \in FolderRows
      BY <1>2, <3>1 DEF FolderRows
    <3> QED BY <2>2, <3>2, ListingTypes
  <2> QED BY <1>5, <2>1, <2>2 DEF FindFolder
<1>6. ASSUME CreateFolder(j)
      PROVE  sync' \in [SyncJobs -> SoundSyncs] /\ folders' \in [FolderTypes -> Nat]
  <2>1. folders[Type(j)] + 1 \in Nat \ {0}
    BY <1>1, <1>2
  <2>2. folders' \in [FolderTypes -> Nat]
    BY <1>1, <1>2, <1>6, <2>1 DEF CreateFolder
  <2>3. <<Type(j), folders[Type(j)] + 1>> \in FolderRows
    BY <1>2, <2>1 DEF FolderRows
  <2>4. [sync[j] EXCEPT !.pc = "list", !.folder = <<Type(j), folders[Type(j)] + 1>>] \in SoundSyncs
    BY <1>1, <1>3, <2>3, SyncSteps DEF SyncPcs
  <2> QED BY <1>1, <1>6, <2>2, <2>4, BecomeTypes DEF CreateFolder
<1>7. ASSUME SkipFolder(j) PROVE sync' \in [SyncJobs -> SoundSyncs]
  <2>1. [sync[j] EXCEPT !.pc = "items"] \in SoundSyncs
    BY <1>1, <1>3, SyncSteps DEF SyncPcs
  <2> QED BY <1>1, <1>7, <2>1, BecomeTypes DEF SkipFolder, Goto
<1>8. ASSUME List(j) PROVE sync' \in [SyncJobs -> SoundSyncs]
  <2>1. sync[j].folder \in FolderRows
    BY <1>1, <1>8 DEF List, SoundSyncs
  <2> QED BY <1>8, <2>1, ListingTypes DEF List
<1>9. ASSUME NextFolder(j) PROVE sync' \in [SyncJobs -> SoundSyncs]
  <2> DEFINE s == [NoSync EXCEPT !.pc = "folder", !.known = sync[j].known, !.at = sync[j].at + 1]
  <2>1. sync[j].at + 1 \in DOMAIN FolderOrder
    BY <1>1, <1>9, Constants DEF NextFolder, LastFolder
  <2>2. s \in SoundSyncs
    BY <1>1, <2>1, Initials DEF Syncs, SoundSyncs, SyncPcs
  <2>3. Become(j, s)
    BY <1>9 DEF NextFolder
  <2> HIDE DEF s
  <2> QED BY <1>1, <2>2, <2>3, BecomeTypes
<1> QED BY <1>4, <1>5, <1>6, <1>7, <1>8, <1>9

\* Dropping a message, whatever became of it.
LEMMA DropTypes ==
    ASSUME sync \in [SyncJobs -> SoundSyncs], NEW j \in SyncJobs, NEW m \in Messages, Drop(j, m)
    PROVE  /\ sync' \in [SyncJobs -> SoundSyncs]
           /\ sync'[j].pc = sync[j].pc /\ sync'[j].at = sync[j].at /\ sync'[j].known = sync[j].known
           /\ sync'[j].folder = sync[j].folder
           /\ sync'[j].stage = [sync[j].stage EXCEPT ![m] = "none"]
           /\ \A i \in SyncJobs \ {j} : sync'[i] = sync[i]
<1> DEFINE s == [sync[j] EXCEPT !.stage[m] = "none", !.copy[m] = {}]
<1>1. s \in SoundSyncs
  BY SyncSteps DEF Stages
<1>2. s.pc = sync[j].pc /\ s.at = sync[j].at /\ s.known = sync[j].known
      /\ s.folder = sync[j].folder
      /\ s.stage = [sync[j].stage EXCEPT ![m] = "none"]
  BY DEF Syncs, SoundSyncs
<1>3. Become(j, s)
  BY DEF Drop
<1> HIDE DEF s
<1> QED BY <1>1, <1>2, <1>3, BecomeTypes

LEMMA MessageStepTypes ==
    ASSUME TypeInv, NEW j \in SyncJobs, NEW m \in Messages
    PROVE  /\ Fetch(j, m) => sync' \in [SyncJobs -> SoundSyncs]
           /\ Find(j, m) => sync' \in [SyncJobs -> SoundSyncs]
           /\ Update(j, m) => sync' \in [SyncJobs -> SoundSyncs] /\ rows' \subseteq Rows
           /\ Create(j, m) => sync' \in [SyncJobs -> SoundSyncs] /\ rows' \subseteq Rows
           /\ SkipMessage(j, m) => sync' \in [SyncJobs -> SoundSyncs]
<1>1. /\ sync \in [SyncJobs -> SoundSyncs] /\ sync[j] \in SoundSyncs /\ rows \subseteq Rows
      /\ sync[j].copy[m] \in SUBSET Flags /\ seen[m] \in SUBSET Flags
      /\ sync[j].folder \in FolderRows \cup {NoFolder}
  BY DEF TypeInv, TypeOK, Syncs, SyncsSound, SoundSyncs
<1>2. ASSUME Fetch(j, m) PROVE sync' \in [SyncJobs -> SoundSyncs]
  <2> DEFINE flags == IF provider = "CUSTOM" THEN sync[j].copy[m] ELSE seen[m]
             s == [sync[j] EXCEPT !.stage[m] = "find", !.copy[m] = flags]
  <2>1. flags \in SUBSET Flags /\ "find" \in Stages /\ sync[j].stage[m] # "none"
    BY <1>1, <1>2 DEF Stages, Fetch
  <2>2. Become(j, s)
    BY <1>2 DEF Fetch
  <2> HIDE DEF flags
  <2>3. s \in SoundSyncs
    BY <1>1, <2>1, SyncSteps
  <2> HIDE DEF s
  <2> QED BY <1>1, <2>2, <2>3, BecomeTypes
<1>3. ASSUME Find(j, m) PROVE sync' \in [SyncJobs -> SoundSyncs]
  <2> DEFINE stage == IF Stored(m) THEN "update" ELSE "create"
             s == [sync[j] EXCEPT !.stage[m] = stage]
  <2>1. stage \in Stages /\ sync[j].stage[m] # "none"
    BY <1>3 DEF Stages, Find
  <2>2. Become(j, s)
    BY <1>3 DEF Find, Advance
  <2> HIDE DEF stage
  <2>3. s \in SoundSyncs
    BY <1>1, <2>1, SyncSteps
  <2> HIDE DEF s
  <2> QED BY <1>1, <2>2, <2>3, BecomeTypes
<1>4. ASSUME Update(j, m) PROVE sync' \in [SyncJobs -> SoundSyncs] /\ rows' \subseteq Rows
  <2>1. rows' \subseteq Rows
    BY <1>1, <1>4, RowSteps DEF Update, RowsOf
  <2> QED BY <1>1, <1>4, <2>1, DropTypes DEF Update
<1>5. ASSUME Create(j, m) PROVE sync' \in [SyncJobs -> SoundSyncs] /\ rows' \subseteq Rows
  <2>1. sync[j].folder \in FolderRows
    BY <1>1, <1>5 DEF Create, SoundSyncs
  <2>2. [message |-> m, folder |-> sync[j].folder, flags |-> sync[j].copy[m]] \in Rows
    BY <1>1, <2>1 DEF Rows
  <2>3. rows' \subseteq Rows
    BY <1>1, <1>5, <2>2 DEF Create
  <2> QED BY <1>1, <1>5, <2>3, DropTypes DEF Create
<1>6. ASSUME SkipMessage(j, m) PROVE sync' \in [SyncJobs -> SoundSyncs]
  BY <1>1, <1>6, DropTypes DEF SkipMessage
<1> QED BY <1>2, <1>3, <1>4, <1>5, <1>6

\* What the requests leave of the types of what they write.
LEMMA RequestStepTypes ==
    ASSUME TypeInv, NEW h \in Handlers
    PROVE  /\ \A pc \in {"newFolder"}, m \in 0..LastMessage, type \in FolderTypes, read \in BOOLEAN :
                 Ask(h, pc, m, type, read) => request' \in [Handlers -> Requests] /\ RequestsSound'
           /\ \A pc \in {"read", "search", "trash"}, m \in Messages, read \in BOOLEAN :
                 (pc = "read" => "read" \in Flags) /\ Ask(h, pc, m, "FILED", read)
                 => request' \in [Handlers -> Requests] /\ RequestsSound'
           /\ Answer(h) => request' \in [Handlers -> Requests] /\ RequestsSound'
           /\ UNCHANGED request => request' \in [Handlers -> Requests] /\ RequestsSound'
<1>1. request \in [Handlers -> Requests] /\ RequestsSound
  BY DEF TypeInv, TypeOK
<1>2. NoRequest \in Requests /\ NoRequest.pc = "idle"
  BY Initials DEF NoRequest
<1>3. "FILED" \in FolderTypes /\ Messages \subseteq 0..LastMessage
  BY Constants DEF FolderTypes
<1>4. ASSUME NEW q \in Requests, request' = [request EXCEPT ![h] = q],
             q.pc \in {"read", "search", "relock", "trash"} => q.message \in Messages,
             q.pc = "read" => "read" \in Flags
      PROVE  request' \in [Handlers -> Requests] /\ RequestsSound'
  <2>1. request' \in [Handlers -> Requests] /\ request'[h] = q
        /\ \A g \in Handlers \ {h} : request'[g] = request[g]
    BY <1>1, <1>4
  <2> QED BY <1>1, <1>4, <2>1 DEF RequestsSound
<1>5. ASSUME NEW pc \in {"newFolder"}, NEW m \in 0..LastMessage, NEW type \in FolderTypes,
             NEW read \in BOOLEAN, Ask(h, pc, m, type, read)
      PROVE  request' \in [Handlers -> Requests] /\ RequestsSound'
  <2> DEFINE q == [pc |-> pc, message |-> m, type |-> type, read |-> read]
  <2>1. q \in Requests /\ q.pc = "newFolder"
    BY DEF Requests
  <2>2. request' = [request EXCEPT ![h] = q]
    BY <1>5 DEF Ask
  <2> HIDE DEF q
  <2> QED BY <1>4, <2>1, <2>2
<1>6. ASSUME NEW pc \in {"read", "search", "trash"}, NEW m \in Messages, NEW read \in BOOLEAN,
             pc = "read" => "read" \in Flags, Ask(h, pc, m, "FILED", read)
      PROVE  request' \in [Handlers -> Requests] /\ RequestsSound'
  <2> DEFINE q == [pc |-> pc, message |-> m, type |-> "FILED", read |-> read]
  <2>1. q \in Requests /\ q.pc = pc /\ q.message = m
    BY <1>3 DEF Requests
  <2>2. request' = [request EXCEPT ![h] = q]
    BY <1>6 DEF Ask
  <2> HIDE DEF q
  <2> QED BY <1>4, <1>6, <2>1, <2>2
<1>7. ASSUME Answer(h) PROVE request' \in [Handlers -> Requests] /\ RequestsSound'
  BY <1>2, <1>4, <1>7 DEF Answer
<1>8. ASSUME UNCHANGED request PROVE request' \in [Handlers -> Requests] /\ RequestsSound'
  BY <1>1, <1>8 DEF RequestsSound
<1> QED BY <1>5, <1>6, <1>7, <1>8

LEMMA TypeInit == Init => TypeInv
<1> SUFFICES ASSUME Init PROVE TypeInv
  OBVIOUS
<1>1. /\ NoJob \in Jobs /\ NoSync \in SoundSyncs /\ NoRequest \in Requests
      /\ NoFolders \in [FolderTypes -> Nat]
  BY Initials
<1>2. SoundSyncs \subseteq Syncs
  BY DEF SoundSyncs
<1>3. TypeOK
  BY <1>1, <1>2 DEF Init, TypeOK
<1>4. RequestsSound
  BY DEF Init, RequestsSound, NoRequest
<1>5. SyncsSound
  BY <1>1 DEF Init, SyncsSound
<1> QED BY <1>3, <1>4, <1>5 DEF TypeInv

LEMMA TypeStep == TypeInv /\ [Next]_vars => TypeInv'
<1> SUFFICES ASSUME TypeInv, [Next]_vars PROVE TypeInv'
  OBVIOUS
<1> USE DEF remoteVars, storeVars, queueVars, observers, counters
<1>1. /\ provider \in Providers /\ connected \in BOOLEAN
      /\ place \in [Messages -> Types \cup {"future", "gone"}]
      /\ seen \in [Messages -> SUBSET Flags]
      /\ folders \in [FolderTypes -> Nat]
      /\ rows \subseteq Rows
      /\ job \in [SyncJobs -> Jobs]
      /\ sync \in [SyncJobs -> SoundSyncs]
      /\ request \in [Handlers -> Requests] /\ RequestsSound
      /\ settled \subseteq Messages /\ contested \subseteq Messages
      /\ events \in Nat /\ failures \in Nat /\ crashes \in Nat
  BY DEF TypeInv, TypeOK, SyncsSound
<1>2. /\ NoJob \in Jobs /\ NoSync \in SoundSyncs /\ NoRequest \in Requests
      /\ NoFolders \in [FolderTypes -> Nat] /\ NoRequest.pc = "idle"
  BY Initials DEF NoRequest
\* It is enough that each variable has its type again.
<1>3. ASSUME provider' = provider, connected' \in BOOLEAN,
             place' \in [Messages -> Types \cup {"future", "gone"}],
             seen' \in [Messages -> SUBSET Flags], folders' \in [FolderTypes -> Nat],
             rows' \subseteq Rows, job' \in [SyncJobs -> Jobs],
             sync' \in [SyncJobs -> SoundSyncs],
             request' \in [Handlers -> Requests] /\ RequestsSound',
             settled' \subseteq Messages, contested' \subseteq Messages,
             events' \in Nat, failures' \in Nat, crashes' \in Nat
      PROVE  TypeInv'
  <2>1. sync' \in [SyncJobs -> Syncs]
    BY <1>3 DEF SoundSyncs
  <2> QED BY <1>1, <1>3, <2>1 DEF TypeInv, TypeOK, SyncsSound
<1>4. ASSUME NEW j \in SyncJobs,
             \/ Schedule(j) \/ Take(j) \/ TakeMissing(j) \/ Promote(j) \/ Stall(j)
             \/ FindFolder(j) \/ CreateFolder(j) \/ SkipFolder(j) \/ List(j)
             \/ NextFolder(j) \/ Finish(j) \/ AttemptFails(j)
      PROVE  TypeInv'
  <2>1. UNCHANGED request => request' \in [Handlers -> Requests] /\ RequestsSound'
    BY <1>1 DEF RequestsSound
  <2>2. failures' \in Nat \/ failures' = failures \/ ~Failure
    BY <1>1 DEF Failure
  <2>3. job[j] \in Jobs
    BY <1>1
  <2>4. CASE Schedule(j) \/ TakeMissing(j) \/ Promote(j) \/ Stall(j)
    <3>1. job' \in [SyncJobs -> Jobs]
      BY <1>1, <2>3, <2>4, JobSteps DEF Schedule, TakeMissing, Promote, Stall
    <3> QED BY <1>1, <1>3, <2>1, <2>4, <3>1 DEF Schedule, TakeMissing, Promote, Stall
  <2>5. CASE Take(j)
    <3>1. job' \in [SyncJobs -> Jobs]
      BY <1>1, <2>3, <2>5, JobSteps DEF Take
    <3> QED BY <1>1, <1>3, <2>1, <2>5, <3>1, SyncStepTypes DEF Take
  <2>6. CASE FindFolder(j) \/ SkipFolder(j) \/ List(j) \/ NextFolder(j)
    <3>1. sync' \in [SyncJobs -> SoundSyncs]
      BY <2>6, SyncStepTypes
    <3> QED BY <1>1, <1>3, <2>1, <2>2, <2>6, <3>1 DEF FindFolder, SkipFolder, List, NextFolder
  <2>7. CASE CreateFolder(j)
    BY <1>1, <1>3, <2>1, <2>7, SyncStepTypes DEF CreateFolder
  <2>8. CASE Finish(j) \/ AttemptFails(j)
    <3>1. job' \in [SyncJobs -> Jobs]
      BY <1>1, <2>3, <2>8, JobSteps DEF Finish, AttemptFails
    <3>2. sync' \in [SyncJobs -> SoundSyncs]
      BY <1>1, <1>2, <2>8, BecomeTypes DEF Finish, AttemptFails
    <3> QED BY <1>1, <1>3, <2>1, <2>2, <2>8, <3>1, <3>2 DEF Finish, AttemptFails
  <2> QED BY <1>4, <2>4, <2>5, <2>6, <2>7, <2>8
<1>5. ASSUME NEW j \in SyncJobs, NEW m \in Messages,
             Fetch(j, m) \/ Find(j, m) \/ Update(j, m) \/ Create(j, m) \/ SkipMessage(j, m)
      PROVE  TypeInv'
  <2>1. sync' \in [SyncJobs -> SoundSyncs]
    BY <1>5, MessageStepTypes
  <2>2. rows' \subseteq Rows
    BY <1>1, <1>5, MessageStepTypes DEF Fetch, Find, SkipMessage
  <2>3. contested' \subseteq Messages
    BY <1>1, <1>5 DEF Fetch, Find, Update, Create, SkipMessage
  <2>4. failures' \in Nat
    BY <1>1, <1>5 DEF Fetch, Find, Update, Create, SkipMessage, Failure
  <2>5. request' = request /\ request' \in [Handlers -> Requests] /\ RequestsSound'
    BY <1>1, <1>5 DEF RequestsSound, Fetch, Find, Update, Create, SkipMessage
  <2> QED BY <1>1, <1>3, <1>5, <2>1, <2>2, <2>3, <2>4, <2>5
          DEF Fetch, Find, Update, Create, SkipMessage
<1>6. ASSUME NEW m \in Messages, Arrive(m) \/ MoveRemotely(m) \/ FlagRemotely(m)
      PROVE  TypeInv'
  <2>1. place' \in [Messages -> Types \cup {"future", "gone"}]
    BY <1>1, <1>6 DEF Arrive, MoveRemotely, FlagRemotely
  <2>2. seen' \in [Messages -> SUBSET Flags]
    BY <1>1, <1>6 DEF Arrive, MoveRemotely, FlagRemotely
  <2>3. request' = request /\ request' \in [Handlers -> Requests] /\ RequestsSound'
    BY <1>1, <1>6 DEF RequestsSound, Arrive, MoveRemotely, FlagRemotely
  <2>4. events' \in Nat
    BY <1>1, <1>6 DEF Arrive, MoveRemotely, FlagRemotely, Event
  <2> QED BY <1>1, <1>3, <1>6, <2>1, <2>2, <2>3, <2>4 DEF Arrive, MoveRemotely, FlagRemotely
<1>7. ASSUME NEW h \in Handlers, NEW r \in rows,
             \/ \E on \in BOOLEAN : BeginMarkRead(h, r, on) \/ ToggleStar(h, r, on)
             \/ \E type \in FolderTypes : Refile(h, r, type)
             \/ BeginDelete(h, r)
      PROVE  TypeInv'
  <2>0. /\ r.message \in Messages /\ r.flags \subseteq Flags
        /\ \A flags \in SUBSET Flags : Replaced(r, [r EXCEPT !.flags = flags]) \subseteq Rows
        /\ \A folder \in FolderRows : Replaced(r, [r EXCEPT !.folder = folder]) \subseteq Rows
    BY <1>1, RowSteps
  <2>1. ASSUME NEW on \in BOOLEAN, BeginMarkRead(h, r, on) PROVE TypeInv'
    <3>1. rows' \subseteq Rows
      BY <2>0, <2>1 DEF BeginMarkRead, SetFlag
    <3> DEFINE pc == IF provider = "CUSTOM" THEN "search" ELSE "read"
    <3>2. Ask(h, pc, r.message, "FILED", on) /\ pc \in {"read", "search", "trash"} /\ "read" \in Flags
      BY <2>1 DEF BeginMarkRead
    <3> HIDE DEF pc
    <3>3. request' \in [Handlers -> Requests] /\ RequestsSound'
      BY <2>0, <3>2, RequestStepTypes
    <3> QED BY <1>1, <1>3, <2>1, <3>1, <3>3 DEF BeginMarkRead, Begin, Event
  <2>2. ASSUME NEW on \in BOOLEAN, ToggleStar(h, r, on) PROVE TypeInv'
    <3>1. rows' \subseteq Rows
      BY <2>0, <2>2 DEF ToggleStar, SetFlag
    <3>2. request' \in [Handlers -> Requests] /\ RequestsSound'
      BY <2>2, RequestStepTypes DEF ToggleStar
    <3> QED BY <1>1, <1>3, <2>2, <3>1, <3>2 DEF ToggleStar, Begin, Event
  <2>3. ASSUME NEW type \in FolderTypes, Refile(h, r, type) PROVE TypeInv'
    <3>1. \A n \in 1..folders[type] : <<type, n>> \in FolderRows
      BY <1>1 DEF FolderRows
    <3>2. rows' \subseteq Rows
      BY <1>1, <2>0, <2>3, <3>1 DEF Refile
    <3>3. request' \in [Handlers -> Requests] /\ RequestsSound'
      BY <2>3, RequestStepTypes DEF Refile
    <3> QED BY <1>1, <1>3, <2>3, <3>2, <3>3 DEF Refile, Begin, Event
  <2>4. CASE BeginDelete(h, r)
    <3>1. \A n \in 1..folders["TRASH"] : <<"TRASH", n>> \in FolderRows
      BY <1>1 DEF FolderRows, FolderTypes
    <3>2. rows' \subseteq Rows
      BY <1>1, <2>0, <2>4, <3>1 DEF BeginDelete
    <3>3. request' \in [Handlers -> Requests] /\ RequestsSound'
      BY <2>0, <2>4, RequestStepTypes DEF BeginDelete
    <3> QED BY <1>1, <1>3, <2>4, <3>2, <3>3 DEF BeginDelete, Begin, Event
  <2> QED BY <1>7, <2>1, <2>2, <2>3, <2>4
<1>8. ASSUME NEW h \in Handlers,
             \/ \E m \in 0..LastMessage, type \in FolderTypes : MissFolder(h, m, type)
             \/ MakeFolder(h) \/ MarkRemotely(h) \/ SearchRemotely(h) \/ TrashRemotely(h)
             \/ RemoteFails(h)
      PROVE  TypeInv'
  <2>0. request[h] \in Requests /\ request[h].type \in FolderTypes
    BY <1>1 DEF Requests
  <2>1. ASSUME NEW m \in 0..LastMessage, NEW type \in FolderTypes, MissFolder(h, m, type)
        PROVE  TypeInv'
    <3>1. request' \in [Handlers -> Requests] /\ RequestsSound'
      BY <2>1, RequestStepTypes DEF MissFolder
    <3> QED BY <1>1, <1>3, <2>1, <3>1 DEF MissFolder, Begin, Event
  <2>2. CASE MakeFolder(h)
    <3>1. folders' \in [FolderTypes -> Nat]
      BY <1>1, <2>0, <2>2 DEF MakeFolder
    <3>2. <<request[h].type, folders[request[h].type] + 1>> \in FolderRows
      BY <1>1, <2>0 DEF FolderRows
    <3>3. rows' \subseteq Rows
      <4> DEFINE new == <<request[h].type, folders[request[h].type] + 1>>
      <4>1. \/ \E r \in rows : rows' = Replaced(r, [r EXCEPT !.folder = new])
            \/ rows' = rows
        BY <2>2 DEF MakeFolder, RowsOf
      <4>2. new \in FolderRows
        BY <3>2
      <4>3. rows \subseteq Rows
        BY <1>1
      <4> HIDE DEF new
      <4>4. ASSUME NEW r \in rows PROVE Replaced(r, [r EXCEPT !.folder = new]) \subseteq Rows
        BY <4>2, <4>3, RowSteps
      <4>5. CASE \E r \in rows : rows' = Replaced(r, [r EXCEPT !.folder = new])
        <5>1. PICK r \in rows : rows' = Replaced(r, [r EXCEPT !.folder = new])
          BY <4>5
        <5> QED BY <4>4, <5>1
      <4>6. CASE rows' = rows
        BY <4>3, <4>6
      <4> QED BY <4>1, <4>5, <4>6
    <3>4. request' \in [Handlers -> Requests] /\ RequestsSound'
      BY <2>2, RequestStepTypes DEF MakeFolder
    <3> QED BY <1>1, <1>3, <2>2, <3>1, <3>3, <3>4 DEF MakeFolder
  <2>3. CASE MarkRemotely(h)
    <3>1. request[h].message \in Messages /\ "read" \in Flags
      BY <1>1, <2>3 DEF MarkRemotely, RequestsSound
    <3>2. seen' \in [Messages -> SUBSET Flags]
      BY <1>1, <2>3, <3>1 DEF MarkRemotely, SetFlag
    <3>3. request' \in [Handlers -> Requests] /\ RequestsSound'
      BY <2>3, RequestStepTypes DEF MarkRemotely
    <3> QED BY <1>1, <1>3, <2>3, <3>2, <3>3 DEF MarkRemotely
  <2>4. CASE SearchRemotely(h)
    <3>1. CASE Answer(h)
      BY <1>1, <1>3, <2>4, <3>1, RequestStepTypes DEF SearchRemotely
    <3>2. CASE request' = [request EXCEPT ![h].pc = "relock"]
      <4>1. request[h].message \in Messages
        BY <1>1, <2>4 DEF SearchRemotely, RequestsSound
      <4>2. /\ request' \in [Handlers -> Requests]
            /\ request'[h].pc = "relock" /\ request'[h].message = request[h].message
            /\ \A g \in Handlers \ {h} : request'[g] = request[g]
        BY <1>1, <2>0, <3>2 DEF Requests
      <4>3. RequestsSound'
        BY <1>1, <4>1, <4>2 DEF RequestsSound
      <4> QED BY <1>1, <1>3, <2>4, <4>2, <4>3 DEF SearchRemotely
    <3> QED BY <2>4, <3>1, <3>2 DEF SearchRemotely
  <2>5. CASE TrashRemotely(h)
    <3>1. request[h].message \in Messages
      BY <1>1, <2>5 DEF TrashRemotely, RequestsSound
    <3>2. place' \in [Messages -> Types \cup {"future", "gone"}]
      BY <1>1, <2>5, <3>1 DEF TrashRemotely
    <3>3. settled' \subseteq Messages
      BY <1>1, <2>5, <3>1 DEF TrashRemotely
    <3>4. request' \in [Handlers -> Requests] /\ RequestsSound'
      BY <2>5, RequestStepTypes DEF TrashRemotely
    <3> QED BY <1>1, <1>3, <2>5, <3>2, <3>3, <3>4 DEF TrashRemotely
  <2>6. CASE RemoteFails(h)
    <3>1. request' \in [Handlers -> Requests] /\ RequestsSound'
      BY <2>6, RequestStepTypes DEF RemoteFails
    <3> QED BY <1>1, <1>3, <2>6, <3>1 DEF RemoteFails, Failure
  <2> QED BY <1>8, <2>1, <2>2, <2>3, <2>4, <2>5, <2>6
<1>9. CASE RemoveMailbox
  <2>1. request' = request /\ request' \in [Handlers -> Requests] /\ RequestsSound'
    BY <1>1, <1>9 DEF RemoveMailbox, RequestsSound
  <2>2. rows' \subseteq Rows /\ folders' \in [FolderTypes -> Nat] /\ connected' \in BOOLEAN
    BY <1>2, <1>9 DEF RemoveMailbox
  <2>3. events' \in Nat
    BY <1>1, <1>9 DEF RemoveMailbox, Event
  <2> QED BY <1>1, <1>3, <1>9, <2>1, <2>2, <2>3 DEF RemoveMailbox
<1>10. CASE Crash
  <2>1. request' \in [Handlers -> Requests] /\ RequestsSound'
    BY <1>2, <1>10 DEF Crash, RequestsSound
  <2> QED BY <1>1, <1>2, <1>3, <1>10, <2>1 DEF Crash
<1>11. CASE UNCHANGED vars
  <2>1. request' = request /\ request' \in [Handlers -> Requests] /\ RequestsSound'
    BY <1>1, <1>11 DEF vars, RequestsSound
  <2> QED BY <1>1, <1>3, <1>11, <2>1 DEF vars
<1>12. CASE Next
  BY <1>12, <1>4, <1>5, <1>6, <1>7, <1>8, <1>9, <1>10, NextCases
<1> QED BY <1>11, <1>12

\* Every variable keeps its type, whatever the number of messages, jobs, requests,
\* failures and crashes.
THEOREM SyncTypes == Spec => []TypeOK
<1>1. TypeInv => TypeOK
  BY DEF TypeInv
<1> QED BY <1>1, TypeInit, TypeStep, PTL DEF Spec

-----------------------------------------------------------------------------
(* One row per message, and deleted messages.                              *)

\* Unless it is contested, at most one sync is about to create a row of a message,
\* and only while there is none.
CreationsInv ==
    \A m \in Messages \ contested :
        /\ \A r, s \in RowsOf(m) : r = s
        /\ \A i, j \in SyncJobs :
              sync[i].stage[m] = "create" /\ sync[j].stage[m] = "create" => i = j
        /\ \A j \in SyncJobs : sync[j].stage[m] = "create" => ~Stored(m)

\* What is settled has left the provider for good, and no sync holds it.
DeletionsInv ==
    provider # "CUSTOM" =>
        \A m \in settled : /\ place[m] = "gone" /\ ~Stored(m)
                           /\ \A j \in SyncJobs : ~Holds(j, m)

RowsInv == CreationsInv /\ DeletionsInv

\* What most steps leave to these invariants: no row of a message that had none, no
\* sync that is newly about to create one, nothing listed that is gone.
RowsKept ==
    \/ rows' \subseteq rows
    \/ \E r \in rows, s \in Rows : s.message = r.message /\ rows' = Replaced(r, s)
StagesKept ==
    \A j \in SyncJobs, m \in Messages :
        /\ sync'[j].stage[m] = "create" => sync[j].stage[m] = "create"
        /\ sync'[j].stage[m] # "none" => sync[j].stage[m] # "none" \/ place[m] \in Types
GoneKept == provider' = provider /\ \A m \in Messages : place[m] = "gone" => place'[m] = "gone"
Quiet == RowsKept /\ StagesKept /\ GoneKept /\ UNCHANGED observers

LEMMA GoneIsNoFolder == "gone" \notin Types /\ "future" \notin Types
BY SyncAssumption DEF Types

\* Rows keep their number and their message.
LEMMA RowsKeptUnique ==
    ASSUME RowsKept, rows \subseteq Rows, NEW m \in Messages
    PROVE  /\ ~Stored(m) => ~Stored(m)'
           /\ (\A r, s \in RowsOf(m) : r = s) => (\A r, s \in RowsOf(m)' : r = s)
<1>1. CASE rows' \subseteq rows
  BY <1>1 DEF RowsOf, Stored
<1>2. ASSUME NEW r \in rows, NEW s \in Rows, s.message = r.message, rows' = Replaced(r, s)
      PROVE  /\ ~Stored(m) => ~Stored(m)'
             /\ (\A p, q \in RowsOf(m) : p = q) => (\A p, q \in RowsOf(m)' : p = q)
  BY <1>2 DEF RowsOf, Stored, Replaced
<1> QED BY <1>1, <1>2 DEF RowsKept

LEMMA QuietRows == TypeInv /\ RowsInv /\ Quiet => RowsInv'
<1> SUFFICES ASSUME TypeInv, RowsInv, Quiet PROVE RowsInv'
  OBVIOUS
<1>1. rows \subseteq Rows /\ settled \subseteq Messages /\ settled' = settled /\ contested' = contested
  BY DEF TypeInv, TypeOK, Quiet, observers
<1>2. CreationsInv'
  BY <1>1, RowsKeptUnique DEF RowsInv, CreationsInv, Quiet, StagesKept
<1>3. DeletionsInv'
  <2> SUFFICES ASSUME provider' # "CUSTOM", NEW m \in settled'
               PROVE  (place[m] = "gone" /\ ~Stored(m) /\ \A j \in SyncJobs : ~Holds(j, m))'
    BY DEF DeletionsInv
  <2>1. m \in Messages /\ place[m] = "gone" /\ ~Stored(m) /\ \A j \in SyncJobs : ~Holds(j, m)
    BY <1>1 DEF RowsInv, DeletionsInv, Quiet, GoneKept
  <2>2. ~Stored(m)'
    BY <1>1, <2>1, RowsKeptUnique DEF Quiet
  <2>3. place'[m] = "gone"
    BY <2>1 DEF Quiet, GoneKept
  <2>4. \A j \in SyncJobs : sync'[j].stage[m] = "none"
    BY <2>1, GoneIsNoFolder DEF Quiet, StagesKept, Holds
  <2> QED BY <2>2, <2>3, <2>4 DEF Holds
<1> QED BY <1>2, <1>3 DEF RowsInv

LEMMA SyncStepsQuiet ==
    ASSUME TypeInv, NEW j \in SyncJobs,
           \/ Schedule(j) \/ Take(j) \/ TakeMissing(j) \/ Promote(j) \/ Stall(j)
           \/ FindFolder(j) \/ CreateFolder(j) \/ SkipFolder(j) \/ List(j)
           \/ NextFolder(j) \/ Finish(j) \/ AttemptFails(j)
    PROVE  Quiet
<1> USE DEF remoteVars, storeVars, queueVars, observers, counters
<1>1. /\ sync \in [SyncJobs -> SoundSyncs] /\ sync[j] \in SoundSyncs /\ sync[j] \in Syncs
      /\ place \in [Messages -> Types \cup {"future", "gone"}]
  BY DEF TypeInv, TypeOK, SyncsSound
<1>2. RowsKept /\ GoneKept /\ UNCHANGED observers
  BY DEF Schedule, Take, TakeMissing, Promote, Stall, FindFolder, CreateFolder,
         SkipFolder, List, NextFolder, Finish, AttemptFails, RowsKept, GoneKept
\* A sync that holds nothing after the step.
<1>3. ASSUME NEW s \in SoundSyncs, Become(j, s),
             (\A m \in Messages : s.stage[m] = "none") \/ s.stage = sync[j].stage
      PROVE  StagesKept
  BY <1>1, <1>3, BecomeTypes DEF StagesKept
<1>4. ASSUME NEW folder \in FolderRows, Listing(j, folder) PROVE StagesKept
  <2>1. \A m \in Messages : m \in Listed(Type(j)) => place[m] \in Types
    BY <1>1, Constants DEF Listed, Newest, Within, Type, Syncs
  <2> QED BY <1>4, <2>1, ListingTypes DEF StagesKept
<1>5. \A m \in Messages : NoSync.stage[m] = "none"
  BY DEF NoSync
<1>6. CASE Schedule(j) \/ TakeMissing(j) \/ Promote(j) \/ Stall(j)
  BY <1>2, <1>6 DEF Schedule, TakeMissing, Promote, Stall, Quiet, StagesKept
<1>7. CASE Take(j)
  <2> DEFINE s == [NoSync EXCEPT !.pc = "folder",
                                 !.known = IF provider = "GMAIL" THEN NoFolders ELSE folders]
  <2>1. Become(j, s) /\ \A m \in Messages : s.stage[m] = "none"
    BY <1>5, <1>7 DEF Take, NoSync
  <2>2. sync' \in [SyncJobs -> SoundSyncs]
    BY <1>7, SyncStepTypes
  <2>3. sync'[j] = s
    BY <1>1, <2>1 DEF Become
  <2> HIDE DEF s
  <2>4. s \in SoundSyncs
    BY <2>2, <2>3
  <2> QED BY <1>2, <1>3, <2>1, <2>4 DEF Quiet
<1>8. CASE FindFolder(j)
  <2>1. CASE Goto(j, "newFolder")
    <3> DEFINE s == [sync[j] EXCEPT !.pc = "newFolder"]
    <3>1. Become(j, s) /\ s.stage = sync[j].stage
      BY <1>1, <2>1 DEF Goto, Syncs
    <3>2. sync'[j] = s /\ sync' \in [SyncJobs -> SoundSyncs]
      BY <1>1, <1>8, <3>1, SyncStepTypes DEF Become
    <3> HIDE DEF s
    <3> QED BY <1>2, <1>3, <3>1, <3>2 DEF Quiet
  <2>2. ASSUME NEW n \in 1..FoldersFound(j), Listing(j, <<Type(j), n>>) PROVE Quiet
    <3>1. Type(j) \in FolderTypes /\ FoldersFound(j) \in Nat
      BY <1>1, Constants DEF Type, FolderTypes, FoldersFound, Syncs, TypeInv, TypeOK
    <3>2. <<Type(j), n>> \in FolderRows
      BY <3>1 DEF FolderRows
    <3> QED BY <1>2, <1>4, <2>2, <3>2 DEF Quiet
  <2> QED BY <1>8, <2>1, <2>2 DEF FindFolder
<1>9. CASE CreateFolder(j)
  <2> DEFINE s == [sync[j] EXCEPT !.pc = "list", !.folder = <<Type(j), folders[Type(j)] + 1>>]
  <2>1. Become(j, s) /\ s.stage = sync[j].stage
    BY <1>1, <1>9 DEF CreateFolder, Syncs
  <2>2. sync'[j] = s /\ sync' \in [SyncJobs -> SoundSyncs]
    BY <1>1, <1>9, <2>1, SyncStepTypes DEF Become
  <2> HIDE DEF s
  <2> QED BY <1>2, <1>3, <2>1, <2>2 DEF Quiet
<1>10. CASE SkipFolder(j)
  <2> DEFINE s == [sync[j] EXCEPT !.pc = "items"]
  <2>1. Become(j, s) /\ s.stage = sync[j].stage
    BY <1>1, <1>10 DEF SkipFolder, Goto, Syncs
  <2>2. sync'[j] = s /\ sync' \in [SyncJobs -> SoundSyncs]
    BY <1>1, <1>10, <2>1, SyncStepTypes DEF Become
  <2> HIDE DEF s
  <2> QED BY <1>2, <1>3, <2>1, <2>2 DEF Quiet
<1>11. CASE List(j)
  <2>1. sync[j].folder \in FolderRows
    BY <1>1, <1>11 DEF List, SoundSyncs
  <2> QED BY <1>2, <1>4, <1>11, <2>1 DEF Quiet, List
<1>12. CASE NextFolder(j)
  <2> DEFINE s == [NoSync EXCEPT !.pc = "folder", !.known = sync[j].known, !.at = sync[j].at + 1]
  <2>1. Become(j, s) /\ \A m \in Messages : s.stage[m] = "none"
    BY <1>5, <1>12 DEF NextFolder, NoSync
  <2>2. sync'[j] = s /\ sync' \in [SyncJobs -> SoundSyncs]
    BY <1>1, <1>12, <2>1, SyncStepTypes DEF Become
  <2> HIDE DEF s
  <2> QED BY <1>2, <1>3, <2>1, <2>2 DEF Quiet
<1>13. CASE Finish(j) \/ AttemptFails(j)
  BY <1>2, <1>3, <1>5, <1>13, Initials DEF Finish, AttemptFails, Quiet
<1> QED BY <1>6, <1>7, <1>8, <1>9, <1>10, <1>11, <1>12, <1>13

LEMMA MessageStepsQuiet ==
    ASSUME TypeInv, NEW j \in SyncJobs, NEW m \in Messages,
           Fetch(j, m) \/ Update(j, m) \/ SkipMessage(j, m)
    PROVE  Quiet
<1> USE DEF remoteVars, storeVars, queueVars, observers, counters
<1>1. /\ sync \in [SyncJobs -> SoundSyncs] /\ sync[j] \in Syncs /\ rows \subseteq Rows
      /\ sync[j].copy[m] \in SUBSET Flags
  BY DEF TypeInv, TypeOK, SyncsSound, Syncs
<1>2. GoneKept /\ UNCHANGED observers
  BY DEF Fetch, Update, SkipMessage, GoneKept
<1>3. RowsKept
  <2>1. CASE Update(j, m)
    <3>1. CASE UNCHANGED rows
      BY <3>1 DEF RowsKept
    <3>2. ASSUME NEW r \in RowsOf(m), rows' = Replaced(r, [r EXCEPT !.flags = sync[j].copy[m]])
          PROVE  RowsKept
      <4> DEFINE s == [r EXCEPT !.flags = sync[j].copy[m]]
      <4>1. r \in rows /\ s \in Rows /\ s.message = r.message
        BY <1>1 DEF RowsOf, Rows
      <4> HIDE DEF s
      <4>2. rows' = Replaced(r, s)
        BY <3>2 DEF s
      <4> QED BY <4>1, <4>2 DEF RowsKept
    <3> QED BY <2>1, <3>1, <3>2 DEF Update
  <2>2. CASE Fetch(j, m) \/ SkipMessage(j, m)
    BY <2>2 DEF Fetch, SkipMessage, RowsKept
  <2> QED BY <2>1, <2>2
<1>4. StagesKept
  <2>1. CASE Update(j, m) \/ SkipMessage(j, m)
    <3>1. Drop(j, m)
      BY <2>1 DEF Update, SkipMessage
    <3>2. /\ sync'[j].stage = [sync[j].stage EXCEPT ![m] = "none"]
          /\ \A i \in SyncJobs \ {j} : sync'[i] = sync[i]
      BY <1>1, <3>1, DropTypes
    <3>3. sync[j].stage \in [Messages -> Stages]
      BY <1>1 DEF Syncs
    <3> QED BY <3>2, <3>3 DEF StagesKept
  <2>2. CASE Fetch(j, m)
    <3>1. sync[j].stage[m] = "fetch" /\ sync[j].stage \in [Messages -> Stages]
      BY <1>1, <2>2 DEF Fetch, Syncs
    <3>2. /\ sync'[j].stage = [sync[j].stage EXCEPT ![m] = "find"]
          /\ \A i \in SyncJobs \ {j} : sync'[i] = sync[i]
      BY <1>1, <2>2 DEF Fetch, Become, Syncs
    <3> QED BY <3>1, <3>2 DEF StagesKept
  <2> QED BY <2>1, <2>2
<1> QED BY <1>2, <1>3, <1>4 DEF Quiet

\* Another sync that looked for the message before it was stored contests it.
LEMMA FindKeepsRows ==
    ASSUME TypeInv, RowsInv, NEW j \in SyncJobs, NEW m \in Messages, Find(j, m)
    PROVE  RowsInv'
<1> USE DEF remoteVars, storeVars, queueVars, observers, counters
<1>1. /\ sync \in [SyncJobs -> SoundSyncs] /\ sync[j] \in Syncs
      /\ settled \subseteq Messages /\ contested \subseteq Messages
  BY DEF TypeInv, TypeOK, SyncsSound
<1>2. /\ rows' = rows /\ place' = place /\ provider' = provider /\ settled' = settled
      /\ contested' = IF Contest(j, m) THEN contested \cup {m} ELSE contested
      /\ sync[j].stage[m] = "find"
  BY DEF Find
<1>3. /\ sync'[j].stage = [sync[j].stage EXCEPT ![m] = IF Stored(m) THEN "update" ELSE "create"]
      /\ \A i \in SyncJobs \ {j} : sync'[i] = sync[i]
      /\ sync[j].stage \in [Messages -> Stages]
  BY <1>1 DEF Find, Advance, Become, Syncs
<1>4. \A n \in Messages : RowsOf(n)' = RowsOf(n) /\ (Stored(n)' <=> Stored(n))
  BY <1>2 DEF RowsOf, Stored
<1>5. CreationsInv'
  <2> SUFFICES ASSUME NEW n \in Messages \ contested'
               PROVE  /\ \A r, s \in RowsOf(n)' : r = s
                      /\ \A i, k \in SyncJobs : sync'[i].stage[n] = "create" /\ sync'[k].stage[n] = "create"
                                                => i = k
                      /\ \A i \in SyncJobs : sync'[i].stage[n] = "create" => ~Stored(n)'
    BY DEF CreationsInv
  <2>1. /\ n \in Messages \ contested
        /\ \A r, s \in RowsOf(n) : r = s
        /\ \A i, k \in SyncJobs : sync[i].stage[n] = "create" /\ sync[k].stage[n] = "create" => i = k
        /\ \A i \in SyncJobs : sync[i].stage[n] = "create" => ~Stored(n)
    BY <1>1, <1>2 DEF RowsInv, CreationsInv
  <2>2. CASE n # m
    BY <1>3, <1>4, <2>1, <2>2
  <2>3. CASE n = m /\ Stored(m)
    BY <1>3, <1>4, <2>1, <2>3
  <2>4. CASE n = m /\ ~Stored(m)
    <3>1. \A i \in SyncJobs \ {j} : sync[i].stage[m] # "create"
      BY <1>2, <2>4 DEF Contest
    <3> QED BY <1>3, <1>4, <2>1, <2>4, <3>1
  <2> QED BY <2>2, <2>3, <2>4
<1>6. DeletionsInv'
  BY <1>1, <1>2, <1>3, <1>4 DEF RowsInv, DeletionsInv, Holds
<1> QED BY <1>5, <1>6 DEF RowsInv

\* The only sync about to create a row stores the first one.
LEMMA CreateKeepsRows ==
    ASSUME TypeInv, RowsInv, NEW j \in SyncJobs, NEW m \in Messages, Create(j, m)
    PROVE  RowsInv'
<1> USE DEF remoteVars, storeVars, queueVars, observers, counters
<1>1. /\ sync \in [SyncJobs -> SoundSyncs] /\ sync[j] \in Syncs
      /\ settled \subseteq Messages /\ contested \subseteq Messages
  BY DEF TypeInv, TypeOK, SyncsSound
<1> DEFINE new == [message |-> m, folder |-> sync[j].folder, flags |-> sync[j].copy[m]]
<1>2. /\ rows' = rows \cup {new} \/ rows' = rows
      /\ place' = place /\ provider' = provider /\ settled' = settled /\ contested' = contested
      /\ sync[j].stage[m] = "create" /\ Drop(j, m)
  BY DEF Create
<1>3. /\ sync'[j].stage = [sync[j].stage EXCEPT ![m] = "none"]
      /\ \A i \in SyncJobs \ {j} : sync'[i] = sync[i]
      /\ sync[j].stage \in [Messages -> Stages]
  BY <1>1, <1>2, DropTypes DEF Syncs
<1>4. new.message = m
  OBVIOUS
<1> HIDE DEF new
<1>5. \A n \in Messages \ {m} : RowsOf(n)' = RowsOf(n) /\ (Stored(n)' <=> Stored(n))
  BY <1>2, <1>4 DEF RowsOf, Stored
<1>6. ~Stored(m) => \A r, s \in RowsOf(m)' : r = s
  BY <1>2, <1>4 DEF RowsOf, Stored
<1>7. CreationsInv'
  <2> SUFFICES ASSUME NEW n \in Messages \ contested'
               PROVE  /\ \A r, s \in RowsOf(n)' : r = s
                      /\ \A i, k \in SyncJobs : sync'[i].stage[n] = "create" /\ sync'[k].stage[n] = "create"
                                                => i = k
                      /\ \A i \in SyncJobs : sync'[i].stage[n] = "create" => ~Stored(n)'
    BY DEF CreationsInv
  <2>1. /\ n \in Messages \ contested
        /\ \A r, s \in RowsOf(n) : r = s
        /\ \A i, k \in SyncJobs : sync[i].stage[n] = "create" /\ sync[k].stage[n] = "create" => i = k
        /\ \A i \in SyncJobs : sync[i].stage[n] = "create" => ~Stored(n)
    BY <1>1, <1>2 DEF RowsInv, CreationsInv
  <2>2. CASE n # m
    BY <1>3, <1>5, <2>1, <2>2
  <2>3. CASE n = m
    <3>1. \A i \in SyncJobs : sync'[i].stage[m] # "create"
      BY <1>2, <1>3, <2>1, <2>3
    <3> QED BY <1>2, <1>6, <2>1, <2>3, <3>1
  <2> QED BY <2>2, <2>3
<1>8. DeletionsInv'
  <2> SUFFICES ASSUME provider' # "CUSTOM", NEW n \in settled'
               PROVE  (place[n] = "gone" /\ ~Stored(n) /\ \A i \in SyncJobs : ~Holds(i, n))'
    BY DEF DeletionsInv
  <2>1. n \in Messages /\ place[n] = "gone" /\ ~Stored(n) /\ \A i \in SyncJobs : sync[i].stage[n] = "none"
    BY <1>1, <1>2 DEF RowsInv, DeletionsInv, Holds
  <2>2. n # m
    BY <1>2, <2>1
  <2> QED BY <1>2, <1>3, <1>5, <2>1, <2>2 DEF Holds
<1> QED BY <1>7, <1>8 DEF RowsInv

LEMMA ProviderStepsQuiet ==
    ASSUME TypeInv, NEW m \in Messages, Arrive(m) \/ MoveRemotely(m) \/ FlagRemotely(m)
    PROVE  Quiet
<1> USE DEF remoteVars, storeVars, queueVars, observers, counters
<1>1. place \in [Messages -> Types \cup {"future", "gone"}]
  BY DEF TypeInv, TypeOK
<1>2. RowsKept /\ StagesKept /\ UNCHANGED observers /\ provider' = provider
  BY DEF Arrive, MoveRemotely, FlagRemotely, RowsKept, StagesKept
<1>3. \A n \in Messages : place[n] = "gone" => place'[n] = "gone"
  BY <1>1, GoneIsNoFolder DEF Arrive, MoveRemotely, FlagRemotely
<1> QED BY <1>2, <1>3 DEF Quiet, GoneKept

LEMMA OwnerStepsQuiet ==
    ASSUME TypeInv, NEW h \in Handlers, NEW r \in rows,
           \/ \E on \in BOOLEAN : BeginMarkRead(h, r, on) \/ ToggleStar(h, r, on)
           \/ \E type \in FolderTypes : Refile(h, r, type)
           \/ BeginDelete(h, r)
    PROVE  Quiet
<1> USE DEF remoteVars, storeVars, queueVars, observers, counters
<1>1. rows \subseteq Rows /\ r \in Rows /\ r.flags \subseteq Flags /\ folders \in [FolderTypes -> Nat]
  BY DEF TypeInv, TypeOK, Rows
<1>2. StagesKept /\ GoneKept /\ UNCHANGED observers
  BY DEF BeginMarkRead, ToggleStar, Refile, BeginDelete, StagesKept, GoneKept
\* A row with other flags or another folder is a row of its message.
<1>3. ASSUME NEW flags \in SUBSET Flags, rows' = Replaced(r, [r EXCEPT !.flags = flags])
      PROVE  RowsKept
  <2> DEFINE s == [r EXCEPT !.flags = flags]
  <2>1. s \in Rows /\ s.message = r.message
    BY <1>1 DEF Rows
  <2> HIDE DEF s
  <2>2. rows' = Replaced(r, s)
    BY <1>3 DEF s
  <2> QED BY <2>1, <2>2 DEF RowsKept
<1>4. ASSUME NEW folder \in FolderRows, rows' = Replaced(r, [r EXCEPT !.folder = folder])
      PROVE  RowsKept
  <2> DEFINE s == [r EXCEPT !.folder = folder]
  <2>1. s \in Rows /\ s.message = r.message
    BY <1>1 DEF Rows
  <2> HIDE DEF s
  <2>2. rows' = Replaced(r, s)
    BY <1>4 DEF s
  <2> QED BY <2>1, <2>2 DEF RowsKept
<1>5. \A type \in FolderTypes : \A n \in 1..folders[type] : <<type, n>> \in FolderRows
  BY <1>1 DEF FolderRows
<1>6. ASSUME NEW on \in BOOLEAN, BeginMarkRead(h, r, on) \/ ToggleStar(h, r, on)
      PROVE  RowsKept
  BY <1>1, <1>3, <1>6 DEF BeginMarkRead, ToggleStar, SetFlag
<1>7. ASSUME NEW type \in FolderTypes, Refile(h, r, type) PROVE RowsKept
  <2>1. CASE rows' = rows \ {r}
    BY <2>1 DEF RowsKept
  <2>2. ASSUME NEW n \in 1..folders[type], rows' = Replaced(r, [r EXCEPT !.folder = <<type, n>>])
        PROVE  RowsKept
    BY <1>4, <1>5, <2>2
  <2> QED BY <1>7, <2>1, <2>2 DEF Refile
<1>8. ASSUME BeginDelete(h, r) PROVE RowsKept
  <2>1. CASE rows' = rows \ {r}
    BY <2>1 DEF RowsKept
  <2>2. ASSUME NEW n \in 1..folders["TRASH"],
               rows' = Replaced(r, [r EXCEPT !.folder = <<"TRASH", n>>])
        PROVE  RowsKept
    BY <1>4, <1>5, <2>2 DEF FolderTypes
  <2> QED BY <1>8, <2>1, <2>2 DEF BeginDelete
<1> QED BY <1>2, <1>6, <1>7, <1>8 DEF Quiet

LEMMA RequestStepsQuiet ==
    ASSUME TypeInv, NEW h \in Handlers,
           \/ \E m \in 0..LastMessage, type \in FolderTypes : MissFolder(h, m, type)
           \/ MakeFolder(h) \/ MarkRemotely(h) \/ SearchRemotely(h) \/ RemoteFails(h)
    PROVE  Quiet
<1> USE DEF remoteVars, storeVars, queueVars, observers, counters
<1>1. StagesKept /\ GoneKept /\ UNCHANGED observers
  BY DEF MissFolder, MakeFolder, MarkRemotely, SearchRemotely, RemoteFails, StagesKept, GoneKept
<1>2. CASE MakeFolder(h)
  <2> DEFINE new == <<request[h].type, folders[request[h].type] + 1>>
  <2>1. \/ \E r \in rows : rows' = Replaced(r, [r EXCEPT !.folder = new])
        \/ rows' = rows
    BY <1>2 DEF MakeFolder, RowsOf
  <2>2. new \in FolderRows /\ rows \subseteq Rows
    BY DEF TypeInv, TypeOK, Requests, FolderRows
  <2> HIDE DEF new
  <2>3. ASSUME NEW r \in rows, rows' = Replaced(r, [r EXCEPT !.folder = new]) PROVE RowsKept
    <3> DEFINE s == [r EXCEPT !.folder = new]
    <3>1. s \in Rows /\ s.message = r.message
      BY <2>2 DEF Rows
    <3> HIDE DEF s
    <3>2. rows' = Replaced(r, s)
      BY <2>3 DEF s
    <3> QED BY <3>1, <3>2 DEF RowsKept
  <2>4. ASSUME rows' = rows PROVE RowsKept
    BY <2>4 DEF RowsKept
  <2> QED BY <1>1, <2>1, <2>3, <2>4 DEF Quiet
<1>3. CASE ~MakeFolder(h)
  BY <1>1, <1>3 DEF MissFolder, MarkRemotely, SearchRemotely, RemoteFails, RowsKept, Quiet
<1> QED BY <1>2, <1>3

\* The message that is settled now is gone, stored nowhere and held by nobody.
LEMMA TrashKeepsRows ==
    ASSUME TypeInv, RowsInv, NEW h \in Handlers, TrashRemotely(h)
    PROVE  RowsInv'
<1> USE DEF remoteVars, storeVars, queueVars, observers, counters
<1>1. /\ place \in [Messages -> Types \cup {"future", "gone"}]
      /\ settled \subseteq Messages /\ request[h].message \in Messages
  BY DEF TypeInv, TypeOK, RequestsSound, TrashRemotely
<1>2. rows' = rows /\ sync' = sync /\ contested' = contested /\ provider' = provider
  BY DEF TrashRemotely
<1>3. \A n \in Messages : RowsOf(n)' = RowsOf(n) /\ (Stored(n)' <=> Stored(n))
  BY <1>2 DEF RowsOf, Stored
<1>4. CreationsInv'
  BY <1>2, <1>3 DEF RowsInv, CreationsInv
<1>5. DeletionsInv'
  <2> SUFFICES ASSUME provider' # "CUSTOM", NEW n \in settled'
               PROVE  place'[n] = "gone" /\ ~Stored(n)' /\ \A j \in SyncJobs : sync'[j].stage[n] = "none"
    BY DEF DeletionsInv, Holds
  <2>1. CASE n \in settled
    BY <1>1, <1>2, <1>3, <2>1 DEF RowsInv, DeletionsInv, Holds, TrashRemotely
  <2>2. CASE n \notin settled
    <3>1. n = request[h].message /\ ~Stored(n) /\ \A j \in SyncJobs : ~Holds(j, n)
      BY <2>2 DEF TrashRemotely
    <3>2. place'[n] = "gone"
      BY <1>1, <1>2, <2>2, <3>1 DEF TrashRemotely
    <3> QED BY <1>1, <1>2, <1>3, <3>1, <3>2 DEF Holds
  <2> QED BY <2>1, <2>2
<1> QED BY <1>4, <1>5 DEF RowsInv

LEMMA RowsInit == Init => RowsInv
BY DEF Init, RowsInv, CreationsInv, DeletionsInv, RowsOf, Stored, NoSync

LEMMA RowsStep == TypeInv /\ RowsInv /\ [Next]_vars => RowsInv'
<1> SUFFICES ASSUME TypeInv, RowsInv, [Next]_vars PROVE RowsInv'
  OBVIOUS
<1> USE DEF remoteVars, storeVars, queueVars, observers, counters
<1>1. CASE RemoveMailbox
  BY <1>1, QuietRows DEF RemoveMailbox, Quiet, RowsKept, StagesKept, GoneKept
<1>2. CASE Crash
  BY <1>2, QuietRows DEF Crash, Quiet, RowsKept, StagesKept, GoneKept, NoSync
<1>3. CASE UNCHANGED vars
  BY <1>3, QuietRows DEF vars, Quiet, RowsKept, StagesKept, GoneKept
<1>4. CASE Next
  BY <1>1, <1>2, <1>4, NextCases, QuietRows, SyncStepsQuiet, MessageStepsQuiet, FindKeepsRows,
     CreateKeepsRows, ProviderStepsQuiet, OwnerStepsQuiet, RequestStepsQuiet, TrashKeepsRows
<1> QED BY <1>3, <1>4

\* A message has one row, however often it is listed, moved, filed and failed, unless
\* two syncs looked for it before either had stored it.
THEOREM MessagesHaveOneRow == Spec => []OneRowPerMessage
<1>1. RowsInv => OneRowPerMessage
  BY DEF RowsInv, CreationsInv, OneRowPerMessage
<1> QED BY <1>1, TypeInit, TypeStep, RowsInit, RowsStep, PTL DEF Spec

\* A message that its owner deleted, and that no sync held by then, does not come
\* back from Gmail or Outlook.
THEOREM DeletedMessagesStayDeleted == Spec => []DeletedStaysDeleted
<1>1. RowsInv => DeletedStaysDeleted
  BY DEF RowsInv, DeletionsInv, DeletedStaysDeleted
<1> QED BY <1>1, TypeInit, TypeStep, RowsInit, RowsStep, PTL DEF Spec

-----------------------------------------------------------------------------
(* Folders.                                                                *)

\* A sync that will create a folder of the type, as far as it knows.
Lacks(s, type) ==
    \/ s.pc = "newFolder" /\ FolderOrder[s.at] = type
    \/ /\ provider # "GMAIL" /\ s.pc # "idle" /\ s.known[type] = 0
       /\ \E k \in DOMAIN FolderOrder :
             FolderOrder[k] = type /\ (s.at < k \/ (s.at = k /\ s.pc = "folder"))

\* Those that will create one more folder of the type, out of all that can.
Actors == SyncJobs \cup Handlers
Makers(type) ==
    {j \in SyncJobs : Lacks(sync[j], type)}
    \cup {h \in Handlers : request[h].pc = "newFolder" /\ request[h].type = type}

\* Each folder was created by somebody who does not create another one.
FoldersInv == \A type \in FolderTypes : folders[type] + Cardinality(Makers(type)) <= Cardinality(Actors)

LEMMA ActorsAreFinite ==
    /\ IsFiniteSet(Actors) /\ Cardinality(Actors) = Cardinality(SyncJobs) + Cardinality(Handlers)
    /\ Cardinality(Actors) \in Nat
<1>1. IsFiniteSet(SyncJobs) /\ IsFiniteSet(Handlers) /\ SyncJobs \cap Handlers = {}
  BY SyncAssumption
<1>2. IsFiniteSet(SyncJobs \cap Handlers) /\ Cardinality(SyncJobs \cap Handlers) = 0
  BY <1>1, FS_EmptySet
<1>3. /\ IsFiniteSet(Actors)
      /\ Cardinality(Actors) = Cardinality(SyncJobs) + Cardinality(Handlers)
                               - Cardinality(SyncJobs \cap Handlers)
  BY <1>1, FS_Union DEF Actors
<1>4. Cardinality(SyncJobs) \in Nat /\ Cardinality(Handlers) \in Nat
  BY <1>1, FS_CardinalityType
<1> QED BY <1>2, <1>3, <1>4

LEMMA MakersAreActors ==
    ASSUME NEW type
    PROVE  /\ Makers(type) \subseteq Actors
           /\ IsFiniteSet(Makers(type)) /\ Cardinality(Makers(type)) \in Nat
           /\ Cardinality(Makers(type)) <= Cardinality(Actors)
<1>1. Makers(type) \subseteq Actors
  BY DEF Makers, Actors
<1>2. IsFiniteSet(Makers(type)) /\ Cardinality(Makers(type)) <= Cardinality(Actors)
  BY <1>1, ActorsAreFinite, FS_Subset
<1> QED BY <1>1, <1>2, FS_CardinalityType

LEMMA MakersAreActorsNext ==
    ASSUME NEW type
    PROVE  /\ Makers(type)' \subseteq Actors
           /\ IsFiniteSet(Makers(type)') /\ Cardinality(Makers(type)') \in Nat
           /\ Cardinality(Makers(type)') <= Cardinality(Actors)
<1>1. Makers(type)' \subseteq Actors
  BY DEF Makers, Actors
<1>2. IsFiniteSet(Makers(type)') /\ Cardinality(Makers(type)') <= Cardinality(Actors)
  BY <1>1, ActorsAreFinite, FS_Subset
<1> QED BY <1>1, <1>2, FS_CardinalityType

\* Nobody decides to create a folder of a type that has one.
FolderKept(type) ==
    \/ folders'[type] = 0
    \/ folders'[type] = folders[type] /\ Makers(type)' \subseteq Makers(type)
\* One of those that would create a folder did.
FolderMade(type) ==
    folders'[type] = folders[type] + 1 /\ \E a \in Makers(type) : Makers(type)' \subseteq Makers(type) \ {a}

LEMMA FoldersCounted ==
    ASSUME TypeInv, FoldersInv, \A type \in FolderTypes : FolderKept(type) \/ FolderMade(type)
    PROVE  FoldersInv'
<1> SUFFICES ASSUME NEW type \in FolderTypes
             PROVE  folders'[type] + Cardinality(Makers(type)') <= Cardinality(Actors)
  BY DEF FoldersInv, Actors
<1>1. /\ folders[type] \in Nat /\ folders[type] + Cardinality(Makers(type)) <= Cardinality(Actors)
      /\ Cardinality(Makers(type)) \in Nat /\ IsFiniteSet(Makers(type))
      /\ Cardinality(Makers(type)') \in Nat /\ Cardinality(Makers(type)') <= Cardinality(Actors)
      /\ Cardinality(Actors) \in Nat
  BY MakersAreActors, MakersAreActorsNext, ActorsAreFinite DEF FoldersInv, TypeInv, TypeOK
<1>2. CASE folders'[type] = 0
  BY <1>1, <1>2
<1>3. CASE folders'[type] = folders[type] /\ Makers(type)' \subseteq Makers(type)
  <2>1. Cardinality(Makers(type)') <= Cardinality(Makers(type))
    BY <1>1, <1>3, FS_Subset
  <2> QED BY <1>1, <1>3, <2>1
<1>4. CASE FolderMade(type)
  <2>1. PICK a \in Makers(type) : Makers(type)' \subseteq Makers(type) \ {a}
    BY <1>4 DEF FolderMade
  <2>2. /\ IsFiniteSet(Makers(type) \ {a})
        /\ Cardinality(Makers(type) \ {a}) = Cardinality(Makers(type)) - 1
    BY <1>1, FS_RemoveElement
  <2>3. Cardinality(Makers(type)') <= Cardinality(Makers(type) \ {a})
    BY <2>1, <2>2, FS_Subset
  <2> QED BY <1>1, <1>4, <2>2, <2>3 DEF FolderMade
<1> QED BY <1>2, <1>3, <1>4 DEF FolderKept

\* A step that only moves one sync on.
LEMMA SyncMakers ==
    ASSUME NEW j \in SyncJobs, \A i \in SyncJobs \ {j} : sync'[i] = sync[i],
           request' = request, provider' = provider,
           NEW type, Lacks(sync[j], type)' => Lacks(sync[j], type)
    PROVE  Makers(type)' \subseteq Makers(type)
<1>1. \A i \in SyncJobs : Lacks(sync[i], type)' => Lacks(sync[i], type)
  BY DEF Lacks
<1> QED BY <1>1 DEF Makers

\* A step that leaves the syncs alone.
LEMMA RequestMakers ==
    ASSUME sync' = sync, provider' = provider, NEW type,
           \A h \in Handlers : request'[h].pc = "newFolder" /\ request'[h].type = type
                               => request[h].pc = "newFolder" /\ request[h].type = type
    PROVE  Makers(type)' \subseteq Makers(type)
BY DEF Makers, Lacks

LEMMA SyncStepsKeepFolders ==
    ASSUME TypeInv, NEW j \in SyncJobs, NEW type \in FolderTypes,
           \/ Schedule(j) \/ Take(j) \/ TakeMissing(j) \/ Promote(j) \/ Stall(j)
           \/ FindFolder(j) \/ CreateFolder(j) \/ SkipFolder(j) \/ List(j)
           \/ NextFolder(j) \/ Finish(j) \/ AttemptFails(j)
    PROVE  FolderKept(type) \/ FolderMade(type)
<1> USE DEF remoteVars, storeVars, queueVars, observers, counters
<1>1. /\ sync \in [SyncJobs -> SoundSyncs] /\ sync[j] \in SoundSyncs /\ sync[j] \in Syncs
      /\ folders \in [FolderTypes -> Nat]
      /\ sync[j].at \in DOMAIN FolderOrder /\ sync[j].known \in [FolderTypes -> Nat]
  BY DEF TypeInv, TypeOK, SyncsSound, Syncs
<1>2. DOMAIN FolderOrder \subseteq Nat /\ Type(j) \in FolderTypes
  BY <1>1, Constants DEF Type, FolderTypes
\* A step of the sync after which it lacks no more types than before.
<1>3. ASSUME NEW s \in SoundSyncs, Become(j, s), request' = request, provider' = provider,
             folders' = folders, folders[type] # 0 => (Lacks(s, type) => Lacks(sync[j], type))
      PROVE  FolderKept(type)
  <2>1. CASE folders[type] = 0
    BY <1>3, <2>1 DEF FolderKept
  <2>2. CASE folders[type] # 0
    <3>1. sync'[j] = s /\ \A i \in SyncJobs \ {j} : sync'[i] = sync[i]
      BY <1>1, <1>3, BecomeTypes
    <3>2. Lacks(sync[j], type)' => Lacks(sync[j], type)
      BY <1>3, <2>2, <3>1 DEF Lacks
    <3>3. Makers(type)' \subseteq Makers(type)
      BY <1>3, <3>1, <3>2, SyncMakers
    <3> QED BY <1>3, <3>3 DEF FolderKept
  <2> QED BY <2>1, <2>2
<1>4. ASSUME NEW folder \in FolderRows, Listing(j, folder), sync[j].pc # "idle",
             request' = request, provider' = provider, folders' = folders
      PROVE  FolderKept(type)
  <2>1. /\ sync' \in [SyncJobs -> SoundSyncs] /\ sync'[j].pc = "items"
        /\ sync'[j].at = sync[j].at /\ sync'[j].known = sync[j].known
        /\ \A i \in SyncJobs \ {j} : sync'[i] = sync[i]
    BY <1>4, ListingTypes
  <2>2. Lacks(sync[j], type)' => Lacks(sync[j], type)
    BY <1>4, <2>1 DEF Lacks
  <2>3. Makers(type)' \subseteq Makers(type)
    BY <1>4, <2>1, <2>2, SyncMakers
  <2> QED BY <1>4, <2>3 DEF FolderKept
<1>5. NoSync \in SoundSyncs /\ NoSync.pc = "idle" /\ ~Lacks(NoSync, type)
  BY Initials DEF NoSync, Lacks
<1>6. CASE Schedule(j) \/ TakeMissing(j) \/ Promote(j) \/ Stall(j)
  BY <1>6, RequestMakers DEF Schedule, TakeMissing, Promote, Stall, FolderKept
<1>7. CASE Take(j)
  <2> DEFINE known == IF provider = "GMAIL" THEN NoFolders ELSE folders
             s == [NoSync EXCEPT !.pc = "folder", !.known = known]
  <2>1. Become(j, s) /\ s.pc = "folder" /\ s.known = known
    BY <1>7 DEF Take, NoSync
  <2>2. sync'[j] = s /\ sync' \in [SyncJobs -> SoundSyncs]
    BY <1>1, <1>7, <2>1, SyncStepTypes DEF Become
  <2>3. folders[type] # 0 => ~Lacks(s, type)
    BY <1>1, <2>1 DEF Lacks
  <2> HIDE DEF s
  <2> QED BY <1>3, <1>7, <2>1, <2>2, <2>3 DEF Take
<1>8. CASE FindFolder(j)
  <2>1. CASE FoldersFound(j) = 0 /\ Goto(j, "newFolder")
    <3> DEFINE s == [sync[j] EXCEPT !.pc = "newFolder"]
    <3>1. Become(j, s) /\ s.pc = "newFolder" /\ s.at = sync[j].at /\ s.known = sync[j].known
      BY <1>1, <2>1 DEF Goto, Syncs
    <3>2. sync'[j] = s /\ sync' \in [SyncJobs -> SoundSyncs]
      BY <1>1, <1>8, <3>1, SyncStepTypes DEF Become
    <3>3. folders[type] # 0 => (Lacks(s, type) => Lacks(sync[j], type))
      BY <1>1, <1>8, <2>1, <3>1 DEF Lacks, FindFolder, FoldersFound, Type
    <3> HIDE DEF s
    <3> QED BY <1>3, <1>8, <3>1, <3>2, <3>3 DEF FindFolder
  <2>2. ASSUME NEW n \in 1..FoldersFound(j), Listing(j, <<Type(j), n>>) PROVE FolderKept(type)
    <3>1. FoldersFound(j) \in Nat
      BY <1>1, <1>2 DEF FoldersFound
    <3>2. <<Type(j), n>> \in FolderRows
      BY <1>2, <3>1 DEF FolderRows
    <3> QED BY <1>4, <1>8, <2>2, <3>2 DEF FindFolder
  <2> QED BY <1>8, <2>1, <2>2 DEF FindFolder
<1>9. CASE CreateFolder(j)
  <2> DEFINE s == [sync[j] EXCEPT !.pc = "list", !.folder = <<Type(j), folders[Type(j)] + 1>>]
  <2>1. Become(j, s) /\ s.pc = "list" /\ s.at = sync[j].at /\ s.known = sync[j].known
    BY <1>1, <1>9 DEF CreateFolder, Syncs
  <2>2. sync'[j] = s /\ sync' \in [SyncJobs -> SoundSyncs]
        /\ \A i \in SyncJobs \ {j} : sync'[i] = sync[i]
    BY <1>1, <1>9, <2>1, SyncStepTypes DEF Become
  <2>3. Lacks(s, type) => Lacks(sync[j], type)
    BY <1>9, <2>1 DEF Lacks, CreateFolder
  <2> HIDE DEF s
  <2>4. Makers(type)' \subseteq Makers(type)
    <3>1. Lacks(sync[j], type)' => Lacks(sync[j], type)
      BY <1>9, <2>2, <2>3 DEF Lacks, CreateFolder
    <3> QED BY <1>9, <2>2, <3>1, SyncMakers DEF CreateFolder
  <2>5. CASE type # Type(j)
    BY <1>1, <1>2, <1>9, <2>4, <2>5 DEF CreateFolder, FolderKept
  <2>6. CASE type = Type(j)
    <3>1. j \in Makers(type)
      BY <1>9, <2>6 DEF Makers, Lacks, CreateFolder, Type
    <3>2. \A k \in DOMAIN FolderOrder : FolderOrder[k] = type => k = sync[j].at
      BY <1>1, <2>6, SyncAssumption DEF Type
    <3>3. ~Lacks(sync[j], type)'
      BY <1>1, <1>2, <2>1, <2>2, <3>2 DEF Lacks
    <3>4. j \notin Handlers
      BY SyncAssumption
    <3>5. j \notin Makers(type)'
      BY <3>3, <3>4 DEF Makers
    <3> QED BY <1>1, <1>2, <1>9, <2>4, <2>6, <3>1, <3>5 DEF CreateFolder, FolderMade
  <2> QED BY <2>5, <2>6
<1>10. CASE SkipFolder(j)
  <2> DEFINE s == [sync[j] EXCEPT !.pc = "items"]
  <2>1. Become(j, s) /\ s.pc = "items" /\ s.at = sync[j].at /\ s.known = sync[j].known
    BY <1>1, <1>10 DEF SkipFolder, Goto, Syncs
  <2>2. sync'[j] = s /\ sync' \in [SyncJobs -> SoundSyncs]
    BY <1>1, <1>10, <2>1, SyncStepTypes DEF Become
  <2>3. Lacks(s, type) => Lacks(sync[j], type)
    BY <1>10, <2>1 DEF Lacks, SkipFolder
  <2> HIDE DEF s
  <2> QED BY <1>3, <1>10, <2>1, <2>2, <2>3 DEF SkipFolder
<1>11. CASE List(j)
  <2>1. sync[j].folder \in FolderRows
    BY <1>1, <1>11 DEF List, SoundSyncs
  <2> QED BY <1>4, <1>11, <2>1 DEF List
<1>12. CASE NextFolder(j)
  <2> DEFINE s == [NoSync EXCEPT !.pc = "folder", !.known = sync[j].known, !.at = sync[j].at + 1]
  <2>1. Become(j, s) /\ s.pc = "folder" /\ s.at = sync[j].at + 1 /\ s.known = sync[j].known
    BY <1>12 DEF NextFolder, NoSync
  <2>2. sync'[j] = s /\ sync' \in [SyncJobs -> SoundSyncs]
    BY <1>1, <1>12, <2>1, SyncStepTypes DEF Become
  <2>3. sync[j].pc = "items"
    BY <1>12 DEF NextFolder, FolderDone
  <2>4. Lacks(s, type) => Lacks(sync[j], type)
    BY <1>1, <1>2, <2>1, <2>3 DEF Lacks
  <2> HIDE DEF s
  <2> QED BY <1>3, <1>12, <2>1, <2>2, <2>4 DEF NextFolder
<1>13. CASE Finish(j) \/ AttemptFails(j)
  BY <1>3, <1>5, <1>13 DEF Finish, AttemptFails
<1> QED BY <1>6, <1>7, <1>8, <1>9, <1>10, <1>11, <1>12, <1>13

LEMMA MessageStepsKeepFolders ==
    ASSUME TypeInv, NEW j \in SyncJobs, NEW m \in Messages, NEW type \in FolderTypes,
           Fetch(j, m) \/ Find(j, m) \/ Update(j, m) \/ Create(j, m) \/ SkipMessage(j, m)
    PROVE  FolderKept(type)
<1> USE DEF remoteVars, storeVars, queueVars, observers, counters
<1>1. sync \in [SyncJobs -> SoundSyncs] /\ sync[j] \in Syncs
  BY DEF TypeInv, SyncsSound, SoundSyncs
<1>2. /\ sync'[j].pc = sync[j].pc /\ sync'[j].at = sync[j].at /\ sync'[j].known = sync[j].known
      /\ \A i \in SyncJobs \ {j} : sync'[i] = sync[i]
  <2>1. CASE Fetch(j, m)
    BY <1>1, <2>1 DEF Fetch, Become, Syncs
  <2>2. CASE Find(j, m)
    BY <1>1, <2>2 DEF Find, Advance, Become, Syncs
  <2>3. CASE Update(j, m) \/ Create(j, m) \/ SkipMessage(j, m)
    BY <1>1, <2>3, DropTypes DEF Update, Create, SkipMessage
  <2> QED BY <2>1, <2>2, <2>3
<1>3. request' = request /\ provider' = provider /\ folders' = folders
  BY DEF Fetch, Find, Update, Create, SkipMessage
<1>4. Lacks(sync[j], type)' => Lacks(sync[j], type)
  BY <1>2, <1>3 DEF Lacks
<1>5. Makers(type)' \subseteq Makers(type)
  BY <1>2, <1>3, <1>4, SyncMakers
<1> QED BY <1>3, <1>5 DEF FolderKept

LEMMA OtherStepsKeepFolders ==
    ASSUME TypeInv, NEW type \in FolderTypes,
           \/ \E m \in Messages : Arrive(m) \/ MoveRemotely(m) \/ FlagRemotely(m)
           \/ RemoveMailbox \/ Crash \/ UNCHANGED vars
    PROVE  FolderKept(type)
<1> USE DEF remoteVars, storeVars, queueVars, observers, counters
<1>1. CASE RemoveMailbox
  BY <1>1 DEF RemoveMailbox, NoFolders, FolderKept
<1>2. CASE Crash
  <2>1. \A j \in SyncJobs : ~Lacks(sync[j], type)'
    BY <1>2 DEF Crash, NoSync, Lacks
  <2>2. Makers(type)' \subseteq Makers(type)
    BY <1>2, <2>1 DEF Crash, Makers, NoRequest
  <2> QED BY <1>2, <2>2 DEF Crash, FolderKept
<1>3. CASE UNCHANGED vars \/ \E m \in Messages : Arrive(m) \/ MoveRemotely(m) \/ FlagRemotely(m)
  <2>1. sync' = sync /\ provider' = provider /\ request' = request /\ folders' = folders
    BY <1>3 DEF vars, Arrive, MoveRemotely, FlagRemotely
  <2> QED BY <2>1, RequestMakers DEF FolderKept
<1> QED BY <1>1, <1>2, <1>3

LEMMA OwnerStepsKeepFolders ==
    ASSUME TypeInv, NEW h \in Handlers, NEW r \in rows, NEW type \in FolderTypes,
           \/ \E on \in BOOLEAN : BeginMarkRead(h, r, on) \/ ToggleStar(h, r, on)
           \/ \E other \in FolderTypes : Refile(h, r, other)
           \/ BeginDelete(h, r)
    PROVE  FolderKept(type)
<1> USE DEF remoteVars, storeVars, queueVars, observers, counters
<1>1. request \in [Handlers -> Requests]
  BY DEF TypeInv, TypeOK
<1>2. sync' = sync /\ provider' = provider /\ folders' = folders
  BY DEF BeginMarkRead, ToggleStar, Refile, BeginDelete
<1>3. \A g \in Handlers : request'[g].pc = "newFolder" => request'[g] = request[g]
  <2>1. ASSUME NEW on \in BOOLEAN, BeginMarkRead(h, r, on)
        PROVE  \A g \in Handlers : request'[g].pc = "newFolder" => request'[g] = request[g]
    BY <1>1, <2>1 DEF BeginMarkRead, Ask
  <2>2. CASE BeginDelete(h, r)
    BY <1>1, <2>2 DEF BeginDelete, Ask
  <2>3. CASE UNCHANGED request
    BY <2>3
  <2> QED BY <2>1, <2>2, <2>3 DEF ToggleStar, Refile
<1>4. Makers(type)' \subseteq Makers(type)
  BY <1>2, <1>3, RequestMakers
<1> QED BY <1>2, <1>4 DEF FolderKept

LEMMA RequestStepsKeepFolders ==
    ASSUME TypeInv, NEW h \in Handlers, NEW type \in FolderTypes,
           \/ \E m \in 0..LastMessage, other \in FolderTypes : MissFolder(h, m, other)
           \/ MakeFolder(h) \/ MarkRemotely(h) \/ SearchRemotely(h) \/ TrashRemotely(h)
           \/ RemoteFails(h)
    PROVE  FolderKept(type) \/ FolderMade(type)
<1> USE DEF remoteVars, storeVars, queueVars, observers, counters
<1>1. request \in [Handlers -> Requests] /\ folders \in [FolderTypes -> Nat]
  BY DEF TypeInv, TypeOK
<1>2. sync' = sync /\ provider' = provider
  BY DEF MissFolder, MakeFolder, MarkRemotely, SearchRemotely, TrashRemotely, RemoteFails
<1>3. ASSUME NEW m \in 0..LastMessage, NEW other \in FolderTypes, MissFolder(h, m, other)
      PROVE  FolderKept(type)
  <2>1. folders' = folders /\ folders[other] = 0
    BY <1>3 DEF MissFolder
  <2>2. \A g \in Handlers : request'[g] = request[g] \/ request'[g].type = other
    BY <1>1, <1>3 DEF MissFolder, Ask
  <2>3. CASE other = type
    BY <2>1, <2>3 DEF FolderKept
  <2>4. CASE other # type
    <3>1. Makers(type)' \subseteq Makers(type)
      BY <1>2, <2>2, <2>4, RequestMakers
    <3> QED BY <2>1, <3>1 DEF FolderKept
  <2> QED BY <2>3, <2>4
<1>4. ASSUME Answer(h)
      PROVE  /\ request'[h].pc = "idle"
             /\ Makers(type)' \subseteq Makers(type)
  <2>1. request'[h].pc = "idle" /\ \A g \in Handlers \ {h} : request'[g] = request[g]
    BY <1>1, <1>4 DEF Answer, NoRequest
  <2>2. Makers(type)' \subseteq Makers(type)
    BY <1>2, <2>1, RequestMakers
  <2> QED BY <2>1, <2>2
<1>5. CASE MakeFolder(h)
  <2>1. Answer(h) /\ request[h].pc = "newFolder" /\ request[h].type \in FolderTypes
    BY <1>1, <1>5 DEF MakeFolder, Requests
  <2>2. Makers(type)' \subseteq Makers(type) /\ request'[h].pc = "idle"
    BY <1>4, <2>1
  <2>3. \/ folders' = folders
        \/ folders' = [folders EXCEPT ![request[h].type] = @ + 1]
    BY <1>5 DEF MakeFolder
  <2>4. CASE folders'[type] = folders[type]
    BY <2>2, <2>4 DEF FolderKept
  <2>5. CASE folders'[type] # folders[type]
    <3>1. request[h].type = type /\ folders'[type] = folders[type] + 1
      BY <1>1, <2>1, <2>3, <2>5
    <3>2. h \in Makers(type)
      BY <2>1, <3>1 DEF Makers
    <3>3. h \notin SyncJobs
      BY SyncAssumption
    <3>4. h \notin Makers(type)'
      BY <2>2, <3>3 DEF Makers
    <3> QED BY <2>2, <3>1, <3>2, <3>4 DEF FolderMade
  <2> QED BY <2>4, <2>5
<1>6. CASE MarkRemotely(h) \/ TrashRemotely(h) \/ RemoteFails(h)
  <2>1. Answer(h) /\ folders' = folders
    BY <1>6 DEF MarkRemotely, TrashRemotely, RemoteFails
  <2> QED BY <1>4, <2>1 DEF FolderKept
<1>7. CASE SearchRemotely(h)
  <2>1. folders' = folders
    BY <1>7 DEF SearchRemotely
  <2>2. CASE Answer(h)
    BY <1>4, <2>1, <2>2 DEF FolderKept
  <2>3. CASE request' = [request EXCEPT ![h].pc = "relock"]
    <3>1. \A g \in Handlers : request'[g].pc = "newFolder" => request'[g] = request[g]
      BY <1>1, <2>3 DEF Requests
    <3>2. Makers(type)' \subseteq Makers(type)
      BY <1>2, <3>1, RequestMakers
    <3> QED BY <2>1, <3>2 DEF FolderKept
  <2> QED BY <1>7, <2>2, <2>3 DEF SearchRemotely
<1> QED BY <1>3, <1>5, <1>6, <1>7

LEMMA FoldersInit == Init => FoldersInv
<1> SUFFICES ASSUME Init, NEW type \in FolderTypes
             PROVE  folders[type] + Cardinality(Makers(type)) <= Cardinality(Actors)
  BY DEF FoldersInv
<1>1. folders[type] = 0
  BY DEF Init, NoFolders
<1> QED BY <1>1, MakersAreActors, ActorsAreFinite

LEMMA FoldersStep == TypeInv /\ FoldersInv /\ [Next]_vars => FoldersInv'
<1> SUFFICES ASSUME TypeInv, FoldersInv, [Next]_vars PROVE FoldersInv'
  OBVIOUS
<1>1. ASSUME NEW type \in FolderTypes PROVE FolderKept(type) \/ FolderMade(type)
  <2>1. CASE UNCHANGED vars
    BY <2>1, OtherStepsKeepFolders
  <2>2. CASE Next
    BY <2>2, NextCases, SyncStepsKeepFolders, MessageStepsKeepFolders, OwnerStepsKeepFolders,
       RequestStepsKeepFolders, OtherStepsKeepFolders
  <2> QED BY <2>1, <2>2
<1> QED BY <1>1, FoldersCounted

\* However the syncs and requests interleave, a mailbox has no more folders of a type
\* than can look for one at the same time.
THEOREM FoldersAreBounded == Spec => []FoldersBounded
<1>1. TypeInv /\ FoldersInv => FoldersBounded
  <2> SUFFICES ASSUME TypeInv, FoldersInv, NEW type \in FolderTypes
               PROVE  folders[type] <= Cardinality(SyncJobs) + Cardinality(Handlers)
    BY DEF FoldersBounded
  <2>1. folders[type] \in Nat /\ folders[type] + Cardinality(Makers(type)) <= Cardinality(Actors)
    BY DEF FoldersInv, TypeInv, TypeOK
  <2> QED BY <2>1, MakersAreActors, ActorsAreFinite
<1> QED BY <1>1, TypeInit, TypeStep, FoldersInit, FoldersStep, PTL DEF Spec

-----------------------------------------------------------------------------
(* The constraints of the schema.                                          *)

Exists(folder) == folder[2] <= folders[folder[1]]

\* The foreign key of a row, and @@unique([mailBoxId, folderId, messageId]).
SchemaHolds ==
    /\ \A r \in rows : Exists(r.folder)
    /\ \A r, s \in rows : r.message = s.message /\ r.folder = s.folder => r = s

\* What a sync has read of the folders is still there.
Knows(s) ==
    /\ \A type \in FolderTypes : s.known[type] <= folders[type]
    /\ s.folder \in FolderRows => Exists(s.folder)

SchemaInv ==
    /\ SchemaHolds
    /\ ~connected => rows = {}
    /\ connected => \A j \in SyncJobs : Knows(sync[j])

\* What every step but the removal of the mailbox leaves to them.
FoldersStay == connected' = connected /\ \A type \in FolderTypes : folders[type] <= folders'[type]

\* At most one row is written, to a folder that exists and has no row of its message.
RowsFit ==
    \/ rows' \subseteq rows
    \/ \E r \in rows, s \in Rows :
         /\ s.message = r.message /\ rows' = Replaced(r, s)
         /\ s.folder = r.folder \/ (Exists(s.folder)' /\ ~Taken(r.message, s.folder))
    \/ \E s \in Rows :
         connected /\ rows' = rows \cup {s} /\ Exists(s.folder)' /\ ~Taken(s.message, s.folder)

LEMMA FoldersStayThere ==
    ASSUME TypeInv, FoldersStay, folders' \in [FolderTypes -> Nat], NEW folder \in FolderRows,
           Exists(folder)
    PROVE  Exists(folder)'
<1>1. folder[1] \in FolderTypes /\ folder[2] \in Nat /\ folders \in [FolderTypes -> Nat]
  BY DEF TypeInv, TypeOK, FolderRows
<1> QED BY <1>1 DEF Exists, FoldersStay

LEMMA FittingRows ==
    ASSUME TypeInv, SchemaInv, FoldersStay, folders' \in [FolderTypes -> Nat], RowsFit
    PROVE  SchemaHolds' /\ (~connected' => rows' = {})
<1>1. rows \subseteq Rows /\ SchemaHolds /\ (~connected => rows = {}) /\ connected' = connected
  BY DEF TypeInv, TypeOK, SchemaInv, FoldersStay
<1>2. \A r \in rows : Exists(r.folder)'
  <2> SUFFICES ASSUME NEW r \in rows PROVE Exists(r.folder)'
    OBVIOUS
  <2>1. r.folder \in FolderRows /\ Exists(r.folder)
    BY <1>1 DEF SchemaHolds, Rows
  <2> QED BY <2>1, FoldersStayThere
<1>3. \A r, s \in rows : r.message = s.message /\ r.folder = s.folder => r = s
  BY <1>1 DEF SchemaHolds
<1>4. CASE rows' \subseteq rows
  <2>1. \A r \in rows' : Exists(r.folder)'
    BY <1>2, <1>4
  <2>2. \A r, s \in rows' : r.message = s.message /\ r.folder = s.folder => r = s
    BY <1>3, <1>4
  <2> QED BY <1>1, <1>4, <2>1, <2>2 DEF SchemaHolds, Exists
<1>5. ASSUME NEW r \in rows, NEW s \in Rows, s.message = r.message, rows' = Replaced(r, s),
             s.folder = r.folder \/ (Exists(s.folder)' /\ ~Taken(r.message, s.folder))
      PROVE  SchemaHolds' /\ (~connected' => rows' = {})
  <2>1. rows' = (rows \ {r}) \cup {s}
    BY <1>5 DEF Replaced
  <2>2. Exists(s.folder)'
    BY <1>2, <1>5
  <2>3. \A p \in rows \ {r} : p.message = s.message => p.folder # s.folder
    BY <1>3, <1>5 DEF Taken, RowsOf
  <2>4. \A p \in rows' : Exists(p.folder)'
    BY <1>2, <2>1, <2>2
  <2>5. \A p, q \in rows' : p.message = q.message /\ p.folder = q.folder => p = q
    BY <1>3, <2>1, <2>3
  <2> QED BY <1>1, <2>4, <2>5 DEF SchemaHolds, Exists
<1>6. ASSUME NEW s \in Rows, connected, rows' = rows \cup {s}, Exists(s.folder)',
             ~Taken(s.message, s.folder)
      PROVE  SchemaHolds' /\ (~connected' => rows' = {})
  <2>1. \A p \in rows : p.message = s.message => p.folder # s.folder
    BY <1>6 DEF Taken, RowsOf
  <2>2. \A p \in rows' : Exists(p.folder)'
    BY <1>2, <1>6
  <2>3. \A p, q \in rows' : p.message = q.message /\ p.folder = q.folder => p = q
    BY <1>3, <1>6, <2>1
  <2> QED BY <1>1, <1>6, <2>2, <2>3 DEF SchemaHolds, Exists
<1> QED BY <1>4, <1>5, <1>6 DEF RowsFit

\* What a sync knows goes on to be true while the mailbox is there.
LEMMA KnowledgeStays ==
    ASSUME TypeInv, FoldersStay, folders' \in [FolderTypes -> Nat], NEW s \in Syncs, Knows(s)
    PROVE  Knows(s)'
<1>1. s.known \in [FolderTypes -> Nat] /\ folders \in [FolderTypes -> Nat]
  BY DEF Syncs, TypeInv, TypeOK
<1>2. \A type \in FolderTypes : s.known[type] <= folders'[type]
  BY <1>1 DEF Knows, FoldersStay
<1>3. s.folder \in FolderRows => Exists(s.folder)'
  BY FoldersStayThere DEF Knows
<1> QED BY <1>2, <1>3 DEF Knows, Exists

LEMMA NothingKnown ==
    ASSUME folders \in [FolderTypes -> Nat]
    PROVE  Knows(NoSync)
BY DEF Knows, NoSync, NoFolder, NoFolders, FolderRows

\* A step that writes one sync at most.
LEMMA SchemaKept ==
    ASSUME TypeInv, SchemaInv, TypeInv', FoldersStay, RowsFit, NEW j \in SyncJobs,
           \A i \in SyncJobs \ {j} : sync'[i] = sync[i],
           sync'[j] = sync[j] \/ (connected => Knows(sync[j])')
    PROVE  SchemaInv'
<1>1. /\ folders \in [FolderTypes -> Nat] /\ folders' \in [FolderTypes -> Nat]
      /\ \A i \in SyncJobs : sync[i] \in Syncs
  BY DEF TypeInv, TypeOK
<1>2. SchemaHolds' /\ (~connected' => rows' = {})
  BY <1>1, FittingRows
<1>3. ASSUME connected', NEW i \in SyncJobs PROVE Knows(sync[i])'
  <2>1. connected /\ Knows(sync[i])
    BY <1>3 DEF SchemaInv, FoldersStay
  <2>2. CASE sync'[i] = sync[i]
    <3>1. PICK s \in Syncs : s = sync[i]
      BY <1>1
    <3>2. Knows(s)'
      BY <1>1, <2>1, <3>1, KnowledgeStays
    <3> QED BY <2>2, <3>1, <3>2 DEF Knows, Exists
  <2>3. CASE sync'[i] # sync[i]
    <3>1. i = j
      BY <2>3
    <3> QED BY <2>1, <2>3, <3>1
  <2> QED BY <2>2, <2>3
<1> QED BY <1>2, <1>3 DEF SchemaInv

LEMMA SyncStepsKeepSchema ==
    ASSUME TypeInv, SchemaInv, TypeInv', NEW j \in SyncJobs,
           \/ Schedule(j) \/ Take(j) \/ TakeMissing(j) \/ Promote(j) \/ Stall(j)
           \/ FindFolder(j) \/ CreateFolder(j) \/ SkipFolder(j) \/ List(j)
           \/ NextFolder(j) \/ Finish(j) \/ AttemptFails(j)
    PROVE  SchemaInv'
<1> USE DEF remoteVars, storeVars, queueVars, observers, counters
<1>1. /\ sync \in [SyncJobs -> SoundSyncs] /\ sync[j] \in SoundSyncs /\ sync[j] \in Syncs
      /\ folders \in [FolderTypes -> Nat]
      /\ sync[j].at \in DOMAIN FolderOrder /\ sync[j].known \in [FolderTypes -> Nat]
  BY DEF TypeInv, TypeOK, SyncsSound, Syncs
<1>2. Type(j) \in FolderTypes
  BY <1>1, Constants DEF Type, FolderTypes
<1>3. RowsFit
  BY DEF Schedule, Take, TakeMissing, Promote, Stall, FindFolder, CreateFolder,
         SkipFolder, List, NextFolder, Finish, AttemptFails, RowsFit
<1>4. UNCHANGED folders => \A s : Knows(s) => Knows(s)'
  BY DEF Knows, Exists
<1>5. connected => Knows(sync[j])
  BY DEF SchemaInv
\* A step of the sync after which it knows what it knew, or nothing.
<1>6. ASSUME NEW s, Become(j, s), UNCHANGED <<connected, folders>>, connected => Knows(s)
      PROVE  SchemaInv'
  <2>1. sync'[j] = s /\ \A i \in SyncJobs \ {j} : sync'[i] = sync[i]
    BY <1>1, <1>6 DEF Become
  <2>2. connected => Knows(sync[j])'
    BY <1>4, <1>6, <2>1 DEF Knows, Exists
  <2>3. FoldersStay
    BY <1>1, <1>6 DEF FoldersStay
  <2> QED BY <1>3, <2>1, <2>2, <2>3, SchemaKept
<1>7. ASSUME NEW folder \in FolderRows, Listing(j, folder), UNCHANGED <<connected, folders>>,
             connected => Exists(folder)
      PROVE  SchemaInv'
  <2>1. /\ sync'[j].known = sync[j].known /\ sync'[j].folder = folder
        /\ \A i \in SyncJobs \ {j} : sync'[i] = sync[i]
    BY <1>7, ListingTypes
  <2>2. connected => Knows(sync[j])'
    BY <1>5, <1>7, <2>1 DEF Knows, Exists
  <2>3. FoldersStay
    BY <1>1, <1>7 DEF FoldersStay
  <2> QED BY <1>3, <2>1, <2>2, <2>3, SchemaKept
<1>8. CASE Schedule(j) \/ TakeMissing(j) \/ Promote(j) \/ Stall(j)
  <2>1. sync' = sync /\ connected' = connected /\ folders' = folders
    BY <1>8 DEF Schedule, TakeMissing, Promote, Stall
  <2>2. FoldersStay
    BY <1>1, <2>1 DEF FoldersStay
  <2> QED BY <1>3, <2>1, <2>2, SchemaKept
<1>9. CASE Take(j)
  <2> DEFINE known == IF provider = "GMAIL" THEN NoFolders ELSE folders
             s == [NoSync EXCEPT !.pc = "folder", !.known = known]
  <2>1. Become(j, s) /\ s.known = known /\ s.folder = NoFolder
    BY <1>9 DEF Take, NoSync
  <2>2. Knows(s)
    BY <1>1, <2>1 DEF Knows, NoFolder, NoFolders, FolderRows
  <2> HIDE DEF s
  <2> QED BY <1>6, <1>9, <2>1, <2>2 DEF Take
<1>10. CASE FindFolder(j)
  <2>1. CASE Goto(j, "newFolder")
    <3> DEFINE s == [sync[j] EXCEPT !.pc = "newFolder"]
    <3>1. Become(j, s) /\ s.known = sync[j].known /\ s.folder = sync[j].folder
      BY <1>1, <2>1 DEF Goto, Syncs
    <3>2. connected => Knows(s)
      BY <1>5, <3>1 DEF Knows
    <3> HIDE DEF s
    <3> QED BY <1>6, <1>10, <3>1, <3>2 DEF FindFolder
  <2>2. ASSUME NEW n \in 1..FoldersFound(j), Listing(j, <<Type(j), n>>) PROVE SchemaInv'
    <3>1. FoldersFound(j) \in Nat
      BY <1>1, <1>2 DEF FoldersFound
    <3>2. <<Type(j), n>> \in FolderRows
      BY <1>2, <3>1 DEF FolderRows
    <3>3. connected => FoldersFound(j) <= folders[Type(j)]
      BY <1>1, <1>2, <1>5 DEF FoldersFound, Knows
    <3>4. connected => Exists(<<Type(j), n>>)
      BY <1>1, <1>2, <3>1, <3>3 DEF Exists
    <3> QED BY <1>7, <1>10, <2>2, <3>2, <3>4 DEF FindFolder
  <2> QED BY <1>10, <2>1, <2>2 DEF FindFolder
<1>11. CASE CreateFolder(j)
  <2> DEFINE s == [sync[j] EXCEPT !.pc = "list", !.folder = <<Type(j), folders[Type(j)] + 1>>]
  <2>1. Become(j, s) /\ s.known = sync[j].known /\ s.folder = <<Type(j), folders[Type(j)] + 1>>
    BY <1>1, <1>11 DEF CreateFolder, Syncs
  <2>2. /\ folders' = [folders EXCEPT ![Type(j)] = folders[Type(j)] + 1]
        /\ connected' = connected /\ connected
    BY <1>11 DEF CreateFolder
  <2>3. /\ \A type \in FolderTypes : folders[type] <= folders'[type]
        /\ folders'[Type(j)] = folders[Type(j)] + 1
        /\ folders' \in [FolderTypes -> Nat]
    BY <1>1, <1>2, <2>2
  <2>4. sync'[j] = s /\ \A i \in SyncJobs \ {j} : sync'[i] = sync[i]
    BY <1>1, <2>1 DEF Become
  <2> HIDE DEF s
  <2>5. \A type \in FolderTypes : sync[j].known[type] <= folders'[type]
    BY <1>1, <1>5, <2>2, <2>3 DEF Knows
  <2>6. Knows(sync[j])'
    BY <1>1, <1>2, <2>1, <2>3, <2>4, <2>5 DEF Knows, Exists
  <2> QED BY <1>3, <2>2, <2>3, <2>4, <2>6, SchemaKept DEF FoldersStay
<1>12. CASE SkipFolder(j)
  <2> DEFINE s == [sync[j] EXCEPT !.pc = "items"]
  <2>1. Become(j, s) /\ s.known = sync[j].known /\ s.folder = sync[j].folder
    BY <1>1, <1>12 DEF SkipFolder, Goto, Syncs
  <2>2. connected => Knows(s)
    BY <1>5, <2>1 DEF Knows
  <2> HIDE DEF s
  <2> QED BY <1>6, <1>12, <2>1, <2>2 DEF SkipFolder
<1>13. CASE List(j)
  <2>1. sync[j].folder \in FolderRows
    BY <1>1, <1>13 DEF List, SoundSyncs
  <2> QED BY <1>5, <1>7, <1>13, <2>1 DEF List, Knows
<1>14. CASE NextFolder(j)
  <2> DEFINE s == [NoSync EXCEPT !.pc = "folder", !.known = sync[j].known, !.at = sync[j].at + 1]
  <2>1. Become(j, s) /\ s.known = sync[j].known /\ s.folder = NoFolder
    BY <1>14 DEF NextFolder, NoSync
  <2>2. connected => Knows(s)
    BY <1>5, <2>1 DEF Knows, NoFolder, FolderRows
  <2> HIDE DEF s
  <2> QED BY <1>6, <1>14, <2>1, <2>2 DEF NextFolder
<1>15. CASE Finish(j) \/ AttemptFails(j)
  <2>1. Become(j, NoSync) /\ UNCHANGED <<connected, folders>>
    BY <1>15 DEF Finish, AttemptFails
  <2> QED BY <1>1, <1>6, <2>1, NothingKnown
<1> QED BY <1>8, <1>9, <1>10, <1>11, <1>12, <1>13, <1>14, <1>15

LEMMA MessageStepsKeepSchema ==
    ASSUME TypeInv, SchemaInv, TypeInv', NEW j \in SyncJobs, NEW m \in Messages,
           Fetch(j, m) \/ Find(j, m) \/ Update(j, m) \/ Create(j, m) \/ SkipMessage(j, m)
    PROVE  SchemaInv'
<1> USE DEF remoteVars, storeVars, queueVars, observers, counters
<1>1. /\ sync \in [SyncJobs -> SoundSyncs] /\ sync[j] \in Syncs /\ sync[j] \in SoundSyncs
      /\ rows \subseteq Rows /\ folders \in [FolderTypes -> Nat]
      /\ sync[j].copy[m] \in SUBSET Flags
  BY DEF TypeInv, TypeOK, SyncsSound, Syncs
<1>2. /\ sync'[j].known = sync[j].known /\ sync'[j].folder = sync[j].folder
      /\ \A i \in SyncJobs \ {j} : sync'[i] = sync[i]
  <2>1. CASE Fetch(j, m)
    BY <1>1, <2>1 DEF Fetch, Become, Syncs
  <2>2. CASE Find(j, m)
    BY <1>1, <2>2 DEF Find, Advance, Become, Syncs
  <2>3. CASE Update(j, m) \/ Create(j, m) \/ SkipMessage(j, m)
    BY <1>1, <2>3, DropTypes DEF Update, Create, SkipMessage
  <2> QED BY <2>1, <2>2, <2>3
<1>3. connected' = connected /\ folders' = folders
  BY DEF Fetch, Find, Update, Create, SkipMessage
<1>4. FoldersStay
  BY <1>1, <1>3 DEF FoldersStay
<1>5. connected => Knows(sync[j]) /\ Knows(sync[j])'
  BY <1>2, <1>3 DEF SchemaInv, Knows, Exists
<1>6. RowsFit
  <2>1. CASE Fetch(j, m) \/ Find(j, m) \/ SkipMessage(j, m)
    BY <2>1 DEF Fetch, Find, SkipMessage, RowsFit
  <2>2. CASE Update(j, m)
    <3>1. CASE UNCHANGED rows
      BY <3>1 DEF RowsFit
    <3>2. ASSUME NEW r \in RowsOf(m), rows' = Replaced(r, [r EXCEPT !.flags = sync[j].copy[m]])
          PROVE  RowsFit
      <4> DEFINE s == [r EXCEPT !.flags = sync[j].copy[m]]
      <4>1. r \in rows /\ s \in Rows /\ s.message = r.message /\ s.folder = r.folder
        BY <1>1 DEF RowsOf, Rows
      <4>2. rows' = Replaced(r, s)
        BY <3>2
      <4> HIDE DEF s
      <4> QED BY <4>1, <4>2 DEF RowsFit
    <3> QED BY <2>2, <3>1, <3>2 DEF Update
  <2>3. CASE Create(j, m)
    <3>1. PICK s : s = [message |-> m, folder |-> sync[j].folder, flags |-> sync[j].copy[m]]
      OBVIOUS
    <3>2. CASE UNCHANGED rows
      BY <3>2 DEF RowsFit
    <3>3. CASE ~UNCHANGED rows
      <4>1. connected /\ ~Taken(m, sync[j].folder) /\ rows' = rows \cup {s}
        BY <2>3, <3>3, <3>1 DEF Create
      <4>2. sync[j].folder \in FolderRows
        BY <1>1, <2>3 DEF Create, SoundSyncs
      <4>3. s \in Rows /\ s.message = m /\ s.folder = sync[j].folder
        BY <1>1, <3>1, <4>2 DEF Rows
      <4>4. Exists(s.folder)'
        BY <1>3, <1>5, <4>1, <4>2, <4>3 DEF Knows, Exists
      <4> QED BY <4>1, <4>3, <4>4 DEF RowsFit
    <3> QED BY <3>2, <3>3
  <2> QED BY <2>1, <2>2, <2>3
<1> QED BY <1>2, <1>4, <1>5, <1>6, SchemaKept

\* A step of no sync.
LEMMA SchemaUndisturbed ==
    ASSUME TypeInv, SchemaInv, TypeInv', FoldersStay, RowsFit, sync' = sync
    PROVE  SchemaInv'
<1>1. /\ folders \in [FolderTypes -> Nat] /\ folders' \in [FolderTypes -> Nat]
      /\ \A i \in SyncJobs : sync[i] \in Syncs
  BY DEF TypeInv, TypeOK
<1>2. SchemaHolds' /\ (~connected' => rows' = {})
  BY <1>1, FittingRows
<1>3. ASSUME connected', NEW i \in SyncJobs PROVE Knows(sync[i])'
  <2>1. Knows(sync[i])
    BY <1>3 DEF SchemaInv, FoldersStay
  <2>2. PICK s \in Syncs : s = sync[i]
    BY <1>1
  <2>3. Knows(s)'
    BY <1>1, <2>1, <2>2, KnowledgeStays
  <2> QED BY <2>2, <2>3 DEF Knows, Exists
<1> QED BY <1>2, <1>3 DEF SchemaInv

LEMMA OwnerStepsKeepSchema ==
    ASSUME TypeInv, SchemaInv, TypeInv', NEW h \in Handlers, NEW r \in rows,
           \/ \E on \in BOOLEAN : BeginMarkRead(h, r, on) \/ ToggleStar(h, r, on)
           \/ \E type \in FolderTypes : Refile(h, r, type)
           \/ BeginDelete(h, r)
    PROVE  SchemaInv'
<1> USE DEF remoteVars, storeVars, queueVars, observers, counters
<1>1. rows \subseteq Rows /\ r \in Rows /\ r.flags \subseteq Flags /\ folders \in [FolderTypes -> Nat]
  BY DEF TypeInv, TypeOK, Rows
<1>2. sync' = sync /\ connected' = connected /\ folders' = folders
  BY DEF BeginMarkRead, ToggleStar, Refile, BeginDelete
<1>3. FoldersStay
  BY <1>1, <1>2 DEF FoldersStay
<1>4. ASSUME NEW flags \in SUBSET Flags, rows' = Replaced(r, [r EXCEPT !.flags = flags])
      PROVE  RowsFit
  <2> DEFINE s == [r EXCEPT !.flags = flags]
  <2>1. s \in Rows /\ s.message = r.message /\ s.folder = r.folder
    BY <1>1 DEF Rows
  <2>2. rows' = Replaced(r, s)
    BY <1>4
  <2> HIDE DEF s
  <2> QED BY <2>1, <2>2 DEF RowsFit
\* A folder that is there, where no other row of the message is.
<1>5. ASSUME NEW type \in FolderTypes, NEW n \in 1..folders[type],
             r.folder = <<type, n>> \/ ~Taken(r.message, <<type, n>>),
             rows' = Replaced(r, [r EXCEPT !.folder = <<type, n>>])
      PROVE  RowsFit
  <2> DEFINE s == [r EXCEPT !.folder = <<type, n>>]
  <2>1. s \in Rows /\ s.message = r.message /\ s.folder = <<type, n>>
    BY <1>1 DEF Rows, FolderRows
  <2>2. rows' = Replaced(r, s)
    BY <1>5
  <2> HIDE DEF s
  <2>3. Exists(s.folder)'
    BY <1>1, <1>2, <2>1 DEF Exists
  <2>4. s.folder = r.folder \/ ~Taken(r.message, s.folder)
    BY <1>5, <2>1
  <2> QED BY <2>1, <2>2, <2>3, <2>4 DEF RowsFit
<1>6. ASSUME rows' = rows \ {r} PROVE RowsFit
  BY <1>6 DEF RowsFit
<1>7. ASSUME NEW on \in BOOLEAN, BeginMarkRead(h, r, on) \/ ToggleStar(h, r, on)
      PROVE  RowsFit
  BY <1>1, <1>4, <1>7 DEF BeginMarkRead, ToggleStar, SetFlag
<1>8. ASSUME NEW type \in FolderTypes, Refile(h, r, type) PROVE RowsFit
  BY <1>5, <1>6, <1>8 DEF Refile
<1>9. ASSUME BeginDelete(h, r) PROVE RowsFit
  <2>1. "TRASH" \in FolderTypes
    BY DEF FolderTypes
  <2> QED BY <1>5, <1>6, <1>9, <2>1 DEF BeginDelete
<1> QED BY <1>2, <1>3, <1>7, <1>8, <1>9, SchemaUndisturbed

\* A folder that has just been created holds nothing.
LEMMA RequestStepsKeepSchema ==
    ASSUME TypeInv, SchemaInv, TypeInv', NEW h \in Handlers,
           \/ \E m \in 0..LastMessage, type \in FolderTypes : MissFolder(h, m, type)
           \/ MakeFolder(h) \/ MarkRemotely(h) \/ SearchRemotely(h) \/ TrashRemotely(h)
           \/ RemoteFails(h)
    PROVE  SchemaInv'
<1> USE DEF remoteVars, storeVars, queueVars, observers, counters
<1>1. /\ rows \subseteq Rows /\ folders \in [FolderTypes -> Nat]
      /\ request[h].type \in FolderTypes /\ folders[request[h].type] \in Nat
  BY DEF TypeInv, TypeOK, Requests
<1>2. CASE MakeFolder(h) /\ connected
  <2>1. PICK new : new = <<request[h].type, folders[request[h].type] + 1>>
    OBVIOUS
  <2>2. /\ folders' = [folders EXCEPT ![request[h].type] = folders[request[h].type] + 1]
        /\ \/ \E r \in rows : rows' = Replaced(r, [r EXCEPT !.folder = new])
           \/ rows' = rows
        /\ sync' = sync /\ connected' = connected
    BY <1>2, <2>1 DEF MakeFolder, RowsOf
  <2>3. /\ \A type \in FolderTypes : folders[type] <= folders'[type]
        /\ folders'[request[h].type] = folders[request[h].type] + 1
    BY <1>1, <2>2
  <2>4. new \in FolderRows /\ new[1] = request[h].type /\ new[2] = folders[request[h].type] + 1
    BY <1>1, <2>1 DEF FolderRows
  <2>5. Exists(new)' /\ ~Exists(new)
    BY <1>1, <2>3, <2>4 DEF Exists
  <2>6. \A m : ~Taken(m, new)
    BY <2>5 DEF SchemaInv, SchemaHolds, Taken, RowsOf
  <2>7. ASSUME NEW r \in rows, rows' = Replaced(r, [r EXCEPT !.folder = new]) PROVE RowsFit
    <3> DEFINE s == [r EXCEPT !.folder = new]
    <3>1. s \in Rows /\ s.message = r.message /\ s.folder = new
      BY <1>1, <2>4 DEF Rows
    <3>2. rows' = Replaced(r, s)
      BY <2>7
    <3> HIDE DEF s
    <3>3. Exists(s.folder)'
      BY <2>5, <3>1 DEF Exists
    <3> QED BY <2>6, <3>1, <3>2, <3>3 DEF RowsFit
  <2>8. RowsFit
    <3>1. ASSUME rows' = rows PROVE RowsFit
      BY <3>1 DEF RowsFit
    <3> QED BY <2>2, <2>7, <3>1
  <2> QED BY <2>2, <2>3, <2>8, SchemaUndisturbed DEF FoldersStay
<1>3. CASE ~(MakeFolder(h) /\ connected)
  <2>1. sync' = sync /\ connected' = connected /\ folders' = folders /\ rows' = rows
    BY <1>3 DEF MakeFolder, MissFolder, MarkRemotely, SearchRemotely, TrashRemotely, RemoteFails
  <2>2. FoldersStay /\ RowsFit
    BY <1>1, <2>1 DEF FoldersStay, RowsFit
  <2> QED BY <2>1, <2>2, SchemaUndisturbed
<1> QED BY <1>2, <1>3

LEMMA SchemaInit == Init => SchemaInv
<1> SUFFICES ASSUME Init PROVE SchemaInv
  OBVIOUS
<1>1. NoFolders \in [FolderTypes -> Nat]
  BY Initials
<1>2. folders \in [FolderTypes -> Nat]
  BY <1>1 DEF Init
<1>3. \A j \in SyncJobs : Knows(sync[j])
  BY <1>2, NothingKnown DEF Init
<1> QED BY <1>3 DEF Init, SchemaInv, SchemaHolds

LEMMA SchemaStep == TypeInv /\ SchemaInv /\ [Next]_vars => SchemaInv'
<1> SUFFICES ASSUME TypeInv, SchemaInv, [Next]_vars PROVE SchemaInv'
  OBVIOUS
<1> USE DEF remoteVars, storeVars, queueVars, observers, counters
<1>1. TypeInv' /\ folders \in [FolderTypes -> Nat]
  BY TypeStep DEF TypeInv, TypeOK
<1>2. CASE UNCHANGED vars \/ \E m \in Messages : Arrive(m) \/ MoveRemotely(m) \/ FlagRemotely(m)
  <2>1. sync' = sync /\ connected' = connected /\ folders' = folders /\ rows' = rows
    BY <1>2 DEF vars, Arrive, MoveRemotely, FlagRemotely
  <2>2. FoldersStay /\ RowsFit
    BY <1>1, <2>1 DEF FoldersStay, RowsFit
  <2> QED BY <1>1, <2>1, <2>2, SchemaUndisturbed
<1>3. CASE RemoveMailbox
  BY <1>3 DEF RemoveMailbox, SchemaInv, SchemaHolds
<1>4. CASE Crash
  <2>1. /\ connected' = connected /\ folders' = folders /\ rows' = rows
        /\ \A j \in SyncJobs : sync'[j] = NoSync
    BY <1>4 DEF Crash
  <2>2. Knows(NoSync) /\ folders' = folders
    BY <1>1, <2>1, NothingKnown
  <2>3. \A j \in SyncJobs : Knows(sync[j])'
    BY <2>1, <2>2 DEF Knows, Exists
  <2> QED BY <2>1, <2>3 DEF SchemaInv, SchemaHolds, Exists
<1>5. CASE Next
  BY <1>1, <1>2, <1>3, <1>4, <1>5, NextCases, SyncStepsKeepSchema, MessageStepsKeepSchema,
     OwnerStepsKeepSchema, RequestStepsKeepSchema
<1> QED BY <1>2, <1>5

\* Whoever writes a row, from whatever it read before: a row is in a folder that exists,
\* and no folder has two rows of a message.  In particular the removal of the mailbox,
\* which takes the folders away under a running sync, leaves none behind.
THEOREM RowsRespectTheSchema == Spec => []SchemaHolds
<1>1. SchemaInv => SchemaHolds
  BY DEF SchemaInv
<1> QED BY <1>1, TypeInit, TypeStep, SchemaInit, SchemaStep, PTL DEF Spec
=============================================================================
