---------------------------- MODULE MailboxSync ----------------------------
(***************************************************************************)
(* The synchronisation of one mailbox: the jobs that list the newest       *)
(* messages of each of the provider's folders and store or update a row for*)
(* each, several of them at a time, while mail arrives and moves at the    *)
(* provider and the owner marks, moves and deletes what was stored.        *)
(*                                                                         *)
(* A sync looks for a row, or a folder, and then writes in a separate call *)
(* what it fetched before; a message that fails is skipped and left to a   *)
(* later sync.  How a stored row is analysed is EmailAnalysis.             *)
(***************************************************************************)
EXTENDS FiniteSets, Integers, Sequences, JobQueue

CONSTANTS
    Providers,     \* the providers the mailbox may be of
    LastMessage,   \* messages are numbered in the order in which they arrive
    Window,        \* how many messages of a folder a sync lists
    FolderOrder,   \* the folders a sync goes through, in its order
    Flags,         \* of "read" and "star", those that are followed
    SyncJobs,      \* the jobs that can be in the queue at the same time
    Handlers,      \* requests and analyses that use the mailbox at the same time
    MaxEvents,     \* bound on what they and the provider do to stored mail
    MaxFailures,   \* bound on the calls that fail
    MaxCrashes     \* bound on the crashes of a behaviour

Messages == 1..LastMessage
Types == {FolderOrder[k] : k \in DOMAIN FolderOrder}

ASSUME SyncAssumption ==
    /\ Providers \subseteq {"GMAIL", "OUTLOOK", "CUSTOM"}
    /\ LastMessage \in Nat \ {0} /\ Window \in Nat \ {0}
    /\ FolderOrder \in Seq({"INBOX", "SENT", "SPAM"}) /\ FolderOrder # <<>>
    /\ \A k, l \in DOMAIN FolderOrder : FolderOrder[k] = FolderOrder[l] => k = l
    /\ Flags \subseteq {"read", "star"}
    /\ IsFiniteSet(SyncJobs) /\ IsFiniteSet(Handlers) /\ SyncJobs \cap Handlers = {}
    /\ MaxEvents \in Nat /\ MaxFailures \in Nat /\ MaxCrashes \in Nat

VARIABLES
    provider,     \* of the mailbox: chosen once
    connected,    \* the MailBox row exists
    place, seen,  \* where each message is at the provider, and its flags there
    folders,      \* how many Folder rows of each type the mailbox has
    rows,         \* the Email rows
    job, sync,    \* the jobs, and how far the processor is with each
    request,      \* how far each request or analysis is
    settled,      \* observer: deleted messages that no sync in progress holds
    contested,    \* observer: messages two syncs found missing at the same time
    events, failures, crashes

remoteVars == <<provider, place, seen>>
storeVars  == <<connected, folders, rows>>
queueVars  == <<job, sync>>
observers  == <<settled, contested>>
counters   == <<events, failures, crashes>>
vars == <<remoteVars, storeVars, queueVars, request, observers, counters>>

-----------------------------------------------------------------------------
\* FILED stands for the folders that only the analysis and the owner file into.
\* Folder rows of a type are numbered: findFirst may answer any of them.
FolderTypes == Types \cup {"TRASH", "FILED"}
FolderRows == FolderTypes \X (Nat \ {0})
NoFolder == <<"none", 0>>
Rows == [message : Messages, folder : FolderRows, flags : SUBSET Flags]

RowsOf(m) == {r \in rows : r.message = m}
Stored(m) == RowsOf(m) # {}
Replaced(r, s) == (rows \ {r}) \cup {s}

\* @@unique([mailBoxId, folderId, messageId]).
Taken(m, folder) == \E r \in RowsOf(m) : r.folder = folder

\* Mutant: a folder lists what has left it, too.
AnyMail(type) == {m \in Messages : place[m] # "future"}

\* One of the provider's folders, and the newest messages of it.
Within(type) == {m \in Messages : place[m] = type}
Newest(type) == {m \in Within(type) : Cardinality({n \in Within(type) : n > m}) < Window}
InWindow(m) == place[m] \in Types /\ m \in Newest(place[m])

\* Mutant: only what is newer than the newest row is listed.
ListedNewer(type) == {m \in Newest(type) : \A r \in rows : m > r.message}

\* What the provider answers when asked for the window.
Listed(type) == Newest(type)

SyncPcs == {"idle", "folder", "newFolder", "list", "items"}
Stages == {"none", "fetch", "find", "create", "update"}
Syncs == [pc     : SyncPcs,
          at     : DOMAIN FolderOrder,         \* the folder it is at
          known  : [FolderTypes -> Nat],       \* the folder rows it has loaded
          folder : FolderRows \cup {NoFolder}, \* the row it stores messages under
          stage  : [Messages -> Stages],       \* how far each listed message is
          copy   : [Messages -> SUBSET Flags]] \* the flags it has fetched

NoFolders == [type \in FolderTypes |-> 0]
NoSync == [pc |-> "idle", at |-> 1, known |-> NoFolders, folder |-> NoFolder,
           stage |-> [m \in Messages |-> "none"], copy |-> [m \in Messages |-> {}]]

Type(j) == FolderOrder[sync[j].at]
Holds(j, m) == sync[j].stage[m] # "none"
Become(j, s) == sync' = [sync EXCEPT ![j] = s]
Goto(j, pc) == Become(j, [sync[j] EXCEPT !.pc = pc])
Advance(j, m, stage) == Become(j, [sync[j] EXCEPT !.stage[m] = stage])
Drop(j, m) == Become(j, [sync[j] EXCEPT !.stage[m] = "none", !.copy[m] = {}])

\* A request without a message opens a folder, one with a message moves it there.
Requests == [pc      : {"idle", "newFolder", "read", "trash", "search", "relock"},
             message : 0..LastMessage, type : FolderTypes, read : BOOLEAN]
NoRequest == [pc |-> "idle", message |-> 0, type |-> "FILED", read |-> FALSE]

\* One more call fails; one more thing happens that no sync does.
Failure == failures < MaxFailures /\ failures' = failures + 1
Event == events < MaxEvents /\ events' = events + 1

Init ==
    /\ provider \in Providers
    /\ connected = TRUE
    /\ place = [m \in Messages |-> "future"] /\ seen = [m \in Messages |-> {}]
    /\ folders = NoFolders /\ rows = {}
    /\ job = [j \in SyncJobs |-> NoJob] /\ sync = [j \in SyncJobs |-> NoSync]
    /\ request = [h \in Handlers |-> NoRequest]
    /\ settled = {} /\ contested = {}
    /\ events = 0 /\ failures = 0 /\ crashes = 0

-----------------------------------------------------------------------------
(* EmailSyncService: every five minutes, on request and on connecting.     *)

\* Every job has an id of its own, so a finished one makes room for another.
Schedule(j) ==
    /\ connected /\ job[j].st = "none" /\ sync[j].pc = "idle"
    /\ job' = [job EXCEPT ![j] = NewJob("sync")]
    /\ UNCHANGED <<remoteVars, storeVars, sync, request, observers, counters>>

\* What is kept of a finished job is its id, which is not used again.
Forget(finished) == IF Live(finished) THEN finished ELSE NoJob

-----------------------------------------------------------------------------
(* EmailSyncProcessor.process and the loop over the folders.               *)

\* The mailbox, its credentials and, except for Gmail, its folders.
Take(j) ==
    /\ job[j].st = "waiting" /\ sync[j].pc = "idle" /\ connected
    /\ job' = [job EXCEPT ![j].st = "active"]
    /\ Become(j, [NoSync EXCEPT !.pc = "folder",
                                !.known = IF provider = "GMAIL" THEN NoFolders ELSE folders])
    /\ UNCHANGED <<remoteVars, storeVars, request, observers, counters>>

TakeMissing(j) ==
    /\ job[j].st = "waiting" /\ sync[j].pc = "idle" /\ ~connected
    /\ job' = [job EXCEPT ![j] = Forget(CompleteJob(@))]
    /\ UNCHANGED <<remoteVars, storeVars, sync, request, observers, counters>>

\* Mutant: nobody looks at what is stored by now.
FoldersFoundStale(j) == sync[j].known[Type(j)]

\* Gmail asks the database again, the others look among the rows they loaded.
FoldersFound(j) == IF provider = "GMAIL" THEN folders[Type(j)] ELSE sync[j].known[Type(j)]

\* The newest messages are to be fetched, and stored under the folder row.  IMAP
\* lists their flags with them.
Listing(j, folder) ==
    Become(j, [sync[j] EXCEPT !.pc = "items", !.folder = folder,
        !.stage = [m \in Messages |-> IF m \in Listed(Type(j)) THEN "fetch" ELSE "none"],
        !.copy = [m \in Messages |-> IF provider = "CUSTOM" /\ m \in Listed(Type(j))
                                     THEN seen[m] ELSE {}]])

\* A folder row that is found stays, so that finding and listing are one step.
FindFolder(j) ==
    /\ sync[j].pc = "folder"
    /\ \/ FoldersFound(j) = 0 /\ Goto(j, "newFolder")
       \/ \E n \in 1..FoldersFound(j) : Listing(j, <<Type(j), n>>)
    /\ UNCHANGED <<remoteVars, storeVars, job, request, observers, counters>>

CreateFolder(j) ==
    /\ sync[j].pc = "newFolder" /\ connected
    /\ folders' = [folders EXCEPT ![Type(j)] = @ + 1]
    /\ Become(j, [sync[j] EXCEPT !.pc = "list", !.folder = <<Type(j), folders[Type(j)] + 1>>])
    /\ UNCHANGED <<remoteVars, connected, rows, job, request, observers, counters>>

List(j) ==
    /\ sync[j].pc = "list"
    /\ Listing(j, sync[j].folder)
    /\ UNCHANGED <<remoteVars, storeVars, job, request, observers, counters>>

\* Outlook skips a folder that it cannot create.
SkipFolder(j) ==
    /\ sync[j].pc = "newFolder" /\ provider = "OUTLOOK"
    /\ IF connected THEN Failure ELSE UNCHANGED failures
    /\ Goto(j, "items")
    /\ UNCHANGED <<remoteVars, storeVars, job, request, observers, events, crashes>>

\* Every message of the folder is dealt with.
FolderDone(j) == sync[j].pc = "items" /\ \A m \in Messages : ~Holds(j, m)
LastFolder(j) == sync[j].at = Len(FolderOrder)

\* Mutant: the loop does not advance.
NextFolderAgain(j) ==
    /\ FolderDone(j) /\ ~LastFolder(j)
    /\ Become(j, [NoSync EXCEPT !.pc = "folder", !.known = sync[j].known])
    /\ UNCHANGED <<remoteVars, storeVars, job, request, observers, counters>>

NextFolder(j) ==
    /\ FolderDone(j) /\ ~LastFolder(j)
    /\ Become(j, [NoSync EXCEPT !.pc = "folder", !.known = sync[j].known, !.at = sync[j].at + 1])
    /\ UNCHANGED <<remoteVars, storeVars, job, request, observers, counters>>

\* The log entry, lastSyncedAt and the storage check.
Finish(j) ==
    /\ FolderDone(j) /\ LastFolder(j) /\ connected
    /\ Become(j, NoSync)
    /\ job' = [job EXCEPT ![j] = Forget(CompleteJob(@))]
    /\ UNCHANGED <<remoteVars, storeVars, request, observers, counters>>

\* Whatever throws outside of a single message rejects the attempt; without its
\* mailbox no folder, log entry or time of sync can be written.
AttemptFails(j) ==
    /\ \/ sync[j].pc \in {"folder", "list"} /\ Failure
       \/ /\ \/ sync[j].pc = "newFolder" /\ provider # "OUTLOOK"
             \/ FolderDone(j) /\ LastFolder(j)
          /\ IF connected THEN Failure ELSE UNCHANGED failures
    /\ Become(j, NoSync)
    /\ job' = [job EXCEPT ![j] = Forget(FailJob(@))]
    /\ UNCHANGED <<remoteVars, storeVars, request, observers, events, crashes>>

-----------------------------------------------------------------------------
(* One listed message: getMessage and upsertAndEnqueue.  The messages of a *)
(* batch interleave.                                                       *)

Fetch(j, m) ==
    /\ sync[j].stage[m] = "fetch"
    /\ Become(j, [sync[j] EXCEPT !.stage[m] = "find",
                   !.copy[m] = IF provider = "CUSTOM" THEN @ ELSE seen[m]])
    /\ UNCHANGED <<remoteVars, storeVars, job, request, observers, counters>>

\* Two syncs are about to create a row of the same message.
Contest(j, m) == ~Stored(m) /\ \E i \in SyncJobs \ {j} : sync[i].stage[m] = "create"

\* Mutant: the message is looked for in its folder only.
FindInFolder(j, m) ==
    /\ sync[j].stage[m] = "find"
    /\ Advance(j, m, IF Taken(m, sync[j].folder) THEN "update" ELSE "create")
    /\ contested' = IF Contest(j, m) THEN contested \cup {m} ELSE contested
    /\ UNCHANGED <<remoteVars, storeVars, job, request, settled, counters>>

Find(j, m) ==
    /\ sync[j].stage[m] = "find"
    /\ Advance(j, m, IF Stored(m) THEN "update" ELSE "create")
    /\ contested' = IF Contest(j, m) THEN contested \cup {m} ELSE contested
    /\ UNCHANGED <<remoteVars, storeVars, job, request, settled, counters>>

\* Mutant: a known message is left as it is.
UpdateNothing(j, m) ==
    /\ sync[j].stage[m] = "update"
    /\ Drop(j, m)
    /\ UNCHANGED <<remoteVars, storeVars, job, request, observers, counters>>

\* The row it found may be gone by now, which is an error of this message only.
\* A row stored anew in between is taken for the one it found.
Update(j, m) ==
    /\ sync[j].stage[m] = "update"
    /\ \/ \E r \in RowsOf(m) : rows' = Replaced(r, [r EXCEPT !.flags = sync[j].copy[m]])
       \/ ~Stored(m) /\ UNCHANGED rows
    /\ Drop(j, m)
    /\ UNCHANGED <<remoteVars, connected, folders, job, request, observers, counters>>

\* The index may refuse the row, and so does a missing mailbox.
Create(j, m) ==
    /\ sync[j].stage[m] = "create"
    /\ rows' = IF connected /\ ~Taken(m, sync[j].folder)
               THEN rows \cup {[message |-> m, folder |-> sync[j].folder, flags |-> sync[j].copy[m]]}
               ELSE rows
    /\ Drop(j, m)
    /\ UNCHANGED <<remoteVars, connected, folders, job, request, observers, counters>>

\* A message that throws is logged and skipped.
SkipMessage(j, m) ==
    /\ Holds(j, m) /\ Failure
    /\ Drop(j, m)
    /\ UNCHANGED <<remoteVars, storeVars, job, request, observers, events, crashes>>

-----------------------------------------------------------------------------
(* The provider: mail arrives, is moved and is read elsewhere.             *)

Arrive(m) ==
    /\ place[m] = "future" /\ \A n \in 1..(m - 1) : place[n] # "future"
    /\ \E type \in Types : place' = [place EXCEPT ![m] = type]
    /\ UNCHANGED <<provider, seen, storeVars, queueVars, request, observers, counters>>

\* Outlook gives a moved message another id: it leaves, and another one arrives.
MoveRemotely(m) ==
    /\ place[m] \in Types /\ Event
    /\ IF provider = "OUTLOOK" THEN place' = [place EXCEPT ![m] = "gone"]
       ELSE \E type \in Types \ {place[m]} : place' = [place EXCEPT ![m] = type]
    /\ UNCHANGED <<provider, seen, storeVars, queueVars, request, observers, failures, crashes>>

FlagRemotely(m) ==
    /\ place[m] \in Types /\ Event
    /\ \E f \in Flags : seen' = [seen EXCEPT ![m] = IF f \in @ THEN @ \ {f} ELSE @ \cup {f}]
    /\ UNCHANGED <<provider, place, storeVars, queueVars, request, observers, failures, crashes>>

-----------------------------------------------------------------------------
(* The owner, in EmailsService, with the calls to the provider that follow *)
(* in MailboxesService; and the analysis, which files by its verdict.      *)

Begin(h) ==
    /\ connected /\ request[h].pc = "idle"
    /\ Event

Ask(h, pc, m, type, read) ==
    request' = [request EXCEPT ![h] = [pc |-> pc, message |-> m, type |-> type, read |-> read]]
Answer(h) == request' = [request EXCEPT ![h] = NoRequest]

SetFlag(flags, f, on) == IF on THEN flags \cup {f} ELSE flags \ {f}

BeginMarkRead(h, r, read) ==
    /\ Begin(h) /\ "read" \in Flags
    /\ rows' = Replaced(r, [r EXCEPT !.flags = SetFlag(@, "read", read)])
    /\ Ask(h, IF provider = "CUSTOM" THEN "search" ELSE "read", r.message, "FILED", read)
    /\ UNCHANGED <<remoteVars, connected, folders, queueVars, observers, failures, crashes>>

\* Gmail and Outlook change the message in one call, unless the mailbox is gone.
MarkRemotely(h) ==
    /\ request[h].pc = "read"
    /\ \/ seen' = [seen EXCEPT ![request[h].message] = SetFlag(@, "read", request[h].read)]
       \/ ~connected /\ UNCHANGED seen
    /\ Answer(h)
    /\ UNCHANGED <<provider, place, storeVars, queueVars, observers, counters>>

\* IMAP locks the folder of its connection to look for the message.  Having
\* found it, it asks for that lock again: nothing but a failure ends the wait.
SearchRemotely(h) ==
    /\ request[h].pc = "search"
    /\ request' = [request EXCEPT ![h].pc = "relock"] \/ Answer(h)
    /\ UNCHANGED <<remoteVars, storeVars, queueVars, observers, counters>>

\* toggleStar tells the provider nothing.
ToggleStar(h, r, starred) ==
    /\ Begin(h) /\ "star" \in Flags
    /\ rows' = Replaced(r, [r EXCEPT !.flags = SetFlag(@, "star", starred)])
    /\ UNCHANGED <<remoteVars, connected, folders, queueVars, request, observers,
                   failures, crashes>>

\* getOrCreateFolder finds none: to list a folder, or to move a row there.
MissFolder(h, m, type) ==
    /\ Begin(h) /\ folders[type] = 0
    /\ m = 0 \/ Stored(m)
    /\ Ask(h, "newFolder", m, type, FALSE)
    /\ UNCHANGED <<remoteVars, storeVars, queueVars, observers, failures, crashes>>

MakeFolder(h) ==
    /\ request[h].pc = "newFolder"
    /\ LET m == request[h].message
           new == <<request[h].type, folders[request[h].type] + 1>>
       IN IF connected
          THEN /\ folders' = [folders EXCEPT ![request[h].type] = @ + 1]
               /\ \/ \E r \in RowsOf(m) : rows' = Replaced(r, [r EXCEPT !.folder = new])
                  \/ ~Stored(m) /\ UNCHANGED rows
          ELSE UNCHANGED <<folders, rows>>
    /\ Answer(h)
    /\ UNCHANGED <<remoteVars, connected, queueVars, observers, counters>>

\* reclassify, report or the analysis moves a row to a folder that is found.  One
\* that is there already stops the owner, and makes the analysis remove the row.
Refile(h, r, type) ==
    /\ Begin(h)
    /\ \E n \in 1..folders[type] :
         \/ ~Taken(r.message, <<type, n>>) /\ rows' = Replaced(r, [r EXCEPT !.folder = <<type, n>>])
         \/ /\ Taken(r.message, <<type, n>>) /\ r.folder # <<type, n>>
            /\ type \in {"SPAM", "FILED"} /\ rows' = rows \ {r}
    /\ UNCHANGED <<remoteVars, connected, folders, queueVars, request, observers,
                   failures, crashes>>

\* delete: to a TRASH folder if there is one, for good if there is none.
BeginDelete(h, r) ==
    /\ Begin(h)
    /\ \/ folders["TRASH"] = 0 /\ rows' = rows \ {r}
       \/ \E n \in 1..folders["TRASH"] :
            /\ r.folder = <<"TRASH", n>> \/ ~Taken(r.message, <<"TRASH", n>>)
            /\ rows' = Replaced(r, [r EXCEPT !.folder = <<"TRASH", n>>])
    /\ Ask(h, "trash", r.message, "FILED", FALSE)
    /\ UNCHANGED <<remoteVars, connected, folders, queueVars, observers, failures, crashes>>

\* IMAP only flags the message, which stays in its folder until it is expunged.
TrashRemotely(h) ==
    /\ request[h].pc = "trash"
    /\ LET m == request[h].message IN
       \/ /\ place' = IF provider = "CUSTOM" THEN place ELSE [place EXCEPT ![m] = "gone"]
          /\ settled' = IF ~Stored(m) /\ \A j \in SyncJobs : ~Holds(j, m)
                        THEN settled \cup {m} ELSE settled
       \/ ~connected /\ UNCHANGED <<place, settled>>
    /\ Answer(h)
    /\ UNCHANGED <<provider, seen, storeVars, queueVars, contested, counters>>

\* A failing call to the provider is logged; the owner is answered as usual.
RemoteFails(h) ==
    /\ request[h].pc # "idle" /\ Failure
    /\ Answer(h)
    /\ UNCHANGED <<remoteVars, storeVars, queueVars, observers, events, crashes>>

-----------------------------------------------------------------------------
(* The rest of the program.                                                *)

\* MailboxesService.remove: folders and rows go with the mailbox, the jobs stay.
RemoveMailbox ==
    /\ connected /\ Event
    /\ connected' = FALSE
    /\ folders' = NoFolders /\ rows' = {}
    /\ UNCHANGED <<remoteVars, queueVars, request, observers, failures, crashes>>

Promote(j) ==
    /\ job[j].st = "delayed"
    /\ job' = [job EXCEPT ![j].st = "waiting"]
    /\ UNCHANGED <<remoteVars, storeVars, sync, request, observers, counters>>

Stall(j) ==
    /\ job[j].st = "active" /\ sync[j].pc = "idle"
    /\ job' = [job EXCEPT ![j] = Forget(StallJob(@))]
    /\ UNCHANGED <<remoteVars, storeVars, sync, request, observers, counters>>

\* The server dies.
Crash ==
    /\ crashes < MaxCrashes
    /\ crashes' = crashes + 1
    /\ sync' = [j \in SyncJobs |-> NoSync]
    /\ request' = [h \in Handlers |-> NoRequest]
    /\ UNCHANGED <<remoteVars, storeVars, job, observers, events, failures>>

Process(j) ==
    \/ FindFolder(j) \/ CreateFolder(j) \/ SkipFolder(j) \/ List(j) \/ NextFolder(j)
    \/ Finish(j) \/ AttemptFails(j)
    \/ \E m \in Messages : \/ Fetch(j, m) \/ Find(j, m) \/ Update(j, m) \/ Create(j, m)
                            \/ SkipMessage(j, m)

Respond(h) == MarkRemotely(h) \/ SearchRemotely(h) \/ TrashRemotely(h) \/ MakeFolder(h)

Serve(h) ==
    \/ \E r \in rows : \/ \E on \in BOOLEAN : BeginMarkRead(h, r, on) \/ ToggleStar(h, r, on)
                       \/ \E type \in FolderTypes : Refile(h, r, type)
                       \/ BeginDelete(h, r)
    \/ \E m \in 0..LastMessage, type \in FolderTypes : MissFolder(h, m, type)

Next ==
    \/ \E j \in SyncJobs : \/ Schedule(j) \/ Take(j) \/ TakeMissing(j) \/ Process(j)
                           \/ Promote(j) \/ Stall(j)
    \/ \E m \in Messages : Arrive(m) \/ MoveRemotely(m) \/ FlagRemotely(m)
    \/ \E h \in Handlers : Serve(h) \/ Respond(h) \/ RemoteFails(h)
    \/ RemoveMailbox \/ Crash

\* The cron timer, the workers, the queue's timers and the requests make
\* progress; nothing is assumed of mail, of the owner, of failures or of crashes.
Fairness ==
    /\ WF_vars(\E j \in SyncJobs : Schedule(j))
    /\ \A j \in SyncJobs : /\ WF_vars(Process(j)) /\ WF_vars(Take(j) \/ TakeMissing(j))
                           /\ WF_vars(Promote(j)) /\ WF_vars(Stall(j))
    /\ \A h \in Handlers : WF_vars(Respond(h))

Spec == Init /\ [][Next]_vars /\ Fairness

-----------------------------------------------------------------------------
\* Every variable has its type.
TypeOK ==
    /\ provider \in Providers /\ connected \in BOOLEAN
    /\ place \in [Messages -> Types \cup {"future", "gone"}]
    /\ seen \in [Messages -> SUBSET Flags]
    /\ folders \in [FolderTypes -> Nat]
    /\ rows \subseteq Rows
    /\ job \in [SyncJobs -> Jobs]
    /\ sync \in [SyncJobs -> Syncs]
    /\ request \in [Handlers -> Requests]
    /\ settled \subseteq Messages /\ contested \subseteq Messages
    /\ events \in Nat /\ failures \in Nat /\ crashes \in Nat

\* Whoever finds no folder of a type creates one, but there are never more than run
\* at the same time: those that look later find one.
FoldersBounded ==
    \A type \in FolderTypes : folders[type] <= Cardinality(SyncJobs) + Cardinality(Handlers)

\* However often a message is listed, moved, filed and failed, it has one row,
\* unless two syncs looked for it before either had stored it.
OneRowPerMessage == \A m \in Messages \ contested : \A r, s \in RowsOf(m) : r = s

\* A message the owner deleted, here and at the provider, does not come back.
\* Exempt are a sync that had listed it before, and IMAP, where it stays listed.
DeletedStaysDeleted ==
    provider # "CUSTOM" => \A m \in settled : ~Stored(m)

\* Whatever call failed or was lost: a message that stays among the newest of its
\* folder gets its row, as every sync lists it again.
ListedIsStored ==
    \A m \in Messages : <>[](connected /\ InWindow(m)) => []<>Stored(m)

\* Once the owner is done, a row has the flags that its message keeps at the
\* provider: a sync that writes older ones, or the owner's mark that never reached
\* the provider, is made good by a later sync.
FlagsConverge ==
    \A m \in Messages, f \in SUBSET Flags :
        <>[](connected /\ InWindow(m) /\ seen[m] = f)
        => <>[](m \in contested \/ \A r \in RowsOf(m) : r.flags = f)

\* Every sync comes to an end, whatever fails and however the mailbox goes.
SyncsEnd == \A j \in SyncJobs : Live(job[j]) ~> ~Live(job[j])
=============================================================================
