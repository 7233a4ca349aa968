------------------------------ MODULE JobQueue ------------------------------
(***************************************************************************)
(* One BullMQ job, as the queues of this program use it.  BullMQ is a      *)
(* library outside the repository: what is stated here is what the callers *)
(* rely on -- the producers of analysis jobs pass their own jobId, the     *)
(* queues are registered with `attempts: 3` and an exponential backoff,    *)
(* finished jobs are retained (removeOnComplete / removeOnFail), a job     *)
(* whose worker died is stalled and handed out again.                      *)
(***************************************************************************)
EXTENDS Naturals

CONSTANTS
    MaxAttempts,  \* `attempts` of the queue's defaultJobOptions
    MaxStalled    \* BullMQ's maxStalledCount (the default, 1, is used)

ASSUME QueueAssumption ==
    /\ MaxAttempts \in Nat \ {0}
    /\ MaxStalled \in Nat

\* A job is live while a worker will still pick it up or is running it.
LiveStates == {"waiting", "active", "delayed"}

\* A finished job keeps its id in Redis until it is evicted.
FinishedStates == {"completed", "failed"}

\* Which producer added the job: the mailbox sync, a rescan or a send request.
Origins == {"sync", "scan", "send"}

Jobs == [st       : {"none"} \cup LiveStates \cup FinishedStates,
         attempts : 0..MaxAttempts,
         stalls   : 0..MaxStalled,
         origin   : Origins]

NoJob == [st |-> "none", attempts |-> 0, stalls |-> 0, origin |-> "sync"]

NewJob(origin) == [NoJob EXCEPT !.st = "waiting", !.origin = origin]

Live(job) == job.st \in LiveStates

\* Queue.add with a jobId that is known in any state, finished included, is
\* ignored and answers as if it had been added.
AddJob(job, origin) == IF job.st = "none" THEN NewJob(origin) ELSE job

\* Mutant: failures are not counted.
FailJobUncounted(job) == [job EXCEPT !.st = "delayed"]

\* The processor rejected: back off and try again until attempts run out.
FailJob(job) ==
    [job EXCEPT !.attempts = job.attempts + 1,
                !.st = IF job.attempts + 1 < MaxAttempts THEN "delayed" ELSE "failed"]

CompleteJob(job) == [job EXCEPT !.st = "completed"]

\* The stalled-job check: hand the job out again, or give it up.
StallJob(job) ==
    IF job.stalls < MaxStalled
    THEN [job EXCEPT !.st = "waiting", !.stalls = job.stalls + 1]
    ELSE [job EXCEPT !.st = "failed"]

\* Job.remove: refused while a worker holds the job's lock, and Job.discard
\* only marks the caller's own copy, so an active job stays where it is.
RemoveJob(job) == IF job.st = "active" THEN job ELSE NoJob

\* Finished jobs are evicted when later ones push them out; a failed job only
\* if its producer set removeOnFail, which the rescans do and the sync does not.
Evictable(job) ==
    \/ job.st = "completed"
    \/ job.st = "failed" /\ job.origin = "scan"
=============================================================================
