---------------------------- MODULE Intelligence ----------------------------
(***************************************************************************)
(* The intelligence cache, for one link, address or domain: a verdict is   *)
(* kept in Redis for the time its kind deserves and in the process' memory *)
(* for a few minutes.  Lookups of several analyses, the answers of the URL *)
(* service and an operator's invalidation use the two without a lock.      *)
(***************************************************************************)
EXTENDS FiniteSets, Integers

CONSTANTS
    Callers,     \* lookups and reports that can be in progress at the same time
    KnownTTL,    \* life in Redis of a malicious verdict
    UnknownTTL,  \* life in Redis of any other
    MemoryTTL,   \* life of both in memory
    MaxTime,     \* bound on the clock
    MaxLookups,  \* bound on the lookups of a behaviour
    MaxFailures  \* bound on the failing calls and the restarts

ASSUME IntelligenceAssumption ==
    /\ {KnownTTL, UnknownTTL, MemoryTTL} \subseteq Nat \ {0}
    /\ MemoryTTL <= UnknownTTL /\ UnknownTTL <= KnownTTL
    /\ {MaxTime, MaxLookups, MaxFailures} \subseteq Nat

VARIABLES
    clock,
    shared,      \* whether a Redis client is configured
    sameKey,     \* whether invalidate spells the key as the lookups do
    listed,      \* whether the feeds list the link
    redis, memory,
    call,
    reports,     \* questions to the URL service that are not answered yet
    deleting,    \* whether an invalidation is on its way to Redis
    lookups, failures,
    listedSince, \* observer: when the feeds listed it, if they do
    invalidated, \* observer: when an invalidation last met an entry in memory
    kept         \* observer: until when a report has to be remembered

setting == <<shared, sameKey>>
observers == <<listedSince, invalidated, kept>>
bounds == <<lookups, failures>>
vars == <<clock, setting, listed, redis, memory, call, reports, deleting, bounds, observers>>

-----------------------------------------------------------------------------
Verdicts == {"malicious", "unknown"}  \* "clean" and "suspicious" live like "unknown"
Sources == {"feeds", "grpc"}

\* age tells whether an invalidation was asked for after the verdict was found: before
\* the entry was stored (late), or after (invalidated, and spared once its deletion has
\* failed).
Entries == [verdict : Verdicts, stored : Nat, expires : Nat,
            age : {"fresh", "late", "invalidated", "spared"}]
Absent == [verdict |-> "unknown", stored |-> 0, expires |-> 0, age |-> "fresh"]

Calls == [pc : {"idle", "memory", "ask", "redis", "keep"}, verdict : Verdicts,
          source : Sources, late : BOOLEAN]
NoCall == [pc |-> "idle", verdict |-> "unknown", source |-> "feeds", late |-> FALSE]

InRedis == clock < redis.expires
InMemory == 0 < memory.expires /\ clock <= memory.expires

\* Mutant: the two lives are swapped.
TTLSwapped(verdict) == IF verdict = "malicious" THEN UnknownTTL ELSE KnownTTL

TTL(verdict) == IF verdict = "malicious" THEN KnownTTL ELSE UnknownTTL

Entry(h, ttl) ==
    [verdict |-> call[h].verdict, stored |-> clock, expires |-> clock + ttl,
     age |-> IF call[h].late THEN "late" ELSE "fresh"]

Goto(h, pc) == call' = [call EXCEPT ![h].pc = pc]
Return(h) == call' = [call EXCEPT ![h] = NoCall]

\* A failing call may undo what a report was promised.
Failing ==
    /\ failures < MaxFailures
    /\ failures' = failures + 1
    /\ kept' = 0
Succeeding == UNCHANGED <<failures, kept>>

Init ==
    /\ clock = 0 /\ shared \in BOOLEAN /\ sameKey \in BOOLEAN /\ listed = FALSE
    /\ redis = Absent /\ memory = Absent
    /\ call = [h \in Callers |-> NoCall]
    /\ reports = 0 /\ deleting = FALSE /\ lookups = 0 /\ failures = 0
    /\ listedSince = 0 /\ invalidated = 0 /\ kept = 0

-----------------------------------------------------------------------------
\* An analysis asks the URL service without waiting for it, then Redis; a lookup of
\* the test controller asks only the latter.  A failing get counts as a miss.
LookUp(h) ==
    /\ call[h].pc = "idle" /\ lookups < MaxLookups
    /\ lookups' = lookups + 1
    /\ reports' \in {reports, reports + 1}
    /\ \/ shared /\ InRedis /\ Succeeding /\ UNCHANGED call
       \/ ~(shared /\ InRedis) /\ Succeeding /\ Goto(h, "memory")
       \/ shared /\ InRedis /\ Failing /\ Goto(h, "memory")
    /\ UNCHANGED <<clock, setting, listed, redis, memory, deleting, listedSince,
                   invalidated>>

\* An expired entry is dropped on the way.
ReadMemory(h) ==
    /\ call[h].pc = "memory"
    /\ IF InMemory THEN Return(h) /\ UNCHANGED memory
                   ELSE Goto(h, "ask") /\ memory' = Absent
    /\ UNCHANGED <<clock, setting, listed, redis, reports, deleting, bounds, observers>>

StoreAt == IF shared THEN "redis" ELSE "keep"
Found(h, verdict, source) ==
    call' = [call EXCEPT ![h] = [pc |-> StoreAt, verdict |-> verdict, source |-> source,
                                 late |-> FALSE]]

\* Feeds that do not answer leave the verdict unknown.
AskFeeds(h) ==
    /\ call[h].pc = "ask"
    /\ \/ Found(h, IF listed THEN "malicious" ELSE "unknown", "feeds") /\ Succeeding
       \/ listed /\ Found(h, "unknown", "feeds") /\ Failing
    /\ UNCHANGED <<clock, setting, listed, redis, memory, reports, deleting, lookups,
                   listedSince, invalidated>>

\* The answer of the URL service: setUrlResult, whatever the caches hold by now.
Report(h) ==
    /\ call[h].pc = "idle" /\ reports > 0
    /\ reports' = reports - 1
    /\ \E verdict \in Verdicts : Found(h, verdict, "grpc")
    /\ UNCHANGED <<clock, setting, listed, redis, memory, deleting, bounds, observers>>

\* A report of a threat is to be remembered unless another request was in progress
\* when it was stored; another report replaces it.
Promise(h, life) ==
    kept' = IF /\ call[h].source = "grpc" /\ call[h].verdict = "malicious"
               /\ \A g \in Callers \ {h} : call[g].pc = "idle"
            THEN clock + life
            ELSE IF call[h].source = "grpc" THEN 0 ELSE kept

StoreShared(h) ==
    /\ call[h].pc = "redis"
    /\ \/ redis' = Entry(h, TTL(call[h].verdict)) /\ Promise(h, KnownTTL)
          /\ UNCHANGED failures
       \/ UNCHANGED redis /\ Failing
    /\ Goto(h, "keep")
    /\ UNCHANGED <<clock, setting, listed, memory, reports, deleting, lookups, listedSince,
                   invalidated>>

StoreMemory(h) ==
    /\ call[h].pc = "keep"
    /\ memory' = Entry(h, IF TTL(call[h].verdict) < MemoryTTL THEN TTL(call[h].verdict)
                          ELSE MemoryTTL)
    /\ IF shared THEN UNCHANGED kept ELSE Promise(h, MemoryTTL)
    /\ Return(h)
    /\ UNCHANGED <<clock, setting, listed, redis, reports, deleting, bounds, listedSince,
                   invalidated>>

Outdated(e) == IF e = Absent THEN e ELSE [e EXCEPT !.age = "invalidated"]
Spared(e) == IF e.age = "invalidated" THEN [e EXCEPT !.age = "spared"] ELSE e

\* The operator asks for it: what was found until now is out of date, in both caches and
\* in the requests that are still to store it.  Without Redis nothing else happens.
Invalidate ==
    /\ ~deleting
    /\ redis' = Outdated(redis) /\ memory' = Outdated(memory)
    /\ call' = [h \in Callers |-> [call[h] EXCEPT !.late = call[h].pc \in {"redis", "keep"}]]
    /\ invalidated' = IF memory = Absent THEN 0 ELSE clock
    /\ deleting' = shared
    /\ UNCHANGED <<clock, setting, listed, reports, bounds, listedSince, kept>>

\* Mutant: the key is not the one that the lookups compute.
DeleteOther ==
    /\ deleting /\ deleting' = FALSE
    /\ UNCHANGED <<clock, setting, listed, redis, memory, call, reports, bounds, observers>>

\* Only Redis is told, and it may fail; the operator is answered "success" all the same.
\* The key misses the entry of an IPv6 address with capitals, which lookupIp keeps.
Delete ==
    /\ deleting /\ deleting' = FALSE
    /\ \/ sameKey /\ redis' = Absent /\ kept' = 0 /\ UNCHANGED failures
       \/ sameKey /\ redis' = Spared(redis) /\ Failing
       \/ ~sameKey /\ UNCHANGED redis /\ Succeeding
    /\ UNCHANGED <<clock, setting, listed, memory, call, reports, lookups, listedSince,
                   invalidated>>

\* A deletion that was on its way is forgotten with the rest.
Restart ==
    /\ failures < MaxFailures
    /\ failures' = failures + 1
    /\ memory' = Absent
    /\ call' = [h \in Callers |-> NoCall]
    /\ reports' = 0
    /\ deleting' = FALSE /\ redis' = Spared(redis)
    /\ kept' = IF shared THEN kept ELSE 0
    /\ UNCHANGED <<clock, setting, listed, lookups, listedSince, invalidated>>

\* The feeds come to list the link, or no longer do.
Publish ==
    /\ listed' = ~listed
    /\ listedSince' = IF listed THEN 0 ELSE clock
    /\ UNCHANGED <<clock, setting, redis, memory, call, reports, deleting, bounds,
                   invalidated, kept>>

Tick ==
    /\ clock < MaxTime
    /\ clock' = clock + 1
    /\ UNCHANGED <<setting, listed, redis, memory, call, reports, deleting, bounds,
                   observers>>

Step(h) ==
    \/ LookUp(h) \/ ReadMemory(h) \/ AskFeeds(h) \/ Report(h)
    \/ StoreShared(h) \/ StoreMemory(h)

Next == (\E h \in Callers : Step(h)) \/ Invalidate \/ Delete \/ Restart \/ Publish \/ Tick

Spec == Init /\ [][Next]_vars
-----------------------------------------------------------------------------
TypeOK ==
    /\ clock \in Nat /\ {shared, sameKey, listed} \subseteq BOOLEAN /\ deleting \in BOOLEAN
    /\ {redis, memory} \subseteq Entries
    /\ call \in [Callers -> Calls]
    /\ reports \in Nat /\ lookups \in Nat /\ failures \in Nat
    /\ listedSince \in 0..clock /\ invalidated \in 0..clock /\ kept \in Nat
    /\ redis.stored <= clock /\ memory.stored <= clock
    /\ memory.expires <= memory.stored + MemoryTTL
    /\ ~shared => redis = Absent /\ ~deleting

\* invalidate reaches Redis only: once it is through, no lookup finds there what was
\* stored before it, unless the deletion failed, missed the key or died with the process,
\* and nothing brings it back (memory never fills Redis); memory still answers it, at most
\* for the few minutes it keeps an entry.  A request that had found its verdict already
\* stores it all the same.
InvalidationHolds ==
    /\ sameKey /\ InRedis /\ redis.age = "invalidated" => deleting
    /\ InMemory /\ memory.age = "invalidated" => clock <= invalidated + MemoryTTL

\* "gRPC - fire and forget, enriches cache for next lookups" (url-analysis.service.ts):
\* a reported threat is what the next lookups are told for as long as a malicious
\* verdict lives, across restarts, unless it came while another request was on its way
\* (that analysis' own lookup may overwrite it with what the feeds say).
ReportsRemembered ==
    clock < kept => IF shared THEN InRedis /\ redis.verdict = "malicious"
                    ELSE InMemory /\ memory.verdict = "malicious"

\* A link that the feeds list is told to be unknown on the word of an earlier lookup
\* no longer than an unknown verdict lives, in whichever of the two caches.
ListingTakesEffect ==
    \A e \in {redis, memory} :
        /\ listed /\ e.verdict = "unknown" /\ e.stored < listedSince
        /\ IF e = redis THEN InRedis ELSE InMemory
        => clock <= listedSince + UnknownTTL - 1
=============================================================================
