------------------------- MODULE Intelligence_proofs -------------------------
(***************************************************************************)
(* Theorems about Intelligence, for every number of callers, every three   *)
(* lives in the order the code has them, and every number of failures.     *)
(***************************************************************************)
EXTENDS Intelligence, TLAPS

-----------------------------------------------------------------------------
(* The inductive invariant.                                                *)

\* Entries live no longer than their verdict deserves.
Lives == redis.expires <= redis.stored + TTL(redis.verdict)

\* What a request in progress may hold.
CallsMatch ==
    \A h \in Callers :
        /\ call[h].pc \in {"idle", "memory", "ask"} => call[h].source = "feeds"
        /\ ~shared => call[h].pc # "redis"

Outdating ==
    /\ sameKey /\ redis.age = "invalidated" => deleting
    /\ memory.age = "invalidated" => memory.expires <= invalidated + MemoryTTL

\* While a report is to be remembered nobody is about to overwrite it with the word of
\* the feeds.
Answerable(e) == e.verdict = "malicious" /\ kept <= e.expires
Undisturbed(h) ==
    \/ call[h].pc = "idle" \/ call[h].source = "grpc"
    \/ ~shared /\ call[h].pc = "memory"

Remembered ==
    clock < kept => /\ \A h \in Callers : Undisturbed(h)
                    /\ shared => Answerable(redis)
                    /\ ~shared => Answerable(memory)

IInv == TypeOK /\ Lives /\ CallsMatch /\ Outdating /\ Remembered

-----------------------------------------------------------------------------
(* Values.                                                                 *)

LEMMA Constants ==
    /\ KnownTTL \in Nat \ {0} /\ UnknownTTL \in Nat \ {0} /\ MemoryTTL \in Nat \ {0}
    /\ MemoryTTL <= UnknownTTL /\ UnknownTTL <= KnownTTL /\ MemoryTTL <= KnownTTL
BY IntelligenceAssumption

LEMMA TTLType ==
    ASSUME NEW v
    PROVE  TTL(v) \in Nat \ {0} /\ MemoryTTL <= TTL(v)
BY Constants DEF TTL

LEMMA AbsentType ==
    /\ Absent \in Entries /\ Absent.stored = 0 /\ Absent.expires = 0
    /\ Absent.age = "fresh" /\ Absent.verdict = "unknown"
BY DEF Absent, Entries, Verdicts

LEMMA NoCallType ==
    NoCall \in Calls /\ NoCall.pc = "idle" /\ NoCall.source = "feeds"
BY DEF NoCall, Calls, Verdicts, Sources

LEMMA EntryType ==
    ASSUME TypeOK, NEW h \in Callers, NEW ttl \in Nat
    PROVE  /\ Entry(h, ttl) \in Entries
           /\ Entry(h, ttl).verdict = call[h].verdict
           /\ Entry(h, ttl).stored = clock /\ Entry(h, ttl).expires = clock + ttl
           /\ Entry(h, ttl).age # "invalidated"
BY DEF TypeOK, Entry, Entries, Calls

LEMMA GotoEffect ==
    ASSUME TypeOK, NEW h \in Callers, NEW pc \in {"memory", "ask", "keep"}, Goto(h, pc)
    PROVE  /\ call' \in [Callers -> Calls]
           /\ call'[h].pc = pc /\ call'[h].source = call[h].source
           /\ \A g \in Callers \ {h} : call'[g] = call[g]
BY DEF TypeOK, Goto, Calls

LEMMA ReturnEffect ==
    ASSUME TypeOK, NEW h \in Callers, Return(h)
    PROVE  /\ call' \in [Callers -> Calls]
           /\ call'[h].pc = "idle" /\ call'[h].source = "feeds"
           /\ \A g \in Callers \ {h} : call'[g] = call[g]
BY NoCallType DEF TypeOK, Return

LEMMA FoundEffect ==
    ASSUME TypeOK, NEW h \in Callers, NEW v \in Verdicts, NEW s \in Sources, Found(h, v, s)
    PROVE  /\ call' \in [Callers -> Calls]
           /\ call'[h].pc \in {"redis", "keep"} /\ (~shared => call'[h].pc = "keep")
           /\ call'[h].source = s
           /\ \A g \in Callers \ {h} : call'[g] = call[g]
<1>1. StoreAt \in {"redis", "keep"} /\ (~shared => StoreAt = "keep")
  BY DEF StoreAt
<1>2. [pc |-> StoreAt, verdict |-> v, source |-> s, late |-> FALSE] \in Calls
  BY <1>1 DEF Calls
<1> QED BY <1>1, <1>2 DEF TypeOK, Found

LEMMA FailureEffect ==
    ASSUME TypeOK
    PROVE  /\ Failing => failures' \in Nat /\ kept' = 0
           /\ Succeeding => failures' \in Nat /\ kept' = kept
BY DEF TypeOK, Failing, Succeeding

\* A forgotten promise asks for nothing.
LEMMA Forgotten == ASSUME clock' \in Nat, kept' = 0 PROVE Remembered'
BY DEF Remembered

-----------------------------------------------------------------------------
(* The steps.                                                              *)

LEMMA InitIInv == Init => IInv
<1> SUFFICES ASSUME Init PROVE IInv
  OBVIOUS
<1>1. TypeOK
  <2>1. clock = 0 /\ {shared, sameKey, listed} \subseteq BOOLEAN /\ deleting \in BOOLEAN
    BY DEF Init
  <2>2. redis = Absent /\ memory = Absent /\ {redis, memory} \subseteq Entries
    BY AbsentType DEF Init
  <2>3. call \in [Callers -> Calls]
    BY NoCallType DEF Init
  <2>4. /\ redis.stored <= clock /\ memory.stored <= clock
        /\ memory.expires <= memory.stored + MemoryTTL
    BY <2>1, <2>2, AbsentType, Constants
  <2> QED BY <2>1, <2>2, <2>3, <2>4 DEF Init, TypeOK
<1>2. Lives /\ Outdating
  BY AbsentType, TTLType DEF Init, Lives, Outdating
<1>3. CallsMatch /\ Remembered
  BY NoCallType DEF Init, CallsMatch, Remembered
<1> QED BY <1>1, <1>2, <1>3 DEF IInv

\* A step that leaves both caches, and the calls of a promised report, as they are.
LEMMA CachesKept ==
    ASSUME IInv, UNCHANGED <<sameKey, redis, memory, deleting, invalidated>>
    PROVE  Lives' /\ Outdating'
BY DEF IInv, Lives, Outdating, TTL

LEMMA RememberedKept ==
    ASSUME IInv, clock' = clock, UNCHANGED <<shared, kept>>,
           clock < kept => \A g \in Callers : Undisturbed(g)',
           clock < kept => (shared => redis' = redis) /\ (~shared => memory' = memory)
    PROVE  Remembered'
BY DEF IInv, Remembered, Answerable

LEMMA LookUpStep == ASSUME IInv, NEW h \in Callers, LookUp(h) PROVE IInv'
<1> USE DEF IInv
<1>0. /\ UNCHANGED <<clock, shared, sameKey, listed, redis, memory, deleting, listedSince,
                   invalidated>>
      /\ call[h].pc = "idle" /\ lookups' \in Nat /\ reports' \in Nat
  BY DEF LookUp, TypeOK, setting
<1>1. CASE shared /\ InRedis /\ Succeeding /\ UNCHANGED call
  <2>1. TypeOK'
    BY <1>0, <1>1, FailureEffect DEF TypeOK
  <2>2. CallsMatch'
    BY <1>0, <1>1 DEF CallsMatch
  <2>3. Remembered'
    BY <1>0, <1>1 DEF Succeeding, Remembered, Undisturbed, Answerable
  <2> QED BY <1>0, <2>1, <2>2, <2>3, CachesKept
<1>2. ASSUME Goto(h, "memory"),
             Failing \/ (Succeeding /\ ~(shared /\ InRedis))
      PROVE  IInv'
  <2>1. /\ call' \in [Callers -> Calls]
        /\ call'[h].pc = "memory" /\ call'[h].source = call[h].source
        /\ \A g \in Callers \ {h} : call'[g] = call[g]
    BY <1>2, GotoEffect
  <2>2. TypeOK'
    BY <1>0, <1>2, <2>1, FailureEffect DEF TypeOK
  <2>3. CallsMatch'
    BY <1>0, <2>1 DEF CallsMatch
  <2>4. Remembered'
    <3>1. CASE Failing
      BY <1>0, <3>1, FailureEffect, Forgotten DEF TypeOK
    <3>2. CASE Succeeding /\ ~(shared /\ InRedis)
      <4>1. kept' = kept
        BY <3>2 DEF Succeeding
      <4>2. clock < kept => ~shared
        BY <3>2, AbsentType DEF Remembered, Answerable, InRedis, TypeOK, Entries
      <4>3. clock < kept => \A g \in Callers : Undisturbed(g)'
        BY <1>0, <2>1, <4>2 DEF Remembered, Undisturbed
      <4> QED BY <1>0, <4>1, <4>3, RememberedKept
    <3> QED BY <1>2, <3>1, <3>2
  <2> QED BY <1>0, <2>2, <2>3, <2>4, CachesKept
<1> QED BY <1>1, <1>2 DEF LookUp

LEMMA ReadMemoryStep == ASSUME IInv, NEW h \in Callers, ReadMemory(h) PROVE IInv'
<1> USE DEF IInv
<1>0. /\ UNCHANGED <<clock, shared, sameKey, listed, redis, reports, deleting, lookups,
                     failures, listedSince, invalidated, kept>>
      /\ call[h].pc = "memory"
  BY DEF ReadMemory, setting, bounds, observers
<1>1. CASE InMemory /\ Return(h) /\ UNCHANGED memory
  <2>1. /\ call' \in [Callers -> Calls]
        /\ call'[h].pc = "idle" /\ call'[h].source = "feeds"
        /\ \A g \in Callers \ {h} : call'[g] = call[g]
    BY <1>1, ReturnEffect
  <2>2. TypeOK'
    BY <1>0, <1>1, <2>1 DEF TypeOK
  <2>3. CallsMatch'
    BY <1>0, <2>1 DEF CallsMatch
  <2>4. clock < kept => \A g \in Callers : Undisturbed(g)'
    BY <1>0, <2>1 DEF Remembered, Undisturbed
  <2> QED BY <1>0, <1>1, <2>2, <2>3, <2>4, CachesKept, RememberedKept
<1>2. CASE ~InMemory /\ Goto(h, "ask") /\ memory' = Absent
  <2>1. /\ call' \in [Callers -> Calls]
        /\ call'[h].pc = "ask" /\ call'[h].source = call[h].source
        /\ \A g \in Callers \ {h} : call'[g] = call[g]
    BY <1>2, GotoEffect
  <2>2. TypeOK'
    BY <1>0, <1>2, <2>1, AbsentType, Constants DEF TypeOK
  <2>3. CallsMatch'
    BY <1>0, <2>1 DEF CallsMatch
  <2>4. Lives' /\ Outdating'
    BY <1>0, <1>2, AbsentType DEF Lives, Outdating, TTL
  <2>5. ~(clock < kept)
    <3> SUFFICES ASSUME clock < kept PROVE FALSE
      OBVIOUS
    <3>1. Undisturbed(h) /\ call[h].source = "feeds"
      BY <1>0 DEF Remembered, CallsMatch
    <3>2. ~shared /\ Answerable(memory)
      BY <1>0, <3>1 DEF Undisturbed, Remembered
    <3> QED BY <1>2, <3>2 DEF Answerable, InMemory, TypeOK, Entries
  <2> QED BY <1>0, <2>2, <2>3, <2>4, <2>5 DEF Remembered
<1> QED BY <1>1, <1>2 DEF ReadMemory

LEMMA AskFeedsStep == ASSUME IInv, NEW h \in Callers, AskFeeds(h) PROVE IInv'
<1> USE DEF IInv
<1>0. /\ UNCHANGED <<clock, shared, sameKey, listed, redis, memory, reports, deleting, lookups,
                     listedSince, invalidated>>
      /\ call[h].pc = "ask"
  BY DEF AskFeeds, setting
<1>1. PICK v \in Verdicts : Found(h, v, "feeds") /\ (Succeeding \/ Failing)
  BY DEF AskFeeds, Verdicts
<1>2. /\ call' \in [Callers -> Calls]
      /\ call'[h].pc \in {"redis", "keep"} /\ (~shared => call'[h].pc = "keep")
      /\ \A g \in Callers \ {h} : call'[g] = call[g]
  BY <1>1, FoundEffect DEF Sources
<1>3. TypeOK'
  BY <1>0, <1>1, <1>2, FailureEffect DEF TypeOK
<1>4. CallsMatch'
  BY <1>0, <1>2 DEF CallsMatch
<1>5. ~(clock < kept)
  BY <1>0 DEF Remembered, Undisturbed, CallsMatch
<1>6. Remembered'
  BY <1>0, <1>1, <1>5, FailureEffect DEF Remembered, TypeOK
<1> QED BY <1>0, <1>3, <1>4, <1>6, CachesKept

LEMMA ReportStep == ASSUME IInv, NEW h \in Callers, Report(h) PROVE IInv'
<1> USE DEF IInv
<1>0. /\ UNCHANGED <<clock, shared, sameKey, listed, redis, memory, deleting, lookups,
                     failures, listedSince, invalidated, kept>>
      /\ reports' \in Nat
  BY DEF Report, setting, bounds, observers, TypeOK
<1>1. PICK v \in Verdicts : Found(h, v, "grpc")
  BY DEF Report
<1>2. /\ call' \in [Callers -> Calls]
      /\ call'[h].pc \in {"redis", "keep"} /\ (~shared => call'[h].pc = "keep")
      /\ call'[h].source = "grpc"
      /\ \A g \in Callers \ {h} : call'[g] = call[g]
  BY <1>1, FoundEffect DEF Sources
<1>3. TypeOK'
  BY <1>0, <1>2 DEF TypeOK
<1>4. CallsMatch'
  BY <1>0, <1>2 DEF CallsMatch
<1>5. clock < kept => \A g \in Callers : Undisturbed(g)'
  BY <1>0, <1>2 DEF Remembered, Undisturbed
<1> QED BY <1>0, <1>3, <1>4, <1>5, CachesKept, RememberedKept

\* What storing a verdict of h promises, when h has left the cache that counts.
LEMMA PromiseEffect ==
    ASSUME IInv, NEW h \in Callers, NEW life \in Nat, Promise(h, life)
    PROVE  /\ kept' \in Nat
           /\ \/ kept' = 0
              \/ /\ kept' = clock + life /\ call[h].verdict = "malicious"
                 /\ call[h].source = "grpc"
                 /\ \A g \in Callers \ {h} : call[g].pc = "idle"
              \/ kept' = kept /\ call[h].source # "grpc"
BY DEF IInv, TypeOK, Promise

LEMMA StoreSharedStep == ASSUME IInv, NEW h \in Callers, StoreShared(h) PROVE IInv'
<1> USE DEF IInv
<1>0. /\ UNCHANGED <<clock, shared, sameKey, listed, memory, reports, deleting, lookups,
                     listedSince, invalidated>>
      /\ call[h].pc = "redis" /\ shared
  BY DEF StoreShared, CallsMatch, setting
<1>1. /\ call' \in [Callers -> Calls]
      /\ call'[h].pc = "keep" /\ call'[h].source = call[h].source
      /\ \A g \in Callers \ {h} : call'[g] = call[g]
  BY GotoEffect DEF StoreShared
<1>2. CallsMatch'
  BY <1>0, <1>1 DEF CallsMatch
<1>3. CASE UNCHANGED redis /\ Failing
  <2>1. TypeOK'
    BY <1>0, <1>1, <1>3, FailureEffect DEF TypeOK
  <2>2. Remembered'
    BY <1>0, <1>3, FailureEffect, Forgotten DEF TypeOK
  <2> QED BY <1>0, <1>2, <1>3, <2>1, <2>2, CachesKept
<1>4. CASE /\ redis' = Entry(h, TTL(call[h].verdict)) /\ Promise(h, KnownTTL)
           /\ UNCHANGED failures
  <2>1. /\ redis' \in Entries /\ redis'.verdict = call[h].verdict
        /\ redis'.stored = clock /\ redis'.expires = clock + TTL(call[h].verdict)
        /\ redis'.age # "invalidated"
    BY <1>4, EntryType, TTLType
  <2>2. kept' \in Nat
    BY <1>4, PromiseEffect, Constants
  <2>3. TypeOK'
    BY <1>0, <1>1, <1>4, <2>1, <2>2 DEF TypeOK
  <2>4. Lives' /\ Outdating'
    <3>1. TTL(redis.verdict)' = TTL(call[h].verdict)
      BY <2>1 DEF TTL
    <3> QED BY <1>0, <2>1, <3>1, TTLType DEF Lives, Outdating, TypeOK
  <2>5. Remembered'
    <3>1. CASE kept' = 0
      BY <1>0, <3>1, Forgotten DEF TypeOK
    <3>2. CASE /\ kept' = clock + KnownTTL /\ call[h].verdict = "malicious"
               /\ call[h].source = "grpc"
               /\ \A g \in Callers \ {h} : call[g].pc = "idle"
      <4>1. Answerable(redis)'
        BY <2>1, <3>2, Constants DEF Answerable, TTL, TypeOK
      <4>2. \A g \in Callers : Undisturbed(g)'
        BY <1>1, <3>2 DEF Undisturbed
      <4> QED BY <1>0, <4>1, <4>2 DEF Remembered
    <3>3. CASE kept' = kept /\ call[h].source # "grpc"
      <4>1. ~(clock < kept)
        BY <1>0, <3>3 DEF Remembered, Undisturbed
      <4> QED BY <1>0, <3>3, <4>1 DEF Remembered
    <3> QED BY <1>4, <3>1, <3>2, <3>3, PromiseEffect, Constants
  <2> QED BY <1>2, <2>3, <2>4, <2>5
<1> QED BY <1>3, <1>4 DEF StoreShared

LEMMA StoreMemoryStep == ASSUME IInv, NEW h \in Callers, StoreMemory(h) PROVE IInv'
<1> USE DEF IInv
<1>0. /\ UNCHANGED <<clock, shared, sameKey, listed, redis, reports, deleting, lookups,
                     failures, listedSince, invalidated>>
      /\ call[h].pc = "keep"
  BY DEF StoreMemory, setting, bounds
<1>1. /\ call' \in [Callers -> Calls]
      /\ call'[h].pc = "idle" /\ call'[h].source = "feeds"
      /\ \A g \in Callers \ {h} : call'[g] = call[g]
  BY ReturnEffect DEF StoreMemory
<1>2. memory' = Entry(h, MemoryTTL)
  BY TTLType, Constants DEF StoreMemory
<1>3. /\ memory' \in Entries /\ memory'.verdict = call[h].verdict
      /\ memory'.stored = clock /\ memory'.expires = clock + MemoryTTL
      /\ memory'.age # "invalidated"
  BY <1>2, EntryType, Constants
<1>4. IF shared THEN kept' = kept ELSE Promise(h, MemoryTTL)
  BY DEF StoreMemory
<1>5. kept' \in Nat
  BY <1>4, PromiseEffect, Constants DEF TypeOK
<1>6. TypeOK'
  BY <1>0, <1>1, <1>3, <1>5, Constants DEF TypeOK
<1>7. CallsMatch'
  BY <1>0, <1>1 DEF CallsMatch
<1>8. Lives' /\ Outdating'
  BY <1>0, <1>3 DEF Lives, Outdating, TTL
<1>9. Remembered'
  <2>1. CASE kept' = 0
    BY <1>0, <2>1, Forgotten DEF TypeOK
  <2>2. CASE /\ ~shared
             /\ kept' = clock + MemoryTTL /\ call[h].verdict = "malicious"
             /\ \A g \in Callers \ {h} : call[g].pc = "idle"
    <3>1. Answerable(memory)'
      BY <1>3, <2>2, Constants DEF Answerable, TypeOK
    <3>2. \A g \in Callers : Undisturbed(g)'
      BY <1>1, <2>2 DEF Undisturbed
    <3> QED BY <1>0, <2>2, <3>1, <3>2 DEF Remembered
  <2>3. CASE ~shared /\ kept' = kept /\ call[h].source # "grpc"
    <3>1. ~(clock < kept)
      BY <1>0, <2>3 DEF Remembered, Undisturbed
    <3> QED BY <1>0, <2>3, <3>1 DEF Remembered
  <2>4. CASE shared /\ kept' = kept
    <3>1. clock < kept => \A g \in Callers : Undisturbed(g)'
      BY <1>0, <1>1, <2>4 DEF Remembered, Undisturbed
    <3> QED BY <1>0, <2>4, <3>1, RememberedKept
  <2> QED BY <1>4, <2>1, <2>2, <2>3, <2>4, PromiseEffect, Constants
<1> QED BY <1>6, <1>7, <1>8, <1>9

LEMMA OutdatedType ==
    ASSUME NEW e \in Entries
    PROVE  /\ Outdated(e) \in Entries /\ Outdated(e).verdict = e.verdict
           /\ Outdated(e).stored = e.stored /\ Outdated(e).expires = e.expires
           /\ e = Absent => Outdated(e) = Absent
BY DEF Outdated, Entries

LEMMA SparedType ==
    ASSUME NEW e \in Entries
    PROVE  /\ Spared(e) \in Entries /\ Spared(e).verdict = e.verdict
           /\ Spared(e).stored = e.stored /\ Spared(e).expires = e.expires
           /\ Spared(e).age # "invalidated" /\ (e = Absent => Spared(e) = Absent)
BY DEF Spared, Entries, Absent

LEMMA InvalidateStep == ASSUME IInv, Invalidate PROVE IInv'
<1> USE DEF IInv
<1>0. /\ UNCHANGED <<clock, shared, sameKey, listed, reports, lookups, failures, listedSince,
                     kept>>
      /\ redis' = Outdated(redis) /\ memory' = Outdated(memory) /\ deleting' = shared
      /\ call' = [h \in Callers |->
                    [call[h] EXCEPT !.late = call[h].pc \in {"redis", "keep"}]]
      /\ invalidated' = (IF memory = Absent THEN 0 ELSE clock)
  BY DEF Invalidate, setting, bounds
<1>1. /\ call' \in [Callers -> Calls]
      /\ \A h \in Callers : call'[h].pc = call[h].pc /\ call'[h].source = call[h].source
  <2>1. \A h \in Callers : call[h] \in Calls
    BY DEF TypeOK
  <2>2. ASSUME NEW c \in Calls, NEW b \in BOOLEAN
        PROVE  /\ [c EXCEPT !.late = b] \in Calls
               /\ [c EXCEPT !.late = b].pc = c.pc /\ [c EXCEPT !.late = b].source = c.source
    BY DEF Calls
  <2>3. \A h \in Callers : (call[h].pc \in {"redis", "keep"}) \in BOOLEAN
    OBVIOUS
  <2> QED BY <1>0, <2>1, <2>2, <2>3
<1>2. /\ redis' \in Entries /\ redis'.verdict = redis.verdict
      /\ redis'.stored = redis.stored /\ redis'.expires = redis.expires
      /\ redis = Absent => redis' = Absent
  BY <1>0, OutdatedType DEF TypeOK
<1>3. /\ memory' \in Entries /\ memory'.verdict = memory.verdict
      /\ memory'.stored = memory.stored /\ memory'.expires = memory.expires
      /\ memory = Absent => memory' = Absent
  BY <1>0, OutdatedType DEF TypeOK
<1>4. TypeOK'
  BY <1>0, <1>1, <1>2, <1>3 DEF TypeOK
<1>5. CallsMatch'
  BY <1>0, <1>1 DEF CallsMatch
<1>6. Lives'
  BY <1>2 DEF Lives, TTL
<1>7. Outdating'
  <2>1. memory # Absent => memory'.expires <= clock + MemoryTTL
    BY <1>3, Constants DEF TypeOK, Entries
  <2>2. redis'.age = "invalidated" => deleting'
    BY <1>0, <1>2, AbsentType DEF TypeOK
  <2> QED BY <1>0, <1>3, <2>1, <2>2, AbsentType DEF Outdating
<1>8. Remembered'
  BY <1>0, <1>1, <1>2, <1>3 DEF Remembered, Undisturbed, Answerable
<1> QED BY <1>4, <1>5, <1>6, <1>7, <1>8

\* The deletion takes the promise of a report with it.
LEMMA DeleteStep == ASSUME IInv, Delete PROVE IInv'
<1> USE DEF IInv
<1>0. /\ UNCHANGED <<clock, shared, sameKey, listed, memory, call, reports, lookups,
                     listedSince, invalidated>>
      /\ deleting' \in BOOLEAN /\ ~deleting'
  BY DEF Delete, setting
<1>1. CallsMatch'
  BY <1>0 DEF CallsMatch
<1>2. CASE sameKey /\ redis' = Absent /\ kept' = 0 /\ UNCHANGED failures
  <2>1. TypeOK'
    BY <1>0, <1>2, AbsentType DEF TypeOK
  <2>2. Lives'
    BY <1>2, AbsentType, TTLType DEF Lives
  <2>3. Outdating'
    BY <1>0, <1>2, AbsentType DEF Outdating
  <2>4. Remembered'
    BY <1>0, <1>2, Forgotten DEF TypeOK
  <2> QED BY <1>1, <2>1, <2>2, <2>3, <2>4
<1>3. CASE sameKey /\ redis' = Spared(redis) /\ Failing
  <2>1. /\ redis' \in Entries /\ redis'.verdict = redis.verdict
        /\ redis'.stored = redis.stored /\ redis'.expires = redis.expires
        /\ redis'.age # "invalidated" /\ (redis = Absent => redis' = Absent)
    BY <1>3, SparedType DEF TypeOK
  <2>2. TypeOK'
    BY <1>0, <1>3, <2>1, FailureEffect DEF TypeOK
  <2>3. Lives' /\ Outdating'
    BY <1>0, <2>1 DEF Lives, Outdating, TTL
  <2>4. Remembered'
    BY <1>0, <1>3, FailureEffect, Forgotten DEF TypeOK
  <2> QED BY <1>1, <2>2, <2>3, <2>4
<1>4. CASE ~sameKey /\ UNCHANGED redis /\ Succeeding
  <2>1. TypeOK'
    BY <1>0, <1>4, FailureEffect DEF TypeOK
  <2>2. Lives' /\ Outdating'
    BY <1>0, <1>4 DEF Lives, Outdating, TTL
  <2>3. Remembered'
    BY <1>0, <1>4 DEF Succeeding, Remembered, Undisturbed, Answerable
  <2> QED BY <1>1, <2>1, <2>2, <2>3
<1> QED BY <1>2, <1>3, <1>4 DEF Delete

LEMMA RestartStep == ASSUME IInv, Restart PROVE IInv'
<1> USE DEF IInv
<1>0. /\ UNCHANGED <<clock, shared, sameKey, listed, lookups, listedSince, invalidated>>
      /\ redis' = Spared(redis) /\ deleting' \in BOOLEAN /\ ~deleting'
      /\ memory' = Absent /\ call' = [h \in Callers |-> NoCall] /\ reports' = 0
      /\ failures' \in Nat /\ kept' = (IF shared THEN kept ELSE 0)
  <2>1. deleting' \in BOOLEAN /\ ~deleting'
    BY DEF Restart
  <2>2. failures' \in Nat
    BY DEF Restart, TypeOK
  <2> QED BY <2>1, <2>2 DEF Restart, setting
<1>1. /\ redis' \in Entries /\ redis'.verdict = redis.verdict
      /\ redis'.stored = redis.stored /\ redis'.expires = redis.expires
      /\ redis'.age # "invalidated" /\ (redis = Absent => redis' = Absent)
  BY <1>0, SparedType DEF TypeOK
<1>2. TypeOK'
  <2>1. call' \in [Callers -> Calls]
    BY <1>0, NoCallType
  <2> QED BY <1>0, <1>1, <2>1, AbsentType, Constants DEF TypeOK
<1>3. CallsMatch'
  BY <1>0, NoCallType DEF CallsMatch
<1>4. Lives' /\ Outdating'
  BY <1>0, <1>1, AbsentType DEF Lives, Outdating, TTL
<1>5. Remembered'
  <2>1. \A g \in Callers : Undisturbed(g)'
    BY <1>0, NoCallType DEF Undisturbed
  <2>2. CASE shared
    BY <1>0, <1>1, <2>1, <2>2 DEF Remembered, Answerable
  <2>3. CASE ~shared
    BY <1>0, <2>3, Forgotten DEF TypeOK
  <2> QED BY <2>2, <2>3
<1> QED BY <1>2, <1>3, <1>4, <1>5

LEMMA PublishStep == ASSUME IInv, Publish PROVE IInv'
<1> USE DEF IInv
<1>0. UNCHANGED <<clock, shared, sameKey, redis, memory, call, reports, deleting, lookups,
                  failures, invalidated, kept>>
  BY DEF Publish, setting, bounds
<1>1. TypeOK'
  BY <1>0 DEF Publish, TypeOK
<1>2. CallsMatch'
  BY <1>0 DEF CallsMatch
<1>3. clock < kept => \A g \in Callers : Undisturbed(g)'
  BY <1>0 DEF Remembered, Undisturbed
<1> QED BY <1>0, <1>1, <1>2, <1>3, CachesKept, RememberedKept

LEMMA TickStep == ASSUME IInv, Tick PROVE IInv'
<1> USE DEF IInv
<1>0. /\ UNCHANGED <<shared, sameKey, listed, redis, memory, call, reports, deleting, lookups,
                     failures, listedSince, invalidated, kept>>
      /\ clock' = clock + 1
  BY DEF Tick, setting, bounds, observers
<1>1. TypeOK'
  BY <1>0 DEF TypeOK, Entries
<1>2. CallsMatch'
  BY <1>0 DEF CallsMatch
<1>3. Remembered'
  BY <1>0 DEF Remembered, Undisturbed, Answerable, TypeOK
<1> QED BY <1>0, <1>1, <1>2, <1>3, CachesKept

LEMMA StutterStep == ASSUME IInv, UNCHANGED vars PROVE IInv'
<1> USE DEF IInv
<1>0. UNCHANGED <<clock, shared, sameKey, listed, redis, memory, call, reports, deleting,
                  lookups, failures, listedSince, invalidated, kept>>
  BY DEF vars, setting, bounds, observers
<1>1. TypeOK'
  BY <1>0 DEF TypeOK
<1>2. CallsMatch' /\ Remembered'
  BY <1>0 DEF CallsMatch, Remembered, Undisturbed, Answerable
<1> QED BY <1>0, <1>1, <1>2, CachesKept

LEMMA NextIInv == IInv /\ [Next]_vars => IInv'
BY LookUpStep, ReadMemoryStep, AskFeedsStep, ReportStep, StoreSharedStep, StoreMemoryStep,
   InvalidateStep, DeleteStep, RestartStep, PublishStep, TickStep, StutterStep DEF Next, Step

LEMMA Invariance == Spec => []IInv
BY InitIInv, NextIInv, PTL DEF Spec

-----------------------------------------------------------------------------
(* The theorems.                                                           *)

\* The caches, the requests in progress and the observers keep their types.
THEOREM TypeCorrect == Spec => []TypeOK
<1>1. IInv => TypeOK
  BY DEF IInv
<1> QED BY <1>1, Invariance, PTL

\* Once a deletion that did not fail is through, Redis holds nothing that was stored
\* before the invalidation and never will again; memory, which invalidate leaves alone,
\* answers it for the life of its entry at most.
THEOREM InvalidationTakesEffect == Spec => []InvalidationHolds
<1>1. IInv => InvalidationHolds
  BY Constants DEF IInv, Outdating, InvalidationHolds, InMemory, TypeOK, Entries
<1> QED BY <1>1, Invariance, PTL

\* Fire-and-forget reports do enrich the cache for the next lookups, unless another
\* request was on its way.
THEOREM ReportsEnrich == Spec => []ReportsRemembered
<1>1. IInv => ReportsRemembered
  <2> SUFFICES ASSUME IInv, clock < kept PROVE ReportsRemembered
    BY DEF ReportsRemembered
  <2>1. clock \in Nat /\ kept \in Nat /\ redis \in Entries /\ memory \in Entries
    BY DEF IInv, TypeOK
  <2> QED BY <2>1 DEF IInv, Remembered, Answerable, ReportsRemembered, InRedis, InMemory, Entries
<1> QED BY <1>1, Invariance, PTL

\* A listing is hidden by an earlier lookup no longer than an unknown verdict lives.
THEOREM ListingsReachLookups == Spec => []ListingTakesEffect
<1>1. IInv => ListingTakesEffect
  <2> SUFFICES ASSUME IInv, NEW e \in {redis, memory},
                      e.verdict = "unknown", e.stored < listedSince,
                      IF e = redis THEN InRedis ELSE InMemory
               PROVE  clock <= listedSince + UnknownTTL - 1
    BY DEF ListingTakesEffect
  <2>1. /\ clock \in Nat /\ listedSince \in Nat /\ e \in Entries
        /\ e.stored \in Nat /\ e.expires \in Nat
    BY DEF IInv, TypeOK, Entries
  <2>2. CASE e = redis
    BY <2>1, <2>2, Constants DEF IInv, Lives, TTL, InRedis
  <2>3. CASE e # redis
    BY <2>1, <2>3, Constants DEF IInv, TypeOK, InMemory
  <2> QED BY <2>2, <2>3
<1> QED BY <1>1, Invariance, PTL
=============================================================================
