----------------------------- MODULE ProxyProofs ----------------------------
(***************************************************************************)
(* Proofs about the proxy's threads: the lookups they share, for any       *)
(* callers, names and caps, and the events they report, for any requests,  *)
(* weights, rings and flushes.                                             *)
(***************************************************************************)
EXTENDS MCProxy, Integers, TLAPS, FiniteSetTheorems, SequenceTheorems

-----------------------------------------------------------------------------
(* The lookups in flight.                                                  *)

(* The instance has copies of the library's operators.                     *)
LEMMA LookupSets ==
  ASSUME NEW S
  PROVE  /\ Lookup!Cardinality(S) = Cardinality(S)
         /\ Lookup!IsFiniteSet(S) <=> IsFiniteSet(S)
<1>1. Lookup!Cardinality(S) = Cardinality(S)
  BY DEF Lookup!Cardinality, Cardinality
<1>2. Lookup!IsFiniteSet(S) <=> IsFiniteSet(S)
  BY DEF Lookup!IsFiniteSet, IsFiniteSet
<1>. QED
  BY <1>1, <1>2

LEMMA LookupConstants ==
  /\ Cap \in Nat /\ Cap >= 1 /\ CacheCap \in Nat /\ CacheCap >= 1 /\ Ttl \in Nat
  /\ Lookup!NoOne \notin Callers /\ Lookup!NoOne \notin Hosts /\ Lookup!NoOne \notin Slots
  BY LookupAssumption DEF Lookup!BoundsAssumption, Lookup!NamesAssumption

LEMMA LookupStart == Lookup!Init => Lookup!Inv
<1>. SUFFICES ASSUME Lookup!Init PROVE Lookup!Inv
  OBVIOUS
<1>. USE LookupConstants
<1>1. DOMAIN table = {} /\ DOMAIN cache = {}
  BY DEF Lookup!Init
<1>2. Lookup!IsFiniteSet({}) /\ Lookup!Cardinality({}) = 0
  BY LookupSets, FS_EmptySet
<1>3. Lookup!CacheKept /\ Lookup!TableKept
  BY <1>1, <1>2 DEF Lookup!CacheKept, Lookup!TableKept
<1>4. Lookup!SlotsKept
  BY DEF Lookup!Init, Lookup!SlotsKept, Lookup!Threads, Lookup!Steps, Lookup!Answers
<1>5. /\ Lookup!CallersKnow /\ Lookup!MadeUnderLock
      /\ Lookup!RunningIsUnanswered /\ Lookup!InFlightIsRunning
  BY <1>1 DEF Lookup!Init, Lookup!CallersKnow, Lookup!MadeUnderLock,
              Lookup!RunningIsUnanswered, Lookup!InFlightIsRunning
<1>. QED
  BY <1>3, <1>4, <1>5 DEF Lookup!Inv, Lookup!TypeOK

LEMMA LookupAsk ==
  ASSUME NEW c \in Callers, NEW h \in Hosts
  PROVE  Lookup!Inv /\ Lookup!Ask(c, h) => Lookup!Inv'
<1>. SUFFICES ASSUME Lookup!Inv, Lookup!Ask(c, h) PROVE Lookup!Inv'
  OBVIOUS
<1>. USE LookupConstants
<1>0. /\ Lookup!SlotsKept /\ Lookup!CacheKept /\ Lookup!TableKept /\ Lookup!CallersKnow
      /\ Lookup!MadeUnderLock /\ Lookup!RunningIsUnanswered /\ Lookup!InFlightIsRunning
  BY DEF Lookup!Inv, Lookup!TypeOK
<1>1. /\ at[c] = "idle" /\ at' = [at EXCEPT ![c] = "asking"]
      /\ wants' = [wants EXCEPT ![c] = h]
      /\ UNCHANGED <<table, tableLock, thread, names, result, answer, joined, cache>>
  BY DEF Lookup!Ask, Lookup!Goes, Lookup!lookupVars
<1>2. Lookup!TableKept'
  BY <1>0, <1>1 DEF Lookup!TableKept
<1>3. Lookup!CacheKept'
  BY <1>0, <1>1 DEF Lookup!CacheKept
<1>4. Lookup!SlotsKept'
  BY <1>0, <1>1 DEF Lookup!SlotsKept, Lookup!Threads, Lookup!Steps, Lookup!Answers
<1>5. Lookup!CallersKnow'
  BY <1>0, <1>1 DEF Lookup!CallersKnow, Lookup!SlotsKept, Lookup!Steps
<1>6. Lookup!MadeUnderLock'
  BY <1>0, <1>1 DEF Lookup!MadeUnderLock, Lookup!CallersKnow, Lookup!SlotsKept, Lookup!Steps
<1>7. Lookup!RunningIsUnanswered'
  BY <1>0, <1>1 DEF Lookup!RunningIsUnanswered, Lookup!SlotsKept
<1>8. Lookup!InFlightIsRunning'
  BY <1>0, <1>1 DEF Lookup!InFlightIsRunning, Lookup!TableKept, Lookup!SlotsKept
<1>. QED
  BY <1>2, <1>3, <1>4, <1>5, <1>6, <1>7, <1>8 DEF Lookup!Inv, Lookup!TypeOK

LEMMA LookupLock ==
  ASSUME NEW c \in Callers
  PROVE  Lookup!Inv /\ Lookup!Lock(c) => Lookup!Inv'
<1>. SUFFICES ASSUME Lookup!Inv, Lookup!Lock(c) PROVE Lookup!Inv'
  OBVIOUS
<1>. USE LookupConstants
<1>0. /\ Lookup!SlotsKept /\ Lookup!CacheKept /\ Lookup!TableKept /\ Lookup!CallersKnow
      /\ Lookup!MadeUnderLock /\ Lookup!RunningIsUnanswered /\ Lookup!InFlightIsRunning
  BY DEF Lookup!Inv, Lookup!TypeOK
<1>1. /\ at[c] = "asking" /\ at' = [at EXCEPT ![c] = "locked"]
      /\ tableLock = Lookup!NoOne /\ tableLock' = c
      /\ UNCHANGED <<table, thread, names, result, answer, wants, joined, cache>>
  BY DEF Lookup!Lock, Lookup!Goes
<1>2. Lookup!TableKept'
  BY <1>0, <1>1 DEF Lookup!TableKept
<1>3. Lookup!CacheKept'
  BY <1>0, <1>1 DEF Lookup!CacheKept
<1>4. Lookup!SlotsKept'
  BY <1>0, <1>1 DEF Lookup!SlotsKept, Lookup!Threads, Lookup!Steps, Lookup!Answers
<1>5. Lookup!CallersKnow'
  BY <1>0, <1>1 DEF Lookup!CallersKnow, Lookup!SlotsKept, Lookup!Steps
<1>6. Lookup!MadeUnderLock'
  BY <1>0, <1>1 DEF Lookup!MadeUnderLock, Lookup!CallersKnow, Lookup!SlotsKept, Lookup!Steps
<1>7. Lookup!RunningIsUnanswered'
  BY <1>0, <1>1 DEF Lookup!RunningIsUnanswered, Lookup!SlotsKept
<1>8. Lookup!InFlightIsRunning'
  BY <1>0, <1>1 DEF Lookup!InFlightIsRunning, Lookup!TableKept, Lookup!SlotsKept
<1>. QED
  BY <1>2, <1>3, <1>4, <1>5, <1>6, <1>7, <1>8 DEF Lookup!Inv, Lookup!TypeOK

LEMMA LookupJoin ==
  ASSUME NEW c \in Callers
  PROVE  Lookup!Inv /\ Lookup!Join(c) => Lookup!Inv'
<1>. SUFFICES ASSUME Lookup!Inv, Lookup!Join(c) PROVE Lookup!Inv'
  OBVIOUS
<1>. USE LookupConstants
<1>0. /\ Lookup!SlotsKept /\ Lookup!CacheKept /\ Lookup!TableKept /\ Lookup!CallersKnow
      /\ Lookup!MadeUnderLock /\ Lookup!RunningIsUnanswered /\ Lookup!InFlightIsRunning
  BY DEF Lookup!Inv, Lookup!TypeOK
<1>1. /\ at[c] = "locked" /\ at' = [at EXCEPT ![c] = "waiting"]
      /\ wants[c] \in DOMAIN table /\ joined' = [joined EXCEPT ![c] = table[wants[c]]]
      /\ tableLock' = Lookup!NoOne
      /\ UNCHANGED <<table, thread, names, result, answer, wants, cache>>
  BY DEF Lookup!Join, Lookup!Goes
<1>2. Lookup!TableKept'
  BY <1>0, <1>1 DEF Lookup!TableKept
<1>3. Lookup!CacheKept'
  BY <1>0, <1>1 DEF Lookup!CacheKept
<1>4. Lookup!SlotsKept'
  BY <1>0, <1>1 DEF Lookup!SlotsKept, Lookup!Threads, Lookup!Steps, Lookup!Answers, Lookup!TableKept
<1>5. Lookup!CallersKnow'
  BY <1>0, <1>1 DEF Lookup!CallersKnow, Lookup!SlotsKept, Lookup!Steps, Lookup!TableKept
<1>6. Lookup!MadeUnderLock'
  BY <1>0, <1>1 DEF Lookup!MadeUnderLock, Lookup!CallersKnow, Lookup!SlotsKept, Lookup!Steps
<1>7. Lookup!RunningIsUnanswered'
  BY <1>0, <1>1 DEF Lookup!RunningIsUnanswered, Lookup!SlotsKept
<1>8. Lookup!InFlightIsRunning'
  BY <1>0, <1>1 DEF Lookup!InFlightIsRunning, Lookup!TableKept, Lookup!SlotsKept
<1>. QED
  BY <1>2, <1>3, <1>4, <1>5, <1>6, <1>7, <1>8 DEF Lookup!Inv, Lookup!TypeOK

LEMMA LookupRefuse ==
  ASSUME NEW c \in Callers
  PROVE  Lookup!Inv /\ Lookup!Refuse(c) => Lookup!Inv'
<1>. SUFFICES ASSUME Lookup!Inv, Lookup!Refuse(c) PROVE Lookup!Inv'
  OBVIOUS
<1>. USE LookupConstants
<1>0. /\ Lookup!SlotsKept /\ Lookup!CacheKept /\ Lookup!TableKept /\ Lookup!CallersKnow
      /\ Lookup!MadeUnderLock /\ Lookup!RunningIsUnanswered /\ Lookup!InFlightIsRunning
  BY DEF Lookup!Inv, Lookup!TypeOK
<1>1. /\ at[c] = "locked" /\ at' = [at EXCEPT ![c] = "idle"]
      /\ wants' = [wants EXCEPT ![c] = Lookup!NoOne] /\ tableLock' = Lookup!NoOne
      /\ UNCHANGED <<table, thread, names, result, answer, joined, cache>>
  BY DEF Lookup!Refuse, Lookup!New, Lookup!Returns, Lookup!Goes
<1>2. Lookup!TableKept'
  BY <1>0, <1>1 DEF Lookup!TableKept
<1>3. Lookup!CacheKept'
  BY <1>0, <1>1 DEF Lookup!CacheKept
<1>4. Lookup!SlotsKept'
  BY <1>0, <1>1 DEF Lookup!SlotsKept, Lookup!Threads, Lookup!Steps, Lookup!Answers
<1>5. Lookup!CallersKnow'
  BY <1>0, <1>1 DEF Lookup!CallersKnow, Lookup!SlotsKept, Lookup!Steps
<1>6. Lookup!MadeUnderLock'
  BY <1>0, <1>1 DEF Lookup!MadeUnderLock, Lookup!CallersKnow, Lookup!SlotsKept, Lookup!Steps
<1>7. Lookup!RunningIsUnanswered'
  BY <1>0, <1>1 DEF Lookup!RunningIsUnanswered, Lookup!SlotsKept
<1>8. Lookup!InFlightIsRunning'
  BY <1>0, <1>1 DEF Lookup!InFlightIsRunning, Lookup!TableKept, Lookup!SlotsKept
<1>. QED
  BY <1>2, <1>3, <1>4, <1>5, <1>6, <1>7, <1>8 DEF Lookup!Inv, Lookup!TypeOK

LEMMA LookupSpawn ==
  ASSUME NEW c \in Callers, NEW s \in Slots
  PROVE  Lookup!Inv /\ Lookup!Spawn(c, s) => Lookup!Inv'
<1>. SUFFICES ASSUME Lookup!Inv, Lookup!Spawn(c, s) PROVE Lookup!Inv'
  OBVIOUS
<1>. USE LookupConstants
<1>0. /\ Lookup!SlotsKept /\ Lookup!CacheKept /\ Lookup!TableKept /\ Lookup!CallersKnow
      /\ Lookup!MadeUnderLock /\ Lookup!RunningIsUnanswered /\ Lookup!InFlightIsRunning
  BY DEF Lookup!Inv, Lookup!TypeOK
<1>1. /\ at[c] = "locked" /\ at' = [at EXCEPT ![c] = "inserting"]
      /\ wants[c] \notin DOMAIN table /\ Lookup!Cardinality(DOMAIN table) < Cap
      /\ thread[s] = "none" /\ thread' = [thread EXCEPT ![s] = "resolving"]
      /\ names' = [names EXCEPT ![s] = wants[c]] /\ answer' = [answer EXCEPT ![s] = "none"]
      /\ joined' = [joined EXCEPT ![c] = s]
      /\ UNCHANGED <<table, tableLock, result, wants, cache>>
  BY DEF Lookup!Spawn, Lookup!New, Lookup!Room, Lookup!Held, Lookup!Goes
<1>2. Lookup!TableKept'
  BY <1>0, <1>1 DEF Lookup!TableKept
<1>3. Lookup!CacheKept'
  BY <1>0, <1>1 DEF Lookup!CacheKept
<1>4. Lookup!SlotsKept'
  BY <1>0, <1>1 DEF Lookup!SlotsKept, Lookup!Threads, Lookup!Steps, Lookup!Answers
<1>5. Lookup!CallersKnow'
  BY <1>0, <1>1 DEF Lookup!CallersKnow, Lookup!SlotsKept, Lookup!Steps
<1>6. Lookup!MadeUnderLock'
  BY <1>0, <1>1 DEF Lookup!MadeUnderLock, Lookup!CallersKnow, Lookup!SlotsKept, Lookup!Steps
<1>7. Lookup!RunningIsUnanswered'
  BY <1>0, <1>1 DEF Lookup!RunningIsUnanswered, Lookup!SlotsKept
<1>8. Lookup!InFlightIsRunning'
  BY <1>0, <1>1 DEF Lookup!InFlightIsRunning, Lookup!TableKept, Lookup!SlotsKept
<1>. QED
  BY <1>2, <1>3, <1>4, <1>5, <1>6, <1>7, <1>8 DEF Lookup!Inv, Lookup!TypeOK

LEMMA LookupInsert ==
  ASSUME NEW c \in Callers
  PROVE  Lookup!Inv /\ Lookup!Insert(c) => Lookup!Inv'
<1>. SUFFICES ASSUME Lookup!Inv, Lookup!Insert(c) PROVE Lookup!Inv'
  OBVIOUS
<1>. USE LookupConstants
<1>0. /\ Lookup!SlotsKept /\ Lookup!CacheKept /\ Lookup!TableKept /\ Lookup!CallersKnow
      /\ Lookup!MadeUnderLock /\ Lookup!RunningIsUnanswered /\ Lookup!InFlightIsRunning
  BY DEF Lookup!Inv, Lookup!TypeOK
<1>1. /\ at[c] = "inserting" /\ at' = [at EXCEPT ![c] = "waiting"]
      /\ DOMAIN table' = DOMAIN table \cup {wants[c]} /\ table'[wants[c]] = joined[c]
      /\ \A h \in DOMAIN table \ {wants[c]} : table'[h] = table[h]
      /\ tableLock' = Lookup!NoOne
      /\ UNCHANGED <<thread, names, result, answer, wants, joined, cache>>
  BY DEF Lookup!Insert, Lookup!With, Lookup!Goes
<1>2. Lookup!TableKept'
  <2>1. /\ wants[c] \notin DOMAIN table /\ wants[c] \in Hosts /\ joined[c] \in Slots
        /\ Cardinality(DOMAIN table) < Cap /\ IsFiniteSet(DOMAIN table)
    BY <1>0, <1>1, LookupSets
       DEF Lookup!MadeUnderLock, Lookup!CallersKnow, Lookup!TableKept, Lookup!SlotsKept
  <2>2. /\ IsFiniteSet(DOMAIN table') /\ Cardinality(DOMAIN table') = Cardinality(DOMAIN table) + 1
        /\ Cardinality(DOMAIN table) \in Nat
    BY <1>1, <2>1, FS_AddElement, FS_CardinalityType
  <2>3. Lookup!IsFiniteSet(DOMAIN table') /\ Lookup!Cardinality(DOMAIN table') <= Cap
    BY <2>1, <2>2, LookupSets
  <2>. QED
    BY <1>0, <1>1, <2>1, <2>3 DEF Lookup!TableKept
<1>3. Lookup!CacheKept'
  BY <1>0, <1>1 DEF Lookup!CacheKept
<1>4. Lookup!SlotsKept'
  BY <1>0, <1>1 DEF Lookup!SlotsKept, Lookup!Threads, Lookup!Steps, Lookup!Answers
<1>5. Lookup!CallersKnow'
  BY <1>0, <1>1 DEF Lookup!CallersKnow, Lookup!SlotsKept, Lookup!Steps
<1>6. Lookup!MadeUnderLock'
  BY <1>0, <1>1 DEF Lookup!MadeUnderLock, Lookup!CallersKnow, Lookup!SlotsKept, Lookup!Steps
<1>7. Lookup!RunningIsUnanswered'
  BY <1>0, <1>1 DEF Lookup!RunningIsUnanswered, Lookup!SlotsKept
<1>8. Lookup!InFlightIsRunning'
  <2>1. /\ wants[c] \notin DOMAIN table /\ names[joined[c]] = wants[c]
        /\ thread[joined[c]] \in {"resolving", "settling"}
    BY <1>0, <1>1 DEF Lookup!MadeUnderLock
  <2>. QED
    BY <1>0, <1>1, <2>1 DEF Lookup!InFlightIsRunning
<1>. QED
  BY <1>2, <1>3, <1>4, <1>5, <1>6, <1>7, <1>8 DEF Lookup!Inv, Lookup!TypeOK

LEMMA LookupGiveUp ==
  ASSUME NEW c \in Callers
  PROVE  Lookup!Inv /\ Lookup!GiveUp(c) => Lookup!Inv'
<1>. SUFFICES ASSUME Lookup!Inv, Lookup!GiveUp(c) PROVE Lookup!Inv'
  OBVIOUS
<1>. USE LookupConstants
<1>0. /\ Lookup!SlotsKept /\ Lookup!CacheKept /\ Lookup!TableKept /\ Lookup!CallersKnow
      /\ Lookup!MadeUnderLock /\ Lookup!RunningIsUnanswered /\ Lookup!InFlightIsRunning
  BY DEF Lookup!Inv, Lookup!TypeOK
<1>1. /\ at[c] = "waiting" /\ at' = [at EXCEPT ![c] = "idle"]
      /\ wants' = [wants EXCEPT ![c] = Lookup!NoOne] /\ joined' = [joined EXCEPT ![c] = Lookup!NoOne]
      /\ UNCHANGED <<table, tableLock, thread, names, result, answer, cache>>
  BY DEF Lookup!GiveUp, Lookup!Returns, Lookup!Goes, Lookup!lookupVars
<1>2. Lookup!TableKept'
  BY <1>0, <1>1 DEF Lookup!TableKept
<1>3. Lookup!CacheKept'
  BY <1>0, <1>1 DEF Lookup!CacheKept
<1>4. Lookup!SlotsKept'
  BY <1>0, <1>1 DEF Lookup!SlotsKept, Lookup!Threads, Lookup!Steps, Lookup!Answers
<1>5. Lookup!CallersKnow'
  BY <1>0, <1>1 DEF Lookup!CallersKnow, Lookup!SlotsKept, Lookup!Steps
<1>6. Lookup!MadeUnderLock'
  BY <1>0, <1>1 DEF Lookup!MadeUnderLock, Lookup!CallersKnow, Lookup!SlotsKept, Lookup!Steps
<1>7. Lookup!RunningIsUnanswered'
  BY <1>0, <1>1 DEF Lookup!RunningIsUnanswered, Lookup!SlotsKept
<1>8. Lookup!InFlightIsRunning'
  BY <1>0, <1>1 DEF Lookup!InFlightIsRunning, Lookup!TableKept, Lookup!SlotsKept
<1>. QED
  BY <1>2, <1>3, <1>4, <1>5, <1>6, <1>7, <1>8 DEF Lookup!Inv, Lookup!TypeOK

LEMMA LookupRead ==
  ASSUME NEW c \in Callers
  PROVE  Lookup!Inv /\ Lookup!Read(c) => Lookup!Inv'
<1>. SUFFICES ASSUME Lookup!Inv, Lookup!Read(c) PROVE Lookup!Inv'
  OBVIOUS
<1>. USE LookupConstants
<1>0. /\ Lookup!SlotsKept /\ Lookup!CacheKept /\ Lookup!TableKept /\ Lookup!CallersKnow
      /\ Lookup!MadeUnderLock /\ Lookup!RunningIsUnanswered /\ Lookup!InFlightIsRunning
  BY DEF Lookup!Inv, Lookup!TypeOK
<1>1. /\ at[c] = "waiting" /\ joined' = [joined EXCEPT ![c] = Lookup!NoOne]
      /\ answer' = [answer EXCEPT ![joined[c]] =
                      IF \E d \in Callers \ {c} : joined[d] = joined[c] THEN @ ELSE "none"]
      /\ \/ at' = [at EXCEPT ![c] = "storing"] /\ wants' = wants
         \/ at' = [at EXCEPT ![c] = "idle"] /\ wants' = [wants EXCEPT ![c] = Lookup!NoOne]
      /\ UNCHANGED <<table, tableLock, thread, names, result, cache>>
  BY DEF Lookup!Read, Lookup!Returns, Lookup!Goes
<1>2. Lookup!TableKept'
  BY <1>0, <1>1 DEF Lookup!TableKept
<1>3. Lookup!CacheKept'
  BY <1>0, <1>1 DEF Lookup!CacheKept
<1>9. joined[c] \in Slots
  BY <1>0, <1>1 DEF Lookup!CallersKnow, Lookup!SlotsKept
<1>10. /\ answer' \in [Slots -> Lookup!Answers]
       /\ \A s \in Slots : answer'[s] = answer[s] \/ answer'[s] = "none"
  BY <1>0, <1>1, <1>9 DEF Lookup!SlotsKept, Lookup!Answers
<1>4. Lookup!SlotsKept'
  BY <1>0, <1>1, <1>10 DEF Lookup!SlotsKept, Lookup!Threads, Lookup!Steps, Lookup!Answers
<1>5. Lookup!CallersKnow'
  BY <1>0, <1>1 DEF Lookup!CallersKnow, Lookup!SlotsKept, Lookup!Steps
<1>6. Lookup!MadeUnderLock'
  BY <1>0, <1>1 DEF Lookup!MadeUnderLock, Lookup!CallersKnow, Lookup!SlotsKept, Lookup!Steps
<1>7. Lookup!RunningIsUnanswered'
  BY <1>0, <1>1, <1>10 DEF Lookup!RunningIsUnanswered, Lookup!SlotsKept
<1>8. Lookup!InFlightIsRunning'
  BY <1>0, <1>1 DEF Lookup!InFlightIsRunning, Lookup!TableKept, Lookup!SlotsKept
<1>. QED
  BY <1>2, <1>3, <1>4, <1>5, <1>6, <1>7, <1>8 DEF Lookup!Inv, Lookup!TypeOK

LEMMA LookupStore ==
  ASSUME NEW c \in Callers
  PROVE  Lookup!Inv /\ Lookup!Store(c) => Lookup!Inv'
<1>. SUFFICES ASSUME Lookup!Inv, Lookup!Store(c) PROVE Lookup!Inv'
  OBVIOUS
<1>. USE LookupConstants
<1>0. /\ Lookup!SlotsKept /\ Lookup!CacheKept /\ Lookup!TableKept /\ Lookup!CallersKnow
      /\ Lookup!MadeUnderLock /\ Lookup!RunningIsUnanswered /\ Lookup!InFlightIsRunning
  BY DEF Lookup!Inv, Lookup!TypeOK
<1>1. /\ at[c] = "storing" /\ at' = [at EXCEPT ![c] = "idle"]
      /\ wants' = [wants EXCEPT ![c] = Lookup!NoOne]
      /\ UNCHANGED <<table, tableLock, thread, names, result, answer, joined>>
  BY DEF Lookup!Store, Lookup!Returns, Lookup!Goes, Lookup!lookupVars
<1>2. Lookup!TableKept'
  BY <1>0, <1>1 DEF Lookup!TableKept
<1>3. Lookup!CacheKept'
  <2>. DEFINE S == Lookup!Swept
              w == wants[c]
              kept == [h \in S |-> cache[h]]
  <2>1. S \subseteq DOMAIN cache
    BY DEF Lookup!Swept
  <2>2. w \in Hosts
    BY <1>0, <1>1 DEF Lookup!CallersKnow
  <2>3. /\ IsFiniteSet(DOMAIN cache) /\ Cardinality(DOMAIN cache) <= CacheCap
        /\ IsFiniteSet(S) /\ Cardinality(S) <= Cardinality(DOMAIN cache)
        /\ Cardinality(S) \in Nat /\ Cardinality(DOMAIN cache) \in Nat
    BY <1>0, <2>1, LookupSets, FS_Subset, FS_CardinalityType DEF Lookup!CacheKept
  <2>4. cache' = IF Lookup!Cardinality(S) < CacheCap THEN Lookup!With(kept, w, 0) ELSE kept
    BY DEF Lookup!Store, Lookup!RoomInCache
  <2>. HIDE DEF S, w
  <2>5. CASE Lookup!Cardinality(S) < CacheCap
    <3>1. /\ DOMAIN cache' = S \cup {w} /\ cache'[w] = 0
          /\ \A h \in S \ {w} : cache'[h] = cache[h]
      BY <2>4, <2>5 DEF Lookup!With
    <3>2. IsFiniteSet(S \cup {w}) /\ Cardinality(S \cup {w}) <= Cardinality(S) + 1
      <4>1. CASE w \in S
        <5>1. S \cup {w} = S
          BY <4>1
        <5>. QED
          BY <2>3, <5>1
      <4>2. CASE w \notin S
        <5>1. IsFiniteSet(S \cup {w}) /\ Cardinality(S \cup {w}) = Cardinality(S) + 1
          BY <2>3, <4>2, FS_AddElement
        <5>. QED
          BY <2>3, <5>1
      <4>. QED
        BY <4>1, <4>2
    <3>3. Cardinality(S \cup {w}) \in Nat
      BY <3>2, FS_CardinalityType
    <3>4. Lookup!IsFiniteSet(DOMAIN cache') /\ Lookup!Cardinality(DOMAIN cache') <= CacheCap
      BY <2>3, <2>5, <3>1, <3>2, <3>3, LookupSets
    <3>. QED
      BY <1>0, <2>1, <2>2, <3>1, <3>4 DEF Lookup!CacheKept
  <2>6. CASE ~(Lookup!Cardinality(S) < CacheCap)
    <3>1. DOMAIN cache' = S /\ \A h \in S : cache'[h] = cache[h]
      BY <2>4, <2>6
    <3>2. Lookup!IsFiniteSet(S) /\ Lookup!Cardinality(S) <= CacheCap
      BY <2>3, LookupSets
    <3>. QED
      BY <1>0, <2>1, <3>1, <3>2 DEF Lookup!CacheKept
  <2>. QED
    BY <2>5, <2>6
<1>4. Lookup!SlotsKept'
  BY <1>0, <1>1 DEF Lookup!SlotsKept, Lookup!Threads, Lookup!Steps, Lookup!Answers
<1>5. Lookup!CallersKnow'
  BY <1>0, <1>1 DEF Lookup!CallersKnow, Lookup!SlotsKept, Lookup!Steps
<1>6. Lookup!MadeUnderLock'
  BY <1>0, <1>1 DEF Lookup!MadeUnderLock, Lookup!CallersKnow, Lookup!SlotsKept, Lookup!Steps
<1>7. Lookup!RunningIsUnanswered'
  BY <1>0, <1>1 DEF Lookup!RunningIsUnanswered, Lookup!SlotsKept
<1>8. Lookup!InFlightIsRunning'
  BY <1>0, <1>1 DEF Lookup!InFlightIsRunning, Lookup!TableKept, Lookup!SlotsKept
<1>. QED
  BY <1>2, <1>3, <1>4, <1>5, <1>6, <1>7, <1>8 DEF Lookup!Inv, Lookup!TypeOK

LEMMA LookupResolve ==
  ASSUME NEW s \in Slots, NEW r \in {"ok", "err"}
  PROVE  Lookup!Inv /\ Lookup!Resolve(s, r) => Lookup!Inv'
<1>. SUFFICES ASSUME Lookup!Inv, Lookup!Resolve(s, r) PROVE Lookup!Inv'
  OBVIOUS
<1>. USE LookupConstants
<1>0. /\ Lookup!SlotsKept /\ Lookup!CacheKept /\ Lookup!TableKept /\ Lookup!CallersKnow
      /\ Lookup!MadeUnderLock /\ Lookup!RunningIsUnanswered /\ Lookup!InFlightIsRunning
  BY DEF Lookup!Inv, Lookup!TypeOK
<1>1. /\ thread[s] = "resolving" /\ thread' = [thread EXCEPT ![s] = "settling"]
      /\ result' = [result EXCEPT ![s] = r]
      /\ UNCHANGED <<table, tableLock, names, answer, at, wants, joined, cache>>
  BY DEF Lookup!Resolve, Lookup!callerVars
<1>2. Lookup!TableKept'
  BY <1>0, <1>1 DEF Lookup!TableKept
<1>3. Lookup!CacheKept'
  BY <1>0, <1>1 DEF Lookup!CacheKept
<1>4. Lookup!SlotsKept'
  BY <1>0, <1>1 DEF Lookup!SlotsKept, Lookup!Threads, Lookup!Steps, Lookup!Answers
<1>5. Lookup!CallersKnow'
  BY <1>0, <1>1 DEF Lookup!CallersKnow, Lookup!SlotsKept, Lookup!Steps
<1>6. Lookup!MadeUnderLock'
  BY <1>0, <1>1 DEF Lookup!MadeUnderLock, Lookup!CallersKnow, Lookup!SlotsKept, Lookup!Steps
<1>7. Lookup!RunningIsUnanswered'
  BY <1>0, <1>1 DEF Lookup!RunningIsUnanswered, Lookup!SlotsKept
<1>8. Lookup!InFlightIsRunning'
  BY <1>0, <1>1 DEF Lookup!InFlightIsRunning, Lookup!TableKept, Lookup!SlotsKept
<1>. QED
  BY <1>2, <1>3, <1>4, <1>5, <1>6, <1>7, <1>8 DEF Lookup!Inv, Lookup!TypeOK

LEMMA LookupPanic ==
  ASSUME NEW s \in Slots
  PROVE  Lookup!Inv /\ Lookup!Panic(s) => Lookup!Inv'
<1>. SUFFICES ASSUME Lookup!Inv, Lookup!Panic(s) PROVE Lookup!Inv'
  OBVIOUS
<1>. USE LookupConstants
<1>0. /\ Lookup!SlotsKept /\ Lookup!CacheKept /\ Lookup!TableKept /\ Lookup!CallersKnow
      /\ Lookup!MadeUnderLock /\ Lookup!RunningIsUnanswered /\ Lookup!InFlightIsRunning
  BY DEF Lookup!Inv, Lookup!TypeOK
<1>1. /\ thread[s] = "resolving" /\ thread' = [thread EXCEPT ![s] = "settling"]
      /\ result' = [result EXCEPT ![s] = "err"]
      /\ UNCHANGED <<table, tableLock, names, answer, at, wants, joined, cache>>
  BY DEF Lookup!Panic, Lookup!AfterPanic, Lookup!callerVars
<1>2. Lookup!TableKept'
  BY <1>0, <1>1 DEF Lookup!TableKept
<1>3. Lookup!CacheKept'
  BY <1>0, <1>1 DEF Lookup!CacheKept
<1>4. Lookup!SlotsKept'
  BY <1>0, <1>1 DEF Lookup!SlotsKept, Lookup!Threads, Lookup!Steps, Lookup!Answers
<1>5. Lookup!CallersKnow'
  BY <1>0, <1>1 DEF Lookup!CallersKnow, Lookup!SlotsKept, Lookup!Steps
<1>6. Lookup!MadeUnderLock'
  BY <1>0, <1>1 DEF Lookup!MadeUnderLock, Lookup!CallersKnow, Lookup!SlotsKept, Lookup!Steps
<1>7. Lookup!RunningIsUnanswered'
  BY <1>0, <1>1 DEF Lookup!RunningIsUnanswered, Lookup!SlotsKept
<1>8. Lookup!InFlightIsRunning'
  BY <1>0, <1>1 DEF Lookup!InFlightIsRunning, Lookup!TableKept, Lookup!SlotsKept
<1>. QED
  BY <1>2, <1>3, <1>4, <1>5, <1>6, <1>7, <1>8 DEF Lookup!Inv, Lookup!TypeOK

LEMMA LookupUnlist ==
  ASSUME NEW s \in Slots
  PROVE  Lookup!Inv /\ Lookup!Unlist(s) => Lookup!Inv'
<1>. SUFFICES ASSUME Lookup!Inv, Lookup!Unlist(s) PROVE Lookup!Inv'
  OBVIOUS
<1>. USE LookupConstants
<1>0. /\ Lookup!SlotsKept /\ Lookup!CacheKept /\ Lookup!TableKept /\ Lookup!CallersKnow
      /\ Lookup!MadeUnderLock /\ Lookup!RunningIsUnanswered /\ Lookup!InFlightIsRunning
  BY DEF Lookup!Inv, Lookup!TypeOK
<1>1. /\ thread[s] = "settling" /\ thread' = [thread EXCEPT ![s] = "unlisted"]
      /\ tableLock = Lookup!NoOne
      /\ table' = IF names[s] \in DOMAIN table /\ table[names[s]] = s
                  THEN Lookup!Without(table, names[s]) ELSE table
      /\ UNCHANGED <<tableLock, names, result, answer, at, wants, joined, cache>>
  BY DEF Lookup!Unlist, Lookup!callerVars
<1>9. /\ DOMAIN table' \subseteq DOMAIN table
      /\ \A h \in DOMAIN table' : table'[h] = table[h] /\ table[h] # s
  BY <1>0, <1>1 DEF Lookup!Without, Lookup!InFlightIsRunning
<1>2. Lookup!TableKept'
  <2>1. /\ IsFiniteSet(DOMAIN table) /\ Cardinality(DOMAIN table) <= Cap
    BY <1>0, LookupSets DEF Lookup!TableKept
  <2>2. /\ IsFiniteSet(DOMAIN table') /\ Cardinality(DOMAIN table') <= Cardinality(DOMAIN table)
        /\ Cardinality(DOMAIN table') \in Nat /\ Cardinality(DOMAIN table) \in Nat
    BY <1>9, <2>1, FS_Subset, FS_CardinalityType
  <2>3. Lookup!IsFiniteSet(DOMAIN table') /\ Lookup!Cardinality(DOMAIN table') <= Cap
    BY <2>1, <2>2, LookupSets
  <2>. QED
    BY <1>0, <1>9, <2>3 DEF Lookup!TableKept
<1>3. Lookup!CacheKept'
  BY <1>0, <1>1 DEF Lookup!CacheKept
<1>4. Lookup!SlotsKept'
  BY <1>0, <1>1 DEF Lookup!SlotsKept, Lookup!Threads, Lookup!Steps, Lookup!Answers
<1>5. Lookup!CallersKnow'
  BY <1>0, <1>1 DEF Lookup!CallersKnow, Lookup!SlotsKept, Lookup!Steps
<1>6. Lookup!MadeUnderLock'
  BY <1>0, <1>1 DEF Lookup!MadeUnderLock, Lookup!CallersKnow, Lookup!SlotsKept, Lookup!Steps
<1>7. Lookup!RunningIsUnanswered'
  BY <1>0, <1>1 DEF Lookup!RunningIsUnanswered, Lookup!SlotsKept
<1>8. Lookup!InFlightIsRunning'
  BY <1>0, <1>1, <1>9 DEF Lookup!InFlightIsRunning, Lookup!TableKept, Lookup!SlotsKept
<1>. QED
  BY <1>2, <1>3, <1>4, <1>5, <1>6, <1>7, <1>8 DEF Lookup!Inv, Lookup!TypeOK

LEMMA LookupPublish ==
  ASSUME NEW s \in Slots
  PROVE  Lookup!Inv /\ Lookup!Publish(s) => Lookup!Inv'
<1>. SUFFICES ASSUME Lookup!Inv, Lookup!Publish(s) PROVE Lookup!Inv'
  OBVIOUS
<1>. USE LookupConstants
<1>0. /\ Lookup!SlotsKept /\ Lookup!CacheKept /\ Lookup!TableKept /\ Lookup!CallersKnow
      /\ Lookup!MadeUnderLock /\ Lookup!RunningIsUnanswered /\ Lookup!InFlightIsRunning
  BY DEF Lookup!Inv, Lookup!TypeOK
<1>1. /\ thread[s] = "unlisted" /\ thread' = [thread EXCEPT ![s] = "none"]
      /\ answer' = [answer EXCEPT ![s] = IF \E c \in Callers : joined[c] = s THEN result[s] ELSE "none"]
      /\ names' = [names EXCEPT ![s] = Lookup!NoOne] /\ result' = [result EXCEPT ![s] = "none"]
      /\ UNCHANGED <<table, tableLock, at, wants, joined, cache>>
  BY DEF Lookup!Publish, Lookup!MayPublish, Lookup!callerVars
<1>2. Lookup!TableKept'
  BY <1>0, <1>1 DEF Lookup!TableKept
<1>3. Lookup!CacheKept'
  BY <1>0, <1>1 DEF Lookup!CacheKept
<1>4. Lookup!SlotsKept'
  BY <1>0, <1>1 DEF Lookup!SlotsKept, Lookup!Threads, Lookup!Steps, Lookup!Answers
<1>5. Lookup!CallersKnow'
  BY <1>0, <1>1 DEF Lookup!CallersKnow, Lookup!SlotsKept, Lookup!Steps
<1>6. Lookup!MadeUnderLock'
  BY <1>0, <1>1 DEF Lookup!MadeUnderLock, Lookup!CallersKnow, Lookup!SlotsKept, Lookup!Steps
<1>7. Lookup!RunningIsUnanswered'
  BY <1>0, <1>1 DEF Lookup!RunningIsUnanswered, Lookup!SlotsKept
<1>8. Lookup!InFlightIsRunning'
  BY <1>0, <1>1 DEF Lookup!InFlightIsRunning, Lookup!TableKept, Lookup!SlotsKept
<1>. QED
  BY <1>2, <1>3, <1>4, <1>5, <1>6, <1>7, <1>8 DEF Lookup!Inv, Lookup!TypeOK

LEMMA LookupAge == Lookup!Inv /\ Lookup!Age => Lookup!Inv'
<1>. SUFFICES ASSUME Lookup!Inv, Lookup!Age PROVE Lookup!Inv'
  OBVIOUS
<1>. USE LookupConstants
<1>0. /\ Lookup!SlotsKept /\ Lookup!CacheKept /\ Lookup!TableKept /\ Lookup!CallersKnow
      /\ Lookup!MadeUnderLock /\ Lookup!RunningIsUnanswered /\ Lookup!InFlightIsRunning
  BY DEF Lookup!Inv, Lookup!TypeOK
<1>1. /\ cache' = [h \in DOMAIN cache |-> IF cache[h] < Ttl THEN cache[h] + 1 ELSE Ttl]
      /\ UNCHANGED <<table, tableLock, thread, names, result, answer, at, wants, joined>>
  BY DEF Lookup!Age, Lookup!lookupVars, Lookup!callerVars
<1>2. Lookup!CacheKept'
  BY <1>0, <1>1 DEF Lookup!CacheKept
<1>3. Lookup!TableKept' /\ Lookup!SlotsKept'
  BY <1>0, <1>1 DEF Lookup!TableKept, Lookup!SlotsKept
<1>4. /\ Lookup!CallersKnow' /\ Lookup!MadeUnderLock'
      /\ Lookup!RunningIsUnanswered' /\ Lookup!InFlightIsRunning'
  BY <1>0, <1>1 DEF Lookup!CallersKnow, Lookup!MadeUnderLock,
                    Lookup!RunningIsUnanswered, Lookup!InFlightIsRunning
<1>. QED
  BY <1>2, <1>3, <1>4 DEF Lookup!Inv, Lookup!TypeOK

LEMMA LookupStill == Lookup!Inv /\ UNCHANGED Lookup!vars => Lookup!Inv'
<1>. SUFFICES ASSUME Lookup!Inv, UNCHANGED Lookup!vars PROVE Lookup!Inv'
  OBVIOUS
<1>1. UNCHANGED <<table, tableLock, thread, names, result, answer, at, wants, joined, cache>>
  BY DEF Lookup!vars, Lookup!lookupVars, Lookup!callerVars
<1>2. Lookup!TypeOK'
  BY <1>1 DEF Lookup!Inv, Lookup!TypeOK, Lookup!TableKept, Lookup!CacheKept, Lookup!SlotsKept
<1>3. /\ Lookup!CallersKnow' /\ Lookup!MadeUnderLock'
      /\ Lookup!RunningIsUnanswered' /\ Lookup!InFlightIsRunning'
  BY <1>1 DEF Lookup!Inv, Lookup!CallersKnow, Lookup!MadeUnderLock,
              Lookup!RunningIsUnanswered, Lookup!InFlightIsRunning
<1>. QED
  BY <1>2, <1>3 DEF Lookup!Inv

LEMMA LookupStep == Lookup!Inv /\ [Lookup!Next]_(Lookup!vars) => Lookup!Inv'
<1>. SUFFICES ASSUME Lookup!Inv, [Lookup!Next]_(Lookup!vars) PROVE Lookup!Inv'
  OBVIOUS
<1>1. CASE Lookup!Age
  BY <1>1, LookupAge
<1>2. ASSUME NEW c \in Callers, Lookup!CallerStep(c) PROVE Lookup!Inv'
  BY <1>2, LookupLock, LookupJoin, LookupRefuse, LookupInsert, LookupGiveUp, LookupRead,
     LookupStore, LookupSpawn DEF Lookup!CallerStep
<1>3. ASSUME NEW c \in Callers, NEW h \in Hosts, Lookup!Ask(c, h) PROVE Lookup!Inv'
  BY <1>3, LookupAsk
<1>4. ASSUME NEW s \in Slots, Lookup!Panic(s) \/ Lookup!Settles(s) PROVE Lookup!Inv'
  BY <1>4, LookupPanic, LookupUnlist, LookupPublish DEF Lookup!Settles
<1>5. ASSUME NEW s \in Slots, NEW r \in {"ok", "err"}, Lookup!Resolve(s, r) PROVE Lookup!Inv'
  BY <1>5, LookupResolve
<1>6. CASE UNCHANGED Lookup!vars
  BY <1>6, LookupStill
<1>. QED
  BY <1>1, <1>2, <1>3, <1>4, <1>5, <1>6 DEF Lookup!Next

(* The lookups keep their tables: what a caller made under the mutex goes  *)
(* in with a thread that runs, and no thread that runs has answered        *)
(* (Lookups::lookup, Drop for Settle).                                     *)
THEOREM LookupInvariance == Lookup!Spec => []Lookup!Inv
  BY LookupStart, LookupStep, PTL DEF Lookup!Spec

(* A name in flight has a thread that will take it out, however lookups    *)
(* end and callers give up, and no caller joins a lookup that already      *)
(* answered, for any callers, names and caps.                              *)
THEOREM InFlightIsLive == Lookup!Spec => []LookupsAreLive
<1>1. Lookup!Inv => LookupsAreLive
  <2>. SUFFICES ASSUME Lookup!Inv PROVE Lookup!JoinedIsUnanswered
    BY DEF LookupsAreLive, Lookup!Inv
  <2>. QED
    BY DEF Lookup!Inv, Lookup!TypeOK, Lookup!TableKept, Lookup!InFlightIsRunning,
           Lookup!RunningIsUnanswered, Lookup!JoinedIsUnanswered
<1>. QED
  BY <1>1, LookupInvariance, PTL

(* The table of lookups in flight and the cache keep their caps (dns.rs,   *)
(* Lookups::lookup, cached_resolver), for any callers and names.           *)
THEOREM LookupsWithinCaps == Lookup!Spec => []Lookup!TypeOK
<1>1. Lookup!Inv => Lookup!TypeOK
  BY DEF Lookup!Inv
<1>. QED
  BY <1>1, LookupInvariance, PTL

(* A caller waits on a lookup of its name that runs, or on an answer.      *)
LEMMA ServedStart == Lookup!Init => Lookup!Served
  BY DEF Lookup!Init, Lookup!Served, Lookup!WaitsForItsName, Lookup!ResultInHand

LEMMA ServedCaller ==
  ASSUME Lookup!Inv, Lookup!Served, NEW c \in Callers, Lookup!CallerStep(c)
  PROVE  Lookup!Served'
<1>. USE LookupConstants
<1>0. /\ Lookup!SlotsKept /\ Lookup!TableKept /\ Lookup!CallersKnow
      /\ Lookup!MadeUnderLock /\ Lookup!InFlightIsRunning
  BY DEF Lookup!Inv, Lookup!TypeOK
<1>1. CASE \E s \in Slots : Lookup!Spawn(c, s)
  <2>. PICK s \in Slots : Lookup!Spawn(c, s)
    BY <1>1
  <2>1. /\ at' = [at EXCEPT ![c] = "inserting"] /\ joined' = [joined EXCEPT ![c] = s]
        /\ thread' = [thread EXCEPT ![s] = "resolving"] /\ names' = [names EXCEPT ![s] = wants[c]]
        /\ answer' = [answer EXCEPT ![s] = "none"] /\ result' = result /\ wants' = wants
        /\ \A d \in Callers : joined[d] # s
    BY DEF Lookup!Spawn, Lookup!Goes, Lookup!Held
  <2>2. ASSUME NEW d \in Callers, at'[d] = "waiting"
        PROVE  \/ thread'[joined'[d]] # "none" /\ names'[joined'[d]] = wants'[d]
               \/ answer'[joined'[d]] # "none"
    <3>1. d # c /\ at[d] = "waiting" /\ joined'[d] = joined[d] /\ joined[d] # s
      BY <1>0, <2>1, <2>2 DEF Lookup!SlotsKept
    <3>2. joined[d] \in Slots
      BY <1>0, <3>1 DEF Lookup!SlotsKept, Lookup!CallersKnow
    <3>. QED
      BY <1>0, <2>1, <3>1, <3>2 DEF Lookup!Served, Lookup!WaitsForItsName, Lookup!SlotsKept
  <2>3. Lookup!ResultInHand'
    BY <1>0, <2>1 DEF Lookup!Served, Lookup!ResultInHand, Lookup!SlotsKept
  <2>. QED
    BY <2>2, <2>3 DEF Lookup!Served, Lookup!WaitsForItsName
<1>2. CASE Lookup!Join(c) \/ Lookup!Insert(c)
  <2>1. /\ at' = [at EXCEPT ![c] = "waiting"] /\ joined' = [joined EXCEPT ![c] = joined'[c]]
        /\ UNCHANGED <<thread, names, result, answer, wants>>
    BY <1>0, <1>2 DEF Lookup!Join, Lookup!Insert, Lookup!Goes, Lookup!SlotsKept
  <2>2. thread[joined'[c]] \in {"resolving", "settling"} /\ names[joined'[c]] = wants[c]
    <3>1. CASE Lookup!Join(c)
      <4>1. wants[c] \in DOMAIN table /\ joined'[c] = table[wants[c]]
        BY <1>0, <3>1 DEF Lookup!Join, Lookup!SlotsKept
      <4>. QED
        BY <1>0, <4>1 DEF Lookup!InFlightIsRunning
    <3>2. CASE Lookup!Insert(c)
      BY <1>0, <3>2 DEF Lookup!Insert, Lookup!MadeUnderLock
    <3>. QED
      BY <1>2, <3>1, <3>2
  <2>3. \A d \in Callers : d # c => at'[d] = at[d] /\ joined'[d] = joined[d]
    BY <1>0, <2>1 DEF Lookup!SlotsKept
  <2>. QED
    BY <2>1, <2>2, <2>3 DEF Lookup!Served, Lookup!WaitsForItsName, Lookup!ResultInHand
<1>3. CASE Lookup!Read(c)
  <2>1. /\ at'[c] # "waiting" /\ \A d \in Callers : d # c => /\ at'[d] = at[d] /\ joined'[d] = joined[d]
                                                            /\ wants'[d] = wants[d]
        /\ UNCHANGED <<thread, names, result>>
    BY <1>0, <1>3 DEF Lookup!Read, Lookup!Returns, Lookup!Goes, Lookup!SlotsKept
  <2>2. answer' = [answer EXCEPT ![joined[c]] =
                     IF \E d \in Callers \ {c} : joined[d] = joined[c] THEN @ ELSE "none"]
    BY <1>3 DEF Lookup!Read
  <2>3. \A d \in Callers : d # c /\ joined[d] \in Slots => answer'[joined[d]] = answer[joined[d]]
    BY <1>0, <2>2 DEF Lookup!SlotsKept
  <2>4. \A d \in Callers : at[d] = "waiting" => joined[d] \in Slots
    BY <1>0 DEF Lookup!SlotsKept, Lookup!CallersKnow
  <2>5. Lookup!WaitsForItsName'
    BY <2>1, <2>3, <2>4 DEF Lookup!Served, Lookup!WaitsForItsName
  <2>. QED
    BY <2>1, <2>5 DEF Lookup!Served, Lookup!ResultInHand
<1>4. CASE Lookup!Lock(c) \/ Lookup!Refuse(c) \/ Lookup!GiveUp(c) \/ Lookup!Store(c)
  <2>1. /\ at'[c] # "waiting"
        /\ \A d \in Callers : d # c => /\ at'[d] = at[d] /\ joined'[d] = joined[d]
                                      /\ wants'[d] = wants[d]
        /\ UNCHANGED <<thread, names, result, answer>>
    BY <1>0, <1>4 DEF Lookup!Lock, Lookup!Refuse, Lookup!GiveUp, Lookup!Store, Lookup!Returns,
                      Lookup!Goes, Lookup!lookupVars, Lookup!SlotsKept
  <2>. QED
    BY <2>1 DEF Lookup!Served, Lookup!WaitsForItsName, Lookup!ResultInHand
<1>. QED
  BY <1>1, <1>2, <1>3, <1>4 DEF Lookup!CallerStep

(* A lookup thread publishes what it has in hand to whoever waits.         *)
LEMMA ServedThread ==
  ASSUME Lookup!Inv, Lookup!Served, NEW s \in Slots,
         \/ Lookup!Panic(s) \/ Lookup!Settles(s)
         \/ \E r \in {"ok", "err"} : Lookup!Resolve(s, r)
  PROVE  Lookup!Served'
<1>. USE LookupConstants
<1>0. /\ Lookup!SlotsKept /\ Lookup!CallersKnow
      /\ \A d \in Callers : at[d] = "waiting" => joined[d] \in Slots
  BY DEF Lookup!Inv, Lookup!TypeOK, Lookup!SlotsKept, Lookup!CallersKnow
<1>1. CASE Lookup!Publish(s)
  <2>1. /\ thread[s] = "unlisted" /\ UNCHANGED <<at, wants, joined>>
        /\ answer' = [answer EXCEPT ![s] = IF \E c \in Callers : joined[c] = s THEN result[s]
                                           ELSE "none"]
        /\ thread' = [thread EXCEPT ![s] = "none"] /\ names' = [names EXCEPT ![s] = Lookup!NoOne]
        /\ result' = [result EXCEPT ![s] = "none"]
    BY <1>1 DEF Lookup!Publish, Lookup!MayPublish, Lookup!callerVars
  <2>2. result[s] # "none"
    BY <2>1 DEF Lookup!Served, Lookup!ResultInHand
  <2>3. ASSUME NEW d \in Callers, at[d] = "waiting"
        PROVE  \/ thread'[joined[d]] # "none" /\ names'[joined[d]] = wants[d]
               \/ answer'[joined[d]] # "none"
    <3>1. CASE joined[d] = s
      BY <1>0, <2>1, <2>2, <3>1 DEF Lookup!SlotsKept
    <3>2. CASE joined[d] # s
      BY <1>0, <2>1, <2>3, <3>2 DEF Lookup!SlotsKept, Lookup!Served, Lookup!WaitsForItsName
    <3>. QED
      BY <3>1, <3>2
  <2>4. Lookup!ResultInHand'
    BY <1>0, <2>1 DEF Lookup!SlotsKept, Lookup!Served, Lookup!ResultInHand
  <2>. QED
    BY <2>1, <2>3, <2>4 DEF Lookup!Served, Lookup!WaitsForItsName
<1>2. CASE Lookup!Panic(s) \/ Lookup!Unlist(s) \/ \E r \in {"ok", "err"} : Lookup!Resolve(s, r)
  <2>1. /\ UNCHANGED <<at, wants, joined, names, answer>>
        /\ thread' = [thread EXCEPT ![s] = thread'[s]] /\ thread'[s] # "none"
        /\ result' = [result EXCEPT ![s] = result'[s]] /\ result'[s] # "none"
    BY <1>0, <1>2 DEF Lookup!Panic, Lookup!AfterPanic, Lookup!Unlist, Lookup!Resolve,
                      Lookup!callerVars, Lookup!SlotsKept, Lookup!Served, Lookup!ResultInHand
  <2>2. \A t \in Slots : thread[t] # "none" => thread'[t] # "none"
    BY <1>0, <2>1 DEF Lookup!SlotsKept
  <2>3. Lookup!ResultInHand'
    BY <1>0, <2>1 DEF Lookup!SlotsKept, Lookup!Served, Lookup!ResultInHand
  <2>4. Lookup!WaitsForItsName'
    BY <1>0, <2>1, <2>2 DEF Lookup!Served, Lookup!WaitsForItsName
  <2>. QED
    BY <2>3, <2>4 DEF Lookup!Served
<1>. QED
  BY <1>1, <1>2 DEF Lookup!Settles

(* Whichever way a lookup ends, a panic included (Drop for Settle), nobody *)
(* waits on one that ended without an answer, or on one of another name    *)
(* (Lookups::lookup).                                                      *)
THEOREM WaitersAreServed == Lookup!Spec => []Lookup!Served
<1>1. Lookup!Inv /\ Lookup!Served /\ [Lookup!Next]_(Lookup!vars) => Lookup!Served'
  <2>. SUFFICES ASSUME Lookup!Inv, Lookup!Served, [Lookup!Next]_(Lookup!vars)
                PROVE  Lookup!Served'
    OBVIOUS
  <2>1. CASE Lookup!Age \/ UNCHANGED Lookup!vars
    BY <2>1 DEF Lookup!Age, Lookup!vars, Lookup!lookupVars, Lookup!callerVars, Lookup!Served,
                Lookup!WaitsForItsName, Lookup!ResultInHand
  <2>2. ASSUME NEW c \in Callers, NEW h \in Hosts, Lookup!Ask(c, h) PROVE Lookup!Served'
    <3>1. /\ Lookup!SlotsKept /\ UNCHANGED <<thread, names, result, answer, joined>>
          /\ at' = [at EXCEPT ![c] = "asking"] /\ wants' = [wants EXCEPT ![c] = h]
      BY <2>2 DEF Lookup!Ask, Lookup!Goes, Lookup!lookupVars, Lookup!Inv, Lookup!TypeOK
    <3>2. \A d \in Callers : at'[d] = "waiting" => at[d] = "waiting" /\ wants'[d] = wants[d]
      BY <3>1 DEF Lookup!SlotsKept
    <3>. QED
      BY <3>1, <3>2 DEF Lookup!Served, Lookup!WaitsForItsName, Lookup!ResultInHand
  <2>. QED
    BY <2>1, <2>2, ServedCaller, ServedThread DEF Lookup!Next
<1>. QED
  BY <1>1, ServedStart, LookupInvariance, PTL DEF Lookup!Spec

-----------------------------------------------------------------------------
(* The events reported: what was queued and not applied is one sequence,   *)
(* which grows at its end and is taken from at its head.                   *)

LEMMA StreamConstants ==
  /\ Muted \subseteq Requests /\ Weight \in [Requests -> Nat]
  /\ QueueCap \in Nat /\ RingCap \in Nat /\ RingCap >= 1 /\ Flushes \in Nat /\ Others \in Nat
  /\ Flusher \notin Requests /\ Nobody \notin Requests /\ Nobody # Flusher
  BY RequestsAssumption, BoundsAssumption, NamesAssumption

LEMMA PipeAppend ==
  ASSUME NEW S, NEW a \in Seq(S), NEW b \in Seq(S), NEW e \in S
  PROVE  a \o Append(b, e) = Append(a \o b, e)
  BY SMT

LEMMA PipeMove ==
  ASSUME NEW S, NEW a \in Seq(S), NEW b \in Seq(S), b # << >>
  PROVE  Append(a, Head(b)) \o Tail(b) = a \o b
  BY SMT

LEMMA PipeTake ==
  ASSUME NEW S, NEW a \in Seq(S), NEW b \in Seq(S), a # << >>
  PROVE  /\ Tail(a) \o b = Tail(a \o b)
         /\ Head(a \o b) = Head(a) /\ a \o b # << >>
  BY SMT

LEMMA PcIs ==
  ASSUME NEW r \in Requests, pc[r] \in 1 .. 7
  PROVE  /\ At(r, "reserve") <=> pc[r] \in {1, 4}
         /\ At(r, "compose") <=> pc[r] \in {2, 5}
         /\ At(r, "send") <=> pc[r] \in {3, 6}
<1>. DEFINE n == pc[r]
<1>1. \/ n = 1 \/ n = 2 \/ n = 3 \/ n = 4 \/ n = 5 \/ n = 6 \/ n = 7
  OBVIOUS
<1>2. /\ PCs[1] = "reserve" /\ PCs[2] = "compose" /\ PCs[3] = "send" /\ PCs[4] = "reserve"
      /\ PCs[5] = "compose" /\ PCs[6] = "send" /\ PCs[7] = "done"
  BY DEF PCs
<1>. QED
  BY <1>1, <1>2 DEF At

(* What the invariant says of the pipe, and what it leads to.              *)
LEMMA PipeIs ==
  ASSUME Kinds
  PROVE  /\ Pipe \in Seq(Frames) /\ DOMAIN Pipe = 1 .. Len(Pipe) /\ Len(Pipe) \in Nat
         /\ \A i \in DOMAIN Pipe : Pipe[i] \in Frames
         /\ Landed \subseteq Requests \cup {Nobody}
<1>1. Pipe \in Seq(Frames)
  BY ConcatProperties DEF Kinds, EmitKinds, WireKinds, Pipe
<1>2. Landed \subseteq Requests \cup {Nobody}
  <2>1. \A s \in DOMAIN ring : ring[s] \in Entries
    BY DEF Kinds, ApplyKinds
  <2>. QED
    BY <2>1 DEF Landed, Entries
<1>. QED
  BY <1>1, <1>2

LEMMA StreamStart == Init => Inv
<1>. SUFFICES ASSUME Init PROVE Inv
  OBVIOUS
<1>. USE StreamConstants
<1>1. Kinds
  <2>1. EmitKinds
    <3>1. pc \in [Requests -> 1 .. 7]
      BY DEF Init
    <3>2. queue \in Seq(Frames) /\ Len(queue) <= QueueCap
      BY DEF Init
    <3>. QED
      BY <3>1, <3>2 DEF Init, EmitKinds
  <2>2. WireKinds
    <3>1. channel \in Seq(Frames)
      BY DEF Init
    <3>2. acks \in Seq(Nat)
      BY DEF Init
    <3>. QED
      BY <3>1, <3>2 DEF Init, WireKinds
  <2>3. ApplyKinds
    BY DEF Init, ApplyKinds
  <2>4. FlushKinds
    BY DEF Init, FlushKinds, IdleFlush
  <2>. QED
    BY <2>1, <2>2, <2>3, <2>4 DEF Kinds
<1>2. Pipe = << >> /\ Landed = {} /\ DOMAIN Pipe = {}
  <2>1. << >> \o << >> = << >>
    BY ConcatEmptySeq
  <2>. QED
    BY <2>1 DEF Init, Pipe, Landed
<1>3. UpTogether /\ HeldToQueue /\ Numbered /\ AmendsItsOwn
  BY <1>1 DEF Init, UpTogether, HeldToQueue, Numbered, AmendsItsOwn, IdleFlush
<1>4. Reported = {}
  BY DEF Init, Reported
<1>5. Covered
  BY DEF Init, Covered, IdleFlush
<1>6. InOrder
  BY <1>2 DEF Init, InOrder, Sorted, Framed, AppliedUpTo
<1>7. NothingLost /\ Remembered
  BY <1>4 DEF Init, NothingLost, Remembered
<1>8. Behind
  BY <1>2 DEF Init, Behind, BarriersGiven, BarrierBehind, AckedMeansLanded, IdleFlush
<1>. QED
  BY <1>1, <1>3, <1>5, <1>6, <1>7, <1>8 DEF Inv

LEMMA StreamReserve ==
  ASSUME NEW r \in Requests
  PROVE  Inv /\ Reserve(r) => Inv'
<1>. SUFFICES ASSUME Inv, Reserve(r) PROVE Inv'
  OBVIOUS
<1>. USE StreamConstants
<1>0. Kinds
  BY DEF Inv
<1>1. /\ pc[r] \in {1, 4} /\ pc' = [pc EXCEPT ![r] = pc[r] + 1] /\ pc \in [Requests -> 1 .. 7]
      /\ UNCHANGED <<id, lock, logged, barriers, queue, acked, closed, channel, acks, writer>>
      /\ UNCHANGED <<applier, ids, lastId, ring, amended, others>>
      /\ UNCHANGED <<asked, toFlush, flushing, flushed, before>>
  BY <1>0, PcIs DEF Reserve, Step, Kinds, EmitKinds, wireVars, applyVars, flushVars
<1>2. Pipe' = Pipe /\ Landed' = Landed /\ Reported' = Reported
  BY <1>1 DEF Pipe, Landed, Reported
<1>3. Kinds'
  <2>1. pc' \in [Requests -> 1 .. 7]
    BY <1>1
  <2>2. EmitKinds'
    BY <1>0, <1>1, <2>1 DEF Kinds, EmitKinds
  <2>. QED
    BY <1>0, <1>1, <2>2 DEF Kinds, WireKinds, ApplyKinds, FlushKinds
<1>4. UpTogether' /\ HeldToQueue' /\ AmendsItsOwn'
  BY <1>1 DEF Inv, UpTogether, HeldToQueue, AmendsItsOwn, Retained, Decisions
<1>5. Numbered'
  BY <1>1 DEF Inv, Numbered
<1>6. Covered'
  BY <1>1, <1>2 DEF Inv, Covered
<1>7. ASSUME applier PROVE (InOrder /\ NothingLost /\ Remembered /\ Behind)'
  <2>1. InOrder'
    BY <1>0, <1>1, <1>2, <1>7, PipeIs
       DEF Inv, InOrder, Sorted, Framed, AppliedUpTo, IsLogged, IsStatus
  <2>2. NothingLost'
    BY <1>1, <1>2, <1>7 DEF Inv, NothingLost, InPipe, IsLogged
  <2>3. Remembered'
    BY <1>1, <1>7 DEF Inv, Remembered, Retained, Decisions
  <2>4. Behind'
    BY <1>1, <1>2, <1>7
       DEF Inv, Behind, BarriersGiven, BarrierBehind, AckedMeansLanded, BarrierIs, Ahead, IsLogged
  <2>. QED
    BY <2>1, <2>2, <2>3, <2>4
<1>. QED
  BY <1>1, <1>3, <1>4, <1>5, <1>6, <1>7 DEF Inv

LEMMA StreamCompose ==
  ASSUME NEW r \in Requests
  PROVE  Inv /\ Compose(r) => Inv'
<1>. SUFFICES ASSUME Inv, Compose(r) PROVE Inv'
  OBVIOUS
<1>. USE StreamConstants
<1>0. Kinds /\ pc \in [Requests -> 1 .. 7] /\ id \in [Requests -> Nat] /\ logged \in Nat
  BY DEF Inv, Kinds, EmitKinds
<1>1. /\ pc[r] \in {2, 5} /\ pc' = [pc EXCEPT ![r] = pc[r] + 1] /\ lock = Nobody /\ lock' = r
      /\ pc[r] = 2 => logged' = logged + 1 /\ id' = [id EXCEPT ![r] = logged + 1]
      /\ pc[r] = 5 => logged' = logged /\ id' = id
      /\ UNCHANGED <<barriers, queue, acked, closed, channel, acks, writer>>
      /\ UNCHANGED <<applier, ids, lastId, ring, amended, others>>
      /\ UNCHANGED <<asked, toFlush, flushing, flushed, before>>
  BY <1>0, PcIs DEF Compose, MayCompose, Step, boundVars, wireVars, applyVars, flushVars
<1>2. /\ logged' \in Nat /\ logged <= logged' /\ id' \in [Requests -> Nat]
      /\ \A q \in Requests : q # r => id'[q] = id[q] /\ pc'[q] = pc[q]
      /\ pc[r] = 2 => id[r] = 0 /\ id'[r] = logged' /\ pc'[r] = 3 /\ logged' = logged + 1
      /\ pc[r] = 5 => id'[r] = id[r] /\ pc'[r] = 6 /\ logged' = logged
  BY <1>0, <1>1 DEF Inv, Numbered
<1>. USE <1>0
<1>3. Pipe' = Pipe /\ Landed' = Landed /\ Reported' = Reported
  <2>1. Reported' = Reported
    BY <1>1, <1>2 DEF Reported
  <2>. QED
    BY <1>1, <2>1 DEF Pipe, Landed
<1>4. Kinds'
  <2>0. pc' \in [Requests -> 1 .. 7]
    BY <1>1
  <2>1. EmitKinds'
    BY <1>1, <1>2, <2>0 DEF Kinds, EmitKinds
  <2>. QED
    BY <1>1, <2>1 DEF Kinds, WireKinds, ApplyKinds, FlushKinds
<1>5. UpTogether' /\ AmendsItsOwn'
  BY <1>1 DEF Inv, UpTogether, AmendsItsOwn, Retained, Decisions
<1>6. HeldToQueue'
  BY <1>1 DEF Inv, HeldToQueue
<1>7. \A q \in Requests : pc[q] # 3
  BY <1>1 DEF Inv, HeldToQueue
<1>8. Numbered'
  BY <1>1, <1>2, <1>7 DEF Inv, Numbered
<1>9. Covered'
  BY <1>1, <1>3 DEF Inv, Covered
<1>10. ASSUME applier PROVE (InOrder /\ NothingLost /\ Remembered /\ Behind)'
  <2>0. /\ InOrder /\ lastId \in Nat
        /\ \A q \in Requests : pc[q] >= 4 => id'[q] = id[q] /\ (q # r => pc'[q] = pc[q])
    BY <1>1, <1>2, <1>10 DEF Inv, Kinds, ApplyKinds
  <2>1. InOrder'
    <3>1. Sorted'
      BY <1>3, <2>0 DEF InOrder, Sorted, IsLogged
    <3>2. Framed'
      BY <1>1, <1>2, <1>3, <2>0 DEF InOrder, Framed, IsLogged, IsStatus
    <3>3. AppliedUpTo'
      BY <1>1, <1>2, <1>3, <2>0 DEF InOrder, AppliedUpTo
    <3>. QED
      BY <3>1, <3>2, <3>3 DEF InOrder
  <2>2. NothingLost'
    BY <1>1, <1>3, <1>10 DEF Inv, NothingLost, InPipe, IsLogged
  <2>3. Remembered'
    <3>1. \A k \in DOMAIN ids : id'[ring[ids[k].seq].by] = id[ring[ids[k].seq].by]
      <4>. SUFFICES ASSUME NEW k \in DOMAIN ids
                    PROVE  id'[ring[ids[k].seq].by] = id[ring[ids[k].seq].by]
        OBVIOUS
      <4>1. ids[k].seq \in DOMAIN ring /\ ring[ids[k].seq].by \in Requests
        BY <1>10 DEF Inv, Remembered
      <4>2. pc[ring[ids[k].seq].by] >= 4
        BY <2>0, <4>1 DEF InOrder, AppliedUpTo, Landed
      <4>. QED
        BY <2>0, <4>1, <4>2
    <3>. QED
      BY <1>1, <1>10, <3>1 DEF Inv, Remembered, Retained, Decisions
  <2>4. Behind'
    BY <1>1, <1>3, <1>10
       DEF Inv, Behind, BarriersGiven, BarrierBehind, AckedMeansLanded, BarrierIs, Ahead, IsLogged
  <2>. QED
    BY <2>1, <2>2, <2>3, <2>4
<1>. QED
  BY <1>1, <1>4, <1>5, <1>6, <1>8, <1>9, <1>10 DEF Inv

(* What a step of the queue's end, which is no event, leaves alone.        *)
LEMMA StreamQueueFails ==
  ASSUME NEW r \in Requests
  PROVE  Inv /\ QueueFails(r) => Inv'
<1>. SUFFICES ASSUME Inv, QueueFails(r) PROVE Inv'
  OBVIOUS
<1>. USE StreamConstants
<1>0. Kinds /\ pc \in [Requests -> 1 .. 7] /\ id \in [Requests -> Nat] /\ logged \in Nat
  BY DEF Inv, Kinds, EmitKinds
<1>1. /\ pc[r] \in {3, 6} /\ pc' = [pc EXCEPT ![r] = pc[r] + 1] /\ lock' = Nobody /\ ~writer
      /\ UNCHANGED <<id, logged, barriers, queue, acked, closed, channel, acks, writer>>
      /\ UNCHANGED <<applier, ids, lastId, ring, amended, others>>
      /\ UNCHANGED <<asked, toFlush, flushing, flushed, before>>
  BY <1>0, PcIs DEF QueueFails, Step, wireVars, applyVars, flushVars
<1>. USE <1>0
<1>2. ~applier /\ lock = r
  BY <1>1 DEF Inv, UpTogether, HeldToQueue
<1>3. Reported \subseteq Reported'
  BY <1>1 DEF Reported
<1>4. Kinds'
  <2>1. pc' \in [Requests -> 1 .. 7]
    BY <1>1
  <2>2. EmitKinds'
    BY <1>1, <2>1 DEF Kinds, EmitKinds
  <2>. QED
    BY <1>1, <2>2 DEF Kinds, WireKinds, ApplyKinds, FlushKinds
<1>5. UpTogether' /\ AmendsItsOwn' /\ HeldToQueue' /\ Numbered'
  <2>1. UpTogether' /\ AmendsItsOwn'
    BY <1>1 DEF Inv, UpTogether, AmendsItsOwn, Retained, Decisions
  <2>2. HeldToQueue'
    BY <1>1, <1>2 DEF Inv, HeldToQueue
  <2>3. Numbered'
    BY <1>1 DEF Inv, Numbered
  <2>. QED
    BY <2>1, <2>2, <2>3
<1>6. Covered'
  BY <1>1, <1>3 DEF Inv, Covered
<1>. QED
  BY <1>1, <1>2, <1>4, <1>5, <1>6 DEF Inv

LEMMA StreamWrite == Inv /\ Write => Inv'
<1>. SUFFICES ASSUME Inv, Write PROVE Inv'
  OBVIOUS
<1>. USE StreamConstants
<1>0. Kinds /\ queue \in Seq(Frames) /\ channel \in Seq(Frames)
  BY DEF Inv, Kinds, EmitKinds, WireKinds
<1>1. /\ queue # << >> /\ channel' = Append(channel, Head(queue)) /\ queue' = Tail(queue)
      /\ UNCHANGED <<pc, id, lock, logged, barriers, acked, closed, acks, writer>>
      /\ UNCHANGED <<applier, ids, lastId, ring, amended, others>>
      /\ UNCHANGED <<asked, toFlush, flushing, flushed, before>>
  BY DEF Write, applyVars, flushVars
<1>. USE <1>0
<1>2. /\ Head(queue) \in Frames /\ Tail(queue) \in Seq(Frames) /\ Len(Tail(queue)) = Len(queue) - 1
      /\ Append(channel, Head(queue)) \in Seq(Frames)
  BY <1>1, HeadTailProperties, AppendProperties
<1>3. Pipe' = Pipe /\ Landed' = Landed /\ Reported' = Reported
  BY <1>1, PipeMove DEF Pipe, Landed, Reported
<1>4. Kinds'
  <2>1. EmitKinds'
    BY <1>1, <1>2 DEF Kinds, EmitKinds
  <2>2. WireKinds'
    BY <1>1, <1>2 DEF Kinds, WireKinds
  <2>. QED
    BY <1>1, <2>1, <2>2 DEF Kinds, ApplyKinds, FlushKinds
<1>5. UpTogether' /\ AmendsItsOwn' /\ HeldToQueue' /\ Numbered'
  BY <1>1 DEF Inv, UpTogether, AmendsItsOwn, HeldToQueue, Numbered, Retained, Decisions
<1>6. Covered'
  BY <1>1, <1>3 DEF Inv, Covered
<1>7. ASSUME applier PROVE (InOrder /\ NothingLost /\ Remembered /\ Behind)'
  <2>1. InOrder' /\ NothingLost'
    BY <1>1, <1>3, <1>7
       DEF Inv, InOrder, Sorted, Framed, AppliedUpTo, NothingLost, InPipe, IsLogged, IsStatus
  <2>2. Remembered'
    BY <1>1, <1>7 DEF Inv, Remembered, Retained, Decisions
  <2>3. Behind'
    BY <1>1, <1>3, <1>7
       DEF Inv, Behind, BarriersGiven, BarrierBehind, AckedMeansLanded, BarrierIs, Ahead, IsLogged
  <2>. QED
    BY <2>1, <2>2, <2>3
<1>. QED
  BY <1>1, <1>4, <1>5, <1>6, <1>7 DEF Inv

LEMMA StreamEnds == Inv /\ (WriteFails \/ AcksEnd) => Inv'
<1>. SUFFICES ASSUME Inv, WriteFails \/ AcksEnd PROVE Inv'
  OBVIOUS
<1>. USE StreamConstants
<1>1. /\ ~applier /\ queue' \in {queue, << >>} /\ writer' \in BOOLEAN /\ closed' = TRUE
      /\ UNCHANGED <<pc, id, lock, logged, barriers, acked, channel, acks>>
      /\ UNCHANGED <<applier, ids, lastId, ring, amended, others>>
      /\ UNCHANGED <<asked, toFlush, flushing, flushed, before>>
  BY DEF WriteFails, AcksEnd, Closes, emitVars, wireVars, applyVars, flushVars, Inv, Kinds, WireKinds
<1>2. Kinds'
  <2>0. queue \in Seq(Frames) /\ Len(queue) <= QueueCap
    BY DEF Inv, Kinds, EmitKinds
  <2>1. queue' \in Seq(Frames) /\ Len(queue') <= QueueCap
    <3>1. CASE queue' = queue
      BY <2>0, <3>1
    <3>2. CASE queue' = << >>
      BY <3>2
    <3>. QED
      BY <1>1, <3>1, <3>2
  <2>2. EmitKinds'
    BY <1>1, <2>1 DEF Inv, Kinds, EmitKinds
  <2>3. WireKinds'
    BY <1>1 DEF Inv, Kinds, WireKinds
  <2>. QED
    BY <1>1, <2>2, <2>3 DEF Inv, Kinds, ApplyKinds, FlushKinds
<1>3. UpTogether' /\ AmendsItsOwn' /\ HeldToQueue' /\ Numbered'
  BY <1>1 DEF Inv, UpTogether, AmendsItsOwn, HeldToQueue, Numbered, Retained, Decisions
<1>4. Reported' = Reported
  BY <1>1 DEF Reported
<1>5. Covered'
  BY <1>1, <1>4 DEF Inv, Covered
<1>. QED
  BY <1>1, <1>2, <1>3, <1>5 DEF Inv

(* The pipe after a step that queues, and after one that takes from it.    *)
LEMMA Queued ==
  ASSUME Kinds, NEW e \in Frames, queue' = Append(queue, e), channel' = channel
  PROVE  LET n == Len(Pipe) IN
         /\ n \in Nat /\ DOMAIN Pipe = 1 .. n /\ DOMAIN Pipe' = 1 .. n + 1
         /\ Pipe'[n + 1] = e /\ \A i \in 1 .. n : Pipe'[i] = Pipe[i]
         /\ queue' \in Seq(Frames) /\ Len(queue') = Len(queue) + 1
<1>0. channel \in Seq(Frames) /\ queue \in Seq(Frames)
  BY DEF Kinds, EmitKinds, WireKinds
<1>1. Pipe' = Append(Pipe, e)
  BY <1>0, PipeAppend DEF Pipe
<1>2. Pipe \in Seq(Frames)
  BY PipeIs
<1>3. /\ Len(Append(Pipe, e)) = Len(Pipe) + 1 /\ Append(Pipe, e) \in Seq(Frames)
      /\ Append(Pipe, e)[Len(Pipe) + 1] = e
      /\ \A i \in 1 .. Len(Pipe) : Append(Pipe, e)[i] = Pipe[i]
  BY <1>2, AppendProperties
<1>4. queue' \in Seq(Frames) /\ Len(queue') = Len(queue) + 1
  BY <1>0, AppendProperties
<1>. QED
  BY <1>1, <1>2, <1>3, <1>4

LEMMA Taken ==
  ASSUME Kinds, channel # << >>, channel' = Tail(channel), queue' = queue
  PROVE  LET n == Len(Pipe) IN
         /\ n \in Nat /\ n >= 1 /\ DOMAIN Pipe = 1 .. n /\ DOMAIN Pipe' = 1 .. n - 1
         /\ Head(channel) = Pipe[1] /\ \A i \in 1 .. n - 1 : Pipe'[i] = Pipe[i + 1]
         /\ Pipe[1] \in Frames /\ channel' \in Seq(Frames)
<1>0. channel \in Seq(Frames) /\ queue \in Seq(Frames)
  BY DEF Kinds, EmitKinds, WireKinds
<1>1. Pipe' = Tail(Pipe) /\ Head(Pipe) = Head(channel) /\ Pipe # << >>
  BY <1>0, PipeTake DEF Pipe
<1>2. Pipe \in Seq(Frames)
  BY PipeIs
<1>3. /\ Len(Tail(Pipe)) = Len(Pipe) - 1 /\ Tail(Pipe) \in Seq(Frames) /\ Head(Pipe) \in Frames
      /\ \A i \in 1 .. Len(Tail(Pipe)) : Tail(Pipe)[i] = Pipe[i + 1]
      /\ Head(Pipe) = Pipe[1] /\ Len(Pipe) >= 1
  <2>1. Len(Pipe) >= 1 /\ Head(Pipe) = Pipe[1]
    BY <1>1, <1>2
  <2>. QED
    BY <1>1, <1>2, <2>1, HeadTailProperties
<1>4. channel' \in Seq(Frames)
  BY <1>0, HeadTailProperties
<1>. QED
  BY <1>1, <1>2, <1>3, <1>4

LEMMA StillSorted ==
  ASSUME Kinds, Sorted, channel # << >>, channel' = Tail(channel), queue' = queue
  PROVE  Sorted'
<1>. DEFINE n == Len(Pipe)
<1>1. /\ n \in Nat /\ n >= 1 /\ DOMAIN Pipe = 1 .. n /\ DOMAIN Pipe' = 1 .. n - 1
      /\ \A i \in 1 .. n - 1 : Pipe'[i] = Pipe[i + 1]
  BY Taken
<1>. HIDE DEF n
<1>. SUFFICES ASSUME NEW i \in 1 .. n - 1, NEW j \in 1 .. n - 1, i < j
              PROVE  /\ Pipe'[i].kind = "logged" /\ Pipe'[j].kind = "logged"
                          => Pipe'[i].id < Pipe'[j].id
                     /\ Pipe'[i].kind = "status" => ~IsLogged(Pipe'[j], Pipe'[i].by)
  BY <1>1 DEF Sorted, IsLogged
<1>2. i + 1 \in DOMAIN Pipe /\ j + 1 \in DOMAIN Pipe /\ i + 1 < j + 1
  BY <1>1
<1>. QED
  BY <1>1, <1>2 DEF Sorted, IsLogged

LEMMA StreamQueue ==
  ASSUME NEW r \in Requests
  PROVE  Inv /\ Queue(r) => Inv'
<1>. SUFFICES ASSUME Inv, Queue(r) PROVE Inv'
  OBVIOUS
<1>. DEFINE n == Len(Pipe)
            e == Event(r)
<1>. USE StreamConstants
<1>0. Kinds /\ pc \in [Requests -> 1 .. 7] /\ id \in [Requests -> Nat] /\ logged \in Nat
  BY DEF Inv, Kinds, EmitKinds
<1>1. /\ pc[r] \in {3, 6} /\ pc' = [pc EXCEPT ![r] = pc[r] + 1] /\ lock' = Nobody
      /\ queue' = Append(queue, e) /\ Len(queue) < QueueCap
      /\ UNCHANGED <<id, logged, barriers, acked, closed, channel, acks, writer>>
      /\ UNCHANGED <<applier, ids, lastId, ring, amended, others>>
      /\ UNCHANGED <<asked, toFlush, flushing, flushed, before>>
  BY <1>0, PcIs DEF Queue, Step, boundVars, wireVars, applyVars, flushVars
<1>2. /\ e \in Frames /\ e.by = r /\ e.id = id[r] /\ e.kind # "barrier"
      /\ e.kind = "logged" <=> pc[r] = 3
      /\ e.kind = "status" <=> pc[r] = 6
  BY <1>0, <1>1 DEF Event, Frames
<1>. USE <1>0
<1>. HIDE DEF e
<1>3. /\ n \in Nat /\ DOMAIN Pipe = 1 .. n /\ DOMAIN Pipe' = 1 .. n + 1
      /\ Pipe'[n + 1] = e /\ \A i \in 1 .. n : Pipe'[i] = Pipe[i]
      /\ queue' \in Seq(Frames) /\ Len(queue') = Len(queue) + 1
  BY <1>1, <1>2, Queued
<1>. HIDE DEF n
<1>4. /\ Landed' = Landed /\ lock = r
      /\ Reported' = IF pc[r] = 3 THEN Reported \cup {r} ELSE Reported
  <2>1. id[r] # 0 /\ lock = r
    BY <1>1 DEF Inv, Numbered, HeldToQueue
  <2>. QED
    BY <1>1, <2>1 DEF Landed, Reported
<1>5. Kinds'
  <2>0. pc' \in [Requests -> 1 .. 7]
    BY <1>1
  <2>1. EmitKinds'
    BY <1>1, <1>3, <2>0 DEF Kinds, EmitKinds
  <2>. QED
    BY <1>1, <2>1 DEF Kinds, WireKinds, ApplyKinds, FlushKinds
<1>6. UpTogether' /\ AmendsItsOwn' /\ HeldToQueue' /\ Numbered'
  <2>1. UpTogether' /\ AmendsItsOwn'
    BY <1>1 DEF Inv, UpTogether, AmendsItsOwn, Retained, Decisions
  <2>2. HeldToQueue'
    BY <1>1, <1>4 DEF Inv, HeldToQueue
  <2>3. Numbered'
    BY <1>1 DEF Inv, Numbered
  <2>. QED
    BY <2>1, <2>2, <2>3
<1>7. Covered'
  BY <1>1, <1>4 DEF Inv, Covered
<1>8. ASSUME applier PROVE (InOrder /\ NothingLost /\ Remembered /\ Behind)'
  <2>0. /\ Sorted /\ Framed /\ AppliedUpTo /\ NothingLost /\ Remembered /\ Behind /\ Numbered
        /\ lastId \in Nat /\ amended \subseteq Requests
    BY <1>8 DEF Inv, InOrder, Kinds, ApplyKinds
  <2>2. Sorted'
    <3>. SUFFICES ASSUME NEW i \in 1 .. n + 1, NEW j \in 1 .. n + 1, i < j
                  PROVE  /\ Pipe'[i].kind = "logged" /\ Pipe'[j].kind = "logged"
                              => Pipe'[i].id < Pipe'[j].id
                         /\ Pipe'[i].kind = "status" => ~IsLogged(Pipe'[j], Pipe'[i].by)
      BY <1>3 DEF Sorted, IsLogged
    <3>0. i \in 1 .. n /\ Pipe'[i] = Pipe[i]
      BY <1>3
    <3>1. CASE j \in 1 .. n
      BY <1>3, <2>0, <3>0, <3>1 DEF Sorted, IsLogged
    <3>2. CASE j = n + 1
      <4>1. Pipe'[j] = e
        BY <1>3, <3>2
      <4>2. ASSUME Pipe[i].kind = "logged", pc[r] = 3 PROVE Pipe[i].id < id[r]
        <5>1. /\ Pipe[i].by \in Requests /\ Pipe[i].id = id[Pipe[i].by] /\ pc[Pipe[i].by] >= 4
          BY <1>3, <2>0, <3>0, <4>2 DEF Framed, IsLogged
        <5>2. /\ id[Pipe[i].by] <= logged /\ id[r] = logged /\ id[r] # 0 /\ Pipe[i].by # r
          BY <2>0, <4>2, <5>1 DEF Numbered
        <5>3. id[Pipe[i].by] # id[r]
          BY <2>0, <5>1, <5>2 DEF Numbered
        <5>. QED
          BY <5>1, <5>2, <5>3
      <4>3. ASSUME Pipe[i].kind = "status", pc[r] = 3 PROVE Pipe[i].by # r
        <5>0. Framed /\ i \in DOMAIN Pipe
          BY <1>3, <2>0, <3>0
        <5>1. /\ Pipe[i].by \in Requests
              /\ \A q \in Requests : IsStatus(Pipe[i], q) => pc[q] = 7
          BY ONLY <4>3, <5>0 DEF Framed
        <5>2. pc[Pipe[i].by] = 7
          BY ONLY <4>3, <5>1 DEF IsStatus
        <5>. QED
          BY ONLY <4>3, <5>2
      <4>. QED
        BY <1>2, <3>0, <4>1, <4>2, <4>3 DEF IsLogged
    <3>3. j \in 1 .. n \/ j = n + 1
      BY <1>3
    <3>. QED
      BY <3>1, <3>2, <3>3
  <2>3. Framed'
    <3>0. \A i \in 1 .. n + 1 : (i \in 1 .. n /\ Pipe'[i] = Pipe[i]) \/ Pipe'[i] = e
      BY <1>3
    <3>8. \A i \in 1 .. n : Pipe[i].kind # "barrier" => Pipe[i].by \in Requests
      BY <1>3, <2>0 DEF Framed
    <3>1. \A i \in 1 .. n + 1 : Pipe'[i].kind # "barrier" => Pipe'[i].by \in Requests
      BY <1>2, <3>0, <3>8
    <3>9. \A q \in Requests : (pc[q] >= 4 => pc'[q] >= 4) /\ (pc[q] = 7 => pc'[q] = 7)
      BY <1>1
    <3>10. ASSUME NEW i \in 1 .. n, NEW q \in Requests
          PROVE  /\ IsLogged(Pipe[i], q) =>
                      /\ Pipe[i].id = id[q] /\ pc[q] >= 4 /\ id[q] > lastId
                      /\ q \notin Landed /\ q \notin amended
                 /\ IsStatus(Pipe[i], q) => Pipe[i].id = id[q] /\ pc[q] = 7 /\ id[q] # 0
      BY <1>3, <2>0 DEF Framed
    <3>2. ASSUME NEW i \in 1 .. n, NEW q \in Requests
          PROVE  /\ IsLogged(Pipe[i], q) =>
                      /\ Pipe[i].id = id[q] /\ pc'[q] >= 4 /\ id[q] > lastId
                      /\ q \notin Landed /\ q \notin amended
                 /\ IsStatus(Pipe[i], q) => Pipe[i].id = id[q] /\ pc'[q] = 7 /\ id[q] # 0
      BY <3>9, <3>10
    <3>3. pc[r] = 3 => /\ id[r] > lastId /\ r \notin Landed /\ r \notin amended /\ pc'[r] = 4
      BY <1>1, <2>0 DEF AppliedUpTo
    <3>4. pc[r] = 6 => id[r] # 0 /\ pc'[r] = 7
      BY <1>1, <2>0 DEF Numbered
    <3>5. ASSUME NEW q \in Requests
          PROVE  /\ IsLogged(e, q) =>
                      /\ e.id = id[q] /\ pc'[q] >= 4 /\ id[q] > lastId
                      /\ q \notin Landed /\ q \notin amended
                 /\ IsStatus(e, q) => e.id = id[q] /\ pc'[q] = 7 /\ id[q] # 0
      BY <1>2, <3>3, <3>4 DEF IsLogged, IsStatus
    <3>6. id' = id /\ lastId' = lastId /\ amended' = amended
      BY <1>1
    <3>7. ASSUME NEW i \in 1 .. n + 1, NEW q \in Requests
          PROVE  /\ IsLogged(Pipe'[i], q) =>
                      /\ Pipe'[i].id = id'[q] /\ pc'[q] >= 4 /\ id'[q] > lastId'
                      /\ q \notin Landed' /\ q \notin amended'
                 /\ IsStatus(Pipe'[i], q) => Pipe'[i].id = id'[q] /\ pc'[q] = 7 /\ id'[q] # 0
      <4>1. CASE i \in 1 .. n
        <5>1. Pipe'[i] = Pipe[i]
          BY <1>3, <4>1
        <5>. QED
          BY <1>4, <3>2, <3>6, <4>1, <5>1
      <4>2. CASE i = n + 1
        <5>1. Pipe'[i] = e
          BY <1>3, <4>2
        <5>. QED
          BY <1>4, <3>5, <3>6, <5>1
      <4>. QED
        BY <1>3, <4>1, <4>2
    <3>. QED
      BY <1>3, <3>1, <3>7 DEF Framed, IsLogged, IsStatus
  <2>4. AppliedUpTo'
    BY <1>1, <1>4, <2>0 DEF AppliedUpTo
  <2>5. NothingLost'
    <3>1. ASSUME NEW q \in Requests, InPipe(q) PROVE InPipe(q)'
      <4>1. PICK i \in 1 .. n : IsLogged(Pipe[i], q)
        BY <1>3, <3>1 DEF InPipe
      <4>2. i \in DOMAIN Pipe' /\ Pipe'[i] = Pipe[i]
        BY <1>3
      <4>. QED
        BY <4>1, <4>2 DEF InPipe, IsLogged
    <3>2. pc[r] = 3 => InPipe(r)'
      <4>1. n + 1 \in DOMAIN Pipe'
        BY <1>3
      <4>. QED
        BY <1>2, <1>3, <4>1 DEF InPipe, IsLogged
    <3>. QED
      BY <1>4, <2>0, <3>1, <3>2 DEF NothingLost
  <2>6. Remembered'
    BY <1>1, <2>0 DEF Remembered, Retained, Decisions
  <2>7. Behind'
    <3>1. \A i \in 1 .. n + 1 : Pipe'[i].kind = "barrier" => i \in 1 .. n /\ Pipe'[i] = Pipe[i]
      BY <1>2, <1>3
    <3>2. \A i \in 1 .. n : \A j \in 1 .. i - 1 : Pipe'[j] = Pipe[j]
      BY <1>3
    <3>3. BarriersGiven'
      BY <1>1, <1>3, <2>0, <3>1 DEF Behind, BarriersGiven, BarrierIs
    <3>4. BarrierBehind'
      <4>. SUFFICES ASSUME flushing.at = "wait", NEW i \in 1 .. n + 1, BarrierIs(Pipe'[i], barriers),
                           NEW q \in before[flushing.for], q \notin Landed
                    PROVE  \E j \in 1 .. i - 1 : IsLogged(Pipe'[j], q)
        BY <1>1, <1>3, <1>4 DEF BarrierBehind, BarrierIs, Ahead, IsLogged
      <4>1. i \in 1 .. n /\ BarrierIs(Pipe[i], barriers)
        BY <3>1 DEF BarrierIs
      <4>2. \E j \in 1 .. i - 1 : IsLogged(Pipe[j], q)
        BY <1>3, <2>0, <4>1 DEF Behind, BarrierBehind, Ahead
      <4>. QED
        BY <3>2, <4>1, <4>2
    <3>5. AckedMeansLanded'
      BY <1>1, <1>4, <2>0 DEF Behind, AckedMeansLanded
    <3>. QED
      BY <3>3, <3>4, <3>5 DEF Behind
  <2>. QED
    BY <2>2, <2>3, <2>4, <2>5, <2>6, <2>7 DEF InOrder
<1>. QED
  BY <1>1, <1>5, <1>6, <1>7, <1>8 DEF Inv

LEMMA MaxOfTwo ==
  ASSUME NEW a \in Int, NEW b \in Int
  PROVE  Max({a, b}) \in {a, b} /\ Max({a, b}) = IF a >= b THEN a ELSE b
<1>. DEFINE M == Max({a, b})
<1>1. \E x \in {a, b} : \A y \in {a, b} : x >= y
  OBVIOUS
<1>2. M \in {a, b} /\ \A y \in {a, b} : M >= y
  BY <1>1 DEF Max
<1>. HIDE DEF M
<1>3. M = IF a >= b THEN a ELSE b
  BY <1>2
<1>. QED
  BY <1>2, <1>3 DEF M

LEMMA StreamReadAck == Inv /\ ReadAck => Inv'
<1>. SUFFICES ASSUME Inv, ReadAck PROVE Inv'
  OBVIOUS
<1>. USE StreamConstants
<1>0. Kinds /\ acks \in Seq(Nat) /\ acked \in Nat
  BY DEF Inv, Kinds, WireKinds
<1>1. /\ acks # << >> /\ acked' = Max({acked, Head(acks)}) /\ acks' = Tail(acks)
      /\ UNCHANGED <<pc, id, lock, logged, barriers, queue, closed, channel, writer>>
      /\ UNCHANGED <<applier, ids, lastId, ring, amended, others>>
      /\ UNCHANGED <<asked, toFlush, flushing, flushed, before>>
  BY DEF ReadAck, emitVars, applyVars, flushVars
<1>. USE <1>0
<1>2. /\ Head(acks) = acks[1] /\ 1 \in DOMAIN acks /\ acks[1] \in Nat /\ Tail(acks) \in Seq(Nat)
      /\ \A i \in DOMAIN Tail(acks) : \E j \in DOMAIN acks : Tail(acks)[i] = acks[j]
  <2>1. /\ Head(acks) = acks[1] /\ Len(acks) \in Nat /\ Len(acks) >= 1 /\ DOMAIN acks = 1 .. Len(acks)
    BY <1>1
  <2>2. /\ Head(acks) \in Nat /\ Tail(acks) \in Seq(Nat) /\ Len(Tail(acks)) = Len(acks) - 1
        /\ \A i \in 1 .. Len(Tail(acks)) : Tail(acks)[i] = acks[i + 1]
    BY <1>1, HeadTailProperties
  <2>3. \A i \in 1 .. Len(acks) - 1 : i + 1 \in 1 .. Len(acks)
    BY <2>1
  <2>4. DOMAIN Tail(acks) = 1 .. Len(Tail(acks))
    BY <2>2
  <2>. QED
    BY <2>1, <2>2, <2>3, <2>4
<1>3. acked' \in {acked, acks[1]} /\ acked' \in Nat
  <2>1. acked \in Int /\ acks[1] \in Int
    BY <1>2
  <2>2. Max({acked, acks[1]}) \in {acked, acks[1]}
    BY ONLY <2>1, MaxOfTwo
  <2>. QED
    BY <1>1, <1>2, <2>2
<1>4. Pipe' = Pipe /\ Landed' = Landed /\ Reported' = Reported
  BY <1>1 DEF Pipe, Landed, Reported
<1>5. Kinds'
  <2>1. WireKinds'
    BY <1>1, <1>2, <1>3 DEF Kinds, WireKinds
  <2>. QED
    BY <1>1, <2>1 DEF Kinds, EmitKinds, ApplyKinds, FlushKinds
<1>6. UpTogether' /\ AmendsItsOwn' /\ HeldToQueue' /\ Numbered'
  BY <1>1 DEF Inv, UpTogether, AmendsItsOwn, HeldToQueue, Numbered, Retained, Decisions
<1>7. Covered'
  BY <1>1, <1>4 DEF Inv, Covered
<1>8. ASSUME applier PROVE (InOrder /\ NothingLost /\ Remembered /\ Behind)'
  <2>1. InOrder' /\ NothingLost'
    BY <1>1, <1>4, <1>8
       DEF Inv, InOrder, Sorted, Framed, AppliedUpTo, NothingLost, InPipe, IsLogged, IsStatus
  <2>2. Remembered'
    BY <1>1, <1>8 DEF Inv, Remembered, Retained, Decisions
  <2>3. BarriersGiven'
    BY <1>1, <1>2, <1>3, <1>4, <1>8 DEF Inv, Behind, BarriersGiven, BarrierIs
  <2>4. BarrierBehind' /\ AckedMeansLanded'
    BY <1>1, <1>2, <1>3, <1>4, <1>8
       DEF Inv, Behind, BarrierBehind, AckedMeansLanded, BarrierIs, Ahead, IsLogged
  <2>. QED
    BY <2>1, <2>2, <2>3, <2>4 DEF Behind
<1>. QED
  BY <1>1, <1>5, <1>6, <1>7, <1>8 DEF Inv

LEMMA StreamApplierEnds == Inv /\ ApplierEnds => Inv'
<1>. SUFFICES ASSUME Inv, ApplierEnds PROVE Inv'
  OBVIOUS
<1>. USE StreamConstants
<1>1. /\ applier' = FALSE /\ channel' = << >>
      /\ UNCHANGED <<pc, id, lock, logged, barriers, queue, acked, closed, acks, writer>>
      /\ UNCHANGED <<ids, lastId, ring, amended, others>>
      /\ UNCHANGED <<asked, toFlush, flushing, flushed, before>>
  BY DEF ApplierEnds, emitVars, boundVars, flushVars
<1>2. Kinds'
  <2>0. channel' \in Seq(Frames)
    BY <1>1
  <2>1. WireKinds'
    BY <1>1, <2>0 DEF Inv, Kinds, WireKinds
  <2>2. ApplyKinds'
    BY <1>1 DEF Inv, Kinds, ApplyKinds
  <2>. QED
    BY <1>1, <2>1, <2>2 DEF Inv, Kinds, EmitKinds, FlushKinds
<1>3. UpTogether' /\ AmendsItsOwn' /\ HeldToQueue' /\ Numbered'
  BY <1>1 DEF Inv, UpTogether, AmendsItsOwn, HeldToQueue, Numbered, Retained, Decisions
<1>4. Reported' = Reported
  BY <1>1 DEF Reported
<1>5. Covered'
  BY <1>1, <1>4 DEF Inv, Covered
<1>. QED
  BY <1>1, <1>2, <1>3, <1>5 DEF Inv

(* The decisions pushed, and those pushed by each, are counted.            *)
LEMMA Counted ==
  ASSUME Kinds
  PROVE  Decisions \in Nat /\ \A s \in DOMAIN ring : ring[s].nth \in Nat
<1>1. ring \in Seq(Entries) /\ \A s \in DOMAIN ring : ring[s] \in Entries
  BY DEF Kinds, ApplyKinds
<1>2. \A s \in DOMAIN ring : ring[s].nth \in Nat
  BY <1>1 DEF Entries
<1>3. ring # << >> => Len(ring) \in DOMAIN ring
  BY <1>1
<1>. QED
  BY <1>2, <1>3 DEF Decisions

LEMMA EntryIs ==
  ASSUME Kinds, NEW by \in Requests \cup {Nobody}
  PROVE  /\ Entry(by) \in Entries /\ Entry(by).by = by /\ Entry(by).got = Nobody
         /\ by \in Muted => Entry(by).nth = Decisions
         /\ by \notin Muted => Entry(by).nth = Decisions + 1
<1>1. Decisions \in Nat
  BY Counted
<1>. QED
  BY <1>1 DEF Entry, Entries

(* The ring after an event is pushed into it.                              *)
LEMMA Pushed ==
  ASSUME Kinds, NEW x \in Entries, ring' = Append(ring, x)
  PROVE  LET m == Len(ring) IN
         /\ m \in Nat /\ DOMAIN ring = 1 .. m /\ DOMAIN ring' = 1 .. m + 1 /\ Len(ring') = m + 1
         /\ ring'[m + 1] = x /\ \A s \in 1 .. m : ring'[s] = ring[s]
         /\ ring' \in Seq(Entries) /\ Landed' = Landed \cup {x.by}
         /\ Decisions' = x.nth
<1>. DEFINE m == Len(ring)
<1>0. ring \in Seq(Entries)
  BY DEF Kinds, ApplyKinds
<1>1. /\ ring' \in Seq(Entries) /\ Len(ring') = m + 1 /\ ring'[m + 1] = x
      /\ \A s \in 1 .. m : ring'[s] = ring[s]
  BY <1>0, AppendProperties
<1>2. m \in Nat /\ DOMAIN ring = 1 .. m /\ DOMAIN ring' = 1 .. m + 1
  BY <1>0, <1>1
<1>. HIDE DEF m
<1>3. \A s \in 1 .. m + 1 : s \in 1 .. m \/ s = m + 1
  BY <1>2
<1>4. \A s \in 1 .. m : s \in 1 .. m + 1
  BY <1>2
<1>5. m + 1 \in 1 .. m + 1
  BY <1>2
<1>6. Landed' = Landed \cup {x.by}
  <2>1. \A s \in DOMAIN ring' : ring'[s].by \in Landed \cup {x.by}
    BY <1>1, <1>2, <1>3 DEF Landed
  <2>2. Landed \cup {x.by} \subseteq {ring'[s].by : s \in DOMAIN ring'}
    BY <1>1, <1>2, <1>4, <1>5 DEF Landed
  <2>. QED
    BY <2>1, <2>2 DEF Landed
<1>7. Decisions' = x.nth
  <2>1. ring' # << >>
    BY <1>1, <1>2
  <2>. QED
    BY <1>1, <2>1 DEF Decisions
<1>. QED
  BY <1>1, <1>2, <1>6, <1>7 DEF m

LEMMA StreamOtherPushes == Inv /\ OtherPushes => Inv'
<1>. SUFFICES ASSUME Inv, OtherPushes PROVE Inv'
  OBVIOUS
<1>. DEFINE m == Len(ring)
            x == Entry(Nobody)
<1>. USE StreamConstants
<1>0. /\ Kinds /\ x \in Entries /\ x.by = Nobody /\ x.got = Nobody /\ x.nth = Decisions + 1
      /\ Decisions \in Nat /\ \A s \in DOMAIN ring : ring[s].nth \in Nat
  <2>1. Kinds /\ Nobody \notin Muted
    BY DEF Inv
  <2>. QED
    BY <2>1, EntryIs, Counted
<1>1. /\ applier /\ others > 0 /\ others' = others - 1 /\ ring' = Append(ring, x)
      /\ UNCHANGED <<pc, id, lock, logged, barriers, queue, acked, closed, channel, acks, writer>>
      /\ UNCHANGED <<applier, ids, lastId, amended>>
      /\ UNCHANGED <<asked, toFlush, flushing, flushed, before>>
  BY DEF OtherPushes, emitVars, boundVars, wireVars, flushVars
<1>. USE <1>0
<1>. HIDE DEF x
<1>2. /\ m \in Nat /\ DOMAIN ring = 1 .. m /\ DOMAIN ring' = 1 .. m + 1 /\ Len(ring') = m + 1
      /\ ring'[m + 1] = x /\ \A s \in 1 .. m : ring'[s] = ring[s]
      /\ ring' \in Seq(Entries) /\ Landed' = Landed \cup {Nobody}
      /\ Decisions' = Decisions + 1
  BY <1>1, Pushed
<1>3. Pipe' = Pipe /\ Reported' = Reported
  BY <1>1 DEF Pipe, Reported
<1>4. Kinds'
  <2>1. ApplyKinds'
    BY <1>1, <1>2 DEF Kinds, ApplyKinds
  <2>. QED
    BY <1>1, <2>1 DEF Kinds, EmitKinds, WireKinds, FlushKinds
<1>5. UpTogether' /\ HeldToQueue' /\ Numbered'
  BY <1>1 DEF Inv, UpTogether, HeldToQueue, Numbered
<1>6. AmendsItsOwn'
  <2>0. AmendsItsOwn /\ amended \subseteq Requests
    BY DEF Inv, Kinds, ApplyKinds
  <2>. SUFFICES ASSUME NEW s \in 1 .. m + 1
                PROVE  /\ ring'[s].got \in {Nobody, ring'[s].by}
                       /\ ring'[s].by \in amended \ Muted
                          /\ ring'[s].nth + RingCap > Decisions + 1
                            => ring'[s].got = ring'[s].by
                       /\ ring'[s].by \in Muted => ring'[s].got = Nobody
    BY <1>1, <1>2 DEF AmendsItsOwn, Retained
  <2>1. CASE s \in 1 .. m
    <3>1. ring'[s] = ring[s] /\ s \in DOMAIN ring /\ ring[s].nth \in Nat
      BY <1>2, <2>1
    <3>. QED
      BY <1>0, <2>0, <3>1 DEF AmendsItsOwn, Retained
  <2>2. CASE s = m + 1
    BY <1>2, <2>0, <2>2
  <2>. QED
    BY <1>2, <2>1, <2>2
<1>7. Covered'
  BY <1>1, <1>3 DEF Inv, Covered
<1>8. InOrder' /\ NothingLost' /\ Behind'
  <2>0. InOrder /\ NothingLost /\ Behind
    BY <1>1 DEF Inv
  <2>1. Sorted' /\ AppliedUpTo'
    BY <1>1, <1>2, <1>3, <2>0 DEF InOrder, Sorted, AppliedUpTo, IsLogged
  <2>2. Framed'
    BY <1>1, <1>2, <1>3, <2>0 DEF InOrder, Framed, IsLogged, IsStatus
  <2>3. NothingLost'
    BY <1>1, <1>2, <1>3, <2>0 DEF NothingLost, InPipe, IsLogged
  <2>4. BarriersGiven'
    BY <1>1, <1>3, <2>0 DEF Behind, BarriersGiven, BarrierIs
  <2>5. BarrierBehind' /\ AckedMeansLanded'
    BY <1>1, <1>2, <1>3, <2>0
       DEF Behind, BarrierBehind, AckedMeansLanded, BarrierIs, Ahead, IsLogged
  <2>. QED
    BY <2>1, <2>2, <2>3, <2>4, <2>5 DEF InOrder, Behind
<1>9. Remembered'
  <2>0. Remembered /\ ids \in Seq(Places)
    BY <1>1 DEF Inv, Kinds, ApplyKinds
  <2>6. \A k \in DOMAIN ids : ids[k] \in Places
    BY <2>0
  <2>1. Len(ids) \in Nat /\ DOMAIN ids = 1 .. Len(ids) /\ \A k \in DOMAIN ids : ids[k].seq \in Nat
    BY <2>0, <2>6 DEF Places
  <2>2. \A k \in DOMAIN ids :
          /\ ids[k].seq \in 1 .. m /\ ring[ids[k].seq].nth \in Nat
          /\ ring[ids[k].seq].nth + Len(ids) - k <= Decisions
    BY <1>0, <1>2, <2>0 DEF Remembered
  <2>3. ASSUME NEW k \in DOMAIN ids
        PROVE  /\ ids[k].seq \in DOMAIN ring'
               /\ ring'[ids[k].seq].nth + Len(ids) - k <= Decisions'
               /\ ring'[ids[k].seq].by \in Requests \ Muted
               /\ ids[k].id = id[ring'[ids[k].seq].by]
    <3>1. ring'[ids[k].seq] = ring[ids[k].seq]
      BY <1>2, <2>2
    <3>2. /\ ring[ids[k].seq].by \in Requests \ Muted /\ ids[k].id = id[ring[ids[k].seq].by]
          /\ ids[k].seq \in DOMAIN ring'
      BY <1>2, <2>0, <2>2 DEF Remembered
    <3>3. ring[ids[k].seq].nth + Len(ids) - k <= Decisions + 1
      <4>. DEFINE z == ring[ids[k].seq].nth
      <4>1. z \in Nat /\ z + Len(ids) - k <= Decisions /\ k \in Nat
        BY <2>1, <2>2
      <4>. HIDE DEF z
      <4>2. z + Len(ids) - k <= Decisions + 1
        BY ONLY <1>0, <2>1, <4>1
      <4>. QED
        BY ONLY <4>2 DEF z
    <3>. QED
      BY ONLY <1>2, <3>1, <3>2, <3>3
  <2>4. ASSUME NEW s \in 1 .. m + 1, ring'[s].by \in Requests \ Muted,
               ring'[s].nth + RingCap > Decisions'
        PROVE  \E k \in DOMAIN ids : ids[k].seq = s
    <3>1. s # m + 1
      BY <1>2, <2>4
    <3>2. s \in DOMAIN ring /\ ring[s].nth \in Nat /\ ring'[s] = ring[s]
      BY <1>0, <1>2, <3>1
    <3>. QED
      BY <1>0, <1>2, <2>0, <2>4, <3>2 DEF Remembered, Retained
  <2>5. ASSUME NEW s \in 1 .. m + 1, NEW t \in 1 .. m + 1,
               ring'[s].by = ring'[t].by, ring'[s].by # Nobody
        PROVE  s = t
    <3>1. s \in 1 .. m /\ t \in 1 .. m
      BY <1>2, <2>5
    <3>2. ring[s].by = ring[t].by /\ ring[s].by # Nobody
      BY <1>2, <2>5, <3>1
    <3>. QED
      BY <1>2, <2>0, <3>1, <3>2 DEF Remembered
  <2>. QED
    BY <1>1, <1>2, <2>0, <2>3, <2>4, <2>5 DEF Remembered, Retained
<1>. QED
  BY <1>1, <1>4, <1>5, <1>6, <1>7, <1>8, <1>9 DEF Inv

(* A decision in the pipe stays there when another frame is taken, or is   *)
(* the one that is taken.                                                  *)
LEMMA TakesNoDecision ==
  ASSUME Kinds, channel # << >>, channel' = Tail(channel), queue' = queue,
         NEW q, InPipe(q), ~IsLogged(Head(channel), q)
  PROVE  InPipe(q)'
<1>. DEFINE n == Len(Pipe)
<1>1. /\ n \in Nat /\ n >= 1 /\ DOMAIN Pipe = 1 .. n /\ DOMAIN Pipe' = 1 .. n - 1
      /\ Head(channel) = Pipe[1] /\ \A i \in 1 .. n - 1 : Pipe'[i] = Pipe[i + 1]
  BY Taken
<1>. HIDE DEF n
<1>2. PICK i \in 1 .. n : IsLogged(Pipe[i], q)
  BY <1>1 DEF InPipe
<1>3. i # 1
  BY <1>1, <1>2
<1>4. i - 1 \in 1 .. n - 1 /\ (i - 1) + 1 = i
  BY <1>1, <1>3
<1>5. i - 1 \in DOMAIN Pipe' /\ Pipe'[i - 1] = Pipe[i]
  BY <1>1, <1>4
<1>. QED
  BY <1>2, <1>5 DEF InPipe, IsLogged

(* What is behind the frame that is taken has one less ahead of it, the    *)
(* one that landed.                                                        *)
LEMMA AheadAfterTaking ==
  ASSUME Kinds, channel # << >>, channel' = Tail(channel), queue' = queue,
         Landed \subseteq Landed', \A q : IsLogged(Head(channel), q) => q \in Landed',
         NEW i \in DOMAIN Pipe', NEW q, Ahead(i + 1, q)
  PROVE  Ahead(i, q)' /\ i + 1 \in DOMAIN Pipe /\ Pipe'[i] = Pipe[i + 1]
<1>. DEFINE n == Len(Pipe)
<1>1. /\ n \in Nat /\ n >= 1 /\ DOMAIN Pipe = 1 .. n /\ DOMAIN Pipe' = 1 .. n - 1
      /\ Head(channel) = Pipe[1] /\ \A j \in 1 .. n - 1 : Pipe'[j] = Pipe[j + 1]
  BY Taken
<1>. HIDE DEF n
<1>2. CASE q \in Landed
  BY <1>1, <1>2 DEF Ahead
<1>3. ASSUME NEW j \in 1 .. (i + 1) - 1, IsLogged(Pipe[j], q) PROVE Ahead(i, q)'
  <2>1. CASE j = 1
    BY <1>1, <1>3, <2>1 DEF Ahead
  <2>2. CASE j # 1
    <3>1. j - 1 \in 1 .. i - 1 /\ j - 1 \in 1 .. n - 1 /\ (j - 1) + 1 = j
      BY <1>1, <2>2
    <3>2. Pipe'[j - 1] = Pipe[j]
      BY <1>1, <3>1
    <3>. QED
      BY <1>3, <3>1, <3>2 DEF Ahead, IsLogged
  <2>. QED
    BY <2>1, <2>2
<1>4. i + 1 \in DOMAIN Pipe /\ Pipe'[i] = Pipe[i + 1]
  BY <1>1
<1>. QED
  BY <1>2, <1>3, <1>4 DEF Ahead

LEMMA BehindAfterTaking ==
  ASSUME Kinds, Behind, channel # << >>, channel' = Tail(channel), queue' = queue,
         Landed \subseteq Landed', \A q : IsLogged(Head(channel), q) => q \in Landed',
         UNCHANGED <<barriers, acked, flushing, flushed, before>>,
         \/ acks' = acks
         \/ /\ Head(channel).kind = "barrier" /\ acks' = Append(acks, Head(channel).id)
  PROVE  Behind'
<1>. DEFINE n == Len(Pipe)
<1>0. acks \in Seq(Nat) /\ acked \in Nat /\ barriers \in Nat
  BY DEF Kinds, EmitKinds, WireKinds
<1>1. /\ n \in Nat /\ n >= 1 /\ DOMAIN Pipe = 1 .. n /\ DOMAIN Pipe' = 1 .. n - 1
      /\ Head(channel) = Pipe[1] /\ \A j \in 1 .. n - 1 : Pipe'[j] = Pipe[j + 1]
      /\ 1 \in DOMAIN Pipe /\ Pipe[1] \in Frames /\ Pipe[1].id \in Nat
  <2>1. /\ n \in Nat /\ n >= 1 /\ DOMAIN Pipe = 1 .. n /\ DOMAIN Pipe' = 1 .. n - 1
        /\ Head(channel) = Pipe[1] /\ \A j \in 1 .. n - 1 : Pipe'[j] = Pipe[j + 1]
        /\ Pipe[1] \in Frames
    BY Taken
  <2>2. Pipe[1].id \in Nat
    BY <2>1 DEF Frames
  <2>. QED
    BY <2>1, <2>2
<1>. HIDE DEF n
<1>2. \A i \in DOMAIN Pipe' : i + 1 \in DOMAIN Pipe /\ Pipe'[i] = Pipe[i + 1]
  BY <1>1
<1>3. \A i \in DOMAIN acks' :
        \/ \E j \in DOMAIN acks : acks'[i] = acks[j]
        \/ Pipe[1].kind = "barrier" /\ acks'[i] = Pipe[1].id
  <2>1. CASE acks' = acks
    <3>1. \A i \in DOMAIN acks' : i \in DOMAIN acks /\ acks'[i] = acks[i]
      BY ONLY <2>1
    <3>. QED
      BY ONLY <3>1
  <2>2. CASE Pipe[1].kind = "barrier" /\ acks' = Append(acks, Pipe[1].id)
    <3>1. /\ Len(acks') = Len(acks) + 1 /\ acks'[Len(acks) + 1] = Pipe[1].id /\ acks' \in Seq(Nat)
          /\ \A i \in 1 .. Len(acks) : acks'[i] = acks[i]
      BY <1>0, <1>1, <2>2, AppendProperties
    <3>2. DOMAIN acks' = 1 .. Len(acks) + 1 /\ DOMAIN acks = 1 .. Len(acks) /\ Len(acks) \in Nat
      BY <1>0, <3>1
    <3>3. \A i \in 1 .. Len(acks) + 1 : i \in 1 .. Len(acks) \/ i = Len(acks) + 1
      BY <3>2
    <3>. QED
      BY <2>2, <3>1, <3>2, <3>3
  <2>3. \/ acks' = acks
        \/ Pipe[1].kind = "barrier" /\ acks' = Append(acks, Pipe[1].id)
    BY <1>1
  <2>. QED
    BY ONLY <2>1, <2>2, <2>3
<1>4. BarriersGiven'
  BY <1>0, <1>1, <1>2, <1>3 DEF Behind, BarriersGiven, BarrierIs
<1>5. BarrierBehind'
  <2>. SUFFICES ASSUME flushing.at = "wait", NEW i \in DOMAIN Pipe', BarrierIs(Pipe'[i], barriers),
                       NEW q \in before[flushing.for]
                PROVE  Ahead(i, q)'
    BY DEF BarrierBehind, BarrierIs
  <2>1. Ahead(i + 1, q)
    BY <1>2 DEF Behind, BarrierBehind
  <2>. QED
    BY <2>1, AheadAfterTaking
<1>6. AckedMeansLanded'
  <2>1. ASSUME flushing.at = "wait", BarrierIs(Pipe[1], barriers)
        PROVE  before[flushing.for] \subseteq Landed
    <3>1. \A q \in before[flushing.for] : Ahead(1, q)
      BY <1>1, <2>1 DEF Behind, BarrierBehind
    <3>. QED
      BY <3>1 DEF Ahead
  <2>. QED
    BY <1>3, <2>1 DEF Behind, AckedMeansLanded, BarrierIs
<1>. QED
  BY <1>4, <1>5, <1>6 DEF Behind

(* The frames behind the one that is taken are as they were.               *)
LEMMA StillFramed ==
  ASSUME Kinds, Framed, channel # << >>, channel' = Tail(channel), queue' = queue,
         UNCHANGED <<pc, id>>,
         \A i \in DOMAIN Pipe, q \in Requests : 1 < i /\ IsLogged(Pipe[i], q) =>
           id[q] > lastId' /\ q \notin Landed' /\ q \notin amended'
  PROVE  Framed'
<1>. DEFINE n == Len(Pipe)
<1>1. /\ n \in Nat /\ n >= 1 /\ DOMAIN Pipe = 1 .. n /\ DOMAIN Pipe' = 1 .. n - 1
      /\ \A i \in 1 .. n - 1 : Pipe'[i] = Pipe[i + 1]
  BY Taken
<1>. HIDE DEF n
<1>2. \A i \in 1 .. n - 1 : i + 1 \in DOMAIN Pipe /\ 1 < i + 1
  BY <1>1
<1>3. ASSUME NEW i \in 1 .. n - 1, NEW q \in Requests
      PROVE  /\ IsLogged(Pipe[i + 1], q) =>
                  /\ Pipe[i + 1].id = id[q] /\ pc[q] >= 4 /\ id[q] > lastId'
                  /\ q \notin Landed' /\ q \notin amended'
             /\ IsStatus(Pipe[i + 1], q) => Pipe[i + 1].id = id[q] /\ pc[q] = 7 /\ id[q] # 0
  BY <1>2 DEF Framed
<1>4. \A i \in 1 .. n - 1 : Pipe[i + 1].kind # "barrier" => Pipe[i + 1].by \in Requests
  BY <1>2 DEF Framed
<1>5. ASSUME NEW i \in 1 .. n - 1, NEW q \in Requests
      PROVE  /\ IsLogged(Pipe'[i], q) =>
                  /\ Pipe'[i].id = id'[q] /\ pc'[q] >= 4 /\ id'[q] > lastId'
                  /\ q \notin Landed' /\ q \notin amended'
             /\ IsStatus(Pipe'[i], q) => Pipe'[i].id = id'[q] /\ pc'[q] = 7 /\ id'[q] # 0
  <2>1. Pipe'[i] = Pipe[i + 1] /\ id' = id /\ pc' = pc
    BY <1>1
  <2>. QED
    BY <1>3, <2>1
<1>6. \A i \in 1 .. n - 1 : Pipe'[i].kind # "barrier" => Pipe'[i].by \in Requests
  BY <1>1, <1>4
<1>. QED
  BY <1>1, <1>5, <1>6 DEF Framed, IsLogged, IsStatus

LEMMA StreamApplyStatus == Inv /\ ApplyStatus => Inv'
<1>. SUFFICES ASSUME Inv, ApplyStatus PROVE Inv'
  OBVIOUS
<1>. DEFINE e == Head(channel)
            r == e.by
            n == Len(Pipe)
            found == {p.seq : p \in {q \in Range(ids) : q.id = e.id}}
<1>. USE StreamConstants
<1>0. Kinds /\ ring \in Seq(Entries) /\ amended \subseteq Requests
  BY DEF Inv, Kinds, ApplyKinds
<1>1. /\ applier /\ channel # << >> /\ e.kind = "status" /\ channel' = Tail(channel)
      /\ ring' = [s \in DOMAIN ring |->
                    IF s \in found /\ Retained(s) THEN [ring[s] EXCEPT !.got = r] ELSE ring[s]]
      /\ amended' = amended \cup {r}
      /\ UNCHANGED <<pc, id, lock, logged, barriers, queue, acked, closed, acks, writer>>
      /\ UNCHANGED <<applier, ids, lastId, others>>
      /\ UNCHANGED <<asked, toFlush, flushing, flushed, before>>
  BY DEF ApplyStatus, Took, emitVars, boundVars, flushVars
<1>. USE <1>0
<1>2. /\ n \in Nat /\ n >= 1 /\ DOMAIN Pipe = 1 .. n /\ DOMAIN Pipe' = 1 .. n - 1
      /\ e = Pipe[1] /\ \A i \in 1 .. n - 1 : Pipe'[i] = Pipe[i + 1]
      /\ channel' \in Seq(Frames) /\ 1 \in DOMAIN Pipe
  BY <1>1, Taken
<1>3. \A k \in DOMAIN ids : ids[k].id = e.id <=> \E p \in Range(ids) : p = ids[k] /\ p.id = e.id
  BY DEF Range
<1>4. \A s : s \in found <=> \E k \in DOMAIN ids : ids[k].seq = s /\ ids[k].id = e.id
  BY DEF Range
<1>. HIDE DEF n, e, found
<1>5. /\ Sorted /\ Framed /\ AppliedUpTo /\ NothingLost /\ Remembered /\ Behind /\ Numbered
      /\ AmendsItsOwn
  BY <1>1 DEF Inv, InOrder
<1>6. r \in Requests /\ e.id = id[r] /\ pc[r] = 7 /\ id[r] # 0
  <2>1. /\ r \in Requests
        /\ \A q \in Requests :
             IsStatus(Pipe[1], q) => Pipe[1].id = id[q] /\ pc[q] = 7 /\ id[q] # 0
    BY <1>1, <1>2, <1>5 DEF Framed
  <2>2. IsStatus(Pipe[1], r)
    BY <1>1, <1>2 DEF IsStatus
  <2>. QED
    BY ONLY <1>2, <2>1, <2>2
<1>. HIDE DEF r
<1>7. /\ DOMAIN ring' = DOMAIN ring /\ ring' \in Seq(Entries) /\ Len(ring') = Len(ring)
      /\ \A s \in DOMAIN ring : ring'[s].by = ring[s].by /\ ring'[s].nth = ring[s].nth
      /\ Decisions' = Decisions
  <2>1. \A s \in DOMAIN ring : ring[s] \in Entries
    OBVIOUS
  <2>2. \A s \in DOMAIN ring : /\ ring'[s] \in Entries /\ ring'[s].by = ring[s].by
                               /\ ring'[s].nth = ring[s].nth
    BY <1>1, <1>6, <2>1 DEF Entries
  <2>3. DOMAIN ring' = DOMAIN ring /\ DOMAIN ring = 1 .. Len(ring) /\ Len(ring) \in Nat
    BY <1>1
  <2>4. ring' = [s \in 1 .. Len(ring) |-> ring'[s]]
    BY <1>1, <2>3
  <2>5. ring' \in Seq(Entries) /\ Len(ring') = Len(ring)
    BY <2>2, <2>3, <2>4
  <2>6. Decisions' = Decisions
    <3>1. ring # << >> => Len(ring) \in DOMAIN ring
      BY <2>3
    <3>2. ring' = << >> <=> ring = << >>
      BY <2>3, <2>5
    <3>. QED
      BY <2>2, <2>5, <3>1, <3>2 DEF Decisions
  <2>. QED
    BY <2>2, <2>3, <2>5, <2>6
<1>8. Landed' = Landed /\ Reported' = Reported
  BY <1>1, <1>7 DEF Landed, Reported
<1>9. Kinds'
  <2>1. ApplyKinds'
    BY <1>1, <1>6, <1>7 DEF Kinds, ApplyKinds
  <2>2. WireKinds'
    BY <1>1, <1>2 DEF Kinds, WireKinds
  <2>. QED
    BY <1>1, <2>1, <2>2 DEF Kinds, EmitKinds, FlushKinds
<1>10. UpTogether' /\ HeldToQueue' /\ Numbered'
  BY <1>1 DEF Inv, UpTogether, HeldToQueue, Numbered
<1>11. Covered'
  BY <1>1, <1>8 DEF Inv, Covered
<1>12. AmendsItsOwn'
  <2>. SUFFICES ASSUME NEW s \in DOMAIN ring
                PROVE  /\ ring'[s].got \in {Nobody, ring[s].by}
                       /\ ring[s].by \in (amended \cup {r}) \ Muted /\ Retained(s)
                            => ring'[s].got = ring[s].by
                       /\ ring[s].by \in Muted => ring'[s].got = Nobody
    BY <1>1, <1>7 DEF AmendsItsOwn, Retained
  <2>1. CASE s \in found /\ Retained(s)
    <3>1. PICK k \in DOMAIN ids : ids[k].seq = s /\ ids[k].id = e.id
      BY <1>4, <2>1
    <3>2. ring[s].by \in Requests \ Muted /\ ids[k].id = id[ring[s].by]
      BY <1>5, <3>1 DEF Remembered
    <3>3. ring[s].by = r
      BY <1>5, <1>6, <3>1, <3>2 DEF Numbered
    <3>4. ring'[s].got = r
      <4>1. ring[s] \in Entries /\ ring'[s] = [ring[s] EXCEPT !.got = r]
        BY <1>1, <2>1
      <4>. QED
        BY <4>1 DEF Entries
    <3>. QED
      BY <3>2, <3>3, <3>4
  <2>2. CASE ~(s \in found /\ Retained(s))
    <3>1. ring'[s] = ring[s]
      BY <1>1, <2>2
    <3>2. ASSUME ring[s].by = r, r \notin Muted, Retained(s) PROVE FALSE
      <4>1. PICK k \in DOMAIN ids : ids[k].seq = s
        BY <1>5, <1>6, <3>2 DEF Remembered
      <4>2. ids[k].id = e.id
        BY <1>5, <1>6, <3>2, <4>1 DEF Remembered
      <4>. QED
        BY <1>4, <2>2, <3>2, <4>1, <4>2
    <3>. QED
      BY <1>5, <3>1, <3>2 DEF AmendsItsOwn
  <2>. QED
    BY <2>1, <2>2
<1>13. InOrder'
  <2>1. Sorted'
    BY <1>1, <1>5, StillSorted
  <2>2. Framed'
    <3>1. \A i \in DOMAIN Pipe : 1 < i => ~IsLogged(Pipe[i], r)
      BY <1>1, <1>2, <1>5 DEF Sorted, r
    <3>2. ASSUME NEW i \in DOMAIN Pipe, NEW q \in Requests, 1 < i, IsLogged(Pipe[i], q)
          PROVE  id[q] > lastId' /\ q \notin Landed' /\ q \notin amended'
      BY <1>1, <1>5, <1>8, <3>1, <3>2 DEF Framed
    <3>3. UNCHANGED <<pc, id>> /\ queue' = queue /\ channel # << >> /\ channel' = Tail(channel)
      BY <1>1
    <3>. QED
      BY <1>5, <3>2, <3>3, StillFramed
  <2>3. AppliedUpTo'
    BY <1>1, <1>5, <1>6, <1>8 DEF AppliedUpTo
  <2>. QED
    BY <2>1, <2>2, <2>3 DEF InOrder
<1>14. NothingLost'
  <2>0. queue' = queue /\ channel # << >> /\ channel' = Tail(channel)
    BY <1>1
  <2>1. ASSUME NEW q \in Requests, InPipe(q) PROVE InPipe(q)'
    <3>1. ~IsLogged(Head(channel), q)
      BY <1>1 DEF e, IsLogged
    <3>. QED
      BY <2>0, <2>1, <3>1, TakesNoDecision
  <2>. QED
    BY <1>5, <1>8, <2>1 DEF NothingLost
<1>15. Remembered'
  BY <1>1, <1>5, <1>7 DEF Remembered, Retained
<1>16. Behind'
  <2>1. /\ queue' = queue /\ channel # << >> /\ channel' = Tail(channel) /\ acks' = acks
        /\ UNCHANGED <<barriers, acked, flushing, flushed, before>> /\ Landed \subseteq Landed'
    BY <1>1, <1>8
  <2>2. \A q : IsLogged(Head(channel), q) => q \in Landed'
    BY <1>1 DEF e, IsLogged
  <2>. QED
    BY <1>5, <2>1, <2>2, BehindAfterTaking
<1>. QED
  BY <1>1, <1>9, <1>10, <1>11, <1>12, <1>13, <1>14, <1>15, <1>16 DEF Inv

LEMMA StreamAcknowledge == Inv /\ Acknowledge => Inv'
<1>. SUFFICES ASSUME Inv, Acknowledge PROVE Inv'
  OBVIOUS
<1>. USE StreamConstants
<1>0. Kinds /\ acks \in Seq(Nat)
  BY DEF Inv, Kinds, WireKinds
<1>1. /\ applier /\ channel # << >> /\ Head(channel).kind = "barrier" /\ channel' = Tail(channel)
      /\ acks' = Append(acks, Head(channel).id)
      /\ UNCHANGED <<pc, id, lock, logged, barriers, queue, acked, closed, writer>>
      /\ UNCHANGED <<applier, ids, lastId, ring, amended, others>>
      /\ UNCHANGED <<asked, toFlush, flushing, flushed, before>>
  BY DEF Acknowledge, Took, emitVars, boundVars, applyVars, flushVars
<1>. USE <1>0
<1>2. channel' \in Seq(Frames) /\ Head(channel).id \in Nat
  <2>1. channel' \in Seq(Frames) /\ Head(channel) \in Frames
    BY <1>1, Taken
  <2>. QED
    BY <2>1 DEF Frames
<1>3. Landed' = Landed /\ Reported' = Reported
  BY <1>1 DEF Landed, Reported
<1>4. Kinds'
  <2>1. acks' \in Seq(Nat)
    BY <1>1, <1>2, AppendProperties
  <2>2. WireKinds'
    BY <1>1, <1>2, <2>1 DEF Kinds, WireKinds
  <2>. QED
    BY <1>1, <2>2 DEF Kinds, EmitKinds, ApplyKinds, FlushKinds
<1>5. UpTogether' /\ AmendsItsOwn' /\ HeldToQueue' /\ Numbered'
  BY <1>1 DEF Inv, UpTogether, AmendsItsOwn, HeldToQueue, Numbered, Retained, Decisions
<1>6. Covered'
  BY <1>1, <1>3 DEF Inv, Covered
<1>7. Sorted /\ Framed /\ AppliedUpTo /\ NothingLost /\ Remembered /\ Behind
  BY <1>1 DEF Inv, InOrder
<1>8. queue' = queue /\ channel # << >> /\ channel' = Tail(channel) /\ UNCHANGED <<pc, id>>
  BY <1>1
<1>9. \A q : ~IsLogged(Head(channel), q)
  BY <1>1 DEF IsLogged
<1>10. InOrder'
  <2>1. Sorted'
    BY <1>7, <1>8, StillSorted
  <2>2. ASSUME NEW i \in DOMAIN Pipe, NEW q \in Requests, 1 < i, IsLogged(Pipe[i], q)
        PROVE  id[q] > lastId' /\ q \notin Landed' /\ q \notin amended'
    BY <1>1, <1>3, <1>7, <2>2 DEF Framed
  <2>3. Framed'
    BY <1>7, <1>8, <2>2, StillFramed
  <2>4. AppliedUpTo'
    BY <1>1, <1>3, <1>7 DEF AppliedUpTo
  <2>. QED
    BY <2>1, <2>3, <2>4 DEF InOrder
<1>11. NothingLost'
  <2>1. ASSUME NEW q \in Requests, InPipe(q) PROVE InPipe(q)'
    BY <1>8, <1>9, <2>1, TakesNoDecision
  <2>. QED
    BY <1>3, <1>7, <2>1 DEF NothingLost
<1>12. Remembered'
  BY <1>1, <1>7 DEF Remembered, Retained, Decisions
<1>13. Behind'
  <2>1. UNCHANGED <<barriers, acked, flushing, flushed, before>> /\ Landed \subseteq Landed'
    BY <1>1, <1>3
  <2>2. Head(channel).kind = "barrier" /\ acks' = Append(acks, Head(channel).id)
    BY <1>1
  <2>. QED
    BY <1>7, <1>8, <1>9, <2>1, <2>2, BehindAfterTaking
<1>. QED
  BY <1>1, <1>4, <1>5, <1>6, <1>10, <1>11, <1>12, <1>13 DEF Inv

LEMMA PlaceIs ==
  ASSUME NEW a \in Nat, NEW b \in Nat
  PROVE  LET p == [id |-> a, seq |-> b] IN p \in Places /\ p.id = a /\ p.seq = b
  BY DEF Places

(* What the applier remembers once it noted one more: it forgot the oldest *)
(* if it remembered as many as it may.                                     *)
LEMMA TrimmedIs ==
  ASSUME ids \in Seq(Places), Len(ids) <= RingCap, NEW p \in Places
  PROVE  LET t == Trimmed(Append(ids, p))
             d == IF Len(ids) = RingCap THEN 1 ELSE 0
             l == Len(ids) + 1 - d
         IN  /\ t \in Seq(Places) /\ Len(t) = l /\ t[l] = p
             /\ \A k \in 1 .. l - 1 : t[k] = ids[k + d]
<1>. DEFINE s == Append(ids, p)
            t == Trimmed(s)
            d == IF Len(ids) = RingCap THEN 1 ELSE 0
            l == Len(ids) + 1 - d
<1>. USE StreamConstants
<1>0. Len(ids) \in Nat
  OBVIOUS
<1>1. /\ s \in Seq(Places) /\ Len(s) = Len(ids) + 1 /\ s[Len(ids) + 1] = p
      /\ \A k \in 1 .. Len(ids) : s[k] = ids[k]
  BY AppendProperties
<1>. HIDE DEF s
<1>2. Max({1, Len(s) - RingCap + 1}) = 1 + d
  <2>1. Len(s) - RingCap + 1 \in Int
    BY <1>0, <1>1
  <2>2. Max({1, Len(s) - RingCap + 1})
          = IF 1 >= Len(s) - RingCap + 1 THEN 1 ELSE Len(s) - RingCap + 1
    BY <2>1, MaxOfTwo
  <2>. QED
    BY <1>0, <1>1, <2>2
<1>3. t = SubSeq(s, 1 + d, Len(s))
  BY <1>2 DEF Trimmed
<1>. HIDE DEF t
<1>4. d \in 0 .. 1 /\ l \in Nat /\ l >= 1
  BY <1>0
<1>5. \A i \in 1 + d .. Len(s) : s[i] \in Places
  BY <1>0, <1>1, <1>4
<1>. HIDE DEF d
<1>6. /\ t \in Seq(Places) /\ Len(t) = l
      /\ \A i \in 1 .. l : t[i] = s[(1 + d) + i - 1]
  <2>1. 1 + d \in Int /\ Len(s) \in Int /\ 1 + d <= Len(s) /\ Len(s) - (1 + d) + 1 = l
    BY <1>0, <1>1, <1>4
  <2>. QED
    BY <1>3, <1>5, <2>1, SubSeqProperties
<1>7. (1 + d) + l - 1 = Len(ids) + 1 /\ l \in 1 .. l
  BY <1>0, <1>4
<1>8. \A k \in 1 .. l - 1 : k \in 1 .. l /\ (1 + d) + k - 1 = k + d /\ k + d \in 1 .. Len(ids)
  BY <1>0, <1>4
<1>. QED
  BY <1>1, <1>6, <1>7, <1>8 DEF t, s, d

(* The applier puts the decision of r at the end of the ring and, when r is *)
(* not muted, at the end of the remembered places, dropping d of them.     *)
OneMore(r, m, n, d, l, c) ==
  /\ r \notin Landed /\ id' = id
  /\ m = Len(ring) /\ n = Len(ids) /\ l = n + 1 - d /\ (d = 1 <=> n = RingCap)
  /\ DOMAIN ring = 1 .. m /\ DOMAIN ring' = 1 .. m + 1 /\ Len(ring') = m + 1
  /\ ring'[m + 1].by = r /\ \A s \in 1 .. m : ring'[s] = ring[s] /\ ring[s].nth \in Nat
  /\ c = Decisions /\ ring'[m + 1].nth = Decisions'
  /\ DOMAIN ids = 1 .. n /\ \A k \in DOMAIN ids : ids[k].seq \in Nat
  /\ \/ r \in Muted /\ ids' = ids /\ Decisions' = c
     \/ /\ r \notin Muted /\ Decisions' = c + 1 /\ DOMAIN ids' = 1 .. l /\ Len(ids') = l
        /\ ids'[l].id = id[r] /\ ids'[l].seq = m + 1
        /\ \A k \in 1 .. l - 1 : ids'[k] = ids[k + d]

(* What the applier remembers after it applied a decision leads to it.     *)
LEMMA RemembersOneMore ==
  ASSUME Kinds, Remembered, NEW r \in Requests,
         NEW m \in Nat, NEW n \in Nat, NEW d \in 0 .. 1, NEW l \in Nat,
         NEW c \in Nat, OneMore(r, m, n, d, l, c)
  PROVE  Remembered'
<1>. USE StreamConstants DEF OneMore
<1>1. n <= RingCap /\ l <= RingCap /\ l >= 1
  BY DEF Remembered
<1>2. ASSUME NEW j \in 1 .. n
      PROVE  /\ ids[j].seq \in 1 .. m
             /\ ring'[ids[j].seq].nth \in Nat /\ ring'[ids[j].seq].nth + n - j <= c
             /\ ring'[ids[j].seq].by \in Requests \ Muted
             /\ ids[j].id = id[ring'[ids[j].seq].by]
  <2>1. /\ ids[j].seq \in 1 .. m /\ ring[ids[j].seq].nth + n - j <= c
        /\ ring[ids[j].seq].by \in Requests \ Muted
        /\ ids[j].id = id[ring[ids[j].seq].by]
    BY DEF Remembered
  <2>2. ring'[ids[j].seq] = ring[ids[j].seq] /\ ring[ids[j].seq].nth \in Nat
    BY <2>1
  <2>. QED
    BY ONLY <2>1, <2>2
<1>3. ASSUME NEW s \in 1 .. m + 1, ring'[s].by \in Requests \ Muted,
             ring'[s].nth + RingCap > c, s # m + 1
      PROVE  \E j \in 1 .. n : ids[j].seq = s /\ ring'[s].nth \in Nat /\ ring'[s].nth + n - j <= c
  <2>1. s \in 1 .. m /\ ring'[s] = ring[s] /\ ring[s].nth + RingCap > c
    BY <1>3
  <2>2. \E j \in 1 .. n : ids[j].seq = s
    BY <1>3, <2>1 DEF Remembered, Retained
  <2>. QED
    BY <1>2, <2>2
<1>4. ASSUME NEW s \in 1 .. m + 1, NEW t \in 1 .. m + 1,
             ring'[s].by = ring'[t].by, ring'[s].by # Nobody
       PROVE  s = t
  <2>1. \A u \in 1 .. m : ring'[u].by # r
    BY DEF Landed
  <2>2. CASE s \in 1 .. m /\ t \in 1 .. m
    <3>1. ring[s].by = ring[t].by /\ ring[s].by # Nobody /\ s \in DOMAIN ring /\ t \in DOMAIN ring
      BY <1>4, <2>2
    <3>. QED
      BY <3>1 DEF Remembered
  <2>3. CASE s = m + 1 \/ t = m + 1
    BY <1>4, <2>1, <2>3
  <2>. QED
    BY <2>2, <2>3
<1>5. ASSUME NEW q \in Nat, q = Len(ids'), DOMAIN ids' = 1 .. q, q <= RingCap,
             \A k \in 1 .. q :
               /\ ids'[k].seq \in 1 .. m + 1 /\ ring'[ids'[k].seq].nth + q - k <= Decisions'
               /\ ring'[ids'[k].seq].by \in Requests \ Muted
               /\ ids'[k].id = id[ring'[ids'[k].seq].by],
             \A s \in 1 .. m + 1 :
               ring'[s].by \in Requests \ Muted /\ ring'[s].nth + RingCap > Decisions'
                 => \E k \in 1 .. q : ids'[k].seq = s
      PROVE  Remembered'
  <2>1. \A k \in DOMAIN ids' :
          /\ ids'[k].seq \in DOMAIN ring'
          /\ ring'[ids'[k].seq].nth + Len(ids') - k <= Decisions'
          /\ ring'[ids'[k].seq].by \in Requests \ Muted
          /\ ids'[k].id = id'[ring'[ids'[k].seq].by]
    <3>1. DOMAIN ring' = 1 .. m + 1 /\ id' = id
      OBVIOUS
    <3>. QED
      BY ONLY <1>5, <3>1, Zenon
  <2>2. \A s \in DOMAIN ring' :
          ring'[s].by \in Requests \ Muted /\ ring'[s].nth + RingCap > Decisions'
            => \E k \in DOMAIN ids' : ids'[k].seq = s
    <3>1. DOMAIN ring' = 1 .. m + 1
      OBVIOUS
    <3>. QED
      BY ONLY <1>5, <3>1, Zenon
  <2>3. \A s, t \in DOMAIN ring' : ring'[s].by = ring'[t].by /\ ring'[s].by # Nobody => s = t
    BY <1>4
  <2>4. Len(ids') <= RingCap
    BY <1>5
  <2>. QED
    BY ONLY <2>1, <2>2, <2>3, <2>4 DEF Remembered, Retained
<1>6. CASE r \in Muted /\ ids' = ids /\ Decisions' = c
  <2>1. n = Len(ids') /\ DOMAIN ids' = 1 .. n
    BY <1>6
  <2>2. \A k \in 1 .. n :
          /\ ids'[k].seq \in 1 .. m + 1 /\ ring'[ids'[k].seq].nth + n - k <= Decisions'
          /\ ring'[ids'[k].seq].by \in Requests \ Muted
          /\ ids'[k].id = id[ring'[ids'[k].seq].by]
    BY <1>2, <1>6, SMTT(20)
  <2>3. \A s \in 1 .. m + 1 :
          ring'[s].by \in Requests \ Muted /\ ring'[s].nth + RingCap > Decisions'
            => \E k \in 1 .. n : ids'[k].seq = s
    BY <1>3, <1>6
  <2>. QED
    BY <1>1, <1>5, <2>1, <2>2, <2>3
<1>7. CASE /\ r \notin Muted /\ Decisions' = c + 1 /\ DOMAIN ids' = 1 .. l /\ Len(ids') = l
           /\ ids'[l].id = id[r] /\ ids'[l].seq = m + 1
           /\ \A k \in 1 .. l - 1 : ids'[k] = ids[k + d]
  <2>1. ASSUME NEW k \in 1 .. l
        PROVE  /\ ids'[k].seq \in 1 .. m + 1 /\ ring'[ids'[k].seq].nth + l - k <= Decisions'
               /\ ring'[ids'[k].seq].by \in Requests \ Muted
               /\ ids'[k].id = id[ring'[ids'[k].seq].by]
    <3>1. CASE k = l
      BY <1>7, <3>1
    <3>2. CASE k # l
      <4>1. k \in 1 .. l - 1 /\ k + d \in 1 .. n
        BY <3>2
      <4>2. ids'[k] = ids[k + d]
        BY <1>7, <4>1
      <4>. DEFINE z == ring'[ids[k + d].seq].nth
      <4>3. /\ ids[k + d].seq \in 1 .. m + 1 /\ z \in Nat /\ z + n - (k + d) <= c
            /\ ring'[ids[k + d].seq].by \in Requests \ Muted
            /\ ids[k + d].id = id[ring'[ids[k + d].seq].by]
        BY <1>2, <4>1
      <4>. HIDE DEF z
      <4>4. z + l - k <= c + 1
        <5>1. l = n + 1 - d /\ k \in Nat
          OBVIOUS
        <5>. QED
          BY ONLY <4>3, <5>1, c \in Nat, n \in Nat, d \in 0 .. 1
      <4>. QED
        BY ONLY <1>7, <4>2, <4>3, <4>4 DEF z
    <3>. QED
      BY <3>1, <3>2
  <2>2. ASSUME NEW s \in 1 .. m + 1, ring'[s].by \in Requests \ Muted,
               ring'[s].nth + RingCap > Decisions'
        PROVE  \E k \in 1 .. l : ids'[k].seq = s
    <3>1. CASE s = m + 1
      BY <1>1, <1>7, <3>1
    <3>2. CASE s # m + 1
      <4>. DEFINE z == ring'[s].nth
      <4>1. z \in Nat /\ z + RingCap > c + 1 /\ z + RingCap > c
        <5>1. s \in 1 .. m /\ ring'[s] = ring[s] /\ ring[s].nth \in Nat
          BY <3>2
        <5>2. ring'[s].nth + RingCap > c + 1
          BY ONLY <1>7, <2>2
        <5>. QED
          BY ONLY StreamConstants, <5>1, <5>2, c \in Nat DEF z
      <4>2. PICK j \in 1 .. n : ids[j].seq = s /\ z + n - j <= c
        BY <1>3, <2>2, <3>2, <4>1
      <4>. HIDE DEF z
      <4>3. j - d \in 1 .. l - 1 /\ (j - d) + d = j /\ j - d \in 1 .. l
        <5>1. l = n + 1 - d /\ (d = 1 <=> n = RingCap) /\ RingCap \in Nat
          OBVIOUS
        <5>. QED
          BY ONLY <1>1, <4>1, <4>2, <5>1, c \in Nat, n \in Nat, l \in Nat, d \in 0 .. 1
      <4>4. ids'[j - d] = ids[j]
        BY ONLY <1>7, <4>3
      <4>. QED
        BY ONLY <4>2, <4>3, <4>4
    <3>. QED
      BY <3>1, <3>2
  <2>. QED
    BY <1>1, <1>7, <1>5, <2>1, <2>2
<1>. QED
  BY <1>6, <1>7

LEMMA StreamApplyLogged == Inv /\ ApplyLogged => Inv'
<1>. SUFFICES ASSUME Inv, ApplyLogged PROVE Inv'
  OBVIOUS
<1>. DEFINE e == Head(channel)
            r == e.by
            m == Len(ring)
            x == Entry(r)
            c == Decisions
            p == [id |-> id[r], seq |-> m + 1]
            d == IF Len(ids) = RingCap THEN 1 ELSE 0
<1>. USE StreamConstants
<1>0. /\ Kinds /\ ring \in Seq(Entries) /\ amended \subseteq Requests /\ lastId \in Nat
      /\ id \in [Requests -> Nat] /\ pc \in [Requests -> 1 .. 7] /\ logged \in Nat
      /\ ids \in Seq(Places)
  BY DEF Inv, Kinds, ApplyKinds, EmitKinds
<1>1. /\ applier /\ channel # << >> /\ e.kind = "logged" /\ channel' = Tail(channel)
      /\ ring' = Append(ring, x) /\ lastId' = Max({lastId, e.id})
      /\ ids' = IF e.id > lastId /\ r \notin Muted
                  THEN Trimmed(Append(ids, [id |-> e.id, seq |-> m + 1])) ELSE ids
      /\ UNCHANGED <<pc, id, lock, logged, barriers, queue, acked, closed, acks, writer>>
      /\ UNCHANGED <<applier, amended, others>>
      /\ UNCHANGED <<asked, toFlush, flushing, flushed, before>>
  BY DEF ApplyLogged, Took, emitVars, boundVars, flushVars
<1>. USE <1>0
<1>2. 1 \in DOMAIN Pipe /\ e = Pipe[1] /\ channel' \in Seq(Frames)
  BY <1>1, Taken
<1>. HIDE DEF e
<1>3. /\ Sorted /\ Framed /\ AppliedUpTo /\ NothingLost /\ Remembered /\ Behind /\ Numbered
      /\ AmendsItsOwn
  BY <1>1 DEF Inv, InOrder
<1>4. /\ r \in Requests /\ e.id = id[r] /\ pc[r] >= 4 /\ id[r] > lastId
      /\ r \notin Landed /\ r \notin amended /\ id[r] \in Nat /\ IsLogged(e, r)
  <2>1. r \in Requests /\ IsLogged(e, r)
    BY <1>1, <1>2, <1>3 DEF Framed, IsLogged
  <2>. QED
    BY <1>2, <1>3, <2>1 DEF Framed
<1>5. /\ x \in Entries /\ x.by = r /\ x.got = Nobody
      /\ r \in Muted => x.nth = Decisions
      /\ r \notin Muted => x.nth = Decisions + 1
      /\ Decisions \in Nat /\ \A s \in DOMAIN ring : ring[s].nth \in Nat
  BY <1>4, EntryIs, Counted
<1>. HIDE DEF r
<1>6. lastId' = id[r]
  <2>1. lastId \in Int /\ id[r] \in Int /\ ~(lastId >= id[r])
    BY <1>4
  <2>2. Max({lastId, id[r]}) = id[r]
    BY ONLY <2>1, MaxOfTwo
  <2>. QED
    BY <1>1, <1>4, <2>2
<1>7. ids' = IF r \notin Muted THEN Trimmed(Append(ids, p)) ELSE ids
  BY <1>1, <1>4
<1>. HIDE DEF x
<1>8. /\ m \in Nat /\ DOMAIN ring = 1 .. m /\ DOMAIN ring' = 1 .. m + 1 /\ Len(ring') = m + 1
      /\ ring'[m + 1] = x /\ \A s \in 1 .. m : ring'[s] = ring[s]
      /\ ring' \in Seq(Entries) /\ Landed' = Landed \cup {r} /\ Decisions' = x.nth
  <2>1. ring' = Append(ring, x) /\ Kinds /\ x \in Entries
    BY <1>1, <1>5
  <2>2. /\ m \in Nat /\ DOMAIN ring = 1 .. m /\ DOMAIN ring' = 1 .. m + 1 /\ Len(ring') = m + 1
        /\ ring'[m + 1] = x /\ \A s \in 1 .. m : ring'[s] = ring[s]
        /\ ring' \in Seq(Entries) /\ Landed' = Landed \cup {x.by} /\ Decisions' = x.nth
    BY ONLY <2>1, Pushed
  <2>. QED
    BY <1>5, <2>2
<1>9. Remembered' /\ ids' \in Seq(Places)
  <2>1. /\ Len(ids) \in Nat /\ DOMAIN ids = 1 .. Len(ids) /\ Len(ids) <= RingCap
        /\ p \in Places /\ p.id = id[r] /\ p.seq = m + 1
    <3>1. Len(ids) <= RingCap
      BY <1>3 DEF Remembered
    <3>2. Len(ids) \in Nat /\ DOMAIN ids = 1 .. Len(ids)
      OBVIOUS
    <3>3. id[r] \in Nat /\ m + 1 \in Nat
      BY <1>4, <1>8
    <3>4. p \in Places /\ p.id = id[r] /\ p.seq = m + 1
      <4>1. p = [id |-> id[r], seq |-> m + 1]
        BY DEF p
      <4>. QED
        BY ONLY <3>3, <4>1, PlaceIs
    <3>. QED
      BY ONLY <3>1, <3>2, <3>4
  <2>2. r \notin Muted =>
          LET l == Len(ids) + 1 - d IN
          /\ ids' \in Seq(Places) /\ Len(ids') = l /\ ids'[l] = p
          /\ \A k \in 1 .. l - 1 : ids'[k] = ids[k + d]
    <3>. HIDE DEF p
    <3>1. ids \in Seq(Places) /\ Len(ids) <= RingCap /\ p \in Places
      BY <2>1
    <3>2. LET t == Trimmed(Append(ids, p))
              l == Len(ids) + 1 - d
          IN  /\ t \in Seq(Places) /\ Len(t) = l /\ t[l] = p
              /\ \A k \in 1 .. l - 1 : t[k] = ids[k + d]
      BY ONLY <3>1, TrimmedIs
    <3>. QED
      BY ONLY <1>7, <3>2
  <2>3. ids' \in Seq(Places)
    BY <1>7, <2>2
  <2>4. \A k \in DOMAIN ids : ids[k].seq \in Nat
    <3>1. \A k \in DOMAIN ids : ids[k] \in Places
      OBVIOUS
    <3>. QED
      BY <3>1 DEF Places
  <2>. DEFINE l == Len(ids) + 1 - d
  <2>5. l \in Nat /\ d \in 0 .. 1 /\ (d = 1 <=> Len(ids) = RingCap)
    <3>1. Len(ids) \in Nat /\ Len(ids) <= RingCap /\ RingCap \in Nat
      BY <2>1
    <3>. QED
      BY ONLY <3>1
  <2>. HIDE DEF m, p, d
  <2>6. \/ r \in Muted /\ ids' = ids /\ Decisions' = c
        \/ /\ r \notin Muted /\ Decisions' = c + 1 /\ DOMAIN ids' = 1 .. l /\ Len(ids') = l
           /\ ids'[l].id = id[r] /\ ids'[l].seq = m + 1
           /\ \A k \in 1 .. l - 1 : ids'[k] = ids[k + d]
    <3>1. CASE r \in Muted
      BY <1>5, <1>7, <1>8, <3>1
    <3>2. CASE r \notin Muted
      <4>1. /\ Len(ids') = l /\ ids'[l] = p /\ \A k \in 1 .. l - 1 : ids'[k] = ids[k + d]
        BY <2>2, <3>2
      <4>2. DOMAIN ids' = 1 .. l
        BY ONLY <2>3, <4>1
      <4>. QED
        BY <1>5, <1>8, <2>1, <3>2, <4>1, <4>2
    <3>. QED
      BY <3>1, <3>2
  <2>7. l = Len(ids) + 1 - d
    OBVIOUS
  <2>. HIDE DEF l
  <2>8. m = Len(ring) /\ id' = id /\ ring'[m + 1].by = r
    BY <1>1, <1>5, <1>8 DEF m
  <2>. DEFINE k == Len(ids)
  <2>10. /\ k \in Nat /\ k = Len(ids) /\ l = k + 1 - d /\ (d = 1 <=> k = RingCap) /\ DOMAIN ids = 1 .. k
    BY ONLY <2>1, <2>5, <2>7
  <2>. HIDE DEF k
  <2>11. /\ Kinds /\ Remembered /\ r \in Requests /\ r \notin Landed
         /\ m \in Nat /\ DOMAIN ring = 1 .. m /\ DOMAIN ring' = 1 .. m + 1 /\ Len(ring') = m + 1
         /\ \A s \in 1 .. m : ring'[s] = ring[s] /\ ring[s].nth \in Nat
         /\ c \in Nat /\ c = Decisions /\ ring'[m + 1].nth = Decisions'
    BY ONLY <1>0, <1>3, <1>4, <1>5, <1>8 DEF c
  <2>9. Remembered'
    <3>1. /\ m = Len(ring) /\ k = Len(ids) /\ l = k + 1 - d /\ (d = 1 <=> k = RingCap)
          /\ DOMAIN ids = 1 .. k /\ ring'[m + 1].by = r /\ id' = id
      BY ONLY <2>8, <2>10
    <3>. HIDE DEF c
    <3>2. OneMore(r, m, k, d, l, c)
      BY ONLY <2>4, <2>6, <2>11, <3>1 DEF OneMore
    <3>. QED
      BY ONLY <2>5, <2>10, <2>11, <3>2, RemembersOneMore
  <2>. QED
    BY <2>3, <2>9
<1>. HIDE DEF m, p, d
<1>10. Reported' = Reported
  BY <1>1 DEF Reported
<1>11. Kinds'
  <2>1. ApplyKinds'
    <3>1. /\ ring' \in Seq(Entries) /\ ids' \in Seq(Places) /\ lastId' \in Nat
          /\ UNCHANGED <<applier, amended, others>>
      BY <1>1, <1>4, <1>6, <1>8, <1>9
    <3>. QED
      BY ONLY <1>0, <3>1 DEF Kinds, ApplyKinds
  <2>2. WireKinds'
    BY <1>1, <1>2 DEF Kinds, WireKinds
  <2>. QED
    BY <1>1, <2>1, <2>2 DEF Kinds, EmitKinds, FlushKinds
<1>12. UpTogether' /\ HeldToQueue' /\ Numbered'
  BY <1>1 DEF Inv, UpTogether, HeldToQueue, Numbered
<1>13. Covered'
  BY <1>1, <1>10 DEF Inv, Covered
<1>14. AmendsItsOwn'
  <2>. SUFFICES ASSUME NEW s \in 1 .. m + 1
                PROVE  /\ ring'[s].got \in {Nobody, ring'[s].by}
                       /\ ring'[s].by \in amended \ Muted /\ ring'[s].nth + RingCap > Decisions'
                            => ring'[s].got = ring'[s].by
                       /\ ring'[s].by \in Muted => ring'[s].got = Nobody
    BY <1>1, <1>8 DEF AmendsItsOwn, Retained
  <2>1. CASE s \in 1 .. m
    <3>1. ring'[s] = ring[s] /\ s \in DOMAIN ring /\ ring[s].nth \in Nat
      BY ONLY <1>5, <1>8, <2>1
    <3>2. Decisions \in Nat /\ Decisions' \in {Decisions, Decisions + 1}
      BY ONLY <1>5, <1>8
    <3>3. ring'[s].nth + RingCap > Decisions' => Retained(s)
      BY ONLY StreamConstants, <3>1, <3>2 DEF Retained
    <3>. QED
      BY ONLY <1>3, <3>1, <3>3 DEF AmendsItsOwn
  <2>2. CASE s = m + 1
    BY <1>4, <1>5, <1>8, <2>2
  <2>. QED
    BY <1>8, <2>1, <2>2
<1>15. queue' = queue /\ channel # << >> /\ channel' = Tail(channel) /\ UNCHANGED <<pc, id>>
  BY <1>1
<1>16. InOrder'
  <2>1. Sorted'
    BY <1>3, <1>15, StillSorted
  <2>2. ASSUME NEW i \in DOMAIN Pipe, NEW q \in Requests, 1 < i, IsLogged(Pipe[i], q)
        PROVE  id[q] > lastId' /\ q \notin Landed' /\ q \notin amended'
    <3>1. Pipe[i].id = id[q] /\ q \notin Landed /\ q \notin amended
      BY <1>3, <2>2 DEF Framed
    <3>2. Pipe[1].kind = "logged" /\ Pipe[i].kind = "logged" /\ Pipe[1].id = id[r]
      BY <1>1, <1>2, <1>4, <2>2 DEF IsLogged
    <3>3. id[r] < id[q]
      BY <1>2, <1>3, <2>2, <3>1, <3>2 DEF Sorted
    <3>. QED
      BY <1>1, <1>4, <1>6, <1>8, <3>1, <3>3
  <2>3. Framed'
    BY <1>3, <1>15, <2>2, StillFramed
  <2>4. ASSUME NEW q \in Requests, pc[q] = 3 PROVE id[q] > id[r]
    <3>1. q # r /\ id[q] = logged /\ id[r] <= logged /\ id[q] # 0
      BY <1>3, <1>4, <2>4 DEF Numbered
    <3>2. id[q] # id[r]
      BY <1>3, <1>4, <3>1 DEF Numbered
    <3>. QED
      BY <1>4, <3>1, <3>2
  <2>5. ASSUME NEW q \in (Landed \cup {r}) \cap Requests
        PROVE  pc[q] >= 4 /\ id[q] # 0 /\ id[q] <= id[r]
    <3>1. CASE q = r
      BY <1>4, <3>1
    <3>2. CASE q # r
      BY <1>3, <1>4, <2>5, <3>2 DEF AppliedUpTo
    <3>. QED
      BY <3>1, <3>2
  <2>6. id[r] <= logged
    BY <1>3, <1>4 DEF Numbered
  <2>7. AppliedUpTo'
    BY <1>1, <1>3, <1>6, <1>8, <2>4, <2>5, <2>6 DEF AppliedUpTo
  <2>. QED
    BY <2>1, <2>3, <2>7 DEF InOrder
<1>17. NothingLost'
  <2>1. ASSUME NEW q \in Requests, InPipe(q), q # r PROVE InPipe(q)'
    <3>1. ~IsLogged(Head(channel), q)
      BY <2>1 DEF IsLogged, e, r
    <3>. QED
      BY <1>15, <2>1, <3>1, TakesNoDecision
  <2>. QED
    BY <1>3, <1>8, <1>10, <2>1 DEF NothingLost
<1>18. Behind'
  <2>1. /\ acks' = acks /\ Landed \subseteq Landed'
        /\ UNCHANGED <<barriers, acked, flushing, flushed, before>>
    BY <1>1, <1>8
  <2>2. \A q : IsLogged(Head(channel), q) => q \in Landed'
    BY <1>8 DEF IsLogged, e, r
  <2>. QED
    BY <1>3, <1>15, <2>1, <2>2, BehindAfterTaking
<1>. QED
  BY <1>1, <1>9, <1>11, <1>12, <1>13, <1>14, <1>16, <1>17, <1>18 DEF Inv

-----------------------------------------------------------------------------
(* The flushes.                                                            *)

(* What a step of the flush thread, or of who asks for a flush, leaves     *)
(* alone.                                                                  *)
LEMMA FlushLeaves ==
  ASSUME Inv, UNCHANGED <<pc, id, logged, acked, closed, channel, acks, writer>>,
         UNCHANGED <<applier, ids, lastId, ring, amended, others>>
  PROVE  /\ UpTogether' /\ AmendsItsOwn' /\ Numbered' /\ WireKinds' /\ ApplyKinds'
         /\ Landed' = Landed /\ Reported' = Reported
         /\ applier => Remembered' /\ AppliedUpTo'
         /\ applier /\ queue' = queue => InOrder' /\ NothingLost' /\ Pipe' = Pipe
<1>1. Landed' = Landed /\ Reported' = Reported
  BY DEF Landed, Reported
<1>2. UpTogether' /\ AmendsItsOwn' /\ Numbered' /\ WireKinds' /\ ApplyKinds'
  BY DEF Inv, UpTogether, AmendsItsOwn, Retained, Decisions, Numbered, Kinds, WireKinds, ApplyKinds
<1>3. applier => Remembered' /\ AppliedUpTo'
  BY <1>1 DEF Inv, InOrder, Remembered, AppliedUpTo, Retained, Decisions
<1>4. ASSUME applier, queue' = queue PROVE InOrder' /\ NothingLost' /\ Pipe' = Pipe
  <2>1. Pipe' = Pipe
    BY <1>4 DEF Pipe
  <2>2. Sorted' /\ Framed'
    BY <1>1, <1>4, <2>1 DEF Inv, InOrder, Sorted, Framed, IsLogged, IsStatus
  <2>3. NothingLost'
    BY <1>1, <1>4, <2>1 DEF Inv, NothingLost, InPipe, IsLogged
  <2>. QED
    BY <1>3, <1>4, <2>1, <2>2, <2>3 DEF InOrder
<1>. QED
  BY <1>1, <1>2, <1>3, <1>4

LEMMA StreamAskFlush == Inv /\ AskFlush => Inv'
<1>. SUFFICES ASSUME Inv, AskFlush PROVE Inv'
  OBVIOUS
<1>. USE StreamConstants
<1>0. /\ Kinds /\ toFlush \in Seq(Nat) /\ before \in Seq(SUBSET Requests) /\ asked \in Nat
      /\ flushed \in Nat /\ flushing.for \in Nat
  BY DEF Inv, Kinds, FlushKinds
<1>1. /\ asked' = asked + 1 /\ toFlush' = Append(toFlush, asked + 1)
      /\ before' = Append(before, Reported)
      /\ UNCHANGED <<pc, id, lock, logged, barriers, queue, acked, closed, channel, acks, writer>>
      /\ UNCHANGED <<applier, ids, lastId, ring, amended, others>>
      /\ UNCHANGED <<flushing, flushed>>
  BY DEF AskFlush, emitVars, boundVars, wireVars, applyVars
<1>. USE <1>0
<1>2. /\ UpTogether' /\ AmendsItsOwn' /\ Numbered' /\ WireKinds' /\ ApplyKinds'
      /\ Landed' = Landed /\ Reported' = Reported
      /\ applier => Remembered' /\ InOrder' /\ NothingLost' /\ Pipe' = Pipe
  BY <1>1, FlushLeaves
<1>3. Covered
  BY DEF Inv
<1>4. /\ before' \in Seq(SUBSET Requests) /\ Len(before') = asked + 1
      /\ before'[asked + 1] = Reported /\ \A i \in 1 .. asked : before'[i] = before[i]
  <2>1. Reported \in SUBSET Requests /\ Len(before) = asked
    BY <1>3 DEF Reported, Covered
  <2>. QED
    BY <1>1, <2>1, AppendProperties
<1>5. toFlush' \in Seq(Nat) /\ \A i \in DOMAIN toFlush' : toFlush'[i] \in 1 .. asked + 1
  <2>1. /\ Len(toFlush') = Len(toFlush) + 1 /\ toFlush' \in Seq(Nat)
        /\ toFlush'[Len(toFlush) + 1] = asked + 1
        /\ \A i \in 1 .. Len(toFlush) : toFlush'[i] = toFlush[i]
    BY <1>1, AppendProperties
  <2>2. \A i \in 1 .. Len(toFlush) : toFlush[i] \in 1 .. asked
    BY <1>3 DEF Covered
  <2>3. Len(toFlush) \in Nat /\ DOMAIN toFlush' = 1 .. Len(toFlush) + 1
    BY <2>1
  <2>4. \A i \in 1 .. Len(toFlush) + 1 : i \in 1 .. Len(toFlush) \/ i = Len(toFlush) + 1
    BY <2>3
  <2>5. \A a \in 1 .. asked : a \in 1 .. asked + 1
    OBVIOUS
  <2>6. asked + 1 \in 1 .. asked + 1
    OBVIOUS
  <2>. QED
    BY <2>1, <2>2, <2>3, <2>4, <2>5, <2>6
<1>6. \A i \in 1 .. asked + 1 : i \in 1 .. asked \/ i = asked + 1
  OBVIOUS
<1>7. Kinds' /\ HeldToQueue'
  <2>1. FlushKinds'
    BY <1>1, <1>4, <1>5 DEF Kinds, FlushKinds
  <2>. QED
    BY <1>1, <1>2, <2>1 DEF Inv, Kinds, EmitKinds, HeldToQueue
<1>8. Covered'
  <2>1. \A i \in 1 .. asked + 1 : before'[i] \subseteq Reported
    BY <1>3, <1>4, <1>6 DEF Covered
  <2>2. ASSUME NEW i \in 1 .. asked + 1, NEW j \in 1 .. asked + 1, i <= j
        PROVE  before'[i] \subseteq before'[j]
    <3>1. CASE j = asked + 1
      BY <1>4, <2>1, <3>1
    <3>2. CASE j # asked + 1
      <4>1. i \in 1 .. asked /\ j \in 1 .. asked
        BY <2>2, <3>2
      <4>. QED
        BY <1>3, <1>4, <2>2, <4>1 DEF Covered
    <3>. QED
      BY <3>1, <3>2
  <2>3. flushed <= asked + 1 /\ (flushing.at # "idle" => flushing.for \in 1 .. asked + 1)
    BY <1>3 DEF Covered
  <2>. QED
    BY <1>1, <1>2, <1>4, <1>5, <2>1, <2>2, <2>3 DEF Covered
<1>9. ASSUME applier PROVE Behind'
  <2>0. Behind
    BY <1>9 DEF Inv
  <2>1. flushing.at # "idle" => before'[flushing.for] = before[flushing.for]
    BY <1>3, <1>4 DEF Covered
  <2>2. \A i \in 1 .. flushed : before'[i] = before[i]
    BY <1>3, <1>4 DEF Covered
  <2>3. BarriersGiven'
    BY <1>1, <1>2, <1>9, <2>0 DEF Behind, BarriersGiven, BarrierIs
  <2>4. BarrierBehind'
    <3>1. /\ Pipe' = Pipe /\ Landed' = Landed /\ barriers' = barriers /\ flushing' = flushing
          /\ flushing.at = "wait" => before'[flushing.for] = before[flushing.for]
      BY <1>1, <1>2, <1>9, <2>1
    <3>2. BarrierBehind
      BY <2>0 DEF Behind
    <3>. QED
      BY ONLY <3>1, <3>2 DEF BarrierBehind, BarrierIs, Ahead, IsLogged
  <2>5. AckedMeansLanded'
    BY <1>1, <1>2, <2>0, <2>1, <2>2 DEF Behind, AckedMeansLanded
  <2>. QED
    BY <2>3, <2>4, <2>5 DEF Behind
<1>. QED
  BY <1>1, <1>2, <1>7, <1>8, <1>9 DEF Inv

LEMMA StreamTakeFlush == Inv /\ TakeFlush => Inv'
<1>. SUFFICES ASSUME Inv, TakeFlush PROVE Inv'
  OBVIOUS
<1>. USE StreamConstants
<1>0. Kinds /\ toFlush \in Seq(Nat)
  BY DEF Inv, Kinds, FlushKinds
<1>1. /\ toFlush # << >> /\ toFlush' = Tail(toFlush)
      /\ flushing' = [at |-> "lock", for |-> Head(toFlush), barrier |-> 0]
      /\ UNCHANGED <<pc, id, lock, logged, barriers, queue, acked, closed, channel, acks, writer>>
      /\ UNCHANGED <<applier, ids, lastId, ring, amended, others>>
      /\ UNCHANGED <<asked, flushed, before>>
  BY DEF TakeFlush, IdleFlush, emitVars, boundVars, wireVars, applyVars
<1>. USE <1>0
<1>2. /\ UpTogether' /\ AmendsItsOwn' /\ Numbered' /\ WireKinds' /\ ApplyKinds'
      /\ Landed' = Landed /\ Reported' = Reported
      /\ applier => Remembered' /\ InOrder' /\ NothingLost' /\ Pipe' = Pipe
  BY <1>1, FlushLeaves
<1>3. /\ Head(toFlush) = toFlush[1] /\ 1 \in DOMAIN toFlush /\ toFlush' \in Seq(Nat)
      /\ \A i \in DOMAIN toFlush' : \E j \in DOMAIN toFlush : toFlush'[i] = toFlush[j]
  <2>1. /\ Head(toFlush) = toFlush[1] /\ Len(toFlush) \in Nat /\ Len(toFlush) >= 1
        /\ DOMAIN toFlush = 1 .. Len(toFlush)
    BY <1>1
  <2>2. /\ toFlush' \in Seq(Nat) /\ Len(toFlush') = Len(toFlush) - 1
        /\ \A i \in 1 .. Len(toFlush') : toFlush'[i] = toFlush[i + 1]
    BY <1>1, HeadTailProperties
  <2>3. \A i \in 1 .. Len(toFlush) - 1 : i + 1 \in 1 .. Len(toFlush)
    BY <2>1
  <2>4. DOMAIN toFlush' = 1 .. Len(toFlush) - 1
    BY <2>2
  <2>5. 1 \in DOMAIN toFlush
    BY <2>1
  <2>. QED
    BY <2>1, <2>2, <2>3, <2>4, <2>5
<1>4. Covered /\ toFlush[1] \in 1 .. asked /\ toFlush[1] \in Nat
  BY <1>3 DEF Inv, Covered
<1>5. Kinds' /\ HeldToQueue'
  <2>1. FlushKinds'
    BY <1>1, <1>3, <1>4 DEF Kinds, FlushKinds
  <2>. QED
    BY <1>1, <1>2, <2>1 DEF Inv, Kinds, EmitKinds, HeldToQueue
<1>6. Covered'
  BY <1>1, <1>2, <1>3, <1>4 DEF Covered
<1>7. applier => Behind'
  BY <1>1, <1>2 DEF Inv, Behind, BarriersGiven, BarrierBehind, AckedMeansLanded
<1>. QED
  BY <1>1, <1>2, <1>5, <1>6, <1>7 DEF Inv

LEMMA StreamLockForBarrier == Inv /\ LockForBarrier => Inv'
<1>. SUFFICES ASSUME Inv, LockForBarrier PROVE Inv'
  OBVIOUS
<1>. USE StreamConstants
<1>0. Kinds /\ barriers \in Nat /\ acked \in Nat /\ acks \in Seq(Nat) /\ FlushKinds
  BY DEF Inv, Kinds, EmitKinds, WireKinds
<1>1. /\ flushing.at = "lock" /\ lock = Nobody /\ lock' = Flusher /\ barriers' = barriers + 1
      /\ flushing' = [flushing EXCEPT !.at = "send", !.barrier = barriers + 1]
      /\ UNCHANGED <<pc, id, logged, queue, acked, closed, channel, acks, writer>>
      /\ UNCHANGED <<applier, ids, lastId, ring, amended, others>>
      /\ UNCHANGED <<asked, toFlush, flushed, before>>
  BY DEF LockForBarrier, boundVars, wireVars, applyVars
<1>2. /\ flushing'.at = "send" /\ flushing'.for = flushing.for /\ flushing'.barrier = barriers + 1
      /\ flushing' \in [at : {"idle", "lock", "send", "wait", "say"}, for : Nat, barrier : Nat]
  <2>1. flushing \in [at : {"idle", "lock", "send", "wait", "say"}, for : Nat, barrier : Nat]
    BY <1>0 DEF FlushKinds
  <2>2. barriers + 1 \in Nat /\ flushing' = [flushing EXCEPT !.at = "send", !.barrier = barriers + 1]
    BY <1>0, <1>1
  <2>. QED
    BY ONLY <2>1, <2>2
<1>3. /\ UpTogether' /\ AmendsItsOwn' /\ Numbered' /\ WireKinds' /\ ApplyKinds'
      /\ Landed' = Landed /\ Reported' = Reported
      /\ applier => Remembered' /\ InOrder' /\ NothingLost' /\ Pipe' = Pipe
  BY <1>1, FlushLeaves
<1>4. Kinds'
  <2>1. FlushKinds'
    BY <1>0, <1>1, <1>2 DEF FlushKinds
  <2>2. EmitKinds'
    BY <1>0, <1>1 DEF Kinds, EmitKinds
  <2>. QED
    BY <1>3, <2>1, <2>2 DEF Kinds
<1>5. HeldToQueue'
  BY <1>1, <1>2 DEF Inv, HeldToQueue
<1>6. Covered'
  BY <1>1, <1>2, <1>3 DEF Inv, Covered
<1>7. ASSUME applier PROVE Behind'
  <2>0. Behind
    BY <1>7 DEF Inv
  <2>1. /\ \A i \in DOMAIN acks : acks[i] \in Nat
        /\ \A i \in DOMAIN Pipe : Pipe[i].id \in Nat
    <3>1. \A i \in DOMAIN Pipe : Pipe[i] \in Frames
      BY <1>0, PipeIs
    <3>. QED
      BY <1>0, <3>1 DEF Frames
  <2>2. BarriersGiven'
    <3>1. /\ acked < barriers + 1 /\ \A i \in DOMAIN acks : acks[i] < barriers + 1
          /\ \A i \in DOMAIN Pipe : Pipe[i].kind = "barrier" => Pipe[i].id < barriers + 1
      BY <1>0, <2>0, <2>1 DEF Behind, BarriersGiven
    <3>2. acked' = acked /\ acks' = acks /\ Pipe' = Pipe /\ barriers' = barriers + 1
      BY <1>1, <1>3, <1>7
    <3>. QED
      BY ONLY <1>0, <1>2, <2>1, <3>1, <3>2 DEF BarriersGiven, BarrierIs
  <2>3. BarrierBehind' /\ AckedMeansLanded'
    BY <1>1, <1>2, <1>3, <2>0 DEF Behind, BarrierBehind, AckedMeansLanded
  <2>. QED
    BY <2>2, <2>3 DEF Behind
<1>. QED
  BY <1>1, <1>3, <1>4, <1>5, <1>6, <1>7 DEF Inv

LEMMA StreamQueueBarrier == Inv /\ QueueBarrier => Inv'
<1>. SUFFICES ASSUME Inv, QueueBarrier PROVE Inv'
  OBVIOUS
<1>. DEFINE n == Len(Pipe)
            b == flushing.barrier
            e == [kind |-> "barrier", by |-> Flusher, id |-> b, weight |-> 0]
<1>. USE StreamConstants
<1>0. Kinds /\ FlushKinds
  BY DEF Inv, Kinds
<1>1. /\ flushing.at = "send" /\ lock' = Nobody /\ Len(queue) < QueueCap
      /\ queue' = Append(queue, e) /\ flushing' = [flushing EXCEPT !.at = "wait"]
      /\ UNCHANGED <<pc, id, logged, barriers, acked, closed, channel, acks, writer>>
      /\ UNCHANGED <<applier, ids, lastId, ring, amended, others>>
      /\ UNCHANGED <<asked, toFlush, flushed, before>>
  BY DEF QueueBarrier, boundVars, wireVars, applyVars
<1>2. /\ flushing'.at = "wait" /\ flushing'.for = flushing.for /\ flushing'.barrier = b /\ b \in Nat
      /\ flushing' \in [at : {"idle", "lock", "send", "wait", "say"}, for : Nat, barrier : Nat]
  BY <1>0, <1>1 DEF FlushKinds
<1>3. e \in Frames /\ e.kind = "barrier" /\ e.id = b
  BY <1>2 DEF Frames
<1>. HIDE DEF e
<1>4. /\ n \in Nat /\ DOMAIN Pipe = 1 .. n /\ DOMAIN Pipe' = 1 .. n + 1
      /\ Pipe'[n + 1] = e /\ \A i \in 1 .. n : Pipe'[i] = Pipe[i]
      /\ queue' \in Seq(Frames) /\ Len(queue') = Len(queue) + 1
  BY <1>0, <1>1, <1>3, Queued
<1>. HIDE DEF n
<1>5. /\ UpTogether' /\ AmendsItsOwn' /\ Numbered' /\ WireKinds' /\ ApplyKinds'
      /\ Landed' = Landed /\ Reported' = Reported
      /\ applier => Remembered' /\ AppliedUpTo'
  BY <1>1, FlushLeaves
<1>6. Kinds' /\ HeldToQueue'
  <2>1. FlushKinds'
    BY <1>0, <1>1, <1>2 DEF FlushKinds
  <2>2. EmitKinds'
    BY <1>0, <1>1, <1>4 DEF Kinds, EmitKinds
  <2>3. HeldToQueue'
    BY <1>1, <1>2 DEF Inv, HeldToQueue
  <2>. QED
    BY <1>5, <2>1, <2>2, <2>3 DEF Kinds
<1>7. Covered'
  BY <1>1, <1>2, <1>5 DEF Inv, Covered
<1>8. ASSUME applier PROVE (InOrder /\ NothingLost /\ Behind)'
  <2>0. /\ Sorted /\ Framed /\ NothingLost /\ Behind /\ Covered /\ b = barriers
        /\ UNCHANGED <<pc, id, lastId, amended, barriers, acked, acks, before, flushed>>
    BY <1>1, <1>8 DEF Inv, InOrder, Behind, BarriersGiven
  <2>1. \A i \in 1 .. n + 1 : \/ i \in 1 .. n /\ Pipe'[i] = Pipe[i]
                              \/ i = n + 1 /\ Pipe'[i] = e
    BY <1>4
  <2>2. Sorted'
    <3>. SUFFICES ASSUME NEW i \in 1 .. n + 1, NEW j \in 1 .. n + 1, i < j
                  PROVE  /\ Pipe'[i].kind = "logged" /\ Pipe'[j].kind = "logged"
                              => Pipe'[i].id < Pipe'[j].id
                         /\ Pipe'[i].kind = "status" => ~IsLogged(Pipe'[j], Pipe'[i].by)
      BY <1>4 DEF Sorted, IsLogged
    <3>1. i \in 1 .. n /\ Pipe'[i] = Pipe[i]
      BY <1>4
    <3>2. CASE j \in 1 .. n
      BY <1>4, <2>0, <3>1, <3>2 DEF Sorted, IsLogged
    <3>3. CASE Pipe'[j] = e
      BY <1>3, <3>3 DEF IsLogged
    <3>. QED
      BY <2>1, <3>2, <3>3
  <2>3. Framed'
    <3>1. ASSUME NEW i \in 1 .. n + 1, NEW q \in Requests
          PROVE  /\ IsLogged(Pipe'[i], q) =>
                      /\ Pipe'[i].id = id'[q] /\ pc'[q] >= 4 /\ id'[q] > lastId'
                      /\ q \notin Landed' /\ q \notin amended'
                 /\ IsStatus(Pipe'[i], q) => Pipe'[i].id = id'[q] /\ pc'[q] = 7 /\ id'[q] # 0
      <4>1. CASE i \in 1 .. n /\ Pipe'[i] = Pipe[i]
        <5>1. /\ IsLogged(Pipe[i], q) =>
                   /\ Pipe[i].id = id[q] /\ pc[q] >= 4 /\ id[q] > lastId
                   /\ q \notin Landed /\ q \notin amended
              /\ IsStatus(Pipe[i], q) => Pipe[i].id = id[q] /\ pc[q] = 7 /\ id[q] # 0
          BY <1>4, <2>0, <4>1 DEF Framed
        <5>. QED
          BY <1>5, <2>0, <4>1, <5>1
      <4>2. CASE Pipe'[i] = e
        BY <1>3, <4>2 DEF IsLogged, IsStatus
      <4>. QED
        BY <2>1, <4>1, <4>2
    <3>2. \A i \in 1 .. n : Pipe[i].kind # "barrier" => Pipe[i].by \in Requests
      BY <1>4, <2>0 DEF Framed
    <3>3. \A i \in 1 .. n + 1 : Pipe'[i].kind # "barrier" => Pipe'[i].by \in Requests
      BY <1>3, <2>1, <3>2
    <3>. QED
      BY ONLY <1>4, <3>1, <3>3 DEF Framed, IsLogged, IsStatus
  <2>4. ASSUME NEW q, InPipe(q)
        PROVE  InPipe(q)' /\ \E j \in 1 .. n : IsLogged(Pipe'[j], q)
    <3>1. PICK i \in 1 .. n : IsLogged(Pipe[i], q)
      BY <1>4, <2>4 DEF InPipe
    <3>2. i \in DOMAIN Pipe' /\ Pipe'[i] = Pipe[i]
      BY <1>4
    <3>. QED
      BY <3>1, <3>2 DEF InPipe, IsLogged
  <2>5. NothingLost'
    BY <1>5, <2>0, <2>4 DEF NothingLost
  <2>6. BarriersGiven'
    <3>1. ASSUME NEW i \in 1 .. n + 1, Pipe'[i].kind = "barrier" PROVE Pipe'[i].id <= barriers
      <4>1. CASE i \in 1 .. n /\ Pipe'[i] = Pipe[i]
        BY <1>4, <2>0, <3>1, <4>1 DEF Behind, BarriersGiven
      <4>2. CASE Pipe'[i] = e
        BY <1>2, <1>3, <2>0, <4>2
      <4>. QED
        BY <2>1, <4>1, <4>2
    <3>2. acked <= barriers /\ \A i \in DOMAIN acks : acks[i] <= barriers
      BY <2>0 DEF Behind, BarriersGiven
    <3>. QED
      BY ONLY <1>2, <1>4, <2>0, <3>1, <3>2 DEF BarriersGiven, BarrierIs
  <2>7. BarrierBehind'
    <3>. SUFFICES ASSUME NEW i \in 1 .. n + 1, BarrierIs(Pipe'[i], barriers),
                         NEW q \in before[flushing.for], q \notin Landed
                  PROVE  \E j \in 1 .. i - 1 : IsLogged(Pipe'[j], q)
      BY <1>2, <1>4, <1>5, <2>0 DEF BarrierBehind, BarrierIs, Ahead, IsLogged
    <3>1. i = n + 1
      <4>1. ASSUME i \in 1 .. n, Pipe'[i] = Pipe[i] PROVE FALSE
        BY <1>1, <1>4, <2>0, <4>1 DEF Behind, BarriersGiven, BarrierIs
      <4>. QED
        BY <2>1, <4>1
    <3>2. q \in Reported
      BY <1>1, <2>0 DEF Covered
    <3>3. InPipe(q)
      BY <2>0, <3>2 DEF NothingLost
    <3>4. i - 1 = n
      BY <1>4, <3>1
    <3>. QED
      BY <2>4, <3>3, <3>4
  <2>8. AckedMeansLanded'
    <3>1. acked # barriers /\ \A i \in DOMAIN acks : acks[i] # barriers
      BY <1>1, <2>0 DEF Behind, BarriersGiven
    <3>2. \A i \in 1 .. flushed : before[i] \subseteq Landed
      BY <2>0 DEF Behind, AckedMeansLanded
    <3>. QED
      BY ONLY <1>2, <1>5, <2>0, <3>1, <3>2 DEF AckedMeansLanded
  <2>. QED
    BY <1>5, <1>8, <2>2, <2>3, <2>5, <2>6, <2>7, <2>8 DEF InOrder, Behind
<1>. QED
  BY <1>1, <1>5, <1>6, <1>7, <1>8 DEF Inv

LEMMA StreamQueueBarrierFails == Inv /\ QueueBarrierFails => Inv'
<1>. SUFFICES ASSUME Inv, QueueBarrierFails PROVE Inv'
  OBVIOUS
<1>. USE StreamConstants
<1>0. Kinds /\ FlushKinds
  BY DEF Inv, Kinds
<1>1. /\ flushing.at = "send" /\ ~writer /\ lock' = Nobody
      /\ flushing' = [flushing EXCEPT !.at = "say"]
      /\ UNCHANGED <<pc, id, logged, barriers, queue, acked, closed, channel, acks, writer>>
      /\ UNCHANGED <<applier, ids, lastId, ring, amended, others>>
      /\ UNCHANGED <<asked, toFlush, flushed, before>>
  BY DEF QueueBarrierFails, boundVars, wireVars, applyVars
<1>2. /\ flushing'.at = "say" /\ flushing'.for = flushing.for
      /\ flushing' \in [at : {"idle", "lock", "send", "wait", "say"}, for : Nat, barrier : Nat]
  BY <1>0, <1>1 DEF FlushKinds
<1>3. /\ UpTogether' /\ AmendsItsOwn' /\ Numbered' /\ WireKinds' /\ ApplyKinds'
      /\ Reported' = Reported
  BY <1>1, FlushLeaves
<1>4. Kinds' /\ HeldToQueue'
  <2>1. FlushKinds'
    BY <1>0, <1>1, <1>2 DEF FlushKinds
  <2>2. EmitKinds'
    BY <1>0, <1>1 DEF Kinds, EmitKinds
  <2>3. HeldToQueue'
    BY <1>1, <1>2 DEF Inv, HeldToQueue
  <2>. QED
    BY <1>3, <2>1, <2>2, <2>3 DEF Kinds
<1>5. Covered'
  BY <1>1, <1>2, <1>3 DEF Inv, Covered
<1>6. ~applier'
  BY <1>1 DEF Inv, UpTogether
<1>. QED
  BY <1>3, <1>4, <1>5, <1>6 DEF Inv

(* The wait ends when its own barrier, the newest there is, was            *)
(* acknowledged: no other of that number is on its way.                    *)
LEMMA StreamAwaitAck == Inv /\ AwaitAck => Inv'
<1>. SUFFICES ASSUME Inv, AwaitAck PROVE Inv'
  OBVIOUS
<1>. USE StreamConstants
<1>0. Kinds /\ FlushKinds /\ acked \in Nat /\ barriers \in Nat
  BY DEF Inv, Kinds, EmitKinds, WireKinds
<1>1. /\ flushing.at = "wait" /\ (acked >= flushing.barrier \/ closed)
      /\ flushing' = [flushing EXCEPT !.at = "say"]
      /\ UNCHANGED <<pc, id, lock, logged, barriers, queue, acked, closed, channel, acks, writer>>
      /\ UNCHANGED <<applier, ids, lastId, ring, amended, others>>
      /\ UNCHANGED <<asked, toFlush, flushed, before>>
  BY DEF AwaitAck, Acked, emitVars, boundVars, wireVars, applyVars
<1>2. /\ flushing'.at = "say" /\ flushing'.for = flushing.for
      /\ flushing' \in [at : {"idle", "lock", "send", "wait", "say"}, for : Nat, barrier : Nat]
  BY <1>0, <1>1 DEF FlushKinds
<1>3. /\ UpTogether' /\ AmendsItsOwn' /\ Numbered' /\ WireKinds' /\ ApplyKinds'
      /\ Landed' = Landed /\ Reported' = Reported
      /\ applier => Remembered' /\ InOrder' /\ NothingLost' /\ Pipe' = Pipe
  BY <1>1, FlushLeaves
<1>4. Kinds' /\ HeldToQueue'
  <2>1. FlushKinds'
    BY <1>0, <1>1, <1>2 DEF FlushKinds
  <2>2. EmitKinds'
    BY <1>0, <1>1 DEF Kinds, EmitKinds
  <2>3. HeldToQueue'
    BY <1>1, <1>2 DEF Inv, HeldToQueue
  <2>. QED
    BY <1>3, <2>1, <2>2, <2>3 DEF Kinds
<1>5. Covered'
  BY <1>1, <1>2, <1>3 DEF Inv, Covered
<1>6. ASSUME applier PROVE Behind'
  <2>0. Behind /\ ~closed
    BY <1>6 DEF Inv, UpTogether
  <2>1. acked = barriers
    BY <1>0, <1>1, <2>0 DEF Behind, BarriersGiven
  <2>2. before[flushing.for] \subseteq Landed /\ \A i \in 1 .. flushed : before[i] \subseteq Landed
    BY <1>1, <2>0, <2>1 DEF Behind, AckedMeansLanded
  <2>3. BarriersGiven'
    BY <1>1, <1>2, <1>3, <1>6, <2>0 DEF Behind, BarriersGiven, BarrierIs
  <2>4. BarrierBehind' /\ AckedMeansLanded'
    BY <1>1, <1>2, <1>3, <2>2 DEF BarrierBehind, AckedMeansLanded
  <2>. QED
    BY <2>3, <2>4 DEF Behind
<1>. QED
  BY <1>1, <1>3, <1>4, <1>5, <1>6 DEF Inv

LEMMA MinOfTwo ==
  ASSUME NEW a \in Int, NEW b \in Int, a <= b
  PROVE  Min({a, b}) = a
<1>. DEFINE M == Min({a, b})
<1>1. \E x \in {a, b} : \A y \in {a, b} : x <= y
  OBVIOUS
<1>2. M \in {a, b} /\ \A y \in {a, b} : M <= y
  BY <1>1 DEF Min
<1>. HIDE DEF M
<1>3. M = a
  BY <1>2
<1>. QED
  BY <1>3 DEF M

LEMMA StreamSayFlushed == Inv /\ SayFlushed => Inv'
<1>. SUFFICES ASSUME Inv, SayFlushed PROVE Inv'
  OBVIOUS
<1>. DEFINE f == flushing.for
<1>. USE StreamConstants
<1>0. Kinds /\ FlushKinds /\ asked \in Nat /\ flushed \in Nat /\ f \in Nat
  BY DEF Inv, Kinds, FlushKinds
<1>1. /\ flushing.at = "say" /\ flushed' = Max({flushed, Min({f, asked})})
      /\ flushing' = [at |-> "idle", for |-> 0, barrier |-> 0]
      /\ UNCHANGED <<pc, id, lock, logged, barriers, queue, acked, closed, channel, acks, writer>>
      /\ UNCHANGED <<applier, ids, lastId, ring, amended, others>>
      /\ UNCHANGED <<asked, toFlush, before>>
  BY DEF SayFlushed, IdleFlush, emitVars, boundVars, wireVars, applyVars
<1>2. Covered /\ f \in 1 .. asked
  BY <1>1 DEF Inv, Covered
<1>3. flushed' = IF flushed >= f THEN flushed ELSE f
  <2>1. f \in Int /\ asked \in Int /\ flushed \in Int /\ f <= asked
    BY <1>0, <1>2
  <2>2. Min({f, asked}) = f
    BY ONLY <2>1, MinOfTwo
  <2>3. Max({flushed, f}) = IF flushed >= f THEN flushed ELSE f
    BY ONLY <2>1, MaxOfTwo
  <2>. QED
    BY <1>1, <2>2, <2>3
<1>4. flushed' \in Nat /\ flushed' <= asked /\ \A i \in 1 .. flushed' : i \in 1 .. flushed \/ i \in 1 .. f
  BY <1>0, <1>2, <1>3 DEF Covered
<1>5. /\ UpTogether' /\ AmendsItsOwn' /\ Numbered' /\ WireKinds' /\ ApplyKinds'
      /\ Landed' = Landed /\ Reported' = Reported
      /\ applier => Remembered' /\ InOrder' /\ NothingLost' /\ Pipe' = Pipe
  BY <1>1, FlushLeaves
<1>6. Kinds' /\ HeldToQueue'
  <2>1. FlushKinds'
    BY <1>0, <1>1, <1>4 DEF FlushKinds
  <2>2. EmitKinds'
    BY <1>0, <1>1 DEF Kinds, EmitKinds
  <2>3. HeldToQueue'
    BY <1>1 DEF Inv, HeldToQueue
  <2>. QED
    BY <1>5, <2>1, <2>2, <2>3 DEF Kinds
<1>7. Covered'
  BY <1>1, <1>2, <1>4, <1>5 DEF Covered
<1>8. ASSUME applier PROVE Behind'
  <2>0. Behind
    BY <1>8 DEF Inv
  <2>1. before[f] \subseteq Landed /\ \A i \in 1 .. flushed : before[i] \subseteq Landed
    BY <1>1, <2>0 DEF Behind, AckedMeansLanded
  <2>2. ASSUME NEW i \in 1 .. f PROVE before[i] \subseteq before[f]
    BY <1>0, <1>2 DEF Covered
  <2>3. \A i \in 1 .. flushed' : before[i] \subseteq Landed
    BY <1>4, <2>1, <2>2
  <2>4. AckedMeansLanded' /\ BarrierBehind'
    BY <1>1, <1>5, <2>3 DEF AckedMeansLanded, BarrierBehind
  <2>5. BarriersGiven'
    BY <1>1, <1>5, <1>8, <2>0 DEF Behind, BarriersGiven
  <2>. QED
    BY <2>4, <2>5 DEF Behind
<1>. QED
  BY <1>1, <1>5, <1>6, <1>7, <1>8 DEF Inv

LEMMA StreamStill == Inv /\ UNCHANGED vars => Inv'
<1>. SUFFICES ASSUME Inv, UNCHANGED vars PROVE Inv'
  OBVIOUS
<1>1. /\ UNCHANGED <<pc, id, lock, logged, barriers, queue, acked, closed, channel, acks, writer>>
      /\ UNCHANGED <<applier, ids, lastId, ring, amended, others>>
      /\ UNCHANGED <<asked, toFlush, flushing, flushed, before>>
  BY DEF vars, emitVars, boundVars, wireVars, applyVars, flushVars
<1>2. /\ UpTogether' /\ AmendsItsOwn' /\ Numbered' /\ WireKinds' /\ ApplyKinds'
      /\ Landed' = Landed /\ Reported' = Reported
      /\ applier => Remembered' /\ InOrder' /\ NothingLost' /\ Pipe' = Pipe
  BY <1>1, FlushLeaves
<1>3. Kinds' /\ HeldToQueue'
  BY <1>1, <1>2 DEF Inv, Kinds, EmitKinds, FlushKinds, HeldToQueue
<1>4. Covered'
  BY <1>1, <1>2 DEF Inv, Covered
<1>5. applier => Behind'
  BY <1>1, <1>2
     DEF Inv, Behind, BarriersGiven, BarrierBehind, AckedMeansLanded, BarrierIs, Ahead, IsLogged
<1>. QED
  BY <1>1, <1>2, <1>3, <1>4, <1>5 DEF Inv

LEMMA StreamStep == Inv /\ [Next]_vars => Inv'
<1>. SUFFICES ASSUME Inv, [Next]_vars PROVE Inv'
  OBVIOUS
<1>1. ASSUME NEW r \in Requests, Request(r) PROVE Inv'
  BY <1>1, StreamReserve, StreamCompose, StreamQueue, StreamQueueFails DEF Request
<1>2. CASE WriteAll \/ ReadAcks
  BY <1>2, StreamWrite, StreamEnds, StreamReadAck DEF WriteAll, ReadAcks
<1>3. CASE ApplyAll \/ OtherPushes
  BY <1>3, StreamApplyLogged, StreamApplyStatus, StreamAcknowledge, StreamApplierEnds,
     StreamOtherPushes DEF ApplyAll
<1>4. CASE AskFlush \/ RunFlushes
  BY <1>4, StreamAskFlush, StreamTakeFlush, StreamLockForBarrier, StreamQueueBarrier,
     StreamQueueBarrierFails, StreamAwaitAck, StreamSayFlushed DEF RunFlushes
<1>5. CASE UNCHANGED vars
  BY <1>5, StreamStill
<1>. QED
  BY <1>1, <1>2, <1>3, <1>4, <1>5 DEF Next

(* The inductive invariant of the event stream: what was reported and not  *)
(* applied is in the pipe, in the order of its numbers, with each barrier  *)
(* behind what its flush covers, for any number of requests and flushes    *)
(* and any bounds of the queue and of the ring.                            *)
THEOREM StreamInvariance == Spec => []Inv
<1>. QED
  BY StreamStart, StreamStep, PTL DEF Spec

(* A flush answered while the channel is up means what it says             *)
(* (Emitter::flush, Supervisor::flush): every decision reported before it  *)
(* was asked for is in the ring.                                           *)
THEOREM FlushesMeanApplied == Spec => []FlushedMeansApplied
<1>1. Inv => FlushedMeansApplied
  BY DEF Inv, Behind, AckedMeansLanded, Landed, FlushedMeansApplied
<1>. QED
  BY <1>1, StreamInvariance, PTL

(* An amendment lands on the decision its request logged, and on no other, *)
(* as long as the ring holds it (Applier::apply).                          *)
THEOREM AmendmentsLandOnTheirOwn == Spec => []AmendsItsOwn
<1>1. Inv => AmendsItsOwn
  BY DEF Inv
<1>. QED
  BY <1>1, StreamInvariance, PTL

-----------------------------------------------------------------------------
(* The weight in flight, counted by its units.                             *)

LEMMA UnitsOf ==
  ASSUME NEW x, NEW w \in Nat
  PROVE  IsFiniteSet({x} \X (1 .. w)) /\ Cardinality({x} \X (1 .. w)) = w
<1>1. IsFiniteSet({x}) /\ Cardinality({x}) = 1
  BY FS_Singleton
<1>2. IsFiniteSet(1 .. w) /\ Cardinality(1 .. w) = w
  BY FS_Interval
<1>. DEFINE S == {x}  T == 1 .. w
<1>. HIDE DEF S, T
<1>3. IsFiniteSet(S \X T) /\ Cardinality(S \X T) = Cardinality(S) * Cardinality(T)
  BY <1>1, <1>2, FS_Product DEF S, T
<1>4. Cardinality(S) * Cardinality(T) = w
  BY <1>1, <1>2 DEF S, T
<1>. QED
  BY <1>3, <1>4 DEF S, T

LEMMA MoreUnits ==
  ASSUME NEW U, NEW T, IsFiniteSet(U), IsFiniteSet(T), U \cap T = {}
  PROVE  /\ IsFiniteSet(U \cup T) /\ Cardinality(U \cup T) = Cardinality(U) + Cardinality(T)
         /\ Cardinality(U) \in Nat /\ Cardinality(T) \in Nat
<1>1. /\ IsFiniteSet(U \cup T)
      /\ Cardinality(U \cup T) = Cardinality(U) + Cardinality(T) - Cardinality(U \cap T)
  BY FS_Union
<1>2. Cardinality(U \cap T) = 0
  BY FS_EmptySet
<1>3. Cardinality(U) \in Nat /\ Cardinality(T) \in Nat
  BY FS_CardinalityType
<1>. QED
  BY <1>1, <1>2, <1>3

(* A request that starts to hold, or that holds no more.                   *)
LEMMA HeldMore ==
  ASSUME NEW r \in Requests, IsFiniteSet(HeldUnits), Reserving(r)', ~Reserving(r),
         \A q \in Requests \ {r} : Reserving(q)' <=> Reserving(q)
  PROVE  /\ IsFiniteSet(HeldUnits') /\ Cardinality(HeldUnits') = Cardinality(HeldUnits) + Weight[r]
         /\ Cardinality(HeldUnits) \in Nat
<1>. DEFINE T == {r} \X (1 .. Weight[r])
<1>1. HeldUnits' = HeldUnits \cup T
  BY DEF HeldUnits
<1>2. HeldUnits \cap T = {}
  BY DEF HeldUnits
<1>3. IsFiniteSet(T) /\ Cardinality(T) = Weight[r]
  BY StreamConstants, UnitsOf
<1>. HIDE DEF T
<1>. QED
  BY <1>1, <1>2, <1>3, MoreUnits

LEMMA HeldLess ==
  ASSUME NEW r \in Requests, IsFiniteSet(HeldUnits), Reserving(r), ~Reserving(r)',
         \A q \in Requests \ {r} : Reserving(q)' <=> Reserving(q)
  PROVE  /\ IsFiniteSet(HeldUnits') /\ Cardinality(HeldUnits) = Cardinality(HeldUnits') + Weight[r]
         /\ Cardinality(HeldUnits') \in Nat
<1>. DEFINE T == {r} \X (1 .. Weight[r])
<1>1. HeldUnits = HeldUnits' \cup T
  BY DEF HeldUnits
<1>2. HeldUnits' \cap T = {}
  BY DEF HeldUnits
<1>3. IsFiniteSet(T) /\ Cardinality(T) = Weight[r]
  BY StreamConstants, UnitsOf
<1>. HIDE DEF T
<1>4. IsFiniteSet(HeldUnits')
  BY <1>1, FS_Subset
<1>. QED
  BY <1>1, <1>2, <1>3, <1>4, MoreUnits

LEMMA HeldSame ==
  ASSUME \A q \in Requests : Reserving(q)' <=> Reserving(q)
  PROVE  HeldUnits' = HeldUnits
  BY DEF HeldUnits

(* A frame queued, and the first one taken.                                *)
LEMMA QueuedMore ==
  ASSUME NEW e \in Frames, queue \in Seq(Frames), IsFiniteSet(QueuedUnits),
         queue' = Append(queue, e)
  PROVE  /\ IsFiniteSet(QueuedUnits')
         /\ Cardinality(QueuedUnits') = Cardinality(QueuedUnits) + e.weight
         /\ Cardinality(QueuedUnits) \in Nat
<1>. DEFINE n == Len(queue) + 1
<1>0. e.weight \in Nat
  BY DEF Frames
<1>1. /\ DOMAIN queue = 1 .. Len(queue) /\ Len(queue) \in Nat /\ DOMAIN queue' = 1 .. n
      /\ queue'[n] = e /\ \A i \in DOMAIN queue : queue'[i] = queue[i]
  BY AppendProperties
<1>2. DOMAIN queue' = DOMAIN queue \cup {n} /\ n \notin DOMAIN queue
  BY <1>1
<1>. HIDE DEF n
<1>. DEFINE T == {n} \X (1 .. e.weight)
<1>3. QueuedUnits' = QueuedUnits \cup T
  BY <1>1, <1>2 DEF QueuedUnits
<1>4. QueuedUnits \cap T = {}
  BY <1>2 DEF QueuedUnits
<1>5. IsFiniteSet(T) /\ Cardinality(T) = e.weight
  BY <1>0, UnitsOf
<1>. HIDE DEF T
<1>. QED
  BY <1>3, <1>4, <1>5, MoreUnits

LEMMA QueuedLess ==
  ASSUME queue \in Seq(Frames), queue # << >>, IsFiniteSet(QueuedUnits), queue' = Tail(queue)
  PROVE  /\ IsFiniteSet(QueuedUnits')
         /\ Cardinality(QueuedUnits) = Cardinality(QueuedUnits') + Head(queue).weight
         /\ Cardinality(QueuedUnits') \in Nat
<1>. DEFINE n == Len(queue)  w == Head(queue).weight
            T == {1} \X (1 .. w)
            rest == UNION {{i} \X (1 .. queue[i].weight) : i \in 2 .. n}
            back == [u \in rest |-> <<u[1] - 1, u[2]>>]
<1>0. w \in Nat /\ Head(queue) = queue[1]
  <2>1. Head(queue) \in Frames /\ Head(queue) = queue[1]
    BY HeadTailProperties
  <2>. QED
    BY <2>1 DEF Frames
<1>1. /\ n \in Nat /\ n >= 1 /\ DOMAIN queue = 1 .. n /\ DOMAIN queue' = 1 .. n - 1
      /\ \A i \in 1 .. n - 1 : queue'[i] = queue[i + 1]
  BY HeadTailProperties
<1>2. DOMAIN queue = {1} \cup (2 .. n) /\ 1 \notin 2 .. n
  BY <1>1
<1>. HIDE DEF n
<1>3. QueuedUnits = rest \cup T /\ rest \cap T = {}
  BY <1>0, <1>2 DEF QueuedUnits
<1>4. \A i, k : <<i, k>> \in QueuedUnits' <=> i \in 1 .. n - 1 /\ k \in 1 .. queue[i + 1].weight
  BY <1>1 DEF QueuedUnits
<1>5. \A i, k : <<i, k>> \in rest <=> i \in 2 .. n /\ k \in 1 .. queue[i].weight
  OBVIOUS
<1>6. \A u \in rest : u = <<u[1], u[2]>>
  OBVIOUS
<1>7. \A u \in QueuedUnits' : u = <<u[1], u[2]>>
  BY DEF QueuedUnits
<1>. HIDE DEF rest, T
<1>8. back \in Bijection(rest, QueuedUnits')
  <2>1. \A u \in rest : back[u] \in QueuedUnits'
    BY <1>1, <1>4, <1>5, <1>6
  <2>2. \A u, v \in rest : back[u] = back[v] => u = v
    BY <1>1, <1>5, <1>6
  <2>3. ASSUME NEW v \in QueuedUnits' PROVE \E u \in rest : back[u] = v
    <3>1. <<v[1] + 1, v[2]>> \in rest /\ v[1] \in Int
      BY <1>1, <1>4, <1>5, <1>7
    <3>2. back[<<v[1] + 1, v[2]>>] = <<v[1], v[2]>>
      BY <3>1
    <3>. QED
      BY <3>1, <3>2, <1>7
  <2>. HIDE DEF back
  <2>4. back \in [rest -> QueuedUnits']
    BY <2>1 DEF back
  <2>. QED
    BY <2>2, <2>3, <2>4 DEF Bijection, Injection, Surjection, IsInjective
<1>9. IsFiniteSet(rest)
  <2>1. rest \in SUBSET QueuedUnits
    BY <1>3
  <2>. QED
    BY <2>1, FS_Subset
<1>10. IsFiniteSet(QueuedUnits') /\ Cardinality(QueuedUnits') = Cardinality(rest)
  BY <1>8, <1>9, FS_Bijection DEF ExistsBijection
<1>11. IsFiniteSet(T) /\ Cardinality(T) = w
  BY <1>0, UnitsOf DEF T
<1>12. Cardinality(QueuedUnits) = Cardinality(rest) + w /\ Cardinality(rest) \in Nat
  BY <1>3, <1>9, <1>11, MoreUnits
<1>. QED
  BY <1>10, <1>12

LEMMA AccountedStart == Init => Accounted
<1>. SUFFICES ASSUME Init PROVE Accounted
  OBVIOUS
<1>1. HeldUnits = {}
  BY DEF Init, HeldUnits, Reserving
<1>2. QueuedUnits = {}
  BY DEF Init, QueuedUnits
<1>3. Bytes \in Nat
  BY BoundsAssumption
<1>. QED
  BY <1>1, <1>2, <1>3, FS_EmptySet DEF Init, Accounted, InFlightHeld

(* What the counts are, and that they are counts.                          *)
LEMMA CountsAre ==
  ASSUME Accounted
  PROVE  /\ IsFiniteSet(HeldUnits) /\ Cardinality(HeldUnits) \in Nat
         /\ IsFiniteSet(QueuedUnits) /\ Cardinality(QueuedUnits) \in Nat
         /\ inFlight \in Nat /\ inFlight >= Cardinality(HeldUnits) + Cardinality(QueuedUnits)
         /\ ~writer => closed
         /\ ~closed => /\ inFlight = Cardinality(HeldUnits) + Cardinality(QueuedUnits)
                       /\ (inFlight <= Bytes \/ \E r \in Requests : inFlight <= Weight[r])
  BY FS_CardinalityType DEF Accounted, InFlightHeld

LEMMA AccountedReserve ==
  ASSUME NEW r \in Requests, Kinds, Accounted, Reserve(r)
  PROVE  Accounted'
<1>. USE CountsAre, StreamConstants
<1>1. /\ pc \in [Requests -> 1 .. 7] /\ pc[r] \in {1, 4} /\ pc' = [pc EXCEPT ![r] = pc[r] + 1]
      /\ inFlight' = inFlight + Weight[r] /\ Weight[r] \in Nat
      /\ queue' = queue /\ closed' = closed /\ writer' = writer
  BY PcIs DEF Reserve, Step, Kinds, EmitKinds, wireVars
<1>2. Reserving(r)' /\ ~Reserving(r) /\ \A q \in Requests \ {r} : Reserving(q)' <=> Reserving(q)
  BY <1>1 DEF Reserving
<1>3. /\ IsFiniteSet(HeldUnits')
      /\ Cardinality(HeldUnits') = Cardinality(HeldUnits) + Weight[r]
  BY <1>2, HeldMore
<1>4. QueuedUnits' = QueuedUnits
  BY <1>1 DEF QueuedUnits
<1>5. closed \/ inFlight = 0 \/ inFlight + Weight[r] <= Bytes
  BY DEF Reserve, MayReserve
<1>6. ~closed => (inFlight' <= Bytes \/ inFlight' <= Weight[r])
  BY <1>1, <1>5
<1>. QED
  BY <1>1, <1>3, <1>4, <1>6 DEF Accounted, InFlightHeld

LEMMA AccountedQueue ==
  ASSUME NEW r \in Requests, Kinds, Accounted, Queue(r)
  PROVE  Accounted'
<1>. USE CountsAre, StreamConstants
<1>1. /\ pc \in [Requests -> 1 .. 7] /\ pc[r] \in {3, 6} /\ pc' = [pc EXCEPT ![r] = pc[r] + 1]
      /\ queue \in Seq(Frames) /\ queue' = Append(queue, Event(r)) /\ Weight[r] \in Nat
      /\ inFlight' = inFlight /\ closed' = closed /\ writer' = writer
  BY PcIs DEF Queue, Step, Kinds, EmitKinds, wireVars, boundVars
<1>2. Reserving(r) /\ ~Reserving(r)' /\ \A q \in Requests \ {r} : Reserving(q)' <=> Reserving(q)
  BY <1>1 DEF Reserving
<1>3. /\ IsFiniteSet(HeldUnits') /\ Cardinality(HeldUnits') \in Nat
      /\ Cardinality(HeldUnits) = Cardinality(HeldUnits') + Weight[r]
  BY <1>2, HeldLess
<1>4. Event(r) \in Frames /\ Event(r).weight = Weight[r]
  BY <1>1 DEF Event, Frames, Kinds, EmitKinds
<1>5. /\ IsFiniteSet(QueuedUnits')
      /\ Cardinality(QueuedUnits') = Cardinality(QueuedUnits) + Weight[r]
  BY <1>1, <1>4, QueuedMore
<1>6. Cardinality(HeldUnits') + Cardinality(QueuedUnits')
        = Cardinality(HeldUnits) + Cardinality(QueuedUnits)
  BY <1>1, <1>3, <1>5
<1>. QED
  BY <1>1, <1>3, <1>5, <1>6 DEF Accounted, InFlightHeld

LEMMA AccountedQueueFails ==
  ASSUME NEW r \in Requests, Kinds, Accounted, QueueFails(r)
  PROVE  Accounted'
<1>. USE CountsAre, StreamConstants
<1>1. /\ pc \in [Requests -> 1 .. 7] /\ pc[r] \in {3, 6} /\ pc' = [pc EXCEPT ![r] = pc[r] + 1]
      /\ inFlight' = inFlight - Weight[r] /\ Weight[r] \in Nat
      /\ queue' = queue /\ closed' = closed /\ writer' = writer /\ ~writer
  BY PcIs DEF QueueFails, UnqueuedWeight, Step, Kinds, EmitKinds, wireVars
<1>2. Reserving(r) /\ ~Reserving(r)' /\ \A q \in Requests \ {r} : Reserving(q)' <=> Reserving(q)
  BY <1>1 DEF Reserving
<1>3. /\ IsFiniteSet(HeldUnits') /\ Cardinality(HeldUnits') \in Nat
      /\ Cardinality(HeldUnits) = Cardinality(HeldUnits') + Weight[r]
  BY <1>2, HeldLess
<1>4. QueuedUnits' = QueuedUnits
  BY <1>1 DEF QueuedUnits
<1>5. closed'
  BY <1>1
<1>6. inFlight' \in Nat /\ inFlight' >= Cardinality(HeldUnits') + Cardinality(QueuedUnits')
  BY <1>1, <1>3, <1>4
<1>. QED
  BY <1>1, <1>3, <1>4, <1>5, <1>6 DEF Accounted, InFlightHeld

(* What the writer takes off the queue is in flight no more.               *)
LEMMA AccountedWrite ==
  ASSUME Kinds, Accounted, Write
  PROVE  Accounted'
<1>. USE CountsAre, StreamConstants
<1>1. /\ queue \in Seq(Frames) /\ queue # << >> /\ queue' = Tail(queue)
      /\ inFlight' = inFlight - Head(queue).weight
      /\ pc' = pc /\ closed' = closed /\ writer' = writer
  BY DEF Write, Kinds, EmitKinds
<1>2. HeldUnits' = HeldUnits
  BY <1>1, HeldSame DEF Reserving
<1>3. /\ IsFiniteSet(QueuedUnits') /\ Cardinality(QueuedUnits') \in Nat
      /\ Cardinality(QueuedUnits) = Cardinality(QueuedUnits') + Head(queue).weight
  BY <1>1, QueuedLess
<1>4. Head(queue).weight \in Nat
  <2>1. Head(queue) \in Frames
    BY <1>1, HeadTailProperties
  <2>. QED
    BY <2>1 DEF Frames
<1>5. inFlight' \in Nat /\ inFlight' >= Cardinality(HeldUnits') + Cardinality(QueuedUnits')
  <2>. DEFINE h == Cardinality(HeldUnits)  q == Cardinality(QueuedUnits')  w == Head(queue).weight
  <2>1. /\ h \in Nat /\ q \in Nat /\ w \in Nat /\ inFlight \in Nat
        /\ inFlight >= h + (q + w) /\ inFlight' = inFlight - w
    BY <1>1, <1>3, <1>4
  <2>. HIDE DEF h, q, w
  <2>2. inFlight' \in Nat /\ inFlight' >= h + q
    BY <2>1
  <2>. QED
    BY <1>2, <2>2 DEF h, q
<1>6. ~closed =>
        /\ inFlight' = Cardinality(HeldUnits') + Cardinality(QueuedUnits')
        /\ (inFlight' <= Bytes \/ \E r \in Requests : inFlight' <= Weight[r])
  <2>. SUFFICES ASSUME ~closed
                PROVE  /\ inFlight' = Cardinality(HeldUnits') + Cardinality(QueuedUnits')
                       /\ (inFlight' <= Bytes \/ \E r \in Requests : inFlight' <= Weight[r])
    OBVIOUS
  <2>1. inFlight' = Cardinality(HeldUnits') + Cardinality(QueuedUnits')
    <3>. DEFINE h == Cardinality(HeldUnits)  q == Cardinality(QueuedUnits')  w == Head(queue).weight
    <3>1. /\ h \in Nat /\ q \in Nat /\ w \in Nat /\ inFlight' = inFlight - w
          /\ inFlight = h + (q + w)
      BY <1>1, <1>3, <1>4
    <3>. HIDE DEF h, q, w
    <3>2. inFlight' = h + q
      BY ONLY <3>1
    <3>. QED
      BY <1>2, <3>2 DEF h, q
  <2>2. inFlight' <= inFlight
    BY <1>1, <1>4, <1>5
  <2>3. Bytes \in Nat /\ inFlight' \in Nat /\ inFlight \in Nat
    BY <1>5, BoundsAssumption
  <2>4. CASE inFlight <= Bytes
    BY <2>1, <2>2, <2>3, <2>4
  <2>5. CASE \E r \in Requests : inFlight <= Weight[r]
    <3>1. PICK r \in Requests : inFlight <= Weight[r]
      BY <2>5
    <3>2. inFlight' <= Weight[r]
      BY <2>2, <2>3, <3>1
    <3>. QED
      BY <2>1, <3>2
  <2>. QED
    BY <2>4, <2>5
<1>. QED
  BY <1>1, <1>2, <1>3, <1>5, <1>6 DEF Accounted, InFlightHeld

LEMMA AccountedWriteFails ==
  ASSUME Kinds, Accounted, WriteFails
  PROVE  Accounted'
<1>. USE CountsAre, StreamConstants
<1>1. /\ queue \in Seq(Frames) /\ queue # << >> /\ queue' = << >>
      /\ inFlight' = inFlight - Head(queue).weight /\ pc' = pc /\ closed'
  BY DEF WriteFails, Closes, Kinds, EmitKinds
<1>2. HeldUnits' = HeldUnits
  BY <1>1, HeldSame DEF Reserving
<1>3. QueuedUnits' = {}
  BY <1>1 DEF QueuedUnits
<1>4. Head(queue).weight \in Nat /\ Head(queue).weight <= Cardinality(QueuedUnits)
  <2>1. Head(queue) \in Frames /\ Head(queue) = queue[1] /\ 1 \in DOMAIN queue
    BY <1>1, HeadTailProperties
  <2>. DEFINE w == queue[1].weight  T == {1} \X (1 .. w)
  <2>2. w \in Nat
    BY <2>1 DEF Frames
  <2>3. T \in SUBSET QueuedUnits
    BY <2>1 DEF QueuedUnits
  <2>4. Cardinality(T) = w
    BY <2>2, UnitsOf
  <2>. HIDE DEF T
  <2>5. Cardinality(T) <= Cardinality(QueuedUnits)
    BY <2>3, FS_Subset
  <2>. QED
    BY <2>1, <2>2, <2>4, <2>5
<1>5. inFlight' \in Nat /\ inFlight' >= Cardinality(HeldUnits') + 0
  BY <1>1, <1>2, <1>4
<1>. QED
  BY <1>1, <1>2, <1>3, <1>5, FS_EmptySet DEF Accounted, InFlightHeld

(* Every other step leaves the weight where it is, though the channel may  *)
(* close.                                                                  *)
LEMMA AccountedElse ==
  ASSUME Accounted, closed \in BOOLEAN, closed => closed',
         UNCHANGED <<inFlight, writer>>, HeldUnits' = HeldUnits, QueuedUnits' = QueuedUnits
  PROVE  Accounted'
  BY DEF Accounted, InFlightHeld

LEMMA AccountedCompose ==
  ASSUME NEW r \in Requests, Kinds, Accounted, Compose(r)
  PROVE  Accounted'
<1>1. /\ pc \in [Requests -> 1 .. 7] /\ pc[r] \in {2, 5} /\ pc' = [pc EXCEPT ![r] = pc[r] + 1]
      /\ queue' = queue /\ inFlight' = inFlight /\ closed' = closed /\ writer' = writer
  BY PcIs DEF Compose, Step, Kinds, EmitKinds, boundVars, wireVars
<1>2. \A q \in Requests : Reserving(q)' <=> Reserving(q)
  BY <1>1 DEF Reserving
<1>3. HeldUnits' = HeldUnits /\ QueuedUnits' = QueuedUnits
  BY <1>1, <1>2, HeldSame DEF QueuedUnits
<1>4. closed \in BOOLEAN
  BY DEF Kinds, WireKinds
<1>. QED
  BY <1>1, <1>3, <1>4, AccountedElse

(* A barrier weighs nothing.                                               *)
LEMMA AccountedQueueBarrier ==
  ASSUME Kinds, Accounted, QueueBarrier
  PROVE  Accounted'
<1>. DEFINE e == [kind |-> "barrier", by |-> Flusher, id |-> flushing.barrier, weight |-> 0]
<1>1. /\ queue \in Seq(Frames) /\ queue' = Append(queue, e) /\ e \in Frames /\ e.weight = 0
      /\ pc' = pc /\ inFlight' = inFlight /\ closed' = closed /\ writer' = writer
  BY DEF QueueBarrier, Kinds, EmitKinds, FlushKinds, Frames, boundVars, wireVars
<1>. HIDE DEF e
<1>2. HeldUnits' = HeldUnits
  BY <1>1, HeldSame DEF Reserving
<1>3. IsFiniteSet(QueuedUnits') /\ Cardinality(QueuedUnits') = Cardinality(QueuedUnits)
  BY <1>1, CountsAre, QueuedMore
<1>. QED
  BY <1>1, <1>2, <1>3 DEF Accounted, InFlightHeld

LEMMA AccountedStep ==
  ASSUME Kinds, Accounted, [Next]_vars
  PROVE  Accounted'
<1>. USE DEF Reserving
<1>0. closed \in BOOLEAN
  BY DEF Kinds, WireKinds
<1>1. ASSUME NEW r \in Requests, Request(r) PROVE Accounted'
  BY <1>1, AccountedReserve, AccountedCompose, AccountedQueue, AccountedQueueFails DEF Request
<1>2. CASE WriteAll
  BY <1>2, AccountedWrite, AccountedWriteFails DEF WriteAll
<1>3. CASE QueueBarrier
  BY <1>3, AccountedQueueBarrier
<1>4. CASE \/ ReadAcks \/ ApplyAll \/ OtherPushes \/ AskFlush \/ UNCHANGED vars
           \/ TakeFlush \/ LockForBarrier \/ QueueBarrierFails \/ AwaitAck \/ SayFlushed
  <2>1. /\ UNCHANGED <<pc, queue, inFlight, writer>>
        /\ closed' \in {closed, TRUE}
    BY <1>4 DEF ReadAcks, ReadAck, AcksEnd, Closes, ApplyAll, ApplyLogged, ApplyStatus, Acknowledge,
                ApplierEnds, OtherPushes, AskFlush, TakeFlush, LockForBarrier, QueueBarrierFails,
                AwaitAck, SayFlushed, vars, emitVars, boundVars, wireVars
  <2>2. HeldUnits' = HeldUnits /\ QueuedUnits' = QueuedUnits
    BY <2>1, HeldSame DEF QueuedUnits
  <2>. QED
    BY <1>0, <2>1, <2>2, AccountedElse
<1>. QED
  BY <1>1, <1>2, <1>3, <1>4 DEF Next, RunFlushes

(* The weight in flight is accounted for (events.rs, reserve and release): *)
(* it never falls below what requests and the queue hold, so releasing it  *)
(* never underflows, closed or not; and while the channel is up it is just *)
(* that, within the bound but for one event that is heavier.               *)
THEOREM WeightAccounted == Spec => [](TypeOK /\ Accounted)
<1>1. Inv => Kinds
  BY DEF Inv
<1>2. Kinds /\ Accounted => TypeOK
  BY DEF TypeOK, Accounted
<1>. QED
  BY <1>1, <1>2, AccountedStart, AccountedStep, StreamInvariance, PTL DEF Spec

(* Both halves of the proxy keep their bounds: the events of the stream    *)
(* (events.rs, reserve), the table of lookups and the cache of the         *)
(* resolver (dns.rs).                                                      *)
THEOREM BoundsAreKept == Spec /\ Lookup!Spec => []WithinBounds
<1>1. TypeOK /\ Accounted /\ Lookup!TypeOK => WithinBounds
  BY DEF WithinBounds, Accounted
<1>. QED
  BY <1>1, WeightAccounted, LookupsWithinCaps, PTL

-----------------------------------------------------------------------------
(* Nobody waits for somebody who waits.                                    *)

LEMMA MovingStart == Init => Moving
  BY StreamConstants DEF Init, Moving, HolderQueues, AckIsComing, IdleFlush

(* A request's step takes the mutex on the way to the queue, and gives it  *)
(* up there.                                                               *)
LEMMA HolderQueuesStep ==
  ASSUME Inv, HolderQueues, [Next]_vars
  PROVE  HolderQueues'
<1>. USE StreamConstants
<1>0. /\ pc \in [Requests -> 1 .. 7]
      /\ \A q \in Requests : pc[q] \in {3, 6} => lock = q
      /\ flushing.at = "send" => lock = Flusher
      /\ flushing \in [at : {"idle", "lock", "send", "wait", "say"}, for : Nat, barrier : Nat]
  BY DEF Inv, Kinds, EmitKinds, FlushKinds, HeldToQueue
<1>1. ASSUME NEW r \in Requests, Reserve(r) PROVE HolderQueues'
  <2>1. /\ pc[r] \in {1, 4} /\ pc' = [pc EXCEPT ![r] = pc[r] + 1] /\ lock' = lock
        /\ flushing' = flushing
    BY <1>0, <1>1, PcIs DEF Reserve, Step, flushVars
  <2>2. lock # r
    BY <2>1 DEF HolderQueues
  <2>. QED
    BY <1>0, <2>1, <2>2 DEF HolderQueues
<1>2. ASSUME NEW r \in Requests, Compose(r) PROVE HolderQueues'
  <2>1. pc[r] \in {2, 5} /\ pc' = [pc EXCEPT ![r] = pc[r] + 1] /\ lock' = r
    BY <1>0, <1>2, PcIs DEF Compose, Step
  <2>. QED
    BY <1>0, <2>1 DEF HolderQueues
<1>3. ASSUME NEW r \in Requests, Queue(r) \/ QueueFails(r) PROVE HolderQueues'
  <2>1. lock' = Nobody
    BY <1>3 DEF Queue, QueueFails
  <2>. QED
    BY <2>1 DEF HolderQueues
<1>4. CASE TakeFlush \/ AwaitAck \/ SayFlushed
  <2>1. UNCHANGED <<pc, lock>> /\ flushing.at # "send"
    BY <1>4 DEF TakeFlush, AwaitAck, SayFlushed, emitVars
  <2>2. lock # Flusher
    BY <2>1 DEF HolderQueues
  <2>. QED
    BY <2>1, <2>2 DEF HolderQueues
<1>5. CASE LockForBarrier
  <2>1. lock' = Flusher /\ flushing'.at = "send"
    BY <1>0, <1>5 DEF LockForBarrier
  <2>. QED
    BY <2>1 DEF HolderQueues
<1>6. CASE QueueBarrier \/ QueueBarrierFails
  <2>1. lock' = Nobody
    BY <1>6 DEF QueueBarrier, QueueBarrierFails
  <2>. QED
    BY <2>1 DEF HolderQueues
<1>7. CASE WriteAll \/ ReadAcks \/ ApplyAll \/ OtherPushes \/ AskFlush \/ UNCHANGED vars
  <2>1. UNCHANGED <<pc, lock, flushing>>
    BY <1>7 DEF WriteAll, Write, WriteFails, ReadAcks, ReadAck, AcksEnd, ApplyAll, ApplyLogged,
                ApplyStatus, Acknowledge, ApplierEnds, OtherPushes, AskFlush, vars, emitVars,
                flushVars
  <2>. QED
    BY <2>1 DEF HolderQueues
<1>. QED
  BY <1>1, <1>2, <1>3, <1>4, <1>5, <1>6, <1>7 DEF Next, Request, RunFlushes

(* An awaited barrier stays on its way while nothing takes it out.         *)
LEMMA ComingStill ==
  ASSUME AckIsComing, applier' => applier, flushing' = flushing, acked' = acked,
         \A i \in DOMAIN acks : \E j \in DOMAIN acks' : acks'[j] = acks[i],
         \A i \in DOMAIN Pipe : \/ \E j \in DOMAIN Pipe' : Pipe'[j] = Pipe[i]
                                \/ Pipe[i].kind # "barrier"
                                \/ \E j \in DOMAIN acks' : acks'[j] = Pipe[i].id
  PROVE  AckIsComing'
BY DEF AckIsComing, Acked, BarrierIs

LEMMA ComingReadAck ==
  ASSUME Inv, AckIsComing, ReadAck
  PROVE  AckIsComing'
<1>0. acks \in Seq(Nat) /\ acked \in Nat /\ flushing.barrier \in Nat
  BY DEF Inv, Kinds, WireKinds, FlushKinds
<1>1. /\ acks # << >> /\ acked' = Max({acked, Head(acks)}) /\ acks' = Tail(acks)
      /\ UNCHANGED <<queue, channel, applier, flushing>>
  BY DEF ReadAck, emitVars, applyVars, flushVars
<1>2. /\ Head(acks) = acks[1] /\ acks[1] \in Nat /\ Len(acks) \in Nat /\ DOMAIN acks = 1 .. Len(acks)
      /\ Len(Tail(acks)) = Len(acks) - 1 /\ DOMAIN Tail(acks) = 1 .. Len(acks) - 1
      /\ \A i \in 1 .. Len(acks) - 1 : Tail(acks)[i] = acks[i + 1]
  <2>1. Head(acks) = acks[1] /\ acks[1] \in Nat /\ Len(acks) \in Nat /\ DOMAIN acks = 1 .. Len(acks)
    BY <1>0, <1>1
  <2>2. /\ Tail(acks) \in Seq(Nat) /\ Len(Tail(acks)) = Len(acks) - 1
        /\ \A i \in 1 .. Len(Tail(acks)) : Tail(acks)[i] = acks[i + 1]
    BY <1>0, <1>1, HeadTailProperties
  <2>3. DOMAIN Tail(acks) = 1 .. Len(Tail(acks))
    BY <2>2
  <2>. QED
    BY <2>1, <2>2, <2>3
<1>3. acked' \in Nat /\ acked' >= acked /\ acked' >= acks[1]
  <2>1. acked \in Int /\ acks[1] \in Int
    BY <1>0, <1>2
  <2>2. /\ Max({acked, acks[1]}) \in {acked, acks[1]}
        /\ Max({acked, acks[1]}) = IF acked >= acks[1] THEN acked ELSE acks[1]
    BY ONLY <2>1, MaxOfTwo
  <2>. QED
    BY <1>0, <1>1, <1>2, <2>2
<1>4. Pipe' = Pipe
  BY <1>1 DEF Pipe
<1>5. ASSUME NEW i \in DOMAIN acks
      PROVE  acks[i] <= acked' \/ \E j \in DOMAIN acks' : acks'[j] = acks[i]
  <2>1. CASE i = 1
    BY <1>0, <1>3, <2>1
  <2>2. CASE i # 1
    <3>1. i - 1 \in 1 .. Len(acks) - 1 /\ i = (i - 1) + 1
      BY <1>2, <2>2
    <3>. QED
      BY <1>1, <1>2, <3>1
  <2>. QED
    BY <2>1, <2>2
<1>6. Acked(flushing.barrier) => Acked(flushing.barrier)'
  BY <1>0, <1>1, <1>3 DEF Acked
<1>. QED
  BY <1>1, <1>4, <1>5, <1>6 DEF AckIsComing, Acked

LEMMA ComingStep ==
  ASSUME Inv, AckIsComing, [Next]_vars
  PROVE  AckIsComing'
<1>0. /\ Kinds /\ channel \in Seq(Frames) /\ queue \in Seq(Frames) /\ acks \in Seq(Nat)
      /\ DOMAIN Pipe = 1 .. Len(Pipe) /\ Len(Pipe) \in Nat
      /\ flushing \in [at : {"idle", "lock", "send", "wait", "say"}, for : Nat, barrier : Nat]
  BY PipeIs DEF Inv, Kinds, EmitKinds, WireKinds, FlushKinds
<1>1. ASSUME NEW e \in Frames, queue' = Append(queue, e), UNCHANGED <<channel, acks, acked>>,
             applier' = applier, flushing' = flushing
      PROVE  AckIsComing'
  <2>1. \A i \in DOMAIN Pipe : i \in DOMAIN Pipe' /\ Pipe'[i] = Pipe[i]
    BY <1>0, <1>1, Queued
  <2>2. \A i \in DOMAIN acks : i \in DOMAIN acks' /\ acks'[i] = acks[i]
    BY <1>1
  <2>. QED
    BY <1>1, <2>1, <2>2, ComingStill
<1>2. ASSUME NEW r \in Requests, Queue(r) PROVE AckIsComing'
  <2>1. Event(r) \in Frames
    BY <1>0, StreamConstants DEF Event, Frames, Kinds, EmitKinds
  <2>. QED
    BY <1>1, <1>2, <2>1 DEF Queue, boundVars, wireVars, applyVars, flushVars
<1>3. CASE Write
  <2>1. /\ queue # << >> /\ channel' = Append(channel, Head(queue)) /\ queue' = Tail(queue)
        /\ UNCHANGED <<acks, acked, applier, flushing>>
    BY <1>3 DEF Write, applyVars, flushVars
  <2>2. Pipe' = Pipe
    BY <1>0, <2>1, PipeMove DEF Pipe
  <2>. QED
    BY <2>1, <2>2, ComingStill
<1>4. CASE ~applier'
  BY <1>4 DEF AckIsComing
<1>5. CASE WriteFails \/ AcksEnd \/ ApplierEnds
  BY <1>4, <1>5 DEF WriteFails, AcksEnd, ApplierEnds, applyVars
<1>6. CASE ApplyLogged \/ ApplyStatus \/ Acknowledge
  <2>1. /\ channel # << >> /\ channel' = Tail(channel) /\ queue' = queue
        /\ UNCHANGED <<acked, applier, flushing>>
        /\ \/ Head(channel).kind # "barrier" /\ acks' = acks
           \/ acks' = Append(acks, Head(channel).id)
    BY <1>6 DEF ApplyLogged, ApplyStatus, Acknowledge, Took, emitVars, boundVars, wireVars,
                applyVars, flushVars
  <2>2. LET n == Len(Pipe) IN
        /\ n \in Nat /\ n >= 1 /\ DOMAIN Pipe = 1 .. n /\ DOMAIN Pipe' = 1 .. n - 1
        /\ Head(channel) = Pipe[1] /\ \A i \in 1 .. n - 1 : Pipe'[i] = Pipe[i + 1]
        /\ Pipe[1] \in Frames
    BY <1>0, <2>1, Taken
  <2>3. \A i \in DOMAIN acks : \E j \in DOMAIN acks' : acks'[j] = acks[i]
    <3>1. CASE acks' = acks
      BY <3>1
    <3>2. CASE acks' = Append(acks, Pipe[1].id)
      <4>1. Pipe[1].id \in Nat
        BY <2>2 DEF Frames
      <4>2. /\ acks' \in Seq(Nat) /\ Len(acks') = Len(acks) + 1 /\ Len(acks) \in Nat
            /\ \A i \in 1 .. Len(acks) : acks'[i] = acks[i]
        BY <1>0, <3>2, <4>1, AppendProperties
      <4>3. DOMAIN acks = 1 .. Len(acks) /\ DOMAIN acks' = 1 .. Len(acks) + 1
        BY <1>0, <4>2
      <4>4. \A i \in 1 .. Len(acks) : i \in 1 .. Len(acks) + 1
        BY <4>2
      <4>. QED
        BY <4>2, <4>3, <4>4
    <3>. QED
      BY <2>1, <2>2, <3>1, <3>2
  <2>4. Pipe[1].kind # "barrier" \/ \E j \in DOMAIN acks' : acks'[j] = Pipe[1].id
    <3>1. CASE acks' = Append(acks, Pipe[1].id)
      <4>1. Pipe[1].id \in Nat
        BY <2>2 DEF Frames
      <4>2. Len(acks) + 1 \in DOMAIN acks' /\ acks'[Len(acks) + 1] = Pipe[1].id
        BY <1>0, <3>1, <4>1, AppendProperties
      <4>. QED
        BY <4>2
    <3>. QED
      BY <2>1, <2>2, <3>1
  <2>5. ASSUME NEW i \in DOMAIN Pipe, i # 1 PROVE \E j \in DOMAIN Pipe' : Pipe'[j] = Pipe[i]
    <3>1. i - 1 \in 1 .. Len(Pipe) - 1 /\ i = (i - 1) + 1
      BY <2>2, <2>5
    <3>. QED
      BY <2>2, <3>1
  <2>6. \A i \in DOMAIN Pipe : \/ \E j \in DOMAIN Pipe' : Pipe'[j] = Pipe[i]
                               \/ Pipe[i].kind # "barrier"
                               \/ \E j \in DOMAIN acks' : acks'[j] = Pipe[i].id
    BY <2>4, <2>5
  <2>. QED
    BY <2>1, <2>3, <2>6, ComingStill
<1>7. CASE QueueBarrier
  <2>. DEFINE e == [kind |-> "barrier", by |-> Flusher, id |-> flushing.barrier, weight |-> 0]
  <2>1. e \in Frames /\ queue' = Append(queue, e) /\ channel' = channel
    BY <1>0, <1>7 DEF QueueBarrier, Frames, wireVars
  <2>2. Len(Pipe) + 1 \in DOMAIN Pipe' /\ Pipe'[Len(Pipe) + 1] = e
    BY <1>0, <2>1, Queued
  <2>3. flushing'.barrier = flushing.barrier
    BY <1>0, <1>7 DEF QueueBarrier
  <2>. QED
    BY <2>2, <2>3 DEF AckIsComing, BarrierIs
<1>8. CASE flushing'.at # "wait"
  BY <1>8 DEF AckIsComing
<1>9. CASE TakeFlush \/ LockForBarrier \/ QueueBarrierFails \/ AwaitAck \/ SayFlushed
  <2>1. CASE TakeFlush
    <3>1. flushing' = [IdleFlush EXCEPT !.at = "lock", !.for = Head(toFlush)]
      BY <2>1 DEF TakeFlush
    <3>2. flushing'.at = "lock"
      BY <3>1 DEF IdleFlush
    <3>. QED
      BY <1>8, <3>2
  <2>2. CASE LockForBarrier \/ QueueBarrierFails \/ AwaitAck
    <3>1. flushing'.at \in {"send", "say"}
      BY <1>0, <2>2 DEF LockForBarrier, QueueBarrierFails, AwaitAck
    <3>. QED
      BY <1>8, <3>1
  <2>3. CASE SayFlushed
    BY <1>8, <2>3 DEF SayFlushed, IdleFlush
  <2>. QED
    BY <1>9, <2>1, <2>2, <2>3
<1>10. CASE UNCHANGED <<queue, channel, acks, acked, applier, flushing>>
  <2>1. Pipe' = Pipe
    BY <1>10 DEF Pipe
  <2>. QED
    BY <1>10, <2>1, ComingStill
<1>11. ASSUME NEW r \in Requests, Reserve(r) \/ Compose(r) \/ QueueFails(r) PROVE AckIsComing'
  BY <1>10, <1>11 DEF Reserve, Compose, QueueFails, boundVars, wireVars, applyVars, flushVars
<1>12. CASE OtherPushes \/ AskFlush \/ UNCHANGED vars
  BY <1>10, <1>12 DEF OtherPushes, AskFlush, vars, emitVars, boundVars, wireVars, applyVars,
                      flushVars
<1>. QED
  BY <1>2, <1>3, <1>5, <1>6, <1>7, <1>9, <1>11, <1>12, ComingReadAck
     DEF Next, Request, WriteAll, ReadAcks, ApplyAll, RunFlushes

(* Who holds the mutex goes on, or waits for the writer, who does.         *)
LEMMA HolderGoes ==
  ASSUME Kinds, Accounted, Moving, lock # Nobody
  PROVE  (\E r \in Requests : RequestGoes(r)) \/ FlusherGoes \/ WriterGoes
<1>1. CASE writer /\ ~(Len(queue) < QueueCap)
  <2>1. queue \in Seq(Frames) /\ QueueCap \in Nat \ {0}
    BY BoundsAssumption DEF Kinds, EmitKinds
  <2>2. queue # << >>
    BY <1>1, <2>1
  <2>. QED
    BY <1>1, <2>2 DEF WriterGoes
<1>2. CASE writer => Len(queue) < QueueCap
  <2>1. CASE lock \in Requests
    <3>1. pc[lock] \in {3, 6} /\ pc[lock] \in 1 .. 7
      BY <2>1 DEF Moving, HolderQueues
    <3>2. At(lock, "send")
      BY <2>1, <3>1, PcIs
    <3>. QED
      BY <1>2, <2>1, <3>2 DEF RequestGoes
  <2>2. CASE lock = Flusher
    BY <1>2, <2>2 DEF Moving, HolderQueues, FlusherGoes
  <2>. QED
    BY <2>1, <2>2 DEF Kinds, EmitKinds
<1>. QED
  BY <1>1, <1>2

(* Who composes or queues next waits for the mutex only.                   *)
LEMMA MutexGoes ==
  ASSUME Kinds, Accounted, Moving, Inv, NEW r \in Requests, pc[r] \in {2, 3, 5, 6}
  PROVE  (\E q \in Requests : RequestGoes(q)) \/ FlusherGoes \/ WriterGoes
<1>1. CASE lock # Nobody
  BY <1>1, HolderGoes
<1>2. CASE lock = Nobody
  <2>1. pc[r] \in {2, 5} /\ pc[r] \in 1 .. 7
    BY <1>2, StreamConstants DEF Inv, HeldToQueue
  <2>2. At(r, "compose")
    BY <2>1, PcIs
  <2>. QED
    BY <1>2, <2>2 DEF RequestGoes, MayCompose
<1>. QED
  BY <1>1, <1>2

(* A request without room waits for whoever holds some of the weight.      *)
LEMMA ReserverGoes ==
  ASSUME Inv, Accounted, Moving, NEW r \in Requests, pc[r] \in {1, 4}
  PROVE  (\E q \in Requests : RequestGoes(q)) \/ FlusherGoes \/ WriterGoes
<1>0. Kinds
  BY DEF Inv
<1>1. At(r, "reserve")
  <2>1. pc[r] \in 1 .. 7
    OBVIOUS
  <2>. QED
    BY <2>1, PcIs
<1>2. CASE closed \/ inFlight = 0
  BY <1>1, <1>2 DEF RequestGoes, MayReserve
<1>3. CASE ~closed /\ inFlight # 0
  <2>1. writer /\ inFlight = Cardinality(HeldUnits) + Cardinality(QueuedUnits)
    BY <1>3, CountsAre
  <2>2. HeldUnits # {} \/ QueuedUnits # {}
    BY <1>3, <2>1, FS_EmptySet
  <2>3. CASE HeldUnits # {}
    <3>1. PICK q \in Requests : Reserving(q)
      BY <2>3 DEF HeldUnits
    <3>. QED
      BY <1>0, <3>1, MutexGoes DEF Reserving
  <2>4. CASE QueuedUnits # {}
    <3>1. DOMAIN queue # {}
      BY <2>4 DEF QueuedUnits
    <3>2. queue # << >>
      BY <3>1
    <3>. QED
      BY <2>1, <3>2 DEF WriterGoes
  <2>. QED
    BY <2>2, <2>3, <2>4
<1>. QED
  BY <1>2, <1>3

(* The flush thread waits for the mutex, or for the end of what it wrote.  *)
LEMMA FlushGoes ==
  ASSUME Inv, Accounted, Moving, toFlush # << >> \/ flushing.at # "idle"
  PROVE  \/ \E q \in Requests : RequestGoes(q)
         \/ WriterGoes \/ ApplierGoes \/ ReaderGoes \/ FlusherGoes
<1>0. /\ Kinds /\ flushing.at \in {"idle", "lock", "send", "wait", "say"}
      /\ closed \in BOOLEAN /\ channel \in Seq(Frames) /\ queue \in Seq(Frames)
  BY DEF Inv, Kinds, EmitKinds, WireKinds, FlushKinds
<1>1. CASE flushing.at \in {"idle", "say"}
  BY <1>1 DEF FlusherGoes
<1>2. CASE flushing.at \in {"lock", "send"}
  <2>1. CASE lock = Nobody
    BY <1>2, <2>1, StreamConstants DEF FlusherGoes, Inv, HeldToQueue
  <2>2. CASE lock # Nobody
    BY <1>0, <2>2, HolderGoes
  <2>. QED
    BY <2>1, <2>2
<1>3. CASE flushing.at = "wait"
  <2>1. CASE closed \/ Acked(flushing.barrier)
    BY <1>3, <2>1 DEF FlusherGoes
  <2>2. CASE ~closed /\ ~applier
    BY <2>2 DEF ReaderGoes
  <2>3. CASE ~closed /\ applier /\ ~Acked(flushing.barrier)
    <3>1. acks # << >> \/ DOMAIN Pipe # {}
      BY <1>3, <2>3 DEF Moving, AckIsComing
    <3>2. channel # << >> \/ queue # << >> \/ DOMAIN Pipe = {}
      BY <1>0 DEF Pipe
    <3>3. writer
      BY <2>3 DEF Accounted
    <3>. QED
      BY <2>3, <3>1, <3>2, <3>3 DEF ReaderGoes, ApplierGoes, WriterGoes
  <2>. QED
    BY <1>0, <2>1, <2>2, <2>3
<1>. QED
  BY <1>0, <1>1, <1>2, <1>3

(* The threads of the report channel never wait for one another in a       *)
(* circle, nor for somebody who ended (Emitter::send, write_all, reserve   *)
(* and flush): while a request has something left to report, or a flush is *)
(* not answered, one of them goes on.                                      *)
THEOREM StreamNeverStuck == Spec => []NeverStuck
<1>1. Inv /\ Accounted /\ Moving => NeverStuck
  <2>. SUFFICES ASSUME Inv, Accounted, Moving,
                       (\E r \in Requests : pc[r] # 7) \/ toFlush # << >> \/ flushing.at # "idle"
                PROVE  \/ \E q \in Requests : RequestGoes(q)
                       \/ WriterGoes \/ ApplierGoes \/ ReaderGoes \/ FlusherGoes
    BY DEF NeverStuck
  <2>1. ASSUME NEW r \in Requests, pc[r] # 7
        PROVE  (\E q \in Requests : RequestGoes(q)) \/ FlusherGoes \/ WriterGoes
    <3>1. Kinds /\ pc[r] \in 1 .. 7
      BY DEF Inv, Kinds, EmitKinds
    <3>2. pc[r] \in {1, 4} \/ pc[r] \in {2, 3, 5, 6}
      BY <2>1, <3>1
    <3>. QED
      BY <3>1, <3>2, ReserverGoes, MutexGoes
  <2>. QED
    BY <2>1, FlushGoes
<1>2. Inv /\ Moving /\ [Next]_vars => Moving'
  BY HolderQueuesStep, ComingStep DEF Moving
<1>. QED
  BY <1>1, <1>2, MovingStart, StreamInvariance, WeightAccounted, PTL DEF Spec
=============================================================================
