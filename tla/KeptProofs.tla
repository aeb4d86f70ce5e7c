----------------------------- MODULE KeptProofs -----------------------------
(***************************************************************************)
(* Proofs about what is kept from one request to the next: the pool of     *)
(* upstream connections, the ring of events and the table of its readers,  *)
(* for any requests, connections, credentials, readers and caps.           *)
(***************************************************************************)
EXTENDS MCKept, Integers, TLAPS, FiniteSetTheorems, SequenceTheorems, WellFoundedInduction

-----------------------------------------------------------------------------
(* The slots of the pool: some of the oldest go, or the newest goes.       *)

(* The instance has copies of the library's operators.                     *)
LEMMA PoolSets ==
  ASSUME NEW S
  PROVE  /\ Pool!Cardinality(S) = Cardinality(S)
         /\ Pool!IsFiniteSet(S) <=> IsFiniteSet(S)
<1>1. Pool!Cardinality(S) = Cardinality(S)
  BY DEF Pool!Cardinality, Cardinality
<1>2. Pool!IsFiniteSet(S) <=> IsFiniteSet(S)
  BY DEF Pool!IsFiniteSet, IsFiniteSet
<1>. QED
  BY <1>1, <1>2

(* t holds some run of the entries of s, from one past n.                  *)
RunOf(t, s, n) == \A i \in DOMAIN t : i + n \in DOMAIN s /\ t[i] = s[i + n]

LEMMA SuffixIsRun ==
  ASSUME NEW T, NEW s \in Seq(T), NEW n \in Nat
  PROVE  LET t == SubSeq(s, n + 1, Len(s)) IN
         t \in Seq(T) /\ Len(t) <= Len(s) /\ RunOf(t, s, n)
  BY DEF RunOf

LEMMA FrontIsRun ==
  ASSUME NEW T, NEW s \in Seq(T), s # << >>
  PROVE  /\ Pool!Front(s) \in Seq(T) /\ Len(Pool!Front(s)) = Len(s) - 1
         /\ RunOf(Pool!Front(s), s, 0)
         /\ Pool!Last(s) = s[Len(s)] /\ Len(s) \in DOMAIN s /\ Pool!Last(s) \in T
<1>1. Len(s) \in Nat /\ Len(s) > 0 /\ DOMAIN s = 1 .. Len(s)
  OBVIOUS
<1>2. Pool!Last(s) = s[Len(s)] /\ Len(s) \in DOMAIN s /\ s[Len(s)] \in T
  BY <1>1 DEF Pool!Last
<1>3. /\ Pool!Front(s) \in Seq(T) /\ Len(Pool!Front(s)) = Len(s) - 1
  BY <1>1 DEF Pool!Front
<1>4. \A i \in 1 .. Len(s) - 1 : Pool!Front(s)[i] = s[i]
  BY <1>1 DEF Pool!Front
<1>5. RunOf(Pool!Front(s), s, 0)
  BY <1>1, <1>3, <1>4 DEF RunOf
<1>. QED
  BY <1>2, <1>3, <1>5

(* What the invariant says of the slots.                                   *)
SlotsOK(slots) ==
  /\ slots \in [Pool!Keys -> Seq(Conns)]
  /\ \A k \in Pool!Keys : Len(slots[k]) <= MaxPerKey
  /\ Cardinality(Pool!Parked(slots)) <= MaxParked
  /\ \A r \in Reqs, k \in Pool!Keys : \A i \in DOMAIN slots[k] : slots[k][i] # on[r]
  /\ \A k, l \in Pool!Keys : \A i \in DOMAIN slots[k], j \in DOMAIN slots[l] :
       slots[k][i] = slots[l][j] => k = l /\ i = j
  /\ \A k \in Pool!Keys : \A i \in DOMAIN slots[k] :
       conn[slots[k][i]].carried \subseteq {[cred |-> k.cred, value |-> k.generation]}

LEMMA SlotsOfInv == ASSUME Pool!Inv PROVE SlotsOK(idle)
<1>1. idle \in [Pool!Keys -> Seq(Conns)] /\ \A k \in Pool!Keys : Len(idle[k]) <= MaxPerKey
  BY DEF Pool!Inv, Pool!Kinds, Pool!TypeOK
<1>2. Cardinality(Pool!Parked(idle)) <= MaxParked
  BY PoolSets DEF Pool!Inv, Pool!Kinds, Pool!TypeOK, Pool!Waiting
<1>. QED
  BY <1>1, <1>2 DEF Pool!Inv, Pool!ParkedOrRidden, Pool!ParkedInOnePlace, Pool!CarriesItsKey,
                    SlotsOK

LEMMA FewerParked ==
  ASSUME NEW S, NEW U, IsFiniteSet(U), S \subseteq U
  PROVE  IsFiniteSet(S) /\ Cardinality(S) \in Nat /\ Cardinality(U) \in Nat
         /\ Cardinality(S) <= Cardinality(U)
  BY FS_Subset, FS_CardinalityType

LEMMA ParkedAreConns ==
  ASSUME NEW slots \in [Pool!Keys -> Seq(Conns)]
  PROVE  Pool!Parked(slots) \subseteq Conns /\ IsFiniteSet(Pool!Parked(slots))
<1>1. Pool!Parked(slots) \subseteq Conns
  BY DEF Pool!Parked, Pool!ToSet
<1>2. IsFiniteSet(Conns)
  BY PoolAssumption, PoolSets DEF Pool!ReqsAssumption
<1>. QED
  BY <1>1, <1>2, FS_Subset

(* Slots that hold runs of what the slots held are as good.                *)
LEMMA ShorterSlots ==
  ASSUME Pool!Inv, NEW slots \in [Pool!Keys -> Seq(Conns)], NEW n \in [Pool!Keys -> Nat],
         \A k \in Pool!Keys : RunOf(slots[k], idle[k], n[k]) /\ Len(slots[k]) <= Len(idle[k])
  PROVE  SlotsOK(slots)
<1>0. SlotsOK(idle)
  BY SlotsOfInv
<1>1. Pool!Parked(slots) \subseteq Pool!Parked(idle)
  BY DEF Pool!Parked, Pool!ToSet, RunOf
<1>2. Cardinality(Pool!Parked(slots)) <= MaxParked
  <2>1. /\ IsFiniteSet(Pool!Parked(idle)) /\ Cardinality(Pool!Parked(idle)) <= MaxParked
        /\ MaxParked \in Nat
    BY <1>0, ParkedAreConns, PoolAssumption DEF SlotsOK, Pool!BoundsAssumption
  <2>2. /\ Cardinality(Pool!Parked(slots)) \in Nat /\ Cardinality(Pool!Parked(idle)) \in Nat
        /\ Cardinality(Pool!Parked(slots)) <= Cardinality(Pool!Parked(idle))
    BY <1>1, <2>1, FewerParked
  <2>. QED
    BY <2>1, <2>2
<1>3. \A k \in Pool!Keys : Len(slots[k]) <= MaxPerKey
  BY <1>0, PoolAssumption DEF SlotsOK, Pool!BoundsAssumption
<1>4. \A r \in Reqs, k \in Pool!Keys : \A i \in DOMAIN slots[k] : slots[k][i] # on[r]
  BY <1>0 DEF SlotsOK, RunOf
<1>5. \A k, l \in Pool!Keys : \A i \in DOMAIN slots[k], j \in DOMAIN slots[l] :
        slots[k][i] = slots[l][j] => k = l /\ i = j
  <2>. SUFFICES ASSUME NEW k \in Pool!Keys, NEW l \in Pool!Keys,
                       NEW i \in DOMAIN slots[k], NEW j \in DOMAIN slots[l],
                       slots[k][i] = slots[l][j]
                PROVE  k = l /\ i = j
    OBVIOUS
  <2>1. /\ i + n[k] \in DOMAIN idle[k] /\ slots[k][i] = idle[k][i + n[k]]
        /\ j + n[l] \in DOMAIN idle[l] /\ slots[l][j] = idle[l][j + n[l]]
    BY DEF RunOf
  <2>3. \A a \in DOMAIN idle[k], b \in DOMAIN idle[l] : idle[k][a] = idle[l][b] => k = l /\ a = b
    BY <1>0, Zenon DEF SlotsOK
  <2>2. k = l /\ i + n[k] = j + n[l]
    BY <2>1, <2>3, Zenon
  <2>. QED
    BY <2>2
<1>6. \A k \in Pool!Keys : \A i \in DOMAIN slots[k] :
        conn[slots[k][i]].carried \subseteq {[cred |-> k.cred, value |-> k.generation]}
  BY <1>0 DEF SlotsOK, RunOf
<1>. QED
  BY <1>2, <1>3, <1>4, <1>5, <1>6 DEF SlotsOK

LEMMA SweptSlots ==
  ASSUME Pool!Inv, NEW old \in Pool!Ages
  PROVE  SlotsOK(Pool!Swept(old)) /\ Pool!Swept(old) \in [Pool!Keys -> Seq(Conns)]
<1>. DEFINE slots == Pool!Swept(old)
<1>1. idle \in [Pool!Keys -> Seq(Conns)]
  BY DEF Pool!Inv, Pool!Kinds
<1>2. old \in [Pool!Keys -> Nat]
  BY PoolAssumption DEF Pool!Ages, Pool!BoundsAssumption
<1>3. ASSUME NEW k \in Pool!Keys
      PROVE  slots[k] \in Seq(Conns) /\ Len(slots[k]) <= Len(idle[k]) /\ RunOf(slots[k], idle[k], old[k])
  <2>1. idle[k] \in Seq(Conns) /\ old[k] \in Nat
    BY <1>1, <1>2
  <2>2. slots[k] = SubSeq(idle[k], old[k] + 1, Len(idle[k]))
    BY DEF Pool!Swept
  <2>. QED
    BY <2>1, <2>2, SuffixIsRun
<1>4. slots \in [Pool!Keys -> Seq(Conns)]
  BY <1>3 DEF Pool!Swept
<1>. QED
  BY <1>2, <1>3, <1>4, ShorterSlots

-----------------------------------------------------------------------------
(* The pool's inductive invariant, action by action.                       *)

PoolTypes ==
  /\ gen \in 0 .. MaxGen
  /\ at \in [Reqs -> {"start", "keying", "sweeping", "popping", "opening", "sending",
                      "awaiting", "parking", "done", "refused"}]
  /\ value \in [Reqs -> 0 .. MaxGen] /\ key \in [Reqs -> Pool!Keys \cup {Pool!NoKey}]
  /\ on \in [Reqs -> Conns \cup {Pool!None}] /\ reused \in [Reqs -> BOOLEAN]
  /\ conn \in [Conns -> Pool!Connections]
  /\ applied \in [Reqs -> Nat]

PoolParts ==
  /\ PoolTypes /\ SlotsOK(idle)
  /\ Pool!KeyedByItsOwn /\ Pool!RidesWhenAt /\ Pool!RidesAlone
  /\ Pool!SentIsAwaited /\ Pool!AnswerIsRead /\ Pool!CarriesItsOwn /\ Pool!GuardKept
  /\ Pool!TakenCounted /\ Pool!AppliedOnce

LEMMA PartsOfInv == Pool!Inv => PoolParts
<1>. SUFFICES ASSUME Pool!Inv PROVE PoolParts
  OBVIOUS
<1>1. PoolTypes
  BY DEF Pool!Inv, Pool!Kinds, Pool!TypeOK, PoolTypes
<1>. QED
  BY <1>1, SlotsOfInv DEF Pool!Inv, PoolParts

LEMMA InvOfParts == PoolParts' => Pool!Inv'
<1>. SUFFICES ASSUME PoolParts' PROVE Pool!Inv'
  OBVIOUS
<1>1. Pool!Cardinality(Pool!Parked(idle')) = Cardinality(Pool!Parked(idle'))
  BY PoolSets
<1>2. Pool!TypeOK' /\ Pool!Kinds'
  BY <1>1 DEF PoolParts, PoolTypes, SlotsOK, Pool!Kinds, Pool!TypeOK, Pool!Waiting
<1>3. Pool!ParkedOrRidden' /\ Pool!ParkedInOnePlace' /\ Pool!CarriesItsKey'
  BY DEF PoolParts, SlotsOK, Pool!ParkedOrRidden, Pool!ParkedInOnePlace, Pool!CarriesItsKey
<1>. QED
  BY <1>2, <1>3 DEF PoolParts, Pool!Inv

LEMMA PoolNames ==
  /\ Pool!None \notin Reqs /\ Pool!None \notin Conns
  /\ MaxGen \in Nat /\ MaxPerKey \in Nat /\ MaxParked \in Nat
  BY PoolAssumption DEF Pool!ReqsAssumption, Pool!BoundsAssumption

LEMMA SentByRequests ==
  ASSUME PoolParts
  PROVE  \A c \in Conns : /\ conn[c].sent \in Reqs \cup {Pool!None}
                          /\ conn[c].answer \in Reqs \cup {Pool!None}
  BY DEF PoolParts, PoolTypes, Pool!Connections

(* The slots stay good while what is parked is left alone.                 *)
LEMMA SlotsLeftAlone ==
  ASSUME SlotsOK(idle), idle' = idle, on \in [Reqs -> Conns \cup {Pool!None}],
         \A r \in Reqs : on'[r] = on[r] \/ on'[r] \notin Pool!Parked(idle),
         \A c \in Pool!Parked(idle) : conn'[c].carried = conn[c].carried
  PROVE  SlotsOK(idle)'
<1>1. \A k \in Pool!Keys : \A i \in DOMAIN idle[k] : idle[k][i] \in Pool!Parked(idle)
  BY DEF Pool!Parked, Pool!ToSet
<1>2. \A r \in Reqs, k \in Pool!Keys : \A i \in DOMAIN idle[k] : idle[k][i] # on'[r]
  BY <1>1 DEF SlotsOK
<1>3. \A k \in Pool!Keys : \A i \in DOMAIN idle[k] :
        conn'[idle[k][i]].carried \subseteq {[cred |-> k.cred, value |-> k.generation]}
  BY <1>1 DEF SlotsOK
<1>. QED
  BY <1>2, <1>3 DEF SlotsOK, Pool!Parked

LEMMA SlotsWhenLetGo ==
  ASSUME SlotsOK(idle), idle' = idle, conn' = conn, NEW r \in Reqs,
         on \in [Reqs -> Conns \cup {Pool!None}],
         on' = on \/ on' = [on EXCEPT ![r] = Pool!None]
  PROVE  SlotsOK(idle)'
<1>1. Pool!None \notin Pool!Parked(idle)
  BY ParkedAreConns, PoolNames DEF SlotsOK
<1>2. \A o \in Reqs : on'[o] = on[o] \/ on'[o] \notin Pool!Parked(idle)
  BY <1>1
<1>. QED
  BY <1>2, SlotsLeftAlone

(* The connection a request rides is not parked.                           *)
LEMMA RiddenIsNotParked ==
  ASSUME SlotsOK(idle), NEW r \in Reqs PROVE on[r] \notin Pool!Parked(idle)
  BY DEF SlotsOK, Pool!Parked, Pool!ToSet

LEMMA PoolReplace == ASSUME Pool!Inv, Pool!Replace PROVE Pool!Inv'
<1>. USE PoolNames
<1>0. PoolParts
  BY PartsOfInv
<1>1. PoolTypes'
  BY <1>0 DEF PoolParts, PoolTypes, Pool!Connections, Pool!Credentials, Pool!Keys, Pool!Replace
<1>2. SlotsOK(idle)'
  BY <1>0, SlotsLeftAlone DEF PoolParts, PoolTypes, Pool!Replace
<1>3. Pool!KeyedByItsOwn'
  BY <1>0 DEF PoolParts, PoolTypes, Pool!KeyedByItsOwn, Pool!RidesWhenAt, Pool!RidesAlone, Pool!Riding, Pool!Keyed, Pool!Replace
<1>4. Pool!RidesWhenAt'
  BY <1>0 DEF PoolParts, PoolTypes, Pool!RidesWhenAt, Pool!RidesWhenAt, Pool!RidesAlone, Pool!Riding, Pool!Keyed, Pool!Replace
<1>5. Pool!RidesAlone'
  BY <1>0 DEF PoolParts, PoolTypes, Pool!RidesAlone, Pool!RidesWhenAt, Pool!RidesAlone, Pool!Riding, Pool!Keyed, Pool!Replace
<1>6. Pool!SentIsAwaited'
  BY <1>0 DEF PoolParts, PoolTypes, Pool!SentIsAwaited, Pool!RidesWhenAt, Pool!RidesAlone, Pool!Riding, Pool!Keyed, Pool!Replace
<1>7. Pool!AnswerIsRead'
  BY <1>0 DEF PoolParts, PoolTypes, Pool!AnswerIsRead, Pool!RidesWhenAt, Pool!RidesAlone, Pool!Riding, Pool!Keyed, Pool!Replace
<1>8. Pool!CarriesItsOwn'
  BY <1>0 DEF PoolParts, PoolTypes, Pool!CarriesItsOwn, Pool!RidesWhenAt, Pool!RidesAlone, Pool!Riding, Pool!Keyed, Pool!Replace
<1>9. Pool!GuardKept'
  BY <1>0 DEF PoolParts, PoolTypes, Pool!GuardKept, Pool!RidesWhenAt, Pool!RidesAlone, Pool!Riding, Pool!Keyed, Pool!Replace
<1>10. Pool!TakenCounted'
  BY <1>0 DEF PoolParts, PoolTypes, Pool!TakenCounted, Pool!Taken, Pool!TakenBefore, Pool!Replace
<1>11. Pool!AppliedOnce'
  BY <1>0 DEF PoolParts, Pool!AppliedOnce, Pool!Replace
<1>. QED
  BY <1>1, <1>2, <1>3, <1>4, <1>5, <1>6, <1>7, <1>8, <1>9, <1>10, <1>11, InvOfParts DEF PoolParts

LEMMA PoolSnapshot == ASSUME Pool!Inv, NEW r \in Reqs, Pool!Snapshot(r) PROVE Pool!Inv'
<1>. USE PoolNames
<1>0. PoolParts
  BY PartsOfInv
<1>1. PoolTypes'
  BY <1>0 DEF PoolParts, PoolTypes, Pool!Connections, Pool!Credentials, Pool!Keys, Pool!Snapshot, Pool!Goes
<1>2. SlotsOK(idle)'
  BY <1>0, SlotsLeftAlone DEF PoolParts, PoolTypes, Pool!Snapshot, Pool!Goes
<1>3. Pool!KeyedByItsOwn'
  BY <1>0 DEF PoolParts, PoolTypes, Pool!KeyedByItsOwn, Pool!RidesWhenAt, Pool!RidesAlone, Pool!Riding, Pool!Keyed, Pool!Snapshot, Pool!Goes
<1>4. Pool!RidesWhenAt'
  BY <1>0 DEF PoolParts, PoolTypes, Pool!RidesWhenAt, Pool!RidesWhenAt, Pool!RidesAlone, Pool!Riding, Pool!Keyed, Pool!Snapshot, Pool!Goes
<1>5. Pool!RidesAlone'
  BY <1>0 DEF PoolParts, PoolTypes, Pool!RidesAlone, Pool!RidesWhenAt, Pool!RidesAlone, Pool!Riding, Pool!Keyed, Pool!Snapshot, Pool!Goes
<1>6. Pool!SentIsAwaited'
  BY <1>0 DEF PoolParts, PoolTypes, Pool!SentIsAwaited, Pool!RidesWhenAt, Pool!RidesAlone, Pool!Riding, Pool!Keyed, Pool!Snapshot, Pool!Goes
<1>7. Pool!AnswerIsRead'
  BY <1>0 DEF PoolParts, PoolTypes, Pool!AnswerIsRead, Pool!RidesWhenAt, Pool!RidesAlone, Pool!Riding, Pool!Keyed, Pool!Snapshot, Pool!Goes
<1>8. Pool!CarriesItsOwn'
  BY <1>0 DEF PoolParts, PoolTypes, Pool!CarriesItsOwn, Pool!RidesWhenAt, Pool!RidesAlone, Pool!Riding, Pool!Keyed, Pool!Snapshot, Pool!Goes
<1>9. Pool!GuardKept'
  BY <1>0 DEF PoolParts, PoolTypes, Pool!GuardKept, Pool!RidesWhenAt, Pool!RidesAlone, Pool!Riding, Pool!Keyed, Pool!Snapshot, Pool!Goes
<1>10. Pool!TakenCounted'
  BY <1>0 DEF PoolParts, PoolTypes, Pool!TakenCounted, Pool!Taken, Pool!TakenBefore, Pool!Snapshot, Pool!Goes
<1>11. Pool!AppliedOnce'
  BY <1>0 DEF PoolParts, Pool!AppliedOnce, Pool!Snapshot, Pool!Goes
<1>. QED
  BY <1>1, <1>2, <1>3, <1>4, <1>5, <1>6, <1>7, <1>8, <1>9, <1>10, <1>11, InvOfParts DEF PoolParts

LEMMA PoolMakeKey == ASSUME Pool!Inv, NEW r \in Reqs, Pool!MakeKey(r) PROVE Pool!Inv'
<1>. USE PoolNames
<1>0. PoolParts
  BY PartsOfInv
<1>00. /\ on' = on /\ conn' = conn /\ at[r] = "keying"
       /\ \E to \in {"sweeping", "opening"} : at' = [at EXCEPT ![r] = to]
  BY DEF Pool!MakeKey, Pool!Goes
<1>1. PoolTypes'
  BY <1>0 DEF PoolParts, PoolTypes, Pool!Connections, Pool!Credentials, Pool!Keys, Pool!MakeKey, Pool!Goes, Pool!KeyGeneration
<1>2. SlotsOK(idle)'
  BY <1>0, SlotsLeftAlone DEF PoolParts, PoolTypes, Pool!MakeKey, Pool!Goes, Pool!KeyGeneration
<1>3. Pool!KeyedByItsOwn'
  BY <1>0 DEF PoolParts, PoolTypes, Pool!KeyedByItsOwn, Pool!RidesWhenAt, Pool!RidesAlone, Pool!Riding, Pool!Keyed, Pool!MakeKey, Pool!Goes, Pool!KeyGeneration
<1>4. Pool!RidesWhenAt'
  BY <1>0 DEF PoolParts, PoolTypes, Pool!RidesWhenAt, Pool!RidesWhenAt, Pool!RidesAlone, Pool!Riding, Pool!Keyed, Pool!MakeKey, Pool!Goes, Pool!KeyGeneration
<1>5. Pool!RidesAlone'
  BY <1>0 DEF PoolParts, PoolTypes, Pool!RidesAlone, Pool!RidesWhenAt, Pool!RidesAlone, Pool!Riding, Pool!Keyed, Pool!MakeKey, Pool!Goes, Pool!KeyGeneration
<1>6. Pool!SentIsAwaited'
  BY <1>0, <1>00 DEF PoolParts, PoolTypes, Pool!SentIsAwaited
<1>7. Pool!AnswerIsRead'
  BY <1>0, <1>00 DEF PoolParts, PoolTypes, Pool!AnswerIsRead
<1>8. Pool!CarriesItsOwn'
  BY <1>0 DEF PoolParts, PoolTypes, Pool!CarriesItsOwn, Pool!RidesWhenAt, Pool!RidesAlone, Pool!Riding, Pool!Keyed, Pool!MakeKey, Pool!Goes, Pool!KeyGeneration
<1>9. Pool!GuardKept'
  BY <1>0 DEF PoolParts, PoolTypes, Pool!GuardKept, Pool!RidesWhenAt, Pool!RidesAlone, Pool!Riding, Pool!Keyed, Pool!MakeKey, Pool!Goes, Pool!KeyGeneration
<1>10. Pool!TakenCounted'
  BY <1>0 DEF PoolParts, PoolTypes, Pool!TakenCounted, Pool!Taken, Pool!TakenBefore, Pool!MakeKey, Pool!Goes, Pool!KeyGeneration
<1>11. Pool!AppliedOnce'
  BY <1>0 DEF PoolParts, Pool!AppliedOnce, Pool!MakeKey, Pool!Goes, Pool!KeyGeneration
<1>. QED
  BY <1>1, <1>2, <1>3, <1>4, <1>5, <1>6, <1>7, <1>8, <1>9, <1>10, <1>11, InvOfParts DEF PoolParts

LEMMA PoolRefused == ASSUME Pool!Inv, NEW r \in Reqs, Pool!Refused(r) PROVE Pool!Inv'
<1>. USE PoolNames
<1>0. PoolParts
  BY PartsOfInv
<1>1. PoolTypes'
  BY <1>0 DEF PoolParts, PoolTypes, Pool!Connections, Pool!Credentials, Pool!Keys, Pool!Refused, Pool!Goes
<1>2. SlotsOK(idle)'
  BY <1>0, SlotsLeftAlone DEF PoolParts, PoolTypes, Pool!Refused, Pool!Goes
<1>3. Pool!KeyedByItsOwn'
  BY <1>0 DEF PoolParts, PoolTypes, Pool!KeyedByItsOwn, Pool!RidesWhenAt, Pool!RidesAlone, Pool!Riding, Pool!Keyed, Pool!Refused, Pool!Goes
<1>4. Pool!RidesWhenAt'
  BY <1>0 DEF PoolParts, PoolTypes, Pool!RidesWhenAt, Pool!RidesWhenAt, Pool!RidesAlone, Pool!Riding, Pool!Keyed, Pool!Refused, Pool!Goes
<1>5. Pool!RidesAlone'
  BY <1>0 DEF PoolParts, PoolTypes, Pool!RidesAlone, Pool!RidesWhenAt, Pool!RidesAlone, Pool!Riding, Pool!Keyed, Pool!Refused, Pool!Goes
<1>6. Pool!SentIsAwaited'
  BY <1>0 DEF PoolParts, PoolTypes, Pool!SentIsAwaited, Pool!RidesWhenAt, Pool!RidesAlone, Pool!Riding, Pool!Keyed, Pool!Refused, Pool!Goes
<1>7. Pool!AnswerIsRead'
  BY <1>0 DEF PoolParts, PoolTypes, Pool!AnswerIsRead, Pool!RidesWhenAt, Pool!RidesAlone, Pool!Riding, Pool!Keyed, Pool!Refused, Pool!Goes
<1>8. Pool!CarriesItsOwn'
  BY <1>0 DEF PoolParts, PoolTypes, Pool!CarriesItsOwn, Pool!RidesWhenAt, Pool!RidesAlone, Pool!Riding, Pool!Keyed, Pool!Refused, Pool!Goes
<1>9. Pool!GuardKept'
  BY <1>0 DEF PoolParts, PoolTypes, Pool!GuardKept, Pool!RidesWhenAt, Pool!RidesAlone, Pool!Riding, Pool!Keyed, Pool!Refused, Pool!Goes
<1>10. Pool!TakenCounted'
  BY <1>0 DEF PoolParts, PoolTypes, Pool!TakenCounted, Pool!Taken, Pool!TakenBefore, Pool!Refused, Pool!Goes
<1>11. Pool!AppliedOnce'
  BY <1>0 DEF PoolParts, Pool!AppliedOnce, Pool!Refused, Pool!Goes
<1>. QED
  BY <1>1, <1>2, <1>3, <1>4, <1>5, <1>6, <1>7, <1>8, <1>9, <1>10, <1>11, InvOfParts DEF PoolParts

LEMMA PoolSend == ASSUME Pool!Inv, NEW r \in Reqs, Pool!Send(r) PROVE Pool!Inv'
<1>. DEFINE c == on[r]
            mine == [cred |-> Cred[r], value |-> value[r]]
<1>. USE PoolNames
<1>0. PoolParts
  BY PartsOfInv
<1>00. /\ at[r] = "sending" /\ at' = [at EXCEPT ![r] = "awaiting"]
       /\ UNCHANGED <<gen, value, key, on, reused, idle, applied>>
       /\ conn' = IF conn[c].up THEN [conn EXCEPT ![c].sent = r, ![c].carried = @ \cup {mine}]
                                ELSE conn
  BY DEF Pool!Send, Pool!Goes
<1>01. c \in Conns /\ mine \in Pool!Credentials /\ conn[c] \in Pool!Connections
  <2>1. c \in Conns
    BY <1>0, <1>00 DEF PoolParts, PoolTypes, Pool!RidesWhenAt, Pool!Riding
  <2>. QED
    BY <1>0, <2>1 DEF PoolParts, PoolTypes, Pool!Credentials
<1>02. /\ \A d \in Conns : d # c => conn'[d] = conn[d]
       /\ conn'[c].peer = conn[c].peer /\ conn'[c].up = conn[c].up
       /\ conn'[c].answer = conn[c].answer
       /\ conn'[c].carried \subseteq conn[c].carried \cup {mine}
       /\ conn'[c].sent = IF conn[c].up THEN r ELSE conn[c].sent
  BY <1>0, <1>00, <1>01 DEF PoolParts, PoolTypes, Pool!Connections
<1>1. PoolTypes'
  <2>1. conn' \in [Conns -> Pool!Connections]
    BY <1>0, <1>00, <1>01 DEF PoolParts, PoolTypes, Pool!Connections
  <2>. QED
    BY <1>0, <1>00, <2>1 DEF PoolParts, PoolTypes
<1>. HIDE DEF c, mine
<1>2. SlotsOK(idle)'
  <2>1. c \notin Pool!Parked(idle) /\ Pool!Parked(idle) \subseteq Conns
    BY <1>0, RiddenIsNotParked, ParkedAreConns DEF PoolParts, SlotsOK, c
  <2>. QED
    BY <1>0, <1>00, <1>02, <2>1, SlotsLeftAlone DEF PoolParts, PoolTypes
<1>3. Pool!KeyedByItsOwn' /\ Pool!RidesWhenAt' /\ Pool!RidesAlone'
  BY <1>0, <1>00 DEF PoolParts, PoolTypes, Pool!KeyedByItsOwn, Pool!RidesWhenAt, Pool!RidesAlone,
                     Pool!Riding, Pool!Keyed
<1>4. Pool!SentIsAwaited'
  BY <1>0, <1>00, <1>02 DEF PoolParts, PoolTypes, Pool!SentIsAwaited, c
<1>5. Pool!AnswerIsRead'
  BY <1>0, <1>00, <1>02 DEF PoolParts, PoolTypes, Pool!AnswerIsRead, c
<1>6. Pool!CarriesItsOwn' /\ Pool!GuardKept'
  BY <1>0, <1>00, <1>02 DEF PoolParts, PoolTypes, Pool!CarriesItsOwn, Pool!GuardKept,
                            Pool!RidesAlone, c, mine
<1>7. Pool!TakenCounted'
  <2>. SUFFICES ASSUME NEW o \in Reqs PROVE Pool!Taken(o)'
    BY DEF Pool!TakenCounted
  <2>0. Pool!Taken(o)
    BY <1>0 DEF PoolParts, Pool!TakenCounted
  <2>1. CASE o = r
    <3>1. applied[r] <= Pool!TakenBefore(r) /\ applied[r] \in Nat /\ Pool!TakenBefore(r) \in Nat
      BY <1>0, <1>00, <2>0, <2>1 DEF PoolParts, PoolTypes, Pool!Taken, Pool!TakenBefore
    <3>2. Pool!TakenBefore(r)' = Pool!TakenBefore(r)
      BY <1>00 DEF Pool!TakenBefore
    <3>. QED
      BY <1>0, <1>00, <2>1, <3>1, <3>2 DEF PoolParts, PoolTypes, Pool!Taken
  <2>2. CASE o # r
    <3>1. at'[o] = at[o] /\ Pool!TakenBefore(o)' = Pool!TakenBefore(o)
      BY <1>0, <1>00, <2>2 DEF PoolParts, PoolTypes, Pool!TakenBefore
    <3>2. at[o] = "awaiting" => on[o] \in Conns /\ on[o] # c
      BY <1>0, <1>00, <2>2 DEF PoolParts, PoolTypes, Pool!RidesWhenAt, Pool!RidesAlone,
                               Pool!Riding, c
    <3>. QED
      BY <1>00, <1>02, <2>0, <3>1, <3>2 DEF Pool!Taken
  <2>. QED
    BY <2>1, <2>2
<1>8. Pool!AppliedOnce'
  BY <1>0, <1>00 DEF PoolParts, Pool!AppliedOnce
<1>. QED
  BY <1>1, <1>2, <1>3, <1>4, <1>5, <1>6, <1>7, <1>8, InvOfParts DEF PoolParts

LEMMA PoolReplay == ASSUME Pool!Inv, NEW r \in Reqs, Pool!Replay(r) PROVE Pool!Inv'
<1>. USE PoolNames
<1>0. PoolParts
  BY PartsOfInv
<1>1. PoolTypes'
  BY <1>0 DEF PoolParts, PoolTypes, Pool!Connections, Pool!Credentials, Pool!Keys, Pool!Replay, Pool!Silent, Pool!MayReplay, Pool!LetGo, Pool!Goes
<1>2. SlotsOK(idle)'
  <2>1. idle' = idle /\ conn' = conn /\ (on' = on \/ on' = [on EXCEPT ![r] = Pool!None])
    BY DEF Pool!Replay, Pool!LetGo
  <2>. QED
    BY <1>0, <2>1, SlotsWhenLetGo DEF PoolParts, PoolTypes
<1>3. Pool!KeyedByItsOwn'
  BY <1>0 DEF PoolParts, PoolTypes, Pool!KeyedByItsOwn, Pool!RidesWhenAt, Pool!RidesAlone, Pool!Riding, Pool!Keyed, Pool!Replay, Pool!Silent, Pool!MayReplay, Pool!LetGo, Pool!Goes
<1>4. Pool!RidesWhenAt'
  BY <1>0 DEF PoolParts, PoolTypes, Pool!RidesWhenAt, Pool!RidesWhenAt, Pool!RidesAlone, Pool!Riding, Pool!Keyed, Pool!Replay, Pool!Silent, Pool!MayReplay, Pool!LetGo, Pool!Goes
<1>5. Pool!RidesAlone'
  BY <1>0 DEF PoolParts, PoolTypes, Pool!RidesAlone, Pool!RidesWhenAt, Pool!RidesAlone, Pool!Riding, Pool!Keyed, Pool!Replay, Pool!Silent, Pool!MayReplay, Pool!LetGo, Pool!Goes
<1>6. Pool!SentIsAwaited'
  BY <1>0 DEF PoolParts, PoolTypes, Pool!SentIsAwaited, Pool!RidesWhenAt, Pool!RidesAlone, Pool!Riding, Pool!Keyed, Pool!Replay, Pool!Silent, Pool!MayReplay, Pool!LetGo, Pool!Goes
<1>7. Pool!AnswerIsRead'
  BY <1>0 DEF PoolParts, PoolTypes, Pool!AnswerIsRead, Pool!RidesWhenAt, Pool!RidesAlone, Pool!Riding, Pool!Keyed, Pool!Replay, Pool!Silent, Pool!MayReplay, Pool!LetGo, Pool!Goes
<1>8. Pool!CarriesItsOwn'
  BY <1>0 DEF PoolParts, PoolTypes, Pool!CarriesItsOwn, Pool!RidesWhenAt, Pool!RidesAlone, Pool!Riding, Pool!Keyed, Pool!Replay, Pool!Silent, Pool!MayReplay, Pool!LetGo, Pool!Goes
<1>9. Pool!GuardKept'
  BY <1>0 DEF PoolParts, PoolTypes, Pool!GuardKept, Pool!RidesWhenAt, Pool!RidesAlone, Pool!Riding, Pool!Keyed, Pool!Replay, Pool!Silent, Pool!MayReplay, Pool!LetGo, Pool!Goes
<1>10. Pool!TakenCounted'
  BY <1>0 DEF PoolParts, PoolTypes, Pool!TakenCounted, Pool!Taken, Pool!TakenBefore, Pool!Replay, Pool!Silent, Pool!MayReplay, Pool!LetGo, Pool!Goes
<1>11. Pool!AppliedOnce'
  BY <1>0 DEF PoolParts, Pool!AppliedOnce, Pool!Replay, Pool!Silent, Pool!MayReplay, Pool!LetGo, Pool!Goes
<1>. QED
  BY <1>1, <1>2, <1>3, <1>4, <1>5, <1>6, <1>7, <1>8, <1>9, <1>10, <1>11, InvOfParts DEF PoolParts

LEMMA PoolLose == ASSUME Pool!Inv, NEW r \in Reqs, Pool!Lose(r) PROVE Pool!Inv'
<1>. USE PoolNames
<1>0. PoolParts
  BY PartsOfInv
<1>1. PoolTypes'
  BY <1>0 DEF PoolParts, PoolTypes, Pool!Connections, Pool!Credentials, Pool!Keys, Pool!Lose, Pool!Silent, Pool!MayReplay, Pool!LetGo, Pool!Goes
<1>2. SlotsOK(idle)'
  <2>1. idle' = idle /\ conn' = conn /\ (on' = on \/ on' = [on EXCEPT ![r] = Pool!None])
    BY DEF Pool!Lose, Pool!LetGo
  <2>. QED
    BY <1>0, <2>1, SlotsWhenLetGo DEF PoolParts, PoolTypes
<1>3. Pool!KeyedByItsOwn'
  BY <1>0 DEF PoolParts, PoolTypes, Pool!KeyedByItsOwn, Pool!RidesWhenAt, Pool!RidesAlone, Pool!Riding, Pool!Keyed, Pool!Lose, Pool!Silent, Pool!MayReplay, Pool!LetGo, Pool!Goes
<1>4. Pool!RidesWhenAt'
  BY <1>0 DEF PoolParts, PoolTypes, Pool!RidesWhenAt, Pool!RidesWhenAt, Pool!RidesAlone, Pool!Riding, Pool!Keyed, Pool!Lose, Pool!Silent, Pool!MayReplay, Pool!LetGo, Pool!Goes
<1>5. Pool!RidesAlone'
  BY <1>0 DEF PoolParts, PoolTypes, Pool!RidesAlone, Pool!RidesWhenAt, Pool!RidesAlone, Pool!Riding, Pool!Keyed, Pool!Lose, Pool!Silent, Pool!MayReplay, Pool!LetGo, Pool!Goes
<1>6. Pool!SentIsAwaited'
  BY <1>0 DEF PoolParts, PoolTypes, Pool!SentIsAwaited, Pool!RidesWhenAt, Pool!RidesAlone, Pool!Riding, Pool!Keyed, Pool!Lose, Pool!Silent, Pool!MayReplay, Pool!LetGo, Pool!Goes
<1>7. Pool!AnswerIsRead'
  BY <1>0 DEF PoolParts, PoolTypes, Pool!AnswerIsRead, Pool!RidesWhenAt, Pool!RidesAlone, Pool!Riding, Pool!Keyed, Pool!Lose, Pool!Silent, Pool!MayReplay, Pool!LetGo, Pool!Goes
<1>8. Pool!CarriesItsOwn'
  BY <1>0 DEF PoolParts, PoolTypes, Pool!CarriesItsOwn, Pool!RidesWhenAt, Pool!RidesAlone, Pool!Riding, Pool!Keyed, Pool!Lose, Pool!Silent, Pool!MayReplay, Pool!LetGo, Pool!Goes
<1>9. Pool!GuardKept'
  BY <1>0 DEF PoolParts, PoolTypes, Pool!GuardKept, Pool!RidesWhenAt, Pool!RidesAlone, Pool!Riding, Pool!Keyed, Pool!Lose, Pool!Silent, Pool!MayReplay, Pool!LetGo, Pool!Goes
<1>10. Pool!TakenCounted'
  BY <1>0 DEF PoolParts, PoolTypes, Pool!TakenCounted, Pool!Taken, Pool!TakenBefore, Pool!Lose, Pool!Silent, Pool!MayReplay, Pool!LetGo, Pool!Goes
<1>11. Pool!AppliedOnce'
  BY <1>0 DEF PoolParts, Pool!AppliedOnce, Pool!Lose, Pool!Silent, Pool!MayReplay, Pool!LetGo, Pool!Goes
<1>. QED
  BY <1>1, <1>2, <1>3, <1>4, <1>5, <1>6, <1>7, <1>8, <1>9, <1>10, <1>11, InvOfParts DEF PoolParts

LEMMA PoolRelay == ASSUME Pool!Inv, NEW r \in Reqs, Pool!Relay(r) PROVE Pool!Inv'
<1>. USE PoolNames
<1>0. PoolParts
  BY PartsOfInv
<1>1. PoolTypes'
  BY <1>0 DEF PoolParts, PoolTypes, Pool!Connections, Pool!Credentials, Pool!Keys, Pool!Relay, Pool!Answered, Pool!LetGo, Pool!Goes
<1>2. SlotsOK(idle)'
  <2>1. idle' = idle /\ conn' = conn /\ (on' = on \/ on' = [on EXCEPT ![r] = Pool!None])
    BY DEF Pool!Relay, Pool!LetGo
  <2>. QED
    BY <1>0, <2>1, SlotsWhenLetGo DEF PoolParts, PoolTypes
<1>3. Pool!KeyedByItsOwn'
  BY <1>0 DEF PoolParts, PoolTypes, Pool!KeyedByItsOwn, Pool!RidesWhenAt, Pool!RidesAlone, Pool!Riding, Pool!Keyed, Pool!Relay, Pool!Answered, Pool!LetGo, Pool!Goes
<1>4. Pool!RidesWhenAt'
  BY <1>0 DEF PoolParts, PoolTypes, Pool!RidesWhenAt, Pool!RidesWhenAt, Pool!RidesAlone, Pool!Riding, Pool!Keyed, Pool!Relay, Pool!Answered, Pool!LetGo, Pool!Goes
<1>5. Pool!RidesAlone'
  BY <1>0 DEF PoolParts, PoolTypes, Pool!RidesAlone, Pool!RidesWhenAt, Pool!RidesAlone, Pool!Riding, Pool!Keyed, Pool!Relay, Pool!Answered, Pool!LetGo, Pool!Goes
<1>6. Pool!SentIsAwaited'
  <2>1. conn' = conn /\ (on' = on \/ on' = [on EXCEPT ![r] = Pool!None])
        /\ (\E to \in {"parking", "done"} : at' = [at EXCEPT ![r] = to])
    BY DEF Pool!Relay, Pool!LetGo, Pool!Goes
  <2>2. \A d \in Conns : conn[d].sent # r
    BY <1>0 DEF PoolParts, Pool!SentIsAwaited, Pool!AnswerIsRead, Pool!Relay, Pool!Answered
  <2>. QED
    BY <1>0, <2>1, <2>2, SentByRequests DEF PoolParts, PoolTypes, Pool!SentIsAwaited
<1>7. Pool!AnswerIsRead'
  <2>1. conn' = conn /\ (on' = on \/ on' = [on EXCEPT ![r] = Pool!None])
        /\ (\E to \in {"parking", "done"} : at' = [at EXCEPT ![r] = to])
    BY DEF Pool!Relay, Pool!LetGo, Pool!Goes
  <2>. QED
    BY <1>0, <2>1, SentByRequests DEF PoolParts, PoolTypes, Pool!AnswerIsRead
<1>8. Pool!CarriesItsOwn'
  BY <1>0 DEF PoolParts, PoolTypes, Pool!CarriesItsOwn, Pool!RidesWhenAt, Pool!RidesAlone, Pool!Riding, Pool!Keyed, Pool!Relay, Pool!Answered, Pool!LetGo, Pool!Goes
<1>9. Pool!GuardKept'
  BY <1>0 DEF PoolParts, PoolTypes, Pool!GuardKept, Pool!RidesWhenAt, Pool!RidesAlone, Pool!Riding, Pool!Keyed, Pool!Relay, Pool!Answered, Pool!LetGo, Pool!Goes
<1>10. Pool!TakenCounted'
  BY <1>0 DEF PoolParts, PoolTypes, Pool!TakenCounted, Pool!Taken, Pool!TakenBefore, Pool!Relay, Pool!Answered, Pool!LetGo, Pool!Goes
<1>11. Pool!AppliedOnce'
  BY <1>0 DEF PoolParts, Pool!AppliedOnce, Pool!Relay, Pool!Answered, Pool!LetGo, Pool!Goes
<1>. QED
  BY <1>1, <1>2, <1>3, <1>4, <1>5, <1>6, <1>7, <1>8, <1>9, <1>10, <1>11, InvOfParts DEF PoolParts

LEMMA PoolCheckoutSweep ==
  ASSUME Pool!Inv, NEW r \in Reqs, Pool!CheckoutSweep(r) PROVE Pool!Inv'
<1>. USE PoolNames
<1>0. PoolParts
  BY PartsOfInv
<1>00. /\ at[r] = "sweeping" /\ at' = [at EXCEPT ![r] = "popping"]
       /\ UNCHANGED <<gen, value, key, on, reused, conn, applied>>
  BY DEF Pool!CheckoutSweep, Pool!Goes
<1>1. PoolTypes'
  BY <1>0, <1>00 DEF PoolParts, PoolTypes
<1>2. SlotsOK(idle)'
  <2>1. PICK old \in Pool!Ages : idle' = Pool!Swept(old)
    BY DEF Pool!CheckoutSweep
  <2>2. SlotsOK(Pool!Swept(old))
    BY SweptSlots
  <2>. QED
    BY <1>00, <2>1, <2>2 DEF SlotsOK, Pool!Parked
<1>3. Pool!KeyedByItsOwn' /\ Pool!RidesWhenAt' /\ Pool!RidesAlone'
  BY <1>0, <1>00 DEF PoolParts, PoolTypes, Pool!KeyedByItsOwn, Pool!RidesWhenAt, Pool!RidesAlone,
                     Pool!Riding, Pool!Keyed
<1>4. Pool!SentIsAwaited' /\ Pool!AnswerIsRead'
  BY <1>0, <1>00, SentByRequests DEF PoolParts, PoolTypes, Pool!SentIsAwaited, Pool!AnswerIsRead
<1>5. Pool!CarriesItsOwn' /\ Pool!GuardKept'
  BY <1>0, <1>00 DEF PoolParts, PoolTypes, Pool!CarriesItsOwn, Pool!GuardKept
<1>6. Pool!TakenCounted' /\ Pool!AppliedOnce'
  BY <1>0, <1>00 DEF PoolParts, PoolTypes, Pool!TakenCounted, Pool!Taken, Pool!TakenBefore,
                     Pool!AppliedOnce
<1>. QED
  BY <1>1, <1>2, <1>3, <1>4, <1>5, <1>6, InvOfParts DEF PoolParts

(* Taking the newest connection of a slot leaves good slots without it.    *)
LEMMA PoppedSlots ==
  ASSUME Pool!Inv, NEW k \in Pool!Keys, idle[k] # << >>
  PROVE  LET c     == Pool!Last(idle[k])
             slots == [idle EXCEPT ![k] = Pool!Front(@)]
         IN  /\ c \in Conns /\ SlotsOK(slots) /\ c \notin Pool!Parked(slots)
             /\ \A r \in Reqs : on[r] # c
             /\ conn[c].carried \subseteq {[cred |-> k.cred, value |-> k.generation]}
<1>. DEFINE c     == Pool!Last(idle[k])
            slots == [idle EXCEPT ![k] = Pool!Front(@)]
            s     == idle[k]
<1>0. SlotsOK(idle) /\ idle \in [Pool!Keys -> Seq(Conns)] /\ s \in Seq(Conns)
  BY SlotsOfInv DEF SlotsOK
<1>. HIDE DEF s
<1>1. /\ Pool!Front(s) \in Seq(Conns) /\ Len(Pool!Front(s)) = Len(s) - 1
      /\ RunOf(Pool!Front(s), s, 0)
      /\ Pool!Last(s) = s[Len(s)] /\ Len(s) \in DOMAIN s /\ Pool!Last(s) \in Conns
  BY <1>0, FrontIsRun DEF s
<1>2. slots \in [Pool!Keys -> Seq(Conns)]
  BY <1>0, <1>1 DEF s
<1>3. ASSUME NEW l \in Pool!Keys
      PROVE  RunOf(slots[l], idle[l], 0) /\ Len(slots[l]) <= Len(idle[l])
  <2>1. CASE l = k
    <3>1. slots[l] = Pool!Front(s) /\ idle[l] = s
      BY <1>0, <2>1 DEF s
    <3>. QED
      BY <1>0, <1>1, <3>1
  <2>2. CASE l # k
    <3>1. slots[l] = idle[l] /\ idle[l] \in Seq(Conns)
      BY <1>0, <2>2
    <3>. QED
      BY <3>1 DEF RunOf
  <2>. QED
    BY <2>1, <2>2
<1>4. SlotsOK(slots)
  <2>. DEFINE n == [l \in Pool!Keys |-> 0]
  <2>1. n \in [Pool!Keys -> Nat] /\ \A l \in Pool!Keys : n[l] = 0
    OBVIOUS
  <2>. HIDE DEF n, slots
  <2>. QED
    BY <1>2, <1>3, <2>1, ShorterSlots
<1>5. c \notin Pool!Parked(slots)
  <2>. SUFFICES ASSUME NEW l \in Pool!Keys, NEW i \in DOMAIN slots[l], slots[l][i] = c
                PROVE  FALSE
    BY DEF Pool!Parked, Pool!ToSet
  <2>1. i \in DOMAIN idle[l] /\ slots[l][i] = idle[l][i]
    BY <1>2, <1>3 DEF RunOf
  <2>2. l = k /\ i = Len(s)
    <3>1. \A a \in DOMAIN idle[k], b \in DOMAIN idle[l] : idle[k][a] = idle[l][b] => k = l /\ a = b
      BY <1>0, Zenon DEF SlotsOK
    <3>. QED
      BY <1>1, <2>1, <3>1 DEF s
  <2>3. slots[l] = Pool!Front(s)
    BY <1>0, <2>2 DEF s
  <2>. QED
    BY <1>0, <1>1, <2>2, <2>3
<1>6. c = idle[k][Len(s)] /\ Len(s) \in DOMAIN idle[k] /\ c \in Conns
  BY <1>1 DEF s
<1>7. \A r \in Reqs : on[r] # c
  BY <1>0, <1>6 DEF SlotsOK
<1>8. conn[c].carried \subseteq {[cred |-> k.cred, value |-> k.generation]}
  BY <1>0, <1>6 DEF SlotsOK
<1>. QED
  BY <1>4, <1>5, <1>6, <1>7, <1>8

LEMMA PoolPop ==
  ASSUME Pool!Inv, NEW r \in Reqs, Pool!Pop(r) PROVE Pool!Inv'
<1>. USE PoolNames
<1>0. PoolParts
  BY PartsOfInv
<1>00. at[r] = "popping" /\ UNCHANGED <<gen, value, key, conn, applied>>
  BY DEF Pool!Pop
<1>01. key[r] = [cred |-> Cred[r], generation |-> value[r]] /\ key[r] \in Pool!Keys
  BY <1>0, <1>00 DEF PoolParts, PoolTypes, Pool!KeyedByItsOwn, Pool!Keyed, Pool!Keys
<1>. DEFINE k     == key[r]
            c     == Pool!Last(idle[k])
            slots == [idle EXCEPT ![k] = Pool!Front(@)]
<1>02. \/ /\ on' = on /\ reused' = reused /\ (at' = at \/ at' = [at EXCEPT ![r] = "opening"])
          /\ idle' = idle \/ (idle[k] # << >> /\ idle' = slots)
       \/ /\ idle[k] # << >> /\ idle' = slots /\ Pool!Reusable(r, c)
          /\ on' = [on EXCEPT ![r] = c] /\ reused' = [reused EXCEPT ![r] = TRUE]
          /\ at' = [at EXCEPT ![r] = "sending"]
  BY DEF Pool!Pop, Pool!Goes
<1>03. idle[k] # << >> =>
         /\ c \in Conns /\ SlotsOK(slots) /\ c \notin Pool!Parked(slots)
         /\ \A o \in Reqs : on[o] # c
         /\ conn[c].carried \subseteq {[cred |-> Cred[r], value |-> value[r]]}
  BY <1>01, PoppedSlots
<1>. HIDE DEF k, c, slots
<1>1. CASE /\ on' = on /\ reused' = reused /\ (at' = at \/ at' = [at EXCEPT ![r] = "opening"])
           /\ idle' = idle \/ (idle[k] # << >> /\ idle' = slots)
  <2>1. PoolTypes'
    BY <1>0, <1>00, <1>1 DEF PoolParts, PoolTypes
  <2>2. SlotsOK(idle)'
    <3>1. SlotsOK(idle')
      BY <1>0, <1>03, <1>1 DEF PoolParts
    <3>. QED
      BY <1>00, <1>1, <3>1 DEF SlotsOK, Pool!Parked
  <2>3. Pool!KeyedByItsOwn' /\ Pool!RidesWhenAt' /\ Pool!RidesAlone'
    BY <1>0, <1>00, <1>1 DEF PoolParts, PoolTypes, Pool!KeyedByItsOwn, Pool!RidesWhenAt,
                             Pool!RidesAlone, Pool!Riding, Pool!Keyed
  <2>4. Pool!SentIsAwaited' /\ Pool!AnswerIsRead'
    BY <1>0, <1>00, <1>1, SentByRequests
    DEF PoolParts, PoolTypes, Pool!SentIsAwaited, Pool!AnswerIsRead
  <2>5. Pool!CarriesItsOwn' /\ Pool!GuardKept'
    BY <1>0, <1>00, <1>1 DEF PoolParts, PoolTypes, Pool!CarriesItsOwn, Pool!GuardKept
  <2>6. Pool!TakenCounted' /\ Pool!AppliedOnce'
    BY <1>0, <1>00, <1>1 DEF PoolParts, PoolTypes, Pool!TakenCounted, Pool!Taken,
                             Pool!TakenBefore, Pool!AppliedOnce
  <2>. QED
    BY <2>1, <2>2, <2>3, <2>4, <2>5, <2>6, InvOfParts DEF PoolParts
<1>2. CASE /\ idle[k] # << >> /\ idle' = slots /\ Pool!Reusable(r, c)
           /\ on' = [on EXCEPT ![r] = c] /\ reused' = [reused EXCEPT ![r] = TRUE]
           /\ at' = [at EXCEPT ![r] = "sending"]
  <2>1. PoolTypes'
    BY <1>0, <1>00, <1>03, <1>2 DEF PoolParts, PoolTypes
  <2>2. SlotsOK(idle)'
    <3>1. \A l \in Pool!Keys : \A i \in DOMAIN slots[l] : slots[l][i] # c
      BY <1>03, <1>2 DEF Pool!Parked, Pool!ToSet
    <3>2. SlotsOK(slots)
      BY <1>03, <1>2
    <3>3. \A o \in Reqs, l \in Pool!Keys : \A i \in DOMAIN slots[l] : slots[l][i] # on'[o]
      BY <1>0, <1>2, <3>1, <3>2 DEF SlotsOK, PoolParts, PoolTypes
    <3>. QED
      BY <1>00, <1>2, <3>2, <3>3 DEF SlotsOK, Pool!Parked
  <2>3. Pool!KeyedByItsOwn' /\ Pool!RidesWhenAt' /\ Pool!RidesAlone'
    BY <1>0, <1>00, <1>03, <1>2 DEF PoolParts, PoolTypes, Pool!KeyedByItsOwn, Pool!RidesWhenAt,
                             Pool!RidesAlone, Pool!Riding, Pool!Keyed
  <2>4. Pool!SentIsAwaited' /\ Pool!AnswerIsRead'
    BY <1>0, <1>00, <1>2, SentByRequests
    DEF PoolParts, PoolTypes, Pool!SentIsAwaited, Pool!AnswerIsRead
  <2>5. Pool!CarriesItsOwn' /\ Pool!GuardKept'
    BY <1>0, <1>00, <1>03, <1>2 DEF PoolParts, PoolTypes, Pool!CarriesItsOwn, Pool!GuardKept,
                                    Pool!Reusable
  <2>6. Pool!TakenCounted' /\ Pool!AppliedOnce'
    BY <1>0, <1>00, <1>2 DEF PoolParts, PoolTypes, Pool!TakenCounted, Pool!Taken,
                             Pool!TakenBefore, Pool!AppliedOnce
  <2>. QED
    BY <2>1, <2>2, <2>3, <2>4, <2>5, <2>6, InvOfParts DEF PoolParts
<1>. QED
  BY <1>02, <1>1, <1>2, Zenon

LEMMA PoolOpen ==
  ASSUME Pool!Inv, NEW r \in Reqs, NEW c \in Conns, Pool!Open(r, c) PROVE Pool!Inv'
<1>. USE PoolNames
<1>0. PoolParts
  BY PartsOfInv
<1>00. /\ at[r] = "opening" /\ UNCHANGED <<gen, value, key, idle, applied>>
       /\ c \notin Pool!Parked(idle) /\ \A o \in Reqs : on[o] # c
       /\ on' = [on EXCEPT ![r] = c] /\ reused' = [reused EXCEPT ![r] = FALSE]
       /\ at' = [at EXCEPT ![r] = "sending"]
  BY DEF Pool!Open, Pool!Goes, Pool!Free, Pool!Waiting
<1>01. PICK p \in {"public", "private"} :
         /\ r \in Guarded => p = "public"
         /\ conn' = [conn EXCEPT ![c] = [Pool!Unopened EXCEPT !.up = TRUE, !.peer = p]]
  BY DEF Pool!Open
<1>. DEFINE x == [Pool!Unopened EXCEPT !.up = TRUE, !.peer = p]
<1>03. /\ x \in Pool!Connections /\ x.peer = p /\ x.carried = {}
       /\ x.sent = Pool!None /\ x.answer = Pool!None
  BY DEF Pool!Unopened, Pool!Connections
<1>. HIDE DEF x
<1>04. conn' = [conn EXCEPT ![c] = x]
  BY <1>01 DEF x
<1>02. /\ \A d \in Conns : d # c => conn'[d] = conn[d]
       /\ conn'[c].peer = p /\ conn'[c].carried = {}
       /\ conn'[c].sent = Pool!None /\ conn'[c].answer = Pool!None
  BY <1>0, <1>03, <1>04 DEF PoolParts, PoolTypes
<1>1. PoolTypes'
  <2>1. conn' \in [Conns -> Pool!Connections]
    BY <1>0, <1>03, <1>04 DEF PoolParts, PoolTypes
  <2>. QED
    BY <1>0, <1>00, <2>1 DEF PoolParts, PoolTypes
<1>2. SlotsOK(idle)'
  <2>1. Pool!Parked(idle) \subseteq Conns
    BY <1>0, ParkedAreConns DEF PoolParts, SlotsOK
  <2>2. \A o \in Reqs : on'[o] = on[o] \/ on'[o] \notin Pool!Parked(idle)
    BY <1>0, <1>00 DEF PoolParts, PoolTypes
  <2>3. \A d \in Pool!Parked(idle) : conn'[d].carried = conn[d].carried
    BY <1>00, <1>02, <2>1
  <2>. QED
    BY <1>0, <1>00, <2>2, <2>3, SlotsLeftAlone DEF PoolParts, PoolTypes
<1>3. Pool!KeyedByItsOwn' /\ Pool!RidesWhenAt' /\ Pool!RidesAlone'
  BY <1>0, <1>00 DEF PoolParts, PoolTypes, Pool!KeyedByItsOwn, Pool!RidesWhenAt, Pool!RidesAlone,
                     Pool!Riding, Pool!Keyed
<1>4. Pool!SentIsAwaited' /\ Pool!AnswerIsRead'
  BY <1>0, <1>00, <1>02, SentByRequests
  DEF PoolParts, PoolTypes, Pool!SentIsAwaited, Pool!AnswerIsRead
<1>5. Pool!CarriesItsOwn' /\ Pool!GuardKept'
  BY <1>0, <1>00, <1>01, <1>02 DEF PoolParts, PoolTypes, Pool!CarriesItsOwn, Pool!GuardKept
<1>6. Pool!TakenCounted' /\ Pool!AppliedOnce'
  <2>1. \A o \in Reqs : at'[o] = "awaiting" => on'[o] = on[o] /\ on[o] \in Conns /\ on[o] # c
    BY <1>0, <1>00 DEF PoolParts, PoolTypes, Pool!RidesWhenAt, Pool!Riding
  <2>2. \A o \in Reqs : o # r => at'[o] = at[o] /\ reused'[o] = reused[o]
    BY <1>0, <1>00 DEF PoolParts, PoolTypes
  <2>. QED
    BY <1>0, <1>00, <1>02, <2>1, <2>2 DEF PoolParts, PoolTypes, Pool!TakenCounted, Pool!Taken,
       Pool!TakenBefore, Pool!AppliedOnce
<1>. QED
  BY <1>1, <1>2, <1>3, <1>4, <1>5, <1>6, InvOfParts DEF PoolParts

(* A connection appended to its key's slot, while there is room.           *)
Grown(more, slots, c) ==
  /\ more \in [Pool!Keys -> Seq(Conns)]
  /\ \A l \in Pool!Keys : Len(more[l]) <= MaxPerKey
  /\ Cardinality(Pool!Parked(more)) <= MaxParked
  /\ \A l, m \in Pool!Keys : \A i \in DOMAIN more[l], j \in DOMAIN more[m] :
       more[l][i] = more[m][j] => l = m /\ i = j
  /\ \A l \in Pool!Keys : \A i \in DOMAIN more[l] :
       more[l][i] = c \/ (i \in DOMAIN slots[l] /\ more[l][i] = slots[l][i])
  /\ \A l \in Pool!Keys : \A i \in DOMAIN more[l] :
       conn[more[l][i]].carried \subseteq {[cred |-> l.cred, value |-> l.generation]}

LEMMA AppendedSlots ==
  ASSUME NEW slots, SlotsOK(slots), NEW k \in Pool!Keys, NEW c \in Conns,
         c \notin Pool!Parked(slots), Pool!Room(slots, k),
         conn[c].carried \subseteq {[cred |-> k.cred, value |-> k.generation]}
  PROVE  Grown([slots EXCEPT ![k] = Append(@, c)], slots, c)
<1>. DEFINE more == [slots EXCEPT ![k] = Append(@, c)]
<1>. DEFINE n == Len(slots[k])
<1>. USE PoolNames
<1>0. slots \in [Pool!Keys -> Seq(Conns)] /\ slots[k] \in Seq(Conns) /\ n \in Nat
  BY DEF SlotsOK
<1>1. /\ more \in [Pool!Keys -> Seq(Conns)] /\ more[k] = Append(slots[k], c)
      /\ \A l \in Pool!Keys : l # k => more[l] = slots[l]
  BY <1>0
<1>2. /\ Len(more[k]) = n + 1 /\ DOMAIN more[k] = 1 .. n + 1 /\ more[k][n + 1] = c
      /\ DOMAIN slots[k] = 1 .. n /\ \A i \in 1 .. n : more[k][i] = slots[k][i]
  BY <1>0, <1>1
<1>. HIDE DEF more, n
<1>3. \A l \in Pool!Keys : Len(more[l]) <= MaxPerKey
  <2>1. n < MaxPerKey
    BY DEF Pool!Room, n
  <2>2. Len(more[k]) <= MaxPerKey
    BY <1>0, <1>2, <2>1
  <2>3. \A l \in Pool!Keys : l # k => Len(more[l]) <= MaxPerKey
    BY <1>1 DEF SlotsOK
  <2>. QED
    BY <2>2, <2>3
<1>4. ASSUME NEW l \in Pool!Keys, NEW i \in DOMAIN more[l]
      PROVE  \/ l = k /\ i = n + 1 /\ more[l][i] = c
             \/ i \in DOMAIN slots[l] /\ more[l][i] = slots[l][i]
  <2>1. CASE l = k
    BY <1>0, <1>2, <2>1
  <2>2. CASE l # k
    BY <1>1, <2>2
  <2>. QED
    BY <2>1, <2>2
<1>5. Cardinality(Pool!Parked(more)) <= MaxParked
  <2>1. Pool!Parked(more) \subseteq Pool!Parked(slots) \cup {c}
    BY <1>4 DEF Pool!Parked, Pool!ToSet
  <2>2. IsFiniteSet(Pool!Parked(slots))
    BY <1>0, ParkedAreConns
  <2>3. Cardinality(Pool!Parked(slots)) < MaxParked
    BY PoolSets DEF Pool!Room
  <2>4. /\ IsFiniteSet(Pool!Parked(slots) \cup {c}) /\ Cardinality(Pool!Parked(slots)) \in Nat
        /\ Cardinality(Pool!Parked(slots) \cup {c}) = Cardinality(Pool!Parked(slots)) + 1
    BY <2>2, FS_AddElement, FS_CardinalityType
  <2>5. /\ Cardinality(Pool!Parked(more)) <= Cardinality(Pool!Parked(slots) \cup {c})
        /\ Cardinality(Pool!Parked(more)) \in Nat
    BY <2>1, <2>4, FewerParked
  <2>. QED
    BY <2>3, <2>4, <2>5
<1>6. \A l \in Pool!Keys : \A i \in DOMAIN slots[l] : slots[l][i] # c
  BY DEF Pool!Parked, Pool!ToSet
<1>7. ASSUME NEW l \in Pool!Keys, NEW m \in Pool!Keys, NEW i \in DOMAIN more[l],
             NEW j \in DOMAIN more[m], more[l][i] = more[m][j]
      PROVE  l = m /\ i = j
  <2>1. \A a \in DOMAIN slots[l], b \in DOMAIN slots[m] :
          slots[l][a] = slots[m][b] => l = m /\ a = b
    BY Zenon DEF SlotsOK
  <2>. QED
    BY <1>4, <1>6, <1>7, <2>1
<1>8. \A l \in Pool!Keys : \A i \in DOMAIN more[l] :
        conn[more[l][i]].carried \subseteq {[cred |-> l.cred, value |-> l.generation]}
  <2>1. \A l \in Pool!Keys : \A i \in DOMAIN slots[l] :
          conn[slots[l][i]].carried \subseteq {[cred |-> l.cred, value |-> l.generation]}
    BY Zenon DEF SlotsOK
  <2>. QED
    BY <1>4, <2>1
<1>. QED
  <2>1. \A l \in Pool!Keys : \A i \in DOMAIN more[l] :
          more[l][i] = c \/ (i \in DOMAIN slots[l] /\ more[l][i] = slots[l][i])
    BY <1>4
  <2>2. \A l, m \in Pool!Keys : \A i \in DOMAIN more[l], j \in DOMAIN more[m] :
          more[l][i] = more[m][j] => l = m /\ i = j
    BY <1>7
  <2>. QED
    BY <1>1, <1>3, <1>5, <1>8, <2>1, <2>2 DEF Grown, more

LEMMA PoolPark ==
  ASSUME Pool!Inv, NEW r \in Reqs, Pool!Park(r) PROVE Pool!Inv'
<1>. USE PoolNames
<1>0. PoolParts
  BY PartsOfInv
<1>00. /\ at[r] = "parking" /\ UNCHANGED <<gen, value, key, reused, conn, applied>>
       /\ on' = [on EXCEPT ![r] = Pool!None] /\ at' = [at EXCEPT ![r] = "done"]
  BY DEF Pool!Park, Pool!Goes, Pool!LetGo
<1>. DEFINE k == key[r]
            c == on[r]
<1>01. /\ k = [cred |-> Cred[r], generation |-> value[r]] /\ k \in Pool!Keys
       /\ c \in Conns /\ conn[c].carried \subseteq {[cred |-> k.cred, value |-> k.generation]}
  BY <1>0, <1>00 DEF PoolParts, PoolTypes, Pool!KeyedByItsOwn, Pool!Keyed, Pool!Keys,
                     Pool!RidesWhenAt, Pool!Riding, Pool!CarriesItsOwn
<1>02. PICK old \in Pool!Ages :
         idle' = IF Pool!Room(Pool!Swept(old), k)
                   THEN [Pool!Swept(old) EXCEPT ![k] = Append(@, c)] ELSE Pool!Swept(old)
  BY DEF Pool!Park
<1>. DEFINE slots == Pool!Swept(old)
<1>03. SlotsOK(slots) /\ c \notin Pool!Parked(slots)
  <2>1. SlotsOK(slots)
    BY SweptSlots
  <2>. QED
    BY <2>1 DEF SlotsOK, Pool!Parked, Pool!ToSet
<1>. HIDE DEF k, c, slots
<1>04. \A o \in Reqs : o # r => on'[o] = on[o] /\ (on[o] # c \/ on[o] = Pool!None)
  BY <1>0, <1>00, <1>01 DEF PoolParts, PoolTypes, Pool!RidesAlone, c
<1>05. on'[r] = Pool!None
  BY <1>0, <1>00 DEF PoolParts, PoolTypes
<1>1. PoolTypes'
  BY <1>0, <1>00 DEF PoolParts, PoolTypes
<1>2. SlotsOK(idle)'
  <2>1. \A o \in Reqs, l \in Pool!Keys : \A i \in DOMAIN slots[l] : slots[l][i] # on'[o]
    <3>1. \A l \in Pool!Keys : \A i \in DOMAIN slots[l] : slots[l][i] \in Conns
      BY <1>03 DEF SlotsOK
    <3>. QED
      BY <1>03, <1>04, <1>05, <3>1 DEF SlotsOK
  <2>2. CASE idle' = slots
    BY <1>00, <1>03, <2>1, <2>2 DEF SlotsOK, Pool!Parked
  <2>3. CASE Pool!Room(slots, k) /\ idle' = [slots EXCEPT ![k] = Append(@, c)]
    <3>1. Grown(idle', slots, c)
      BY <1>01, <1>03, <2>3, AppendedSlots
    <3>2. \A o \in Reqs : on'[o] # c
      BY <1>01, <1>04, <1>05
    <3>3. \A o \in Reqs, l \in Pool!Keys : \A i \in DOMAIN idle'[l] : idle'[l][i] # on'[o]
      BY <2>1, <3>1, <3>2 DEF Grown
    <3>. QED
      BY <1>00, <3>1, <3>3 DEF SlotsOK, Pool!Parked, Grown
  <2>. QED
    BY <1>02, <2>2, <2>3 DEF slots
<1>3. Pool!KeyedByItsOwn' /\ Pool!RidesWhenAt' /\ Pool!RidesAlone'
  BY <1>0, <1>00 DEF PoolParts, PoolTypes, Pool!KeyedByItsOwn, Pool!RidesWhenAt, Pool!RidesAlone,
                     Pool!Riding, Pool!Keyed
<1>4. Pool!SentIsAwaited' /\ Pool!AnswerIsRead'
  BY <1>0, <1>00, SentByRequests DEF PoolParts, PoolTypes, Pool!SentIsAwaited, Pool!AnswerIsRead
<1>5. Pool!CarriesItsOwn' /\ Pool!GuardKept'
  BY <1>0, <1>00 DEF PoolParts, PoolTypes, Pool!CarriesItsOwn, Pool!GuardKept
<1>6. Pool!TakenCounted' /\ Pool!AppliedOnce'
  BY <1>0, <1>00 DEF PoolParts, PoolTypes, Pool!TakenCounted, Pool!Taken, Pool!TakenBefore,
                     Pool!AppliedOnce
<1>. QED
  BY <1>1, <1>2, <1>3, <1>4, <1>5, <1>6, InvOfParts DEF PoolParts

(* The upstream takes what was sent to it, or what was sent is lost.       *)
LEMMA PoolUpstream ==
  ASSUME Pool!Inv, NEW c \in Conns, Pool!Apply(c) \/ Pool!CloseUp(c) PROVE Pool!Inv'
<1>. DEFINE r == conn[c].sent
<1>. USE PoolNames
<1>0. PoolParts
  BY PartsOfInv
<1>00. UNCHANGED <<gen, at, value, key, on, reused, idle>>
  BY DEF Pool!Apply, Pool!CloseUp
<1>01. /\ conn \in [Conns -> Pool!Connections] /\ conn[c] \in Pool!Connections
       /\ r \in Reqs \cup {Pool!None} /\ applied \in [Reqs -> Nat]
  BY <1>0 DEF PoolParts, PoolTypes, Pool!Connections
<1>02. /\ applied' = applied \/ (r \in Reqs /\ applied' = [applied EXCEPT ![r] = @ + 1])
       /\ \/ r \in Reqs /\ conn' = [conn EXCEPT ![c].answer = r, ![c].sent = Pool!None]
          \/ conn' = [conn EXCEPT ![c].up = FALSE, ![c].sent = Pool!None]
  <2>1. CASE Pool!Apply(c)
    BY <1>01, <2>1 DEF Pool!Apply
  <2>2. CASE Pool!CloseUp(c)
    BY <2>2 DEF Pool!CloseUp
  <2>. QED
    BY <2>1, <2>2
<1>03. /\ conn' \in [Conns -> Pool!Connections] /\ \A d \in Conns : d # c => conn'[d] = conn[d]
       /\ conn'[c].peer = conn[c].peer /\ conn'[c].carried = conn[c].carried
       /\ conn'[c].sent = Pool!None
       /\ conn'[c].answer = conn[c].answer \/ (r \in Reqs /\ conn'[c].answer = r)
  <2>1. CASE r \in Reqs /\ conn' = [conn EXCEPT ![c].answer = r, ![c].sent = Pool!None]
    BY <1>01, <2>1 DEF Pool!Connections
  <2>2. CASE conn' = [conn EXCEPT ![c].up = FALSE, ![c].sent = Pool!None]
    BY <1>01, <2>2 DEF Pool!Connections
  <2>. QED
    BY <1>02, <2>1, <2>2
<1>. HIDE DEF r
<1>04. r \in Reqs => at[r] = "awaiting" /\ on[r] = c
  BY <1>0 DEF PoolParts, Pool!SentIsAwaited, r
<1>1. PoolTypes'
  <2>1. applied' \in [Reqs -> Nat]
    <3>1. CASE applied' = applied
      BY <1>01, <3>1
    <3>2. CASE r \in Reqs /\ applied' = [applied EXCEPT ![r] = @ + 1]
      BY <1>01, <3>2
    <3>. QED
      BY <1>02, <3>1, <3>2
  <2>. QED
    BY <1>0, <1>00, <1>03, <2>1 DEF PoolParts, PoolTypes
<1>2. SlotsOK(idle)'
  <2>1. Pool!Parked(idle) \subseteq Conns
    BY <1>0, ParkedAreConns DEF PoolParts, SlotsOK
  <2>. QED
    BY <1>0, <1>00, <1>03, <2>1, SlotsLeftAlone DEF PoolParts, PoolTypes
<1>3. Pool!KeyedByItsOwn' /\ Pool!RidesWhenAt' /\ Pool!RidesAlone'
  BY <1>0, <1>00 DEF PoolParts, Pool!KeyedByItsOwn, Pool!RidesWhenAt, Pool!RidesAlone
<1>4. Pool!SentIsAwaited' /\ Pool!AnswerIsRead'
  BY <1>0, <1>00, <1>03, <1>04 DEF PoolParts, Pool!SentIsAwaited, Pool!AnswerIsRead
<1>5. Pool!CarriesItsOwn' /\ Pool!GuardKept'
  BY <1>0, <1>00, <1>03 DEF PoolParts, PoolTypes, Pool!CarriesItsOwn, Pool!GuardKept
<1>6. ASSUME NEW o \in Reqs
      PROVE  /\ Pool!Taken(o)'
             /\ applied'[o] <= IF o \in Idempotent THEN 2 ELSE 1
  <2>0. /\ Pool!Taken(o) /\ applied[o] <= IF o \in Idempotent THEN 2 ELSE 1
        /\ applied[o] \in Nat /\ at'[o] = at[o] /\ on'[o] = on[o]
    BY <1>0, <1>00 DEF PoolParts, PoolTypes, Pool!TakenCounted, Pool!AppliedOnce
  <2>1. Pool!TakenBefore(o)' = Pool!TakenBefore(o) /\ Pool!TakenBefore(o) \in Nat
        /\ Pool!TakenBefore(o) + 1 <= IF o \in Idempotent THEN 2 ELSE 1
    BY <1>00 DEF Pool!TakenBefore
  <2>2. CASE o = r
    <3>1. applied[o] <= Pool!TakenBefore(o) /\ at[o] = "awaiting" /\ on[o] = c
      BY <1>04, <2>0, <2>1, <2>2 DEF Pool!Taken, r
    <3>2. applied'[o] = applied[o] \/ applied'[o] = applied[o] + 1
      BY <1>01, <1>02, <2>2
    <3>3. conn'[on'[o]].sent # o
      BY <1>03, <2>0, <3>1
    <3>. QED
      BY <2>0, <2>1, <3>1, <3>2, <3>3 DEF Pool!Taken
  <2>3. CASE o # r
    <3>1. applied'[o] = applied[o] /\ reused'[o] = reused[o]
      BY <1>00, <1>01, <1>02, <2>3
    <3>2. at[o] = "awaiting" => on[o] \in Conns
      BY <1>0 DEF PoolParts, PoolTypes, Pool!RidesWhenAt, Pool!Riding
    <3>3. at[o] = "awaiting" => (conn'[on'[o]].sent = o => conn[on[o]].sent = o)
      BY <1>03, <2>0, <3>2
    <3>4. at[o] = "awaiting" => applied[o] <= Pool!TakenBefore(o) + IF conn'[on'[o]].sent = o THEN 0 ELSE 1
      BY <2>0, <2>1, <3>3 DEF Pool!Taken
    <3>. QED
      BY <2>0, <2>1, <3>1, <3>4 DEF Pool!Taken
  <2>. QED
    BY <2>2, <2>3
<1>. QED
  BY <1>1, <1>2, <1>3, <1>4, <1>5, <1>6, InvOfParts DEF PoolParts, Pool!TakenCounted, Pool!AppliedOnce

LEMMA PoolInit == Pool!Init => Pool!Inv
<1>. SUFFICES ASSUME Pool!Init PROVE Pool!Inv
  OBVIOUS
<1>. USE PoolNames DEF Pool!Init
<1>1. Pool!Unopened \in Pool!Connections
  BY DEF Pool!Unopened, Pool!Connections
<1>2. \A k \in Pool!Keys : idle[k] = << >> /\ DOMAIN idle[k] = {}
  OBVIOUS
<1>3. Pool!Cardinality(Pool!Waiting) = 0
  <2>1. Pool!Waiting = {}
    BY <1>2 DEF Pool!Waiting, Pool!Parked, Pool!ToSet
  <2>. QED
    BY <2>1, PoolSets, FS_EmptySet
<1>4. Pool!TypeOK
  BY <1>2, <1>3 DEF Pool!TypeOK
<1>5. Pool!Kinds
  BY <1>1, <1>4 DEF Pool!Kinds
<1>6. /\ Pool!KeyedByItsOwn /\ Pool!RidesWhenAt /\ Pool!RidesAlone
      /\ Pool!CarriesItsOwn /\ Pool!GuardKept
  BY DEF Pool!KeyedByItsOwn, Pool!RidesWhenAt, Pool!RidesAlone, Pool!Keyed, Pool!Riding,
         Pool!CarriesItsOwn, Pool!GuardKept
<1>7. Pool!ParkedOrRidden /\ Pool!ParkedInOnePlace /\ Pool!CarriesItsKey
  BY <1>2 DEF Pool!ParkedOrRidden, Pool!ParkedInOnePlace, Pool!CarriesItsKey
<1>8. Pool!SentIsAwaited /\ Pool!AnswerIsRead
  BY DEF Pool!SentIsAwaited, Pool!AnswerIsRead, Pool!Unopened
<1>9. Pool!TakenCounted /\ Pool!AppliedOnce
  BY DEF Pool!TakenCounted, Pool!Taken, Pool!AppliedOnce
<1>. QED
  BY <1>5, <1>6, <1>7, <1>8, <1>9 DEF Pool!Inv

LEMMA PoolStep == Pool!Inv /\ [Pool!Next]_(Pool!vars) => Pool!Inv'
<1>. SUFFICES ASSUME Pool!Inv, [Pool!Next]_(Pool!vars) PROVE Pool!Inv'
  OBVIOUS
<1>1. CASE UNCHANGED Pool!vars
  <2>0. PoolParts
    BY PartsOfInv
  <2>1. PoolTypes' /\ SlotsOK(idle)'
    BY <1>1, <2>0 DEF PoolParts, PoolTypes, SlotsOK, Pool!Parked, Pool!vars
  <2>2. /\ Pool!KeyedByItsOwn' /\ Pool!RidesWhenAt' /\ Pool!RidesAlone'
        /\ Pool!SentIsAwaited' /\ Pool!AnswerIsRead' /\ Pool!CarriesItsOwn' /\ Pool!GuardKept'
    BY <1>1, <2>0 DEF PoolParts, Pool!vars, Pool!KeyedByItsOwn, Pool!RidesWhenAt, Pool!RidesAlone,
                      Pool!SentIsAwaited, Pool!AnswerIsRead, Pool!CarriesItsOwn, Pool!GuardKept
  <2>3. Pool!TakenCounted' /\ Pool!AppliedOnce'
    BY <1>1, <2>0 DEF PoolParts, Pool!vars, Pool!TakenCounted, Pool!Taken, Pool!TakenBefore,
                      Pool!AppliedOnce
  <2>. QED
    BY <2>1, <2>2, <2>3, InvOfParts DEF PoolParts
<1>2. CASE Pool!Replace
  BY <1>2, PoolReplace
<1>3. ASSUME NEW r \in Reqs,
             \/ Pool!Snapshot(r) \/ Pool!MakeKey(r) \/ Pool!CheckoutSweep(r) \/ Pool!Pop(r)
             \/ Pool!Refused(r) \/ Pool!Send(r) \/ Pool!Replay(r) \/ Pool!Lose(r)
             \/ Pool!Relay(r) \/ Pool!Park(r) \/ \E c \in Conns : Pool!Open(r, c)
      PROVE  Pool!Inv'
  BY <1>3, PoolSnapshot, PoolMakeKey, PoolCheckoutSweep, PoolPop, PoolRefused, PoolSend,
     PoolReplay, PoolLose, PoolRelay, PoolPark, PoolOpen
<1>4. ASSUME NEW c \in Conns, Pool!Apply(c) \/ Pool!CloseUp(c) PROVE Pool!Inv'
  BY <1>4, PoolUpstream
<1>. QED
  BY <1>1, <1>2, <1>3, <1>4 DEF Pool!Next

(* The pool's invariant holds throughout: a connection is one request's or *)
(* waits in one place, under the credentials it carried (UpstreamPool).    *)
THEOREM PoolInvariance == Pool!Spec => []Pool!Inv
  BY PoolInit, PoolStep, PTL DEF Pool!Spec

(* A connection is reused only by a request that might have opened it: it  *)
(* carried that request's credential values and no other, and leads where  *)
(* the request's own rule lets it go, whatever is replaced, parked, swept  *)
(* and closed meanwhile (UpstreamPool::checkout).                          *)
THEOREM ReusedAsOpened == Pool!Spec => []ReusedRightly
<1>1. Pool!Inv => ReusedRightly
  BY DEF Pool!Inv, ReusedRightly
<1>. QED
  BY <1>1, PoolInvariance, PTL

(* A request that is not idempotent is taken by an upstream at most once,  *)
(* any other at most twice, wherever its connection is lost                *)
(* (the replay of proxy/forward.rs).                                       *)
THEOREM TakenOnce == Pool!Spec => []AppliedOnce
<1>1. Pool!Inv => AppliedOnce
  BY DEF Pool!Inv, AppliedOnce
<1>. QED
  BY <1>1, PoolInvariance, PTL

-----------------------------------------------------------------------------
(* The ring of events: what it holds, what the cap took, and the numbers.  *)

LEMMA LogConstants ==
  /\ Cap \in Nat /\ Cap >= 1 /\ MaxPushes \in Nat /\ MaxAmends \in Nat
  /\ Codes \subseteq Nat /\ 0 \notin Codes
  BY BoundsAssumption, CodesAssumption

(* A ring gets a new entry, and loses its first one when it is full.       *)
RingWith(ring, T, s, x) ==
  /\ ring \in Seq(T) /\ Len(ring) = Len(s) + 1
  /\ \A i \in 1 .. Len(s) + 1 : ring[i] = IF i = Len(s) + 1 THEN x ELSE s[i]
  /\ Len(s) # 0 =>
       /\ Head(ring) = s[1] /\ Tail(ring) \in Seq(T) /\ Len(Tail(ring)) = Len(s)
       /\ \A i \in 1 .. Len(s) : Tail(ring)[i] = IF i = Len(s) THEN x ELSE s[i + 1]

LEMMA RingPushed ==
  ASSUME NEW T, NEW s \in Seq(T), NEW x \in T
  PROVE  RingWith(Append(s, x), T, s, x)
<1>. DEFINE ring == Append(s, x)
<1>1. /\ ring \in Seq(T) /\ Len(ring) = Len(s) + 1 /\ Len(s) \in Nat
      /\ \A i \in 1 .. Len(s) + 1 : ring[i] = IF i = Len(s) + 1 THEN x ELSE s[i]
  OBVIOUS
<1>. HIDE DEF ring
<1>2. ASSUME Len(s) # 0
      PROVE  /\ Head(ring) = ring[1] /\ Tail(ring) \in Seq(T) /\ Len(Tail(ring)) = Len(s)
             /\ \A i \in 1 .. Len(s) : Tail(ring)[i] = ring[i + 1]
  <2>1. ring # << >>
    BY <1>1
  <2>. QED
    BY <1>1, <2>1
<1>3. ASSUME Len(s) # 0
      PROVE  /\ Head(ring) = s[1]
             /\ \A i \in 1 .. Len(s) : Tail(ring)[i] = IF i = Len(s) THEN x ELSE s[i + 1]
  BY <1>1, <1>2, <1>3
<1>. QED
  BY <1>1, <1>2, <1>3 DEF ring, RingWith

(* What the cap took of the numbers of one ring, counted and bounded.      *)
Counted(all, held, count, high) ==
  /\ count = Cardinality(all \ held)
  /\ high # 0 => high \in all \ held
  /\ \A s \in all \ held : s <= high
  /\ \A s \in held : high < s

LEMMA CountedGrows ==
  ASSUME NEW all \in SUBSET Nat, NEW held \in SUBSET all, NEW n \in Nat, n \notin all,
         NEW count, NEW high \in Nat, high < n, Counted(all, held, count, high)
  PROVE  Counted(all \cup {n}, held \cup {n}, count, high)
<1>1. (all \cup {n}) \ (held \cup {n}) = all \ held
  OBVIOUS
<1>. QED
  BY <1>1 DEF Counted

LEMMA CountedEvicts ==
  ASSUME NEW all \in SUBSET Nat, NEW held \in SUBSET all, NEW n \in Nat, n \notin all,
         NEW count \in Nat, NEW high \in Nat, NEW o \in held, o < n,
         \A s \in held : o <= s, IsFiniteSet(all), Counted(all, held, count, high)
  PROVE  Counted(all \cup {n}, (held \ {o}) \cup {n}, count + 1, o)
<1>1. (all \cup {n}) \ ((held \ {o}) \cup {n}) = (all \ held) \cup {o} /\ o \notin all \ held
  OBVIOUS
<1>2. Cardinality((all \ held) \cup {o}) = count + 1
  <2>1. IsFiniteSet(all \ held)
    BY FS_Subset
  <2>2. Cardinality((all \ held) \cup {o}) = Cardinality(all \ held) + 1
    BY <1>1, <2>1, FS_AddElement
  <2>. QED
    BY <2>2 DEF Counted
<1>3. \A s \in (all \ held) \cup {o} : s <= o
  <2>1. high < o /\ o \in Nat
    BY DEF Counted
  <2>. QED
    BY <2>1 DEF Counted
<1>4. \A s \in (held \ {o}) \cup {n} : o < s
  BY o \in Nat
<1>. QED
  BY <1>1, <1>2, <1>3, <1>4 DEF Counted

LEMMA HeldBySeq == ASSUME NEW s \in Seq(Entries)
                   PROVE  {e.seq : e \in Range(s)} = {s[i].seq : i \in DOMAIN s}
  BY DEF Range

LEMMA NumbersAreFinite ==
  ASSUME Inv
  PROVE  /\ nextSeq \in Nat /\ nextSeq >= 1 /\ Given \subseteq Nat /\ IsFiniteSet(Given)
         /\ Cardinality(Given) = nextSeq - 1 /\ nextSeq \notin Given
         /\ IsFiniteSet(main) /\ IsFiniteSet(Refusals)
         /\ main \subseteq Given /\ Refusals \subseteq Given
<1>1. nextSeq \in Nat /\ nextSeq >= 1
  BY LogConstants DEF Inv, Kinds
<1>2. IsFiniteSet(Given) /\ Cardinality(Given) = nextSeq - 1
  BY <1>1, FS_Interval DEF Given
<1>3. main \subseteq Given /\ Refusals \subseteq Given
  BY DEF Inv, NumbersGiven, Refusals
<1>4. IsFiniteSet(main) /\ IsFiniteSet(Refusals)
  BY <1>2, <1>3, FS_Subset
<1>. QED
  BY <1>1, <1>2, <1>3, <1>4 DEF Given

(* The numbers held, and those of the refusals, with the invariant's facts *)
(* as the counting wants them.                                             *)
LEMMA CountedNow ==
  ASSUME Inv
  PROVE  /\ Counted(main, Held, evicted, evictedHigh)
         /\ Counted(Refusals, Range(muted), mutedEvicted, mutedHigh)
         /\ Held \subseteq main /\ Range(muted) \subseteq Refusals
         /\ evictedHigh \in Nat /\ evictedHigh < nextSeq
         /\ mutedHigh \in Nat /\ mutedHigh < nextSeq
         /\ evicted \in Nat /\ mutedEvicted \in Nat
<1>0. /\ events \in Seq(Entries) /\ muted \in Seq(Nat) /\ nextSeq \in Nat /\ nextSeq >= 1
      /\ evictedHigh \in Nat /\ mutedHigh \in Nat /\ evicted \in Nat /\ mutedEvicted \in Nat
  BY LogConstants DEF Inv, Kinds
<1>1. Held \subseteq main /\ Range(muted) \subseteq Refusals
  <2>1. Held = {events[i].seq : i \in DOMAIN events}
    BY <1>0, HeldBySeq DEF Held
  <2>. QED
    BY <2>1 DEF Inv, NumbersGiven, Range
<1>2. /\ Counted(main, Held, evicted, evictedHigh)
      /\ Counted(Refusals, Range(muted), mutedEvicted, mutedHigh)
  BY DEF Inv, EvictedCounted, MutedCounted, Counted
<1>3. evictedHigh < nextSeq /\ mutedHigh < nextSeq
  <2>1. evictedHigh # 0 => evictedHigh \in Given
    BY NumbersAreFinite DEF Inv, EvictedCounted
  <2>2. mutedHigh # 0 => mutedHigh \in Given
    BY NumbersAreFinite DEF Inv, MutedCounted
  <2>. QED
    BY <1>0, <2>1, <2>2 DEF Given
<1>. QED
  BY <1>0, <1>1, <1>2, <1>3

LEMMA LogPush == ASSUME Inv, Push PROVE Inv'
<1>. DEFINE new  == [seq |-> nextSeq, facts |-> NoFacts, amend |-> 0, awaiting |-> FALSE]
            ring == Append(events, new)
            L    == Len(events)
<1>. USE LogConstants
<1>0. /\ nextSeq <= MaxPushes /\ nextSeq' = nextSeq + 1 /\ main' = main \cup {nextSeq}
      /\ events' = IF Over(ring) THEN Tail(ring) ELSE ring
      /\ evicted' = IF Over(ring) THEN evicted + 1 ELSE evicted
      /\ evictedHigh' = IF Over(ring) THEN Head(ring).seq ELSE evictedHigh
      /\ UNCHANGED <<nextAmend, muted, mutedEvicted, mutedHigh, cursor, amendCursor, view>>
  BY DEF Push, readVars
<1>1. /\ events \in Seq(Entries) /\ L \in Nat /\ L <= Cap /\ DOMAIN events = 1 .. L
      /\ nextSeq \in Nat /\ nextSeq >= 1
  BY DEF Inv, Kinds
<1>2. new \in Entries
  BY <1>1 DEF Entries, Facts, NoFacts
<1>. HIDE DEF new
<1>3. /\ ring \in Seq(Entries) /\ Len(ring) = L + 1
      /\ \A i \in 1 .. L + 1 : ring[i] = IF i = L + 1 THEN new ELSE events[i]
      /\ L # 0 => /\ Head(ring) = events[1] /\ Tail(ring) \in Seq(Entries) /\ Len(Tail(ring)) = L
                  /\ \A i \in 1 .. L : Tail(ring)[i] = IF i = L THEN new ELSE events[i + 1]
  <2>1. RingWith(ring, Entries, events, new)
    BY <1>1, <1>2, RingPushed
  <2>. QED
    BY <2>1, Zenon DEF RingWith
<1>. HIDE DEF ring, L
<1>4. (Over(ring) => L = Cap) /\ (~Over(ring) => L + 1 <= Cap)
  BY <1>1, <1>3 DEF Over
<1>5. new.seq = nextSeq /\ new.amend = 0 /\ new.facts = NoFacts /\ new.awaiting = FALSE
  BY DEF new
<1>6. PICK d \in {0, 1} :
        /\ d = 1 <=> Over(ring)
        /\ d <= L
        /\ events' \in Seq(Entries) /\ Len(events') = L + 1 - d /\ Len(events') <= Cap
        /\ \A i \in 1 .. L + 1 - d : events'[i] = IF i = L + 1 - d THEN new ELSE events[i + d]
  <2>1. CASE Over(ring)
    <3>1. L # 0 /\ events' = Tail(ring)
      BY <1>0, <1>1, <1>4, <2>1
    <3>2. /\ 1 \in {0, 1} /\ (1 = 1 <=> Over(ring)) /\ 1 <= L
          /\ events' \in Seq(Entries) /\ Len(events') = L + 1 - 1 /\ Len(events') <= Cap
          /\ \A i \in 1 .. L + 1 - 1 : events'[i] = IF i = L + 1 - 1 THEN new ELSE events[i + 1]
      BY <1>1, <1>3, <2>1, <3>1
    <3>. QED
      BY <3>2
  <2>2. CASE ~Over(ring)
    <3>1. events' = ring /\ L + 1 <= Cap
      BY <1>0, <1>1, <1>4, <2>2
    <3>2. /\ 0 \in {0, 1} /\ (0 = 1 <=> Over(ring)) /\ 0 <= L
          /\ events' \in Seq(Entries) /\ Len(events') = L + 1 - 0 /\ Len(events') <= Cap
          /\ \A i \in 1 .. L + 1 - 0 : events'[i] = IF i = L + 1 - 0 THEN new ELSE events[i + 0]
      BY <1>1, <1>3, <2>2, <3>1
    <3>. QED
      BY <3>2
  <2>. QED
    BY <2>1, <2>2
<1>7. DOMAIN events' = 1 .. L + 1 - d
  BY <1>6
<1>8. \A i \in DOMAIN events' :
        \/ i = L + 1 - d /\ events'[i] = new
        \/ i < L + 1 - d /\ i + d \in DOMAIN events /\ events'[i] = events[i + d]
  BY <1>1, <1>6, <1>7
<1>9. /\ \A i \in DOMAIN events : events[i].seq \in main /\ events[i].amend < nextAmend
      /\ \A i \in DOMAIN events : events[i].seq \in Nat /\ events[i].seq < nextSeq
      /\ nextAmend \in Nat /\ nextAmend > 0 /\ main \subseteq Given
  <2>1. /\ \A i \in DOMAIN events : events[i].seq \in main /\ events[i].amend < nextAmend
        /\ main \subseteq Given
    BY DEF Inv, NumbersGiven
  <2>2. \A i \in DOMAIN events : events[i].seq \in Nat /\ events[i].seq < nextSeq
    <3>1. \A x \in Given : x \in Nat /\ x < nextSeq
      BY <1>1 DEF Given
    <3>. QED
      BY <2>1, <3>1
  <2>3. nextAmend \in Nat /\ nextAmend > 0
    BY DEF Inv, Kinds
  <2>. QED
    BY <2>1, <2>2, <2>3
<1>10. Kinds'
  <2>1. DOMAIN view \subseteq 1 .. nextSeq
    BY <1>1 DEF Inv, Kinds
  <2>2. evicted' \in Nat /\ evictedHigh' \in Nat
    <3>1. CASE Over(ring)
      <4>1. L # 0 /\ 1 \in DOMAIN events /\ evicted \in Nat
        BY <1>1, <1>4, <3>1 DEF Inv, Kinds
      <4>. QED
        BY <1>0, <1>3, <1>9, <3>1, <4>1
    <3>2. CASE ~Over(ring)
      BY <1>0, <3>2 DEF Inv, Kinds
    <3>. QED
      BY <3>1, <3>2
  <2>. QED
    BY <1>0, <1>1, <1>6, <2>1, <2>2 DEF Inv, Kinds
<1>11. NumbersGiven' /\ Refusals' = Refusals
  <2>1. Refusals' = Refusals
    BY <1>0, <1>1, <1>9 DEF Refusals, Given
  <2>2. main' \subseteq Given'
    BY <1>0, <1>1, <1>9 DEF Given
  <2>3. \A i \in DOMAIN events' : events'[i].seq \in main' /\ events'[i].amend < nextAmend'
    BY <1>0, <1>5, <1>8, <1>9
  <2>. QED
    BY <1>0, <2>1, <2>2, <2>3 DEF Inv, NumbersGiven
<1>12. OldestFirst'
  <2>1. ASSUME NEW i \in DOMAIN events', NEW j \in DOMAIN events', i < j
        PROVE  events'[i].seq < events'[j].seq
    <3>1. i \in Nat /\ j \in Nat
      BY <1>7
    <3>2. i < L + 1 - d /\ i + d \in DOMAIN events /\ events'[i] = events[i + d]
      BY <1>1, <1>7, <1>8, <2>1, <3>1
    <3>3. CASE events'[j] = new
      BY <1>5, <1>9, <3>2, <3>3
    <3>4. CASE j + d \in DOMAIN events /\ events'[j] = events[j + d]
      <4>1. i + d < j + d
        BY <2>1, <3>1
      <4>. QED
        BY <3>2, <3>4, <4>1 DEF Inv, OldestFirst
    <3>. QED
      BY <1>8, <3>3, <3>4
  <2>. QED
    BY <1>0, <2>1 DEF Inv, OldestFirst
<1>13. Held = {events[i].seq : i \in DOMAIN events} /\ Held' = {events'[i].seq : i \in DOMAIN events'}
  BY <1>1, <1>6, HeldBySeq DEF Held
<1>14. EvictedCounted'
  <2>0. /\ Counted(main, Held, evicted, evictedHigh) /\ Held \subseteq main
        /\ evictedHigh \in Nat /\ evictedHigh < nextSeq /\ evicted \in Nat
        /\ main \subseteq Nat /\ nextSeq \notin main /\ IsFiniteSet(main)
    BY CountedNow, NumbersAreFinite
  <2>1. CASE Over(ring)
    <3>. DEFINE o == events[1].seq
    <3>1. d = 1 /\ L >= 1
      BY <1>1, <1>4, <1>6, <2>1
    <3>2. evicted' = evicted + 1 /\ evictedHigh' = o /\ 1 \in DOMAIN events /\ o \in Held /\ o < nextSeq
      BY <1>0, <1>1, <1>3, <1>9, <1>13, <2>1, <3>1
    <3>3. \A i \in DOMAIN events : i # 1 => o < events[i].seq
      BY <1>1, <3>2 DEF Inv, OldestFirst
    <3>4. \A s \in Held : o <= s
      BY <1>9, <1>13, <3>2, <3>3
    <3>5. Held' = (Held \ {o}) \cup {nextSeq}
      <4>1. ASSUME NEW s \in Held' PROVE s \in (Held \ {o}) \cup {nextSeq}
        <5>1. PICK i \in DOMAIN events' : s = events'[i].seq
          BY <1>13
        <5>2. CASE events'[i] = new
          BY <1>5, <5>1, <5>2
        <5>3. CASE i + d \in DOMAIN events /\ events'[i] = events[i + d]
          <6>1. i + d # 1
            BY <1>7, <3>1
          <6>. QED
            BY <1>9, <1>13, <3>2, <3>3, <5>1, <5>3, <6>1
        <5>. QED
          BY <1>8, <5>2, <5>3
      <4>2. nextSeq \in Held'
        <5>1. L + 1 - d \in DOMAIN events' /\ events'[L + 1 - d] = new
          BY <1>1, <1>6, <1>7, <3>1
        <5>. QED
          BY <1>5, <1>13, <5>1
      <4>3. ASSUME NEW s \in Held \ {o} PROVE s \in Held'
        <5>1. PICK i \in DOMAIN events : s = events[i].seq
          BY <1>13
        <5>2. i # 1
          BY <5>1
        <5>3. i - 1 \in DOMAIN events' /\ events'[i - 1] = events[i]
          BY <1>1, <1>6, <1>7, <3>1, <5>2
        <5>. QED
          BY <1>13, <5>1, <5>3
      <4>. QED
        BY <4>1, <4>2, <4>3
    <3>. HIDE DEF o
    <3>6. Counted(main \cup {nextSeq}, (Held \ {o}) \cup {nextSeq}, evicted + 1, o)
      BY <1>1, <2>0, <3>2, <3>4, CountedEvicts
    <3>. QED
      BY <1>0, <3>2, <3>5, <3>6 DEF EvictedCounted, Counted
  <2>2. CASE ~Over(ring)
    <3>1. d = 0 /\ evicted' = evicted /\ evictedHigh' = evictedHigh
      BY <1>0, <1>6, <2>2
    <3>2. Held' = Held \cup {nextSeq}
      <4>1. Held' \subseteq Held \cup {nextSeq}
        BY <1>1, <1>5, <1>8, <1>13, <3>1
      <4>2. nextSeq \in Held'
        <5>1. L + 1 - d \in DOMAIN events' /\ events'[L + 1 - d] = new
          BY <1>1, <1>6, <1>7, <3>1
        <5>. QED
          BY <1>5, <1>13, <5>1
      <4>3. ASSUME NEW i \in DOMAIN events PROVE i \in DOMAIN events' /\ events'[i] = events[i]
        BY <1>1, <1>6, <1>7, <3>1
      <4>4. Held \subseteq Held'
        BY <1>13, <4>3
      <4>. QED
        BY <4>1, <4>2, <4>4
    <3>3. Counted(main \cup {nextSeq}, Held \cup {nextSeq}, evicted, evictedHigh)
      BY <1>1, <2>0, CountedGrows
    <3>. QED
      BY <1>0, <3>1, <3>2, <3>3 DEF EvictedCounted, Counted
  <2>. QED
    BY <2>1, <2>2
<1>15. MutedCounted'
  BY <1>0, <1>11 DEF Inv, MutedCounted
<1>16. ShownOrWaiting'
  <2>. SUFFICES ASSUME NEW i \in DOMAIN events', events'[i].seq <= cursor'
                PROVE  \/ /\ events'[i].seq \in DOMAIN view'
                          /\ view'[events'[i].seq] = events'[i].facts
                       \/ events'[i].amend > amendCursor'
                       \/ events'[i].awaiting /\ events'[i].facts.status # 0
    BY DEF ShownOrWaiting
  <2>1. cursor \in Nat /\ cursor < nextSeq
    BY <1>1 DEF Inv, Kinds
  <2>2. events'[i] # new
    BY <1>0, <1>1, <1>5, <2>1
  <2>3. i + d \in DOMAIN events /\ events'[i] = events[i + d]
    BY <1>8, <2>2
  <2>. QED
    BY <1>0, <2>3 DEF Inv, ShownOrWaiting
<1>. QED
  BY <1>10, <1>11, <1>12, <1>14, <1>15, <1>16 DEF Inv

LEMMA LogPushMuted == ASSUME Inv, PushMuted PROVE Inv'
<1>. DEFINE ring == Append(muted, nextSeq)
            L    == Len(muted)
<1>. USE LogConstants
<1>0. /\ nextSeq <= MaxPushes /\ nextSeq' = nextSeq + 1
      /\ muted' = IF Over(ring) THEN Tail(ring) ELSE ring
      /\ mutedEvicted' = IF Over(ring) THEN mutedEvicted + 1 ELSE mutedEvicted
      /\ mutedHigh' = IF Over(ring) THEN Head(ring) ELSE mutedHigh
      /\ UNCHANGED <<nextAmend, events, evicted, evictedHigh, main, cursor, amendCursor, view>>
  BY DEF PushMuted, readVars
<1>1. /\ muted \in Seq(Nat) /\ L \in Nat /\ L <= Cap /\ DOMAIN muted = 1 .. L
      /\ nextSeq \in Nat /\ nextSeq >= 1
  BY DEF Inv, Kinds
<1>3. /\ ring \in Seq(Nat) /\ Len(ring) = L + 1
      /\ \A i \in 1 .. L + 1 : ring[i] = IF i = L + 1 THEN nextSeq ELSE muted[i]
      /\ L # 0 => /\ Head(ring) = muted[1] /\ Tail(ring) \in Seq(Nat) /\ Len(Tail(ring)) = L
                  /\ \A i \in 1 .. L : Tail(ring)[i] = IF i = L THEN nextSeq ELSE muted[i + 1]
  <2>1. RingWith(ring, Nat, muted, nextSeq)
    BY <1>1, RingPushed
  <2>. QED
    BY <2>1, Zenon DEF RingWith
<1>. HIDE DEF ring, L
<1>4. (Over(ring) => L = Cap) /\ (~Over(ring) => L + 1 <= Cap)
  BY <1>1, <1>3 DEF Over
<1>6. PICK d \in {0, 1} :
        /\ d = 1 <=> Over(ring)
        /\ d <= L
        /\ muted' \in Seq(Nat) /\ Len(muted') = L + 1 - d /\ Len(muted') <= Cap
        /\ \A i \in 1 .. L + 1 - d : muted'[i] = IF i = L + 1 - d THEN nextSeq ELSE muted[i + d]
  <2>1. CASE Over(ring)
    <3>1. L # 0 /\ muted' = Tail(ring)
      BY <1>0, <1>1, <1>4, <2>1
    <3>2. /\ 1 \in {0, 1} /\ (1 = 1 <=> Over(ring)) /\ 1 <= L
          /\ muted' \in Seq(Nat) /\ Len(muted') = L + 1 - 1 /\ Len(muted') <= Cap
          /\ \A i \in 1 .. L + 1 - 1 : muted'[i] = IF i = L + 1 - 1 THEN nextSeq ELSE muted[i + 1]
      BY <1>1, <1>3, <2>1, <3>1
    <3>. QED
      BY <3>2
  <2>2. CASE ~Over(ring)
    <3>1. muted' = ring /\ L + 1 <= Cap
      BY <1>0, <1>1, <1>4, <2>2
    <3>2. /\ 0 \in {0, 1} /\ (0 = 1 <=> Over(ring)) /\ 0 <= L
          /\ muted' \in Seq(Nat) /\ Len(muted') = L + 1 - 0 /\ Len(muted') <= Cap
          /\ \A i \in 1 .. L + 1 - 0 : muted'[i] = IF i = L + 1 - 0 THEN nextSeq ELSE muted[i + 0]
      BY <1>1, <1>3, <2>2, <3>1
    <3>. QED
      BY <3>2
  <2>. QED
    BY <2>1, <2>2
<1>7. DOMAIN muted' = 1 .. L + 1 - d
  BY <1>6
<1>8. \A i \in DOMAIN muted' :
        \/ i = L + 1 - d /\ muted'[i] = nextSeq
        \/ i < L + 1 - d /\ i + d \in DOMAIN muted /\ muted'[i] = muted[i + d]
  <2>. SUFFICES ASSUME NEW i \in DOMAIN muted'
                PROVE  \/ i = L + 1 - d /\ muted'[i] = nextSeq
                       \/ i < L + 1 - d /\ i + d \in DOMAIN muted /\ muted'[i] = muted[i + d]
    OBVIOUS
  <2>1. i \in 1 .. L + 1 - d
    BY <1>7
  <2>2. CASE i = L + 1 - d
    BY <1>6, <2>1, <2>2
  <2>3. CASE i # L + 1 - d
    <3>1. i < L + 1 - d /\ i + d \in DOMAIN muted
      BY <1>1, <2>1, <2>3
    <3>. QED
      BY <1>6, <2>1, <2>3, <3>1
  <2>. QED
    BY <2>2, <2>3
<1>9. /\ \A i \in DOMAIN muted : muted[i] \in Refusals /\ muted[i] \in Nat /\ muted[i] < nextSeq
      /\ main \subseteq Given
  <2>1. (\A i \in DOMAIN muted : muted[i] \in Refusals) /\ main \subseteq Given
    BY DEF Inv, NumbersGiven
  <2>2. \A x \in Refusals : x \in Nat /\ x < nextSeq
    BY <1>1 DEF Given, Refusals
  <2>. QED
    BY <2>1, <2>2
<1>10. Kinds'
  <2>1. DOMAIN view \subseteq 1 .. nextSeq
    BY <1>1 DEF Inv, Kinds
  <2>2. mutedEvicted' \in Nat /\ mutedHigh' \in Nat
    <3>1. CASE Over(ring)
      <4>1. L # 0 /\ 1 \in DOMAIN muted /\ mutedEvicted \in Nat
        BY <1>1, <1>4, <3>1 DEF Inv, Kinds
      <4>. QED
        BY <1>0, <1>3, <1>9, <3>1, <4>1
    <3>2. CASE ~Over(ring)
      BY <1>0, <3>2 DEF Inv, Kinds
    <3>. QED
      BY <3>1, <3>2
  <2>. QED
    BY <1>0, <1>1, <1>6, <2>1, <2>2 DEF Inv, Kinds
<1>11. NumbersGiven' /\ Refusals' = Refusals \cup {nextSeq}
  <2>1. Refusals' = Refusals \cup {nextSeq}
    BY <1>0, <1>1, <1>9 DEF Refusals, Given
  <2>2. main' \subseteq Given'
    BY <1>0, <1>1, <1>9 DEF Given
  <2>3. \A i \in DOMAIN muted' : muted'[i] \in Refusals'
    BY <1>8, <1>9, <2>1
  <2>4. \A i \in DOMAIN events' : events'[i].seq \in main' /\ events'[i].amend < nextAmend'
    BY <1>0 DEF Inv, NumbersGiven
  <2>. QED
    BY <2>1, <2>2, <2>3, <2>4 DEF NumbersGiven
<1>12. OldestFirst'
  <2>1. ASSUME NEW i \in DOMAIN muted', NEW j \in DOMAIN muted', i < j
        PROVE  muted'[i] < muted'[j]
    <3>1. i \in Nat /\ j \in Nat
      BY <1>7
    <3>2. i < L + 1 - d /\ i + d \in DOMAIN muted /\ muted'[i] = muted[i + d]
      BY <1>1, <1>7, <1>8, <2>1, <3>1
    <3>3. CASE muted'[j] = nextSeq
      BY <1>9, <3>2, <3>3
    <3>4. CASE j + d \in DOMAIN muted /\ muted'[j] = muted[j + d]
      <4>1. i + d < j + d
        BY <2>1, <3>1
      <4>. QED
        BY <3>2, <3>4, <4>1 DEF Inv, OldestFirst
    <3>. QED
      BY <1>8, <3>3, <3>4
  <2>. QED
    BY <1>0, <2>1 DEF Inv, OldestFirst
<1>13. /\ Range(muted) = {muted[i] : i \in DOMAIN muted}
       /\ Range(muted') = {muted'[i] : i \in DOMAIN muted'}
  BY DEF Range
<1>14. MutedCounted'
  <2>0. /\ Counted(Refusals, Range(muted), mutedEvicted, mutedHigh) /\ Range(muted) \subseteq Refusals
        /\ mutedHigh \in Nat /\ mutedHigh < nextSeq /\ mutedEvicted \in Nat
        /\ Refusals \subseteq Nat /\ nextSeq \notin Refusals /\ IsFiniteSet(Refusals)
    BY CountedNow, NumbersAreFinite
  <2>1. CASE Over(ring)
    <3>. DEFINE o == muted[1]
    <3>1. d = 1 /\ L >= 1
      BY <1>1, <1>4, <1>6, <2>1
    <3>2. /\ mutedEvicted' = mutedEvicted + 1 /\ mutedHigh' = o /\ 1 \in DOMAIN muted
          /\ o \in Range(muted) /\ o < nextSeq
      BY <1>0, <1>1, <1>3, <1>9, <1>13, <2>1, <3>1
    <3>3. \A i \in DOMAIN muted : i # 1 => o < muted[i]
      BY <1>1, <3>2 DEF Inv, OldestFirst
    <3>4. \A s \in Range(muted) : o <= s
      BY <1>9, <1>13, <3>2, <3>3
    <3>5. Range(muted') = (Range(muted) \ {o}) \cup {nextSeq}
      <4>1. ASSUME NEW s \in Range(muted') PROVE s \in (Range(muted) \ {o}) \cup {nextSeq}
        <5>1. PICK i \in DOMAIN muted' : s = muted'[i]
          BY <1>13
        <5>3. CASE i + d \in DOMAIN muted /\ muted'[i] = muted[i + d]
          <6>1. i + d # 1
            BY <1>7, <3>1
          <6>. QED
            BY <1>9, <1>13, <3>2, <3>3, <5>1, <5>3, <6>1
        <5>. QED
          BY <1>8, <5>1, <5>3
      <4>2. nextSeq \in Range(muted')
        <5>1. L + 1 - d \in DOMAIN muted' /\ muted'[L + 1 - d] = nextSeq
          BY <1>1, <1>6, <1>7, <3>1
        <5>. QED
          BY <1>13, <5>1
      <4>3. ASSUME NEW s \in Range(muted) \ {o} PROVE s \in Range(muted')
        <5>1. PICK i \in DOMAIN muted : s = muted[i]
          BY <1>13
        <5>2. i # 1
          BY <5>1
        <5>3. i - 1 \in DOMAIN muted' /\ muted'[i - 1] = muted[i]
          <6>1. i - 1 \in 1 .. L + 1 - d /\ i - 1 # L + 1 - d /\ (i - 1) + d = i
            BY <1>1, <3>1, <5>2
          <6>. QED
            BY <1>6, <1>7, <6>1
        <5>. QED
          BY <1>13, <5>1, <5>3
      <4>. QED
        BY <4>1, <4>2, <4>3
    <3>. HIDE DEF o
    <3>6. Counted(Refusals \cup {nextSeq}, (Range(muted) \ {o}) \cup {nextSeq}, mutedEvicted + 1, o)
      BY <1>1, <2>0, <3>2, <3>4, CountedEvicts
    <3>. QED
      BY <1>11, <3>2, <3>5, <3>6 DEF MutedCounted, Counted
  <2>2. CASE ~Over(ring)
    <3>1. d = 0 /\ mutedEvicted' = mutedEvicted /\ mutedHigh' = mutedHigh
      BY <1>0, <1>6, <2>2
    <3>2. Range(muted') = Range(muted) \cup {nextSeq}
      <4>1. Range(muted') \subseteq Range(muted) \cup {nextSeq}
        BY <1>1, <1>8, <1>13, <3>1
      <4>2. nextSeq \in Range(muted')
        <5>1. L + 1 - d \in DOMAIN muted' /\ muted'[L + 1 - d] = nextSeq
          BY <1>1, <1>6, <1>7, <3>1
        <5>. QED
          BY <1>13, <5>1
      <4>3. ASSUME NEW i \in DOMAIN muted PROVE i \in DOMAIN muted' /\ muted'[i] = muted[i]
        BY <1>1, <1>6, <1>7, <3>1
      <4>4. Range(muted) \subseteq Range(muted')
        BY <1>13, <4>3
      <4>. QED
        BY <4>1, <4>2, <4>4
    <3>3. Counted(Refusals \cup {nextSeq}, Range(muted) \cup {nextSeq}, mutedEvicted, mutedHigh)
      BY <1>1, <2>0, CountedGrows
    <3>. QED
      BY <1>11, <3>1, <3>2, <3>3 DEF MutedCounted, Counted
  <2>. QED
    BY <2>1, <2>2
<1>15. EvictedCounted'
  BY <1>0 DEF Inv, EvictedCounted, Held
<1>16. ShownOrWaiting'
  BY <1>0 DEF Inv, ShownOrWaiting
<1>. QED
  BY <1>10, <1>11, <1>12, <1>14, <1>15, <1>16 DEF Inv

(* An amendment leaves the numbers alone.  One that is not stamped shows   *)
(* nothing new, or a status that waits for its capture.                    *)
LEMMA LogAmend ==
  ASSUME Inv, NEW i \in DOMAIN events, NEW facts \in Facts, NEW awaiting \in BOOLEAN,
         NEW stamp \in BOOLEAN, Amend(i, facts, awaiting, stamp),
         \/ stamp
         \/ awaiting /\ facts.status # 0
         \/ /\ facts = events[i].facts
            /\ awaiting \/ facts.status = 0
  PROVE  Inv'
<1>. DEFINE e == [events[i] EXCEPT !.facts = facts, !.awaiting = awaiting,
                                   !.amend = IF stamp THEN nextAmend ELSE @]
<1>. USE LogConstants
<1>0. /\ stamp => nextAmend <= MaxAmends
      /\ events' = [events EXCEPT ![i].facts = facts, ![i].awaiting = awaiting,
                                  ![i].amend = IF stamp THEN nextAmend ELSE @]
      /\ nextAmend' = IF stamp THEN nextAmend + 1 ELSE nextAmend
      /\ UNCHANGED <<nextSeq, muted, evicted, evictedHigh, mutedEvicted, mutedHigh, main,
                     cursor, amendCursor, view>>
  BY DEF Amend, readVars
<1>1. /\ events \in Seq(Entries) /\ nextAmend \in Nat /\ nextAmend >= 1
      /\ amendCursor \in Nat /\ amendCursor < nextAmend /\ events[i] \in Entries
  BY DEF Inv, Kinds
<1>2. events' \in Seq(Entries) /\ Len(events') = Len(events) /\ DOMAIN events' = DOMAIN events
  <2>1. e \in Entries
    BY <1>1 DEF Entries
  <2>2. events' = [events EXCEPT ![i] = e]
    BY <1>0, <1>1
  <2>3. i \in 1 .. Len(events)
    BY <1>1
  <2>. HIDE DEF e
  <2>. QED
    BY <1>1, <2>1, <2>2, <2>3, ExceptSeq
<1>3. \A j \in DOMAIN events : j # i => events'[j] = events[j]
  BY <1>0, <1>1
<1>4. /\ events'[i].seq = events[i].seq /\ events'[i].facts = facts
      /\ events'[i].awaiting = awaiting
      /\ events'[i].amend = IF stamp THEN nextAmend ELSE events[i].amend
  BY <1>0, <1>1 DEF Entries
<1>5. \A j \in DOMAIN events : events'[j].seq = events[j].seq
  BY <1>3, <1>4
<1>6. nextAmend' \in Nat /\ nextAmend <= nextAmend' /\ nextAmend' \in 1 .. MaxAmends + 1
  <2>0. nextAmend \in 1 .. MaxAmends + 1
    BY DEF Inv, Kinds
  <2>1. CASE stamp
    BY <1>0, <1>1, <2>0, <2>1
  <2>2. CASE ~stamp
    BY <1>0, <1>1, <2>0, <2>2
  <2>. QED
    BY <2>1, <2>2
<1>7. Kinds'
  <2>1. amendCursor' \in 0 .. nextAmend' - 1
    BY <1>0, <1>1, <1>6
  <2>. QED
    BY <1>0, <1>2, <1>6, <2>1 DEF Inv, Kinds
<1>8. NumbersGiven'
  <2>1. \A j \in DOMAIN events : events[j].seq \in main /\ events[j].amend < nextAmend
    BY DEF Inv, NumbersGiven
  <2>2. \A j \in DOMAIN events : events[j].amend \in Nat
    <3>1. \A j \in DOMAIN events : events[j] \in Entries
      BY <1>1
    <3>. QED
      BY <3>1 DEF Entries
  <2>3. ASSUME NEW j \in DOMAIN events PROVE events'[j].amend < nextAmend'
    <3>1. CASE j # i
      BY <1>1, <1>3, <1>6, <2>1, <2>2, <3>1
    <3>2. CASE j = i
      BY <1>0, <1>1, <1>4, <1>6, <2>1, <2>2, <3>2
    <3>. QED
      BY <3>1, <3>2
  <2>. QED
    BY <1>0, <1>2, <1>5, <2>1, <2>3 DEF Inv, NumbersGiven, Refusals, Given
<1>9. OldestFirst'
  <2>1. ASSUME NEW j \in DOMAIN events, NEW k \in DOMAIN events, j < k
        PROVE  events'[j].seq < events'[k].seq
    BY <1>5, <2>1 DEF Inv, OldestFirst
  <2>. QED
    BY <1>0, <1>2, <2>1 DEF Inv, OldestFirst
<1>10. Held' = Held
  <2>1. /\ Held = {events[j].seq : j \in DOMAIN events}
        /\ Held' = {events'[j].seq : j \in DOMAIN events'}
    BY <1>1, <1>2, HeldBySeq DEF Held
  <2>. QED
    BY <1>2, <1>5, <2>1
<1>11. EvictedCounted' /\ MutedCounted'
  BY <1>0, <1>10 DEF Inv, EvictedCounted, MutedCounted, Refusals, Given
<1>12. ShownOrWaiting'
  <2>. SUFFICES ASSUME NEW j \in DOMAIN events, events'[j].seq <= cursor
                PROVE  \/ /\ events'[j].seq \in DOMAIN view
                          /\ view[events'[j].seq] = events'[j].facts
                       \/ events'[j].amend > amendCursor
                       \/ events'[j].awaiting /\ events'[j].facts.status # 0
    BY <1>0, <1>2 DEF ShownOrWaiting
  <2>1. \/ events[j].seq \in DOMAIN view /\ view[events[j].seq] = events[j].facts
        \/ events[j].amend > amendCursor
        \/ events[j].awaiting /\ events[j].facts.status # 0
    BY <1>5 DEF Inv, ShownOrWaiting
  <2>2. CASE j # i
    BY <1>3, <2>1, <2>2
  <2>3. CASE j = i /\ stamp
    BY <1>1, <1>4, <2>3
  <2>4. CASE j = i /\ ~stamp
    BY <1>4, <2>1, <2>4
  <2>. QED
    BY <2>2, <2>3, <2>4
<1>. QED
  BY <1>7, <1>8, <1>9, <1>11, <1>12 DEF Inv

LEMMA LogAmends ==
  ASSUME Inv, NEW i \in DOMAIN events,
         \/ \E code \in Codes : SetStatus(i, code)
         \/ ExpectCapture(i) \/ CaptureGrew(i) \/ SetCaller(i) \/ SecretSeen(i)
         \/ \E filed \in BOOLEAN : CaptureSettled(i, filed)
  PROVE  Inv'
<1>. DEFINE e == events[i]
<1>. USE LogConstants
<1>0. e \in Entries /\ e.facts \in Facts /\ e.awaiting \in BOOLEAN
  <2>1. events \in Seq(Entries)
    BY DEF Inv, Kinds
  <2>2. e \in Entries
    BY <2>1
  <2>. QED
    BY <2>2 DEF Entries
<1>1. ASSUME NEW code \in Codes, SetStatus(i, code) PROVE Inv'
  <2>1. [e.facts EXCEPT !.status = code] \in Facts /\ [e.facts EXCEPT !.status = code].status # 0
    BY <1>0 DEF Facts
  <2>2. Amend(i, [e.facts EXCEPT !.status = code], e.awaiting, StatusAmends(e))
    BY <1>1 DEF SetStatus
  <2>3. StatusAmends(e) \in BOOLEAN /\ (StatusAmends(e) \/ e.awaiting)
    BY <1>0 DEF StatusAmends
  <2>. HIDE DEF e
  <2>. QED
    BY <1>0, <2>1, <2>2, <2>3, LogAmend DEF e
<1>2. CASE ExpectCapture(i)
  <2>1. Amend(i, e.facts, TRUE, FALSE)
    BY <1>2 DEF ExpectCapture
  <2>. QED
    BY <1>0, <2>1, LogAmend
<1>3. CASE CaptureGrew(i)
  <2>1. [e.facts EXCEPT !.filed = @ + 1] \in Facts
    BY <1>0 DEF Facts
  <2>2. Amend(i, [e.facts EXCEPT !.filed = @ + 1], e.awaiting, TRUE)
    BY <1>3 DEF CaptureGrew
  <2>. QED
    BY <1>0, <2>1, <2>2, LogAmend
<1>4. CASE SetCaller(i)
  <2>1. [e.facts EXCEPT !.caller = TRUE] \in Facts
    BY <1>0 DEF Facts
  <2>2. Amend(i, [e.facts EXCEPT !.caller = TRUE], e.awaiting, TRUE)
    BY <1>4 DEF SetCaller
  <2>. QED
    BY <1>0, <2>1, <2>2, LogAmend
<1>5. CASE SecretSeen(i)
  <2>1. [e.facts EXCEPT !.seen = TRUE] \in Facts
    BY <1>0 DEF Facts
  <2>2. Amend(i, [e.facts EXCEPT !.seen = TRUE], e.awaiting, TRUE)
    BY <1>5 DEF SecretSeen
  <2>. QED
    BY <1>0, <2>1, <2>2, LogAmend
<1>6. ASSUME NEW filed \in BOOLEAN, CaptureSettled(i, filed) PROVE Inv'
  <2>. DEFINE f == IF filed THEN [e.facts EXCEPT !.filed = @ + 1] ELSE e.facts
              stamp == filed \/ e.facts.status # 0
  <2>1. f \in Facts /\ stamp \in BOOLEAN
    BY <1>0 DEF Facts
  <2>2. Amend(i, f, FALSE, stamp)
    BY <1>6 DEF CaptureSettled, SettledAmends
  <2>3. stamp \/ (f = e.facts /\ f.status = 0)
    OBVIOUS
  <2>. HIDE DEF f, stamp
  <2>. QED
    BY <2>1, <2>2, <2>3, LogAmend
<1>. QED
  BY <1>1, <1>2, <1>3, <1>4, <1>5, <1>6

LEMMA LogRead == ASSUME Inv, Read PROVE Inv'
<1>. DEFINE new == Shown(cursor, amendCursor)
            dom == DOMAIN view \cup {e.seq : e \in new}
            shown(s) == IF \E e \in new : e.seq = s
                          THEN (CHOOSE e \in new : e.seq = s).facts ELSE view[s]
<1>. USE LogConstants
<1>0. /\ cursor' = nextSeq - 1 /\ amendCursor' = nextAmend - 1
      /\ view' = [s \in dom |-> shown(s)]
      /\ UNCHANGED <<nextSeq, events, muted, evicted, evictedHigh, mutedEvicted, mutedHigh, main,
                     nextAmend>>
  BY DEF Read, ringVars
<1>1. /\ events \in Seq(Entries) /\ nextSeq \in Nat /\ nextSeq >= 1
      /\ nextAmend \in Nat /\ nextAmend >= 1 /\ cursor \in Nat /\ amendCursor \in Nat
      /\ \A i \in DOMAIN events : events[i].seq \in Nat /\ events[i].amend \in Nat
  <2>1. /\ events \in Seq(Entries) /\ nextSeq \in Nat /\ nextSeq >= 1
        /\ nextAmend \in Nat /\ nextAmend >= 1 /\ cursor \in Nat /\ amendCursor \in Nat
    BY DEF Inv, Kinds
  <2>2. \A i \in DOMAIN events : events[i] \in Entries
    BY <2>1
  <2>. QED
    BY <2>1, <2>2 DEF Entries
<1>2. new = {e \in Range(events) : e.seq > cursor \/ e.amend > amendCursor}
  BY DEF Shown
<1>3. \A e \in new : \E i \in DOMAIN events : e = events[i]
  BY <1>2 DEF Range
<1>4. \A i \in DOMAIN events : events[i].seq > cursor \/ events[i].amend > amendCursor => events[i] \in new
  BY <1>2 DEF Range
<1>. HIDE DEF new
<1>5. \A i \in DOMAIN events : events[i].seq \in Given
  BY DEF Inv, NumbersGiven
<1>6. Kinds'
  <2>1. DOMAIN view' \subseteq 1 .. nextSeq - 1
    BY <1>0, <1>3, <1>5 DEF Inv, Kinds, Given
  <2>2. cursor' \in 0 .. nextSeq' - 1 /\ amendCursor' \in 0 .. nextAmend' - 1
    BY <1>0, <1>1
  <2>. QED
    BY <1>0, <2>1, <2>2 DEF Inv, Kinds
<1>7. NumbersGiven' /\ OldestFirst' /\ EvictedCounted' /\ MutedCounted'
  BY <1>0 DEF Inv, NumbersGiven, OldestFirst, EvictedCounted, MutedCounted, Held, Refusals, Given
<1>8. \A i, j \in DOMAIN events : events[i].seq = events[j].seq => i = j
  <2>. SUFFICES ASSUME NEW i \in DOMAIN events, NEW j \in DOMAIN events, i # j
                PROVE  events[i].seq # events[j].seq
    OBVIOUS
  <2>1. i \in Nat /\ j \in Nat /\ events[i].seq \in Nat /\ events[j].seq \in Nat
    BY <1>1
  <2>2. (i < j => events[i].seq < events[j].seq) /\ (j < i => events[j].seq < events[i].seq)
    BY DEF Inv, OldestFirst
  <2>. QED
    BY <2>1, <2>2
<1>9. ShownOrWaiting'
  <2>. SUFFICES ASSUME NEW i \in DOMAIN events
                PROVE  \/ events[i].seq \in DOMAIN view' /\ view'[events[i].seq] = events[i].facts
                       \/ events[i].awaiting /\ events[i].facts.status # 0
    BY <1>0 DEF ShownOrWaiting
  <2>. DEFINE s == events[i].seq
  <2>1. CASE events[i] \in new
    <3>1. \A e \in new : e.seq = s => e = events[i]
      BY <1>3, <1>8
    <3>2. (CHOOSE e \in new : e.seq = s) = events[i]
      BY <2>1, <3>1
    <3>3. s \in dom /\ shown(s) = events[i].facts
      BY <2>1, <3>2
    <3>. QED
      BY <1>0, <3>3
  <2>2. CASE events[i] \notin new
    <3>1. ~(s > cursor) /\ ~(events[i].amend > amendCursor)
      BY <1>4, <2>2
    <3>2. s <= cursor
      BY <1>1, <3>1
    <3>3. ASSUME NEW e \in new PROVE e.seq # s
      BY <1>3, <1>8, <2>2
    <3>4. s \in DOMAIN view => s \in dom /\ shown(s) = view[s]
      BY <3>3
    <3>. QED
      BY <1>0, <3>1, <3>2, <3>4 DEF Inv, ShownOrWaiting
  <2>. QED
    BY <2>1, <2>2
<1>. QED
  BY <1>6, <1>7, <1>9 DEF Inv

LEMMA LogInit == Init => Inv
<1>. SUFFICES ASSUME Init PROVE Inv
  OBVIOUS
<1>. USE LogConstants DEF Init
<1>1. /\ Given = {} /\ Refusals = {} /\ Held = {} /\ Range(muted) = {}
      /\ DOMAIN events = {} /\ DOMAIN muted = {} /\ DOMAIN view = {}
  BY DEF Given, Refusals, Held, Range
<1>2. Cardinality({}) = 0
  BY FS_EmptySet
<1>3. Kinds
  BY <1>1 DEF Kinds
<1>4. NumbersGiven /\ OldestFirst /\ ShownOrWaiting
  BY <1>1 DEF NumbersGiven, OldestFirst, ShownOrWaiting
<1>5. EvictedCounted /\ MutedCounted
  <2>1. main \ Held = {} /\ Refusals \ Range(muted) = {}
    BY <1>1
  <2>. QED
    BY <1>1, <1>2, <2>1 DEF EvictedCounted, MutedCounted
<1>. QED
  BY <1>3, <1>4, <1>5 DEF Inv

LEMMA LogStep == Inv /\ [Next]_vars => Inv'
<1>. SUFFICES ASSUME Inv, [Next]_vars PROVE Inv'
  OBVIOUS
<1>1. CASE UNCHANGED vars
  <2>1. UNCHANGED <<nextSeq, nextAmend, events, muted, evicted, evictedHigh, mutedEvicted, mutedHigh,
                    main, cursor, amendCursor, view>>
    BY <1>1 DEF vars, ringVars, readVars
  <2>2. Kinds' /\ NumbersGiven' /\ OldestFirst' /\ ShownOrWaiting'
    BY <2>1 DEF Inv, Kinds, NumbersGiven, OldestFirst, ShownOrWaiting, Refusals, Given
  <2>3. EvictedCounted' /\ MutedCounted'
    BY <2>1 DEF Inv, EvictedCounted, MutedCounted, Held, Refusals, Given
  <2>. QED
    BY <2>2, <2>3 DEF Inv
<1>2. CASE Next
  BY <1>2, LogPush, LogPushMuted, LogRead, LogAmends DEF Next
<1>. QED
  BY <1>1, <1>2

(* The ring's invariant holds throughout: numbers in order, what the cap   *)
(* took counted and older than what is held, and nothing amended that its  *)
(* reader will not see (LogRing).                                          *)
THEOREM LogInvariance == Spec => []Inv
  BY LogInit, LogStep, PTL DEF Spec

(* A reader misses nothing of an event it was shown: what it shows is what *)
(* the ring holds, or the next read shows it again, or a capture that will *)
(* amend it is on its way (LogRing::snapshot).                             *)
THEOREM ReadersMissNothing == Spec => []ShownOrComing
<1>1. Inv => ShownOrComing
  <2>. SUFFICES ASSUME Inv, NEW i \in DOMAIN events, events[i].seq <= cursor
                PROVE  \/ events[i].seq \in DOMAIN view /\ view[events[i].seq] = events[i].facts
                       \/ events[i].amend > amendCursor
                       \/ events[i].awaiting
    BY DEF ShownOrComing, Range
  <2>. QED
    BY DEF Inv, ShownOrWaiting
<1>. QED
  BY <1>1, LogInvariance, PTL

LEMMA MaxWithOne == ASSUME NEW x \in Nat PROVE Max({1, x}) = IF x >= 1 THEN x ELSE 1
<1>. DEFINE top == IF x >= 1 THEN x ELSE 1
<1>1. top \in {1, x} /\ \A y \in {1, x} : top >= y
  OBVIOUS
<1>2. \A z \in {1, x} : (\A y \in {1, x} : z >= y) => z = top
  OBVIOUS
<1>. QED
  BY <1>1, <1>2 DEF Max

LEMMA CountsAdd ==
  ASSUME NEW S, NEW T, IsFiniteSet(S), IsFiniteSet(T), S \cap T = {}
  PROVE  Cardinality(S \cup T) = Cardinality(S) + Cardinality(T)
<1>1. /\ Cardinality(S) \in Nat /\ Cardinality(T) \in Nat /\ Cardinality(S \cap T) = 0
      /\ Cardinality(S \cup T) = Cardinality(S) + Cardinality(T) - Cardinality(S \cap T)
  BY FS_Union, FS_CardinalityType, FS_EmptySet
<1>. QED
  BY <1>1

(* What the reader is told it lost, from the counts: the decisions up to   *)
(* its cursor are all evicted, and are the numbers up to it but for the    *)
(* muted ones.                                                             *)
LEMMA GapOfInv == Inv => GapIsTrue
<1>. SUFFICES ASSUME Inv, NEW a \in 0 .. nextSeq - 1
              PROVE  /\ (Dropped(a) > 0) = (Lost(a) # {})
                     /\ Dropped(a) <= Cardinality(Lost(a))
                     /\ mutedHigh <= a => Dropped(a) = Cardinality(Lost(a))
  BY DEF GapIsTrue
<1>. DEFINE E == main \ Held
            A == main \cap (1 .. a)
            M == Refusals \cap (1 .. a)
            held == {s \in Range(muted) : s <= a}
            seen == Cardinality(held) + (IF mutedHigh <= a THEN mutedEvicted ELSE 0)
<1>0. /\ Counted(main, Held, evicted, evictedHigh)
      /\ Counted(Refusals, Range(muted), mutedEvicted, mutedHigh)
      /\ Held \subseteq main /\ Range(muted) \subseteq Refusals
      /\ evictedHigh \in Nat /\ mutedHigh \in Nat /\ evicted \in Nat /\ mutedEvicted \in Nat
      /\ nextSeq \in Nat /\ nextSeq >= 1 /\ a \in Nat /\ a <= nextSeq - 1
      /\ main \subseteq Given /\ Refusals = Given \ main /\ Given = 1 .. nextSeq - 1
      /\ IsFiniteSet(main) /\ IsFiniteSet(Refusals)
  BY CountedNow, NumbersAreFinite DEF Refusals, Given
<1>1. Lost(a) = {s \in E : s > a} /\ \A s \in main : s \in Nat /\ s >= 1
  BY <1>0 DEF Lost
<1>2. IsFiniteSet(E) /\ IsFiniteSet(A) /\ IsFiniteSet(M) /\ IsFiniteSet(Lost(a))
  <2>1. Lost(a) \subseteq main /\ E \subseteq main /\ A \subseteq main /\ M \subseteq Refusals
    BY <1>1
  <2>. HIDE DEF E, A, M
  <2>. QED
    BY <1>0, <2>1, FS_Subset
<1>3. Dropped(a) = IF evictedHigh > a THEN Max({1, Minus(evicted, Minus(a, seen))}) ELSE 0
  BY DEF Dropped
<1>4. CASE ~(evictedHigh > a)
  <2>1. Lost(a) = {}
    <3>1. ASSUME NEW s \in E PROVE ~(s > a)
      <4>1. s <= evictedHigh /\ s \in Nat
        BY <1>0, <1>1 DEF Counted
      <4>. QED
        BY <1>0, <1>4, <4>1
    <3>. QED
      BY <1>1, <3>1
  <2>2. Dropped(a) = 0 /\ Cardinality(Lost(a)) = 0
    BY <1>3, <1>4, <2>1, FS_EmptySet
  <2>. QED
    BY <2>1, <2>2
<1>5. CASE evictedHigh > a
  <2>1. evictedHigh \in Lost(a)
    BY <1>0, <1>1, <1>5 DEF Counted
  <2>2. A \subseteq E /\ E = A \cup Lost(a) /\ A \cap Lost(a) = {}
    <3>1. ASSUME NEW s \in A PROVE s \notin Held
      <4>1. s \in Nat /\ s <= a
        BY <1>0
      <4>2. s \in Held => evictedHigh < s
        BY <1>0 DEF Counted
      <4>. QED
        BY <1>0, <1>5, <4>1, <4>2
    <3>2. \A s \in main : s <= a \/ s > a
      BY <1>0, <1>1
    <3>3. \A s \in main : (s \in A <=> s <= a) /\ ~(s <= a /\ s > a)
      BY <1>0, <1>1
    <3>4. A \subseteq main
      OBVIOUS
    <3>. HIDE DEF A
    <3>. QED
      BY <1>1, <3>1, <3>2, <3>3, <3>4
  <2>3. 1 .. a = A \cup M /\ A \cap M = {}
    BY <1>0
  <2>. HIDE DEF A, M, E
  <2>4. /\ Cardinality(A) \in Nat /\ Cardinality(M) \in Nat /\ Cardinality(Lost(a)) \in Nat
        /\ evicted = Cardinality(A) + Cardinality(Lost(a))
        /\ a = Cardinality(A) + Cardinality(M)
    <3>1. Cardinality(A) \in Nat /\ Cardinality(M) \in Nat /\ Cardinality(Lost(a)) \in Nat
      BY <1>2, FS_CardinalityType
    <3>2. Cardinality(E) = Cardinality(A) + Cardinality(Lost(a))
      BY <1>2, <2>2, CountsAdd
    <3>3. Cardinality(1 .. a) = Cardinality(A) + Cardinality(M)
      BY <1>2, <2>3, CountsAdd
    <3>4. Cardinality(1 .. a) = a
      BY <1>0, FS_Interval
    <3>5. Cardinality(E) = evicted
      BY <1>0 DEF Counted, E
    <3>. QED
      BY <3>1, <3>2, <3>3, <3>4, <3>5
  <2>5. Cardinality(Lost(a)) >= 1
    BY <1>2, <2>1, <2>4, FS_EmptySet
  <2>6. CASE mutedHigh <= a
    <3>. DEFINE gone == Refusals \ Range(muted)
    <3>1. M = gone \cup held /\ gone \cap held = {}
      BY <1>0, <2>6 DEF Counted, M
    <3>2. IsFiniteSet(gone) /\ IsFiniteSet(held) /\ Cardinality(gone) = mutedEvicted
      <4>1. gone \subseteq Refusals /\ held \subseteq Refusals
        BY <1>0
      <4>. QED
        BY <1>0, <4>1, FS_Subset DEF Counted
    <3>3. Cardinality(held) \in Nat
      BY <3>2, FS_CardinalityType
    <3>. HIDE DEF gone, held
    <3>4. Cardinality(M) = mutedEvicted + Cardinality(held)
      BY <3>1, <3>2, CountsAdd
    <3>5. seen = Cardinality(M)
      BY <1>0, <2>6, <3>3, <3>4
    <3>. HIDE DEF seen
    <3>6. Minus(a, seen) = Cardinality(A)
      BY <2>4, <3>5 DEF Minus
    <3>7. Minus(evicted, Minus(a, seen)) = Cardinality(Lost(a))
      BY <2>4, <3>6 DEF Minus
    <3>8. Dropped(a) = Cardinality(Lost(a))
      BY <1>3, <1>5, <2>4, <2>5, <3>7, MaxWithOne
    <3>. QED
      BY <2>1, <2>4, <2>5, <3>8
  <2>7. CASE ~(mutedHigh <= a)
    <3>1. held = {}
      BY <1>0, <2>7 DEF Counted
    <3>2. seen = 0
      BY <2>7, <3>1, FS_EmptySet
    <3>. HIDE DEF seen
    <3>3. Minus(a, seen) = a
      BY <1>0, <3>2 DEF Minus
    <3>4. /\ Minus(evicted, a) \in Nat /\ Minus(evicted, a) <= Cardinality(Lost(a))
      BY <1>0, <2>4 DEF Minus
    <3>5. Dropped(a) = IF Minus(evicted, a) >= 1 THEN Minus(evicted, a) ELSE 1
      BY <1>3, <1>5, <3>3, <3>4, MaxWithOne
    <3>6. Dropped(a) > 0 /\ Dropped(a) <= Cardinality(Lost(a))
      BY <2>4, <2>5, <3>4, <3>5
    <3>. QED
      BY <2>1, <2>7, <3>6
  <2>. QED
    BY <2>6, <2>7
<1>. QED
  BY <1>4, <1>5

(* Whatever a reader's cursor, it is told of a gap exactly when decisions  *)
(* past it were lost, never of more than were lost, and of exactly as many *)
(* unless muted refusals past its cursor were evicted too                  *)
(* (LogRing::snapshot).                                                    *)
THEOREM GapsAreTrue == Spec => []GapIsTrue
  BY GapOfInv, LogInvariance, PTL

(* The ring's variables keep their types, and its two rings their cap.     *)
LEMMA LogTypes == Inv => TypeOK
<1>. SUFFICES ASSUME Inv PROVE TypeOK
  OBVIOUS
<1>. USE LogConstants
<1>0. /\ nextSeq \in Nat /\ nextSeq >= 1 /\ nextSeq <= MaxPushes + 1
      /\ events \in Seq(Entries) /\ muted \in Seq(Nat) /\ nextAmend \in Nat
  BY DEF Inv, Kinds
<1>1. Range(muted) \subseteq 1 .. nextSeq - 1
  BY CountedNow, NumbersAreFinite DEF Given
<1>2. ASSUME NEW e \in Range(events)
      PROVE  /\ e.seq \in 1 .. nextSeq - 1 /\ e.amend \in 0 .. nextAmend - 1
             /\ e.awaiting \in BOOLEAN
             /\ e.facts \in [status : Codes \cup {0}, filed : Nat, caller : BOOLEAN, seen : BOOLEAN]
  <2>1. PICK i \in DOMAIN events : e = events[i]
    BY DEF Range
  <2>2. e \in Entries
    BY <1>0, <2>1
  <2>3. e.seq \in Given /\ e.amend < nextAmend
    BY <2>1 DEF Inv, NumbersGiven
  <2>4. e.amend \in Nat /\ e.awaiting \in BOOLEAN /\ e.facts \in Facts
    BY <2>2 DEF Entries
  <2>. QED
    BY <1>0, <2>3, <2>4 DEF Given, Facts
<1>3. evicted \in 0 .. MaxPushes /\ mutedEvicted \in 0 .. MaxPushes
  <2>1. main \ Held \subseteq Given /\ Refusals \ Range(muted) \subseteq Given
    BY NumbersAreFinite
  <2>2. /\ Cardinality(main \ Held) <= nextSeq - 1 /\ Cardinality(Refusals \ Range(muted)) <= nextSeq - 1
    BY <2>1, NumbersAreFinite, FS_Subset
  <2>. QED
    BY <1>0, <2>2, CountedNow DEF Inv, EvictedCounted, MutedCounted
<1>4. {evictedHigh, mutedHigh, cursor} \subseteq 0 .. nextSeq - 1
  BY <1>0, CountedNow DEF Inv, Kinds
<1>. QED
  BY <1>1, <1>2, <1>3, <1>4 DEF Inv, Kinds, TypeOK

-----------------------------------------------------------------------------
(* The readers a session waits for at its end.                             *)

LEMMA LingerSets ==
  ASSUME NEW S
  PROVE  /\ Linger!Cardinality(S) = Cardinality(S)
         /\ Linger!IsFiniteSet(S) <=> IsFiniteSet(S)
<1>1. Linger!Cardinality(S) = Cardinality(S)
  BY DEF Linger!Cardinality, Cardinality
<1>2. Linger!IsFiniteSet(S) <=> IsFiniteSet(S)
  BY DEF Linger!IsFiniteSet, IsFiniteSet
<1>. QED
  BY <1>1, <1>2

LEMMA LingerConstants ==
  /\ Slack \in Nat /\ Slack >= 1 /\ FollowersMax \in Nat /\ FollowersMax >= 1
  /\ LingerMax \in Nat /\ Horizon \in Nat /\ MaxChanges \in Nat
  /\ Interval \in [Readers -> Nat] /\ \A r \in Readers : Interval[r] \in Nat /\ Interval[r] >= 1
  BY LingerAssumption DEF Linger!ReadersAssumption, Linger!BoundsAssumption

Table == [at : Nat, head : Nat, amend : Nat]

(* Some of the readers known were heard from longest ago.                  *)
LEMMA SomeoneLongestAgo ==
  ASSUME NEW S, IsFiniteSet(S), S # {}, NEW f, \A o \in S : f[o] \in Table
  PROVE  \E o \in S : \A p \in S : f[o].at <= f[p].at
<1>. DEFINE upTo(x) == {y \in S : f[y].at <= f[x].at}
            U == {upTo(x) : x \in S}
<1>1. \A o \in S : f[o].at \in Nat
  BY DEF Table
<1>2. IsWellFoundedOn(StrictSubsetOrdering(S), SUBSET S)
  BY FS_StrictSubsetOrderingWellFounded, FS_FiniteSubsetsOfFinite
<1>3. U \subseteq SUBSET S /\ U # {}
  OBVIOUS
<1>4. PICK u \in U : \A v \in U : ~(<<v, u>> \in StrictSubsetOrdering(S))
  BY <1>2, <1>3, WFMin, Zenon
<1>5. PICK x \in S : u = upTo(x)
  OBVIOUS
<1>6. ASSUME NEW y \in S PROVE f[x].at <= f[y].at
  <2>. SUFFICES ASSUME f[y].at < f[x].at PROVE FALSE
    BY <1>1
  <2>4. f[x].at <= f[x].at /\ ~(f[x].at <= f[y].at)
    BY <1>1
  <2>5. \A z \in S : f[z].at <= f[y].at => f[z].at <= f[x].at
    BY <1>1, <2>4
  <2>1. upTo(y) \subseteq upTo(x) /\ x \in upTo(x) /\ x \notin upTo(y)
    BY <2>4, <2>5
  <2>2. upTo(y) \in U /\ upTo(y) \in SUBSET S /\ upTo(x) \in SUBSET S
    OBVIOUS
  <2>3. <<upTo(y), upTo(x)>> \in StrictSubsetOrdering(S)
    BY <2>1, <2>2, Zenon DEF StrictSubsetOrdering
  <2>. QED
    BY <1>4, <1>5, <2>2, <2>3
<1>. QED
  BY <1>6

(* The table keeps its bound when a reader is noted.                       *)
LEMMA TableBounded ==
  ASSUME NEW r \in Readers, IsFiniteSet(DOMAIN followers), DOMAIN followers \subseteq Readers,
         \A f \in DOMAIN followers : followers[f] \in Table,
         Cardinality(DOMAIN followers) <= FollowersMax
  PROVE  LET S == Linger!Kept(r) IN
         /\ S \subseteq DOMAIN followers /\ r \notin S
         /\ IsFiniteSet(S \cup {r}) /\ Cardinality(S \cup {r}) <= FollowersMax
<1>. DEFINE D == DOMAIN followers
            known == D \ {r}
            S == Linger!Kept(r)
            x == CHOOSE o \in known : \A p \in known : followers[o].at <= followers[p].at
<1>. USE LingerConstants
<1>0. S = IF r \in D \/ Cardinality(known) < FollowersMax THEN known ELSE known \ {x}
  BY LingerSets DEF Linger!Kept
<1>1. /\ IsFiniteSet(known) /\ Cardinality(known) \in Nat /\ Cardinality(D) \in Nat
      /\ Cardinality(known) = IF r \in D THEN Cardinality(D) - 1 ELSE Cardinality(D)
  BY FS_RemoveElement, FS_CardinalityType
<1>. HIDE DEF D, known, S
<1>2. known \subseteq D /\ r \notin known
  BY DEF known
<1>3. CASE r \in D \/ Cardinality(known) < FollowersMax
  <2>1. S = known /\ Cardinality(known) < FollowersMax
    BY <1>0, <1>1, <1>3 DEF D
  <2>2. IsFiniteSet(known \cup {r}) /\ Cardinality(known \cup {r}) = Cardinality(known) + 1
    BY <1>1, <1>2, FS_AddElement
  <2>. QED
    BY <1>1, <1>2, <2>1, <2>2 DEF D, S
<1>4. CASE ~(r \in D \/ Cardinality(known) < FollowersMax)
  <2>1. S = known \ {x}
    BY <1>0, <1>4
  <2>2. known # {}
    BY <1>1, <1>4, FS_EmptySet
  <2>3. \E o \in known : \A p \in known : followers[o].at <= followers[p].at
    BY <1>1, <1>2, <2>2, SomeoneLongestAgo DEF D
  <2>4. x \in known
    BY <2>3
  <2>. HIDE DEF x
  <2>5. IsFiniteSet(S) /\ Cardinality(S) = Cardinality(known) - 1
    BY <1>1, <2>1, <2>4, FS_RemoveElement
  <2>6. r \notin S /\ S \subseteq D
    BY <1>2, <2>1
  <2>7. IsFiniteSet(S \cup {r}) /\ Cardinality(S \cup {r}) = Cardinality(S) + 1
    BY <2>5, <2>6, FS_AddElement
  <2>8. Cardinality(known) <= FollowersMax
    BY <1>1, <1>4 DEF D
  <2>. QED
    BY <1>1, <2>5, <2>6, <2>7, <2>8 DEF D, S
<1>. QED
  BY <1>3, <1>4

LEMMA LingerStart == Linger!Init => Linger!Inv
<1>. SUFFICES ASSUME Linger!Init PROVE Linger!Inv
  OBVIOUS
<1>. USE LingerConstants
<1>1. DOMAIN followers = {} /\ DOMAIN serving = {}
  BY DEF Linger!Init
<1>2. Linger!IsFiniteSet({}) /\ Linger!Cardinality({}) = 0
  BY LingerSets, FS_EmptySet
<1>3. Linger!TypeOK
  BY <1>1, <1>2 DEF Linger!Init, Linger!TypeOK, Linger!Nothing
<1>4. Linger!Kinds
  BY <1>1, <1>2, <1>3 DEF Linger!Kinds
<1>5. Linger!ToldOfThePast /\ Linger!NotedAtItsPoll /\ Linger!NotGivenUp
  BY <1>1 DEF Linger!Init, Linger!ToldOfThePast, Linger!NotedAtItsPoll, Linger!NotGivenUp
<1>. QED
  BY <1>4, <1>5 DEF Linger!Inv

Serving == [head : Nat, amend : Nat, noted : BOOLEAN]

(* What the invariant says of one reader.                                  *)
LEMMA LingerParts ==
  ASSUME Linger!Inv
  PROVE  /\ now \in Nat /\ now # 0 /\ head \in Nat /\ amend \in Nat /\ lingerTo \in Nat
         /\ polls \in [Readers -> BOOLEAN] /\ last \in [Readers -> Nat]
         /\ DOMAIN followers \subseteq Readers /\ DOMAIN serving \subseteq Readers
         /\ \A r \in DOMAIN followers : followers[r] \in Table
         /\ \A r \in DOMAIN serving : serving[r] \in Serving
         /\ IsFiniteSet(DOMAIN followers) /\ Cardinality(DOMAIN followers) <= FollowersMax
  BY LingerSets, SMT
     DEF Linger!Inv, Linger!Kinds, Linger!TypeOK, Linger!NotedAtItsPoll, Table, Serving

LEMMA LingerChange == Linger!Inv /\ Linger!Change => Linger!Inv'
<1>. SUFFICES ASSUME Linger!Inv, Linger!Change PROVE Linger!Inv'
  OBVIOUS
<1>. USE LingerConstants, LingerParts
<1>0. /\ head' \in Nat /\ amend' \in Nat /\ head <= head' /\ amend <= amend'
      /\ UNCHANGED <<now, followers, polls, last, serving, got, session, lingerTo>>
  BY DEF Linger!Change
<1>1. Linger!Kinds'
  BY <1>0 DEF Linger!Inv, Linger!Kinds, Linger!TypeOK
<1>2. Linger!ToldOfThePast'
  BY <1>0 DEF Linger!Inv, Linger!ToldOfThePast, Table, Serving
<1>3. Linger!NotedAtItsPoll' /\ Linger!NotGivenUp'
  BY <1>0 DEF Linger!Inv, Linger!NotedAtItsPoll, Linger!NotGivenUp, Linger!ReadDue
<1>. QED
  BY <1>1, <1>2, <1>3 DEF Linger!Inv

LEMMA LingerPoll ==
  ASSUME NEW r \in Readers
  PROVE  Linger!Inv /\ Linger!Poll(r) => Linger!Inv'
<1>. SUFFICES ASSUME Linger!Inv, Linger!Poll(r) PROVE Linger!Inv'
  OBVIOUS
<1>. USE LingerConstants, LingerParts
<1>0. /\ r \notin DOMAIN serving /\ DOMAIN serving' = DOMAIN serving \cup {r}
      /\ serving'[r] = [head |-> head, amend |-> amend, noted |-> FALSE]
      /\ \A f \in DOMAIN serving : serving'[f] = serving[f]
      /\ last' \in [Readers -> Nat] /\ last'[r] = now
      /\ \A f \in Readers \ {r} : last'[f] = last[f]
      /\ UNCHANGED <<now, head, amend, followers, polls, got, session, lingerTo>>
  BY DEF Linger!Poll
<1>1. Linger!Kinds'
  <2>1. \A f \in DOMAIN serving' : serving'[f] \in Serving
    <3>1. [head |-> head, amend |-> amend, noted |-> FALSE] \in Serving
      BY DEF Serving
    <3>. QED
      BY <1>0, <3>1
  <2>2. Linger!TypeOK'
    BY <1>0 DEF Linger!Inv, Linger!Kinds, Linger!TypeOK
  <2>3. /\ Linger!IsFiniteSet(DOMAIN followers')
        /\ \A f \in DOMAIN followers' : followers'[f] \in [at : Nat, head : Nat, amend : Nat]
    BY <1>0 DEF Linger!Inv, Linger!Kinds
  <2>. QED
    BY <2>1, <2>2, <2>3 DEF Linger!Kinds, Serving
<1>2. Linger!ToldOfThePast'
  <2>1. \A f \in Readers : last'[f] <= now'
    BY <1>0 DEF Linger!Inv, Linger!ToldOfThePast
  <2>2. \A f \in DOMAIN serving' : serving'[f].head <= head' /\ serving'[f].amend <= amend'
    BY <1>0 DEF Linger!Inv, Linger!ToldOfThePast
  <2>. QED
    BY <1>0, <2>1, <2>2 DEF Linger!Inv, Linger!ToldOfThePast
<1>3. Linger!NotedAtItsPoll'
  BY <1>0 DEF Linger!Inv, Linger!NotedAtItsPoll
<1>4. Linger!NotGivenUp'
  BY <1>0 DEF Linger!Inv, Linger!NotGivenUp, Linger!ReadDue
<1>. QED
  BY <1>1, <1>2, <1>3, <1>4 DEF Linger!Inv

LEMMA LingerFollowed ==
  ASSUME NEW r \in Readers
  PROVE  Linger!Inv /\ Linger!Followed(r) => Linger!Inv'
<1>. SUFFICES ASSUME Linger!Inv, Linger!Followed(r) PROVE Linger!Inv'
  OBVIOUS
<1>. DEFINE S == Linger!Kept(r)
<1>. USE LingerConstants, LingerParts
<1>0. /\ S \subseteq DOMAIN followers /\ r \notin S
      /\ IsFiniteSet(S \cup {r}) /\ Cardinality(S \cup {r}) <= FollowersMax
  BY TableBounded
<1>1. /\ r \in DOMAIN serving /\ DOMAIN followers' = S \cup {r}
      /\ followers'[r] = [at |-> now, head |-> serving[r].head, amend |-> serving[r].amend]
      /\ \A f \in S : followers'[f] = followers[f]
      /\ UNCHANGED <<now, head, amend, polls, last, got, session, lingerTo>>
  BY <1>0 DEF Linger!Followed
<1>. HIDE DEF S
<1>2. /\ DOMAIN serving' = DOMAIN serving
      /\ serving'[r] = [serving[r] EXCEPT !.noted = TRUE]
      /\ \A f \in DOMAIN serving \ {r} : serving'[f] = serving[f]
  BY <1>1 DEF Linger!Followed
<1>3. /\ serving'[r] \in Serving
      /\ serving'[r].head = serving[r].head /\ serving'[r].amend = serving[r].amend
      /\ serving[r].head \in Nat /\ serving[r].amend \in Nat
  BY <1>1, <1>2 DEF Serving
<1>4. Linger!Kinds'
  <2>1. \A f \in DOMAIN serving' : serving'[f] \in Serving
    BY <1>2, <1>3
  <2>2. \A f \in DOMAIN followers' : followers'[f] \in Table
    BY <1>0, <1>1, <1>3 DEF Table
  <2>3. Linger!Cardinality(DOMAIN followers') <= FollowersMax /\ Linger!IsFiniteSet(DOMAIN followers')
    BY <1>0, <1>1, LingerSets
  <2>4. Linger!TypeOK'
    BY <1>0, <1>1, <1>2, <2>3 DEF Linger!Inv, Linger!Kinds, Linger!TypeOK
  <2>. QED
    BY <2>1, <2>2, <2>3, <2>4 DEF Linger!Kinds, Serving, Table
<1>5. Linger!ToldOfThePast'
  <2>1. serving[r].head <= head /\ serving[r].amend <= amend
    BY <1>1 DEF Linger!Inv, Linger!ToldOfThePast
  <2>2. \A f \in DOMAIN serving' : serving'[f].head <= head' /\ serving'[f].amend <= amend'
    BY <1>1, <1>2, <1>3, <2>1 DEF Linger!Inv, Linger!ToldOfThePast
  <2>3. \A f \in DOMAIN followers' : followers'[f].head <= head' /\ followers'[f].amend <= amend'
    BY <1>0, <1>1, <2>1 DEF Linger!Inv, Linger!ToldOfThePast
  <2>. QED
    BY <1>1, <2>2, <2>3 DEF Linger!Inv, Linger!ToldOfThePast
<1>6. Linger!NotedAtItsPoll'
  <2>1. last'[r] <= followers'[r].at
    BY <1>1 DEF Linger!Inv, Linger!ToldOfThePast
  <2>2. ASSUME NEW f \in S
        PROVE  last'[f] <= followers'[f].at \/ (f \in DOMAIN serving' /\ ~serving'[f].noted)
    BY <1>0, <1>1, <1>2 DEF Linger!Inv, Linger!NotedAtItsPoll
  <2>3. now' # 0 /\ \A f \in DOMAIN serving' \cup DOMAIN followers' : last'[f] # 0
    BY <1>0, <1>1, <1>2 DEF Linger!Inv, Linger!NotedAtItsPoll
  <2>. QED
    BY <1>1, <2>1, <2>2, <2>3 DEF Linger!NotedAtItsPoll
<1>7. Linger!NotGivenUp'
  <2>1. now' < followers'[r].at + Interval[r] + Slack
    BY <1>1
  <2>2. \A f \in S : polls'[f] => now' < followers'[f].at + Interval[f] + Slack
    BY <1>0, <1>1 DEF Linger!Inv, Linger!NotGivenUp, Linger!ReadDue
  <2>. QED
    BY <1>1, <2>1, <2>2 DEF Linger!NotGivenUp, Linger!ReadDue
<1>. QED
  BY <1>4, <1>5, <1>6, <1>7 DEF Linger!Inv

LEMMA LingerAnswer ==
  ASSUME NEW r \in Readers
  PROVE  Linger!Inv /\ Linger!Answer(r) => Linger!Inv'
<1>. SUFFICES ASSUME Linger!Inv, Linger!Answer(r) PROVE Linger!Inv'
  OBVIOUS
<1>. USE LingerConstants, LingerParts
<1>0. /\ r \in DOMAIN serving /\ serving[r].noted /\ DOMAIN serving' = DOMAIN serving \ {r}
      /\ \A f \in DOMAIN serving \ {r} : serving'[f] = serving[f]
      /\ UNCHANGED <<now, head, amend, followers, polls, last, session, lingerTo>>
  BY DEF Linger!Answer
<1>1. Linger!Kinds'
  <2>0. got \in [Readers -> [head : Nat, amend : Nat]]
    BY DEF Linger!Inv, Linger!Kinds, Linger!TypeOK
  <2>1. serving[r].head \in Nat /\ serving[r].amend \in Nat
    BY <1>0 DEF Serving
  <2>2. got' \in [Readers -> [head : Nat, amend : Nat]]
    BY <2>0, <2>1 DEF Linger!Answer
  <2>3. Linger!TypeOK'
    BY <1>0, <2>2 DEF Linger!Inv, Linger!Kinds, Linger!TypeOK
  <2>4. \A f \in DOMAIN serving' : serving'[f] \in Serving
    BY <1>0
  <2>5. /\ Linger!IsFiniteSet(DOMAIN followers')
        /\ \A f \in DOMAIN followers' : followers'[f] \in [at : Nat, head : Nat, amend : Nat]
    BY <1>0 DEF Linger!Inv, Linger!Kinds
  <2>. QED
    BY <2>3, <2>4, <2>5 DEF Linger!Kinds, Serving
<1>2. Linger!ToldOfThePast' /\ Linger!NotGivenUp'
  BY <1>0 DEF Linger!Inv, Linger!ToldOfThePast, Linger!NotGivenUp, Linger!ReadDue
<1>3. Linger!NotedAtItsPoll'
  BY <1>0 DEF Linger!Inv, Linger!NotedAtItsPoll
<1>. QED
  BY <1>1, <1>2, <1>3 DEF Linger!Inv

LEMMA LingerStopPolling ==
  ASSUME NEW r \in Readers
  PROVE  Linger!Inv /\ Linger!StopPolling(r) => Linger!Inv'
<1>. SUFFICES ASSUME Linger!Inv, Linger!StopPolling(r) PROVE Linger!Inv'
  OBVIOUS
<1>. USE LingerConstants, LingerParts
<1>0. /\ polls' \in [Readers -> BOOLEAN] /\ \A f \in Readers : polls'[f] => polls[f]
      /\ UNCHANGED <<now, head, amend, followers, last, serving, got, session, lingerTo>>
  BY DEF Linger!StopPolling
<1>1. Linger!Kinds'
  BY <1>0 DEF Linger!Inv, Linger!Kinds, Linger!TypeOK
<1>2. Linger!ToldOfThePast' /\ Linger!NotedAtItsPoll'
  BY <1>0 DEF Linger!Inv, Linger!ToldOfThePast, Linger!NotedAtItsPoll
<1>3. Linger!NotGivenUp'
  BY <1>0 DEF Linger!Inv, Linger!NotGivenUp, Linger!ReadDue
<1>. QED
  BY <1>1, <1>2, <1>3 DEF Linger!Inv

(* The session's end moves nothing the invariant speaks of but its phase.  *)
LEMMA LingerPhase ==
  Linger!Inv /\ (Linger!Begin \/ Linger!Return \/ Linger!Exit) => Linger!Inv'
<1>. SUFFICES ASSUME Linger!Inv, Linger!Begin \/ Linger!Return \/ Linger!Exit PROVE Linger!Inv'
  OBVIOUS
<1>. USE LingerConstants, LingerParts
<1>0. /\ lingerTo' \in Nat /\ session' \in {"open", "lingering", "over", "gone"}
      /\ UNCHANGED <<now, head, amend, followers, polls, last, serving, got>>
  BY DEF Linger!Begin, Linger!Return, Linger!Exit
<1>1. Linger!Kinds'
  BY <1>0 DEF Linger!Inv, Linger!Kinds, Linger!TypeOK
<1>2. Linger!ToldOfThePast' /\ Linger!NotedAtItsPoll'
  BY <1>0 DEF Linger!Inv, Linger!ToldOfThePast, Linger!NotedAtItsPoll
<1>3. Linger!NotGivenUp'
  BY <1>0 DEF Linger!Inv, Linger!NotGivenUp, Linger!ReadDue
<1>. QED
  BY <1>1, <1>2, <1>3 DEF Linger!Inv

(* The clock advances past no reader's due: the poll it reads by is noted. *)
LEMMA LingerTick == Linger!Inv /\ Linger!Tick => Linger!Inv'
<1>. SUFFICES ASSUME Linger!Inv, Linger!Tick PROVE Linger!Inv'
  OBVIOUS
<1>. USE LingerConstants, LingerParts
<1>0. /\ now' = now + 1 /\ now' \in Nat /\ now' # 0 /\ now <= now'
      /\ UNCHANGED <<head, amend, followers, polls, last, serving, got, session, lingerTo>>
      /\ \A r \in Readers : polls[r] /\ last[r] # 0 => now + 1 < last[r] + Interval[r] + Slack
      /\ \A r \in DOMAIN serving : serving[r].noted
  BY DEF Linger!Tick, Linger!Due
<1>1. Linger!Kinds'
  BY <1>0 DEF Linger!Inv, Linger!Kinds, Linger!TypeOK
<1>2. Linger!ToldOfThePast'
  BY <1>0 DEF Linger!Inv, Linger!ToldOfThePast
<1>3. Linger!NotedAtItsPoll'
  BY <1>0 DEF Linger!Inv, Linger!NotedAtItsPoll
<1>4. ASSUME NEW r \in DOMAIN followers, polls[r]
      PROVE  now + 1 < followers[r].at + Interval[r] + Slack
  <2>1. last[r] <= followers[r].at /\ last[r] # 0
    BY <1>0 DEF Linger!Inv, Linger!NotedAtItsPoll
  <2>2. followers[r].at \in Nat /\ last[r] \in Nat /\ r \in Readers
    BY DEF Table
  <2>. QED
    BY <1>0, <1>4, <2>1, <2>2
<1>5. Linger!NotGivenUp'
  BY <1>0, <1>4 DEF Linger!NotGivenUp, Linger!ReadDue
<1>. QED
  BY <1>1, <1>2, <1>3, <1>5 DEF Linger!Inv

LEMMA LingerStill == Linger!Inv /\ UNCHANGED Linger!vars => Linger!Inv'
<1>. SUFFICES ASSUME Linger!Inv, UNCHANGED Linger!vars PROVE Linger!Inv'
  OBVIOUS
<1>0. UNCHANGED <<now, head, amend, followers, polls, last, serving, got, session, lingerTo>>
  BY DEF Linger!vars
<1>1. Linger!Kinds'
  BY <1>0 DEF Linger!Inv, Linger!Kinds, Linger!TypeOK
<1>2. Linger!ToldOfThePast' /\ Linger!NotedAtItsPoll' /\ Linger!NotGivenUp'
  BY <1>0
     DEF Linger!Inv, Linger!ToldOfThePast, Linger!NotedAtItsPoll, Linger!NotGivenUp, Linger!ReadDue
<1>. QED
  BY <1>1, <1>2 DEF Linger!Inv

LEMMA LingerStep == Linger!Inv /\ [Linger!Next]_(Linger!vars) => Linger!Inv'
<1>. SUFFICES ASSUME Linger!Inv, [Linger!Next]_(Linger!vars) PROVE Linger!Inv'
  OBVIOUS
<1>1. CASE Linger!Change
  BY <1>1, LingerChange
<1>2. CASE Linger!Begin \/ Linger!Return \/ Linger!Exit
  BY <1>2, LingerPhase
<1>3. CASE Linger!Tick
  BY <1>3, LingerTick
<1>4. ASSUME NEW r \in Readers,
             Linger!Poll(r) \/ Linger!Followed(r) \/ Linger!Answer(r) \/ Linger!StopPolling(r)
      PROVE  Linger!Inv'
  BY <1>4, LingerPoll, LingerFollowed, LingerAnswer, LingerStopPolling
<1>5. CASE UNCHANGED Linger!vars
  BY <1>5, LingerStill
<1>. QED
  BY <1>1, <1>2, <1>3, <1>4, <1>5 DEF Linger!Next

(* The table of a session's readers keeps its bound, says of nobody that   *)
(* it read what was not there, is as recent as each reader's last poll     *)
(* noted, and so gives up none that still polls (LogRing::followed).       *)
THEOREM LingerInvariance == Linger!Spec => []Linger!Inv
<1>. QED
  BY LingerStart, LingerStep, PTL DEF Linger!Spec

(* LogRing::linger returns only once every reader that still polls, and    *)
(* whose next read falls within the longest wait, has had a read noted     *)
(* since the last change, for any readers, paces, slack and table.         *)
THEOREM LastReadsAreNoted == Linger!Spec => LastReadNoted
<1>. DEFINE A == session = "lingering" /\ session' = "over" =>
                   \A r \in Readers : Linger!Owed(r) => Linger!UpToDate(r, followers[r])
<1>1. Linger!Inv /\ [Linger!Next]_(Linger!vars) => [A]_(Linger!vars)
  <2>. SUFFICES ASSUME Linger!Inv, Linger!Next, session = "lingering", session' = "over",
                       NEW r \in Readers, Linger!Owed(r)
                PROVE  Linger!UpToDate(r, followers[r])
    BY DEF A
  <2>. USE LingerConstants, LingerParts
  <2>1. Linger!Return
    BY DEF Linger!Next, Linger!Change, Linger!Begin, Linger!Exit, Linger!Tick, Linger!Poll,
           Linger!Followed, Linger!Answer, Linger!StopPolling
  <2>2. r \in DOMAIN followers /\ polls[r] /\ Linger!ReadDue(r) <= lingerTo
    BY DEF Linger!Owed
  <2>3. now < Linger!ReadDue(r)
    BY <2>2 DEF Linger!Inv, Linger!NotGivenUp
  <2>4. Linger!ReadDue(r) \in Nat /\ followers[r].head \in Nat /\ followers[r].amend \in Nat
    BY <2>2 DEF Linger!ReadDue, Table
  <2>5. ~Linger!Behind(r)
    BY <2>1, <2>2, <2>3, <2>4 DEF Linger!Return, Linger!Awaited
  <2>6. followers[r].head <= head /\ followers[r].amend <= amend
    BY <2>2 DEF Linger!Inv, Linger!ToldOfThePast
  <2>. QED
    BY <2>4, <2>5, <2>6 DEF Linger!Behind, Linger!UpToDate
<1>. QED
  BY <1>1, LingerInvariance, PTL DEF LastReadNoted, Linger!LastReadNoted, Linger!Spec

-----------------------------------------------------------------------------
(* Every variable keeps its type, and the rings, the table of readers and  *)
(* the pool their bounds.                                                  *)
THEOREM TypesKept == Spec /\ Linger!Spec /\ Pool!Spec => []TypesOK
<1>1. Inv /\ Linger!Inv /\ Pool!Inv => TypesOK
  BY LogTypes DEF TypesOK, Linger!Inv, Linger!Kinds, Pool!Inv, Pool!Kinds
<1>. QED
  BY <1>1, LogInvariance, LingerInvariance, PoolInvariance, PTL
=============================================================================
