------------------------- MODULE UpstreamJudgeProofs ------------------------
(***************************************************************************)
(* Proofs about the judge of upstreams, for any number of requests, rules, *)
(* destinations and caps, of a proxy that lies and of one that does not.   *)
(***************************************************************************)
EXTENDS MCUpstreamJudge, Integers, TLAPS, FiniteSetTheorems, SequenceTheorems, WellFoundedInduction

-----------------------------------------------------------------------------
(* The lists of the judge: an entry is taken out, or one is added.         *)

(* A set of positions has a least one.                                     *)
LEMMA MinIsLeast ==
  ASSUME NEW n \in Nat, NEW S \in SUBSET (1 .. n), S # {}
  PROVE  Min(S) \in S /\ \A y \in S : Min(S) <= y
<1>. DEFINE upTo(x) == {y \in S : y <= x}
            U == {upTo(x) : x \in S}
<1>0. IsFiniteSet(1 .. n)
  BY FS_Interval
<1>1. IsFiniteSet(S)
  BY <1>0, FS_Subset, Zenon
<1>7. S \subseteq Nat
  OBVIOUS
<1>2. IsWellFoundedOn(StrictSubsetOrdering(S), SUBSET S)
  BY <1>1, FS_StrictSubsetOrderingWellFounded, FS_FiniteSubsetsOfFinite
<1>3. U \subseteq SUBSET S /\ U # {}
  OBVIOUS
<1>4. PICK u \in U : \A v \in U : ~(<<v, u>> \in StrictSubsetOrdering(S))
  BY <1>2, <1>3, WFMin, Zenon
<1>5. PICK x \in S : u = upTo(x)
  OBVIOUS
<1>6. ASSUME NEW y \in S PROVE x <= y
  <2>. SUFFICES ASSUME y < x PROVE FALSE
    OBVIOUS
  <2>4. x \in Nat /\ y \in Nat /\ x <= x /\ ~(x <= y)
    BY <1>7
  <2>5. \A z \in S : z <= y => z <= x
    BY <1>7, <2>4
  <2>1. upTo(y) \subseteq upTo(x) /\ x \in upTo(x) /\ x \notin upTo(y)
    BY <2>4, <2>5
  <2>2. upTo(y) \in U /\ upTo(y) \in SUBSET S /\ upTo(x) \in SUBSET S
    OBVIOUS
  <2>3. <<upTo(y), upTo(x)>> \in StrictSubsetOrdering(S)
    BY <2>1, <2>2, Zenon DEF StrictSubsetOrdering
  <2>. QED
    BY <1>4, <1>5, <2>2, <2>3
<1>. QED
  BY <1>6, <1>7 DEF Min

(* The positions at which a list holds one of some entries.                *)
Where(s, P) == {i \in DOMAIN s : s[i] \in P}

(* q is s without its entry i.                                             *)
Without(s, i, q) ==
  /\ Len(q) = Len(s) - 1
  /\ \A j \in 1 .. Len(s) - 1 : q[j] = IF j < i THEN s[j] ELSE s[j + 1]

LEMMA RemovedAt ==
  ASSUME NEW T, NEW s \in Seq(T), NEW i \in 1 .. Len(s)
  PROVE  RemoveAt(s, i) \in Seq(T) /\ Without(s, i, RemoveAt(s, i))
<1>. DEFINE a == SubSeq(s, 1, i - 1)
            b == SubSeq(s, i + 1, Len(s))
<1>1. /\ a \in Seq(T) /\ Len(a) = i - 1
      /\ \A j \in 1 .. i - 1 : a[j] = s[j]
  OBVIOUS
<1>2. /\ b \in Seq(T) /\ Len(b) = Len(s) - i
      /\ \A j \in 1 .. Len(s) - i : b[j] = s[i + j]
  OBVIOUS
<1>. HIDE DEF a, b
<1>3. a \o b \in Seq(T) /\ Len(a \o b) = Len(s) - 1
  <2>1. a \o b \in Seq(T) /\ Len(a \o b) = Len(a) + Len(b)
    BY <1>1, <1>2, ConcatProperties, Zenon
  <2>. QED
    BY <1>1, <1>2, <2>1
<1>6. \A j \in 1 .. i - 1 : (a \o b)[j] = s[j]
  BY <1>1, <1>2
<1>4. ASSUME NEW j \in i .. Len(s) - 1 PROVE (a \o b)[j] = s[j + 1]
  <2>1. (a \o b)[j] = b[j - (i - 1)]
    BY <1>1, <1>2, <1>4
  <2>2. j - (i - 1) \in 1 .. Len(s) - i /\ i + (j - (i - 1)) = j + 1
    BY <1>4
  <2>. QED
    BY <1>2, <2>1, <2>2
<1>5. RemoveAt(s, i) = a \o b
  BY DEF RemoveAt, a, b
<1>. QED
  BY <1>3, <1>4, <1>5, <1>6 DEF Without

LEMMA TailRemoves ==
  ASSUME NEW T, NEW s \in Seq(T), s # << >>
  PROVE  Tail(s) \in Seq(T) /\ 1 \in 1 .. Len(s) /\ Without(s, 1, Tail(s))
BY DEF Without

LEMMA PositionsCount ==
  ASSUME NEW T, NEW s \in Seq(T), NEW P
  PROVE  /\ IsFiniteSet(Where(s, P)) /\ Cardinality(Where(s, P)) \in Nat
         /\ Cardinality(Where(s, P)) <= Len(s)
<1>0. Len(s) \in Nat /\ 1 \in Int /\ Len(s) \in Int
  OBVIOUS
<1>1. IsFiniteSet(1 .. Len(s)) /\ Cardinality(1 .. Len(s)) = Len(s)
  BY <1>0, FS_Interval
<1>2. Where(s, P) \in SUBSET (1 .. Len(s))
  BY DEF Where
<1>3. IsFiniteSet(Where(s, P)) /\ Cardinality(Where(s, P)) <= Cardinality(1 .. Len(s))
  BY <1>1, <1>2, FS_Subset, Zenon
<1>4. Cardinality(Where(s, P)) \in Nat
  BY <1>3, FS_CardinalityType
<1>. QED
  BY <1>1, <1>3, <1>4

(* Taking an entry out makes no other one appear or disappear.             *)
LEMMA WithoutCounts ==
  ASSUME NEW T, NEW s \in Seq(T), NEW i \in 1 .. Len(s), NEW q \in Seq(T),
         Without(s, i, q), NEW P
  PROVE  Cardinality(Where(q, P)) =
           IF s[i] \in P THEN Cardinality(Where(s, P)) - 1 ELSE Cardinality(Where(s, P))
<1>. DEFINE f == [j \in Where(q, P) |-> IF j < i THEN j ELSE j + 1]
            R == Where(s, P) \ {i}
<1>0. DOMAIN q = 1 .. Len(s) - 1 /\ DOMAIN s = 1 .. Len(s) /\ Len(s) \in Nat
  BY DEF Without
<1>1. \A j \in Where(q, P) : f[j] \in R
  BY <1>0 DEF Without, Where
<1>2. \A j, k \in Where(q, P) : f[j] = f[k] => j = k
  BY <1>0 DEF Where
<1>3. \A k \in R : \E j \in Where(q, P) : f[j] = k
  <2>. TAKE k \in R
  <2>1. CASE k < i
    <3>1. k \in Where(q, P)
      BY <1>0, <2>1 DEF Without, Where
    <3>. QED
      BY <2>1, <3>1
  <2>2. CASE k > i
    <3>1. k - 1 \in Where(q, P) /\ ~(k - 1 < i)
      BY <1>0, <2>2 DEF Without, Where
    <3>. QED
      BY <1>0, <3>1, <2>2 DEF Where
  <2>. QED
    BY <1>0, <2>1, <2>2 DEF Where
<1>4. f \in Bijection(Where(q, P), R)
  BY <1>1, <1>2, <1>3 DEF Bijection, Injection, Surjection, IsInjective
<1>5. Cardinality(R) = Cardinality(Where(q, P))
  BY <1>4, FS_Bijection, PositionsCount DEF ExistsBijection
<1>6. i \in Where(s, P) <=> s[i] \in P
  BY <1>0 DEF Where
<1>. QED
  BY <1>5, <1>6, PositionsCount, FS_RemoveElement

(* What is left of a list is of the list.                                  *)
LEMMA WithoutKeeps ==
  ASSUME NEW T, NEW s \in Seq(T), NEW i \in 1 .. Len(s), NEW q \in Seq(T), Without(s, i, q)
  PROVE  /\ \A j \in DOMAIN q : \E k \in DOMAIN s : q[j] = s[k]
         /\ \A k \in DOMAIN s : k # i => \E j \in DOMAIN q : q[j] = s[k]
<1>0. DOMAIN q = 1 .. Len(s) - 1 /\ DOMAIN s = 1 .. Len(s) /\ Len(s) \in Nat
  BY DEF Without
<1>1. ASSUME NEW j \in DOMAIN q PROVE \E k \in DOMAIN s : q[j] = s[k]
  <2>1. j \in DOMAIN s /\ j + 1 \in DOMAIN s
    BY <1>0, <1>1
  <2>. QED
    BY <1>0, <1>1, <2>1 DEF Without
<1>2. ASSUME NEW k \in DOMAIN s, k # i PROVE \E j \in DOMAIN q : q[j] = s[k]
  <2>1. CASE k < i
    BY <1>0, <1>2, <2>1 DEF Without
  <2>2. CASE k > i
    <3>1. k - 1 \in DOMAIN q /\ ~(k - 1 < i)
      BY <1>0, <1>2, <2>2
    <3>. QED
      BY <1>0, <1>2, <3>1 DEF Without
  <2>. QED
    BY <1>0, <1>2, <2>1, <2>2
<1>. QED
  BY <1>1, <1>2

LEMMA Appended ==
  ASSUME NEW T, NEW s \in Seq(T), NEW x \in T, NEW P
  PROVE  /\ Append(s, x) \in Seq(T) /\ Len(Append(s, x)) = Len(s) + 1
         /\ DOMAIN Append(s, x) = DOMAIN s \cup {Len(s) + 1}
         /\ \A i \in DOMAIN s : Append(s, x)[i] = s[i]
         /\ Append(s, x)[Len(s) + 1] = x
         /\ Cardinality(Where(Append(s, x), P)) =
              IF x \in P THEN Cardinality(Where(s, P)) + 1 ELSE Cardinality(Where(s, P))
<1>1. /\ Append(s, x) \in Seq(T) /\ Len(Append(s, x)) = Len(s) + 1
      /\ DOMAIN Append(s, x) = DOMAIN s \cup {Len(s) + 1}
      /\ \A i \in DOMAIN s : Append(s, x)[i] = s[i]
      /\ Append(s, x)[Len(s) + 1] = x
  OBVIOUS
<1>2. Where(Append(s, x), P) = IF x \in P THEN Where(s, P) \cup {Len(s) + 1} ELSE Where(s, P)
  BY <1>1 DEF Where
<1>3. Len(s) + 1 \notin Where(s, P)
  BY DEF Where
<1>4. /\ IsFiniteSet(Where(s, P))
      /\ Cardinality(Where(s, P) \cup {Len(s) + 1}) = Cardinality(Where(s, P)) + 1
  BY <1>3, PositionsCount, FS_AddElement
<1>. QED
  BY <1>1, <1>2, <1>4

-----------------------------------------------------------------------------
(* The invariant of every proxy.                                           *)

USE DEF overlayVars, requestVars, questionVars, historyVars

(* Nothing is asked, granted or kept.                                      *)
LEMMA InitInv == Init => Inv
<1>. SUFFICES ASSUME Init PROVE Inv
  OBVIOUS
<1>1. /\ DOMAIN grants = {} /\ DOMAIN kept = {}
      /\ grants \in Seq(Endpoints) /\ kept \in Seq(Checks)
  BY DEF Init
<1>2. Cardinality({}) = 0 /\ 0 \in 0 .. Cap /\ Cap \in Nat
  BY FS_EmptySet, CapsAssumption
<1>3. TypeOK
  BY <1>1, <1>2 DEF Init, TypeOK, Stages, QPCs
<1>4. AskedInOrder /\ RulesGrow /\ AllowsAreGiven /\ JudgedAgain
  BY <1>1 DEF Init, AskedInOrder, InOrder, RulesGrow, AllowsAreGiven, JudgedAgain, NoQuestion
<1>5. PlacesCounted
  <2>1. Served = {}
    BY DEF Init, Served
  <2>. QED
    BY <1>2, <2>1 DEF Init, PlacesCounted
<1>6. GrantsConserved
  <2>1. \A e \in Endpoints : Waiting(e) = {} /\ used[e] = 0 /\ given[e] = 0
    BY <1>1 DEF Init, Waiting
  <2>. QED
    BY <1>2, <2>1 DEF GrantsConserved
<1>7. KeptBounded
  <2>1. Ungranted = {}
    BY <1>1 DEF Ungranted
  <2>. QED
    BY <1>2, <2>1 DEF KeptBounded
<1>. QED
  BY <1>3, <1>4, <1>5, <1>6, <1>7 DEF Inv

(* The judge's rules only grow (Judge::sent), and the proxy's follow them. *)
LEMMA OverlayInv ==
  ASSUME Inv, judged \subseteq judged', judged' \in SUBSET Loadable,
         inForce' \subseteq judged',
         UNCHANGED <<grants, kept, requestVars, questionVars, historyVars>>
  PROVE  Inv'
<1>1. TypeOK' /\ AskedInOrder' /\ PlacesCounted'
  BY DEF Inv, TypeOK, AskedInOrder, InOrder, PlacesCounted, Served
<1>2. RulesGrow' /\ AllowsAreGiven'
  BY DEF Inv, RulesGrow, AllowsAreGiven
<1>3. JudgedAgain'
  BY DEF Inv, JudgedAgain, Permitted, Denied, Allowed, Says
<1>4. GrantsConserved' /\ KeptBounded'
  BY DEF Inv, GrantsConserved, KeptBounded, Waiting, Ungranted
<1>. QED
  BY <1>1, <1>2, <1>3, <1>4 DEF Inv

(* A request that asks nothing goes on, or is refused.                     *)
LEMMA MoveInv ==
  ASSUME Inv, NEW r \in Requests, NEW to \in Stages \ {"asking"},
         stage[r] # "asking", stage' = [stage EXCEPT ![r] = to],
         NEW why \in {"none", "policy", "asked", "Busy", "Supervisor", "Upstream"},
         refusal' = [refusal EXCEPT ![r] = why],
         UNCHANGED <<overlayVars, grants, kept, asks, questionVars, historyVars>>
  PROVE  Inv'
<1>1. TypeOK' /\ PlacesCounted'
  BY DEF Inv, TypeOK, PlacesCounted, Served
<1>2. AskedInOrder'
  BY DEF Inv, TypeOK, AskedInOrder, InOrder
<1>3. RulesGrow' /\ AllowsAreGiven' /\ JudgedAgain'
  BY DEF Inv, RulesGrow, AllowsAreGiven, JudgedAgain, Permitted
<1>4. GrantsConserved' /\ KeptBounded'
  BY DEF Inv, GrantsConserved, KeptBounded, Waiting, Ungranted
<1>. QED
  BY <1>1, <1>2, <1>3, <1>4 DEF Inv

(* The positions of the operator's allows, and of the checks without one.  *)
LEMMA Positions ==
  ASSUME Inv
  PROVE  /\ grants \in Seq(Endpoints) /\ kept \in Seq(Checks)
         /\ \A e : Waiting(e) = Where(grants, {e})
         /\ \A e : (Waiting(e))' = Where(grants', {e})
         /\ Ungranted = Where(kept, {c \in Checks : ~c.granted})
         /\ kept' \in Seq(Checks) => Ungranted' = Where(kept', {c \in Checks : ~c.granted})
<1>1. grants \in Seq(Endpoints) /\ kept \in Seq(Checks)
  BY DEF Inv, TypeOK
<1>2. \A e : Waiting(e) = Where(grants, {e}) /\ (Waiting(e))' = Where(grants', {e})
  BY DEF Waiting, Where
<1>3. Ungranted = Where(kept, {c \in Checks : ~c.granted})
  BY <1>1 DEF Ungranted, Where
<1>4. ASSUME kept' \in Seq(Checks) PROVE Ungranted' = Where(kept', {c \in Checks : ~c.granted})
  BY <1>4 DEF Ungranted, Where
<1>. QED
  BY <1>1, <1>2, <1>3, <1>4

(* Judge::grant.                                                           *)
LEMMA NoteGrantInv ==
  ASSUME Inv, NEW r \in Requests, NoteGrant(r)
  PROVE  Inv'
<1>. DEFINE waiting == IF Len(grants) >= GrantCap THEN Tail(grants) ELSE grants
            e == Endpoint[asks[r]]
<1>0. /\ stage[r] = "parked" /\ grants' = Append(waiting, e)
      /\ given' = [given EXCEPT ![e] = @ + 1] /\ stage' = [stage EXCEPT ![r] = "noted"]
      /\ UNCHANGED <<overlayVars, kept, asks, refusal, questionVars, used>>
  BY DEF NoteGrant, Move
<1>1. e \in Endpoints /\ grants \in Seq(Endpoints)
  BY DEF Inv, TypeOK, Endpoints
<1>. HIDE DEF waiting, e
<1>2. /\ waiting \in Seq(Endpoints)
      /\ \A x : Cardinality(Where(waiting, {x})) <= Cardinality(Where(grants, {x}))
      /\ \A j \in DOMAIN waiting : \E k \in DOMAIN grants : waiting[j] = grants[k]
  <2>1. CASE Len(grants) >= GrantCap
    <3>1. grants # << >> /\ waiting = Tail(grants)
      BY <1>1, <2>1, CapsAssumption DEF waiting
    <3>2. /\ waiting \in Seq(Endpoints) /\ 1 \in 1 .. Len(grants)
          /\ Without(grants, 1, waiting)
      BY <1>1, <3>1, TailRemoves, Zenon
    <3>3. ASSUME NEW x PROVE Cardinality(Where(waiting, {x})) <= Cardinality(Where(grants, {x}))
      <4>1. Cardinality(Where(waiting, {x})) = IF grants[1] \in {x}
              THEN Cardinality(Where(grants, {x})) - 1 ELSE Cardinality(Where(grants, {x}))
        BY <1>1, <3>2, WithoutCounts
      <4>2. Cardinality(Where(grants, {x})) \in Nat
        BY <1>1, PositionsCount
      <4>. QED
        BY <4>1, <4>2
    <3>4. \A j \in DOMAIN waiting : \E k \in DOMAIN grants : waiting[j] = grants[k]
      BY <1>1, <3>2, WithoutKeeps
    <3>. QED
      BY <3>2, <3>3, <3>4
  <2>2. CASE ~(Len(grants) >= GrantCap)
    <3>1. waiting = grants
      BY <2>2 DEF waiting
    <3>2. ASSUME NEW x PROVE Cardinality(Where(grants, {x})) <= Cardinality(Where(grants, {x}))
      BY <1>1, PositionsCount
    <3>. QED
      BY <1>1, <3>1, <3>2
  <2>. QED
    BY <2>1, <2>2
<1>3. /\ grants' \in Seq(Endpoints) /\ DOMAIN grants' = DOMAIN waiting \cup {Len(waiting) + 1}
      /\ \A i \in DOMAIN waiting : grants'[i] = waiting[i]
      /\ grants'[Len(waiting) + 1] = e
  BY <1>0, <1>1, <1>2, Appended
<1>4. ASSUME NEW x
      PROVE  Cardinality(Where(grants', {x})) <=
               IF x = e THEN Cardinality(Where(grants, {x})) + 1 ELSE Cardinality(Where(grants, {x}))
  <2>1. Cardinality(Where(grants', {x})) = IF e \in {x}
          THEN Cardinality(Where(waiting, {x})) + 1 ELSE Cardinality(Where(waiting, {x}))
    BY <1>0, <1>1, <1>2, Appended
  <2>2. Cardinality(Where(waiting, {x})) \in Nat /\ Cardinality(Where(grants, {x})) \in Nat
    BY <1>1, <1>2, PositionsCount
  <2>3. Cardinality(Where(waiting, {x})) <= Cardinality(Where(grants, {x}))
    BY <1>2
  <2>4. CASE x = e
    BY <2>1, <2>2, <2>3, <2>4
  <2>5. CASE x # e
    BY <2>1, <2>2, <2>3, <2>5
  <2>. QED
    BY <2>4, <2>5
<1>5. /\ given' \in [Endpoints -> Nat] /\ used' = used
      /\ \A x \in Endpoints : given'[x] = IF x = e THEN given[x] + 1 ELSE given[x]
      /\ \A x \in Endpoints : given[x] \in Nat /\ used[x] \in Nat
  BY <1>0, <1>1 DEF Inv, TypeOK
<1>6. TypeOK'
  BY <1>0, <1>3, <1>5 DEF Inv, TypeOK, Stages
<1>7. AskedInOrder' /\ RulesGrow' /\ PlacesCounted' /\ KeptBounded'
  BY <1>0 DEF Inv, TypeOK, AskedInOrder, InOrder, RulesGrow, PlacesCounted, Served, KeptBounded,
              Ungranted
<1>8. AllowsAreGiven'
  <2>1. ASSUME NEW i \in DOMAIN grants' PROVE given'[grants'[i]] > 0
    <3>1. \A k \in DOMAIN grants : grants[k] \in Endpoints /\ given[grants[k]] > 0
      BY <1>1 DEF Inv, AllowsAreGiven
    <3>2. \/ grants'[i] = e
          \/ \E k \in DOMAIN grants : grants'[i] = grants[k]
      BY <1>2, <1>3, Zenon
    <3>. QED
      BY <1>1, <1>5, <3>1, <3>2
  <2>2. \A i \in DOMAIN kept' : kept'[i].granted => given'[kept'[i].at] > 0
    BY <1>0, <1>5 DEF Inv, AllowsAreGiven, TypeOK, Checks
  <2>3. ASSUME NEW x \in Requests, quest'[x].granted
        PROVE  given'[Endpoint[quest'[x].for]] > 0
    <3>1. Endpoint[quest[x].for] \in Endpoints
      BY <1>0, <2>3 DEF Inv, AskedInOrder, InOrder, Questions, NoQuestion, Endpoints
    <3>. QED
      BY <1>0, <1>5, <2>3, <3>1 DEF Inv, AllowsAreGiven
  <2>. QED
    BY <2>1, <2>2, <2>3 DEF AllowsAreGiven
<1>9. JudgedAgain'
  <2>. SUFFICES ASSUME NEW x \in Requests, quest[x].kind = "connect", Permitted(x)
                PROVE  Permitted(x)'
    BY <1>0 DEF Inv, JudgedAgain
  <2>1. quest[x].for \in Dests /\ Endpoint[quest[x].for] \in Endpoints
    BY DEF Inv, AskedInOrder, InOrder, Questions, Endpoints
  <2>. QED
    BY <1>0, <1>5, <2>1 DEF Permitted
<1>10. GrantsConserved'
  <2>. SUFFICES ASSUME NEW x \in Endpoints
                PROVE  used'[x] + Cardinality(Where(grants', {x})) <= given'[x]
    BY Positions DEF GrantsConserved
  <2>1. used[x] + Cardinality(Where(grants, {x})) <= given[x]
    BY Positions DEF Inv, GrantsConserved
  <2>2. Cardinality(Where(grants, {x})) \in Nat /\ Cardinality(Where(grants', {x})) \in Nat
    BY <1>1, <1>3, PositionsCount
  <2>3. CASE x = e
    <3>1. Cardinality(Where(grants', {x})) <= Cardinality(Where(grants, {x})) + 1
      BY <1>4, <2>3
    <3>. QED
      BY <1>5, <2>1, <2>2, <2>3, <3>1
  <2>4. CASE x # e
    <3>1. Cardinality(Where(grants', {x})) <= Cardinality(Where(grants, {x}))
      BY <1>4, <2>4
    <3>. QED
      BY <1>5, <2>1, <2>2, <2>4, <3>1
  <2>. QED
    BY <2>3, <2>4
<1>. QED
  BY <1>6, <1>7, <1>8, <1>9, <1>10 DEF Inv

(* A place is taken, and given back.                                       *)
LEMMA Places ==
  ASSUME Inv, NEW r \in Requests
  PROVE  /\ serving \in Nat /\ serving <= Cap /\ Cap \in Nat
         /\ r \notin Served => Cardinality(Served \cup {r}) = serving + 1
         /\ r \in Served => Cardinality(Served \ {r}) = serving - 1 /\ serving > 0
<1>1. IsFiniteSet(Served)
  BY RequestsAssumption, FS_Subset DEF Served
<1>2. serving \in Nat /\ serving <= Cap /\ Cap \in Nat /\ serving = Cardinality(Served)
  BY CapsAssumption DEF Inv, TypeOK, PlacesCounted
<1>3. r \in Served => serving # 0
  BY <1>1, <1>2, FS_EmptySet
<1>4. r \notin Served => Cardinality(Served \cup {r}) = Cardinality(Served) + 1
  BY <1>1, FS_AddElement
<1>5. r \in Served => Cardinality(Served \ {r}) = Cardinality(Served) - 1
  BY <1>1, FS_RemoveElement
<1>. QED
  BY <1>2, <1>3, <1>4, <1>5

(* Judge::enter lets a question in.                                        *)
LEMMA AskInv ==
  ASSUME Inv, NEW r \in Requests, NEW kind \in Kinds, NEW id \in Requests, NEW d \in Dests,
         Ask(r, kind, id, d)
  PROVE  Inv'
<1>. DEFINE next == IF kind = "check" THEN "decide" ELSE "lookup"
<1>0. /\ serving < Cap /\ serving' = serving + 1
      /\ quest' = [quest EXCEPT ![r] = Question(r, kind, id, d)]
      /\ qpc' = [qpc EXCEPT ![r] = next] /\ stage' = [stage EXCEPT ![r] = "asking"]
      /\ refusal' = [refusal EXCEPT ![r] = "none"]
      /\ UNCHANGED <<overlayVars, grants, kept, asks, historyVars>>
  BY DEF Ask, Move
<1>1. stage[r] # "asking" /\ qpc[r] = "none"
  BY DEF Ask, MayAsk, Free, Inv, AskedInOrder, InOrder
<1>2. /\ Question(r, kind, id, d) \in Questions /\ Question(r, kind, id, d).kind = kind
      /\ Question(r, kind, id, d).answer = "none" /\ Question(r, kind, id, d).granted = FALSE
      /\ Question(r, kind, id, d).since = judged
  BY DEF Inv, TypeOK, Question, Questions, Answers
<1>3. r \notin Served /\ Served' = Served \cup {r}
  BY <1>0, <1>1 DEF Inv, TypeOK, Served
<1>4. serving' \in 0 .. Cap /\ PlacesCounted'
  <2>1. /\ serving \in Nat /\ serving <= Cap /\ Cap \in Nat
        /\ Cardinality(Served \cup {r}) = serving + 1
    BY <1>3, Places
  <2>. QED
    BY <1>0, <1>3, <2>1 DEF PlacesCounted
<1>5. TypeOK'
  BY <1>0, <1>4 DEF Inv, TypeOK, Stages, QPCs
<1>6. AskedInOrder'
  <2>1. \A x \in Requests \ {r} : quest'[x] = quest[x] /\ qpc'[x] = qpc[x] /\ stage'[x] = stage[x]
    BY <1>0 DEF Inv, TypeOK, AskedInOrder
  <2>2. quest'[r] = Question(r, kind, id, d) /\ qpc'[r] = next /\ stage'[r] = "asking"
    BY <1>0 DEF Inv, TypeOK, AskedInOrder
  <2>3. InOrder(r)'
    BY <1>2, <2>2 DEF InOrder, Kinds
  <2>4. \A x \in Requests \ {r} : InOrder(x)'
    BY <2>1 DEF Inv, AskedInOrder, InOrder
  <2>. QED
    BY <1>0, <2>3, <2>4 DEF Inv, AskedInOrder
<1>7. RulesGrow' /\ AllowsAreGiven'
  BY <1>0, <1>2 DEF Inv, RulesGrow, AllowsAreGiven, AskedInOrder
<1>8. JudgedAgain'
  BY <1>0, <1>2 DEF Inv, TypeOK, JudgedAgain, Permitted, AskedInOrder
<1>9. GrantsConserved' /\ KeptBounded'
  BY <1>0 DEF Inv, GrantsConserved, KeptBounded, Waiting, Ungranted
<1>. QED
  BY <1>4, <1>5, <1>6, <1>7, <1>8, <1>9 DEF Inv

(* The host refuses the question a thread.                                 *)
LEMMA NoThreadInv ==
  ASSUME Inv, NEW r \in Requests, NoThread(r)
  PROVE  Inv'
<1>0. /\ qpc[r] \in {"decide", "lookup"} /\ serving' = serving - 1
      /\ qpc' = [qpc EXCEPT ![r] = "none"] /\ stage' = [stage EXCEPT ![r] = "refused"]
      /\ refusal' = [refusal EXCEPT ![r] = "Busy"]
      /\ UNCHANGED <<overlayVars, grants, kept, asks, quest, historyVars>>
  BY DEF NoThread, Move
<1>1. r \in Served /\ Served' = Served \ {r}
  BY <1>0 DEF Inv, TypeOK, Served
<1>2. serving' \in 0 .. Cap /\ PlacesCounted'
  <2>1. /\ serving \in Nat /\ serving > 0 /\ serving <= Cap /\ Cap \in Nat
        /\ Cardinality(Served \ {r}) = serving - 1
    BY <1>1, Places
  <2>. QED
    BY <1>0, <1>1, <2>1 DEF PlacesCounted
<1>3. TypeOK'
  BY <1>0, <1>2 DEF Inv, TypeOK, Stages, QPCs
<1>4. AskedInOrder'
  BY <1>0 DEF Inv, TypeOK, AskedInOrder, InOrder
<1>5. RulesGrow' /\ AllowsAreGiven' /\ JudgedAgain'
  BY <1>0 DEF Inv, TypeOK, RulesGrow, AllowsAreGiven, JudgedAgain, Permitted
<1>6. GrantsConserved' /\ KeptBounded'
  BY <1>0 DEF Inv, GrantsConserved, KeptBounded, Waiting, Ungranted
<1>. QED
  BY <1>2, <1>3, <1>4, <1>5, <1>6 DEF Inv

(* The answer thread gives the place back before it writes.                *)
LEMMA GiveBackInv ==
  ASSUME Inv, NEW r \in Requests, GiveBack(r)
  PROVE  Inv'
<1>0. /\ qpc[r] = "handed" /\ serving' = serving - 1 /\ qpc' = [qpc EXCEPT ![r] = "freed"]
      /\ UNCHANGED <<overlayVars, grants, kept, quest, requestVars, historyVars>>
  BY DEF GiveBack, Continue
<1>1. r \in Served /\ Served' = Served \ {r}
  BY <1>0 DEF Inv, TypeOK, Served
<1>2. serving' \in 0 .. Cap /\ PlacesCounted'
  <2>1. /\ serving \in Nat /\ serving > 0 /\ serving <= Cap /\ Cap \in Nat
        /\ Cardinality(Served \ {r}) = serving - 1
    BY <1>1, Places
  <2>. QED
    BY <1>0, <1>1, <2>1 DEF PlacesCounted
<1>3. TypeOK'
  BY <1>0, <1>2 DEF Inv, TypeOK, Stages, QPCs
<1>4. AskedInOrder'
  BY <1>0 DEF Inv, TypeOK, AskedInOrder, InOrder
<1>5. RulesGrow' /\ AllowsAreGiven' /\ JudgedAgain'
  BY <1>0 DEF Inv, TypeOK, RulesGrow, AllowsAreGiven, JudgedAgain, Permitted
<1>6. GrantsConserved' /\ KeptBounded'
  BY <1>0 DEF Inv, GrantsConserved, KeptBounded, Waiting, Ungranted
<1>. QED
  BY <1>2, <1>3, <1>4, <1>5, <1>6 DEF Inv

(* The answer is written.                                                  *)
LEMMA WriteInv ==
  ASSUME Inv, NEW r \in Requests, Write(r)
  PROVE  Inv'
<1>. DEFINE to == Answered[quest[r].answer]
<1>0. /\ qpc[r] = "freed" /\ qpc' = [qpc EXCEPT ![r] = "none"]
      /\ stage' = [stage EXCEPT ![r] = to] /\ quest' = [quest EXCEPT ![r] = NoQuestion]
      /\ UNCHANGED <<overlayVars, grants, kept, asks, serving, historyVars>>
  BY DEF Write, Continue, Move
<1>1. quest[r].answer \in {"Checked", "Connected", "Supervisor", "Upstream"}
  BY <1>0 DEF Inv, AskedInOrder, InOrder, Questions, Answers, NoQuestion
<1>2. to \in {"checked", "connected", "refused"}
  BY <1>1 DEF Answered
<1>. HIDE DEF to
<1>3. refusal' \in [Requests -> {"none", "policy", "asked", "Busy", "Supervisor", "Upstream"}]
  BY <1>1 DEF Inv, TypeOK, Write
<1>4. Served' = Served
  BY <1>0 DEF Inv, TypeOK, Served
<1>5. TypeOK' /\ PlacesCounted'
  BY <1>0, <1>2, <1>3, <1>4 DEF Inv, TypeOK, Stages, QPCs, PlacesCounted
<1>6. AskedInOrder'
  BY <1>0, <1>2 DEF Inv, TypeOK, AskedInOrder, InOrder, NoQuestion
<1>7. RulesGrow' /\ AllowsAreGiven' /\ JudgedAgain'
  BY <1>0 DEF Inv, TypeOK, RulesGrow, AllowsAreGiven, JudgedAgain, Permitted, AskedInOrder,
              NoQuestion
<1>8. GrantsConserved' /\ KeptBounded'
  BY <1>0 DEF Inv, GrantsConserved, KeptBounded, Waiting, Ungranted
<1>. QED
  BY <1>5, <1>6, <1>7, <1>8 DEF Inv

(* A thread goes on with its question.                                     *)
Goes(r, next, q) ==
  /\ next \in QPCs \ {"none", "freed"} /\ q \in Questions
  /\ qpc[r] \in QPCs \ {"none", "handed", "freed"}
  /\ q.kind = quest[r].kind /\ q.for = quest[r].for /\ q.since = quest[r].since
  /\ q.granted => given[Endpoint[q.for]] > 0
  /\ next \in {"decide", "take", "keep"} => q.kind = "check"
  /\ next \in {"lookup", "rule", "dial"} => q.kind = "connect"
  /\ q.answer # "none" <=> next = "handed"
  /\ q.answer = "Connected" => q.kind = "connect"
  /\ q.answer = "Checked" => q.kind = "check"
  /\ q.kind = "connect" /\ (next \in {"resolve", "dial"} \/ q.answer = "Connected")
     => Permitted(r)
  /\ quest' = [quest EXCEPT ![r] = q] /\ qpc' = [qpc EXCEPT ![r] = next]
  /\ UNCHANGED <<overlayVars, serving, requestVars, given>>

LEMMA ThreadGoes ==
  ASSUME Inv, NEW r \in Requests, NEW next, NEW q, Goes(r, next, q)
  PROVE  /\ AskedInOrder' /\ RulesGrow' /\ JudgedAgain' /\ PlacesCounted'
         /\ qpc' \in [Requests -> QPCs]
         /\ \A x \in Requests : quest'[x].granted => given'[Endpoint[quest'[x].for]] > 0
<1>0. /\ quest' = [quest EXCEPT ![r] = q] /\ qpc' = [qpc EXCEPT ![r] = next]
      /\ UNCHANGED <<overlayVars, serving, requestVars, given>>
      /\ next \in QPCs \ {"none", "freed"} /\ q \in Questions
      /\ qpc[r] \notin {"none", "handed", "freed"}
      /\ q.kind = quest[r].kind /\ q.for = quest[r].for /\ q.since = quest[r].since
  BY DEF Goes
<1>1. /\ quest'[r] = q /\ qpc'[r] = next /\ stage' = stage
      /\ \A x \in Requests \ {r} : quest'[x] = quest[x] /\ qpc'[x] = qpc[x]
      /\ DOMAIN quest' = Requests
  BY <1>0 DEF Inv, TypeOK, AskedInOrder
<1>2. qpc' \in [Requests -> QPCs]
  BY <1>0 DEF Inv, TypeOK
<1>3. InOrder(r)'
  <2>1. stage[r] = "asking" /\ q.kind \in Kinds /\ q.kind # "none"
    BY <1>0 DEF Inv, AskedInOrder, InOrder, Questions, Kinds
  <2>. QED
    BY <1>0, <1>1, <2>1 DEF InOrder, Goes
<1>4. \A x \in Requests \ {r} : InOrder(x)'
  BY <1>1 DEF Inv, AskedInOrder, InOrder
<1>5. RulesGrow'
  BY <1>0, <1>1 DEF Inv, RulesGrow
<1>6. Served' = Served
  BY <1>0, <1>1 DEF Served
<1>7. ASSUME NEW x \in Requests, quest'[x].kind = "connect",
             qpc'[x] \in {"resolve", "dial"} \/ quest'[x].answer = "Connected"
      PROVE  Permitted(x)'
  <2>1. CASE x = r
    <3>1. Permitted(r)
      BY <1>1, <1>7, <2>1 DEF Goes
    <3>. QED
      BY <1>0, <1>1, <2>1, <3>1 DEF Permitted
  <2>2. CASE x # r
    BY <1>0, <1>1, <1>7, <2>2 DEF Inv, JudgedAgain, Permitted
  <2>. QED
    BY <2>1, <2>2
<1>8. \A x \in Requests : quest'[x].granted => given'[Endpoint[quest'[x].for]] > 0
  BY <1>0, <1>1 DEF Inv, AllowsAreGiven, Goes
<1>. QED
  BY <1>0, <1>1, <1>2, <1>3, <1>4, <1>5, <1>6, <1>7, <1>8
     DEF Inv, AskedInOrder, PlacesCounted, JudgedAgain

LEMMA ThreadInv ==
  ASSUME Inv, NEW r \in Requests, NEW next, NEW q, Goes(r, next, q),
         UNCHANGED <<grants, kept, used>>
  PROVE  Inv'
<1>1. /\ AskedInOrder' /\ RulesGrow' /\ JudgedAgain' /\ PlacesCounted'
      /\ qpc' \in [Requests -> QPCs]
      /\ \A x \in Requests : quest'[x].granted => given'[Endpoint[quest'[x].for]] > 0
  BY ThreadGoes
<1>0. UNCHANGED <<overlayVars, serving, requestVars, given, grants, kept, used>>
  BY DEF Goes
<1>2. TypeOK'
  BY <1>0, <1>1 DEF Inv, TypeOK
<1>3. AllowsAreGiven'
  BY <1>0, <1>1 DEF Inv, AllowsAreGiven
<1>4. GrantsConserved' /\ KeptBounded'
  BY <1>0 DEF Inv, GrantsConserved, KeptBounded, Waiting, Ungranted
<1>. QED
  BY <1>1, <1>2, <1>3, <1>4 DEF Inv

(* The question a thread has, and the one it goes on with.                 *)
LEMMA Asked ==
  ASSUME Inv, NEW r \in Requests, qpc[r] \notin {"none", "handed", "freed"}
  PROVE  /\ quest[r] \in Questions /\ quest[r].answer = "none"
         /\ quest[r].for \in Dests /\ Endpoint[quest[r].for] \in Endpoints
         /\ qpc[r] \in QPCs \ {"none", "handed", "freed"}
         /\ quest[r].granted => given[Endpoint[quest[r].for]] > 0
         /\ [quest EXCEPT ![r] = quest[r]] = quest
         /\ quest[r].since \subseteq judged
<1>1. quest[r] \in Questions /\ quest[r].answer = "none"
  BY DEF Inv, AskedInOrder, InOrder
<1>. QED
  BY <1>1 DEF Inv, TypeOK, AskedInOrder, AllowsAreGiven, RulesGrow, Questions, Endpoints

(* What Judge::connect decides to go on with.                              *)
LEMMA MayGoOn ==
  ASSUME Inv, NEW r \in Requests, quest[r].for \in Dests, quest[r].since \subseteq judged,
         \/ Decision(judged, quest[r].for) = "allow"
         \/ /\ Decision(judged, quest[r].for) = "ask"
            /\ given[Endpoint[quest[r].for]] > 0
  PROVE  Permitted(r)
BY DEF Permitted, Decision, Denied, Allowed, Says

(* An answer is handed over.                                               *)
LEMMA HandGoes ==
  ASSUME Inv, NEW r \in Requests, NEW answer \in Answers \ {"none"},
         qpc[r] \notin {"none", "handed", "freed"}, Hand(r, answer),
         answer = "Connected" => quest[r].kind = "connect" /\ Permitted(r),
         answer = "Checked" => quest[r].kind = "check",
         UNCHANGED <<overlayVars, serving, requestVars, given>>
  PROVE  Goes(r, "handed", [quest[r] EXCEPT !.answer = answer])
<1>. DEFINE q == [quest[r] EXCEPT !.answer = answer]
<1>1. /\ q \in Questions /\ q.kind = quest[r].kind /\ q.for = quest[r].for
      /\ q.since = quest[r].since /\ q.granted = quest[r].granted /\ q.answer = answer
  BY Asked DEF Questions
<1>2. quest' = [quest EXCEPT ![r] = q] /\ qpc' = [qpc EXCEPT ![r] = "handed"]
  BY DEF Hand, Continue
<1>. HIDE DEF q
<1>3. Goes(r, "handed", q)
  BY <1>1, <1>2, Asked DEF Goes, QPCs
<1>. QED
  BY <1>3 DEF q

(* A thread that goes on with its question as it is.                       *)
LEMMA ContinueGoes ==
  ASSUME Inv, NEW r \in Requests, NEW next \in QPCs \ {"none", "handed", "freed"},
         qpc[r] \notin {"none", "handed", "freed"}, Continue(r, next), UNCHANGED quest,
         next \in {"decide", "take", "keep"} => quest[r].kind = "check",
         next \in {"lookup", "rule", "dial"} => quest[r].kind = "connect",
         quest[r].kind = "connect" /\ next \in {"resolve", "dial"} => Permitted(r),
         UNCHANGED <<overlayVars, serving, requestVars, given>>
  PROVE  Goes(r, next, quest[r])
BY Asked DEF Goes, Continue, Answers

(* Judge::check and Judge::connect up to their answer, where they neither  *)
(* take an allow nor keep a check.                                         *)
JudgeThread(r) ==
  \/ CheckDecide(r) \/ CheckUngranted(r) \/ Resolve(r) \/ ResolveFails(r)
  \/ ConnectLookup(r) \/ ConnectDecide(r) \/ Dial(r)

LEMMA JudgeThreadGoes ==
  ASSUME Inv, NEW r \in Requests, JudgeThread(r)
  PROVE  \E next, q : Goes(r, next, q) /\ UNCHANGED <<grants, kept, used>>
<1>0. /\ UNCHANGED <<overlayVars, grants, kept, serving, requestVars, historyVars>>
      /\ qpc[r] \notin {"none", "handed", "freed"}
  BY DEF JudgeThread, CheckDecide, CheckUngranted, Resolve, ResolveFails, ConnectLookup,
         ConnectDecide, Dial
<1>1. CASE \/ CheckUngranted(r) \/ ResolveFails(r)
           \/ (CheckDecide(r) \/ ConnectDecide(r)) /\ Hand(r, "Supervisor")
  <2>1. \E answer \in {"Supervisor", "Upstream"} : Hand(r, answer)
    BY <1>1 DEF CheckUngranted, ResolveFails
  <2>. QED
    BY <1>0, <2>1, HandGoes DEF Answers
<1>2. CASE CheckDecide(r) /\ ~Hand(r, "Supervisor")
  <2>1. PICK next \in {"resolve", "take"} : Continue(r, next) /\ UNCHANGED quest
    BY <1>2 DEF CheckDecide
  <2>2. quest[r].kind = "check" /\ next \in QPCs \ {"none", "handed", "freed"}
    BY <1>2 DEF CheckDecide, Inv, AskedInOrder, InOrder, QPCs
  <2>3. Goes(r, next, quest[r])
    BY <1>0, <2>1, <2>2, ContinueGoes
  <2>. QED
    BY <1>0, <2>3
<1>3. CASE Resolve(r)
  <2>1. PICK next \in {"keep", "dial"} :
          /\ Continue(r, next) /\ UNCHANGED quest
          /\ next = "keep" <=> quest[r].kind = "check"
    BY <1>3 DEF Resolve
  <2>2. /\ quest[r].kind \in Kinds /\ next \in QPCs \ {"none", "handed", "freed"}
        /\ quest[r].kind = "connect" => Permitted(r)
    BY <1>0, <1>3, Asked DEF Resolve, Inv, JudgedAgain, Questions, QPCs
  <2>3. Goes(r, next, quest[r])
    BY <1>0, <2>1, <2>2, ContinueGoes DEF Kinds
  <2>. QED
    BY <1>0, <2>3
<1>4. CASE ConnectDecide(r) /\ ~Hand(r, "Supervisor")
  <2>1. PICK next \in {"resolve", "dial"} : Continue(r, next) /\ UNCHANGED quest
    BY <1>4 DEF ConnectDecide
  <2>2. \/ Decision(judged, quest[r].for) = "allow"
        \/ Decision(judged, quest[r].for) = "ask" /\ quest[r].granted
    BY <1>4 DEF ConnectDecide
  <2>3. Permitted(r)
    BY <1>0, <2>2, Asked, MayGoOn
  <2>4. quest[r].kind = "connect" /\ next \in QPCs \ {"none", "handed", "freed"}
    BY <1>4 DEF ConnectDecide, Inv, AskedInOrder, InOrder, QPCs
  <2>5. Goes(r, next, quest[r])
    BY <1>0, <2>1, <2>3, <2>4, ContinueGoes
  <2>. QED
    BY <1>0, <2>5
<1>5. CASE Dial(r)
  <2>1. PICK answer \in {"Connected", "Upstream"} : Hand(r, answer)
    BY <1>5 DEF Dial
  <2>2. quest[r].kind = "connect" /\ Permitted(r)
    BY <1>5 DEF Dial, Inv, AskedInOrder, InOrder, JudgedAgain
  <2>3. Goes(r, "handed", [quest[r] EXCEPT !.answer = answer])
    BY <1>0, <2>1, <2>2, HandGoes DEF Answers
  <2>. QED
    BY <1>0, <2>3
<1>6. CASE ConnectLookup(r)
  <2>. DEFINE g == Named(r) # {} /\ kept[Min(Named(r))].granted
              q == [quest[r] EXCEPT !.found = Named(r) # {}, !.granted = g]
  <2>1. /\ quest' = [quest EXCEPT ![r] = q] /\ qpc' = [qpc EXCEPT ![r] = "rule"]
        /\ qpc[r] = "lookup" /\ quest[r].kind = "connect"
    BY <1>6 DEF ConnectLookup, Continue, Inv, AskedInOrder, InOrder
  <2>2. Named(r) # {} => Min(Named(r)) \in Named(r)
    <3>1. Named(r) \subseteq 1 .. Len(kept) /\ Len(kept) \in Nat
      BY DEF Named, Inv, TypeOK
    <3>. QED
      BY <3>1, MinIsLeast
  <2>3. Named(r) # {} => /\ kept[Min(Named(r))] \in Checks
                         /\ kept[Min(Named(r))].at = Endpoint[quest[r].for]
                         /\ kept[Min(Named(r))].granted => given[Endpoint[quest[r].for]] > 0
    <3>. SUFFICES ASSUME NEW m \in Named(r)
                  PROVE  /\ kept[m] \in Checks /\ kept[m].at = Endpoint[quest[r].for]
                         /\ kept[m].granted => given[Endpoint[quest[r].for]] > 0
      BY <2>2
    <3>1. m \in DOMAIN kept /\ kept[m].at = Endpoint[quest[r].for]
      BY DEF Named
    <3>2. kept \in Seq(Checks)
      BY DEF Inv, TypeOK
    <3>. QED
      BY <3>1, <3>2 DEF Inv, AllowsAreGiven
  <2>4. g \in BOOLEAN /\ (Named(r) # {}) \in BOOLEAN
    <3>1. Named(r) # {} => kept[Min(Named(r))].granted \in BOOLEAN
      BY <2>3 DEF Checks
    <3>. QED
      BY <3>1, Zenon
  <2>5. g => given[Endpoint[quest[r].for]] > 0
    BY <2>3
  <2>. HIDE DEF g
  <2>6. /\ q \in Questions /\ q.kind = quest[r].kind /\ q.for = quest[r].for
        /\ q.since = quest[r].since /\ q.granted = g /\ q.answer = "none"
    BY <1>0, <2>4, Asked DEF Questions
  <2>. HIDE DEF q
  <2>7. Goes(r, "rule", q)
    BY <1>0, <2>1, <2>5, <2>6 DEF Goes, QPCs
  <2>. QED
    BY <1>0, <2>7
<1>. QED
  BY <1>1, <1>2, <1>3, <1>4, <1>5, <1>6 DEF JudgeThread

LEMMA JudgeThreadInv ==
  ASSUME Inv, NEW r \in Requests, JudgeThread(r)
  PROVE  Inv'
BY JudgeThreadGoes, ThreadInv

(* Judge::take_grant: an allow goes to the check it is taken for.          *)
LEMMA CheckTakeInv ==
  ASSUME Inv, NEW r \in Requests, CheckTake(r)
  PROVE  Inv'
<1>. DEFINE e == Endpoint[quest[r].for]
            m == Min(Waiting(e))
            q == [quest[r] EXCEPT !.granted = TRUE]
<1>0. /\ qpc[r] = "take" /\ Waiting(e) # {} /\ grants' = RemoveAt(grants, m)
      /\ quest' = [quest EXCEPT ![r] = q] /\ qpc' = [qpc EXCEPT ![r] = "resolve"]
      /\ used' = [used EXCEPT ![e] = @ + 1]
      /\ UNCHANGED <<overlayVars, kept, serving, requestVars, given>>
  BY DEF CheckTake, Continue
<1>1. /\ e \in Endpoints /\ grants \in Seq(Endpoints) /\ quest[r] \in Questions
      /\ quest[r].kind = "check" /\ quest[r].answer = "none"
  BY <1>0, Asked DEF Inv, TypeOK, AskedInOrder, InOrder
<1>2. m \in Waiting(e)
  <2>1. Waiting(e) \subseteq 1 .. Len(grants) /\ Len(grants) \in Nat
    BY <1>1 DEF Waiting
  <2>. QED
    BY <1>0, <2>1, MinIsLeast
<1>. HIDE DEF m
<1>3. m \in 1 .. Len(grants) /\ grants[m] = e /\ given[e] > 0
  BY <1>1, <1>2 DEF Waiting, Inv, AllowsAreGiven
<1>4. /\ q \in Questions /\ q.kind = quest[r].kind /\ q.for = quest[r].for
      /\ q.since = quest[r].since /\ q.answer = "none"
  BY <1>1 DEF Questions
<1>. HIDE DEF q
<1>5. Goes(r, "resolve", q)
  BY <1>0, <1>1, <1>3, <1>4 DEF Goes, QPCs
<1>6. /\ AskedInOrder' /\ RulesGrow' /\ JudgedAgain' /\ PlacesCounted'
      /\ qpc' \in [Requests -> QPCs]
      /\ \A x \in Requests : quest'[x].granted => given'[Endpoint[quest'[x].for]] > 0
  BY <1>5, ThreadGoes
<1>7. grants' \in Seq(Endpoints) /\ Without(grants, m, grants')
  BY <1>0, <1>1, <1>3, RemovedAt
<1>. HIDE DEF e
<1>8. /\ used' \in [Endpoints -> Nat]
      /\ \A x \in Endpoints : used'[x] = IF x = e THEN used[x] + 1 ELSE used[x]
      /\ \A x \in Endpoints : used[x] \in Nat /\ given[x] \in Nat
  BY <1>0, <1>1 DEF Inv, TypeOK
<1>9. TypeOK'
  BY <1>0, <1>6, <1>7, <1>8 DEF Inv, TypeOK
<1>10. AllowsAreGiven'
  <2>1. \A j \in DOMAIN grants' : \E k \in DOMAIN grants : grants'[j] = grants[k]
    BY <1>1, <1>3, <1>7, WithoutKeeps
  <2>. QED
    BY <1>0, <1>6, <2>1 DEF Inv, AllowsAreGiven
<1>11. GrantsConserved'
  <2>. SUFFICES ASSUME NEW x \in Endpoints
                PROVE  used'[x] + Cardinality(Where(grants', {x})) <= given'[x]
    BY Positions DEF GrantsConserved
  <2>1. used[x] + Cardinality(Where(grants, {x})) <= given[x]
    BY Positions DEF Inv, GrantsConserved
  <2>2. Cardinality(Where(grants, {x})) \in Nat /\ Cardinality(Where(grants', {x})) \in Nat
    BY <1>1, <1>7, PositionsCount
  <2>3. Cardinality(Where(grants', {x})) = IF grants[m] \in {x}
          THEN Cardinality(Where(grants, {x})) - 1 ELSE Cardinality(Where(grants, {x}))
    BY <1>1, <1>3, <1>7, WithoutCounts
  <2>4. CASE x = e
    BY <1>0, <1>3, <1>8, <2>1, <2>2, <2>3, <2>4
  <2>5. CASE x # e
    BY <1>0, <1>3, <1>8, <2>1, <2>2, <2>3, <2>5
  <2>. QED
    BY <2>4, <2>5
<1>12. KeptBounded'
  BY <1>0 DEF Inv, KeptBounded, Ungranted
<1>. QED
  BY <1>6, <1>9, <1>10, <1>11, <1>12 DEF Inv

(* The checks Judge::check leaves when it makes room for one more.         *)
RoomMade ==
  IF Len(kept) >= Cap /\ Ungranted # {} THEN RemoveAt(kept, Min(Ungranted)) ELSE kept

NotGranted == {c \in Checks : ~c.granted}

(* They are checks it held, every one with an allow among them.            *)
LEMMA RoomForOne ==
  ASSUME Inv
  PROVE  /\ RoomMade \in Seq(Checks)
         /\ Cardinality(Where(RoomMade, NotGranted)) \in Nat
         /\ Cardinality(Where(RoomMade, NotGranted)) < Cap
         /\ \A j \in DOMAIN RoomMade : \E k \in DOMAIN kept : RoomMade[j] = kept[k]
         /\ \A k \in DOMAIN kept :
              kept[k].granted => \E j \in DOMAIN RoomMade : RoomMade[j] = kept[k]
<1>1. /\ kept \in Seq(Checks) /\ Ungranted = Where(kept, NotGranted) /\ Len(kept) \in Nat
      /\ Cap \in Nat \ {0} /\ Cardinality(Ungranted) <= Cap
  BY Positions, CapsAssumption DEF Inv, TypeOK, KeptBounded, NotGranted
<1>2. /\ IsFiniteSet(Ungranted) /\ Cardinality(Ungranted) \in Nat
      /\ Cardinality(Ungranted) <= Len(kept)
  BY <1>1, PositionsCount
<1>3. CASE Len(kept) >= Cap /\ Ungranted # {}
  <2>. DEFINE m == Min(Ungranted)
  <2>1. RoomMade = RemoveAt(kept, m)
    BY <1>3 DEF RoomMade
  <2>2. Ungranted \subseteq 1 .. Len(kept)
    BY <1>1 DEF Ungranted
  <2>3. m \in Ungranted
    BY <1>1, <1>3, <2>2, MinIsLeast
  <2>. HIDE DEF m
  <2>4. m \in 1 .. Len(kept) /\ ~kept[m].granted /\ kept[m] \in NotGranted
    BY <1>1, <2>2, <2>3 DEF Ungranted, NotGranted
  <2>5. RoomMade \in Seq(Checks) /\ Without(kept, m, RoomMade)
    BY <1>1, <2>1, <2>4, RemovedAt
  <2>6. Cardinality(Where(RoomMade, NotGranted)) = Cardinality(Ungranted) - 1
    BY <1>1, <2>4, <2>5, WithoutCounts
  <2>7. Cardinality(Where(RoomMade, NotGranted)) \in Nat
    BY <2>5, PositionsCount
  <2>8. /\ \A j \in DOMAIN RoomMade : \E k \in DOMAIN kept : RoomMade[j] = kept[k]
        /\ \A k \in DOMAIN kept : k # m => \E j \in DOMAIN RoomMade : RoomMade[j] = kept[k]
    BY <1>1, <2>4, <2>5, WithoutKeeps
  <2>9. Cardinality(Where(RoomMade, NotGranted)) < Cap
    BY <1>1, <1>2, <2>6
  <2>. QED
    BY <2>4, <2>5, <2>7, <2>8, <2>9
<1>4. CASE ~(Len(kept) >= Cap /\ Ungranted # {})
  <2>1. RoomMade = kept
    BY <1>4 DEF RoomMade
  <2>2. Ungranted = {} => Cardinality(Ungranted) = 0
    BY FS_EmptySet
  <2>3. Cardinality(Ungranted) < Cap
    BY <1>1, <1>2, <1>4, <2>2
  <2>. QED
    BY <1>1, <1>2, <2>1, <2>3
<1>. QED
  BY <1>3, <1>4

LEMMA CheckKeepInv ==
  ASSUME Inv, NEW r \in Requests, CheckKeep(r)
  PROVE  Inv' /\ kept' = Append(RoomMade, Found(r)) /\ Found(r) \in Checks
<1>0. /\ qpc[r] = "keep" /\ kept' = Append(RoomMade, Found(r)) /\ Hand(r, "Checked")
      /\ UNCHANGED <<overlayVars, grants, serving, requestVars, historyVars>>
  BY DEF CheckKeep, RoomMade
<1>1. quest[r] \in Questions /\ quest[r].kind = "check"
  BY <1>0, Asked DEF Inv, AskedInOrder, InOrder
<1>2. /\ Found(r) \in Checks /\ Found(r).at = Endpoint[quest[r].for]
      /\ Found(r).granted = quest[r].granted
  BY <1>1 DEF Found, Checks, Questions, Endpoints
<1>3. Goes(r, "handed", [quest[r] EXCEPT !.answer = "Checked"])
  BY <1>0, <1>1, HandGoes DEF Answers
<1>4. /\ AskedInOrder' /\ RulesGrow' /\ JudgedAgain' /\ PlacesCounted'
      /\ qpc' \in [Requests -> QPCs]
      /\ \A x \in Requests : quest'[x].granted => given'[Endpoint[quest'[x].for]] > 0
  BY <1>3, ThreadGoes
<1>5. /\ RoomMade \in Seq(Checks) /\ Cardinality(Where(RoomMade, NotGranted)) \in Nat
      /\ Cardinality(Where(RoomMade, NotGranted)) < Cap
      /\ \A j \in DOMAIN RoomMade : \E k \in DOMAIN kept : RoomMade[j] = kept[k]
  BY RoomForOne
<1>6. /\ kept' \in Seq(Checks) /\ DOMAIN kept' = DOMAIN RoomMade \cup {Len(RoomMade) + 1}
      /\ \A i \in DOMAIN RoomMade : kept'[i] = RoomMade[i]
      /\ kept'[Len(RoomMade) + 1] = Found(r)
      /\ Cardinality(Where(kept', NotGranted)) = IF Found(r) \in NotGranted
           THEN Cardinality(Where(RoomMade, NotGranted)) + 1
           ELSE Cardinality(Where(RoomMade, NotGranted))
  BY <1>0, <1>2, <1>5, Appended
<1>7. TypeOK'
  BY <1>0, <1>4, <1>6 DEF Inv, TypeOK
<1>8. AllowsAreGiven'
  <2>1. ASSUME NEW i \in DOMAIN kept', kept'[i].granted PROVE given[kept'[i].at] > 0
    <3>1. kept'[i] = Found(r) \/ \E k \in DOMAIN kept : kept'[i] = kept[k]
      BY <1>5, <1>6, Zenon
    <3>2. Found(r).granted => given[Found(r).at] > 0
      BY <1>2, <1>0, Asked
    <3>. QED
      BY <2>1, <3>1, <3>2 DEF Inv, AllowsAreGiven
  <2>. QED
    BY <1>0, <1>4, <2>1 DEF Inv, AllowsAreGiven
<1>9. KeptBounded'
  <2>1. Ungranted' = Where(kept', NotGranted)
    BY <1>6, Positions DEF NotGranted
  <2>. QED
    BY <1>5, <1>6, <2>1, CapsAssumption DEF KeptBounded
<1>10. GrantsConserved'
  BY <1>0 DEF Inv, GrantsConserved, Waiting
<1>. QED
  BY <1>0, <1>2, <1>4, <1>7, <1>8, <1>9, <1>10 DEF Inv

(* GRANT_TTL.                                                              *)
LEMMA GrantLapsesInv ==
  ASSUME Inv, GrantLapses
  PROVE  Inv'
<1>0. /\ grants # << >> /\ grants' = Tail(grants) /\ grants \in Seq(Endpoints)
      /\ UNCHANGED <<overlayVars, kept, requestVars, questionVars, historyVars>>
  BY DEF GrantLapses, Inv, TypeOK
<1>1. /\ grants' \in Seq(Endpoints) /\ 1 \in 1 .. Len(grants) /\ Without(grants, 1, grants')
  BY <1>0, TailRemoves
<1>2. \A j \in DOMAIN grants' : \E k \in DOMAIN grants : grants'[j] = grants[k]
  BY <1>0, <1>1, WithoutKeeps
<1>7. grants \in Seq(Endpoints)
  BY <1>0
<1>3. TypeOK' /\ AskedInOrder' /\ RulesGrow' /\ PlacesCounted' /\ KeptBounded'
  BY <1>0, <1>1 DEF Inv, TypeOK, AskedInOrder, InOrder, RulesGrow, PlacesCounted, Served,
                   KeptBounded, Ungranted
<1>4. AllowsAreGiven'
  BY <1>0, <1>2 DEF Inv, AllowsAreGiven
<1>5. JudgedAgain'
  BY <1>0 DEF Inv, JudgedAgain, Permitted
<1>6. GrantsConserved'
  <2>. SUFFICES ASSUME NEW x \in Endpoints
                PROVE  used'[x] + Cardinality(Where(grants', {x})) <= given'[x]
    BY Positions DEF GrantsConserved
  <2>1. used[x] + Cardinality(Where(grants, {x})) <= given[x]
    BY Positions DEF Inv, GrantsConserved
  <2>2. Cardinality(Where(grants, {x})) \in Nat /\ Cardinality(Where(grants', {x})) \in Nat
    BY <1>0, <1>1, PositionsCount
  <2>3. Cardinality(Where(grants', {x})) = IF grants[1] \in {x}
          THEN Cardinality(Where(grants, {x})) - 1 ELSE Cardinality(Where(grants, {x}))
    BY <1>1, <1>7, WithoutCounts
  <2>4. used[x] \in Nat /\ given[x] \in Nat
    BY DEF Inv, TypeOK
  <2>5. Cardinality(Where(grants', {x})) <= Cardinality(Where(grants, {x}))
    <3>1. CASE grants[1] \in {x}
      BY <2>2, <2>3, <3>1
    <3>2. CASE grants[1] \notin {x}
      BY <2>2, <2>3, <3>2
    <3>. QED
      BY <3>1, <3>2
  <2>6. used' = used /\ given' = given
    BY <1>0
  <2>. QED
    BY <2>1, <2>2, <2>4, <2>5, <2>6
<1>. QED
  BY <1>3, <1>4, <1>5, <1>6 DEF Inv

LEMMA CheckLapsesInv ==
  ASSUME Inv, CheckLapses
  PROVE  Inv'
<1>0. /\ kept # << >> /\ kept' = Tail(kept) /\ kept \in Seq(Checks)
      /\ UNCHANGED <<overlayVars, grants, requestVars, questionVars, historyVars>>
  BY DEF CheckLapses, Inv, TypeOK
<1>1. /\ kept' \in Seq(Checks) /\ 1 \in 1 .. Len(kept) /\ Without(kept, 1, kept')
  BY <1>0, TailRemoves
<1>2. \A j \in DOMAIN kept' : \E k \in DOMAIN kept : kept'[j] = kept[k]
  BY <1>0, <1>1, WithoutKeeps
<1>7. kept \in Seq(Checks)
  BY <1>0
<1>3. TypeOK' /\ AskedInOrder' /\ RulesGrow' /\ PlacesCounted' /\ GrantsConserved'
  BY <1>0, <1>1 DEF Inv, TypeOK, AskedInOrder, InOrder, RulesGrow, PlacesCounted, Served,
                   GrantsConserved, Waiting
<1>4. AllowsAreGiven'
  BY <1>0, <1>2 DEF Inv, AllowsAreGiven
<1>5. JudgedAgain'
  BY <1>0 DEF Inv, JudgedAgain, Permitted
<1>6. KeptBounded'
  <2>1. Ungranted' = Where(kept', NotGranted) /\ Ungranted = Where(kept, NotGranted)
    BY <1>1, Positions DEF NotGranted
  <2>2. Cardinality(Ungranted) \in Nat /\ Cardinality(Ungranted) <= Cap /\ Cap \in Nat
    BY <1>0, <2>1, PositionsCount, CapsAssumption DEF Inv, KeptBounded
  <2>3. Cardinality(Where(kept', NotGranted)) = IF kept[1] \in NotGranted
          THEN Cardinality(Where(kept, NotGranted)) - 1 ELSE Cardinality(Where(kept, NotGranted))
    BY <1>1, <1>7, WithoutCounts
  <2>4. Cardinality(Ungranted') <= Cardinality(Ungranted) /\ Cardinality(Ungranted') \in Nat
    <3>0. Cardinality(Where(kept', NotGranted)) \in Nat
      BY <1>1, PositionsCount
    <3>1. CASE kept[1] \in NotGranted
      BY <2>1, <2>2, <2>3, <3>0, <3>1
    <3>2. CASE kept[1] \notin NotGranted
      BY <2>1, <2>2, <2>3, <3>0, <3>2
    <3>. QED
      BY <3>1, <3>2
  <2>. QED
    BY <2>2, <2>4 DEF KeptBounded
<1>. QED
  BY <1>3, <1>4, <1>5, <1>6 DEF Inv

(* The steps that only move a request that asks nothing.                   *)
Moving(r) ==
  \/ Clear(r) \/ Refuse(r) \/ Park(r) \/ HandshakeFails(r) \/ AnswerDeny(r) \/ AnswerAllow(r)
  \/ \E kind \in Kinds : AskBusy(r, kind)

LEMMA MovingInv ==
  ASSUME Inv, NEW r \in Requests, Moving(r)
  PROVE  Inv'
<1>1. PICK to \in Stages \ {"asking"},
           why \in {"none", "policy", "asked", "Busy", "Supervisor", "Upstream"} :
        /\ stage' = [stage EXCEPT ![r] = to] /\ refusal' = [refusal EXCEPT ![r] = why]
  <2>1. refusal[r] \in {"none", "policy", "asked", "Busy", "Supervisor", "Upstream"}
        /\ [refusal EXCEPT ![r] = refusal[r]] = refusal
    BY DEF Inv, TypeOK
  <2>. QED
    BY <2>1 DEF Moving, Clear, Refuse, Park, HandshakeFails, AnswerDeny, AnswerAllow, AskBusy,
                Move, Stages
<1>2. /\ stage[r] # "asking"
      /\ UNCHANGED <<overlayVars, grants, kept, asks, questionVars, historyVars>>
  BY DEF Moving, Clear, Refuse, Park, HandshakeFails, AnswerDeny, AnswerAllow, AskBusy, MayAsk,
         Free
<1>. QED
  BY <1>1, <1>2, MoveInv

LEMMA NextInv == Inv /\ [Next]_vars => Inv'
<1>. SUFFICES ASSUME Inv, [Next]_vars PROVE Inv'
  OBVIOUS
<1>1. ASSUME NEW r \in Requests, ProxyStep(r) \/ OperatorStep(r) \/ AnswerAllow(r) PROVE Inv'
  <2>1. \/ Moving(r) \/ NoteGrant(r)
        \/ \E kind \in Kinds, id \in Requests, d \in Dests : Ask(r, kind, id, d)
    BY <1>1 DEF ProxyStep, OperatorStep, Moving, Kinds
  <2>. QED
    BY <2>1, MovingInv, NoteGrantInv, AskInv
<1>2. ASSUME NEW r \in Requests, JudgeStep(r) PROVE Inv'
  BY <1>2, NoThreadInv, JudgeThreadInv, CheckTakeInv, CheckKeepInv, GiveBackInv, WriteInv
     DEF JudgeStep, JudgeThread
<1>3. ASSUME OverlayStep PROVE Inv'
  <2>1. /\ judged \subseteq judged' /\ judged' \in SUBSET Loadable /\ inForce' \subseteq judged'
        /\ UNCHANGED <<grants, kept, requestVars, questionVars, historyVars>>
    BY <1>3 DEF OverlayStep, Sent, Install, Inv, TypeOK, RulesGrow
  <2>. QED
    BY <2>1, OverlayInv
<1>4. ASSUME UNCHANGED vars PROVE Inv'
  <2>1. /\ judged \subseteq judged' /\ judged' \in SUBSET Loadable /\ inForce' \subseteq judged'
        /\ UNCHANGED <<grants, kept, requestVars, questionVars, historyVars>>
    BY <1>4 DEF vars, Inv, TypeOK, RulesGrow
  <2>. QED
    BY <2>1, OverlayInv
<1>. QED
  BY <1>1, <1>2, <1>3, <1>4, GrantLapsesInv, CheckLapsesInv DEF Next, Finished

(* The invariant of every reachable state, of whatever proxy.              *)
THEOREM Invariance == Spec => []Inv
<1>. QED
  BY InitInv, NextInv, PTL DEF Spec

(* Whatever a proxy asks, and however rules, allows, lapses and other      *)
(* questions fall between the check and the connection, the judge opens no *)
(* connection that a rule it held when the question came in denies, and    *)
(* none without a rule or an operator that allows it (Judge::connect).     *)
THEOREM ConnectionsArePermitted == Spec => []ConnectedIsPermitted
<1>1. Inv => ConnectedIsPermitted
  BY DEF Inv, JudgedAgain, ConnectedIsPermitted, GotConnection, Permitted
<1>. QED
  BY <1>1, Invariance, PTL

(* An operator's allow lets one check through (Judge::take_grant), with    *)
(* any number of checks at once, allows let go for others, and lapses.     *)
THEOREM AllowsAreSpentOnce == Spec => []GrantsConserved
<1>1. Inv => GrantsConserved
  BY DEF Inv
<1>. QED
  BY <1>1, Invariance, PTL

(* The proxy with room for each of its questions: Spec, with the label of  *)
(* the instance kept.                                                      *)
RoomySpec == room = "roomy" /\ Init /\ [][Next /\ UNCHANGED room]_<<room, vars>>

(* For every cap, no more questions are answered at once and no more       *)
(* checks without an operator's allow are kept than the cap says           *)
(* (Judge::enter, Judge::check), whatever a proxy asks.                    *)
THEOREM CapsAreKept == RoomySpec => []WithinCaps
<1>1. Inv /\ room = "roomy" => WithinCaps
  BY DEF Inv, WithinCaps
<1>2. Init /\ room = "roomy" => Inv /\ room = "roomy"
  BY InitInv
<1>3. Inv /\ room = "roomy" /\ [Next /\ UNCHANGED room]_<<room, vars>>
      => (Inv /\ room = "roomy")'
  BY NextInv
<1>. QED
  BY <1>1, <1>2, <1>3, PTL DEF RoomySpec

(* A request that asks leaves a place free, if there is one for each.      *)
LEMMA BusyStep ==
  ASSUME Inv, Honest, ~ThreadsMayFail, Cardinality(Requests) <= Cap,
         \A r \in Requests : refusal[r] # "Busy", [Next]_vars
  PROVE  \A r \in Requests : refusal'[r] # "Busy"
<1>1. ASSUME NEW r \in Requests, NEW kind \in Kinds PROVE ~AskBusy(r, kind)
  <2>. SUFFICES ASSUME AskBusy(r, kind) PROVE FALSE
    OBVIOUS
  <2>1. stage[r] # "asking" /\ serving >= Cap
    BY DEF AskBusy, MayAsk
  <2>2. r \notin Served
    BY <2>1 DEF Inv, AskedInOrder, InOrder, Served
  <2>3. Served \subseteq Requests \ {r}
    BY <2>2 DEF Served
  <2>4. /\ IsFiniteSet(Requests \ {r}) /\ Cardinality(Requests \ {r}) = Cardinality(Requests) - 1
        /\ Cardinality(Requests) \in Nat
    BY RequestsAssumption, FS_RemoveElement, FS_CardinalityType
  <2>5. Cardinality(Served) <= Cardinality(Requests \ {r})
    BY <2>3, <2>4, FS_Subset
  <2>6. serving = Cardinality(Served) /\ serving \in Nat /\ Cap \in Nat
    BY CapsAssumption DEF Inv, TypeOK, PlacesCounted
  <2>. QED
    BY <2>1, <2>4, <2>5, <2>6
<1>2. ASSUME NEW r \in Requests, ProxyStep(r) \/ OperatorStep(r) \/ AnswerAllow(r)
      PROVE  \A x \in Requests : refusal'[x] # "Busy"
  <2>1. \/ UNCHANGED refusal
        \/ \E why \in {"policy", "asked", "none"} : refusal' = [refusal EXCEPT ![r] = why]
    BY <1>1, <1>2 DEF ProxyStep, OperatorStep, AnswerAllow, Clear, Refuse, Park, HandshakeFails,
                      AnswerDeny, NoteGrant, Ask, Kinds
  <2>. QED
    BY <2>1 DEF Inv, TypeOK
<1>3. ASSUME NEW r \in Requests, JudgeStep(r)
      PROVE  \A x \in Requests : refusal'[x] # "Busy"
  <2>1. CASE Write(r)
    BY <2>1 DEF Write, Inv, TypeOK
  <2>2. CASE ~Write(r)
    BY <1>3, <2>2 DEF JudgeStep, NoThread, CheckDecide, CheckTake, CheckUngranted, Resolve,
                      ResolveFails, CheckKeep, ConnectLookup, ConnectDecide, Dial, GiveBack
  <2>. QED
    BY <2>1, <2>2
<1>4. ASSUME OverlayStep \/ GrantLapses \/ CheckLapses \/ UNCHANGED vars
      PROVE  \A x \in Requests : refusal'[x] # "Busy"
  BY <1>4 DEF OverlayStep, Sent, Install, GrantLapses, CheckLapses, vars
<1>. QED
  BY <1>2, <1>3, <1>4 DEF Next, Finished

(* A proxy that asks no more at a time than there is room for is never     *)
(* told the judge is busy: the place of a question is free before its      *)
(* answer is written (write_answers).                                      *)
THEOREM RoomMeansNeverBusy == RoomySpec => []NeverBusyWithRoom
<1>. DEFINE I == Inv /\ NeverBusy
<1>1. I => NeverBusyWithRoom
  BY DEF NeverBusyWithRoom
<1>2. Init => I
  BY InitInv DEF Init, NeverBusy
<1>3. I /\ [Next /\ UNCHANGED room]_<<room, vars>> => I'
  BY NextInv, BusyStep DEF NeverBusy
<1>. QED
  BY <1>1, <1>2, <1>3, PTL DEF RoomySpec

-----------------------------------------------------------------------------
(* The invariant of an honest proxy.                                       *)

(* Allowing and denying rules only grow in number.                         *)
LEMMA RulesStay ==
  ASSUME judged \subseteq judged', NEW d
  PROVE  /\ Allowed(judged, d) => Allowed(judged', d)
         /\ Denied(judged, d) => Denied(judged', d)
BY DEF Allowed, Denied, Says

(* Fewer are owed an allow, and no allow is gone.                          *)
LEMMA OwedStays ==
  ASSUME Inv, OwedIsWaiting, UNCHANGED grants,
         \A e \in Endpoints : Owed(e)' \subseteq Owed(e), Begun \subseteq Begun'
  PROVE  OwedIsWaiting'
<1>1. ASSUME NEW e \in Endpoints PROVE Cardinality(Owed(e)') <= Cardinality(Waiting(e)')
  <2>1. IsFiniteSet(Owed(e))
    BY RequestsAssumption, FS_Subset DEF Owed
  <2>2. /\ Cardinality(Owed(e)') <= Cardinality(Owed(e)) /\ Cardinality(Owed(e)) \in Nat
        /\ IsFiniteSet(Owed(e)')
    BY <2>1, FS_Subset, FS_CardinalityType
  <2>3. Waiting(e)' = Waiting(e)
    BY DEF Waiting
  <2>4. Cardinality(Waiting(e)) \in Nat /\ Cardinality(Owed(e)') \in Nat
    BY <2>2, Positions, PositionsCount, FS_CardinalityType
  <2>5. Cardinality(Owed(e)) <= Cardinality(Waiting(e))
    BY DEF OwedIsWaiting
  <2>. QED
    BY <2>2, <2>3, <2>4, <2>5
<1>2. Len(grants') <= Cardinality(Begun')
  <2>1. IsFiniteSet(Begun') /\ IsFiniteSet(Begun)
    BY RequestsAssumption, FS_Subset DEF Begun
  <2>2. /\ Cardinality(Begun) <= Cardinality(Begun') /\ Cardinality(Begun') \in Nat
        /\ Cardinality(Begun) \in Nat
    BY <2>1, FS_Subset, FS_CardinalityType
  <2>3. Len(grants) \in Nat /\ Len(grants) <= Cardinality(Begun)
    BY DEF Inv, TypeOK, OwedIsWaiting
  <2>. QED
    BY <2>2, <2>3
<1>. QED
  BY <1>1, <1>2 DEF OwedIsWaiting

LEMMA HonestInit == Init => HonestInv
<1>. SUFFICES ASSUME Init PROVE HonestInv
  OBVIOUS
<1>1. /\ DOMAIN kept = {} /\ Len(grants) = 0 /\ DOMAIN grants = {} /\ Begun = {}
      /\ \A e : Owed(e) = {} /\ Waiting(e) = {}
  BY DEF Init, Owed, Waiting, Begun
<1>2. OwedIsWaiting
  <2>1. Cardinality({}) = 0
    BY FS_EmptySet
  <2>2. ASSUME NEW e \in Endpoints PROVE Cardinality(Owed(e)) <= Cardinality(Waiting(e))
    <3>1. Owed(e) = {} /\ Waiting(e) = {}
      BY <1>1
    <3>. QED
      BY <2>1, <3>1
  <2>3. Len(grants) <= Cardinality(Begun)
    BY <1>1, <2>1
  <2>. QED
    BY <2>2, <2>3 DEF OwedIsWaiting
<1>3. AsksItsOwn /\ GoesOnRightly /\ AllowIsCarried /\ RefusedIsDenied
  BY <1>1 DEF Init, AsksItsOwn, GoesOnRightly, AllowIsCarried, RefusedIsDenied, NoQuestion
<1>. QED
  BY <1>2, <1>3 DEF HonestInv

LEMMA OverlayHonest ==
  ASSUME Inv, HonestInv, judged \subseteq judged',
         UNCHANGED <<grants, kept, requestVars, questionVars, historyVars>>
  PROVE  HonestInv'
<1>1. AsksItsOwn'
  BY DEF HonestInv, AsksItsOwn
<1>2. GoesOnRightly' /\ AllowIsCarried' /\ RefusedIsDenied'
  BY RulesStay DEF HonestInv, GoesOnRightly, AllowIsCarried, RefusedIsDenied
<1>3. /\ \A e \in Endpoints : Owed(e)' \subseteq Owed(e)
      /\ Begun \subseteq Begun'
  <2>1. asks' = asks /\ stage' = stage /\ qpc' = qpc
    OBVIOUS
  <2>2. \A d : ~Allowed(judged', d) => ~Allowed(judged, d)
    BY RulesStay
  <2>. QED
    BY <2>1, <2>2 DEF Owed, Begun
<1>4. OwedIsWaiting'
  BY <1>3, OwedStays DEF HonestInv
<1>. QED
  BY <1>1, <1>2, <1>4 DEF HonestInv

(* A request goes on, or is refused, as decide_https has it.               *)
LEMMA MoveHonest ==
  ASSUME Inv, HonestInv, NEW r \in Requests, NEW to \in Stages \ {"asking", "noted"},
         NEW why, stage[r] # "asking",
         stage' = [stage EXCEPT ![r] = to], refusal' = [refusal EXCEPT ![r] = why],
         why = "Supervisor" => refusal[r] = "Supervisor",
         to \notin {"new", "refused"} => Policy[asks[r]] = "ask" \/ Allowed(judged, asks[r]),
         to = "cleared" => stage[r] = "noted" \/ Allowed(judged, asks[r]),
         to \in {"checked", "connected"} => stage[r] \in {"checked", "connected"},
         to \in {"new", "parked"} => stage[r] \in {"new", "parked"},
         UNCHANGED <<overlayVars, grants, kept, asks, questionVars, historyVars>>
  PROVE  HonestInv'
<1>0. /\ stage'[r] = to /\ refusal'[r] = why /\ judged' = judged /\ asks' = asks
      /\ \A x \in Requests \ {r} : stage'[x] = stage[x] /\ refusal'[x] = refusal[x]
      /\ quest' = quest /\ qpc' = qpc /\ kept' = kept /\ grants' = grants
  BY DEF Inv, TypeOK
<1>1. qpc[r] = "none" /\ quest[r].answer = "none"
  BY DEF Inv, AskedInOrder, InOrder
<1>2. AsksItsOwn' /\ GoesOnRightly'
  BY <1>0 DEF HonestInv, AsksItsOwn, GoesOnRightly
<1>3. AllowIsCarried'
  <2>1. \A x \in Requests :
          (quest'[x].kind = "check" /\ qpc'[x] \in {"resolve", "keep"}) \/ qpc'[x] = "rule"
          => quest'[x].granted \/ Allowed(judged', asks'[x])
    BY <1>0 DEF HonestInv, AllowIsCarried
  <2>2. \A i \in DOMAIN kept' : kept'[i].granted \/ Allowed(judged', asks'[kept'[i].id])
    BY <1>0 DEF HonestInv, AllowIsCarried
  <2>3. \A x \in Requests :
          \/ stage'[x] \in {"checked", "connected"} \/ quest'[x].answer = "Checked"
          \/ stage'[x] = "asking" /\ quest'[x].kind = "connect"
          => Allowed(judged', asks'[x]) \/ \E i \in DOMAIN kept' : kept'[i].id = x
    BY <1>0 DEF HonestInv, AllowIsCarried
  <2>. QED
    BY <2>1, <2>2, <2>3 DEF AllowIsCarried
<1>4. RefusedIsDenied'
  BY <1>0 DEF HonestInv, RefusedIsDenied
<1>5. \A e \in Endpoints : Owed(e)' \subseteq Owed(e)
  BY <1>0, <1>1 DEF Owed
<1>6. Begun \subseteq Begun'
  BY <1>0 DEF Begun
<1>7. OwedIsWaiting'
  BY <1>0, <1>5, <1>6, OwedStays DEF HonestInv
<1>. QED
  BY <1>2, <1>3, <1>4, <1>7 DEF HonestInv

LEMMA MovingHonest ==
  ASSUME Inv, HonestInv, Patient, NEW r \in Requests, Moving(r)
  PROVE  HonestInv'
<1>0. Honest /\ [refusal EXCEPT ![r] = refusal[r]] = refusal /\ inForce \subseteq judged
  BY DEF Patient, Inv, TypeOK, RulesGrow
<1>1. UNCHANGED <<overlayVars, grants, kept, asks, questionVars, historyVars>>
  BY DEF Moving, Clear, Refuse, Park, HandshakeFails, AnswerDeny, AnswerAllow, AskBusy
<1>2. \A d : Allowed(inForce, d) => Allowed(judged, d)
  BY <1>0 DEF Allowed, Says
<1>3. CASE Clear(r)
  <2>1. Allowed(judged, asks[r])
    BY <1>2, <1>3 DEF Clear, Decision
  <2>. QED
    BY <1>0, <1>1, <1>3, <2>1, MoveHonest DEF Clear, Move, Stages
<1>4. CASE Refuse(r) \/ AnswerDeny(r)
  <2>1. PICK why \in {"policy", "asked"} : refusal' = [refusal EXCEPT ![r] = why]
    BY <1>4 DEF Refuse, AnswerDeny
  <2>2. stage' = [stage EXCEPT ![r] = "refused"] /\ stage[r] # "asking"
    BY <1>4 DEF Refuse, AnswerDeny, Move
  <2>. QED
    BY <1>1, <2>1, <2>2, MoveHonest DEF Stages
<1>5. CASE Park(r)
  <2>1. Policy[asks[r]] = "ask"
    BY <1>0, <1>5 DEF Park, Decision
  <2>. QED
    BY <1>0, <1>1, <1>5, <2>1, MoveHonest DEF Park, Move, Stages
<1>6. CASE HandshakeFails(r) \/ AnswerAllow(r)
  <2>1. Policy[asks[r]] = "ask" \/ Allowed(judged, asks[r])
    BY <1>6 DEF HandshakeFails, AnswerAllow, HonestInv, GoesOnRightly
  <2>. QED
    BY <1>0, <1>1, <1>6, <2>1, MoveHonest DEF HandshakeFails, AnswerAllow, Move, Stages
<1>7. CASE \E kind \in Kinds : AskBusy(r, kind)
  <2>1. /\ stage[r] # "asking" /\ stage' = [stage EXCEPT ![r] = "refused"]
        /\ refusal' = [refusal EXCEPT ![r] = "Busy"]
    BY <1>0, <1>7 DEF AskBusy, MayAsk, Move
  <2>. QED
    BY <1>1, <2>1, MoveHonest DEF Stages
<1>. QED
  BY <1>3, <1>4, <1>5, <1>6, <1>7 DEF Moving

(* Judge::grant has room for the allow of every request.                   *)
LEMMA NoteGrantHonest ==
  ASSUME Inv, HonestInv, Patient, NEW r \in Requests, NoteGrant(r)
  PROVE  HonestInv'
<1>. DEFINE e == Endpoint[asks[r]]
<1>1. stage[r] = "parked" /\ r \notin Begun /\ Begun \subseteq Requests \ {r}
  BY DEF NoteGrant, Begun
<1>2. /\ IsFiniteSet(Begun) /\ Cardinality(Begun) \in Nat
      /\ Cardinality(Begun \cup {r}) = Cardinality(Begun) + 1
      /\ Cardinality(Begun) < Cardinality(Requests) /\ Cardinality(Requests) \in Nat
  <2>1. /\ IsFiniteSet(Requests \ {r}) /\ Cardinality(Requests \ {r}) = Cardinality(Requests) - 1
        /\ Cardinality(Requests) \in Nat
    BY RequestsAssumption, FS_RemoveElement, FS_CardinalityType
  <2>2. IsFiniteSet(Begun) /\ Cardinality(Begun) <= Cardinality(Requests \ {r})
    BY <1>1, <2>1, FS_Subset
  <2>3. Cardinality(Begun) \in Nat /\ Cardinality(Begun \cup {r}) = Cardinality(Begun) + 1
    BY <1>1, <2>2, FS_AddElement, FS_CardinalityType
  <2>. QED
    BY <2>1, <2>2, <2>3
<1>3. /\ Len(grants) \in Nat /\ Len(grants) <= Cardinality(Begun) /\ GrantCap \in Nat
      /\ grants \in Seq(Endpoints) /\ e \in Endpoints
  BY CapsAssumption DEF HonestInv, OwedIsWaiting, Inv, TypeOK, Endpoints
<1>4. ~(Len(grants) >= GrantCap)
  BY <1>2, <1>3 DEF Patient
<1>0. /\ grants' = Append(grants, e) /\ stage' = [stage EXCEPT ![r] = "noted"]
      /\ UNCHANGED <<overlayVars, kept, asks, refusal, questionVars>>
  BY <1>4 DEF NoteGrant, Move
<1>. HIDE DEF e
<1>5. /\ stage'[r] = "noted" /\ judged' = judged /\ asks' = asks /\ refusal' = refusal
      /\ \A x \in Requests \ {r} : stage'[x] = stage[x]
      /\ quest' = quest /\ qpc' = qpc /\ kept' = kept
  BY <1>0 DEF Inv, TypeOK
<1>6. qpc[r] = "none" /\ quest[r].answer = "none"
  BY <1>1 DEF Inv, AskedInOrder, InOrder
<1>7. AsksItsOwn' /\ GoesOnRightly' /\ RefusedIsDenied'
  BY <1>1, <1>5 DEF HonestInv, AsksItsOwn, GoesOnRightly, RefusedIsDenied
<1>8. AllowIsCarried'
  BY <1>5, <1>6 DEF HonestInv, AllowIsCarried
<1>9. Len(grants') <= Cardinality(Begun')
  <2>1. Begun' = Begun \cup {r}
    BY <1>5 DEF Begun
  <2>2. Len(grants') = Len(grants) + 1
    BY <1>0, <1>3
  <2>. QED
    BY <1>2, <1>3, <2>1, <2>2
<1>10. ASSUME NEW x \in Endpoints PROVE Cardinality(Owed(x)') <= Cardinality(Waiting(x)')
  <2>1. IsFiniteSet(Owed(x)) /\ Cardinality(Owed(x)) \in Nat
    BY RequestsAssumption, FS_Subset, FS_CardinalityType DEF Owed
  <2>2. /\ Cardinality(Owed(x)) <= Cardinality(Where(grants, {x}))
        /\ Waiting(x)' = Where(grants', {x}) /\ Cardinality(Where(grants, {x})) \in Nat
    BY <1>3, Positions, PositionsCount DEF HonestInv, OwedIsWaiting
  <2>3. Cardinality(Where(grants', {x})) = IF e \in {x}
          THEN Cardinality(Where(grants, {x})) + 1 ELSE Cardinality(Where(grants, {x}))
    BY <1>0, <1>3, Appended
  <2>4. CASE x = e
    <3>1. Owed(x)' \subseteq Owed(x) \cup {r}
      BY <1>5 DEF Owed
    <3>2. /\ IsFiniteSet(Owed(x) \cup {r})
          /\ \/ Cardinality(Owed(x) \cup {r}) = Cardinality(Owed(x)) + 1
             \/ Cardinality(Owed(x) \cup {r}) = Cardinality(Owed(x))
      BY <2>1, FS_AddElement
    <3>3. /\ Cardinality(Owed(x)') <= Cardinality(Owed(x) \cup {r})
          /\ Cardinality(Owed(x)') \in Nat
      BY <3>1, <3>2, FS_Subset, FS_CardinalityType
    <3>4. Cardinality(Waiting(x)') = Cardinality(Where(grants, {x})) + 1
      BY <2>2, <2>3, <2>4
    <3>. QED
      BY <2>1, <2>2, <3>2, <3>3, <3>4
  <2>5. CASE x # e
    <3>1. Owed(x)' \subseteq Owed(x)
      BY <1>5, <2>5 DEF Owed, e
    <3>2. Cardinality(Owed(x)') <= Cardinality(Owed(x)) /\ Cardinality(Owed(x)') \in Nat
      BY <2>1, <3>1, FS_Subset, FS_CardinalityType
    <3>3. Cardinality(Waiting(x)') = Cardinality(Where(grants, {x}))
      BY <2>2, <2>3, <2>5
    <3>. QED
      BY <2>1, <2>2, <3>2, <3>3
  <2>. QED
    BY <2>4, <2>5
<1>. QED
  BY <1>7, <1>8, <1>9, <1>10 DEF HonestInv, OwedIsWaiting

(* An honest question is about what its request asks for.                  *)
LEMMA AskHonest ==
  ASSUME Inv, HonestInv, Patient, NEW r \in Requests, NEW kind \in Kinds,
         NEW id \in Requests, NEW d \in Dests, Ask(r, kind, id, d)
  PROVE  HonestInv'
<1>. DEFINE next == IF kind = "check" THEN "decide" ELSE "lookup"
            q == Question(r, kind, id, d)
<1>0. /\ id = r /\ d = asks[r] /\ stage[r] = (IF kind = "check" THEN "cleared" ELSE "checked")
      /\ quest' = [quest EXCEPT ![r] = q] /\ qpc' = [qpc EXCEPT ![r] = next]
      /\ stage' = [stage EXCEPT ![r] = "asking"] /\ refusal' = [refusal EXCEPT ![r] = "none"]
      /\ UNCHANGED <<overlayVars, grants, kept, asks, historyVars>>
  BY DEF Patient, Ask, MayAsk, Move
<1>1. /\ q.kind = kind /\ q.id = r /\ q.for = asks[r] /\ q.answer = "none"
  BY <1>0 DEF Question
<1>. HIDE DEF q
<1>2. /\ quest'[r] = q /\ qpc'[r] = next /\ stage'[r] = "asking" /\ refusal'[r] = "none"
      /\ \A x \in Requests \ {r} : /\ quest'[x] = quest[x] /\ qpc'[x] = qpc[x]
                                   /\ stage'[x] = stage[x] /\ refusal'[x] = refusal[x]
      /\ judged' = judged /\ asks' = asks /\ kept' = kept /\ grants' = grants
  BY <1>0 DEF Inv, TypeOK, AskedInOrder
<1>3. AsksItsOwn'
  BY <1>1, <1>2 DEF HonestInv, AsksItsOwn
<1>4. GoesOnRightly' /\ RefusedIsDenied'
  BY <1>0, <1>1, <1>2 DEF HonestInv, GoesOnRightly, RefusedIsDenied
<1>5. AllowIsCarried'
  <2>1. kind = "connect" => Allowed(judged, asks[r]) \/ \E i \in DOMAIN kept : kept[i].id = r
    BY <1>0 DEF HonestInv, AllowIsCarried
  <2>. QED
    BY <1>1, <1>2, <2>1 DEF HonestInv, AllowIsCarried
<1>6. \A e \in Endpoints : Owed(e)' \subseteq Owed(e)
  BY <1>0, <1>2 DEF Owed
<1>7. Begun \subseteq Begun'
  BY <1>2 DEF Begun
<1>8. OwedIsWaiting'
  BY <1>2, <1>6, <1>7, OwedStays DEF HonestInv
<1>. QED
  BY <1>3, <1>4, <1>5, <1>8 DEF HonestInv

(* A thread goes on with an honest question.                               *)
GoesHonestly(r, next, q) ==
  /\ q.id = quest[r].id
  /\ next # "decide"
  /\ next = "take" => qpc[r] = "decide" /\ ~Allowed(judged, asks[r])
  /\ (q.kind = "check" /\ next \in {"resolve", "keep"}) \/ next = "rule"
     => q.granted \/ Allowed(judged, asks[r])
  /\ q.answer = "Checked" => \E i \in DOMAIN kept' : kept'[i].id = r
  /\ q.answer = "Supervisor" => Denied(judged, asks[r])
  /\ \A i \in DOMAIN kept' : /\ kept'[i].at = Endpoint[asks[kept'[i].id]]
                             /\ kept'[i].granted \/ Allowed(judged, asks[kept'[i].id])
  /\ \A i \in DOMAIN kept : \/ Allowed(judged, asks[kept[i].id])
                            \/ \E j \in DOMAIN kept' : kept'[j] = kept[i]

LEMMA ThreadHonest ==
  ASSUME Inv, HonestInv, NEW r \in Requests, NEW next, NEW q, Goes(r, next, q),
         GoesHonestly(r, next, q)
  PROVE  /\ AsksItsOwn' /\ GoesOnRightly' /\ AllowIsCarried' /\ RefusedIsDenied'
         /\ Begun' = Begun
         /\ \A e \in Endpoints :
              Owed(e)' \subseteq IF qpc[r] = "take" THEN Owed(e) \ {r} ELSE Owed(e)
<1>0. /\ quest'[r] = q /\ qpc'[r] = next
      /\ \A x \in Requests \ {r} : quest'[x] = quest[x] /\ qpc'[x] = qpc[x]
      /\ judged' = judged /\ asks' = asks /\ stage' = stage /\ refusal' = refusal
  BY DEF Goes, Inv, TypeOK, AskedInOrder
<1>1. /\ q.kind = quest[r].kind /\ q.for = quest[r].for /\ q.kind # "none" /\ q.id = quest[r].id
      /\ stage[r] = "asking"
  BY DEF Goes, GoesHonestly, Inv, AskedInOrder, InOrder, Questions, Kinds
<1>2. AsksItsOwn'
  BY <1>0, <1>1 DEF HonestInv, AsksItsOwn, GoesHonestly
<1>3. GoesOnRightly'
  BY <1>0 DEF HonestInv, GoesOnRightly
<1>4. RefusedIsDenied'
  BY <1>0 DEF HonestInv, RefusedIsDenied, GoesHonestly
<1>5. AllowIsCarried'
  <2>1. \A x \in Requests :
          (quest'[x].kind = "check" /\ qpc'[x] \in {"resolve", "keep"}) \/ qpc'[x] = "rule"
          => quest'[x].granted \/ Allowed(judged', asks'[x])
    BY <1>0 DEF HonestInv, AllowIsCarried, GoesHonestly
  <2>2. \A i \in DOMAIN kept' : kept'[i].granted \/ Allowed(judged', asks'[kept'[i].id])
    BY <1>0 DEF GoesHonestly
  <2>3. ASSUME NEW x \in Requests,
               \/ stage'[x] \in {"checked", "connected"} \/ quest'[x].answer = "Checked"
               \/ stage'[x] = "asking" /\ quest'[x].kind = "connect",
               ~Allowed(judged', asks'[x])
        PROVE  \E i \in DOMAIN kept' : kept'[i].id = x
    <3>1. CASE quest'[r].answer = "Checked" /\ x = r
      BY <1>0, <3>1 DEF GoesHonestly
    <3>2. CASE ~(quest'[r].answer = "Checked" /\ x = r)
      <4>1. PICK i \in DOMAIN kept : kept[i].id = x
        BY <1>0, <1>1, <2>3, <3>2 DEF HonestInv, AllowIsCarried
      <4>2. PICK j \in DOMAIN kept' : kept'[j] = kept[i]
        BY <1>0, <2>3, <4>1 DEF GoesHonestly
      <4>. QED
        BY <4>1, <4>2
    <3>. QED
      BY <3>1, <3>2
  <2>. QED
    BY <2>1, <2>2, <2>3 DEF AllowIsCarried
<1>6. Begun' = Begun
  BY <1>0 DEF Begun
<1>7. ASSUME NEW e \in Endpoints
      PROVE  Owed(e)' \subseteq IF qpc[r] = "take" THEN Owed(e) \ {r} ELSE Owed(e)
  BY <1>0, <1>1 DEF Owed, GoesHonestly
<1>. QED
  BY <1>2, <1>3, <1>4, <1>5, <1>6, <1>7

(* Where neither an allow is taken nor a check kept.                       *)
LEMMA ThreadStaysHonest ==
  ASSUME Inv, HonestInv, NEW r \in Requests, NEW next, NEW q, Goes(r, next, q),
         q.id = quest[r].id, next # "decide",
         next = "take" => qpc[r] = "decide" /\ ~Allowed(judged, asks[r]),
         (q.kind = "check" /\ next \in {"resolve", "keep"}) \/ next = "rule"
           => q.granted \/ Allowed(judged, asks[r]),
         q.answer # "Checked", q.answer = "Supervisor" => Denied(judged, asks[r]),
         UNCHANGED <<grants, kept>>
  PROVE  HonestInv'
<1>1. GoesHonestly(r, next, q)
  BY DEF GoesHonestly, HonestInv, AsksItsOwn, AllowIsCarried
<1>2. /\ AsksItsOwn' /\ GoesOnRightly' /\ AllowIsCarried' /\ RefusedIsDenied'
      /\ Begun' = Begun
      /\ \A e \in Endpoints :
           Owed(e)' \subseteq IF qpc[r] = "take" THEN Owed(e) \ {r} ELSE Owed(e)
  BY <1>1, ThreadHonest
<1>3. \A e \in Endpoints : Owed(e)' \subseteq Owed(e)
  BY <1>2
<1>4. OwedIsWaiting'
  BY <1>2, <1>3, OwedStays DEF HonestInv
<1>. QED
  BY <1>2, <1>4 DEF HonestInv

LEMMA JudgeThreadHonest ==
  ASSUME Inv, HonestInv, Patient, NEW r \in Requests, JudgeThread(r)
  PROVE  HonestInv'
<1>. DEFINE next == qpc'[r]
            q == quest'[r]
            d == asks[r]
<1>0. Goes(r, next, q) /\ UNCHANGED <<grants, kept>>
  <2>1. PICK n, w : Goes(r, n, w) /\ UNCHANGED <<grants, kept, used>>
    BY JudgeThreadGoes
  <2>2. n = qpc'[r] /\ w = quest'[r]
    BY <2>1 DEF Goes, Inv, TypeOK, AskedInOrder
  <2>. QED
    BY <2>1, <2>2
<1>1. qpc[r] \notin {"none", "handed", "freed"}
  BY DEF JudgeThread, CheckDecide, CheckUngranted, Resolve, ResolveFails, ConnectLookup,
         ConnectDecide, Dial
<1>2. /\ quest[r] \in Questions /\ quest[r].answer = "none" /\ quest[r].kind # "none"
      /\ quest[r].for = d /\ quest[r].id = r /\ stage[r] = "asking"
  BY <1>1, Asked DEF HonestInv, AsksItsOwn, Inv, AskedInOrder, InOrder, Questions, Kinds
<1>3. Policy[d] = "ask" \/ Allowed(judged, d)
  BY <1>2 DEF HonestInv, GoesOnRightly
<1>4. /\ \A n : Continue(r, n) => next = n
      /\ \A a : Hand(r, a) => next = "handed" /\ q = [quest[r] EXCEPT !.answer = a]
      /\ UNCHANGED quest => q = quest[r]
  BY DEF Continue, Hand, Inv, TypeOK, AskedInOrder
<1>5. ASSUME NEW a \in {"Connected", "Upstream"}, Hand(r, a) PROVE HonestInv'
  <2>0. q = [quest[r] EXCEPT !.answer = a] /\ next = "handed"
    BY <1>4, <1>5, Zenon
  <2>1. q.id = quest[r].id /\ q.kind = quest[r].kind /\ q.answer = a /\ next = "handed"
    BY <1>2, <2>0 DEF Questions
  <2>. QED
    BY <1>0, <2>1, ThreadStaysHonest
<1>6. ASSUME Hand(r, "Supervisor"), Denied(judged, d) PROVE HonestInv'
  <2>0. q = [quest[r] EXCEPT !.answer = "Supervisor"] /\ next = "handed"
    BY <1>4, <1>6, Zenon
  <2>1. q.id = quest[r].id /\ q.kind = quest[r].kind /\ q.answer = "Supervisor" /\ next = "handed"
    BY <1>2, <2>0 DEF Questions
  <2>. QED
    BY <1>0, <1>6, <2>1, ThreadStaysHonest
<1>7. CASE CheckDecide(r)
  <2>1. CASE Decision(judged, d) = "deny"
    BY <1>2, <1>3, <1>6, <1>7, <2>1 DEF CheckDecide, Decision
  <2>2. CASE Decision(judged, d) = "allow"
    <3>1. next = "resolve" /\ q = quest[r] /\ Allowed(judged, d)
      BY <1>2, <1>4, <1>7, <2>2 DEF CheckDecide, Decision
    <3>. QED
      BY <1>0, <1>2, <3>1, ThreadStaysHonest
  <2>3. CASE Decision(judged, d) = "ask"
    <3>1. next = "take" /\ q = quest[r] /\ ~Allowed(judged, d) /\ qpc[r] = "decide"
      BY <1>2, <1>4, <1>7, <2>3 DEF CheckDecide, Decision
    <3>. QED
      BY <1>0, <1>2, <3>1, ThreadStaysHonest
  <2>. QED
    BY <2>1, <2>2, <2>3 DEF Decision
<1>8. ~CheckUngranted(r)
  <2>. SUFFICES ASSUME CheckUngranted(r) PROVE FALSE
    OBVIOUS
  <2>. DEFINE e == Endpoint[d]
  <2>1. r \in Owed(e) /\ e \in Endpoints /\ Waiting(e) = {}
    BY <1>2 DEF CheckUngranted, Owed, Inv, TypeOK, Endpoints
  <2>2. IsFiniteSet(Owed(e)) /\ Cardinality(Owed(e)) \in Nat
    BY RequestsAssumption, FS_Subset, FS_CardinalityType DEF Owed
  <2>3. Cardinality(Owed(e)) # 0
    BY <2>1, <2>2, FS_EmptySet
  <2>4. Cardinality(Waiting(e)) = 0
    BY <2>1, FS_EmptySet
  <2>5. Cardinality(Owed(e)) <= Cardinality(Waiting(e))
    BY <2>1 DEF HonestInv, OwedIsWaiting
  <2>. QED
    BY <2>2, <2>3, <2>4, <2>5
<1>9. CASE Resolve(r)
  <2>1. q = quest[r] /\ next \in {"keep", "dial"} /\ (next = "keep" => quest[r].kind = "check")
    BY <1>4, <1>9 DEF Resolve
  <2>2. next = "keep" => quest[r].granted \/ Allowed(judged, d)
    BY <1>9, <2>1 DEF Resolve, HonestInv, AllowIsCarried
  <2>. QED
    BY <1>0, <1>2, <2>1, <2>2, ThreadStaysHonest
<1>10. CASE ConnectLookup(r)
  <2>1. /\ qpc[r] = "lookup" /\ quest[r].kind = "connect" /\ next = "rule"
        /\ q = [quest[r] EXCEPT !.found = Named(r) # {},
                                !.granted = Named(r) # {} /\ kept[Min(Named(r))].granted]
    BY <1>4, <1>10 DEF ConnectLookup, Inv, AskedInOrder, InOrder
  <2>2. /\ q.id = r /\ q.kind = "connect" /\ q.answer = "none"
        /\ q.granted = (Named(r) # {} /\ kept[Min(Named(r))].granted)
    BY <1>2, <2>1 DEF Questions
  <2>3. ASSUME ~Allowed(judged, d) PROVE Named(r) # {} /\ kept[Min(Named(r))].granted
    <3>1. PICK i \in DOMAIN kept : kept[i].id = r
      BY <1>2, <2>1, <2>3 DEF HonestInv, AllowIsCarried
    <3>2. i \in Named(r)
      BY <1>2, <3>1 DEF Named, HonestInv, AsksItsOwn
    <3>3. Named(r) \subseteq 1 .. Len(kept) /\ Len(kept) \in Nat
      BY DEF Named, Inv, TypeOK
    <3>4. Min(Named(r)) \in Named(r)
      BY <3>2, <3>3, MinIsLeast
    <3>5. \A m \in Named(r) : kept[m].granted
      BY <1>2, <2>3 DEF Named, HonestInv, AllowIsCarried
    <3>. QED
      BY <3>2, <3>4, <3>5
  <2>. QED
    BY <1>0, <1>2, <2>1, <2>2, <2>3, ThreadStaysHonest
<1>11. CASE ConnectDecide(r)
  <2>1. quest[r].granted \/ Allowed(judged, d)
    BY <1>11 DEF ConnectDecide, HonestInv, AllowIsCarried
  <2>2. CASE Decision(judged, d) = "deny"
    BY <1>2, <1>3, <1>6, <1>11, <2>2 DEF ConnectDecide, Decision
  <2>3. CASE Decision(judged, d) # "deny"
    <3>1. Decision(judged, d) = "allow" \/ (Decision(judged, d) = "ask" /\ quest[r].granted)
      BY <2>1, <2>3 DEF Decision
    <3>2. q = quest[r] /\ next \in {"dial", "resolve"} /\ quest[r].kind = "connect"
      BY <1>2, <1>4, <1>11, <3>1 DEF ConnectDecide, Inv, AskedInOrder, InOrder
    <3>. QED
      BY <1>0, <1>2, <3>2, ThreadStaysHonest
  <2>. QED
    BY <2>2, <2>3
<1>. QED
  BY <1>5, <1>7, <1>8, <1>9, <1>10, <1>11 DEF JudgeThread, ResolveFails, Dial

(* Judge::take_grant takes the allow its request is owed, or one as good.  *)
LEMMA CheckTakeHonest ==
  ASSUME Inv, HonestInv, Patient, NEW r \in Requests, CheckTake(r)
  PROVE  HonestInv'
<1>. DEFINE e == Endpoint[quest[r].for]
            m == Min(Waiting(e))
            q == [quest[r] EXCEPT !.granted = TRUE]
<1>0. /\ qpc[r] = "take" /\ Waiting(e) # {} /\ grants' = RemoveAt(grants, m)
      /\ quest' = [quest EXCEPT ![r] = q] /\ qpc' = [qpc EXCEPT ![r] = "resolve"]
      /\ UNCHANGED <<overlayVars, kept, serving, requestVars, given>>
  BY DEF CheckTake, Continue
<1>1. /\ e \in Endpoints /\ grants \in Seq(Endpoints) /\ quest[r] \in Questions
      /\ quest[r].kind = "check" /\ quest[r].answer = "none" /\ quest[r].for = asks[r]
      /\ Len(grants) \in Nat
  <2>1. e \in Endpoints /\ quest[r] \in Questions /\ quest[r].answer = "none"
    BY <1>0, Asked
  <2>2. quest[r].kind = "check" /\ grants \in Seq(Endpoints) /\ Len(grants) \in Nat
    BY <1>0 DEF Inv, TypeOK, AskedInOrder, InOrder
  <2>3. quest[r].for = asks[r]
    BY <2>2 DEF HonestInv, AsksItsOwn
  <2>. QED
    BY <2>1, <2>2, <2>3
<1>2. m \in Waiting(e)
  <2>1. Waiting(e) \subseteq 1 .. Len(grants) /\ Len(grants) \in Nat
    BY <1>1 DEF Waiting
  <2>. QED
    BY <1>0, <2>1, MinIsLeast
<1>. HIDE DEF m
<1>3. m \in 1 .. Len(grants) /\ grants[m] = e /\ given[e] > 0
  BY <1>1, <1>2 DEF Waiting, Inv, AllowsAreGiven
<1>4. /\ q \in Questions /\ q.kind = quest[r].kind /\ q.for = quest[r].for /\ q.granted
      /\ q.since = quest[r].since /\ q.answer = "none" /\ q.id = quest[r].id
  BY <1>1 DEF Questions
<1>. HIDE DEF q
<1>5. Goes(r, "resolve", q)
  BY <1>0, <1>1, <1>3, <1>4 DEF Goes, QPCs
<1>6. GoesHonestly(r, "resolve", q)
  BY <1>0, <1>4 DEF GoesHonestly, HonestInv, AsksItsOwn, AllowIsCarried
<1>7. /\ AsksItsOwn' /\ GoesOnRightly' /\ AllowIsCarried' /\ RefusedIsDenied'
      /\ Begun' = Begun
      /\ \A x \in Endpoints :
           Owed(x)' \subseteq IF qpc[r] = "take" THEN Owed(x) \ {r} ELSE Owed(x)
  BY <1>5, <1>6, ThreadHonest
<1>8. grants' \in Seq(Endpoints) /\ Without(grants, m, grants')
  BY <1>0, <1>1, <1>3, RemovedAt
<1>9. r \in Owed(e)
  BY <1>0, <1>1 DEF Owed
<1>. HIDE DEF e
<1>10. Len(grants') <= Cardinality(Begun')
  <2>1. IsFiniteSet(Begun) /\ Cardinality(Begun) \in Nat
    BY RequestsAssumption, FS_Subset, FS_CardinalityType DEF Begun
  <2>2. Len(grants') = Len(grants) - 1 /\ Len(grants) <= Cardinality(Begun)
    BY <1>8 DEF Without, HonestInv, OwedIsWaiting
  <2>. QED
    BY <1>1, <1>7, <2>1, <2>2
<1>11. ASSUME NEW x \in Endpoints PROVE Cardinality(Owed(x)') <= Cardinality(Waiting(x)')
  <2>1. IsFiniteSet(Owed(x)) /\ Cardinality(Owed(x)) \in Nat
    BY RequestsAssumption, FS_Subset, FS_CardinalityType DEF Owed
  <2>2. /\ Cardinality(Owed(x)) <= Cardinality(Where(grants, {x}))
        /\ Waiting(x)' = Where(grants', {x}) /\ Cardinality(Where(grants, {x})) \in Nat
    BY <1>1, Positions, PositionsCount DEF HonestInv, OwedIsWaiting
  <2>3. Cardinality(Where(grants', {x})) = IF grants[m] \in {x}
          THEN Cardinality(Where(grants, {x})) - 1 ELSE Cardinality(Where(grants, {x}))
    BY <1>1, <1>3, <1>8, WithoutCounts
  <2>4. Owed(x)' \subseteq Owed(x) \ {r}
    BY <1>0, <1>7
  <2>5. CASE x = e
    <3>1. /\ IsFiniteSet(Owed(x) \ {r})
          /\ Cardinality(Owed(x) \ {r}) = Cardinality(Owed(x)) - 1
      BY <1>9, <2>1, <2>5, FS_RemoveElement
    <3>2. Cardinality(Owed(x)') <= Cardinality(Owed(x) \ {r}) /\ Cardinality(Owed(x)') \in Nat
      BY <2>4, <3>1, FS_Subset, FS_CardinalityType
    <3>3. Cardinality(Waiting(x)') = Cardinality(Where(grants, {x})) - 1
      BY <1>3, <2>2, <2>3, <2>5
    <3>. QED
      BY <2>1, <2>2, <3>1, <3>2, <3>3
  <2>6. CASE x # e
    <3>1. Owed(x)' \subseteq Owed(x)
      BY <2>4
    <3>2. Cardinality(Owed(x)') <= Cardinality(Owed(x)) /\ Cardinality(Owed(x)') \in Nat
      BY <2>1, <3>1, FS_Subset, FS_CardinalityType
    <3>3. Cardinality(Waiting(x)') = Cardinality(Where(grants, {x}))
      BY <1>3, <2>2, <2>3, <2>6
    <3>. QED
      BY <2>1, <2>2, <3>2, <3>3
  <2>. QED
    BY <2>5, <2>6
<1>. QED
  BY <1>7, <1>10, <1>11 DEF HonestInv, OwedIsWaiting

(* Judge::check lets no check go that holds an allow.                      *)
LEMMA CheckKeepHonest ==
  ASSUME Inv, HonestInv, Patient, NEW r \in Requests, CheckKeep(r)
  PROVE  HonestInv'
<1>. DEFINE q == [quest[r] EXCEPT !.answer = "Checked"]
<1>0. /\ qpc[r] = "keep" /\ Hand(r, "Checked")
      /\ UNCHANGED <<overlayVars, grants, serving, requestVars, historyVars>>
  BY DEF CheckKeep
<1>1. /\ quest[r] \in Questions /\ quest[r].kind = "check" /\ quest[r].for = asks[r]
      /\ quest[r].id = r
      /\ quest[r].granted \/ Allowed(judged, asks[r])
  BY <1>0, Asked DEF Inv, AskedInOrder, InOrder, HonestInv, AsksItsOwn, AllowIsCarried
<1>2. kept' = Append(RoomMade, Found(r)) /\ Found(r) \in Checks
  BY CheckKeepInv
<1>3. /\ RoomMade \in Seq(Checks)
      /\ \A j \in DOMAIN RoomMade : \E k \in DOMAIN kept : RoomMade[j] = kept[k]
      /\ \A k \in DOMAIN kept :
           kept[k].granted => \E j \in DOMAIN RoomMade : RoomMade[j] = kept[k]
  BY RoomForOne
<1>4. /\ DOMAIN kept' = DOMAIN RoomMade \cup {Len(RoomMade) + 1}
      /\ \A i \in DOMAIN RoomMade : kept'[i] = RoomMade[i]
      /\ kept'[Len(RoomMade) + 1] = Found(r)
  BY <1>2, <1>3, Appended
<1>5. /\ Found(r).id = r /\ Found(r).at = Endpoint[asks[r]]
      /\ Found(r).granted \/ Allowed(judged, asks[r])
  BY <1>1 DEF Found
<1>6. Goes(r, "handed", q)
  BY <1>0, <1>1, HandGoes DEF Answers
<1>7. q.id = quest[r].id /\ q.answer = "Checked"
  BY <1>1 DEF Questions
<1>. HIDE DEF q
<1>8. \A i \in DOMAIN kept' : kept'[i] = Found(r) \/ \E k \in DOMAIN kept : kept'[i] = kept[k]
  <2>. SUFFICES ASSUME NEW i \in DOMAIN kept'
                PROVE  kept'[i] = Found(r) \/ \E k \in DOMAIN kept : kept'[i] = kept[k]
    OBVIOUS
  <2>1. CASE i \in DOMAIN RoomMade
    <3>1. kept'[i] = RoomMade[i] /\ \E k \in DOMAIN kept : RoomMade[i] = kept[k]
      BY ONLY <1>3, <1>4, <2>1, Zenon
    <3>. QED
      BY ONLY <3>1, Zenon
  <2>2. CASE i = Len(RoomMade) + 1
    BY ONLY <1>4, <2>2, Zenon
  <2>3. i \in DOMAIN RoomMade \/ i = Len(RoomMade) + 1
    BY <1>4, Zenon
  <2>. QED
    BY ONLY <2>1, <2>2, <2>3, Zenon
<1>9. \A i \in DOMAIN kept' : /\ kept'[i].at = Endpoint[asks[kept'[i].id]]
                              /\ kept'[i].granted \/ Allowed(judged, asks[kept'[i].id])
  BY <1>5, <1>8 DEF HonestInv, AsksItsOwn, AllowIsCarried
<1>10. \A i \in DOMAIN kept : \/ Allowed(judged, asks[kept[i].id])
                              \/ \E j \in DOMAIN kept' : kept'[j] = kept[i]
  BY <1>3, <1>4 DEF HonestInv, AllowIsCarried
<1>11. \E i \in DOMAIN kept' : kept'[i].id = r
  BY <1>4, <1>5
<1>12. GoesHonestly(r, "handed", q)
  BY <1>7, <1>9, <1>10, <1>11 DEF GoesHonestly
<1>13. /\ AsksItsOwn' /\ GoesOnRightly' /\ AllowIsCarried' /\ RefusedIsDenied'
       /\ Begun' = Begun
       /\ \A x \in Endpoints :
            Owed(x)' \subseteq IF qpc[r] = "take" THEN Owed(x) \ {r} ELSE Owed(x)
  BY <1>6, <1>12, ThreadHonest
<1>14. \A x \in Endpoints : Owed(x)' \subseteq Owed(x)
  BY <1>13
<1>15. OwedIsWaiting'
  BY <1>0, <1>13, <1>14, OwedStays DEF HonestInv
<1>. QED
  BY <1>13, <1>15 DEF HonestInv

(* A question ends without a thread, gives its place back, or is answered. *)
LEMMA EndingHonest ==
  ASSUME Inv, HonestInv, NEW r \in Requests, NoThread(r) \/ GiveBack(r) \/ Write(r)
  PROVE  HonestInv'
<1>0. /\ judged' = judged /\ asks' = asks /\ kept' = kept /\ grants' = grants
      /\ stage[r] = "asking" /\ qpc'[r] \in {"none", "freed"} /\ stage'[r] # "noted"
      /\ stage'[r] \notin {"cleared", "new", "parked"}
      /\ \A x \in Requests \ {r} : /\ quest'[x] = quest[x] /\ qpc'[x] = qpc[x]
                                   /\ stage'[x] = stage[x] /\ refusal'[x] = refusal[x]
  <2>1. CASE NoThread(r)
    BY <2>1 DEF NoThread, Move, Inv, TypeOK, AskedInOrder, InOrder
  <2>2. CASE GiveBack(r)
    BY <2>2 DEF GiveBack, Continue, Inv, TypeOK, AskedInOrder, InOrder
  <2>3. CASE Write(r)
    <3>1. quest[r].answer \in {"Checked", "Connected", "Supervisor", "Upstream"}
      BY <2>3 DEF Write, Inv, AskedInOrder, InOrder, Questions, Answers, NoQuestion
    <3>2. Answered[quest[r].answer] \in {"checked", "connected", "refused"}
      BY <3>1 DEF Answered
    <3>. QED
      BY <2>3, <3>2 DEF Write, Continue, Move, Inv, TypeOK, AskedInOrder, InOrder
  <2>. QED
    BY <2>1, <2>2, <2>3
<1>1. /\ quest'[r] = quest[r] \/ quest'[r] = NoQuestion
      /\ refusal'[r] = "Supervisor" =>
           refusal[r] = "Supervisor" \/ quest[r].answer = "Supervisor"
      /\ stage'[r] \in {"checked", "connected"} =>
           quest[r].kind = "connect" \/ quest[r].answer = "Checked"
      /\ stage'[r] = "asking" => quest'[r] = quest[r]
  <2>1. CASE NoThread(r)
    BY <2>1 DEF NoThread, Move, Inv, TypeOK, AskedInOrder, InOrder
  <2>2. CASE GiveBack(r)
    BY <2>2 DEF GiveBack, Continue, Inv, TypeOK, AskedInOrder, InOrder
  <2>3. CASE Write(r)
    <3>1. /\ quest[r].answer \in {"Checked", "Connected", "Supervisor", "Upstream"}
          /\ quest[r].answer = "Connected" => quest[r].kind = "connect"
      BY <2>3 DEF Write, Inv, AskedInOrder, InOrder, Questions, Answers, NoQuestion
    <3>2. /\ Answered[quest[r].answer] \in {"checked", "connected", "refused"}
          /\ Answered[quest[r].answer] = "connected" => quest[r].answer = "Connected"
          /\ Answered[quest[r].answer] = "checked" => quest[r].answer = "Checked"
      BY <3>1 DEF Answered
    <3>3. quest'[r] = NoQuestion /\ stage'[r] = Answered[quest[r].answer]
      BY <2>3 DEF Write, Move, Inv, TypeOK, AskedInOrder
    <3>4. refusal'[r] = "Supervisor" =>
            refusal[r] = "Supervisor" \/ quest[r].answer = "Supervisor"
      BY <2>3 DEF Write, Inv, TypeOK
    <3>. QED
      BY <3>1, <3>2, <3>3, <3>4
  <2>. QED
    BY <2>1, <2>2, <2>3
<1>2. AsksItsOwn'
  BY <1>0, <1>1 DEF HonestInv, AsksItsOwn, NoQuestion
<1>3. GoesOnRightly'
  BY <1>0 DEF HonestInv, GoesOnRightly
<1>4. RefusedIsDenied'
  BY <1>0, <1>1 DEF HonestInv, RefusedIsDenied, NoQuestion
<1>5. AllowIsCarried'
  <2>1. \A x \in Requests :
          (quest'[x].kind = "check" /\ qpc'[x] \in {"resolve", "keep"}) \/ qpc'[x] = "rule"
          => quest'[x].granted \/ Allowed(judged', asks'[x])
    BY <1>0 DEF HonestInv, AllowIsCarried
  <2>2. \A i \in DOMAIN kept' : kept'[i].granted \/ Allowed(judged', asks'[kept'[i].id])
    BY <1>0 DEF HonestInv, AllowIsCarried
  <2>3. \A x \in Requests :
          \/ stage'[x] \in {"checked", "connected"} \/ quest'[x].answer = "Checked"
          \/ stage'[x] = "asking" /\ quest'[x].kind = "connect"
          => Allowed(judged', asks'[x]) \/ \E i \in DOMAIN kept' : kept'[i].id = x
    BY <1>0, <1>1 DEF HonestInv, AllowIsCarried, NoQuestion
  <2>. QED
    BY <2>1, <2>2, <2>3 DEF AllowIsCarried
<1>6. (\A e \in Endpoints : Owed(e)' \subseteq Owed(e)) /\ Begun \subseteq Begun'
  BY <1>0 DEF Owed, Begun
<1>7. OwedIsWaiting'
  BY <1>0, <1>6, OwedStays DEF HonestInv
<1>. QED
  BY <1>2, <1>3, <1>4, <1>5, <1>7 DEF HonestInv

LEMMA NextHonest ==
  ASSUME Inv, HonestInv, Patient, [Next]_vars
  PROVE  HonestInv'
<1>1. ASSUME NEW r \in Requests, ProxyStep(r) \/ OperatorStep(r) \/ AnswerAllow(r)
      PROVE  HonestInv'
  <2>1. \/ Moving(r) \/ NoteGrant(r)
        \/ \E kind \in Kinds, id \in Requests, d \in Dests : Ask(r, kind, id, d)
    BY <1>1 DEF ProxyStep, OperatorStep, Moving, Kinds
  <2>. QED
    BY <2>1, MovingHonest, NoteGrantHonest, AskHonest
<1>2. ASSUME NEW r \in Requests, JudgeStep(r) PROVE HonestInv'
  BY <1>2, EndingHonest, JudgeThreadHonest, CheckTakeHonest, CheckKeepHonest
     DEF JudgeStep, JudgeThread
<1>3. ASSUME OverlayStep \/ UNCHANGED vars PROVE HonestInv'
  <2>1. /\ judged \subseteq judged'
        /\ UNCHANGED <<grants, kept, requestVars, questionVars, historyVars>>
    BY <1>3 DEF OverlayStep, Sent, Install, vars
  <2>. QED
    BY <2>1, OverlayHonest
<1>. QED
  BY <1>1, <1>2, <1>3 DEF Next, Finished, GrantLapses, CheckLapses, Patient

(* What an honest proxy cleared, on a rule or on an operator's one-shot    *)
(* allow, Judge::check and Judge::connect refuse only over a deny rule     *)
(* that came meanwhile, whatever other requests take and keep between its  *)
(* steps; as long as nothing lapses and every request's allow can wait.    *)
THEOREM VerdictsHold == Spec => []VerdictHeld
<1>. DEFINE I == Inv /\ (Patient => HonestInv)
<1>1. I => VerdictHeld
  BY DEF VerdictHeld, Patient, HonestInv, RefusedIsDenied, Decision
<1>2. Init => I
  BY InitInv, HonestInit
<1>3. I /\ [Next]_vars => I'
  <2>1. Patient' <=> Patient
    BY DEF Patient
  <2>. QED
    BY <2>1, NextInv, NextHonest
<1>. QED
  BY <1>1, <1>2, <1>3, PTL DEF Spec
=============================================================================
