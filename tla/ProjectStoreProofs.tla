------------------------- MODULE ProjectStoreProofs -------------------------
(***************************************************************************)
(* What is proved of ProjectStore: that the store lock keeps a collection  *)
(* and a purge away from what a launch or a session of the project uses,   *)
(* for any projects, launches and runs of a verb, until a verb that takes  *)
(* a whole tree begins; and that the order the locks are taken in lets no  *)
(* circle of actors wait for one another, whatever trees are taken.        *)
(***************************************************************************)
EXTENDS ProjectStore, TLAPS, WellFoundedInduction, FiniteSetTheorems

(* The lowest of a set of project ids is one of them.                      *)
LEMMA MinIsIn ==
  ASSUME NEW S \in SUBSET Projects, S # {}
  PROVE  Min(S) \in S /\ NextToLock(S) \subseteq S /\ \A y \in S : Min(S) <= y
<1>1. PICK x \in S : TRUE
  OBVIOUS
<1>2. S \subseteq Nat
  BY ProjectsAssumption
<1>3. \E m \in S : \A y \in S : ~ (<<y, m>> \in OpToRel(<, Nat))
  BY <1>1, <1>2, NatLessThanWellFounded, WFMin, Zenon
<1>4. \A m, y \in Nat : y < m => <<y, m>> \in OpToRel(<, Nat)
  BY Zenon DEF OpToRel
<1>5. PICK m \in S : \A y \in S : ~ (y < m)
  BY <1>2, <1>3, <1>4, Zenon
<1>6. \A y \in S : m <= y
  BY <1>2, <1>5
<1>7. Min(S) \in S /\ \A y \in S : Min(S) <= y
  BY <1>6 DEF Min
<1>. QED
  BY <1>7 DEF NextToLock

(* Where a step of one actor leaves the others.                            *)
LEMMA GoesFacts ==
  ASSUME TypeOK, NEW a \in Actors, NEW to \in Steps, Goes(a, to)
  PROVE  /\ st' \in [Actors -> Steps] /\ st'[a] = to
         /\ \A b \in Actors : b # a => st'[b] = st[b]
BY DEF TypeOK, Goes

(* An actor that began never comes back to where it began.                 *)
LEMMA TakenBefore ==
  ASSUME TypeOK, NEW a \in Actors, NEW to \in Steps, to # "idle", Goes(a, to),
         kind' = kind, NoTreeTaken'
  PROVE  NoTreeTaken
<1>1. TakesTrees' = TakesTrees /\ TakesTrees \subseteq Verbs
  BY DEF TakesTrees
<1>2. \A v \in TakesTrees : st'[v] = "idle"
  BY <1>1 DEF NoTreeTaken
<1>3. \A v \in TakesTrees : v \in Actors
  BY <1>1 DEF Actors
<1>. QED
  BY <1>2, <1>3, GoesFacts DEF NoTreeTaken

(* A step of one actor that takes and leaves no lock.                      *)
LEMMA HoldsTheSame ==
  ASSUME TypeOK, HoldsWhatItUses, NEW a \in Actors, NEW to \in Steps, Goes(a, to),
         UNCHANGED <<kind, at, left, held, recorded>>,
         to # "idle", a \notin recorded,
         to \in {"building", "marked", "provisioned", "recording", "locked", "working"}
           => <<a, at[a]>> \in held
  PROVE  HoldsWhatItUses'
<1>1. /\ st' \in [Actors -> Steps] /\ st'[a] = to
      /\ \A b \in Actors : b # a => st'[b] = st[b]
  BY GoesFacts
<1>2. Launches \subseteq Actors /\ Verbs \subseteq Actors /\ recorded \subseteq Actors
  BY DEF Actors, TypeOK
<1>3. \A b \in Actors : st'[b] = "idle" => \A p \in Projects : <<b, p>> \notin held'
  BY <1>1 DEF HoldsWhatItUses
<1>4. \A l \in Launches :
        st'[l] \in {"building", "marked", "provisioned", "recording"} => <<l, at'[l]>> \in held'
  BY <1>1, <1>2 DEF HoldsWhatItUses
<1>5. \A l \in recorded' : st'[l] = "running"
  BY <1>1, <1>2 DEF HoldsWhatItUses
<1>6. \A v \in Verbs : st'[v] \in {"locked", "working"} => <<v, at'[v]>> \in held'
  BY <1>1, <1>2 DEF HoldsWhatItUses
<1>7. \A v \in Verbs : kind'[v] = "collect" =>
        left'[v] = {} /\ \A p \in Projects : <<v, p>> \in held' => p = at'[v]
  BY DEF HoldsWhatItUses
<1>. QED
  BY <1>3, <1>4, <1>5, <1>6, <1>7 DEF HoldsWhatItUses

-----------------------------------------------------------------------------
LEMMA InitInv == Init => Inv
<1>. SUFFICES ASSUME Init PROVE Inv
  OBVIOUS
<1>1. TypeOK
  BY ProjectsAssumption DEF Init, TypeOK, Steps, Parts
<1>2. AtAProject
  BY DEF Init, AtAProject
<1>3. Safe
  <2>1. OneFileEach
    BY DEF Init, OneFileEach, Actors
  <2>2. Excludes /\ HoldsWhatItUses /\ NoneRecorded
    BY DEF Init, Excludes, HoldsWhatItUses, NoneRecorded, Actors
  <2>. QED
    BY <2>1, <2>2 DEF Safe
<1>. QED
  BY <1>1, <1>2, <1>3 DEF Inv

-----------------------------------------------------------------------------
(* The steps that take the lock.                                           *)

LEMMA OpenInv ==
  ASSUME Inv, NEW a \in Actors, Open(a)
  PROVE  Inv'
<1>. DEFINE p == at[a]
<1>1. TypeOK /\ AtAProject
  BY DEF Inv
<1>2. p \in Projects
  BY <1>1 DEF Open, AtAProject
<1>3. PICK to \in {"trying", "blocked"} : Goes(a, to)
  BY DEF Open
<1>4. /\ st' \in [Actors -> Steps] /\ st'[a] = to
      /\ \A b \in Actors : b # a => st'[b] = st[b]
  BY <1>1, <1>3, GoesFacts DEF Steps
<1>5. /\ node' \in [Projects -> Nat] /\ nodes' \in [Projects -> Nat] /\ node'[p] # 0
      /\ node[p] # 0 => node' = node
      /\ \A q \in Projects : q # p => node'[q] = node[q]
  <2>1. node \in [Projects -> Nat] /\ nodes \in [Projects -> Nat]
    BY <1>1 DEF TypeOK
  <2>2. CASE node[p] = 0
    <3>1. nodes' = [nodes EXCEPT ![p] = @ + 1] /\ node' = [node EXCEPT ![p] = nodes'[p]]
      BY <2>2 DEF Open
    <3>. QED
      BY ONLY <1>2, <2>1, <2>2, <3>1
  <2>3. CASE node[p] # 0
    BY <1>2, <2>1, <2>3 DEF Open
  <2>. QED
    BY <2>2, <2>3
<1>6. /\ fd' \in [Actors -> [Projects -> Nat]] /\ fd'[a][p] = node'[p]
      /\ \A b \in Actors, q \in Projects : b # a \/ q # p => fd'[b][q] = fd[b][q]
  <2>1. fd \in [Actors -> [Projects -> Nat]] /\ fd' = [fd EXCEPT ![a][p] = node'[p]]
    BY <1>1 DEF TypeOK, Open
  <2>. QED
    BY ONLY <1>2, <1>5, <2>1
<1>7. TypeOK'
  <2>1. dir' \in [Projects -> BOOLEAN]
    BY <1>1, <1>2, Zenon DEF TypeOK, Open
  <2>. QED
    BY <1>1, <1>4, <1>5, <1>6, <2>1 DEF TypeOK, Open
<1>8. AtAProject'
  BY <1>1, <1>2, <1>3, <1>4 DEF AtAProject, Open
<1>9. ASSUME NoTreeTaken' PROVE Safe'
  <2>1. Safe
    BY <1>1, <1>3, <1>9, TakenBefore DEF Inv, Open, Steps
  <2>2. OneFileEach'
    <3>1. \A b \in Actors, q \in Projects : fd'[b][q] # 0 => fd'[b][q] = node'[q]
      BY <1>2, <1>5, <1>6, <2>1 DEF Safe, OneFileEach
    <3>2. \A b \in Actors : st'[b] \in {"trying", "blocked"} => fd'[b][at'[b]] # 0
      BY <1>1, <1>2, <1>3, <1>4, <1>5, <1>6, <2>1 DEF Safe, OneFileEach, Open, AtAProject
    <3>3. \A h \in held' : fd'[h[1]][h[2]] # 0
      BY <1>1, <1>2, <1>5, <1>6, <2>1 DEF Safe, OneFileEach, Open, TypeOK
    <3>4. \A v \in Verbs : v \in Actors
      BY DEF Actors
    <3>. QED
      BY <1>3, <1>4, <2>1, <3>1, <3>2, <3>3, <3>4 DEF Safe, OneFileEach, Open
  <2>3. Excludes'
    BY <2>1 DEF Safe, Excludes, Open
  <2>4. HoldsWhatItUses'
    <3>1. UNCHANGED <<kind, at, left, held, recorded>> /\ to \in Steps /\ to # "idle"
      BY <1>3 DEF Open, Steps
    <3>2. a \notin recorded
      BY <2>1 DEF Safe, HoldsWhatItUses, Open
    <3>. QED
      BY <1>1, <1>3, <2>1, <3>1, <3>2, HoldsTheSame DEF Safe
  <2>5. NoneRecorded'
    BY <1>3, <1>4, <2>1 DEF Safe, NoneRecorded, Open, Actors
  <2>. QED
    BY <2>2, <2>3, <2>4, <2>5 DEF Safe
<1>. QED
  BY <1>7, <1>8, <1>9 DEF Inv
(* A step of an actor that has its locks, or waits for one, and neither    *)
(* takes nor leaves any.                                                   *)
LEMMA MoveInv ==
  ASSUME Inv, TypeOK', NEW a \in Actors, NEW to \in Steps, Goes(a, to),
         UNCHANGED <<node, kind, at, left, fd, held, recorded, entries>>,
         \/ st[a] = "trying" /\ to = "reopening"
         \/ /\ st[a] \in {"building", "marked", "provisioned"}
            /\ to \in {"marked", "provisioned", "recording", "running"}
  PROVE  Inv'
<1>1. TypeOK /\ AtAProject
  BY DEF Inv
<1>2. /\ st'[a] = to
      /\ \A b \in Actors : b # a => st'[b] = st[b]
  BY <1>1, GoesFacts
<1>3. AtAProject'
  BY <1>1, <1>2 DEF AtAProject
<1>4. ASSUME NoTreeTaken' PROVE Safe'
  <2>1. Safe
    BY <1>1, <1>4, TakenBefore DEF Inv
  <2>2. OneFileEach'
    BY <1>2, <2>1 DEF Safe, OneFileEach, Actors
  <2>3. Excludes'
    BY <2>1 DEF Safe, Excludes
  <2>4. HoldsWhatItUses'
    <3>1. a \notin recorded /\ to # "idle"
      BY <2>1 DEF Safe, HoldsWhatItUses
    <3>2. to # "reopening" => a \in Launches /\ <<a, at[a]>> \in held
      BY <1>1, <2>1 DEF Safe, HoldsWhatItUses, AtAProject
    <3>3. to \in {"building", "marked", "provisioned", "recording", "locked", "working"}
            => <<a, at[a]>> \in held
      BY <3>2
    <3>. QED
      BY <1>1, <2>1, <3>1, <3>3, HoldsTheSame DEF Safe
  <2>5. NoneRecorded'
    BY <1>2, <2>1 DEF Safe, NoneRecorded, Actors
  <2>. QED
    BY <2>2, <2>3, <2>4, <2>5 DEF Safe
<1>. QED
  BY <1>3, <1>4 DEF Inv

LEMMA BusyInv ==
  ASSUME Inv, NEW a \in Actors, Busy(a)
  PROVE  Inv'
<1>1. Goes(a, "reopening") /\ "reopening" \in Steps /\ st[a] = "trying"
  BY DEF Busy, Steps
<1>2. TypeOK
  BY DEF Inv
<1>3. st' \in [Actors -> Steps]
  BY <1>1, <1>2, GoesFacts
<1>4. TypeOK'
  BY <1>2, <1>3 DEF TypeOK, Busy, tree
<1>5. UNCHANGED <<node, kind, at, left, fd, held, recorded, entries, chosen>>
  BY DEF Busy, tree
<1>. QED
  BY <1>1, <1>4, <1>5, MoveInv
(* Where a lock that was granted leads: to the next one, or to work.       *)
LEMMA GrantedLeads ==
  ASSUME Inv, NEW a \in Actors, Granted(a)
  PROVE  \E to \in {"building", "locked", "opening"} :
           /\ Goes(a, to) /\ at' \in [Actors -> Projects \cup {0}]
           /\ left' \in [Verbs -> SUBSET Projects]
           /\ at'[a] \in Projects /\ \A b \in Actors : b # a => at'[b] = at[b]
           /\ \A v \in Verbs : left'[v] \subseteq left[v]
           /\ to = "building" => a \in Launches /\ at' = at
           /\ to = "locked" => a \in Verbs /\ at' = at
           /\ to = "opening" => a \in Verbs /\ left[a] # {}
<1>1. TypeOK /\ AtAProject
  BY DEF Inv
<1>2. at \in [Actors -> Projects \cup {0}] /\ left \in [Verbs -> SUBSET Projects]
  BY <1>1 DEF TypeOK
<1>3. at[a] \in Projects
  BY <1>1 DEF Granted, AtAProject
<1>4. CASE a \in Launches
  <2>1. Goes(a, "building") /\ at' = at /\ left' = left
    BY <1>4, ActorsAssumption DEF Granted
  <2>. QED
    BY <1>2, <1>3, <1>4, <2>1
<1>5. CASE a \in Verbs /\ left[a] = {}
  <2>1. Goes(a, "locked") /\ at' = at /\ left' = [left EXCEPT ![a] = @ \ {at'[a]}]
    BY <1>5, ActorsAssumption DEF Granted
  <2>2. left' = left
    BY <1>2, <1>5, <2>1
  <2>. QED
    BY <1>2, <1>3, <1>5, <2>1, <2>2
<1>6. CASE a \in Verbs /\ left[a] # {}
  <2>1. Goes(a, "opening") /\ left' = [left EXCEPT ![a] = @ \ {at'[a]}]
    BY <1>6, ActorsAssumption DEF Granted
  <2>2. PICK p \in NextToLock(left[a]) : at' = [at EXCEPT ![a] = p]
    BY <1>6, ActorsAssumption DEF Granted
  <2>3. left[a] \in SUBSET Projects
    BY <1>2, <1>6
  <2>4. p \in Projects
    BY <1>6, <2>3, MinIsIn
  <2>5. /\ at' \in [Actors -> Projects \cup {0}] /\ at'[a] = p
        /\ \A b \in Actors : b # a => at'[b] = at[b]
    BY ONLY <1>2, <2>2, <2>4
  <2>6. left' \in [Verbs -> SUBSET Projects] /\ \A v \in Verbs : left'[v] \subseteq left[v]
    BY ONLY <1>2, <1>6, <2>1
  <2>. QED
    BY <1>6, <2>1, <2>4, <2>5, <2>6
<1>. QED
  BY <1>4, <1>5, <1>6 DEF Actors

LEMMA GrantedInv ==
  ASSUME Inv, NEW a \in Actors, Granted(a)
  PROVE  Inv'
<1>1. TypeOK /\ AtAProject
  BY DEF Inv
<1>2. PICK to \in {"building", "locked", "opening"} :
           /\ Goes(a, to) /\ at' \in [Actors -> Projects \cup {0}]
           /\ left' \in [Verbs -> SUBSET Projects]
           /\ at'[a] \in Projects /\ \A b \in Actors : b # a => at'[b] = at[b]
           /\ \A v \in Verbs : left'[v] \subseteq left[v]
           /\ to = "building" => a \in Launches /\ at' = at
           /\ to = "locked" => a \in Verbs /\ at' = at
           /\ to = "opening" => a \in Verbs /\ left[a] # {}
  BY GrantedLeads
<1>3. /\ st' \in [Actors -> Steps] /\ st'[a] = to
      /\ \A b \in Actors : b # a => st'[b] = st[b]
  BY <1>1, <1>2, GoesFacts DEF Steps
<1>4. at[a] \in Projects /\ st[a] \in {"trying", "blocked"}
  BY <1>1 DEF Granted, AtAProject
<1>5. held' = held \cup {<<a, at[a]>>} /\ held' \subseteq Actors \X Projects
  BY <1>1, <1>4 DEF Granted, TypeOK
<1>6. UNCHANGED <<exists, tree, kind, fd, recorded, saw, entries, chosen>>
  BY DEF Granted
<1>7. TypeOK'
  BY <1>1, <1>2, <1>3, <1>5, <1>6 DEF TypeOK, tree
<1>8. AtAProject'
  BY <1>1, <1>2, <1>3 DEF AtAProject
<1>9. ASSUME NoTreeTaken' PROVE Safe'
  <2>1. Safe
    BY <1>1, <1>2, <1>6, <1>9, TakenBefore DEF Inv, Steps
  <2>2. fd[a][at[a]] = node[at[a]] /\ fd[a][at[a]] # 0
    BY <1>4, <2>1 DEF Safe, OneFileEach
  <2>3. \A b \in Actors : b # a /\ <<b, at[a]>> \in held => a \notin Verbs /\ b \notin Verbs
    <3>1. \A b \in Actors : <<b, at[a]>> \in held => fd[b][at[a]] # 0
      BY <2>1 DEF Safe, OneFileEach
    <3>2. \A b \in Actors : <<b, at[a]>> \in held => fd[b][at[a]] = fd[a][at[a]]
      BY <1>4, <2>1, <2>2, <3>1 DEF Safe, OneFileEach
    <3>. QED
      BY <3>2 DEF Granted, Grantable, Exclusive
  <2>4. OneFileEach'
    <3>1. \A h \in held' : fd'[h[1]][h[2]] # 0
      BY <1>5, <1>6, <2>1, <2>2 DEF Safe, OneFileEach
    <3>2. \A b \in Actors : st'[b] \in {"trying", "blocked"} => fd'[b][at'[b]] # 0
      BY <1>2, <1>3, <1>6, <2>1 DEF Safe, OneFileEach
    <3>. QED
      BY <1>2, <1>3, <1>6, <2>1, <3>1, <3>2 DEF Safe, OneFileEach, tree, Actors
  <2>5. Excludes'
    BY <1>5, <2>1, <2>3 DEF Safe, Excludes, Actors
  <2>6. HoldsWhatItUses'
    <3>. USE <1>2, <1>3, <1>5, <1>6, <2>1 DEF Safe, HoldsWhatItUses
    <3>1. \A b \in Actors : st'[b] = "idle" => \A p \in Projects : <<b, p>> \notin held'
      OBVIOUS
    <3>2. \A l \in Launches :
            st'[l] \in {"building", "marked", "provisioned", "recording"} => <<l, at'[l]>> \in held'
      BY DEF Actors
    <3>3. \A l \in recorded' : st'[l] = "running"
      BY <1>1, <1>4 DEF TypeOK, Actors
    <3>4. \A v \in Verbs : st'[v] \in {"locked", "working"} => <<v, at'[v]>> \in held'
      BY DEF Actors
    <3>5. \A v \in Verbs : kind'[v] = "collect" =>
            left'[v] = {} /\ \A p \in Projects : <<v, p>> \in held' => p = at'[v]
      BY DEF Actors
    <3>. QED
      BY ONLY <3>1, <3>2, <3>3, <3>4, <3>5 DEF HoldsWhatItUses
  <2>7. NoneRecorded'
    <3>1. \A l \in recorded : l \in Actors /\ l # a
      BY <1>1, <1>4, <2>1 DEF TypeOK, Safe, HoldsWhatItUses, Actors
    <3>. QED
      BY <1>2, <1>3, <1>5, <1>6, <2>1, <3>1 DEF Safe, NoneRecorded, Actors
  <2>. QED
    BY <2>4, <2>5, <2>6, <2>7 DEF Safe
<1>. QED
  BY <1>7, <1>8, <1>9 DEF Inv
-----------------------------------------------------------------------------
(* The steps of a launch.                                                  *)

(* An actor that holds nothing sets out for a project.                     *)
LEMMA SetOutInv ==
  ASSUME Inv, TypeOK', NEW a \in Actors, NEW p \in Projects, st[a] = "idle",
         Goes(a, "opening"), at' = [at EXCEPT ![a] = p],
         UNCHANGED <<node, kind, fd, held, recorded, entries>>,
         \A v \in Verbs : kind[v] = "collect" =>
           left'[v] = left[v] \/ (v = a /\ left'[v] = {})
  PROVE  Inv'
<1>1. TypeOK /\ AtAProject /\ "opening" \in Steps
  BY DEF Inv, Steps
<1>2. /\ st'[a] = "opening" /\ \A b \in Actors : b # a => st'[b] = st[b]
  BY <1>1, GoesFacts
<1>3. at'[a] = p /\ \A b \in Actors : b # a => at'[b] = at[b]
  BY <1>1 DEF TypeOK
<1>4. AtAProject'
  BY <1>1, <1>2, <1>3 DEF AtAProject
<1>5. ASSUME NoTreeTaken' PROVE Safe'
  <2>1. Safe
    BY <1>1, <1>5, TakenBefore DEF Inv
  <2>2. OneFileEach'
    BY <1>2, <1>3, <2>1 DEF Safe, OneFileEach, Actors
  <2>3. Excludes'
    BY <2>1 DEF Safe, Excludes
  <2>4. a \notin recorded /\ recorded \subseteq Actors
    BY <1>1, <2>1 DEF Safe, HoldsWhatItUses, TypeOK, Actors
  <2>5. HoldsWhatItUses'
    <3>. USE <1>2, <1>3, <2>1, <2>4 DEF Safe, HoldsWhatItUses
    <3>1. \A b \in Actors : st'[b] = "idle" => \A q \in Projects : <<b, q>> \notin held'
      OBVIOUS
    <3>2. \A l \in Launches :
            st'[l] \in {"building", "marked", "provisioned", "recording"} => <<l, at'[l]>> \in held'
      BY DEF Actors
    <3>3. \A l \in recorded' : st'[l] = "running"
      OBVIOUS
    <3>4. \A v \in Verbs : st'[v] \in {"locked", "working"} => <<v, at'[v]>> \in held'
      BY DEF Actors
    <3>5. \A v \in Verbs : kind'[v] = "collect" =>
            left'[v] = {} /\ \A q \in Projects : <<v, q>> \in held' => q = at'[v]
      BY DEF Actors
    <3>. QED
      BY ONLY <3>1, <3>2, <3>3, <3>4, <3>5 DEF HoldsWhatItUses
  <2>6. NoneRecorded'
    BY <1>2, <1>3, <2>1, <2>4 DEF Safe, NoneRecorded, Actors
  <2>. QED
    BY <2>2, <2>3, <2>5, <2>6 DEF Safe
<1>. QED
  BY <1>4, <1>5 DEF Inv

LEMMA LaunchInv ==
  ASSUME Inv, NEW l \in Launches, NEW p \in Projects, Launch(l, p)
  PROVE  Inv'
<1>1. l \in Actors /\ TypeOK /\ Goes(l, "opening") /\ "opening" \in Steps
  BY DEF Actors, Inv, Launch, Steps
<1>2. at' = [at EXCEPT ![l] = p] /\ st[l] = "idle"
  BY DEF Launch
<1>3. at' \in [Actors -> Projects \cup {0}] /\ st' \in [Actors -> Steps]
  BY <1>1, <1>2, GoesFacts DEF TypeOK
<1>4. UNCHANGED <<exists, tree, kind, left, fd, held, recorded, saw, entries, chosen>>
  BY DEF Launch
<1>5. TypeOK'
  BY <1>1, <1>3, <1>4 DEF TypeOK, tree
<1>. QED
  BY <1>1, <1>2, <1>4, <1>5, SetOutInv DEF tree

LEMMA BuildInv ==
  ASSUME Inv, NEW l \in Launches, Mark(l) \/ Provision(l) \/ Record(l) \/ RunUnderLock(l)
  PROVE  Inv'
<1>1. l \in Actors /\ TypeOK /\ AtAProject
  BY DEF Actors, Inv
<1>2. PICK to \in {"marked", "provisioned", "recording", "running"} : Goes(l, to)
  BY DEF Mark, Provision, Record, RunUnderLock
<1>3. to \in Steps /\ st[l] \in {"building", "marked", "provisioned"}
  BY DEF Mark, Provision, Record, RunUnderLock, Steps
<1>4. st' \in [Actors -> Steps] /\ at[l] \in Projects
  BY <1>1, <1>2, <1>3, GoesFacts DEF AtAProject
<1>5. UNCHANGED <<exists, node, nodes, kind, at, left, fd, held, recorded, saw, entries, chosen>>
  BY DEF Mark, Provision, Record, RunUnderLock, LockAtRecord, tree
<1>6. dir' \in [Projects -> BOOLEAN]
  <2>1. dir' = dir \/ dir' = [dir EXCEPT ![at[l]] = TRUE]
    BY DEF Mark, Provision, Record, RunUnderLock, tree
  <2>. QED
    BY <1>1, <2>1, Zenon DEF TypeOK
<1>7. parts' \in [Projects -> SUBSET Parts]
  <2>1. \/ parts' = parts
        \/ \E x \in Parts : parts' = [parts EXCEPT ![at[l]] = @ \cup {x}]
    BY DEF Mark, Provision, Record, RunUnderLock, tree, Parts
  <2>2. parts \in [Projects -> SUBSET Parts]
    BY <1>1 DEF TypeOK
  <2>. QED
    BY ONLY <1>4, <2>1, <2>2
<1>8. TypeOK'
  BY <1>1, <1>4, <1>5, <1>6, <1>7 DEF TypeOK
<1>. QED
  BY <1>1, <1>2, <1>3, <1>5, <1>8, MoveInv
(* An actor lets its locks go: a launch that is recorded, one that ends, a *)
(* verb that is done.                                                      *)
LEMMA LeaveInv ==
  ASSUME Inv, TypeOK', NEW a \in Actors, NEW to \in {"running", "ended", "done", "sweeping"},
         Goes(a, to), LetsGo(a), UNCHANGED <<node, kind, at, left, fd, entries>>,
         st[a] # "idle", to \in {"running", "ended"} => at[a] \in Projects,
         to = "running" => st[a] = "recording",
         to = "sweeping" => a \in TakesTrees, to = "done" => a \in Verbs,
         \A l \in recorded' : (l \in recorded /\ l # a) \/ (l = a /\ to = "running")
  PROVE  Inv'
<1>1. TypeOK /\ AtAProject /\ to \in Steps /\ to # "idle"
  BY DEF Inv, Steps
<1>2. st'[a] = to /\ \A b \in Actors : b # a => st'[b] = st[b]
  BY <1>1, GoesFacts
<1>3. \A b \in Actors, p \in Projects : <<b, p>> \in held' <=> <<b, p>> \in held /\ b # a
  BY DEF LetsGo
<1>4. TakesTrees \subseteq Verbs /\ Launches \subseteq Actors /\ Verbs \subseteq Actors
  BY DEF TakesTrees, Actors
<1>5. AtAProject'
  BY <1>1, <1>2, <1>4 DEF AtAProject
<1>6. ASSUME NoTreeTaken' PROVE Safe'
  <2>1. Safe /\ NoTreeTaken
    BY <1>1, <1>6, TakenBefore DEF Inv
  <2>2. to # "sweeping" /\ held' \subseteq held
    BY <2>1 DEF NoTreeTaken, LetsGo
  <2>3. OneFileEach'
    BY <1>2, <1>4, <2>1, <2>2 DEF Safe, OneFileEach
  <2>4. Excludes'
    BY <2>1, <2>2 DEF Safe, Excludes
  <2>5. HoldsWhatItUses'
    <3>. USE <1>2, <1>4, <2>1, <2>2 DEF Safe, HoldsWhatItUses
    <3>1. \A b \in Actors : st'[b] = "idle" => \A q \in Projects : <<b, q>> \notin held'
      BY <1>1
    <3>2. \A l \in Launches :
            st'[l] \in {"building", "marked", "provisioned", "recording"} => <<l, at'[l]>> \in held'
      BY <1>1, <1>3 DEF AtAProject
    <3>3. \A l \in recorded' : st'[l] = "running"
      BY <1>1 DEF TypeOK
    <3>4. \A v \in Verbs : st'[v] \in {"locked", "working"} => <<v, at'[v]>> \in held'
      BY <1>1, <1>3 DEF AtAProject
    <3>5. \A v \in Verbs : kind'[v] = "collect" =>
            left'[v] = {} /\ \A q \in Projects : <<v, q>> \in held' => q = at'[v]
      OBVIOUS
    <3>. QED
      BY ONLY <3>1, <3>2, <3>3, <3>4, <3>5 DEF HoldsWhatItUses
  <2>6. NoneRecorded'
    <3>. SUFFICES ASSUME NEW v \in Verbs, NEW l \in recorded', st'[v] = "working",
                         <<v, at[l]>> \in held'
                  PROVE  FALSE
      BY DEF NoneRecorded
    <3>1. st[v] = "working" /\ <<v, at[l]>> \in held
      BY <1>2, <1>4, <2>2
    <3>2. CASE l \in recorded
      BY <2>1, <3>1, <3>2 DEF Safe, NoneRecorded
    <3>3. CASE l = a /\ to = "running"
      <4>1. a \in Launches
        BY <1>1, <3>3 DEF AtAProject
      <4>2. <<a, at[a]>> \in held /\ at[a] \in Projects
        BY <2>1, <3>3, <4>1 DEF Safe, HoldsWhatItUses
      <4>3. v # a
        BY <4>1, ActorsAssumption
      <4>. QED
        BY <2>1, <3>1, <3>3, <4>2, <4>3 DEF Safe, Excludes
    <3>. QED
      BY <3>2, <3>3
  <2>. QED
    BY <2>3, <2>4, <2>5, <2>6 DEF Safe
<1>. QED
  BY <1>5, <1>6 DEF Inv

LEMMA RecordedInv ==
  ASSUME Inv, NEW l \in Launches, NEW written \in BOOLEAN, Recorded(l, written)
  PROVE  Inv'
<1>1. l \in Actors /\ TypeOK /\ AtAProject /\ "running" \in Steps
  BY DEF Actors, Inv, Steps
<1>2. Goes(l, "running") /\ LetsGo(l) /\ st[l] = "recording"
  BY DEF Recorded
<1>3. UNCHANGED <<exists, tree, kind, at, left, fd, saw, entries, chosen>>
  BY DEF Recorded
<1>4. recorded' \subseteq recorded \cup {l}
  BY DEF Recorded
<1>5. st' \in [Actors -> Steps] /\ at[l] \in Projects
  BY <1>1, <1>2, GoesFacts DEF AtAProject
<1>6. held' \subseteq Actors \X Projects
  BY <1>1, <1>2 DEF LetsGo, TypeOK
<1>7. TypeOK'
  BY <1>1, <1>3, <1>4, <1>5, <1>6 DEF TypeOK, tree
<1>. QED
  BY <1>1, <1>2, <1>3, <1>4, <1>5, <1>7, LeaveInv DEF tree

LEMMA EndInv ==
  ASSUME Inv, NEW l \in Launches, End(l)
  PROVE  Inv'
<1>1. l \in Actors /\ l \notin Verbs /\ TypeOK /\ AtAProject /\ "ended" \in Steps
  BY ActorsAssumption DEF Actors, Inv, Steps
<1>2. Goes(l, "ended") /\ LetsGo(l) /\ st[l] # "idle"
  BY DEF End
<1>3. UNCHANGED <<exists, tree, kind, at, left, fd, saw, entries, chosen>> /\ recorded' = recorded \ {l}
  BY DEF End
<1>4. st' \in [Actors -> Steps]
  BY <1>1, <1>2, GoesFacts
<1>5. held' \subseteq Actors \X Projects
  BY <1>1, <1>2 DEF LetsGo, TypeOK
<1>6. TypeOK'
  BY <1>1, <1>3, <1>4, <1>5 DEF TypeOK, tree
<1>7. at[l] \in Projects
  BY <1>1, <1>2 DEF AtAProject
<1>8. UNCHANGED <<node, kind, at, left, fd, entries>>
  BY <1>3 DEF tree
<1>9. \A k \in recorded' : (k \in recorded /\ k # l) \/ (k = l /\ "ended" = "running")
  BY <1>3
<1>. QED
  BY <1>1, <1>2, <1>6, <1>7, <1>8, <1>9, LeaveInv
-----------------------------------------------------------------------------
(* The steps of a verb.                                                    *)

LEMMA BeginInv ==
  ASSUME Inv, NEW v \in Verbs, NEW p \in Projects, Begin(v, p)
  PROVE  Inv'
<1>. DEFINE all == IF kind[v] = "purge"
                   THEN {q \in Projects : "provisioned" \in parts[q]} ELSE {p}
<1>1. v \in Actors /\ TypeOK /\ Goes(v, "opening") /\ "opening" \in Steps
  BY DEF Actors, Inv, Begin, Steps
<1>2. at' = [at EXCEPT ![v] = p] /\ st[v] = "idle" /\ left' = [left EXCEPT ![v] = all \ {p}]
  BY DEF Begin
<1>3. at' \in [Actors -> Projects \cup {0}] /\ st' \in [Actors -> Steps]
  BY <1>1, <1>2, GoesFacts DEF TypeOK
<1>4. UNCHANGED <<exists, tree, kind, fd, held, recorded, saw, entries>>
  BY DEF Begin
<1>5. left' \in [Verbs -> SUBSET Projects] /\ chosen' \in [Verbs -> SUBSET Projects]
  BY <1>1, <1>2 DEF TypeOK, Begin
<1>6. TypeOK'
  BY <1>1, <1>3, <1>4, <1>5 DEF TypeOK, tree
<1>7. \A w \in Verbs : kind[w] = "collect" =>
        left'[w] = left[w] \/ (w = v /\ left'[w] = {})
  BY <1>1, <1>2 DEF TypeOK
<1>8. UNCHANGED <<node, kind, fd, held, recorded, entries>>
  BY <1>4 DEF tree
<1>. QED
  BY <1>1, <1>2, <1>6, <1>7, <1>8, SetOutInv

LEMMA AllIsTyped ==
  ASSUME TypeOK, NEW p \in Projects
  PROVE  All(p) \subseteq Projects \X (Parts \cup {"lock"})
BY DEF TypeOK, All

LEMMA ReadRegistryInv ==
  ASSUME Inv, NEW v \in Verbs, ReadRegistry(v)
  PROVE  Inv'
<1>1. v \in Actors /\ TypeOK /\ AtAProject /\ st[v] = "locked"
  BY DEF Actors, Inv, ReadRegistry
<1>2. at[v] \in Projects /\ {"done", "working"} \subseteq Steps
  BY <1>1 DEF AtAProject, Steps
<1>3. UNCHANGED <<exists, tree, kind, at, left, fd, recorded, saw, chosen>>
  BY DEF ReadRegistry
<1>4. CASE Refuses(v)
  <2>1. Goes(v, "done") /\ LetsGo(v) /\ entries' = entries
    BY <1>4 DEF ReadRegistry
  <2>2. st' \in [Actors -> Steps]
    BY <1>1, <1>2, <2>1, GoesFacts
  <2>3. held' \subseteq Actors \X Projects
    BY <1>1, <2>1 DEF LetsGo, TypeOK
  <2>4. TypeOK'
    BY <1>1, <1>3, <2>1, <2>2, <2>3 DEF TypeOK, tree
  <2>5. v \notin recorded
    BY <1>1, ActorsAssumption DEF TypeOK
  <2>6. \A k \in recorded' : (k \in recorded /\ k # v) \/ (k = v /\ "done" = "running")
    BY <1>3, <2>5
  <2>7. UNCHANGED <<node, kind, at, left, fd, entries>>
    BY <1>3, <2>1 DEF tree
  <2>. QED
    BY <1>1, <2>1, <2>4, <2>6, <2>7, LeaveInv
<1>5. CASE ~Refuses(v)
  <2>1. Goes(v, "working") /\ entries' = [entries EXCEPT ![v] = Taken(v)] /\ held' = held
    BY <1>5 DEF ReadRegistry
  <2>2. /\ st' \in [Actors -> Steps] /\ st'[v] = "working"
        /\ \A b \in Actors : b # v => st'[b] = st[b]
    BY <1>1, <1>2, <2>1, GoesFacts
  <2>3. Taken(v) \subseteq Projects \X (Parts \cup {"lock"})
    BY <1>1, <1>2, AllIsTyped DEF Taken, Parts
  <2>4. entries' \in [Verbs -> SUBSET (Projects \X (Parts \cup {"lock"}))]
    BY <1>1, <2>1, <2>3 DEF TypeOK
  <2>5. TypeOK'
    BY <1>1, <1>3, <2>1, <2>2, <2>4 DEF TypeOK, tree
  <2>6. AtAProject'
    BY <1>1, <1>3, <2>2 DEF AtAProject
  <2>7. ASSUME NoTreeTaken' PROVE Safe'
    <3>1. Safe /\ NoTreeTaken
      BY <1>1, <1>2, <1>3, <2>1, <2>7, TakenBefore DEF Inv
    <3>2. kind[v] \in {"collect", "purge"}
      BY <1>1, <3>1, KindsAssumption DEF NoTreeTaken, TakesTrees, TypeOK
    <3>3. OneFileEach'
      <4>1. \A t \in Taken(v) : t[2] = "provisioned"
        BY <3>2 DEF Taken
      <4>2. \A w \in Verbs : entries'[w] = IF w = v THEN Taken(v) ELSE entries[w]
        BY <1>1, <2>1 DEF TypeOK
      <4>3. \A w \in Verbs : kind[w] \notin {"remove", "sweep"} =>
               st'[w] # "sweeping" /\ \A t \in entries'[w] : t[2] = "provisioned"
        BY <2>2, <3>1, <4>1, <4>2 DEF Safe, OneFileEach, Actors
      <4>4. \A a \in Actors : st'[a] \in {"trying", "blocked"} => fd[a][at[a]] # 0
        BY <2>2, <3>1 DEF Safe, OneFileEach
      <4>. QED
        BY <1>3, <2>1, <3>1, <4>3, <4>4 DEF Safe, OneFileEach, tree
    <3>4. Excludes'
      BY <2>1, <3>1 DEF Safe, Excludes
    <3>5. HoldsWhatItUses'
      <4>1. v \notin recorded /\ <<v, at[v]>> \in held
        BY <1>1, <3>1 DEF Safe, HoldsWhatItUses
      <4>. QED
        BY <1>1, <1>2, <1>3, <2>1, <3>1, <4>1, HoldsTheSame DEF Safe
    <3>6. \A l \in recorded : <<v, at[l]>> \notin held
      <4>. SUFFICES ASSUME NEW l \in recorded, <<v, at[l]>> \in held
                    PROVE  FALSE
        OBVIOUS
      <4>1. CASE kind[v] = "purge"
        BY <1>5, <4>1 DEF Refuses
      <4>2. CASE kind[v] = "collect"
        <5>1. at[l] \in Projects
          BY <1>1 DEF TypeOK
        <5>2. at[l] = at[v]
          BY <3>1, <4>2, <5>1 DEF Safe, HoldsWhatItUses
        <5>. QED
          BY <1>5, <4>2, <5>2 DEF Refuses, Live
      <4>. QED
        BY <3>2, <4>1, <4>2
    <3>7. NoneRecorded'
      BY <1>3, <2>1, <2>2, <3>1, <3>6 DEF Safe, NoneRecorded, Actors
    <3>. QED
      BY <3>3, <3>4, <3>5, <3>7 DEF Safe
  <2>. QED
    BY <2>5, <2>6, <2>7 DEF Inv
<1>. QED
  BY <1>4, <1>5
LEMMA TakeEntryInv ==
  ASSUME Inv, NEW v \in Verbs, NEW t \in entries[v], TakeEntry(v, t)
  PROVE  Inv'
<1>1. v \in Actors /\ TypeOK /\ AtAProject /\ st[v] = "working"
  BY DEF Actors, Inv, TakeEntry
<1>2. t \in Projects \X (Parts \cup {"lock"})
  BY <1>1 DEF TypeOK
<1>3. UNCHANGED <<exists, dir, nodes, st, kind, at, left, fd, held, recorded, saw, chosen>>
  BY DEF TakeEntry
<1>4. /\ entries' \in [Verbs -> SUBSET (Projects \X (Parts \cup {"lock"}))]
      /\ \A w \in Verbs : entries'[w] \subseteq entries[w]
  <2>1. /\ entries \in [Verbs -> SUBSET (Projects \X (Parts \cup {"lock"}))]
        /\ entries' = [entries EXCEPT ![v] = @ \ {t}]
    BY <1>1 DEF TypeOK, TakeEntry
  <2>. QED
    BY ONLY <2>1
<1>5. node' \in [Projects -> Nat]
  <2>1. node' = node \/ node' = [node EXCEPT ![t[1]] = 0]
    BY DEF TakeEntry
  <2>. QED
    BY <1>1, <2>1 DEF TypeOK
<1>6. parts' \in [Projects -> SUBSET Parts]
  <2>1. parts' = parts \/ parts' = [parts EXCEPT ![t[1]] = @ \ {t[2]}]
    BY DEF TakeEntry
  <2>2. parts \in [Projects -> SUBSET Parts]
    BY <1>1 DEF TypeOK
  <2>. QED
    BY ONLY <2>1, <2>2
<1>7. TypeOK'
  BY <1>1, <1>3, <1>4, <1>5, <1>6 DEF TypeOK
<1>8. AtAProject'
  BY <1>1, <1>3 DEF AtAProject
<1>9. ASSUME NoTreeTaken' PROVE Safe'
  <2>1. Safe /\ NoTreeTaken
    BY <1>3, <1>9 DEF Inv, NoTreeTaken, TakesTrees
  <2>2. kind[v] \notin {"remove", "sweep"}
    BY <1>1, <2>1 DEF NoTreeTaken, TakesTrees
  <2>3. node' = node
    BY <2>1, <2>2 DEF Safe, OneFileEach, TakeEntry
  <2>4. OneFileEach'
    BY <1>3, <1>4, <2>1, <2>3 DEF Safe, OneFileEach
  <2>5. Excludes' /\ NoneRecorded'
    BY <1>3, <2>1 DEF Safe, Excludes, NoneRecorded
  <2>6. HoldsWhatItUses'
    BY <1>3, <2>1 DEF Safe, HoldsWhatItUses
  <2>. QED
    BY <2>4, <2>5, <2>6 DEF Safe
<1>. QED
  BY <1>7, <1>8, <1>9 DEF Inv

LEMMA FinishInv ==
  ASSUME Inv, NEW v \in Verbs, Finish(v)
  PROVE  Inv'
<1>1. v \in Actors /\ TypeOK /\ AtAProject /\ st[v] = "working" /\ LetsGo(v)
  BY DEF Actors, Inv, Finish
<1>2. PICK to \in {"sweeping", "done"} : Goes(v, to) /\ (to = "sweeping" => kind[v] = "sweep")
  BY DEF Finish
<1>3. UNCHANGED <<exists, parts, node, nodes, kind, at, left, fd, recorded, saw, entries, chosen>>
  BY DEF Finish
<1>4. st' \in [Actors -> Steps]
  BY <1>1, <1>2, GoesFacts DEF Steps
<1>5. held' \subseteq Actors \X Projects
  BY <1>1 DEF LetsGo, TypeOK
<1>6. dir' \in [Projects -> BOOLEAN]
  <2>1. dir' = dir \/ dir' = [dir EXCEPT ![at[v]] = FALSE]
    BY DEF Finish
  <2>. QED
    BY <1>1, <2>1, Zenon DEF TypeOK
<1>7. TypeOK'
  BY <1>1, <1>3, <1>4, <1>5, <1>6 DEF TypeOK
<1>8. to = "sweeping" => v \in TakesTrees
  BY <1>2 DEF TakesTrees
<1>9. \A k \in recorded' : (k \in recorded /\ k # v) \/ (k = v /\ to = "running")
  BY <1>1, <1>3, ActorsAssumption DEF TypeOK
<1>. QED
  BY <1>1, <1>2, <1>3, <1>7, <1>8, <1>9, LeaveInv

(* A step of a sweep: the invariant says nothing once one has begun.       *)
LEMMA SweepInv ==
  ASSUME Inv, NEW v \in Verbs,
         \/ BeginSweep(v)
         \/ EndSweep(v)
         \/ \E p \in Projects : Judge(v, p)
  PROVE  Inv'
<1>1. v \in Actors /\ TypeOK /\ AtAProject
  BY DEF Actors, Inv
<1>2. UNCHANGED <<exists, tree, kind, fd, held, recorded, chosen>>
  BY DEF BeginSweep, EndSweep, Judge
<1>3. /\ st' \in [Actors -> Steps] /\ st'[v] \in {"sweeping", "working", "done"}
      /\ \A b \in Actors : b # v => st'[b] = st[b]
  <2>1. \/ st' = st /\ st[v] = "sweeping"
        \/ \E to \in {"sweeping", "working", "done"} : Goes(v, to)
    BY DEF BeginSweep, EndSweep, Judge
  <2>. QED
    BY <1>1, <2>1, GoesFacts DEF TypeOK, Steps
<1>4. at' \in [Actors -> Projects \cup {0}]
  <2>1. at' = at \/ \E p \in Projects : at' = [at EXCEPT ![v] = p]
    BY DEF BeginSweep, EndSweep, Judge
  <2>2. at \in [Actors -> Projects \cup {0}]
    BY <1>1 DEF TypeOK
  <2>. QED
    BY ONLY <2>1, <2>2
<1>5. left' \in [Verbs -> SUBSET Projects]
  <2>1. \/ left' = left
        \/ left' = [left EXCEPT ![v] = {p \in Projects : dir[p]}]
        \/ \E p \in Projects : left' = [left EXCEPT ![v] = @ \ {p}]
    BY DEF BeginSweep, EndSweep, Judge
  <2>2. left \in [Verbs -> SUBSET Projects]
    BY <1>1 DEF TypeOK
  <2>. QED
    BY ONLY <2>1, <2>2
<1>6. entries' \in [Verbs -> SUBSET (Projects \X (Parts \cup {"lock"}))]
  <2>1. entries' = entries \/ \E p \in Projects : entries' = [entries EXCEPT ![v] = All(p)]
    BY DEF BeginSweep, EndSweep, Judge
  <2>2. \A p \in Projects : All(p) \in SUBSET (Projects \X (Parts \cup {"lock"}))
    BY <1>1, AllIsTyped
  <2>3. entries \in [Verbs -> SUBSET (Projects \X (Parts \cup {"lock"}))]
    BY <1>1 DEF TypeOK
  <2>. QED
    BY ONLY <2>1, <2>2, <2>3
<1>7. saw' \in [Verbs -> SUBSET (Projects \cup {0})]
  <2>1. Live \in SUBSET (Projects \cup {0})
    BY <1>1 DEF TypeOK, Live, Actors
  <2>2. saw' = saw \/ saw' = [saw EXCEPT ![v] = Live]
    BY DEF BeginSweep, EndSweep, Judge
  <2>. QED
    BY <1>1, <2>1, <2>2 DEF TypeOK
<1>8. TypeOK'
  BY <1>1, <1>2, <1>3, <1>4, <1>5, <1>6, <1>7 DEF TypeOK, tree
<1>9. AtAProject'
  <2>1. \A b \in Actors : b # v => at'[b] = at[b]
    BY <1>1 DEF BeginSweep, EndSweep, Judge, TypeOK
  <2>2. st'[v] = "working" => at'[v] \in Projects
    <3>1. CASE \E p \in Projects : Judge(v, p)
      <4>1. PICK p \in Projects : Judge(v, p)
        BY <3>1
      <4>2. CASE Dead(v, p)
        BY <1>1, <4>1, <4>2 DEF Judge, TypeOK
      <4>3. CASE ~Dead(v, p)
        BY <4>1, <4>3 DEF Judge
      <4>. QED
        BY <4>2, <4>3
    <3>2. CASE BeginSweep(v) \/ EndSweep(v)
      BY <1>1, <3>2 DEF BeginSweep, EndSweep, Goes, TypeOK
    <3>. QED
      BY <3>1, <3>2
  <2>. QED
    BY <1>1, <1>3, <2>1, <2>2 DEF AtAProject
<1>10. ~NoTreeTaken'
  <2>. SUFFICES ASSUME NoTreeTaken' PROVE FALSE
    OBVIOUS
  <2>1. v \notin TakesTrees
    BY <1>2, <1>3 DEF NoTreeTaken, TakesTrees
  <2>2. st[v] = "sweeping"
    BY <2>1 DEF BeginSweep, EndSweep, Judge, TakesTrees
  <2>3. NoTreeTaken
    BY <1>2, <1>3, <2>1 DEF NoTreeTaken, TakesTrees, Actors
  <2>. QED
    BY <2>1, <2>2, <2>3 DEF Inv, Safe, OneFileEach, TakesTrees
<1>. QED
  BY <1>8, <1>9, <1>10 DEF Inv

LEMMA DeleteProjectInv ==
  ASSUME Inv, NEW p \in Projects, DeleteProject(p)
  PROVE  Inv'
<1>1. TypeOK
  BY DEF Inv
<1>2. UNCHANGED <<tree, st, kind, at, left, fd, held, recorded, saw, entries, chosen>>
  BY DEF DeleteProject
<1>3. exists' \in [Projects -> BOOLEAN]
  BY <1>1, Zenon DEF DeleteProject, TypeOK
<1>4. TypeOK'
  BY <1>1, <1>2, <1>3 DEF TypeOK, tree
<1>5. AtAProject'
  BY <1>2 DEF Inv, AtAProject
<1>6. (NoTreeTaken => Safe)'
  BY <1>2 DEF Inv, NoTreeTaken, TakesTrees, Safe, OneFileEach, Excludes,
              HoldsWhatItUses, NoneRecorded, tree
<1>. QED
  BY <1>4, <1>5, <1>6 DEF Inv
-----------------------------------------------------------------------------
LEMMA StutterInv ==
  ASSUME Inv, UNCHANGED vars
  PROVE  Inv'
<1>1. TypeOK'
  BY DEF Inv, vars, TypeOK
<1>2. AtAProject'
  BY DEF Inv, vars, AtAProject
<1>3. (NoTreeTaken => Safe)'
  BY DEF Inv, vars, NoTreeTaken, TakesTrees, Safe, OneFileEach, Excludes,
         HoldsWhatItUses, NoneRecorded
<1>. QED
  BY <1>1, <1>2, <1>3 DEF Inv

LEMMA NextInv == Inv /\ [Next]_vars => Inv'
<1>. SUFFICES ASSUME Inv, [Next]_vars PROVE Inv'
  OBVIOUS
<1>1. CASE UNCHANGED vars
  BY <1>1, StutterInv
<1>2. CASE Takes
  BY <1>2, OpenInv, BusyInv, GrantedInv DEF Takes
<1>3. ASSUME NEW l \in Launches, LaunchSteps(l) PROVE Inv'
  BY <1>3, LaunchInv, BuildInv, RecordedInv, EndInv DEF LaunchSteps
<1>4. ASSUME NEW v \in Verbs, VerbSteps(v) PROVE Inv'
  BY <1>4, BeginInv, ReadRegistryInv, TakeEntryInv, FinishInv, SweepInv DEF VerbSteps
<1>5. CASE \E p \in Projects : DeleteProject(p)
  BY <1>5, DeleteProjectInv
<1>. QED
  BY <1>1, <1>2, <1>3, <1>4, <1>5 DEF Next

(* Each actor has its locks, on one file for each project, while it needs  *)
(* them, until a verb that takes a whole tree begins: what flock_at opens, *)
(* grants and lets go in any order of the launches and the verbs.          *)
THEOREM StoreInvariance == Spec => []Inv
<1>. QED
  BY InitInv, NextInv, PTL DEF Spec

-----------------------------------------------------------------------------
(* The locks a verb has of the projects it set out to lock.                *)

LEMMA LocksStart == Init => HasItsLocks
<1>. SUFFICES ASSUME Init, NEW v \in Verbs PROVE HasLocks(v)
  BY DEF HasItsLocks
<1>1. st[v] = "idle" /\ chosen[v] = {}
  BY DEF Init, Actors
<1>. QED
  BY <1>1 DEF HasLocks, Locking

LEMMA LocksSame ==
  ASSUME HasItsLocks, UNCHANGED <<st, kind, at, left, held, chosen>>
  PROVE  HasItsLocks'
  BY DEF HasItsLocks, HasLocks

(* A step of one actor, which lets go of no lock but its own.              *)
LEMMA LocksOfOne ==
  ASSUME TypeOK, HasItsLocks, NEW a \in Actors, kind' = kind,
         \A b \in Actors : b # a => st'[b] = st[b] /\ at'[b] = at[b],
         \A v \in Verbs : v # a => left'[v] = left[v] /\ chosen'[v] = chosen[v],
         \A b \in Actors, p \in Projects : b # a /\ <<b, p>> \in held => <<b, p>> \in held',
         a \in Verbs => HasLocks(a)'
  PROVE  HasItsLocks'
<1>. SUFFICES ASSUME NEW v \in Verbs, v # a PROVE HasLocks(v)'
  BY DEF HasItsLocks
<1>1. /\ st'[v] = st[v] /\ at'[v] = at[v] /\ left'[v] = left[v] /\ chosen'[v] = chosen[v]
      /\ v \in Actors
  BY DEF Actors
<1>2. chosen[v] \subseteq Projects
  BY DEF TypeOK
<1>3. HasLocks(v)
  BY DEF HasItsLocks
<1>4. \A p \in chosen[v] : <<v, p>> \in held => <<v, p>> \in held'
  BY <1>1, <1>2
<1>. QED
  BY <1>1, <1>3, <1>4 DEF HasLocks

LEMMA LocksOfTakes ==
  ASSUME TypeOK, AtAProject, HasItsLocks, NEW a \in Actors, Open(a) \/ Busy(a) \/ Granted(a)
  PROVE  HasItsLocks'
<1>1. CASE Open(a) \/ Busy(a)
  <2>1. PICK to \in {"trying", "reopening", "blocked"} : Goes(a, to)
    BY <1>1 DEF Open, Busy
  <2>2. st'[a] = to /\ \A b \in Actors : b # a => st'[b] = st[b]
    BY <2>1, GoesFacts DEF Steps
  <2>3. st[a] \in Locking /\ UNCHANGED <<kind, at, left, held, chosen>>
    BY <1>1 DEF Open, Busy, Locking
  <2>4. ASSUME a \in Verbs PROVE HasLocks(a)'
    BY <2>2, <2>3, <2>4 DEF HasItsLocks, HasLocks, Locking
  <2>. QED
    BY ONLY TypeOK, HasItsLocks, <2>2, <2>3, <2>4, LocksOfOne
<1>2. CASE Granted(a)
  <2>1. /\ st[a] \in Locking /\ held' = held \cup {<<a, at[a]>>}
        /\ UNCHANGED <<kind, chosen>>
        /\ at \in [Actors -> Projects \cup {0}] /\ left \in [Verbs -> SUBSET Projects]
    BY <1>2 DEF Granted, TypeOK, Locking
  <2>2. CASE a \in Launches \/ left[a] = {}
    <3>1. PICK to \in {"building", "locked"} : Goes(a, to)
      BY <1>2, <2>2 DEF Granted
    <3>2. /\ st'[a] = to /\ \A b \in Actors : b # a => st'[b] = st[b]
      BY <3>1, GoesFacts DEF Steps
    <3>3. at' = at
      BY <1>2, <2>2 DEF Granted
    <3>4. \A v \in Verbs : v # a => left'[v] = left[v]
      BY <1>2, <2>1 DEF Granted
    <3>5. ASSUME a \in Verbs PROVE HasLocks(a)'
      <4>1. left[a] = {} /\ \A p \in chosen[a] : p = at[a] \/ <<a, p>> \in held
        BY <2>1, <2>2, <3>5, ActorsAssumption DEF HasItsLocks, HasLocks
      <4>2. \A p \in chosen'[a] : <<a, p>> \in held'
        BY <2>1, <4>1
      <4>3. kind[a] = "sweep" => chosen[a] = {}
        BY <3>5 DEF HasItsLocks, HasLocks
      <4>. QED
        BY <2>1, <3>2, <4>2, <4>3 DEF HasLocks, Locking
    <3>. QED
      BY ONLY TypeOK, HasItsLocks, <2>1, <3>2, <3>3, <3>4, <3>5, LocksOfOne
  <2>3. CASE a \in Verbs /\ left[a] # {}
    <3>1. Goes(a, "opening") /\ left' = [left EXCEPT ![a] = @ \ {at'[a]}]
      BY <1>2, <2>3, ActorsAssumption DEF Granted
    <3>2. PICK p \in NextToLock(left[a]) : at' = [at EXCEPT ![a] = p]
      BY <1>2, <2>3, ActorsAssumption DEF Granted
    <3>3. /\ at'[a] = p /\ \A b \in Actors : b # a => at'[b] = at[b]
      BY ONLY <2>1, <3>2
    <3>4. /\ left'[a] = left[a] \ {p} /\ \A v \in Verbs : v # a => left'[v] = left[v]
      BY ONLY <2>1, <2>3, <3>1, <3>3
    <3>5. /\ st'[a] = "opening" /\ \A b \in Actors : b # a => st'[b] = st[b]
      BY <3>1, GoesFacts DEF Steps
    <3>6. HasLocks(a)'
      <4>1. /\ \A q \in chosen[a] : q = at[a] \/ q \in left[a] \/ <<a, q>> \in held
            /\ kind[a] = "sweep" => chosen[a] = {}
        BY <2>1, <2>3 DEF HasItsLocks, HasLocks
      <4>2. \A q \in chosen'[a] : q = at'[a] \/ q \in left'[a] \/ <<a, q>> \in held'
        BY <2>1, <3>3, <3>4, <4>1
      <4>. QED
        BY <2>1, <3>5, <4>1, <4>2 DEF HasLocks
    <3>. QED
      BY ONLY TypeOK, HasItsLocks, <2>1, <3>3, <3>4, <3>5, <3>6, LocksOfOne
  <2>. QED
    BY <2>2, <2>3 DEF Actors
<1>. QED
  BY <1>1, <1>2

LEMMA LocksOfLaunches ==
  ASSUME TypeOK, HasItsLocks, NEW l \in Launches, LaunchSteps(l)
  PROVE  HasItsLocks'
<1>1. l \in Actors /\ l \notin Verbs
  BY ActorsAssumption DEF Actors
<1>2. UNCHANGED <<kind, left, chosen>>
  BY DEF LaunchSteps, Launch, Mark, Provision, Record, RunUnderLock, End, Recorded
<1>3. PICK to \in {"opening", "marked", "provisioned", "recording", "running", "ended"} : Goes(l, to)
  BY DEF LaunchSteps, Launch, Mark, Provision, Record, RunUnderLock, End, Recorded
<1>4. \A b \in Actors : b # l => st'[b] = st[b]
  BY <1>1, <1>3, GoesFacts DEF Steps
<1>5. \A b \in Actors : b # l => at'[b] = at[b]
  BY DEF LaunchSteps, Launch, Mark, Provision, Record, RunUnderLock, End, Recorded, TypeOK
<1>6. \A b \in Actors, p \in Projects : b # l /\ <<b, p>> \in held => <<b, p>> \in held'
  BY DEF LaunchSteps, Launch, Mark, Provision, Record, RunUnderLock, End, Recorded,
         LockAtRecord, LetsGo
<1>. QED
  BY ONLY TypeOK, HasItsLocks, <1>1, <1>2, <1>4, <1>5, <1>6, LocksOfOne

LEMMA LocksOfVerbs ==
  ASSUME TypeOK, HasItsLocks, NEW v \in Verbs, VerbSteps(v)
  PROVE  HasItsLocks'
<1>0. v \in Actors /\ HasLocks(v)
  BY DEF Actors, HasItsLocks
<1>1. ASSUME NEW p \in Projects, Begin(v, p) PROVE HasItsLocks'
  <2>1. PICK all \in SUBSET Projects :
          /\ left' = [left EXCEPT ![v] = all \ {p}] /\ chosen' = [chosen EXCEPT ![v] = all]
    BY <1>1 DEF Begin
  <2>2. at' = [at EXCEPT ![v] = p] /\ kind[v] # "sweep" /\ UNCHANGED <<kind, held>>
    BY <1>1 DEF Begin
  <2>3. st'[v] = "opening" /\ \A b \in Actors : b # v => st'[b] = st[b]
    BY <1>0, <1>1, GoesFacts DEF Begin, Steps
  <2>4. /\ at'[v] = p /\ \A b \in Actors : b # v => at'[b] = at[b]
        /\ left'[v] = all \ {p} /\ chosen'[v] = all
        /\ \A w \in Verbs : w # v => left'[w] = left[w] /\ chosen'[w] = chosen[w]
    BY <1>0, <2>1, <2>2 DEF TypeOK
  <2>5. HasLocks(v)'
    BY <2>2, <2>3, <2>4 DEF HasLocks
  <2>. QED
    BY ONLY TypeOK, HasItsLocks, <1>0, <2>2, <2>3, <2>4, <2>5, LocksOfOne
<1>2. CASE ReadRegistry(v)
  <2>1. st[v] = "locked" /\ UNCHANGED <<kind, at, left, chosen>>
    BY <1>2 DEF ReadRegistry
  <2>2. PICK to \in {"done", "working"} :
          Goes(v, to) /\ IF to = "done" THEN LetsGo(v) ELSE held' = held
    BY <1>2 DEF ReadRegistry
  <2>3. st'[v] = to /\ \A b \in Actors : b # v => st'[b] = st[b]
    BY <1>0, <2>2, GoesFacts DEF Steps
  <2>4. \A b \in Actors, p \in Projects : b # v /\ <<b, p>> \in held => <<b, p>> \in held'
    BY <2>2 DEF LetsGo
  <2>5. HasLocks(v)'
    BY <1>0, <2>1, <2>2, <2>3 DEF HasLocks, Locking
  <2>. QED
    BY ONLY TypeOK, HasItsLocks, <1>0, <2>1, <2>3, <2>4, <2>5, LocksOfOne
<1>3. CASE Finish(v)
  <2>1. UNCHANGED <<kind, at, left, chosen>> /\ LetsGo(v)
    BY <1>3 DEF Finish
  <2>2. PICK to \in {"done", "sweeping"} : Goes(v, to) /\ (to = "sweeping" => kind[v] = "sweep")
    BY <1>3 DEF Finish
  <2>3. st'[v] = to /\ \A b \in Actors : b # v => st'[b] = st[b]
    BY <1>0, <2>2, GoesFacts DEF Steps
  <2>4. \A b \in Actors, p \in Projects : b # v /\ <<b, p>> \in held => <<b, p>> \in held'
    BY <2>1 DEF LetsGo
  <2>5. HasLocks(v)'
    BY <1>0, <2>1, <2>2, <2>3 DEF HasLocks, Locking
  <2>. QED
    BY ONLY TypeOK, HasItsLocks, <1>0, <2>1, <2>3, <2>4, <2>5, LocksOfOne
<1>4. CASE BeginSweep(v) \/ EndSweep(v) \/ \E p \in Projects : Judge(v, p)
  <2>1. /\ UNCHANGED <<kind, held, chosen>>
        /\ kind[v] = "sweep" \/ st[v] = "sweeping"
    BY <1>4 DEF BeginSweep, EndSweep, Judge
  <2>2. /\ st'[v] \in {"sweeping", "working", "done"}
        /\ \A b \in Actors : b # v => st'[b] = st[b]
    <3>1. \/ st' = st /\ st[v] = "sweeping"
          \/ \E to \in {"sweeping", "working", "done"} : Goes(v, to)
      BY <1>4 DEF BeginSweep, EndSweep, Judge
    <3>. QED
      BY <1>0, <3>1, GoesFacts DEF Steps
  <2>3. \A b \in Actors : b # v => at'[b] = at[b]
    <3>1. at \in [Actors -> Projects \cup {0}]
      BY DEF TypeOK
    <3>2. at' = at \/ \E p \in Projects : at' = [at EXCEPT ![v] = p]
      BY <1>4 DEF BeginSweep, EndSweep, Judge
    <3>. QED
      BY ONLY <3>1, <3>2
  <2>4. \A w \in Verbs : w # v => left'[w] = left[w]
    <3>1. left \in [Verbs -> SUBSET Projects]
      BY DEF TypeOK
    <3>2. \/ left' = left
          \/ left' = [left EXCEPT ![v] = {p \in Projects : dir[p]}]
          \/ \E p \in Projects : left' = [left EXCEPT ![v] = @ \ {p}]
      BY <1>4 DEF BeginSweep, EndSweep, Judge
    <3>. QED
      BY ONLY <3>1, <3>2
  <2>5. HasLocks(v)'
    <3>1. chosen'[v] = {}
      BY <1>0, <2>1 DEF HasLocks
    <3>. QED
      BY <2>2, <3>1 DEF HasLocks, Locking
  <2>. QED
    BY ONLY TypeOK, HasItsLocks, <1>0, <2>1, <2>2, <2>3, <2>4, <2>5, LocksOfOne
<1>5. ASSUME NEW t \in entries[v], TakeEntry(v, t) PROVE HasItsLocks'
  BY <1>5, LocksSame DEF TakeEntry
<1>. QED
  BY <1>1, <1>2, <1>3, <1>4, <1>5 DEF VerbSteps

(* A verb has every lock it set out for before it reads the registry, and  *)
(* while it takes (lock_app_projects, with_project_store).                 *)
LEMMA VerbsHaveTheirLocks == Spec => []HasItsLocks
<1>1. ASSUME Inv, HasItsLocks, [Next]_vars PROVE HasItsLocks'
  <2>0. TypeOK /\ AtAProject
    BY <1>1 DEF Inv
  <2>1. CASE Takes
    BY <1>1, <2>0, <2>1, LocksOfTakes DEF Takes
  <2>2. ASSUME NEW l \in Launches, LaunchSteps(l) PROVE HasItsLocks'
    BY <1>1, <2>0, <2>2, LocksOfLaunches
  <2>3. ASSUME NEW v \in Verbs, VerbSteps(v) PROVE HasItsLocks'
    BY <1>1, <2>0, <2>3, LocksOfVerbs
  <2>4. CASE \E p \in Projects : DeleteProject(p)
    BY <1>1, <2>4, LocksSame DEF DeleteProject
  <2>5. CASE UNCHANGED vars
    BY <1>1, <2>5, LocksSame DEF vars
  <2>. QED
    BY <1>1, <2>1, <2>2, <2>3, <2>4, <2>5 DEF Next
<1>. QED
  BY <1>1, LocksStart, StoreInvariance, PTL DEF Spec

(* No collection or purge takes from a tree it set out to lock while a     *)
(* launch of the project provisions or a session recorded there runs: the  *)
(* lock stands between a verb and a launch that is not recorded yet, and   *)
(* the registry, read with the locks held, between a verb and one that is. *)
(* What a purge takes from a tree that came after it chose is left out.    *)
THEOREM CollectedOnlyUnused == Spec => []NothingTakenInUse
<1>1. Inv /\ HasItsLocks => NothingTakenInUse
  <2>. SUFFICES ASSUME Inv, HasItsLocks, NoTreeTaken, NEW v \in Verbs, NEW l \in Launches,
                       NEW p \in Projects, TakesFrom(v, p), p \in chosen[v], Using(l, p)
                PROVE  FALSE
    BY DEF NothingTakenInUse, NoTreeTaken
  <2>1. Safe /\ st[v] = "working" /\ v # l
    BY ActorsAssumption DEF Inv, TakesFrom
  <2>2. <<v, p>> \in held
    BY <2>1 DEF HasItsLocks, HasLocks
  <2>3. CASE <<l, p>> \in held
    BY <2>1, <2>2, <2>3 DEF Safe, Excludes, Actors
  <2>4. CASE l \in recorded
    BY <2>1, <2>2, <2>4 DEF Safe, NoneRecorded, Using
  <2>. QED
    BY <2>3, <2>4 DEF Using
<1>. QED
  BY <1>1, StoreInvariance, VerbsHaveTheirLocks, PTL

-----------------------------------------------------------------------------
(* The order of the locks.                                                 *)

(* The highest of a set of project ids is one of them: of the sets without *)
(* one, take a smallest, and leave one id out.                             *)
LEMMA HasHighest ==
  ASSUME NEW S \in SUBSET Projects, S # {}
  PROVE  \E m \in S : \A y \in S : y <= m
<1>. DEFINE Top(T) == \E m \in T : \A y \in T : y <= m
            Bad == {T \in FiniteSubsetsOf(Projects) : T # {} /\ ~Top(T)}
<1>1. FiniteSubsetsOf(Projects) = SUBSET Projects
  BY ProjectsAssumption, FS_FiniteSubsetsOfFinite
<1>2. SUFFICES ASSUME ~Top(S) PROVE FALSE
  OBVIOUS
<1>3. S \in Bad /\ Bad \subseteq FiniteSubsetsOf(Projects)
  BY <1>1, <1>2
<1>4. IsWellFoundedOn(StrictSubsetOrdering(Projects), FiniteSubsetsOf(Projects))
  BY FS_StrictSubsetOrderingWellFounded
<1>. HIDE DEF Bad
<1>5. PICK T \in Bad : \A U \in Bad : ~ (<<U, T>> \in StrictSubsetOrdering(Projects))
  BY <1>3, <1>4, WFMin, Zenon
<1>6. T \in SUBSET Projects /\ T # {} /\ ~Top(T)
  BY <1>1, <1>5 DEF Bad
<1>7. PICK x \in T : TRUE
  BY <1>6
<1>. DEFINE U == T \ {x}
<1>8. U \in SUBSET Projects /\ U \subseteq T /\ U # T
  BY <1>6, <1>7
<1>9. <<U, T>> \in StrictSubsetOrdering(Projects)
  BY <1>6, <1>8 DEF StrictSubsetOrdering
<1>10. U = {} \/ Top(U)
  BY <1>1, <1>5, <1>8, <1>9 DEF Bad
<1>11. T \subseteq Nat
  BY <1>6, ProjectsAssumption
<1>12. CASE U = {}
  BY <1>6, <1>7, <1>11, <1>12
<1>13. CASE Top(U)
  <2>1. PICK m \in U : \A y \in U : y <= m
    BY <1>13
  <2>2. m \in T /\ m \in Nat /\ x \in Nat /\ \A y \in T : y \in Nat /\ (y = x \/ y <= m)
    BY <1>7, <1>11, <2>1
  <2>3. CASE x <= m
    BY <1>6, <2>2, <2>3
  <2>4. CASE m <= x
    <3>1. \A y \in T : y <= x
      BY <2>2, <2>4
    <3>. QED
      BY <1>6, <1>7, <3>1
  <2>. QED
    BY <2>2, <2>3, <2>4
<1>. QED
  BY <1>10, <1>12, <1>13

LEMMA OrderStart == Init => LocksInOrder
  BY DEF Init, LocksInOrder, Locking, Actors

(* A step of one actor that takes no lock, and goes on taking the one it   *)
(* was taking, or sets out for its first.                                  *)
LEMMA OrderStays ==
  ASSUME LocksInOrder, NEW a \in Actors,
         \A b \in Actors : b # a => st'[b] = st[b] /\ at'[b] = at[b],
         \A v \in Verbs : v # a => left'[v] = left[v],
         held' \subseteq held, st'[a] # "idle",
         st'[a] \in Locking =>
           \/ st[a] \in Locking /\ at'[a] = at[a] /\ left' = left
           \/ st[a] = "idle" /\ (a \in Verbs => \A p \in left'[a] : at'[a] < p)
  PROVE  LocksInOrder'
<1>1. Verbs \subseteq Actors
  BY DEF Actors
<1>2. \A b \in Actors : st'[b] = "idle" => \A p \in Projects : <<b, p>> \notin held'
  BY DEF LocksInOrder
<1>3. \A b \in Actors : st'[b] \in Locking =>
        \A p \in Projects : <<b, p>> \in held' => p < at'[b]
  BY DEF LocksInOrder
<1>4. \A v \in Verbs : st'[v] \in Locking => \A p \in left'[v] : at'[v] < p
  BY <1>1 DEF LocksInOrder
<1>. QED
  BY <1>2, <1>3, <1>4 DEF LocksInOrder

LEMMA OrderSame ==
  ASSUME LocksInOrder, UNCHANGED <<st, at, left, held>>
  PROVE  LocksInOrder'
  BY DEF LocksInOrder

(* A lock granted is of the project the actor was taking, and the next one *)
(* is the lowest of those left, all of them above.                         *)
LEMMA OrderGranted ==
  ASSUME TypeOK, AtAProject, LocksInOrder, NEW a \in Actors, Granted(a)
  PROVE  LocksInOrder'
<1>1. /\ st[a] \in Locking /\ at[a] \in Projects /\ held' = held \cup {<<a, at[a]>>}
      /\ at \in [Actors -> Projects \cup {0}] /\ left \in [Verbs -> SUBSET Projects]
  BY DEF Granted, AtAProject, TypeOK, Locking
<1>2. Verbs \subseteq Actors /\ Projects \subseteq Nat
  BY ProjectsAssumption DEF Actors
<1>3. CASE a \in Launches \/ left[a] = {}
  <2>1. PICK to \in {"building", "locked"} : Goes(a, to)
    BY <1>3 DEF Granted
  <2>2. /\ st'[a] = to /\ \A b \in Actors : b # a => st'[b] = st[b]
    BY <2>1, GoesFacts DEF Steps
  <2>3. at' = at
    BY <1>3 DEF Granted
  <2>4. \A v \in Verbs : v # a => left'[v] = left[v]
    BY <1>1 DEF Granted
  <2>5. \A b \in Actors, p \in Projects : b # a => (<<b, p>> \in held' <=> <<b, p>> \in held)
    BY <1>1
  <2>. QED
    BY <1>2, <2>2, <2>3, <2>4, <2>5 DEF LocksInOrder, Locking
<1>4. CASE a \in Verbs /\ left[a] # {}
  <2>1. Goes(a, "opening") /\ left' = [left EXCEPT ![a] = @ \ {at'[a]}]
    BY <1>4, ActorsAssumption DEF Granted
  <2>2. PICK p \in NextToLock(left[a]) : at' = [at EXCEPT ![a] = p]
    BY <1>4, ActorsAssumption DEF Granted
  <2>3. left[a] \in SUBSET Projects
    BY <1>1, <1>4
  <2>4. p = Min(left[a]) /\ p \in left[a] /\ \A q \in left[a] : p <= q
    BY <1>4, <2>2, <2>3, MinIsIn DEF NextToLock
  <2>5. /\ at'[a] = p /\ \A b \in Actors : b # a => at'[b] = at[b]
    BY ONLY <1>1, <2>2
  <2>6. /\ left'[a] = left[a] \ {p} /\ \A v \in Verbs : v # a => left'[v] = left[v]
    BY ONLY <1>1, <1>4, <2>1, <2>5
  <2>7. /\ st'[a] = "opening" /\ \A b \in Actors : b # a => st'[b] = st[b]
    BY <2>1, GoesFacts DEF Steps
  <2>8. \A q \in left'[a] : p < q
    <3>1. left[a] \subseteq Nat
      BY <1>2, <2>3
    <3>. QED
      BY ONLY <2>4, <2>6, <3>1
  <2>9. at[a] < p
    <3>1. \A q \in left[a] : at[a] < q
      BY <1>1, <1>4 DEF LocksInOrder
    <3>. QED
      BY <2>4, <3>1
  <2>10. \A q \in Projects : <<a, q>> \in held' => q < p
    <3>1. \A q \in Projects : <<a, q>> \in held => q < at[a]
      BY <1>1 DEF LocksInOrder
    <3>2. at[a] \in Nat /\ p \in Nat
      BY <1>1, <1>2, <2>3, <2>4
    <3>. QED
      BY <1>1, <1>2, <2>9, <3>1, <3>2
  <2>11. \A b \in Actors, q \in Projects : b # a => (<<b, q>> \in held' <=> <<b, q>> \in held)
    BY <1>1
  <2>12. \A b \in Actors : st'[b] = "idle" => \A q \in Projects : <<b, q>> \notin held'
    BY <2>7, <2>11 DEF LocksInOrder
  <2>13. \A b \in Actors : st'[b] \in Locking =>
           \A q \in Projects : <<b, q>> \in held' => q < at'[b]
    BY <2>5, <2>7, <2>10, <2>11 DEF LocksInOrder
  <2>14. \A v \in Verbs : st'[v] \in Locking => \A q \in left'[v] : at'[v] < q
    BY <1>2, <2>5, <2>6, <2>7, <2>8 DEF LocksInOrder
  <2>. QED
    BY <2>12, <2>13, <2>14 DEF LocksInOrder
<1>. QED
  BY <1>3, <1>4 DEF Actors

LEMMA OrderTakes ==
  ASSUME TypeOK, AtAProject, LocksInOrder, NEW a \in Actors, Open(a) \/ Busy(a) \/ Granted(a)
  PROVE  LocksInOrder'
<1>1. CASE Open(a) \/ Busy(a)
  <2>1. PICK to \in {"trying", "reopening", "blocked"} : Goes(a, to)
    BY <1>1 DEF Open, Busy
  <2>2. st'[a] = to /\ \A b \in Actors : b # a => st'[b] = st[b]
    BY <2>1, GoesFacts DEF Steps
  <2>3. st[a] \in Locking /\ st'[a] \in Locking /\ st'[a] # "idle"
    BY <1>1, <2>2 DEF Open, Busy, Locking
  <2>4. UNCHANGED <<at, left, held>>
    BY <1>1 DEF Open, Busy
  <2>. QED
    BY <2>2, <2>3, <2>4, OrderStays
<1>2. CASE Granted(a)
  BY <1>2, OrderGranted
<1>. QED
  BY <1>1, <1>2

LEMMA OrderLaunches ==
  ASSUME TypeOK, LocksInOrder, NEW l \in Launches, LaunchSteps(l)
  PROVE  LocksInOrder'
<1>0. l \in Actors /\ l \notin Verbs
  BY ActorsAssumption DEF Actors
<1>1. ASSUME NEW p \in Projects, Launch(l, p) PROVE LocksInOrder'
  <2>1. st'[l] = "opening" /\ \A b \in Actors : b # l => st'[b] = st[b]
    BY <1>0, <1>1, GoesFacts DEF Launch, Steps
  <2>2. /\ st[l] = "idle" /\ UNCHANGED <<left, held>>
        /\ \A b \in Actors : b # l => at'[b] = at[b]
    BY <1>1 DEF Launch, TypeOK
  <2>. QED
    BY <1>0, <2>1, <2>2, OrderStays
<1>2. CASE \/ Mark(l) \/ Provision(l) \/ Record(l) \/ RunUnderLock(l) \/ End(l)
           \/ \E written \in BOOLEAN : Recorded(l, written)
  <2>1. PICK to \in {"marked", "provisioned", "recording", "running", "ended"} : Goes(l, to)
    BY <1>2 DEF Mark, Provision, Record, RunUnderLock, End, Recorded
  <2>2. st'[l] = to /\ \A b \in Actors : b # l => st'[b] = st[b]
    BY <1>0, <2>1, GoesFacts DEF Steps
  <2>3. UNCHANGED <<at, left>> /\ held' \subseteq held
    BY <1>2 DEF Mark, Provision, Record, RunUnderLock, End, Recorded, LockAtRecord, LetsGo
  <2>4. st'[l] \notin Locking /\ st'[l] # "idle"
    BY <2>2 DEF Locking
  <2>. QED
    BY <1>0, <2>2, <2>3, <2>4, OrderStays
<1>. QED
  BY <1>1, <1>2 DEF LaunchSteps

LEMMA OrderVerbs ==
  ASSUME TypeOK, LocksInOrder, NEW v \in Verbs, VerbSteps(v)
  PROVE  LocksInOrder'
<1>0. v \in Actors
  BY DEF Actors
<1>1. ASSUME NEW p \in Projects, Begin(v, p) PROVE LocksInOrder'
  <2>. DEFINE all == IF kind[v] = "purge"
                     THEN {q \in Projects : "provisioned" \in parts[q]} ELSE {p}
  <2>1. st'[v] = "opening" /\ \A b \in Actors : b # v => st'[b] = st[b]
    BY <1>0, <1>1, GoesFacts DEF Begin, Steps
  <2>2. /\ p \in NextToLock(all) /\ left' = [left EXCEPT ![v] = all \ {p}]
        /\ at' = [at EXCEPT ![v] = p] /\ held' = held /\ st[v] = "idle"
    BY <1>1 DEF Begin
  <2>3. all \in SUBSET Projects
    OBVIOUS
  <2>. HIDE DEF all
  <2>4. all # {} => p = Min(all) /\ \A q \in all : p <= q
    BY <2>2, <2>3, MinIsIn DEF NextToLock
  <2>5. left'[v] = all \ {p} /\ \A w \in Verbs : w # v => left'[w] = left[w]
    BY <2>2 DEF TypeOK
  <2>6. at'[v] = p /\ \A b \in Actors : b # v => at'[b] = at[b]
    BY <1>0, <2>2 DEF TypeOK
  <2>7. \A q \in left'[v] : at'[v] < q
    <3>1. p \in Nat /\ all \subseteq Nat
      BY <2>3, ProjectsAssumption
    <3>. SUFFICES ASSUME NEW q \in left'[v] PROVE p < q
      BY <2>6
    <3>2. q \in all /\ q # p
      BY <2>5
    <3>3. p <= q /\ q \in Nat
      BY <2>4, <3>1, <3>2
    <3>. QED
      BY <3>1, <3>2, <3>3
  <2>8. /\ \A b \in Actors : b # v => st'[b] = st[b] /\ at'[b] = at[b]
        /\ \A w \in Verbs : w # v => left'[w] = left[w]
        /\ held' \subseteq held /\ st'[v] # "idle" /\ st[v] = "idle"
    BY <2>1, <2>2, <2>5, <2>6
  <2>. QED
    BY ONLY <1>0, <2>7, <2>8, LocksInOrder, OrderStays
<1>2. CASE \/ ReadRegistry(v) \/ Finish(v) \/ BeginSweep(v) \/ EndSweep(v)
           \/ \E p \in Projects : Judge(v, p)
  <2>1. PICK to \in {"done", "working", "sweeping"} :
          st'[v] = to /\ \A b \in Actors : b # v => st'[b] = st[b]
    <3>1. CASE \E p \in Projects : Judge(v, p) /\ ~Dead(v, p)
      BY <3>1 DEF Judge
    <3>2. CASE \/ ReadRegistry(v) \/ Finish(v) \/ BeginSweep(v) \/ EndSweep(v)
               \/ \E p \in Projects : Judge(v, p) /\ Dead(v, p)
      <4>1. PICK to \in {"done", "working", "sweeping"} : Goes(v, to)
        BY <3>2 DEF ReadRegistry, Finish, BeginSweep, EndSweep, Judge
      <4>. QED
        BY <1>0, <4>1, GoesFacts DEF Steps
    <3>. QED
      BY <1>2, <3>1, <3>2
  <2>2. /\ \A b \in Actors : b # v => at'[b] = at[b]
        /\ \A w \in Verbs : w # v => left'[w] = left[w]
        /\ held' \subseteq held
    <3>1. CASE \E p \in Projects : Judge(v, p)
      <4>1. PICK p \in Projects : Judge(v, p)
        BY <3>1
      <4>2. held' = held /\ left' = [left EXCEPT ![v] = @ \ {p}]
        BY <4>1 DEF Judge
      <4>3. at' = [at EXCEPT ![v] = p] \/ at' = at
        BY <4>1 DEF Judge
      <4>. QED
        BY <4>2, <4>3 DEF TypeOK
    <3>2. CASE ReadRegistry(v) \/ Finish(v) \/ EndSweep(v)
      BY <3>2 DEF ReadRegistry, Finish, EndSweep, LetsGo
    <3>3. CASE BeginSweep(v)
      BY <3>3 DEF BeginSweep, TypeOK
    <3>. QED
      BY <1>2, <3>1, <3>2, <3>3
  <2>3. st'[v] \notin Locking /\ st'[v] # "idle"
    BY <2>1 DEF Locking
  <2>. QED
    BY <1>0, <2>1, <2>2, <2>3, OrderStays
<1>3. ASSUME NEW t \in entries[v], TakeEntry(v, t) PROVE LocksInOrder'
  BY <1>3, OrderSame DEF TakeEntry
<1>. QED
  BY <1>1, <1>2, <1>3 DEF VerbSteps

LEMMA OrderStep ==
  ASSUME Inv, LocksInOrder, [Next]_vars
  PROVE  LocksInOrder'
<1>0. TypeOK /\ AtAProject
  BY DEF Inv
<1>1. CASE Takes
  BY <1>0, <1>1, OrderTakes DEF Takes
<1>2. ASSUME NEW l \in Launches, LaunchSteps(l) PROVE LocksInOrder'
  BY <1>0, <1>2, OrderLaunches
<1>3. ASSUME NEW v \in Verbs, VerbSteps(v) PROVE LocksInOrder'
  BY <1>0, <1>3, OrderVerbs
<1>4. CASE \E p \in Projects : DeleteProject(p)
  BY <1>4, OrderSame DEF DeleteProject
<1>5. CASE UNCHANGED vars
  BY <1>5, OrderSame DEF vars
<1>. QED
  BY <1>1, <1>2, <1>3, <1>4, <1>5 DEF Next

(* Whatever trees are taken under their feet, no set of launches and verbs *)
(* waits in a circle for the store locks (lock_app_projects locks in id    *)
(* order; flock_at waits without a timeout): of actors that wait, the one  *)
(* that waits for the highest id waits for somebody who goes on.           *)
THEOREM NobodyLocksOut == Spec => []NoCircularWait
<1>1. Inv /\ LocksInOrder => NoCircularWait
  <2>. SUFFICES ASSUME Inv, LocksInOrder, NEW D \in SUBSET Actors, D # {},
                       \A a \in D : \E b \in D : WaitsFor(a, b)
                PROVE  FALSE
    BY DEF NoCircularWait
  <2>. DEFINE S == {at[a] : a \in D}
  <2>1. \A a \in D : st[a] = "blocked" /\ at[a] \in Projects
    BY DEF WaitsFor, Inv, AtAProject
  <2>2. S \in SUBSET Projects /\ S # {}
    BY <2>1
  <2>3. PICK m \in S : \A y \in S : y <= m
    BY <2>2, HasHighest
  <2>4. PICK a \in D : at[a] = m
    BY <2>3
  <2>5. PICK b \in D : <<b, m>> \in held
    BY <2>4 DEF WaitsFor
  <2>6. m < at[b]
    BY <2>1, <2>2, <2>3, <2>5 DEF LocksInOrder, Locking
  <2>7. at[b] <= m /\ m \in Nat /\ at[b] \in Nat
    BY <2>1, <2>2, <2>3, ProjectsAssumption
  <2>. QED
    BY <2>6, <2>7
<1>. QED
  BY <1>1, StoreInvariance, OrderStart, OrderStep, PTL DEF Spec
=============================================================================
