------------------------------ MODULE HostProofs ----------------------------
(***************************************************************************)
(* Proofs about what ops leaves on the host, for any number of processes,  *)
(* process numbers, writers and crashes: SessionStop (as Stop), then       *)
(* AtomicFile (as File).                                                   *)
(***************************************************************************)
EXTENDS MCAdversity, Sequences, TLAPS

USE DEF Stop!kernel, Stop!registry, Stop!stopper, Stop!pruner, Stop!reuse

-----------------------------------------------------------------------------
(* SessionStop.                                                            *)

(* Nothing runs and nothing is recorded.                                   *)
LEMMA InitInv == Stop!Init => Stop!OwnInv
<1>. SUFFICES ASSUME Stop!Init PROVE Stop!OwnInv
  OBVIOUS
<1>1. Stop!TypeOK
  <2>1. born \in Nat /\ who \in [Pids -> 0 .. born] /\ pin \in 0 .. born
    BY DEF Stop!Init
  <2>2. Stop!Processes = {}
    BY DEF Stop!Init, Stop!Processes
  <2>3. launcher \in [Stop!Processes -> 0 .. born] /\ num \in [Stop!Processes -> Pids]
    BY <2>2 DEF Stop!Init
  <2>4. forced \in BOOLEAN /\ slipped \in BOOLEAN
    BY Zenon DEF Stop!Init
  <2>. QED
    BY <2>1, <2>3, <2>4 DEF Stop!Init, Stop!TypeOK
<1>2. Stop!OneNumberEach /\ Stop!RecordsAreNamed /\ Stop!PinnedIsNamed /\ Stop!InOrder
  BY DEF Stop!Init, Stop!OneNumberEach, Stop!RecordsAreNamed, Stop!PinnedIsNamed, Stop!InOrder
<1>3. Stop!NoneLeftOut /\ Stop!ForgetsTheDead /\ Stop!RunningIsRecorded /\ Stop!MembersKilled
  BY DEF Stop!Init, Stop!NoneLeftOut, Stop!ForgetsTheDead, Stop!RunningIsRecorded,
         Stop!MembersKilled, Stop!Running
<1>4. Stop!ParentsRun /\ Stop!OnlyFound
  BY DEF Stop!Init, Stop!ParentsRun, Stop!OnlyFound
<1>5. Stop!ReadAsOne /\ Stop!MembersAreItsOwn /\ Stop!SignalsWhatItFound
  BY DEF Stop!Init, Stop!ReadAsOne, Stop!MembersAreItsOwn, Stop!SignalsWhatItFound
<1>. QED
  BY <1>1, <1>2, <1>3, <1>4, <1>5 DEF Stop!OwnInv, Stop!Inv

(* What a record or a member names.                                        *)
LEMMA NamedParts ==
  ASSUME Stop!TypeOK
  PROVE  /\ 0 \notin Stop!Processes
         /\ \A x \in Stop!Named : x.pid \in Pids /\ x.start \in Stop!Processes /\ x.start # 0
         /\ \A p \in Pids : who[p] = 0 \/ (who[p] \in Stop!Processes /\ Stop!Member(p) \in Stop!Named)
         /\ \A p \in Pids : Stop!Member(p).pid = p /\ Stop!Member(p).start = who[p]
<1>1. Stop!Processes = 1 .. born /\ born \in Nat /\ who \in [Pids -> 0 .. born]
  BY DEF Stop!TypeOK, Stop!Processes
<1>2. 0 \notin Stop!Processes /\ \A s \in 0 .. born : s = 0 \/ s \in Stop!Processes
  BY <1>1
<1>3. \A x \in Stop!Named : x.pid \in Pids /\ x.start \in Stop!Processes /\ x.start # 0
  BY <1>2 DEF Stop!Named
<1>4. \A p \in Pids : who[p] = 0 \/ who[p] \in Stop!Processes
  BY <1>1, <1>2
<1>. QED
  BY <1>2, <1>3, <1>4 DEF Stop!Member, Stop!Named

(* A process is started under a number that names none: nothing that was   *)
(* known of the others changes.                                            *)
LEMMA ForkKeeps ==
  ASSUME Stop!TypeOK, NEW p \in Pids, NEW q \in Pids \cup {0}, NEW of \in 0 .. born + 1,
         Stop!Fork(p, q, of)
  PROVE  /\ born \in Nat /\ born' = born + 1 /\ born + 1 \notin Stop!Processes
         /\ 0 \notin Stop!Processes
         /\ Stop!Processes' = Stop!Processes \cup {born + 1}
         /\ who[p] = 0 /\ who'[p] = born + 1 /\ who' \in [Pids -> 0 .. born']
         /\ \A k \in Pids : k # p => who'[k] = who[k]
         /\ \A k \in Pids, s \in Stop!Processes : who'[k] = s <=> who[k] = s
         /\ \A s \in Stop!Processes : launcher'[s] = launcher[s] /\ num'[s] = num[s]
         /\ launcher'[born + 1] = of /\ num'[born + 1] = p
         /\ launcher' \in [Stop!Processes' -> 0 .. born'] /\ num' \in [Stop!Processes' -> Pids]
         /\ \A x \in Stop!Named : x \in Stop!Named' /\ x.pid \in Pids /\ x.start \in Stop!Processes
<1>0. /\ who[p] = 0 /\ born' = born + 1 /\ who' = [who EXCEPT ![p] = born + 1]
      /\ launcher' = [s \in 1 .. born + 1 |-> IF s = born + 1 THEN of ELSE launcher[s]]
      /\ num' = [s \in 1 .. born + 1 |-> IF s = born + 1 THEN p ELSE num[s]]
  BY DEF Stop!Fork
<1>1. /\ born \in Nat /\ Stop!Processes = 1 .. born /\ Stop!Processes' = 1 .. born + 1
      /\ who \in [Pids -> 0 .. born]
      /\ launcher \in [1 .. born -> 0 .. born] /\ num \in [1 .. born -> Pids]
  BY <1>0 DEF Stop!TypeOK, Stop!Processes
<1>2. /\ born + 1 \notin Stop!Processes /\ 0 \notin Stop!Processes
      /\ Stop!Processes' = Stop!Processes \cup {born + 1} /\ born + 1 # 0
      /\ 0 .. born \subseteq 0 .. born + 1 /\ born + 1 \in 0 .. born + 1
  BY <1>1
<1>3. /\ who'[p] = born + 1 /\ \A k \in Pids : k # p => who'[k] = who[k]
      /\ who' \in [Pids -> 0 .. born']
  BY <1>0, <1>1, <1>2
<1>4. \A k \in Pids, s \in Stop!Processes : who'[k] = s <=> who[k] = s
  BY <1>0, <1>2, <1>3
<1>5. /\ \A s \in Stop!Processes : launcher'[s] = launcher[s] /\ num'[s] = num[s]
      /\ launcher'[born + 1] = of /\ num'[born + 1] = p
  BY <1>0, <1>1
<1>6. launcher' \in [Stop!Processes' -> 0 .. born'] /\ num' \in [Stop!Processes' -> Pids]
  <2>1. \A s \in 1 .. born + 1 : s \in 1 .. born \/ s = born + 1
    BY <1>1
  <2>2. \A s \in 1 .. born + 1 :
          /\ (IF s = born + 1 THEN of ELSE launcher[s]) \in 0 .. born + 1
          /\ (IF s = born + 1 THEN p ELSE num[s]) \in Pids
    BY <1>1, <1>2, <2>1
  <2>. QED
    BY <1>0, <1>1, <2>2
<1>7. \A x \in Stop!Named : x \in Stop!Named' /\ x.pid \in Pids /\ x.start \in Stop!Processes
  BY <1>2 DEF Stop!Named
<1>. QED
  BY <1>0, <1>1, <1>2, <1>3, <1>4, <1>5, <1>6, <1>7

LEMMA ForkInv ==
  ASSUME Stop!Inv, NEW p \in Pids, NEW q \in Pids \cup {0}, NEW of \in 0 .. born + 1,
         Stop!Fork(p, q, of)
  PROVE  Stop!Inv'
<1>0. /\ \E above \in {0, q} : ppid' = [ppid EXCEPT ![p] = above]
      /\ slipped' = (slipped \/ p \in freed)
      /\ UNCHANGED <<zombies, Stop!registry, killed, Stop!stopper, Stop!pruner, unread, freed>>
  BY DEF Stop!Fork
<1>1. /\ born \in Nat /\ born' = born + 1 /\ born + 1 \notin Stop!Processes /\ 0 \notin Stop!Processes
      /\ Stop!Processes' = Stop!Processes \cup {born + 1}
      /\ who[p] = 0 /\ who'[p] = born + 1 /\ who' \in [Pids -> 0 .. born']
      /\ \A k \in Pids : k # p => who'[k] = who[k]
      /\ \A s \in Stop!Processes : launcher'[s] = launcher[s] /\ num'[s] = num[s]
      /\ num'[born + 1] = p
      /\ launcher' \in [Stop!Processes' -> 0 .. born'] /\ num' \in [Stop!Processes' -> Pids]
      /\ \A x \in Stop!Named : x \in Stop!Named' /\ x.pid \in Pids /\ x.start \in Stop!Processes
  BY ForkKeeps DEF Stop!Inv
<1>2. \A k \in Pids, s \in Stop!Processes : who'[k] = s <=> who[k] = s
  BY ForkKeeps DEF Stop!Inv
<1>3. Stop!TypeOK'
  <2>1. pin' \in 0 .. born' /\ born' \in Nat
    BY <1>0, <1>1 DEF Stop!Inv, Stop!TypeOK
  <2>2. ppid' \in [Pids -> Pids \cup {0}]
    BY <1>0 DEF Stop!Inv, Stop!TypeOK
  <2>3. /\ \A n \in DOMAIN records : records[n] \in Stop!Named'
        /\ cage \subseteq Stop!Named' /\ owed \subseteq Stop!Named' /\ todo \subseteq Stop!Named'
        /\ stop = "idle" \/ target \in Stop!Named'
    BY <1>1 DEF Stop!Inv, Stop!TypeOK
  <2>4. \/ member = Stop!NoMember
        \/ member \in [pid : Pids, start : Stop!Processes', pin : Stop!Processes']
    BY <1>1 DEF Stop!Inv, Stop!TypeOK
  <2>5. prune = "idle" \/ candidate \in [name : Pids \X Stop!Processes', of : Stop!Named']
    BY <1>1 DEF Stop!Inv, Stop!TypeOK
  <2>6. slipped' \in BOOLEAN
    BY <1>0 DEF Stop!Inv, Stop!TypeOK
  <2>7. edges \subseteq [pid : Pids, ppid : Pids \cup {0}, start : Stop!Processes']
    BY <1>1 DEF Stop!Inv, Stop!TypeOK
  <2>. QED
    BY <1>0, <1>1, <2>1, <2>2, <2>3, <2>4, <2>5, <2>6, <2>7 DEF Stop!Inv, Stop!TypeOK
<1>4. Stop!OneNumberEach'
  <2>1. \A k \in Pids : who[k] = 0 \/ who[k] \in Stop!Processes
    BY NamedParts DEF Stop!Inv
  <2>. QED
    BY <1>1, <2>1 DEF Stop!Inv, Stop!OneNumberEach
<1>5. \A m \in Stop!Named : Stop!Gone(m) <=> Stop!Gone(m)'
  BY <1>0, <1>1, <1>2 DEF Stop!Gone
<1>6. Stop!RecordsAreNamed'
  <2>1. prune # "idle" => candidate.of \in Stop!Named
    BY DEF Stop!Inv, Stop!TypeOK
  <2>2. recorded \subseteq Stop!Processes
    BY DEF Stop!Inv, Stop!TypeOK
  <2>. QED
    BY <1>0, <1>1, <1>5, <2>1, <2>2 DEF Stop!Inv, Stop!RecordsAreNamed
<1>7. Stop!PinnedIsNamed'
  <2>1. stop # "idle" => /\ who'[target.pid] = target.start <=> who[target.pid] = target.start
                         /\ num'[target.start] = num[target.start]
    BY <1>1, <1>2 DEF Stop!Inv, Stop!TypeOK
  <2>2. member # Stop!NoMember =>
          (who'[member.pid] = member.start <=> who[member.pid] = member.start)
    BY <1>2 DEF Stop!Inv, Stop!TypeOK
  <2>. QED
    BY <1>0, <2>1, <2>2 DEF Stop!Inv, Stop!PinnedIsNamed
<1>8. Stop!InOrder'
  BY <1>0 DEF Stop!Inv, Stop!InOrder
<1>9. Stop!NoneLeftOut' /\ Stop!MembersKilled'
  <2>1. \A m \in owed : Stop!Gone(m) <=> Stop!Gone(m)'
    BY <1>5 DEF Stop!Inv, Stop!TypeOK
  <2>. QED
    BY <1>0, <2>1 DEF Stop!Inv, Stop!NoneLeftOut, Stop!MembersKilled, Stop!Gone
<1>10. Stop!ForgetsTheDead'
  <2>1. stop # "idle" => (Stop!Gone(target) <=> Stop!Gone(target)')
    BY <1>0, <1>5 DEF Stop!Inv, Stop!TypeOK, Stop!Gone
  <2>. QED
    BY <1>0, <2>1 DEF Stop!Inv, Stop!ForgetsTheDead
<1>11. Stop!RunningIsRecorded'
  <2>. SUFFICES ASSUME NEW k \in Pids, Stop!Running(k)', who'[k] \in (recorded \ killed) \ unread
                PROVE  /\ Stop!FileName(k, who'[k]) \in DOMAIN records
                       /\ records[Stop!FileName(k, who'[k])] = Stop!Member(k)'
    BY <1>0 DEF Stop!RunningIsRecorded
  <2>1. k # p
    BY <1>1 DEF Stop!Inv, Stop!TypeOK
  <2>. QED
    BY <1>0, <1>1, <2>1 DEF Stop!Inv, Stop!RunningIsRecorded, Stop!Running, Stop!Member
<1>. QED
  BY <1>3, <1>4, <1>6, <1>7, <1>8, <1>9, <1>10, <1>11 DEF Stop!Inv

(* A process ends, with its record or without, or is reaped: what is gone  *)
(* stays so.                                                               *)
LEMMA EndInv ==
  ASSUME Stop!Inv, NEW p \in Pids, Stop!Exit(p) \/ Stop!Reap(p)
  PROVE  Stop!Inv'
<1>0. /\ UNCHANGED <<launcher, num, born, recorded, Stop!stopper, Stop!pruner, slipped>>
      /\ \/ /\ who' = who /\ zombies' = zombies \cup {who[p]} /\ who[p] # 0
            /\ records' = records \/ records' = Stop!Without(Stop!FileName(p, who[p]))
            /\ killed' = killed \ {who[p]} /\ unread' = unread \ {who[p]} /\ freed' = freed
         \/ /\ who' = [who EXCEPT ![p] = 0] /\ zombies' = zombies \ {who[p]}
            /\ records' = records /\ who[p] \in zombies
            /\ killed' = killed /\ unread' = unread /\ freed' \in {freed, freed \cup {p}}
            /\ stop \notin {"subtree", "scope", "starts"} => freed' = freed
  <2>1. CASE Stop!Exit(p)
    BY <2>1 DEF Stop!Exit, Stop!Running
  <2>2. CASE Stop!Reap(p)
    <3>1. freed' \in {freed, freed \cup {p}}
      BY <2>2 DEF Stop!Reap
    <3>2. stop \notin {"subtree", "scope", "starts"} => freed' = freed
      BY <2>2 DEF Stop!Reap
    <3>. QED
      BY <2>2, <3>1, <3>2 DEF Stop!Reap
  <2>. QED
    BY <2>1, <2>2
<1>1. ppid' \in [Pids -> Pids \cup {0}]
  BY DEF Stop!Exit, Stop!Reap, Stop!Inv, Stop!TypeOK
<1>2. /\ DOMAIN records' \subseteq DOMAIN records
      /\ \A n \in DOMAIN records' : records'[n] = records[n]
      /\ \A n \in DOMAIN records : n \in DOMAIN records' \/ n = Stop!FileName(p, who[p])
  BY <1>0 DEF Stop!Without
<1>3. /\ who \in [Pids -> 0 .. born] /\ born \in Nat /\ Stop!Processes' = Stop!Processes
      /\ Stop!Named' = Stop!Named /\ zombies \subseteq Stop!Processes /\ Stop!Processes = 1 .. born
  BY <1>0 DEF Stop!Inv, Stop!TypeOK, Stop!Processes, Stop!Named
<1>4. \A k \in Pids : who'[k] = who[k] \/ (k = p /\ who'[k] = 0)
  BY <1>0, <1>3
<1>5. ASSUME NEW m \in Stop!Named PROVE Stop!Gone(m) => Stop!Gone(m)'
  <2>1. m.pid \in Pids /\ m.start \in Stop!Processes /\ m.start # 0
    BY <1>3 DEF Stop!Named
  <2>2. CASE who' = who /\ zombies \subseteq zombies'
    BY <2>2 DEF Stop!Gone
  <2>3. CASE who' = [who EXCEPT ![p] = 0] /\ zombies' = zombies \ {who[p]} /\ who[p] # 0
    <3>1. who[m.pid] = m.start /\ who[p] = m.start => m.pid = p
      BY <2>1 DEF Stop!Inv, Stop!OneNumberEach
    <3>. QED
      BY <1>3, <2>1, <2>3, <3>1 DEF Stop!Gone
  <2>. QED
    BY <1>0, <1>3, <2>2, <2>3
<1>6. ASSUME NEW m \in Stop!Named, m.start \in (killed \ killed') \cup (unread \ unread')
       PROVE  Stop!Gone(m)'
  BY <1>0, <1>6 DEF Stop!Gone
<1>7. Stop!TypeOK'
  <2>1. who[p] # 0 => who[p] \in Stop!Processes
    BY NamedParts DEF Stop!Inv
  <2>3. who' \in [Pids -> 0 .. born'] /\ zombies' \subseteq Stop!Processes'
    <3>1. born' = born
      BY <1>0
    <3>2. zombies' \subseteq Stop!Processes'
      BY <1>0, <1>3, <2>1
    <3>3. who' \in [Pids -> 0 .. born]
      BY <1>0, <1>3
    <3>. QED
      BY <3>1, <3>2, <3>3
  <2>2. \A n \in DOMAIN records' : records'[n] \in Stop!Named'
    BY <1>2, <1>3 DEF Stop!Inv, Stop!TypeOK
  <2>4. killed' \subseteq Stop!Processes' /\ unread' \subseteq Stop!Processes' /\ freed' \subseteq Pids
    BY <1>0, <1>3 DEF Stop!Inv, Stop!TypeOK
  <2>. QED
    BY <1>0, <1>3, <1>1, <2>2, <2>3, <2>4 DEF Stop!Inv, Stop!TypeOK
<1>8. Stop!OneNumberEach'
  BY <1>0, <1>4 DEF Stop!Inv, Stop!OneNumberEach
<1>9. Stop!RecordsAreNamed'
  <2>1. prune # "idle" => candidate.of \in Stop!Named
    BY DEF Stop!Inv, Stop!TypeOK
  <2>. QED
    BY <1>0, <1>2, <1>5, <1>6, <2>1 DEF Stop!Inv, Stop!RecordsAreNamed
<1>10. stop # "idle" => target \in Stop!Named /\ target.pid \in Pids /\ target.start # 0
  BY NamedParts DEF Stop!Inv, Stop!TypeOK
<1>11. member # Stop!NoMember => member.pid \in Pids /\ member.start # 0
  BY NamedParts DEF Stop!Inv, Stop!TypeOK
<1>12. Stop!PinnedIsNamed'
  BY <1>0, <1>4, <1>10, <1>11 DEF Stop!Inv, Stop!PinnedIsNamed
<1>13. Stop!InOrder'
  BY <1>0 DEF Stop!Inv, Stop!InOrder
<1>14. Stop!NoneLeftOut' /\ Stop!MembersKilled'
  <2>1. \A m \in owed : /\ Stop!Gone(m) => Stop!Gone(m)'
                        /\ m.start \in killed => m.start \in killed' \/ Stop!Gone(m)'
    BY <1>5, <1>6 DEF Stop!Inv, Stop!TypeOK
  <2>2. Stop!MembersKilled'
    BY <1>0, <2>1 DEF Stop!Inv, Stop!MembersKilled, Stop!Gone
  <2>3. Stop!NoneLeftOut'
    BY <1>0, <2>1 DEF Stop!Inv, Stop!NoneLeftOut
  <2>. QED
    BY <2>2, <2>3
<1>15. Stop!ForgetsTheDead'
  <2>1. stop # "idle" =>
          (Stop!Gone(target) \/ target.start \in killed \cup unread =>
             Stop!Gone(target)' \/ target.start \in killed' \cup unread')
    BY <1>0, <1>5, <1>10, <1>6 DEF Stop!Gone
  <2>. QED
    BY <1>0, <2>1 DEF Stop!Inv, Stop!ForgetsTheDead
<1>16. Stop!RunningIsRecorded'
  <2>. SUFFICES ASSUME NEW k \in Pids, Stop!Running(k)', who'[k] \in (recorded \ killed') \ unread'
                PROVE  /\ Stop!FileName(k, who'[k]) \in DOMAIN records'
                       /\ records'[Stop!FileName(k, who'[k])] = Stop!Member(k)'
    BY <1>0 DEF Stop!RunningIsRecorded
  <2>1. k # p /\ who'[k] = who[k] /\ who[k] # 0
    BY <1>0, <1>3, <1>4 DEF Stop!Running
  <2>2. who[k] # who[p] /\ who[k] \notin zombies
    BY <1>0, <2>1 DEF Stop!Running, Stop!Inv, Stop!OneNumberEach
  <2>6. who[k] \in (recorded \ killed) \ unread
    BY <1>0, <2>1, <2>2
  <2>3. /\ Stop!FileName(k, who[k]) \in DOMAIN records
        /\ records[Stop!FileName(k, who[k])] = Stop!Member(k)
    BY <2>1, <2>2, <2>6 DEF Stop!Inv, Stop!RunningIsRecorded, Stop!Running
  <2>4. Stop!FileName(k, who[k]) # Stop!FileName(p, who[p])
    BY <2>1 DEF Stop!FileName
  <2>5. Stop!FileName(k, who'[k]) = Stop!FileName(k, who[k]) /\ Stop!Member(k)' = Stop!Member(k)
    BY <2>1 DEF Stop!Member
  <2>. QED
    BY <1>2, <2>3, <2>4, <2>5
<1>. QED
  BY <1>7, <1>8, <1>9, <1>12, <1>13, <1>14, <1>15, <1>16 DEF Stop!Inv

(* A launcher registers.                                                   *)
LEMMA RegisterInv ==
  ASSUME Stop!Inv, NEW p \in Pids, Stop!Register(p)
  PROVE  Stop!Inv'
<1>. DEFINE name == Stop!FileName(p, who[p])
<1>0. /\ who[p] # 0 /\ launcher[who[p]] = who[p]
      /\ DOMAIN records' = DOMAIN records \cup {name}
      /\ \A n \in DOMAIN records' : records'[n] = IF n = name THEN Stop!Member(p) ELSE records[n]
      /\ recorded' = recorded \cup {who[p]}
      /\ UNCHANGED <<Stop!kernel, killed, Stop!stopper, Stop!pruner, unread, Stop!reuse>>
  BY DEF Stop!Register, Stop!Running
<1>1. Stop!Member(p).pid = p /\ Stop!Member(p).start = who[p]
  BY DEF Stop!Member
<1>2. /\ who[p] \in Stop!Processes /\ Stop!Member(p) \in Stop!Named
      /\ Stop!Processes' = Stop!Processes /\ Stop!Named' = Stop!Named
  BY <1>0, NamedParts DEF Stop!Inv, Stop!Processes, Stop!Named
<1>3. Stop!TypeOK'
  <2>1. \A n \in DOMAIN records' : records'[n] \in Stop!Named'
    BY <1>0, <1>2 DEF Stop!Inv, Stop!TypeOK
  <2>. QED
    BY <1>0, <1>2, <2>1 DEF Stop!Inv, Stop!TypeOK
<1>4. Stop!RecordsAreNamed'
  <2>1. \A n \in DOMAIN records' : /\ n = Stop!FileName(records'[n].pid, records'[n].start)
                                   /\ records'[n].start \in recorded'
                                   /\ num'[records'[n].start] = records'[n].pid
    BY <1>0, <1>1 DEF Stop!Inv, Stop!RecordsAreNamed, Stop!OneNumberEach
  <2>2. \A s \in recorded' : launcher'[s] = s
    BY <1>0 DEF Stop!Inv, Stop!RecordsAreNamed
  <2>. QED
    BY <1>0, <2>1, <2>2 DEF Stop!Inv, Stop!RecordsAreNamed, Stop!Gone
<1>5. Stop!OneNumberEach' /\ Stop!PinnedIsNamed' /\ Stop!InOrder'
  BY <1>0 DEF Stop!Inv, Stop!OneNumberEach, Stop!PinnedIsNamed, Stop!InOrder
<1>6. Stop!NoneLeftOut' /\ Stop!MembersKilled' /\ Stop!ForgetsTheDead'
  BY <1>0 DEF Stop!Inv, Stop!NoneLeftOut, Stop!MembersKilled, Stop!ForgetsTheDead, Stop!Gone
<1>7. Stop!RunningIsRecorded'
  <2>. SUFFICES ASSUME NEW q \in Pids, Stop!Running(q), who[q] \in (recorded' \ killed) \ unread
                PROVE  /\ Stop!FileName(q, who[q]) \in DOMAIN records'
                       /\ records'[Stop!FileName(q, who[q])] = Stop!Member(q)
    BY <1>0 DEF Stop!RunningIsRecorded, Stop!Running, Stop!Member
  <2>1. CASE q = p
    BY <1>0, <2>1
  <2>2. CASE q # p
    <3>1. who[q] # who[p] /\ Stop!FileName(q, who[q]) # name
      BY <1>0, <2>2 DEF Stop!Inv, Stop!OneNumberEach, Stop!FileName
    <3>. QED
      BY <1>0, <3>1 DEF Stop!Inv, Stop!RunningIsRecorded
  <2>. QED
    BY <2>1, <2>2
<1>. QED
  BY <1>3, <1>4, <1>5, <1>6, <1>7 DEF Stop!Inv

(* The pruning walk judges a record, by the process it names.              *)
LEMMA PruneInv ==
  ASSUME Stop!Inv,
         \/ \E name \in DOMAIN records : Stop!Judge(name)
         \/ Stop!PidIsLive \/ Stop!StartMatches \/ Stop!StartUnread
  PROVE  Stop!Inv'
<1>0. UNCHANGED <<Stop!kernel, Stop!registry, killed, Stop!stopper, Stop!reuse>>
  BY DEF Stop!Judge, Stop!PidIsLive, Stop!StartMatches, Stop!StartUnread
<1>1. Stop!Processes' = Stop!Processes /\ Stop!Named' = Stop!Named
  BY <1>0 DEF Stop!Processes, Stop!Named
<1>2. /\ prune' \in {"idle", "live", "started", "dead"}
      /\ prune' # "idle" => /\ candidate' \in [name : Pids \X Stop!Processes, of : Stop!Named]
                            /\ candidate'.name = Stop!FileName(candidate'.of.pid, candidate'.of.start)
      /\ prune' = "dead" => Stop!Gone(candidate'.of) \/ candidate'.of.start \in unread'
      /\ unread \subseteq unread' /\ unread' \subseteq Stop!Processes
  <2>1. ASSUME NEW name \in DOMAIN records, Stop!Judge(name)
        PROVE  <1>2!:
    <3>1. /\ candidate' = [name |-> name, of |-> records[name]]
          /\ \/ prune' = "live" /\ unread' = unread
             \/ prune' = "dead" /\ unread' = unread \cup {records[name].start}
          /\ records[name] \in Stop!Named
      BY <2>1 DEF Stop!Judge, Stop!Inv, Stop!TypeOK
    <3>2. name = Stop!FileName(records[name].pid, records[name].start)
      BY DEF Stop!Inv, Stop!RecordsAreNamed
    <3>3. records[name].pid \in Pids /\ records[name].start \in Stop!Processes
      BY <3>1, NamedParts DEF Stop!Inv
    <3>4. name \in Pids \X Stop!Processes
      BY <3>2, <3>3 DEF Stop!FileName
    <3>5. unread \subseteq Stop!Processes
      BY DEF Stop!Inv, Stop!TypeOK
    <3>. QED
      BY <3>1, <3>2, <3>3, <3>4, <3>5
  <2>2. CASE Stop!PidIsLive
    <3>1. prune = "live" /\ UNCHANGED <<candidate, unread>> /\ candidate.of \in Stop!Named
      BY <2>2 DEF Stop!PidIsLive, Stop!Inv, Stop!TypeOK
    <3>2. prune' = "dead" => Stop!Gone(candidate.of)
      <4>1. candidate.of.start # 0
        BY <3>1, NamedParts DEF Stop!Inv
      <4>. QED
        BY <2>2, <3>1, <4>1 DEF Stop!PidIsLive, Stop!Running, Stop!Gone
    <3>. QED
      BY <2>2, <3>1, <3>2 DEF Stop!PidIsLive, Stop!Inv, Stop!TypeOK, Stop!RecordsAreNamed
  <2>3. CASE Stop!StartMatches
    BY <2>3 DEF Stop!StartMatches, Stop!Gone, Stop!Inv, Stop!TypeOK, Stop!RecordsAreNamed
  <2>4. CASE Stop!StartUnread
    <3>1. /\ prune = "started" /\ prune' = "dead" /\ candidate' = candidate
          /\ unread' = unread \cup {candidate.of.start}
      BY <2>4 DEF Stop!StartUnread
    <3>2. candidate.of.start \in Stop!Processes
      BY <3>1, NamedParts DEF Stop!Inv, Stop!TypeOK
    <3>. QED
      BY <3>1, <3>2 DEF Stop!Inv, Stop!TypeOK, Stop!RecordsAreNamed
  <2>. QED
    BY <2>1, <2>2, <2>3, <2>4
<1>3. Stop!TypeOK'
  BY <1>0, <1>1, <1>2 DEF Stop!Inv, Stop!TypeOK
<1>4. Stop!RecordsAreNamed'
  BY <1>0, <1>2 DEF Stop!Inv, Stop!RecordsAreNamed, Stop!Gone
<1>5. Stop!OneNumberEach' /\ Stop!PinnedIsNamed' /\ Stop!InOrder'
  BY <1>0 DEF Stop!Inv, Stop!OneNumberEach, Stop!PinnedIsNamed, Stop!InOrder
<1>6. Stop!NoneLeftOut' /\ Stop!MembersKilled'
  BY <1>0 DEF Stop!Inv, Stop!NoneLeftOut, Stop!MembersKilled, Stop!Gone
<1>7. Stop!ForgetsTheDead'
  BY <1>0, <1>2 DEF Stop!Inv, Stop!ForgetsTheDead, Stop!Gone
<1>8. Stop!RunningIsRecorded'
  BY <1>0, <1>2 DEF Stop!Inv, Stop!RunningIsRecorded, Stop!Running, Stop!Member
<1>. QED
  BY <1>3, <1>4, <1>5, <1>6, <1>7, <1>8 DEF Stop!Inv

(* The record of a process that is gone, or was killed, or could not be    *)
(* read, is removed.                                                       *)
LEMMA RemovedRecord ==
  ASSUME Stop!Inv, UNCHANGED <<Stop!kernel, recorded, killed, unread>>, NEW m \in Stop!Named,
         Stop!Gone(m) \/ m.start \in killed \cup unread,
         records' = Stop!Without(Stop!FileName(m.pid, m.start))
  PROVE  /\ Stop!RunningIsRecorded'
         /\ DOMAIN records' \subseteq DOMAIN records
         /\ \A n \in DOMAIN records' : records'[n] = records[n]
<1>1. /\ DOMAIN records' = DOMAIN records \ {Stop!FileName(m.pid, m.start)}
      /\ \A n \in DOMAIN records' : records'[n] = records[n]
  BY DEF Stop!Without
<1>2. Stop!RunningIsRecorded'
  <2>. SUFFICES ASSUME NEW q \in Pids, Stop!Running(q), who[q] \in (recorded \ killed) \ unread
                PROVE  /\ Stop!FileName(q, who[q]) \in DOMAIN records'
                       /\ records'[Stop!FileName(q, who[q])] = Stop!Member(q)
    BY DEF Stop!RunningIsRecorded, Stop!Running, Stop!Member
  <2>1. Stop!FileName(q, who[q]) # Stop!FileName(m.pid, m.start)
    <3>1. q # m.pid \/ who[q] # m.start
      BY DEF Stop!Running, Stop!Gone
    <3>. QED
      BY <3>1 DEF Stop!FileName
  <2>. QED
    BY <1>1, <2>1 DEF Stop!Inv, Stop!RunningIsRecorded
<1>. QED
  BY <1>1, <1>2

LEMMA RemoveInv ==
  ASSUME Stop!Inv, Stop!Remove
  PROVE  Stop!Inv'
<1>0. /\ prune = "dead" /\ prune' = "idle" /\ records' = Stop!Without(candidate.name)
      /\ UNCHANGED <<Stop!kernel, recorded, killed, Stop!stopper, unread, Stop!reuse>>
  BY DEF Stop!Remove
<1>1. /\ candidate.of \in Stop!Named
      /\ Stop!Gone(candidate.of) \/ candidate.of.start \in unread
      /\ candidate.name = Stop!FileName(candidate.of.pid, candidate.of.start)
  BY <1>0 DEF Stop!Inv, Stop!TypeOK, Stop!RecordsAreNamed
<1>2. /\ Stop!RunningIsRecorded'
      /\ DOMAIN records' \subseteq DOMAIN records
      /\ \A n \in DOMAIN records' : records'[n] = records[n]
  BY <1>0, <1>1, RemovedRecord
<1>3. Stop!Processes' = Stop!Processes /\ Stop!Named' = Stop!Named
  BY <1>0 DEF Stop!Processes, Stop!Named
<1>4. Stop!TypeOK'
  BY <1>0, <1>2, <1>3 DEF Stop!Inv, Stop!TypeOK
<1>5. Stop!RecordsAreNamed'
  BY <1>0, <1>2 DEF Stop!Inv, Stop!RecordsAreNamed
<1>6. Stop!OneNumberEach' /\ Stop!PinnedIsNamed' /\ Stop!InOrder'
  BY <1>0 DEF Stop!Inv, Stop!OneNumberEach, Stop!PinnedIsNamed, Stop!InOrder
<1>7. Stop!NoneLeftOut' /\ Stop!MembersKilled' /\ Stop!ForgetsTheDead'
  BY <1>0 DEF Stop!Inv, Stop!NoneLeftOut, Stop!MembersKilled, Stop!ForgetsTheDead, Stop!Gone
<1>. QED
  BY <1>2, <1>4, <1>5, <1>6, <1>7 DEF Stop!Inv

(* What a stop's own steps leave alone.                                    *)
LEMMA StopperInv ==
  ASSUME Stop!Inv, UNCHANGED <<Stop!kernel, Stop!registry, Stop!pruner>>, killed \subseteq killed',
         unread \subseteq unread',
         Stop!TypeOK', Stop!PinnedIsNamed', Stop!InOrder', Stop!NoneLeftOut',
         Stop!ForgetsTheDead', Stop!MembersKilled'
  PROVE  Stop!Inv'
<1>1. Stop!OneNumberEach' /\ Stop!RecordsAreNamed'
  BY DEF Stop!Inv, Stop!OneNumberEach, Stop!RecordsAreNamed, Stop!Gone
<1>2. Stop!RunningIsRecorded'
  BY DEF Stop!Inv, Stop!RunningIsRecorded, Stop!Running, Stop!Member
<1>. QED
  BY <1>1, <1>2 DEF Stop!Inv

LEMMA StopperTypes ==
  ASSUME Stop!Inv, UNCHANGED <<Stop!kernel, Stop!registry, Stop!pruner, slipped>>,
         freed' \in {freed, {}},
         killed' \subseteq Stop!Processes, unread' \subseteq Stop!Processes,
         hit' \subseteq Stop!Processes, pin' \in 0 .. born,
         stop' \in {"idle", "open", "confirm", "subtree", "scope", "starts", "sweep", "forget"},
         stop' = "idle" \/ target' \in Stop!Named,
         edges' \subseteq [pid : Pids, ppid : Pids \cup {0}, start : Stop!Processes],
         cage' \subseteq Stop!Named, owed' \subseteq Stop!Named, todo' \subseteq Stop!Named,
         listed' \subseteq Pids, forced' \in BOOLEAN,
         \/ member' = Stop!NoMember
         \/ member' \in [pid : Pids, start : Stop!Processes, pin : Stop!Processes]
  PROVE  Stop!TypeOK'
<1>1. Stop!Processes' = Stop!Processes /\ Stop!Named' = Stop!Named
  BY DEF Stop!Processes, Stop!Named
<1>2. freed' \subseteq Pids
  BY DEF Stop!Inv, Stop!TypeOK
<1>. QED
  BY <1>1, <1>2 DEF Stop!Inv, Stop!TypeOK

(* The record to stop is chosen, and its process pinned and confirmed, or  *)
(* its start time could not be read.                                       *)
LEMMA ConfirmInv ==
  ASSUME Stop!Inv,
         \/ \E name \in DOMAIN records : Stop!Choose(name)
         \/ Stop!Open \/ Stop!Confirm \/ Stop!ConfirmUnread
  PROVE  Stop!Inv'
<1>0. /\ UNCHANGED <<Stop!kernel, Stop!registry, killed, hit, edges, cage, owed, todo, member, forced,
                     Stop!pruner, Stop!reuse>>
      /\ stop \in {"idle", "open", "confirm"}
      /\ stop' \in {"open", "confirm", "subtree", "forget"}
      /\ listed' = listed \/ (stop' = "subtree" /\ listed' = Pids)
  BY DEF Stop!Choose, Stop!Open, Stop!Confirm, Stop!ConfirmUnread
<1>1. /\ target' \in Stop!Named /\ target'.start \in recorded
      /\ num[target'.start] = target'.pid
  <2>1. CASE \E name \in DOMAIN records : Stop!Choose(name)
    BY <2>1 DEF Stop!Choose, Stop!Inv, Stop!TypeOK, Stop!RecordsAreNamed
  <2>2. CASE Stop!Open \/ Stop!Confirm \/ Stop!ConfirmUnread
    BY <2>2
       DEF Stop!Open, Stop!Confirm, Stop!ConfirmUnread, Stop!Inv, Stop!TypeOK, Stop!PinnedIsNamed
  <2>. QED
    BY <2>1, <2>2
<1>2. pin' \in 0 .. born
  <2>1. CASE Stop!Open
    BY <2>1, NamedParts DEF Stop!Open, Stop!Inv, Stop!TypeOK
  <2>2. CASE ~Stop!Open
    BY <2>2 DEF Stop!Choose, Stop!Confirm, Stop!ConfirmUnread, Stop!Inv, Stop!TypeOK
  <2>. QED
    BY <2>1, <2>2
<1>3. /\ unread \subseteq unread' /\ unread' \subseteq Stop!Processes
      /\ Stop!ConfirmUnread => target'.start \in unread'
  <2>1. target'.start \in Stop!Processes
    BY <1>1, NamedParts DEF Stop!Inv
  <2>. QED
    BY <2>1 DEF Stop!Choose, Stop!Open, Stop!Confirm, Stop!ConfirmUnread, Stop!Inv, Stop!TypeOK
<1>4. Stop!TypeOK'
  <2>1. listed' \subseteq Pids
    BY <1>0 DEF Stop!Inv, Stop!TypeOK
  <2>. QED
    BY <1>0, <1>1, <1>2, <1>3, <2>1, StopperTypes DEF Stop!Inv, Stop!TypeOK
<1>5. /\ member = Stop!NoMember /\ hit = {} /\ todo = {} /\ ~forced /\ cage = {} /\ owed = {}
      /\ listed = {} /\ edges = {} /\ freed = {}
  BY <1>0 DEF Stop!Inv, Stop!InOrder
<1>6. Stop!InOrder' /\ Stop!NoneLeftOut' /\ Stop!MembersKilled'
  BY <1>0, <1>5 DEF Stop!InOrder, Stop!NoneLeftOut, Stop!MembersKilled
<1>7. Stop!PinnedIsNamed'
  <2>1. stop' = "confirm" => pin' = target'.start \/ who[target'.pid] # target'.start
    BY DEF Stop!Choose, Stop!Open, Stop!Confirm, Stop!ConfirmUnread
  <2>2. stop' = "subtree" => pin' = target'.start
    BY DEF Stop!Choose, Stop!Open, Stop!Confirm, Stop!ConfirmUnread, Stop!Inv, Stop!PinnedIsNamed
  <2>. QED
    BY <1>0, <1>1, <1>5, <2>1, <2>2 DEF Stop!PinnedIsNamed
<1>8. Stop!ForgetsTheDead'
  <2>1. stop' = "forget" => who[target'.pid] # target'.start \/ target'.start \in unread'
    <3>1. target'.start # 0
      BY <1>1, NamedParts DEF Stop!Inv
    <3>. QED
      BY <1>3, <3>1 DEF Stop!Choose, Stop!Open, Stop!Confirm
  <2>. QED
    BY <1>0, <1>5, <2>1 DEF Stop!ForgetsTheDead, Stop!Gone
<1>. QED
  BY <1>0, <1>3, <1>4, <1>6, <1>7, <1>8, StopperInv

(* The members are found: those below the launcher's number in what was    *)
(* read of /proc, then those of its scopes, where each number listed is    *)
(* read, left out, or names nobody any more.                               *)
LEMMA FindInv ==
  ASSUME Stop!Inv,
         \/ \E p \in Pids : Stop!ReadStat(p) \/ Stop!ReadStart(p) \/ Stop!LeaveOut(p)
         \/ Stop!WalkDescendants \/ Stop!ListScope
  PROVE  Stop!Inv'
<1>0. /\ UNCHANGED <<Stop!kernel, Stop!registry, killed, hit, target, pin, todo, member, forced,
                     Stop!pruner,
                     unread, Stop!reuse>>
      /\ stop \in {"subtree", "scope", "starts"}
      /\ stop' \in {"subtree", "scope", "starts"}
      /\ stop = "scope" => stop' = "starts" /\ cage' = cage
      /\ stop = "starts" => stop' = "starts"
  BY DEF Stop!ReadStat, Stop!WalkDescendants, Stop!ListScope, Stop!ReadStart, Stop!LeaveOut
<1>1. /\ edges' \subseteq [pid : Pids, ppid : Pids \cup {0}, start : Stop!Processes]
      /\ cage' \subseteq Stop!Named /\ owed' \subseteq Stop!Named /\ listed' \subseteq Pids
  <2>1. ASSUME NEW p \in Pids, Stop!ReadStat(p) PROVE <1>1!:
    <3>1. who[p] # 0 => [pid |-> p, ppid |-> ppid[p], start |-> who[p]]
                          \in [pid : Pids, ppid : Pids \cup {0}, start : Stop!Processes]
      BY NamedParts DEF Stop!Inv, Stop!TypeOK
    <3>. QED
      BY <2>1, <3>1 DEF Stop!ReadStat, Stop!Inv, Stop!TypeOK
  <2>2. CASE Stop!WalkDescendants
    <3>1. cage' \subseteq Stop!Named
      BY <2>2 DEF Stop!WalkDescendants, Stop!Descendants, Stop!Named, Stop!Inv, Stop!TypeOK
    <3>. QED
      BY <2>2, <3>1 DEF Stop!WalkDescendants, Stop!Inv, Stop!TypeOK
  <2>3. CASE Stop!ListScope
    <3>1. Stop!InScopeOf(target.pid) \subseteq Pids
      BY DEF Stop!InScopeOf
    <3>2. \A p \in Stop!InScopeOf(target.pid) : Stop!Member(p) \in Stop!Named
      BY NamedParts DEF Stop!InScopeOf, Stop!Running, Stop!Inv
    <3>. QED
      BY <2>3, <3>1, <3>2 DEF Stop!ListScope, Stop!Inv, Stop!TypeOK
  <2>4. ASSUME NEW p \in Pids, Stop!ReadStart(p) \/ Stop!LeaveOut(p) PROVE <1>1!:
    BY <2>4, NamedParts DEF Stop!ReadStart, Stop!LeaveOut, Stop!Union, Stop!Inv, Stop!TypeOK
  <2>. QED
    BY <2>1, <2>2, <2>3, <2>4
<1>2. Stop!TypeOK'
  BY <1>0, <1>1, StopperTypes DEF Stop!Inv, Stop!TypeOK
<1>3. Stop!PinnedIsNamed' /\ Stop!ForgetsTheDead' /\ Stop!MembersKilled'
  BY <1>0 DEF Stop!Inv, Stop!PinnedIsNamed, Stop!ForgetsTheDead, Stop!MembersKilled
<1>4. Stop!InOrder'
  BY DEF Stop!ReadStat, Stop!WalkDescendants, Stop!ListScope, Stop!ReadStart, Stop!LeaveOut,
         Stop!Inv, Stop!InOrder
<1>5. Stop!NoneLeftOut'
  <2>1. ASSUME NEW p \in Pids, Stop!ReadStat(p) PROVE Stop!NoneLeftOut'
    BY <2>1 DEF Stop!ReadStat, Stop!NoneLeftOut
  <2>2. CASE Stop!WalkDescendants
    BY <2>2 DEF Stop!WalkDescendants, Stop!NoneLeftOut
  <2>3. CASE Stop!ListScope
    <3>1. stop = "scope" /\ stop' = "starts" /\ cage' = cage /\ owed \subseteq cage
      BY <2>3 DEF Stop!ListScope, Stop!Inv, Stop!NoneLeftOut
    <3>2. \A m \in owed' : m \in owed \/ m.pid \in listed'
      BY <2>3 DEF Stop!ListScope, Stop!Member
    <3>. QED
      BY <3>1, <3>2 DEF Stop!NoneLeftOut
  <2>4. ASSUME NEW p \in Pids, Stop!ReadStart(p) \/ Stop!LeaveOut(p) PROVE Stop!NoneLeftOut'
    <3>1. /\ stop' = "starts" /\ owed' \subseteq owed /\ cage \subseteq cage'
          /\ listed' = listed \ {p}
          /\ \A m \in owed : m.pid \in listed \/ m \in cage \/ Stop!Gone(m)
      BY <2>4 DEF Stop!ReadStart, Stop!LeaveOut, Stop!Union, Stop!Inv, Stop!NoneLeftOut
    <3>2. ASSUME NEW m \in owed', m.pid = p PROVE m \in cage' \/ Stop!Gone(m)
      <4>1. m \in Stop!Named /\ m.start # 0 /\ m = [pid |-> m.pid, start |-> m.start]
        BY <3>1, NamedParts DEF Stop!Inv, Stop!TypeOK, Stop!Named
      <4>. QED
        BY <2>4, <3>2, <4>1 DEF Stop!ReadStart, Stop!LeaveOut, Stop!Union, Stop!Member, Stop!Gone
    <3>. QED
      BY <1>0, <3>1, <3>2 DEF Stop!NoneLeftOut, Stop!Gone
  <2>. QED
    BY <2>1, <2>2, <2>3, <2>4
<1>. QED
  BY <1>0, <1>2, <1>3, <1>4, <1>5, StopperInv

(* The first signal, which starts the sweep of the members found.          *)
LEMMA SigTermInv ==
  ASSUME Stop!Inv, Stop!SigTerm
  PROVE  Stop!Inv'
<1>0. /\ stop = "starts" /\ listed = {} /\ todo' = cage /\ stop' = "sweep"
      /\ hit' = IF Stop!Exists(pin) THEN hit \cup {pin} ELSE hit
      /\ forced' = ~Stop!Exists(pin)
      /\ UNCHANGED <<Stop!kernel, Stop!registry, killed, target, pin, edges, cage, listed, owed, member,
                     Stop!pruner, unread, slipped>>
      /\ freed' = {}
  BY DEF Stop!SigTerm
<1>1. /\ target \in Stop!Named /\ pin = target.start /\ pin \in Stop!Processes /\ target.pid \in Pids
      /\ member = Stop!NoMember
  BY <1>0, NamedParts DEF Stop!Inv, Stop!TypeOK, Stop!PinnedIsNamed, Stop!InOrder
<1>2. Stop!TypeOK'
  <2>1. forced' \in BOOLEAN /\ hit' \subseteq Stop!Processes
    BY <1>0, <1>1 DEF Stop!Inv, Stop!TypeOK
  <2>. QED
    BY <1>0, <1>1, <2>1, StopperTypes DEF Stop!Inv, Stop!TypeOK
<1>3. Stop!PinnedIsNamed' /\ Stop!InOrder' /\ Stop!MembersKilled'
  BY <1>0, <1>1 DEF Stop!Inv, Stop!PinnedIsNamed, Stop!InOrder, Stop!MembersKilled
<1>4. Stop!NoneLeftOut'
  BY <1>0 DEF Stop!Inv, Stop!NoneLeftOut, Stop!Gone
<1>5. Stop!ForgetsTheDead'
  BY <1>0, <1>1 DEF Stop!ForgetsTheDead, Stop!Gone, Stop!Exists
<1>. QED
  BY <1>0, <1>2, <1>3, <1>4, <1>5, StopperInv

(* A member is pinned, unless nothing has its number or the host refuses.  *)
LEMMA MemberInv ==
  ASSUME Stop!Inv, NEW m \in todo, Stop!OpenMember(m) \/ Stop!MissMember(m)
  PROVE  Stop!Inv'
<1>0. /\ stop = "sweep" /\ member = Stop!NoMember /\ todo' = todo \ {m}
      /\ owed' \subseteq owed
      /\ UNCHANGED <<Stop!kernel, Stop!registry, killed, hit, stop, target, pin, edges, cage, listed,
                     forced, Stop!pruner, unread, Stop!reuse>>
  BY DEF Stop!OpenMember, Stop!MissMember
<1>1. m \in Stop!Named /\ m.pid \in Pids /\ m.start \in Stop!Processes /\ m.start # 0
  BY NamedParts DEF Stop!Inv, Stop!TypeOK
<1>2. \/ member' = Stop!NoMember
      \/ /\ member' \in [pid : Pids, start : Stop!Processes, pin : Stop!Processes]
         /\ member'.pid = m.pid /\ member'.start = m.start /\ member'.pin = who[m.pid]
  BY <1>1, NamedParts DEF Stop!OpenMember, Stop!MissMember, Stop!Inv
<1>3. Stop!TypeOK'
  BY <1>0, <1>2, StopperTypes DEF Stop!Inv, Stop!TypeOK
<1>4. Stop!PinnedIsNamed'
  BY <1>0, <1>2 DEF Stop!Inv, Stop!PinnedIsNamed
<1>5. Stop!InOrder' /\ Stop!MembersKilled' /\ Stop!ForgetsTheDead'
  BY <1>0 DEF Stop!Inv, Stop!InOrder, Stop!MembersKilled, Stop!ForgetsTheDead, Stop!Gone
<1>6. Stop!NoneLeftOut'
  <2>1. ~forced => Stop!NoneLeftOut'
    BY <1>0 DEF Stop!Inv, Stop!NoneLeftOut, Stop!Gone
  <2>2. ASSUME forced, NEW x \in owed'
        PROVE  \/ x \in todo' \/ Stop!Gone(x) \/ x.start \in killed
               \/ member'.pid = x.pid /\ member'.start = x.start
    <3>1. x \in Stop!Named /\ x.start # 0 /\ x \in owed
      BY <1>0, NamedParts DEF Stop!Inv, Stop!TypeOK
    <3>2. x \in todo \/ Stop!Gone(x) \/ x.start \in killed
      BY <1>0, <2>2, <3>1 DEF Stop!Inv, Stop!NoneLeftOut, Stop!NoMember
    <3>3. x = m => Stop!Gone(m) \/ (member'.pid = m.pid /\ member'.start = m.start)
      <4>1. CASE Stop!OpenMember(m)
        BY <1>1, <4>1 DEF Stop!OpenMember, Stop!Gone
      <4>2. CASE Stop!MissMember(m)
        <5>1. owed' = owed \ {m}
          BY <2>2, <4>2 DEF Stop!MissMember
        <5>. QED
          BY <2>2, <5>1
      <4>. QED
        BY <4>1, <4>2
    <3>. QED
      BY <1>0, <3>2, <3>3
  <2>3. forced => Stop!NoneLeftOut'
    BY <1>0, <2>2 DEF Stop!NoneLeftOut, Stop!Gone
  <2>. QED
    BY <2>1, <2>3
<1>. QED
  BY <1>0, <1>3, <1>4, <1>5, <1>6, StopperInv

(* What a member's descriptor refers to is signalled, where its start time *)
(* is the one found: the SIGKILL sweep kills it.                           *)
LEMMA SignalInv ==
  ASSUME Stop!Inv, Stop!SignalMember
  PROVE  Stop!Inv'
<1>. DEFINE reached == {s \in {member.pin} : Stop!Matches /\ Stop!Exists(s)}
<1>0. /\ stop = "sweep" /\ member # Stop!NoMember /\ member' = Stop!NoMember
      /\ hit' = hit \cup reached
      /\ killed' = IF forced THEN killed \cup reached ELSE killed
      /\ UNCHANGED <<Stop!kernel, Stop!registry, stop, target, pin, edges, cage, listed, owed, todo,
                     forced, Stop!pruner, unread, Stop!reuse>>
  BY DEF Stop!SignalMember
<1>1. member \in [pid : Pids, start : Stop!Processes, pin : Stop!Processes]
  BY <1>0 DEF Stop!Inv, Stop!TypeOK
<1>2. reached \subseteq Stop!Processes
  BY <1>1
<1>3. Stop!Matches => member.start \in reached
  <2>1. Stop!Matches => Stop!Exists(member.start) /\ member.pin = member.start
    BY <1>0, <1>1 DEF Stop!Matches, Stop!Exists, Stop!Inv, Stop!PinnedIsNamed
  <2>. QED
    BY <2>1
<1>. HIDE DEF reached
<1>4. Stop!TypeOK'
  BY <1>0, <1>2, StopperTypes DEF Stop!Inv, Stop!TypeOK
<1>5. Stop!PinnedIsNamed' /\ Stop!InOrder' /\ Stop!MembersKilled'
  BY <1>0 DEF Stop!Inv, Stop!PinnedIsNamed, Stop!InOrder, Stop!MembersKilled
<1>6. Stop!ForgetsTheDead'
  BY <1>0 DEF Stop!Inv, Stop!ForgetsTheDead, Stop!Gone
<1>7. Stop!NoneLeftOut'
  <2>1. ~forced => Stop!NoneLeftOut'
    BY <1>0 DEF Stop!Inv, Stop!NoneLeftOut, Stop!Gone
  <2>2. ASSUME forced, NEW x \in owed
        PROVE  x \in todo \/ Stop!Gone(x) \/ x.start \in killed'
    <3>1. \/ x \in todo \/ Stop!Gone(x) \/ x.start \in killed
          \/ member.pid = x.pid /\ member.start = x.start
      BY <1>0, <2>2 DEF Stop!Inv, Stop!NoneLeftOut
    <3>2. member.pid = x.pid /\ member.start = x.start => Stop!Gone(x) \/ x.start \in killed'
      BY <1>0, <1>3, <2>2 DEF Stop!Matches, Stop!Gone
    <3>. QED
      BY <1>0, <3>1, <3>2
  <2>3. forced => Stop!NoneLeftOut'
    BY <1>0, <2>2 DEF Stop!NoneLeftOut, Stop!Gone
  <2>. QED
    BY <2>1, <2>3
<1>. QED
  BY <1>0, <1>4, <1>5, <1>6, <1>7, StopperInv

(* The process is killed if it still runs, and the members are swept.      *)
LEMMA ForceInv ==
  ASSUME Stop!Inv, Stop!ForceKill \/ Stop!Swept
  PROVE  Stop!Inv'
<1>0. /\ stop = "sweep" /\ todo = {} /\ member = Stop!NoMember
      /\ UNCHANGED <<Stop!kernel, Stop!registry, hit, target, pin, edges, cage, listed, owed, member,
                     Stop!pruner, unread, Stop!reuse>>
      /\ \/ /\ ~forced /\ forced' = TRUE /\ todo' = cage /\ stop' = stop
            /\ killed' = IF Stop!Exists(pin) /\ pin \notin zombies THEN killed \cup {pin} ELSE killed
         \/ forced /\ forced' = forced /\ todo' = todo /\ stop' = "forget" /\ killed' = killed
  <2>1. CASE Stop!ForceKill
    BY <2>1 DEF Stop!ForceKill
  <2>2. CASE Stop!Swept
    BY <2>2 DEF Stop!Swept
  <2>. QED
    BY <2>1, <2>2
<1>1. /\ target \in Stop!Named /\ pin = target.start /\ pin \in Stop!Processes /\ target.pid \in Pids
  BY <1>0, NamedParts DEF Stop!Inv, Stop!TypeOK, Stop!PinnedIsNamed
<1>2. killed \subseteq killed' /\ killed' \subseteq Stop!Processes
  BY <1>0, <1>1 DEF Stop!Inv, Stop!TypeOK
<1>3. Stop!TypeOK'
  <2>1. forced' \in BOOLEAN
    BY <1>0 DEF Stop!Inv, Stop!TypeOK
  <2>. QED
    BY <1>0, <1>1, <1>2, <2>1, StopperTypes DEF Stop!Inv, Stop!TypeOK
<1>4. Stop!PinnedIsNamed'
  BY <1>0 DEF Stop!Inv, Stop!PinnedIsNamed
<1>5. Stop!InOrder'
  BY <1>0 DEF Stop!Inv, Stop!InOrder
<1>6. Stop!ForgetsTheDead'
  <2>1. CASE ~forced
    BY <1>0, <1>1, <2>1 DEF Stop!ForgetsTheDead, Stop!Gone, Stop!Exists
  <2>2. CASE forced
    BY <1>0, <2>2 DEF Stop!Inv, Stop!ForgetsTheDead, Stop!Gone
  <2>. QED
    BY <2>1, <2>2
<1>7. Stop!NoneLeftOut' /\ Stop!MembersKilled'
  <2>1. CASE ~forced
    BY <1>0, <1>2, <2>1 DEF Stop!Inv, Stop!NoneLeftOut, Stop!MembersKilled, Stop!Gone
  <2>2. CASE forced
    <3>1. \A x \in owed : Stop!Gone(x) \/ x.start \in killed
      <4>. SUFFICES ASSUME NEW x \in owed PROVE Stop!Gone(x) \/ x.start \in killed
        OBVIOUS
      <4>1. x.start # 0
        BY NamedParts DEF Stop!Inv, Stop!TypeOK
      <4>. QED
        BY <1>0, <2>2, <4>1 DEF Stop!Inv, Stop!NoneLeftOut, Stop!NoMember
    <3>. QED
      BY <1>0, <2>2, <3>1 DEF Stop!NoneLeftOut, Stop!MembersKilled, Stop!Gone
  <2>. QED
    BY <2>1, <2>2
<1>. QED
  BY <1>0, <1>2, <1>3, <1>4, <1>5, <1>6, <1>7, StopperInv

(* The stop ends, with the record or, with no descriptor, without it.      *)
LEMMA ForgetInv ==
  ASSUME Stop!Inv, Stop!OpenRefused \/ Stop!Forget
  PROVE  Stop!Inv'
<1>0. /\ UNCHANGED <<Stop!kernel, recorded, killed, edges, listed, todo, member, Stop!pruner, unread>>
      /\ stop' = "idle" /\ pin' = 0 /\ hit' = {} /\ cage' = {} /\ owed' = {} /\ forced' = FALSE
      /\ freed' = {} /\ slipped' = FALSE
      /\ stop \in {"open", "forget"} /\ target \in Stop!Named
  BY DEF Stop!OpenRefused, Stop!Forget, Stop!Ends, Stop!Inv, Stop!TypeOK
<1>1. listed = {} /\ edges = {} /\ member = Stop!NoMember
  BY <1>0 DEF Stop!Inv, Stop!InOrder
<1>2. todo = {}
  BY <1>0 DEF Stop!Inv, Stop!InOrder
<1>3. /\ Stop!RunningIsRecorded'
      /\ DOMAIN records' \subseteq DOMAIN records
      /\ \A n \in DOMAIN records' : records'[n] = records[n]
  <2>1. CASE Stop!OpenRefused
    BY <2>1 DEF Stop!OpenRefused, Stop!Inv, Stop!RunningIsRecorded, Stop!Running, Stop!Member
  <2>2. CASE Stop!Forget
    <3>1. Stop!Gone(target) \/ target.start \in killed \cup unread
      BY <2>2 DEF Stop!Forget, Stop!Inv, Stop!ForgetsTheDead
    <3>. QED
      BY <1>0, <2>2, <3>1, RemovedRecord DEF Stop!Forget
  <2>. QED
    BY <2>1, <2>2
<1>4. Stop!TypeOK'
  <2>1. Stop!Processes' = Stop!Processes /\ Stop!Named' = Stop!Named
    BY <1>0 DEF Stop!Processes, Stop!Named
  <2>2. forced' \in BOOLEAN /\ slipped' \in BOOLEAN
    BY <1>0
  <2>3. pin' \in 0 .. born'
    <3>1. born \in Nat /\ born' = born /\ pin' = 0
      BY <1>0 DEF Stop!Inv, Stop!TypeOK
    <3>. QED
      BY <3>1
  <2>. QED
    BY <1>0, <1>3, <2>1, <2>2, <2>3 DEF Stop!Inv, Stop!TypeOK
<1>5. Stop!OneNumberEach'
  BY <1>0 DEF Stop!Inv, Stop!OneNumberEach
<1>6. Stop!RecordsAreNamed'
  BY <1>0, <1>3 DEF Stop!Inv, Stop!RecordsAreNamed, Stop!Gone
<1>7. /\ Stop!PinnedIsNamed' /\ Stop!InOrder' /\ Stop!NoneLeftOut'
      /\ Stop!ForgetsTheDead' /\ Stop!MembersKilled'
  BY <1>0, <1>1, <1>2
     DEF Stop!PinnedIsNamed, Stop!InOrder, Stop!NoneLeftOut, Stop!ForgetsTheDead, Stop!MembersKilled
<1>. QED
  BY <1>3, <1>4, <1>5, <1>6, <1>7 DEF Stop!Inv

(* Every step of a launcher, the registry and a stop keeps the invariant.   *)
LEMMA NextInv ==
  ASSUME Stop!Inv, [Stop!Next]_(Stop!vars)
  PROVE  Stop!Inv'
<1>1. CASE UNCHANGED Stop!vars
  <2>1. /\ UNCHANGED <<Stop!kernel, Stop!registry, killed, Stop!pruner, unread, Stop!reuse>>
        /\ UNCHANGED Stop!stopper
    BY <1>1 DEF Stop!vars
  <2>2. Stop!TypeOK'
    <3>1. Stop!Processes' = Stop!Processes /\ Stop!Named' = Stop!Named
      BY <2>1 DEF Stop!Processes, Stop!Named
    <3>. QED
      BY <2>1, <3>1 DEF Stop!Inv, Stop!TypeOK
  <2>3. Stop!PinnedIsNamed' /\ Stop!InOrder' /\ Stop!MembersKilled'
    BY <2>1 DEF Stop!Inv, Stop!PinnedIsNamed, Stop!InOrder, Stop!MembersKilled
  <2>4. Stop!NoneLeftOut' /\ Stop!ForgetsTheDead'
    BY <2>1 DEF Stop!Inv, Stop!NoneLeftOut, Stop!ForgetsTheDead, Stop!Gone
  <2>. QED
    BY <2>1, <2>2, <2>3, <2>4, StopperInv
<1>2. ASSUME NEW p \in Pids, NEW q \in Pids \cup {0}, NEW of \in 0 .. born + 1, Stop!Fork(p, q, of)
      PROVE  Stop!Inv'
  BY <1>2, ForkInv
<1>3. ASSUME NEW p \in Pids,
             \/ Stop!Register(p) \/ Stop!Exit(p) \/ Stop!Reap(p)
             \/ Stop!ReadStat(p) \/ Stop!ReadStart(p) \/ Stop!LeaveOut(p)
      PROVE  Stop!Inv'
  BY <1>3, RegisterInv, EndInv, FindInv
<1>4. ASSUME NEW name \in DOMAIN records, Stop!Judge(name) \/ Stop!Choose(name)
      PROVE  Stop!Inv'
  BY <1>4, PruneInv, ConfirmInv
<1>5. CASE Stop!PidIsLive \/ Stop!StartMatches \/ Stop!StartUnread \/ Stop!Remove
  BY <1>5, PruneInv, RemoveInv
<1>6. CASE \/ Stop!Open \/ Stop!OpenRefused \/ Stop!Confirm \/ Stop!ConfirmUnread
           \/ Stop!WalkDescendants \/ Stop!ListScope \/ Stop!SigTerm
  BY <1>6, ConfirmInv, ForgetInv, FindInv, SigTermInv
<1>7. CASE \E m \in todo : Stop!OpenMember(m) \/ Stop!MissMember(m)
  BY <1>7, MemberInv
<1>8. CASE Stop!SignalMember \/ Stop!ForceKill \/ Stop!Swept \/ Stop!Forget
  BY <1>8, SignalInv, ForceInv, ForgetInv
<1>. QED
  BY <1>1, <1>2, <1>3, <1>4, <1>5, <1>6, <1>7, <1>8 DEF Stop!Next

(* A number either names the same process after a step of the kernel, or   *)
(* was free all along, or is given up; and of whom a process is stays.     *)
LEMMA KernelNumbers ==
  ASSUME Stop!Inv, ~slipped', NEW p \in Pids,
         \/ \E q \in Pids \cup {0}, of \in 0 .. born + 1 : Stop!Fork(p, q, of)
         \/ Stop!Exit(p) \/ Stop!Reap(p)
  PROVE  /\ UNCHANGED Stop!stopper /\ ~slipped /\ freed \subseteq freed'
         /\ \A s \in Stop!Processes : Stop!UnderItsNumber(s)' <=> Stop!UnderItsNumber(s)
         /\ stop \in {"subtree", "scope", "starts"} =>
              \A k \in Pids : \/ who'[k] = who[k]
                              \/ who[k] = 0 /\ k \notin freed
                              \/ who'[k] = 0 /\ k \in freed'
<1>1. ASSUME NEW q \in Pids \cup {0}, NEW of \in 0 .. born + 1, Stop!Fork(p, q, of)
      PROVE  /\ UNCHANGED Stop!stopper /\ ~slipped /\ freed' = freed /\ p \notin freed
             /\ who[p] = 0 /\ \A k \in Pids : k # p => who'[k] = who[k]
             /\ \A s \in Stop!Processes : Stop!UnderItsNumber(s)' <=> Stop!UnderItsNumber(s)
  <2>1. UNCHANGED Stop!stopper /\ ~slipped /\ freed' = freed /\ p \notin freed
    BY <1>1 DEF Stop!Fork
  <2>2. /\ who[p] = 0 /\ \A k \in Pids : k # p => who'[k] = who[k]
        /\ \A s \in Stop!Processes : launcher'[s] = launcher[s] /\ num'[s] = num[s]
    BY <1>1, ForkKeeps DEF Stop!Inv
  <2>3. \A s \in Stop!Processes : launcher[s] # 0 => launcher[s] \in Stop!Processes
    <3>1. launcher \in [Stop!Processes -> 0 .. born] /\ Stop!Processes = 1 .. born /\ born \in Nat
      BY DEF Stop!Inv, Stop!TypeOK, Stop!Processes
    <3>. QED
      BY <3>1
  <2>. QED
    BY <2>1, <2>2, <2>3 DEF Stop!UnderItsNumber
<1>2. CASE Stop!Exit(p)
  BY <1>2 DEF Stop!Exit, Stop!UnderItsNumber
<1>3. CASE Stop!Reap(p)
  <2>1. /\ UNCHANGED <<launcher, num>> /\ UNCHANGED Stop!stopper /\ slipped' = slipped
        /\ freed \subseteq freed'
    BY <1>3 DEF Stop!Reap
  <2>2. ASSUME NEW k \in Pids PROVE who'[k] = who[k] \/ (k = p /\ who'[k] = 0)
    BY <1>3 DEF Stop!Reap, Stop!Inv, Stop!TypeOK
  <2>3. stop \in {"subtree", "scope", "starts"} => p \in freed'
    BY <1>3 DEF Stop!Reap
  <2>. QED
    BY <2>1, <2>2, <2>3 DEF Stop!UnderItsNumber
<1>. QED
  BY <1>1, <1>2, <1>3

(* So what was read while looking for members still fits.                  *)
LEMMA FoundThroughKernel ==
  ASSUME Stop!Inv, Stop!ReadAsOne, Stop!MembersAreItsOwn, ~slipped', NEW p \in Pids,
         \/ \E q \in Pids \cup {0}, of \in 0 .. born + 1 : Stop!Fork(p, q, of)
         \/ Stop!Exit(p) \/ Stop!Reap(p)
  PROVE  Stop!ReadAsOne' /\ Stop!MembersAreItsOwn'
<1>1. /\ UNCHANGED Stop!stopper /\ freed \subseteq freed'
      /\ \A s \in Stop!Processes : Stop!UnderItsNumber(s)' <=> Stop!UnderItsNumber(s)
  BY KernelNumbers
<1>2. stop \in {"subtree", "starts"} =>
        \A k \in Pids : \/ who'[k] = who[k]
                        \/ who[k] = 0 /\ k \notin freed
                        \/ who'[k] = 0 /\ k \in freed'
  BY KernelNumbers
<1>3. \A k \in Pids : who[k] # 0 => who[k] \in Stop!Processes
  BY NamedParts DEF Stop!Inv
<1>4. ASSUME NEW k \in Pids, who[k] # 0, who'[k] = who[k]
      PROVE  Stop!UnderItsNumber(who[k])' <=> Stop!UnderItsNumber(who[k])
  BY <1>1, <1>3, <1>4 DEF Stop!UnderItsNumber
<1>5. Stop!ReadAsOne'
  <2>. SUFFICES ASSUME stop = "subtree" PROVE Stop!ReadAsOne'
    BY <1>1 DEF Stop!ReadAsOne
  <2>1. \A k \in Pids, s \in Stop!Processes : Stop!StillNames(k, s) => Stop!StillNames(k, s)'
    <3>. SUFFICES ASSUME NEW k \in Pids, NEW s \in Stop!Processes, Stop!StillNames(k, s)
                  PROVE  Stop!StillNames(k, s)'
      OBVIOUS
    <3>1. s # 0
      BY NamedParts DEF Stop!Inv
    <3>. QED
      BY <1>1, <1>2, <3>1 DEF Stop!StillNames
  <2>2. target.pid \in Pids /\ target.start \in Stop!Processes
    BY NamedParts DEF Stop!Inv, Stop!TypeOK
  <2>3. \A e \in edges : /\ e.pid \in Pids /\ e.start \in Stop!Processes
                         /\ e.ppid # 0 => e.ppid \in Pids
    BY DEF Stop!Inv, Stop!TypeOK
  <2>4. ASSUME NEW e \in edges, e.ppid # 0
        PROVE  \/ who'[e.ppid] = 0 /\ e.ppid \in freed'
               \/ /\ who'[e.ppid] # 0
                  /\ Stop!UnderItsNumber(who[e.ppid])' => Stop!UnderItsNumber(e.start)'
    <3>1. CASE who[e.ppid] = 0 /\ e.ppid \in freed
      BY <1>1, <1>2, <2>3, <2>4, <3>1
    <3>2. CASE who[e.ppid] # 0 /\ (Stop!UnderItsNumber(who[e.ppid]) => Stop!UnderItsNumber(e.start))
      BY <1>1, <1>2, <1>4, <2>3, <2>4, <3>2
    <3>. QED
      BY <2>4, <3>1, <3>2 DEF Stop!ReadAsOne
  <2>. QED
    BY <1>1, <2>1, <2>2, <2>3, <2>4 DEF Stop!ReadAsOne
<1>6. Stop!MembersAreItsOwn'
  <2>1. \A m \in cage \cup todo : m.start \in Stop!Processes
    BY NamedParts DEF Stop!Inv, Stop!TypeOK
  <2>2. member # Stop!NoMember => member.start \in Stop!Processes
    BY DEF Stop!Inv, Stop!TypeOK
  <2>3. ASSUME stop = "starts", NEW k \in listed
        PROVE  \/ who'[k] = 0 /\ k \in freed'
               \/ who'[k] # 0 /\ Stop!UnderItsNumber(who[k])'
    <3>1. k \in Pids
      BY DEF Stop!Inv, Stop!TypeOK
    <3>2. CASE who[k] = 0
      BY <1>1, <1>2, <2>3, <3>1, <3>2 DEF Stop!MembersAreItsOwn
    <3>3. CASE who[k] # 0 /\ who'[k] = who[k]
      BY <1>4, <2>3, <3>1, <3>3 DEF Stop!MembersAreItsOwn
    <3>. QED
      BY <1>2, <2>3, <3>1, <3>2, <3>3
  <2>. QED
    BY <1>1, <2>1, <2>2, <2>3 DEF Stop!MembersAreItsOwn
<1>. QED
  BY <1>5, <1>6

(* A parent goes on running, or leaves its children to init.               *)
LEMMA ParentsStay ==
  ASSUME Stop!PidsAssumption, Stop!Inv, Stop!ParentsRun, NEW p \in Pids,
         \/ \E q \in Pids \cup {0}, of \in 0 .. born + 1 : Stop!Fork(p, q, of)
         \/ Stop!Exit(p) \/ Stop!Reap(p)
  PROVE  Stop!ParentsRun'
<1>1. /\ \A k \in Pids : ppid[k] # 0 => ppid[k] \in Pids
      /\ \A k \in Pids : who[k] # 0 => who[k] \in Stop!Processes
      /\ who \in [Pids -> 0 .. born] /\ ppid \in [Pids -> Pids \cup {0}] /\ 0 \notin Pids
  BY NamedParts DEF Stop!Inv, Stop!TypeOK, Stop!PidsAssumption
<1>2. \A k, l \in Pids : who[k] # 0 /\ who[k] = who[l] => k = l
  BY DEF Stop!Inv, Stop!OneNumberEach
<1>3. ASSUME NEW q \in Pids \cup {0}, NEW of \in 0 .. born + 1, Stop!Fork(p, q, of)
      PROVE  Stop!ParentsRun'
  <2>. SUFFICES ASSUME NEW k \in Pids, ppid'[k] # 0
                PROVE  /\ who'[k] # 0 /\ Stop!Running(ppid[k])'
                       /\ launcher'[who'[ppid'[k]]] # 0 =>
                            launcher'[who'[k]] = launcher'[who'[ppid'[k]]]
    BY DEF Stop!ParentsRun
  <2>1. /\ who[p] = 0 /\ who'[p] = born + 1 /\ born \in Nat /\ born + 1 \notin Stop!Processes
        /\ \A l \in Pids : l # p => who'[l] = who[l]
        /\ \A s \in Stop!Processes : launcher'[s] = launcher[s]
        /\ launcher'[born + 1] = of
    BY <1>3, ForkKeeps DEF Stop!Inv
  <2>2. /\ zombies' = zombies /\ ppid' \in {[ppid EXCEPT ![p] = 0], [ppid EXCEPT ![p] = q]}
        /\ q # 0 => Stop!Running(q)
        /\ of \in IF Stop!SessionOf(q) = 0 THEN {0, born + 1} ELSE {Stop!SessionOf(q)}
    BY <1>3 DEF Stop!Fork
  <2>3. CASE k = p
    <3>1. ppid'[k] = q /\ q \in Pids /\ q # p /\ who'[q] = who[q] /\ who[q] # 0
      BY <1>1, <2>1, <2>2, <2>3 DEF Stop!Running
    <3>2. /\ who[q] \in Stop!Processes /\ launcher'[who[q]] = launcher[who[q]]
          /\ launcher[who[q]] # 0 => of = launcher[who[q]]
      BY <1>1, <2>1, <2>2, <3>1 DEF Stop!SessionOf
    <3>. QED
      BY <2>1, <2>2, <2>3, <3>1, <3>2 DEF Stop!Running
  <2>4. CASE k # p
    <3>1. ppid'[k] = ppid[k] /\ who'[k] = who[k] /\ ppid[k] \in Pids
      BY <1>1, <2>1, <2>2, <2>4
    <3>2. /\ who[k] # 0 /\ Stop!Running(ppid[k])
          /\ launcher[who[ppid[k]]] # 0 => launcher[who[k]] = launcher[who[ppid[k]]]
      BY <3>1 DEF Stop!ParentsRun
    <3>3. ppid[k] # p /\ who'[ppid[k]] = who[ppid[k]]
      BY <2>1, <3>1, <3>2 DEF Stop!Running
    <3>. QED
      BY <1>1, <2>1, <2>2, <3>1, <3>2, <3>3 DEF Stop!Running
  <2>. QED
    BY <2>3, <2>4
<1>4. CASE Stop!Exit(p)
  <2>1. /\ who' = who /\ launcher' = launcher /\ zombies' = zombies \cup {who[p]}
        /\ ppid' = [k \in Pids |-> IF ppid[k] = p THEN 0 ELSE ppid[k]]
    BY <1>4 DEF Stop!Exit
  <2>. SUFFICES ASSUME NEW k \in Pids, ppid'[k] # 0
                PROVE  /\ who'[k] # 0 /\ Stop!Running(ppid[k])'
                       /\ launcher'[who'[ppid'[k]]] # 0 =>
                            launcher'[who'[k]] = launcher'[who'[ppid'[k]]]
    BY DEF Stop!ParentsRun
  <2>2. ppid[k] # 0 /\ ppid'[k] = ppid[k] /\ ppid[k] # p /\ ppid[k] \in Pids
    BY <1>1, <2>1
  <2>3. /\ who[k] # 0 /\ who[ppid[k]] # 0 /\ who[ppid[k]] \notin zombies
        /\ launcher[who[ppid[k]]] # 0 => launcher[who[k]] = launcher[who[ppid[k]]]
    BY <2>2 DEF Stop!ParentsRun, Stop!Running
  <2>4. who[ppid[k]] # who[p]
    BY <1>2, <2>2, <2>3
  <2>. QED
    BY <2>1, <2>2, <2>3, <2>4 DEF Stop!Running
<1>5. CASE Stop!Reap(p)
  <2>1. /\ who' = [who EXCEPT ![p] = 0] /\ launcher' = launcher
        /\ zombies' = zombies \ {who[p]} /\ ppid' = [ppid EXCEPT ![p] = 0]
        /\ who[p] \in zombies
    BY <1>5 DEF Stop!Reap
  <2>2. \A k \in Pids : ppid[k] # p
    BY <1>1, <2>1 DEF Stop!ParentsRun, Stop!Running
  <2>. SUFFICES ASSUME NEW k \in Pids, ppid'[k] # 0
                PROVE  /\ who'[k] # 0 /\ Stop!Running(ppid[k])'
                       /\ launcher'[who'[ppid'[k]]] # 0 =>
                            launcher'[who'[k]] = launcher'[who'[ppid'[k]]]
    BY DEF Stop!ParentsRun
  <2>3. k # p /\ ppid[k] # 0 /\ ppid'[k] = ppid[k] /\ ppid[k] # p /\ ppid[k] \in Pids
    BY <1>1, <2>1, <2>2
  <2>4. who'[k] = who[k] /\ who'[ppid[k]] = who[ppid[k]]
    BY <1>1, <2>1, <2>3
  <2>. QED
    BY <2>1, <2>3, <2>4 DEF Stop!ParentsRun, Stop!Running
<1>. QED
  BY <1>3, <1>4, <1>5

(* What a stop reads of /proc joins what it read before; what it walks     *)
(* down from the launcher's number, and what it lists, is of that number.  *)
LEMMA ReadingJoins ==
  ASSUME Stop!PidsAssumption, Stop!Inv, Stop!ParentsRun, Stop!ReadAsOne,
         NEW p \in Pids, Stop!ReadStat(p)
  PROVE  Stop!ReadAsOne'
<1>. DEFINE new == [pid |-> p, ppid |-> ppid[p], start |-> who[p]]
<1>1. /\ stop = "subtree" /\ p \in listed /\ listed' = listed \ {p}
      /\ edges' = edges \/ (who[p] # 0 /\ edges' = edges \cup {new})
      /\ UNCHANGED <<Stop!kernel, target, freed>>
  BY DEF Stop!ReadStat
<1>2. CASE edges' = edges
  BY <1>1, <1>2 DEF Stop!ReadAsOne, Stop!StillNames, Stop!UnderItsNumber
<1>3. CASE who[p] # 0 /\ edges' = edges \cup {new}
  <2>1. ppid[p] # 0 =>
          /\ ppid[p] \in Pids /\ who[ppid[p]] # 0
          /\ Stop!UnderItsNumber(who[ppid[p]]) => Stop!UnderItsNumber(who[p])
    BY DEF Stop!ParentsRun, Stop!Running, Stop!UnderItsNumber, Stop!Inv, Stop!TypeOK
  <2>2. /\ Stop!UnderItsNumber(target.start) /\ target.pid \in Pids /\ target.pid # 0
        /\ target.start # 0
    BY <1>1, NamedParts
       DEF Stop!Inv, Stop!TypeOK, Stop!PinnedIsNamed, Stop!RecordsAreNamed, Stop!UnderItsNumber,
           Stop!PidsAssumption
  <2>3. \A e \in edges : e.pid \in Pids /\ e.pid # 0 /\ e.start # 0
    BY NamedParts DEF Stop!Inv, Stop!TypeOK, Stop!PidsAssumption
  <2>4. ppid[p] = target.pid => Stop!UnderItsNumber(who[p])
    BY <1>1, <2>1, <2>2 DEF Stop!ReadAsOne, Stop!StillNames
  <2>5. \A f \in edges : ppid[p] = f.pid /\ Stop!UnderItsNumber(f.start) => Stop!UnderItsNumber(who[p])
    BY <1>1, <2>1, <2>3 DEF Stop!ReadAsOne, Stop!StillNames
  <2>6. \A e \in edges : /\ e.pid # p
                         /\ e.ppid = p /\ Stop!UnderItsNumber(who[p]) => Stop!UnderItsNumber(e.start)
    <3>1. p # 0
      BY DEF Stop!PidsAssumption
    <3>. QED
      BY <1>1, <1>3, <3>1 DEF Stop!ReadAsOne
  <2>7. /\ new.pid = p /\ new.ppid = ppid[p] /\ new.start = who[p]
        /\ \A e \in edges' : e \in edges \/ e = new
    BY <1>3
  <2>8. \A s : Stop!UnderItsNumber(s)' <=> Stop!UnderItsNumber(s)
    BY <1>1 DEF Stop!UnderItsNumber
  <2>9. \A k, s : Stop!StillNames(k, s)' <=> Stop!StillNames(k, s)
    BY <1>1 DEF Stop!StillNames
  <2>. HIDE DEF new
  <2>10. \A e \in edges' :
           /\ e.pid \notin listed' /\ Stop!StillNames(e.pid, e.start)
           /\ e.ppid = target.pid => Stop!UnderItsNumber(e.start)
           /\ e.ppid # 0 => \/ who[e.ppid] = 0 /\ e.ppid \in freed
                            \/ /\ who[e.ppid] # 0
                               /\ Stop!UnderItsNumber(who[e.ppid]) => Stop!UnderItsNumber(e.start)
    BY <1>1, <2>1, <2>4, <2>7 DEF Stop!ReadAsOne, Stop!StillNames
  <2>11. \A e, f \in edges' :
           /\ e.pid = f.pid => e = f
           /\ e.ppid = f.pid /\ Stop!UnderItsNumber(f.start) => Stop!UnderItsNumber(e.start)
    BY <1>1, <2>5, <2>6, <2>7 DEF Stop!ReadAsOne
  <2>12. Stop!StillNames(target.pid, target.start)
    BY <1>1 DEF Stop!ReadAsOne
  <2>. QED
    BY <1>1, <2>8, <2>9, <2>10, <2>11, <2>12 DEF Stop!ReadAsOne
<1>. QED
  BY <1>1, <1>2, <1>3

LEMMA DescendantsAreItsOwn ==
  ASSUME Stop!Inv, Stop!ReadAsOne, stop = "subtree", NEW e \in Stop!Descendants
  PROVE  Stop!UnderItsNumber(e.start)
<1>. DEFINE below == {target.pid} \cup
                     {p \in Pids : \E f \in edges : f.pid = p /\ Stop!UnderItsNumber(f.start)}
<1>1. target.pid \in Pids /\ \A f \in edges : f.pid \in Pids
  BY NamedParts DEF Stop!Inv, Stop!TypeOK
<1>2. below \in SUBSET Pids /\ target.pid \in below
  BY <1>1
<1>3. Stop!Closed(below)
  <2>. SUFFICES ASSUME NEW f \in edges, f.ppid \in below PROVE f.pid \in below
    BY DEF Stop!Closed
  <2>1. Stop!UnderItsNumber(f.start)
    BY DEF Stop!ReadAsOne
  <2>. QED
    BY <1>1, <2>1
<1>4. e \in edges /\ e.pid # target.pid /\ e.pid \in below
  BY <1>2, <1>3 DEF Stop!Descendants
<1>5. PICK f \in edges : f.pid = e.pid /\ Stop!UnderItsNumber(f.start)
  BY <1>4
<1>6. f = e
  BY <1>4, <1>5 DEF Stop!ReadAsOne
<1>. QED
  BY <1>5, <1>6

(* Whom a stop's own step finds is of the launcher's number, if those      *)
(* found before are.                                                       *)
LEMMA FoundByStop ==
  ASSUME Stop!PidsAssumption, Stop!Inv, Stop!ParentsRun, Stop!ReadAsOne,
         Stop!MembersAreItsOwn, UNCHANGED Stop!kernel,
         \/ UNCHANGED <<Stop!stopper, Stop!reuse>>
         \/ \E name \in DOMAIN records : Stop!Choose(name)
         \/ Stop!Open \/ Stop!Confirm \/ Stop!ConfirmUnread
         \/ (\E p \in Pids : Stop!ReadStat(p) \/ Stop!ReadStart(p) \/ Stop!LeaveOut(p))
         \/ Stop!WalkDescendants \/ Stop!ListScope
         \/ Stop!SigTerm \/ (\E m \in todo : Stop!OpenMember(m) \/ Stop!MissMember(m))
         \/ Stop!SignalMember \/ Stop!ForceKill \/ Stop!Swept
  PROVE  Stop!ReadAsOne' /\ Stop!MembersAreItsOwn'
<1>1. CASE UNCHANGED <<Stop!stopper, Stop!reuse>>
  BY <1>1 DEF Stop!ReadAsOne, Stop!StillNames, Stop!MembersAreItsOwn, Stop!UnderItsNumber
<1>2. CASE \/ \E name \in DOMAIN records : Stop!Choose(name)
           \/ Stop!Open \/ Stop!Confirm \/ Stop!ConfirmUnread
  <2>1. /\ cage = {} /\ todo = {} /\ member = Stop!NoMember /\ edges = {}
        /\ UNCHANGED <<cage, todo, member, edges, freed>> /\ stop' # "starts"
        /\ stop' = "subtree" => target' = target /\ who[target.pid] = target.start
    BY <1>2 DEF Stop!Choose, Stop!Open, Stop!Confirm, Stop!ConfirmUnread, Stop!Inv, Stop!InOrder
  <2>. QED
    BY <2>1 DEF Stop!ReadAsOne, Stop!StillNames, Stop!MembersAreItsOwn
<1>3. ASSUME NEW p \in Pids, Stop!ReadStat(p) PROVE Stop!ReadAsOne' /\ Stop!MembersAreItsOwn'
  <2>1. /\ stop = "subtree" /\ stop' = "subtree"
        /\ UNCHANGED <<target, cage, todo, member>>
    BY <1>3 DEF Stop!ReadStat
  <2>2. Stop!MembersAreItsOwn'
    BY <2>1 DEF Stop!MembersAreItsOwn, Stop!UnderItsNumber
  <2>. QED
    BY <1>3, <2>2, ReadingJoins
<1>4. CASE Stop!WalkDescendants
  <2>1. /\ stop = "subtree" /\ stop' = "scope"
        /\ UNCHANGED <<target, todo, member>>
        /\ \A m \in cage' : \E e \in Stop!Descendants : m.start = e.start
    BY <1>4 DEF Stop!WalkDescendants
  <2>2. \A m \in cage' : Stop!UnderItsNumber(m.start)
    BY <2>1, DescendantsAreItsOwn
  <2>. QED
    BY <2>1, <2>2 DEF Stop!ReadAsOne, Stop!MembersAreItsOwn, Stop!UnderItsNumber
<1>5. CASE Stop!ListScope
  <2>1. /\ stop' = "starts" /\ UNCHANGED <<target, cage, todo, member>>
        /\ listed' \subseteq Stop!InScopeOf(target.pid)
    BY <1>5 DEF Stop!ListScope
  <2>2. \A p \in listed' : who[p] # 0 /\ Stop!UnderItsNumber(who[p])
    BY <2>1 DEF Stop!InScopeOf, Stop!Running, Stop!UnderItsNumber
  <2>. QED
    BY <2>1, <2>2 DEF Stop!ReadAsOne, Stop!MembersAreItsOwn, Stop!UnderItsNumber
<1>6. ASSUME NEW p \in Pids, Stop!ReadStart(p) \/ Stop!LeaveOut(p)
      PROVE  Stop!ReadAsOne' /\ Stop!MembersAreItsOwn'
  <2>1. /\ stop = "starts" /\ stop' = "starts" /\ p \in listed /\ listed' \subseteq listed
        /\ UNCHANGED <<target, todo, member, freed>>
        /\ \A m \in cage' : m \in cage \/ (who[p] # 0 /\ m.start = who[p])
    BY <1>6 DEF Stop!ReadStart, Stop!LeaveOut, Stop!Union, Stop!Member
  <2>. QED
    BY <2>1 DEF Stop!ReadAsOne, Stop!MembersAreItsOwn, Stop!UnderItsNumber
<1>7. CASE \/ Stop!SigTerm \/ (\E m \in todo : Stop!OpenMember(m) \/ Stop!MissMember(m))
           \/ Stop!SignalMember \/ Stop!ForceKill \/ Stop!Swept
  <2>1. /\ stop' \in {"sweep", "forget"} /\ UNCHANGED <<target, cage>>
        /\ \A m \in todo' : m \in cage \cup todo
        /\ member' # Stop!NoMember => \/ member' = member
                                 \/ \E m \in todo : member'.start = m.start
    BY <1>7
       DEF Stop!SigTerm, Stop!OpenMember, Stop!MissMember, Stop!SignalMember, Stop!ForceKill,
           Stop!Swept
  <2>. QED
    BY <2>1 DEF Stop!ReadAsOne, Stop!MembersAreItsOwn, Stop!UnderItsNumber
<1>. QED
  BY <1>1, <1>2, <1>3, <1>4, <1>5, <1>6, <1>7

(* Whom a stop pins and signals was found.                                 *)
LEMMA SignalsStep ==
  ASSUME Stop!OwnInv, Stop!Inv', [Stop!Next]_(Stop!vars)
  PROVE  Stop!OnlyFound' /\ Stop!SignalsWhatItFound'
<1>. USE DEF Stop!OwnInv
<1>1. /\ hit \subseteq Stop!Processes /\ cage \subseteq Stop!Named
      /\ \A m \in todo : m = [pid |-> m.pid, start |-> m.start]
      /\ stop \in {"sweep", "forget"} \/ hit = {}
      /\ stop = "sweep" \/ (todo = {} /\ member = Stop!NoMember)
  BY DEF Stop!Inv, Stop!TypeOK, Stop!InOrder, Stop!Named
<1>2. ASSUME NEW p \in Pids,
             \/ \E q \in Pids \cup {0}, of \in 0 .. born + 1 : Stop!Fork(p, q, of)
             \/ Stop!Exit(p) \/ Stop!Reap(p)
      PROVE  Stop!OnlyFound' /\ Stop!SignalsWhatItFound'
  <2>1. UNCHANGED Stop!stopper /\ (slipped => slipped')
    <3>1. slipped => slipped'
      <4>1. ASSUME NEW q \in Pids \cup {0}, NEW of \in 0 .. born + 1, Stop!Fork(p, q, of), slipped
            PROVE  slipped'
        BY <4>1, Zenon DEF Stop!Fork
      <4>2. CASE Stop!Exit(p) \/ Stop!Reap(p)
        BY <4>2 DEF Stop!Exit, Stop!Reap
      <4>. QED
        BY <1>2, <4>1, <4>2
    <3>2. UNCHANGED Stop!stopper
      BY <1>2 DEF Stop!Fork, Stop!Exit, Stop!Reap
    <3>. QED
      BY <3>1, <3>2
  <2>2. ~slipped' => \A s \in Stop!Processes : Stop!UnderItsNumber(s)' <=> Stop!UnderItsNumber(s)
    BY <1>2, KernelNumbers
  <2>. QED
    BY <1>1, <2>1, <2>2 DEF Stop!OnlyFound, Stop!SignalsWhatItFound
<1>3. CASE UNCHANGED Stop!vars
  BY <1>3 DEF Stop!vars, Stop!OnlyFound, Stop!SignalsWhatItFound, Stop!UnderItsNumber
<1>4. CASE \/ \E p \in Pids : Stop!Register(p)
           \/ \E name \in DOMAIN records : Stop!Judge(name)
           \/ Stop!PidIsLive \/ Stop!StartMatches \/ Stop!StartUnread \/ Stop!Remove
  <2>1. UNCHANGED <<launcher, num, Stop!stopper, slipped>>
    BY <1>4
       DEF Stop!Register, Stop!Judge, Stop!PidIsLive, Stop!StartMatches, Stop!StartUnread,
           Stop!Remove
  <2>. QED
    BY <2>1 DEF Stop!OnlyFound, Stop!SignalsWhatItFound, Stop!UnderItsNumber
<1>5. CASE \/ \E name \in DOMAIN records : Stop!Choose(name)
           \/ Stop!Open \/ Stop!Confirm \/ Stop!ConfirmUnread \/ Stop!OpenRefused \/ Stop!Forget
           \/ \E p \in Pids : Stop!ReadStat(p) \/ Stop!ReadStart(p) \/ Stop!LeaveOut(p)
           \/ Stop!WalkDescendants \/ Stop!ListScope
  <2>1. /\ stop # "sweep" /\ UNCHANGED <<todo, member>>
        /\ hit' = {} \/ (hit' = hit /\ hit = {})
    BY <1>1, <1>5
       DEF Stop!Choose, Stop!Open, Stop!Confirm, Stop!ConfirmUnread, Stop!OpenRefused,
           Stop!Forget, Stop!Ends, Stop!ReadStat,
                      Stop!ReadStart, Stop!LeaveOut, Stop!WalkDescendants, Stop!ListScope
  <2>. QED
    BY <1>1, <2>1 DEF Stop!OnlyFound, Stop!SignalsWhatItFound
<1>6. CASE Stop!SigTerm
  <2>1. /\ stop = "starts" /\ UNCHANGED <<target, cage, member, launcher, num, slipped>>
        /\ todo' = cage
        /\ \A s \in hit' : s \in hit \/ s = pin
    BY <1>6 DEF Stop!SigTerm
  <2>2. pin = target.start /\ Stop!UnderItsNumber(target.start)
    BY <2>1, NamedParts
       DEF Stop!Inv, Stop!TypeOK, Stop!PinnedIsNamed, Stop!RecordsAreNamed, Stop!UnderItsNumber
  <2>. QED
    BY <1>1, <2>1, <2>2 DEF Stop!OnlyFound, Stop!SignalsWhatItFound, Stop!UnderItsNumber
<1>7. CASE \E m \in todo : Stop!OpenMember(m) \/ Stop!MissMember(m)
  <2>1. PICK m \in todo : Stop!OpenMember(m) \/ Stop!MissMember(m)
    BY <1>7
  <2>2. /\ UNCHANGED <<hit, target, cage, launcher, num, slipped>> /\ todo' \subseteq todo
        /\ member' # Stop!NoMember => member'.start = m.start /\ member'.pid = m.pid
    BY <2>1 DEF Stop!OpenMember, Stop!MissMember
  <2>. QED
    BY <1>1, <2>2 DEF Stop!OnlyFound, Stop!SignalsWhatItFound, Stop!UnderItsNumber
<1>8. CASE Stop!SignalMember
  <2>1. /\ member # Stop!NoMember /\ member' = Stop!NoMember
        /\ UNCHANGED <<target, cage, todo, launcher, num, slipped>>
        /\ \A s \in hit' : s \in hit \/ (s = member.pin /\ Stop!Matches)
    BY <1>8 DEF Stop!SignalMember
  <2>2. Stop!Matches => member.pin = member.start
    BY <2>1 DEF Stop!Matches, Stop!Inv, Stop!PinnedIsNamed
  <2>3. /\ [pid |-> member.pid, start |-> member.start] \in cage
        /\ slipped \/ Stop!UnderItsNumber(member.start)
    BY <2>1 DEF Stop!OnlyFound, Stop!MembersAreItsOwn
  <2>4. \E m \in cage : m.start = member.start
    BY <2>3
  <2>. QED
    BY <2>1, <2>2, <2>3, <2>4 DEF Stop!OnlyFound, Stop!SignalsWhatItFound, Stop!UnderItsNumber
<1>9. CASE Stop!ForceKill \/ Stop!Swept
  <2>1. /\ UNCHANGED <<hit, target, cage, member, launcher, num, slipped>>
        /\ todo' = cage \/ todo' = todo
    BY <1>9 DEF Stop!ForceKill, Stop!Swept
  <2>. QED
    BY <2>1 DEF Stop!OnlyFound, Stop!SignalsWhatItFound, Stop!UnderItsNumber
<1>. QED
  BY <1>2, <1>3, <1>4, <1>5, <1>6, <1>7, <1>8, <1>9 DEF Stop!Next

LEMMA OwnStep ==
  ASSUME Stop!PidsAssumption, Stop!OwnInv, [Stop!Next]_(Stop!vars)
  PROVE  Stop!OwnInv'
<1>1. Stop!Inv'
  BY NextInv DEF Stop!OwnInv
<1>2. Stop!OnlyFound' /\ Stop!SignalsWhatItFound'
  BY <1>1, SignalsStep
<1>3. Stop!ParentsRun' /\ (slipped' \/ (Stop!ReadAsOne' /\ Stop!MembersAreItsOwn'))
  <2>. USE DEF Stop!OwnInv
  <2>1. ASSUME NEW p \in Pids,
               \/ \E q \in Pids \cup {0}, of \in 0 .. born + 1 : Stop!Fork(p, q, of)
               \/ Stop!Exit(p) \/ Stop!Reap(p)
        PROVE  <1>3!:
    <3>1. ~slipped' => ~slipped
      BY <2>1, KernelNumbers
    <3>. QED
      BY <2>1, <3>1, ParentsStay, FoundThroughKernel
  <2>2. CASE UNCHANGED Stop!kernel
    <3>1. Stop!ParentsRun'
      BY <2>2 DEF Stop!ParentsRun, Stop!Running
    <3>2. CASE Stop!OpenRefused \/ Stop!Forget
      <4>1. /\ UNCHANGED <<listed, edges, todo, member>> /\ cage' = {} /\ stop' = "idle"
            /\ stop # "sweep"
        BY <3>2 DEF Stop!OpenRefused, Stop!Forget, Stop!Ends
      <4>2. todo = {} /\ member = Stop!NoMember
        BY <4>1 DEF Stop!Inv, Stop!InOrder
      <4>. QED
        BY <3>1, <4>1, <4>2 DEF Stop!ReadAsOne, Stop!MembersAreItsOwn
    <3>3. CASE \/ UNCHANGED Stop!vars
               \/ \E p \in Pids : Stop!Register(p)
               \/ \E name \in DOMAIN records : Stop!Judge(name)
               \/ Stop!PidIsLive \/ Stop!StartMatches \/ Stop!StartUnread \/ Stop!Remove
      <4>1. UNCHANGED <<Stop!stopper, Stop!reuse>>
        BY <3>3
           DEF Stop!vars, Stop!Register, Stop!Judge, Stop!PidIsLive, Stop!StartMatches,
               Stop!StartUnread, Stop!Remove
      <4>. QED
        BY <2>2, <3>1, <4>1, FoundByStop
    <3>4. CASE \/ \E name \in DOMAIN records : Stop!Choose(name)
               \/ Stop!Open \/ Stop!Confirm \/ Stop!ConfirmUnread
               \/ \E p \in Pids : Stop!ReadStat(p) \/ Stop!ReadStart(p) \/ Stop!LeaveOut(p)
               \/ Stop!WalkDescendants \/ Stop!ListScope
               \/ Stop!SigTerm \/ (\E m \in todo : Stop!OpenMember(m) \/ Stop!MissMember(m))
               \/ Stop!SignalMember \/ Stop!ForceKill \/ Stop!Swept
      <4>1. slipped' = slipped
        BY <3>4
           DEF Stop!Choose, Stop!Open, Stop!Confirm, Stop!ConfirmUnread, Stop!ReadStat,
               Stop!ReadStart, Stop!LeaveOut,
                    Stop!WalkDescendants, Stop!ListScope, Stop!SigTerm, Stop!OpenMember,
                    Stop!MissMember, Stop!SignalMember,
                    Stop!ForceKill, Stop!Swept
      <4>. QED
        BY <2>2, <3>1, <3>4, <4>1, FoundByStop
    <3>5. \/ UNCHANGED Stop!vars
          \/ \E p \in Pids, q \in Pids \cup {0}, of \in 0 .. born + 1 : Stop!Fork(p, q, of)
          \/ \E p \in Pids : Stop!Exit(p) \/ Stop!Reap(p)
          \/ Stop!OpenRefused \/ Stop!Forget
          \/ \E p \in Pids : \/ Stop!Register(p) \/ Stop!ReadStat(p)
                            \/ Stop!ReadStart(p) \/ Stop!LeaveOut(p)
          \/ \E name \in DOMAIN records : Stop!Judge(name) \/ Stop!Choose(name)
          \/ Stop!PidIsLive \/ Stop!StartMatches \/ Stop!StartUnread \/ Stop!Remove
          \/ Stop!Open \/ Stop!Confirm \/ Stop!ConfirmUnread \/ Stop!WalkDescendants \/ Stop!ListScope
          \/ Stop!SigTerm \/ (\E m \in todo : Stop!OpenMember(m) \/ Stop!MissMember(m))
          \/ Stop!SignalMember \/ Stop!ForceKill \/ Stop!Swept
      BY DEF Stop!Next
    <3>. QED
      BY <2>1, <3>2, <3>3, <3>4, <3>5
  <2>3. \/ UNCHANGED Stop!kernel
        \/ \E p \in Pids, q \in Pids \cup {0}, of \in 0 .. born + 1 : Stop!Fork(p, q, of)
        \/ \E p \in Pids : Stop!Exit(p) \/ Stop!Reap(p)
    BY ZenonT(30)
       DEF Stop!Next, Stop!vars, Stop!Register, Stop!Judge, Stop!PidIsLive, Stop!StartMatches,
           Stop!StartUnread, Stop!Remove,
           Stop!Choose, Stop!Open, Stop!OpenRefused, Stop!Confirm, Stop!ConfirmUnread,
           Stop!ReadStat, Stop!WalkDescendants, Stop!ListScope, Stop!ReadStart, Stop!LeaveOut,
           Stop!SigTerm, Stop!OpenMember, Stop!MissMember, Stop!SignalMember,
           Stop!ForceKill, Stop!Swept, Stop!Forget
  <2>. QED
    BY <2>1, <2>2, <2>3
<1>. QED
  BY <1>1, <1>2, <1>3 DEF Stop!OwnInv

(* The invariant of the registry and a stop.                               *)
THEOREM StopInvariance == Stop!Spec => []Stop!Inv
<1>1. Stop!Init => Stop!Inv
  BY InitInv DEF Stop!OwnInv
<1>. QED
  BY <1>1, NextInv, PTL DEF Stop!Spec

(* A running session that was not killed has its record, whatever the      *)
(* pruning walks and the stops judged meanwhile, unless its record or its  *)
(* stat could not be read.                                                 *)
THEOREM RecordedWhileRunning == Stop!Spec => []RunningIsRecorded
<1>1. Stop!Inv => RunningIsRecorded
  BY DEF Stop!Inv, RunningIsRecorded
<1>. QED
  BY <1>1, StopInvariance, PTL

(* A stop that ends has killed every process its two lists named and it    *)
(* could read, also where the start time of another process was read for   *)
(* a listed number.                                                        *)
THEOREM StopKillsMembers == Stop!Spec => []MembersKilled
<1>1. Stop!Inv => MembersKilled
  BY DEF Stop!Inv, MembersKilled
<1>. QED
  BY <1>1, StopInvariance, PTL

(* A stop signals the process of its record and the processes it found,    *)
(* never who has their number now; and while no number given up as it      *)
(* looked went to another process, what it found below the launcher's      *)
(* number and in the scopes of that number belongs to it, though it was    *)
(* read one number at a time.                                              *)
THEOREM StopSignalsWhatItFound == Stop!Spec => []SignalsWhatItFound
<1>1. Stop!OwnInv /\ [Stop!Next]_(Stop!vars) => Stop!OwnInv'
  BY OwnStep, StopAssumption
<1>2. Stop!OwnInv => SignalsWhatItFound
  BY DEF Stop!OwnInv, SignalsWhatItFound
<1>. QED
  BY <1>1, <1>2, InitInv, PTL DEF Stop!Spec

-----------------------------------------------------------------------------
(* AtomicFile.                                                             *)

(* The target leads to a file that is on the device.                       *)
LEMMA FileInitInv == File!Init => File!Inv
<1>. SUFFICES ASSUME File!Init PROVE File!Inv
  OBVIOUS
<1>1. /\ data = <<File!Whole>> /\ Len(data) = 1 /\ data[1] = File!Whole /\ File!Files = {1}
      /\ renamed = <<1>> /\ Len(renamed) = 1 /\ DOMAIN renamed = {1} /\ renamed[1] = 1
  BY DEF File!Init, File!Files
<1>2. File!TypeOK
  <2>1. data \in Seq(SUBSET File!Whole) /\ renamed \in Seq(Nat) /\ renamed # << >>
    BY <1>1
  <2>2. /\ at \in [Writers -> File!Steps]
        /\ mine \in [Writers -> {0} \cup File!Files] /\ temp \in [Writers -> {0} \cup File!Files]
    BY DEF File!Init, File!Steps
  <2>3. onDisk \in 1 .. Len(renamed) /\ settled \in 1 .. onDisk /\ crashes \in Nat
    BY <1>1 DEF File!Init
  <2>4. flushed \subseteq File!Files
    BY <1>1 DEF File!Init
  <2>. QED
    BY <2>1, <2>2, <2>3, <2>4 DEF File!TypeOK
<1>3. File!FlushedIsWhole
  BY <1>1 DEF File!Init, File!FlushedIsWhole
<1>4. File!WrittenInOrder /\ File!NothingLeft
  BY DEF File!Init, File!WrittenInOrder, File!HoldsSoFar, File!NothingLeft, File!Whole
<1>. QED
  BY <1>2, <1>3, <1>4 DEF File!Inv

(* The parts of the state and their shapes.                                *)
LEMMA FileShapes ==
  ASSUME File!TypeOK
  PROVE  /\ Len(data) \in Nat /\ DOMAIN data = File!Files /\ 0 \notin File!Files
         /\ \A f \in File!Files : data[f] \subseteq File!Whole
         /\ Len(renamed) \in Nat \ {0} /\ DOMAIN renamed = 1 .. Len(renamed)
         /\ \A w \in Writers : /\ at[w] \in File!Steps
                               /\ mine[w] # 0 => mine[w] \in File!Files
                               /\ temp[w] # 0 => temp[w] \in File!Files
<1>1. data \in Seq(SUBSET File!Whole) /\ renamed \in Seq(Nat) /\ renamed # << >>
  BY DEF File!TypeOK
<1>2. /\ Len(data) \in Nat /\ DOMAIN data = 1 .. Len(data)
      /\ \A f \in 1 .. Len(data) : data[f] \in SUBSET File!Whole
  BY <1>1
<1>3. Len(renamed) \in Nat \ {0} /\ DOMAIN renamed = 1 .. Len(renamed)
  BY <1>1
<1>4. 0 \notin 1 .. Len(data)
  BY <1>2
<1>5. \A w \in Writers : /\ at[w] \in File!Steps
                         /\ mine[w] \in {0} \cup File!Files /\ temp[w] \in {0} \cup File!Files
  BY DEF File!TypeOK
<1>. QED
  BY <1>2, <1>3, <1>4, <1>5 DEF File!Files

(* A writer creates its temporary file, or finds one left there.           *)
LEMMA FileCreateInv ==
  ASSUME File!Inv, NEW w \in Writers, File!Create(w)
  PROVE  File!Inv'
<1>0. /\ at[w] = "idle" /\ UNCHANGED <<renamed, onDisk, flushed, settled, crashes>>
      /\ \/ /\ temp[w] = 0 /\ data' = Append(data, {})
            /\ mine' = [mine EXCEPT ![w] = Len(data')] /\ temp' = [temp EXCEPT ![w] = Len(data')]
            /\ at' = [at EXCEPT ![w] = "head"]
         \/ at' = [at EXCEPT ![w] = "failed"] /\ UNCHANGED <<data, mine, temp>>
  BY DEF File!Create, File!Goes
<1>1. /\ data \in Seq(SUBSET File!Whole) /\ at \in [Writers -> File!Steps]
      /\ mine \in [Writers -> {0} \cup File!Files] /\ temp \in [Writers -> {0} \cup File!Files]
      /\ renamed \in Seq(Nat) /\ flushed \subseteq File!Files
  BY DEF File!Inv, File!TypeOK
<1>2. /\ data' \in Seq(SUBSET File!Whole)
      /\ File!Files \subseteq File!Files' /\ \A f \in File!Files : data'[f] = data[f]
      /\ data' # data => Len(data') \in File!Files' /\ Len(data') # 0
  <2>1. CASE data' = data
    BY <2>1, <1>1 DEF File!Files
  <2>2. CASE data' = Append(data, {})
    <3>1. /\ data' \in Seq(SUBSET File!Whole) /\ Len(data) \in Nat /\ Len(data') = Len(data) + 1
          /\ \A f \in 1 .. Len(data) : data'[f] = data[f]
      BY <1>1, <2>2
    <3>. QED
      BY <3>1 DEF File!Files
  <2>. QED
    BY <1>0, <2>1, <2>2
<1>3. File!TypeOK'
  <2>1. data' # data \/ UNCHANGED <<data, mine, temp>>
    <3>1. Append(data, {}) # data
      BY <1>1
    <3>. QED
      BY <1>0, <3>1
  <2>2. at' \in [Writers -> File!Steps]
    BY <1>0, <1>1 DEF File!Steps
  <2>3. mine' \in [Writers -> {0} \cup File!Files'] /\ temp' \in [Writers -> {0} \cup File!Files']
    BY <1>0, <1>1, <1>2, <2>1
  <2>. QED
    BY <1>0, <1>1, <1>2, <2>2, <2>3 DEF File!Inv, File!TypeOK
<1>4. File!FlushedIsWhole'
  BY <1>0, <1>1, <1>2 DEF File!Inv, File!FlushedIsWhole
<1>5. File!WrittenInOrder'
  <2>. SUFFICES ASSUME NEW v \in Writers PROVE File!HoldsSoFar(v)'
    BY DEF File!WrittenInOrder
  <2>1. CASE v = w
    <3>1. \/ at'[v] = "failed"
          \/ at'[v] = "head" /\ mine'[v] = Len(data') /\ temp'[v] = Len(data') /\ data' # data
      <4>1. Append(data, {}) # data
        BY <1>1
      <4>. QED
        BY <1>0, <1>1, <2>1, <4>1
    <3>. QED
      BY <1>2, <3>1 DEF File!HoldsSoFar, File!Whole
  <2>2. CASE v # w
    <3>1. at'[v] = at[v] /\ mine'[v] = mine[v] /\ temp'[v] = temp[v]
      BY <1>0, <1>1, <2>2
    <3>2. mine[v] # 0 => data'[mine[v]] = data[mine[v]]
      BY <1>1, <1>2
    <3>. QED
      BY <1>0, <3>1, <3>2 DEF File!Inv, File!WrittenInOrder, File!HoldsSoFar, File!Whole
  <2>. QED
    BY <2>1, <2>2
<1>6. File!NothingLeft'
  BY <1>0, <1>1 DEF File!Inv, File!NothingLeft
<1>. QED
  BY <1>3, <1>4, <1>5, <1>6 DEF File!Inv

(* The bytes and the mode are written; a file that was flushed holds them  *)
(* already.                                                                *)
LEMMA FileWriteInv ==
  ASSUME File!Inv, NEW w \in Writers, File!Write(w)
  PROVE  File!Inv'
<1>. DEFINE f == mine[w]
<1>0. /\ at[w] \in File!Whole /\ data' = [data EXCEPT ![f] = data[f] \cup {at[w]}]
      /\ at' = [at EXCEPT ![w] = File!NextAfter[at[w]]]
      /\ UNCHANGED <<mine, temp, renamed, onDisk, flushed, settled, crashes>>
  BY DEF File!Write, File!Goes
<1>1. f \in File!Files /\ temp[w] = f /\ f # 0
  BY <1>0, FileShapes DEF File!Inv, File!WrittenInOrder, File!HoldsSoFar
<1>2. data \in Seq(SUBSET File!Whole) /\ at \in [Writers -> File!Steps]
  BY DEF File!Inv, File!TypeOK
<1>3. /\ data' \in Seq(SUBSET File!Whole) /\ File!Files' = File!Files
      /\ data'[f] = data[f] \cup {at[w]}
      /\ \A g \in File!Files : g # f => data'[g] = data[g]
  BY <1>0, <1>1, <1>2 DEF File!Files
<1>4. \A g \in File!Files : data[g] \subseteq data'[g] /\ data'[g] \subseteq File!Whole
  BY <1>0, <1>1, <1>3, FileShapes DEF File!Inv
<1>5. /\ at[w] = "head" => at'[w] = "tail"
      /\ at[w] = "tail" => at'[w] = "mode"
      /\ at[w] = "mode" => at'[w] = "flush"
      /\ at[w] \in {"head", "tail", "mode"} /\ at'[w] \in File!Steps
  BY <1>0, <1>2 DEF File!NextAfter, File!Whole, File!Steps
<1>6. File!TypeOK'
  <2>1. at' \in [Writers -> File!Steps]
    BY <1>0, <1>2, <1>5
  <2>. QED
    BY <1>0, <1>3, <2>1 DEF File!Inv, File!TypeOK
<1>7. File!FlushedIsWhole'
  <2>1. flushed \subseteq File!Files
    BY DEF File!Inv, File!TypeOK
  <2>. QED
    BY <1>0, <1>4, <2>1 DEF File!Inv, File!FlushedIsWhole
<1>8. File!WrittenInOrder'
  <2>. SUFFICES ASSUME NEW v \in Writers PROVE File!HoldsSoFar(v)'
    BY DEF File!WrittenInOrder
  <2>1. CASE v = w
    <3>1. /\ at[w] = "tail" => "head" \in data[f]
          /\ at[w] = "mode" => {"head", "tail"} \subseteq data[f]
      BY DEF File!Inv, File!WrittenInOrder, File!HoldsSoFar
    <3>2. at[w] = "mode" => data'[f] = File!Whole
      BY <1>1, <1>3, <1>4, <3>1 DEF File!Whole
    <3>. QED
      BY <1>0, <1>1, <1>3, <1>5, <2>1, <3>1, <3>2 DEF File!HoldsSoFar, File!Whole
  <2>2. CASE v # w
    <3>1. at'[v] = at[v] /\ mine'[v] = mine[v] /\ temp'[v] = temp[v]
      BY <1>0, <1>2, <2>2
    <3>2. File!HoldsSoFar(v)
      BY DEF File!Inv, File!WrittenInOrder
    <3>3. at[v] \in {"tail", "mode", "flush"} =>
            mine[v] \in File!Files /\ data[mine[v]] \subseteq data'[mine[v]]
                                   /\ data'[mine[v]] \subseteq File!Whole
      BY <1>4, <3>2, FileShapes DEF File!Inv, File!HoldsSoFar, File!Whole
    <3>. QED
      BY <1>0, <3>1, <3>2, <3>3 DEF File!HoldsSoFar, File!Whole
  <2>. QED
    BY <2>1, <2>2
<1>9. File!NothingLeft'
  BY <1>0, <1>2, <1>5 DEF File!Inv, File!NothingLeft
<1>. QED
  BY <1>6, <1>7, <1>8, <1>9 DEF File!Inv

(* The steps after the last byte: the flush, the check and the rename of a *)
(* file that was flushed.                                                  *)
LEMMA FileInstallInv ==
  ASSUME File!Inv, NEW w \in Writers,
         File!Flush(w) \/ File!Checked(w) \/ File!Rename(w) \/ File!Fail(w)
  PROVE  File!Inv'
<1>. DEFINE f == mine[w]
<1>0. /\ UNCHANGED <<mine, onDisk, data, settled, crashes>>
      /\ at[w] \in File!Whole \cup {"flush", "check", "rename"}
      /\ at' = [at EXCEPT ![w] = at'[w]] /\ at'[w] \in {"check", "rename", "directory", "failed"}
      /\ at'[w] = "check" => at[w] = "flush" /\ flushed' = flushed \cup {f}
      /\ at'[w] # "check" => flushed' = flushed
      /\ at'[w] = "rename" => at[w] = "check"
      /\ at'[w] = "directory" => /\ at[w] = "rename" /\ renamed' = Append(renamed, temp[w])
                                 /\ temp' = [temp EXCEPT ![w] = 0]
      /\ at'[w] # "directory" => UNCHANGED <<renamed, temp>>
  BY DEF File!Flush, File!Checked, File!Rename, File!Fail, File!Goes, File!Flushed,
         File!Inv, File!TypeOK
<1>1. /\ f \in File!Files /\ temp[w] = f /\ f # 0
      /\ at[w] = "flush" => data[f] = File!Whole
      /\ at[w] \in {"check", "rename"} => f \in flushed
  BY <1>0, FileShapes DEF File!Inv, File!WrittenInOrder, File!HoldsSoFar
<1>2. /\ at \in [Writers -> File!Steps] /\ renamed \in Seq(Nat) /\ File!Files \subseteq Nat
      /\ temp \in [Writers -> {0} \cup File!Files] /\ File!Files' = File!Files
  BY <1>0, FileShapes DEF File!Inv, File!TypeOK, File!Files
<1>3. /\ renamed' \in Seq(Nat) /\ renamed' # << >> /\ Len(renamed) \in Nat
      /\ Len(renamed') >= Len(renamed) /\ DOMAIN renamed \subseteq DOMAIN renamed'
      /\ \A i \in DOMAIN renamed : renamed'[i] = renamed[i]
      /\ \A i \in DOMAIN renamed' : \/ i \in DOMAIN renamed /\ renamed'[i] = renamed[i]
                                    \/ at'[w] = "directory" /\ renamed'[i] = f
      /\ at'[w] = "directory" =>
           Len(renamed) + 1 \in DOMAIN renamed' /\ renamed'[Len(renamed) + 1] = f
  <2>1. CASE at'[w] = "directory"
    <3>1. renamed' = Append(renamed, f) /\ f \in Nat
      BY <1>0, <1>1, <1>2, <2>1
    <3>2. /\ renamed' \in Seq(Nat) /\ Len(renamed) \in Nat /\ Len(renamed') = Len(renamed) + 1
          /\ DOMAIN renamed = 1 .. Len(renamed) /\ DOMAIN renamed' = 1 .. Len(renamed) + 1
          /\ \A i \in DOMAIN renamed : renamed'[i] = renamed[i]
          /\ renamed'[Len(renamed) + 1] = f
      BY <1>2, <3>1
    <3>. QED
      BY <2>1, <3>2
  <2>2. CASE at'[w] # "directory"
    BY <1>0, <2>2, FileShapes DEF File!Inv, File!TypeOK
  <2>. QED
    BY <2>1, <2>2
<1>4. File!TypeOK'
  <2>1. at' \in [Writers -> File!Steps]
    BY <1>0, <1>2 DEF File!Steps
  <2>2. temp' \in [Writers -> {0} \cup File!Files'] /\ flushed' \subseteq File!Files'
    BY <1>0, <1>1, <1>2 DEF File!Inv, File!TypeOK
  <2>3. onDisk' \in 1 .. Len(renamed')
    <3>1. onDisk \in 1 .. Len(renamed) /\ onDisk' = onDisk /\ Len(renamed') \in Nat
      BY <1>0, <1>3 DEF File!Inv, File!TypeOK
    <3>. QED
      BY <1>3, <3>1
  <2>. QED
    BY <1>0, <1>2, <1>3, <2>1, <2>2, <2>3 DEF File!Inv, File!TypeOK
<1>5. File!FlushedIsWhole'
  BY <1>0, <1>1, <1>3 DEF File!Inv, File!FlushedIsWhole
<1>6. File!WrittenInOrder'
  <2>. SUFFICES ASSUME NEW v \in Writers PROVE File!HoldsSoFar(v)'
    BY DEF File!WrittenInOrder
  <2>1. CASE v = w
    BY <1>0, <1>1, <1>2, <1>3, <2>1 DEF File!HoldsSoFar, File!Whole
  <2>2. CASE v # w
    <3>1. at'[v] = at[v] /\ mine'[v] = mine[v] /\ temp'[v] = temp[v]
      BY <1>0, <1>2, <2>2
    <3>2. File!HoldsSoFar(v)
      BY DEF File!Inv, File!WrittenInOrder
    <3>3. /\ flushed \subseteq flushed'
          /\ \A i \in DOMAIN renamed : i \in DOMAIN renamed' /\ renamed'[i] = renamed[i]
      BY <1>0, <1>2, <1>3
    <3>. QED
      BY <1>0, <3>1, <3>2, <3>3 DEF File!HoldsSoFar
  <2>. QED
    BY <2>1, <2>2
<1>7. File!NothingLeft'
  BY <1>0, <1>2 DEF File!Inv, File!NothingLeft
<1>. QED
  BY <1>4, <1>5, <1>6, <1>7 DEF File!Inv

(* A write ends: it removes its temporary file, or it has renamed it.      *)
LEMMA FileReturnInv ==
  ASSUME File!Inv, NEW w \in Writers,
         File!CleanUp(w) \/ File!Return(w) \/ File!ReturnUnsynced(w)
  PROVE  File!Inv'
<1>0. /\ UNCHANGED <<renamed, data, flushed, crashes>>
      /\ at' = [at EXCEPT ![w] = "idle"] /\ mine' = [mine EXCEPT ![w] = 0]
      /\ temp' = [temp EXCEPT ![w] = 0] \/ (temp' = temp /\ at[w] = "directory")
  BY DEF File!CleanUp, File!Return, File!ReturnUnsynced, File!Goes, File!AfterFailure
<1>1. /\ at \in [Writers -> File!Steps] /\ mine \in [Writers -> {0} \cup File!Files]
      /\ temp \in [Writers -> {0} \cup File!Files] /\ File!Files' = File!Files
  BY <1>0 DEF File!Inv, File!TypeOK, File!Files
<1>2. onDisk' \in 1 .. Len(renamed) /\ settled' \in 1 .. onDisk'
  <2>1. /\ onDisk \in 1 .. Len(renamed) /\ settled \in 1 .. onDisk
        /\ Len(renamed) \in Nat \ {0} /\ DOMAIN renamed = 1 .. Len(renamed)
    BY FileShapes DEF File!Inv, File!TypeOK
  <2>2. CASE File!CleanUp(w) \/ File!ReturnUnsynced(w)
    BY <2>1, <2>2 DEF File!CleanUp, File!ReturnUnsynced
  <2>3. CASE File!Return(w)
    <3>1. \E i \in DOMAIN renamed : renamed[i] = mine[w]
      BY <2>3 DEF File!Return, File!Inv, File!WrittenInOrder, File!HoldsSoFar
    <3>2. File!Position(mine[w]) \in DOMAIN renamed
      BY <3>1 DEF File!Position
    <3>3. /\ onDisk' = Len(renamed)
          /\ settled' = IF File!Position(mine[w]) > settled THEN File!Position(mine[w])
                        ELSE settled
      BY <2>3 DEF File!Return, File!SyncsDir
    <3>. QED
      BY <2>1, <3>2, <3>3
  <2>. QED
    BY <2>2, <2>3
<1>3. File!TypeOK'
  <2>1. at' \in [Writers -> File!Steps]
    BY <1>0, <1>1 DEF File!Steps
  <2>2. mine' \in [Writers -> {0} \cup File!Files] /\ temp' \in [Writers -> {0} \cup File!Files]
    BY <1>0, <1>1
  <2>. QED
    BY <1>0, <1>1, <1>2, <2>1, <2>2 DEF File!Inv, File!TypeOK
<1>4. File!FlushedIsWhole'
  BY <1>0 DEF File!Inv, File!FlushedIsWhole
<1>5. File!WrittenInOrder'
  <2>. SUFFICES ASSUME NEW v \in Writers PROVE File!HoldsSoFar(v)'
    BY DEF File!WrittenInOrder
  <2>1. CASE v = w
    BY <1>0, <1>1, <2>1 DEF File!HoldsSoFar, File!Whole
  <2>2. CASE v # w
    <3>1. at'[v] = at[v] /\ mine'[v] = mine[v] /\ temp'[v] = temp[v]
      BY <1>0, <1>1, <2>2
    <3>. QED
      BY <1>0, <3>1 DEF File!Inv, File!WrittenInOrder, File!HoldsSoFar
  <2>. QED
    BY <2>1, <2>2
<1>6. File!NothingLeft'
  BY <1>0, <1>1 DEF File!Inv, File!NothingLeft, File!WrittenInOrder, File!HoldsSoFar
<1>. QED
  BY <1>3, <1>4, <1>5, <1>6 DEF File!Inv

(* The machine stops: what was flushed, and the renames the device has     *)
(* for sure, are there when it comes back.                                 *)
LEMMA FileCrashInv ==
  ASSUME File!Inv, File!Crash
  PROVE  File!Inv'
<1>0. /\ UNCHANGED <<flushed, settled>> /\ crashes' = crashes + 1
      /\ at' = [w \in Writers |-> "idle"] /\ mine' = [w \in Writers |-> 0]
  BY DEF File!Crash
<1>1. PICK left \in SUBSET Writers :
        temp' = [w \in Writers |-> IF w \in left THEN temp[w] ELSE 0]
  BY DEF File!Crash
<1>2. PICK n \in onDisk .. Len(renamed) : renamed' = SubSeq(renamed, 1, n) /\ onDisk' = n
  BY DEF File!Crash
<1>3. PICK lost \in [File!Files \ flushed -> SUBSET File!Whole] :
        data' = [f \in File!Files |-> IF f \in flushed THEN data[f] ELSE data[f] \ lost[f]]
  BY DEF File!Crash
<1>4. /\ Len(data) \in Nat /\ File!Files = 1 .. Len(data) /\ flushed \subseteq File!Files
      /\ \A f \in File!Files : data[f] \subseteq File!Whole
  BY FileShapes DEF File!Inv, File!TypeOK, File!Files
<1>5. data' \in [1 .. Len(data) -> SUBSET File!Whole]
  BY <1>3, <1>4
<1>6. /\ data' \in Seq(SUBSET File!Whole) /\ Len(data') = Len(data)
  BY <1>4, <1>5
<1>7. File!Files' = File!Files /\ \A f \in flushed : data'[f] = data[f]
  BY <1>3, <1>4, <1>6 DEF File!Files
<1>8. /\ onDisk \in 1 .. Len(renamed) /\ settled \in 1 .. onDisk
      /\ Len(renamed) \in Nat \ {0} /\ DOMAIN renamed = 1 .. Len(renamed)
      /\ renamed \in Seq(Nat)
  BY FileShapes DEF File!Inv, File!TypeOK
<1>9. /\ renamed' \in Seq(Nat) /\ Len(renamed') = n /\ renamed' # << >>
      /\ \A i \in DOMAIN renamed' : i \in DOMAIN renamed /\ renamed'[i] = renamed[i]
      /\ onDisk' \in 1 .. n /\ settled' \in 1 .. onDisk'
  <2>1. n \in Nat /\ n >= 1 /\ n <= Len(renamed)
    BY <1>8
  <2>2. renamed' \in Seq(Nat) /\ Len(renamed') = n /\ \A i \in 1 .. n : renamed'[i] = renamed[i]
    BY <1>2, <1>8, <2>1
  <2>3. DOMAIN renamed' = 1 .. n /\ renamed' # << >>
    BY <2>1, <2>2
  <2>4. onDisk' \in 1 .. n /\ settled' \in 1 .. onDisk'
    BY <1>0, <1>2, <1>8, <2>1
  <2>. QED
    BY <1>8, <2>1, <2>2, <2>3, <2>4
<1>10. File!TypeOK'
  <2>1. at' \in [Writers -> File!Steps]
    BY <1>0 DEF File!Steps
  <2>2. mine' \in [Writers -> {0} \cup File!Files] /\ temp' \in [Writers -> {0} \cup File!Files]
    BY <1>0, <1>1 DEF File!Inv, File!TypeOK
  <2>. QED
    BY <1>0, <1>4, <1>6, <1>7, <1>9, <2>1, <2>2 DEF File!Inv, File!TypeOK
<1>11. File!FlushedIsWhole'
  BY <1>0, <1>7, <1>9 DEF File!Inv, File!FlushedIsWhole
<1>12. File!WrittenInOrder'
  BY <1>0 DEF File!WrittenInOrder, File!HoldsSoFar, File!Whole
<1>13. File!NothingLeft'
  BY <1>0 DEF File!Inv, File!TypeOK, File!NothingLeft
<1>. QED
  BY <1>10, <1>11, <1>12, <1>13 DEF File!Inv

(* The invariant of the writers of a file.                                 *)
THEOREM FileInvariance == File!Spec => []File!Inv
<1>1. File!Inv /\ [File!Next]_(File!vars) => File!Inv'
  <2>. SUFFICES ASSUME File!Inv, [File!Next]_(File!vars) PROVE File!Inv'
    OBVIOUS
  <2>1. CASE UNCHANGED File!vars
    <3>1. File!Files' = File!Files
      BY <2>1 DEF File!vars, File!Files
    <3>. QED
      BY <2>1, <3>1 DEF File!vars, File!Inv, File!TypeOK, File!FlushedIsWhole,
                        File!WrittenInOrder, File!HoldsSoFar, File!NothingLeft
  <2>2. CASE File!Crash
    BY <2>2, FileCrashInv
  <2>3. ASSUME NEW w \in Writers,
               \/ File!Create(w) \/ File!Write(w) \/ File!Flush(w) \/ File!Checked(w)
               \/ File!Rename(w) \/ File!Fail(w) \/ File!CleanUp(w) \/ File!Return(w)
               \/ File!ReturnUnsynced(w)
        PROVE  File!Inv'
    BY <2>3, FileCreateInv, FileWriteInv, FileInstallInv, FileReturnInv
  <2>. QED
    BY <2>1, <2>2, <2>3 DEF File!Next
<1>. QED
  BY <1>1, FileInitInv, PTL DEF File!Spec

(* However writers race, steps fail and the machine stops: a reader finds  *)
(* a whole file, a write that reported success outlives a stop, and a      *)
(* write that ended leaves no temporary file.                              *)
THEOREM InstalledFilesAreSound == File!Spec => []FilesAreSound
<1>1. File!Inv => FilesAreSound
  <2>. SUFFICES ASSUME File!Inv PROVE FilesAreSound
    OBVIOUS
  <2>1. /\ Len(renamed) \in Nat \ {0} /\ DOMAIN renamed = 1 .. Len(renamed)
        /\ onDisk \in 1 .. Len(renamed) /\ settled \in 1 .. onDisk
    BY FileShapes DEF File!Inv, File!TypeOK
  <2>2. Len(renamed) \in DOMAIN renamed /\ settled <= Len(renamed)
    BY <2>1
  <2>3. File!NeverHalf /\ File!SuccessSurvives
    BY <2>2 DEF File!Inv, File!FlushedIsWhole, File!NeverHalf, File!SuccessSurvives
  <2>. QED
    BY <2>3 DEF File!Inv, FilesAreSound, File!FilesAreSound
<1>. QED
  BY <1>1, FileInvariance, PTL

(* Each file is installed once: only a file just created takes a temporary *)
(* name, and a rename gives the name up.                                   *)
LEMMA OnceInit == File!Init => File!InstalledOnce
<1>. SUFFICES ASSUME File!Init PROVE File!InstalledOnce
  OBVIOUS
<1>1. DOMAIN renamed = {1} /\ \A w \in Writers : temp[w] = 0
  BY DEF File!Init
<1>. QED
  BY <1>1 DEF File!InstalledOnce

LEMMA OnceStep ==
  ASSUME File!Inv, File!InstalledOnce, [File!Next]_(File!vars)
  PROVE  File!InstalledOnce'
<1>1. /\ Len(data) \in Nat /\ File!Files = 1 .. Len(data)
      /\ renamed \in Seq(Nat) /\ DOMAIN renamed = 1 .. Len(renamed) /\ Len(renamed) \in Nat
      /\ \A i \in DOMAIN renamed : renamed[i] \in File!Files
      /\ \A w \in Writers : temp[w] \in {0} \cup File!Files
      /\ temp \in [Writers -> {0} \cup File!Files]
      /\ onDisk \in 1 .. Len(renamed)
  BY FileShapes DEF File!Inv, File!TypeOK, File!Files, File!FlushedIsWhole
<1>2. CASE UNCHANGED <<renamed, temp>>
  BY <1>2 DEF File!InstalledOnce
<1>3. ASSUME NEW w \in Writers, File!Create(w)
      PROVE  File!InstalledOnce'
  <2>1. CASE temp' = temp
    BY <1>2, <1>3, <2>1 DEF File!Create
  <2>2. CASE temp' # temp
    <3>1. /\ data' = Append(data, {}) /\ Len(data) < MaxWrites
          /\ temp' = [temp EXCEPT ![w] = Len(data')] /\ renamed' = renamed
      BY <1>3, <2>2 DEF File!Create
    <3>2. Len(data') = Len(data) + 1
      <4>1. data \in Seq(SUBSET File!Whole)
        BY DEF File!Inv, File!TypeOK
      <4>. QED
        BY <3>1, <4>1
    <3>3. Len(data') \in 1 .. MaxWrites /\ Len(data') \notin {0} \cup File!Files
      BY <1>1, <3>1, <3>2, FileAssumption DEF File!BoundsAssumption
    <3>4. temp'[w] = Len(data') /\ \A v \in Writers : v # w => temp'[v] = temp[v]
      BY <1>1, <3>1
    <3>. HIDE DEF File!Files
    <3>5. \A v \in Writers : temp'[v] # temp'[w] \/ v = w
      BY <1>1, <3>3, <3>4
    <3>6. \A i \in DOMAIN renamed : renamed[i] # temp'[w]
      BY <1>1, <3>3, <3>4
    <3>. QED
      BY <3>1, <3>3, <3>4, <3>5, <3>6 DEF File!InstalledOnce
  <2>. QED
    BY <2>1, <2>2
<1>4. ASSUME NEW w \in Writers, File!Rename(w)
      PROVE  File!InstalledOnce'
  <2>1. /\ temp[w] # 0 /\ renamed' = Append(renamed, temp[w]) /\ temp' = [temp EXCEPT ![w] = 0]
    BY <1>4 DEF File!Rename
  <2>2. temp[w] \in Nat
    BY <1>1
  <2>3. /\ Len(renamed') = Len(renamed) + 1 /\ DOMAIN renamed' = 1 .. Len(renamed) + 1
        /\ \A i \in 1 .. Len(renamed) : renamed'[i] = renamed[i]
        /\ renamed'[Len(renamed) + 1] = temp[w]
    BY <1>1, <2>1, <2>2
  <2>4. temp'[w] = 0 /\ \A v \in Writers : v # w => temp'[v] = temp[v]
    BY <1>1, <2>1
  <2>5. \A i \in 1 .. Len(renamed) : renamed[i] # temp[w]
    BY <1>1, <2>1 DEF File!InstalledOnce
  <2>6. \A i, j \in DOMAIN renamed' : renamed'[i] = renamed'[j] => i = j
    <3>1. \A i \in DOMAIN renamed' : i \in 1 .. Len(renamed) \/ i = Len(renamed) + 1
      <4>1. Len(renamed) \in Nat /\ DOMAIN renamed' = 1 .. Len(renamed) + 1
        BY <1>1, <2>3
      <4>. QED
        BY ONLY <4>1
    <3>2. \A i, j \in 1 .. Len(renamed) : renamed'[i] = renamed'[j] => i = j
      BY <1>1, <2>3 DEF File!InstalledOnce
    <3>. QED
      BY <2>3, <2>5, <3>1, <3>2
  <2>7. ASSUME NEW v \in Writers, temp'[v] # 0
        PROVE  /\ temp'[v] \in 1 .. MaxWrites
               /\ \A i \in DOMAIN renamed' : renamed'[i] # temp'[v]
               /\ \A u \in Writers : temp'[u] = temp'[v] => u = v
    <3>1. v # w /\ temp'[v] = temp[v] /\ temp[v] # temp[w]
      BY <2>1, <2>4, <2>7 DEF File!InstalledOnce
    <3>2. ASSUME NEW i \in DOMAIN renamed' PROVE renamed'[i] # temp'[v]
      <4>1. i \in 1 .. Len(renamed) \/ i = Len(renamed) + 1
        <5>1. Len(renamed) \in Nat /\ DOMAIN renamed' = 1 .. Len(renamed) + 1
          BY <1>1, <2>3
        <5>. QED
          BY <3>2, <5>1
      <4>2. \A j \in 1 .. Len(renamed) : renamed[j] # temp[v]
        BY <1>1, <2>7, <3>1 DEF File!InstalledOnce
      <4>. QED
        BY <2>3, <3>1, <4>1, <4>2
    <3>3. \A u \in Writers : temp'[u] = temp'[v] => u = v
      BY <2>4, <2>7, <3>1 DEF File!InstalledOnce
    <3>4. temp'[v] \in 1 .. MaxWrites
      BY <2>7, <3>1 DEF File!InstalledOnce
    <3>. QED
      BY <3>2, <3>3, <3>4
  <2>. QED
    BY <2>6, <2>7 DEF File!InstalledOnce
<1>5. ASSUME NEW w \in Writers, File!CleanUp(w)
      PROVE  File!InstalledOnce'
  <2>1. temp' = [temp EXCEPT ![w] = 0] /\ renamed' = renamed
    BY <1>5 DEF File!CleanUp, File!AfterFailure
  <2>2. \A v \in Writers : temp'[v] = 0 \/ temp'[v] = temp[v]
    BY <1>1, <2>1
  <2>. QED
    BY <2>1, <2>2 DEF File!InstalledOnce
<1>6. CASE File!Crash
  <2>1. PICK left \in SUBSET Writers :
          temp' = [w \in Writers |-> IF w \in left THEN temp[w] ELSE 0]
    BY <1>6 DEF File!Crash
  <2>2. PICK n \in onDisk .. Len(renamed) : renamed' = SubSeq(renamed, 1, n) /\ onDisk' = n
    BY <1>6 DEF File!Crash
  <2>3. \A v \in Writers : temp'[v] = 0 \/ temp'[v] = temp[v]
    BY <2>1
  <2>4. DOMAIN renamed' \subseteq DOMAIN renamed /\ \A i \in DOMAIN renamed' : renamed'[i] = renamed[i]
    <3>1. n \in Nat /\ n >= 1 /\ n <= Len(renamed) /\ renamed \in Seq(Nat)
      BY <1>1
    <3>2. /\ renamed' \in Seq(Nat) /\ Len(renamed') = n
          /\ \A i \in 1 .. n : renamed'[i] = renamed[i]
      BY <2>2, <3>1
    <3>. QED
      BY <1>1, <3>1, <3>2
  <2>. QED
    BY <2>3, <2>4 DEF File!InstalledOnce
<1>7. \/ UNCHANGED <<renamed, temp>> \/ File!Crash
      \/ \E w \in Writers : File!Create(w) \/ File!Rename(w) \/ File!CleanUp(w)
  BY DEF File!Next, File!vars, File!Write, File!Flush, File!Checked, File!Fail, File!Return,
         File!ReturnUnsynced
<1>. QED
  BY <1>2, <1>3, <1>4, <1>5, <1>6, <1>7

(* A function on 1 .. n is a sequence, and so is the start of one.         *)
LEMMA FunctionIsSeq ==
  ASSUME NEW S, NEW n \in Nat, NEW f \in [1 .. n -> S]
  PROVE  f \in Seq(S) /\ Len(f) = n
OBVIOUS

LEMMA StartOfSeq ==
  ASSUME NEW S, NEW s \in Seq(S), NEW n \in Nat, 1 <= n, n <= Len(s)
  PROVE  /\ SubSeq(s, 1, n) \in Seq(S) /\ Len(SubSeq(s, 1, n)) = n
         /\ \A i \in 1 .. n : SubSeq(s, 1, n)[i] = s[i]
OBVIOUS

(* What the name led to, as a sequence.                                    *)
LEMMA VersionsAre ==
  ASSUME File!Inv
  PROVE  /\ File!Versions \in Seq([file : Nat, holds : SUBSET File!Whole])
         /\ Len(File!Versions) = Len(renamed) /\ Len(renamed) \in Nat \ {0}
         /\ DOMAIN File!Versions = DOMAIN renamed /\ DOMAIN renamed = 1 .. Len(renamed)
         /\ \A i \in DOMAIN renamed :
              /\ File!Versions[i] = [file |-> renamed[i], holds |-> File!Whole]
              /\ renamed[i] \in flushed /\ renamed[i] \in File!Files
<1>1. /\ Len(renamed) \in Nat \ {0} /\ DOMAIN renamed = 1 .. Len(renamed)
      /\ \A i \in DOMAIN renamed : /\ renamed[i] \in flushed /\ renamed[i] \in File!Files
                                   /\ data[renamed[i]] = File!Whole
  BY FileShapes DEF File!Inv, File!TypeOK, File!FlushedIsWhole
<1>2. \A i \in DOMAIN renamed : renamed[i] \in Nat
  BY DEF File!Inv, File!TypeOK
<1>3. /\ DOMAIN File!Versions = 1 .. Len(renamed)
      /\ \A i \in DOMAIN renamed :
           File!Versions[i] = [file |-> renamed[i], holds |-> File!Whole]
  BY <1>1 DEF File!Versions
<1>4. File!Versions \in [1 .. Len(renamed) -> [file : Nat, holds : SUBSET File!Whole]]
  BY <1>1, <1>2 DEF File!Versions
<1>5. /\ File!Versions \in Seq([file : Nat, holds : SUBSET File!Whole])
      /\ Len(File!Versions) = Len(renamed)
  <2>1. Len(renamed) \in Nat
    BY <1>1
  <2>. QED
    BY <1>4, <2>1, FunctionIsSeq
<1>. QED
  BY <1>1, <1>3, <1>5

(* Nothing but a rename and a stop changes what the name led to.           *)
LEMMA VersionsStay ==
  ASSUME File!Inv, renamed' = renamed,
         \A f \in flushed : data'[f] = data[f]
  PROVE  File!Versions' = File!Versions
<1>1. \A i \in DOMAIN renamed : data'[renamed[i]] = data[renamed[i]]
  BY VersionsAre
<1>. QED
  BY <1>1 DEF File!Versions

LEMMA PromiseInit == File!Init => File!Durable!Init
<1>. SUFFICES ASSUME File!Init PROVE File!Durable!Init
  OBVIOUS
<1>1. renamed = <<1>> /\ data = <<File!Whole>> /\ onDisk = 1 /\ settled = 1
  BY DEF File!Init
<1>2. File!Versions = <<[file |-> 1, holds |-> File!Whole]>>
  BY <1>1 DEF File!Versions
<1>. QED
  BY <1>1, <1>2 DEF File!Durable!Init, File!Durable!Finished

(* A rename installs a file that never was.                                *)
LEMMA RenamePromise ==
  ASSUME File!Inv, File!InstalledOnce, NEW w \in Writers, File!Rename(w)
  PROVE  \E f \in 1 .. MaxWrites : File!Durable!Install(f)
<1>. DEFINE f == temp[w]
<1>1. /\ at[w] = "rename" /\ f # 0 /\ renamed' = Append(renamed, f)
      /\ UNCHANGED <<onDisk, data, settled>>
  BY DEF File!Rename
<1>2. f \in 1 .. MaxWrites /\ \A i \in DOMAIN renamed : renamed[i] # f
  BY <1>1 DEF File!InstalledOnce
<1>3. f \in flushed /\ data[f] = File!Whole
  BY <1>1 DEF File!Inv, File!WrittenInOrder, File!HoldsSoFar, File!FlushedIsWhole, File!Whole
<1>4. /\ renamed \in Seq(Nat) /\ Len(renamed) \in Nat /\ DOMAIN renamed = 1 .. Len(renamed)
  BY VersionsAre DEF File!Inv, File!TypeOK
<1>5. f \in Nat
  BY <1>2
<1>. HIDE DEF f
<1>6. /\ DOMAIN renamed' = 1 .. Len(renamed) + 1
      /\ \A i \in 1 .. Len(renamed) : renamed'[i] = renamed[i]
      /\ renamed'[Len(renamed) + 1] = f
  BY <1>1, <1>4, <1>5
<1>7. File!Versions' = Append(File!Versions, [file |-> f, holds |-> File!Whole])
  <2>. DEFINE v == [file |-> f, holds |-> File!Whole]
              new == Append(File!Versions, v)
  <2>1. /\ File!Versions \in Seq([file : Nat, holds : SUBSET File!Whole])
        /\ Len(File!Versions) = Len(renamed)
    BY VersionsAre
  <2>2. v \in [file : Nat, holds : SUBSET File!Whole]
    BY <1>5
  <2>. HIDE DEF v
  <2>3. /\ new \in Seq([file : Nat, holds : SUBSET File!Whole])
        /\ Len(new) = Len(renamed) + 1
        /\ \A i \in 1 .. Len(renamed) : new[i] = File!Versions[i]
        /\ new[Len(renamed) + 1] = v
    BY <1>4, <2>1, <2>2
  <2>. HIDE DEF new
  <2>4. new = [i \in 1 .. Len(renamed) + 1 |-> new[i]]
    BY <2>3
  <2>5. File!Versions' = [i \in 1 .. Len(renamed) + 1 |->
                            [file |-> renamed'[i], holds |-> data[renamed'[i]]]]
    BY <1>1, <1>6 DEF File!Versions
  <2>6. ASSUME NEW i \in 1 .. Len(renamed) + 1
        PROVE  new[i] = [file |-> renamed'[i], holds |-> data[renamed'[i]]]
    <3>1. CASE i = Len(renamed) + 1
      BY <1>3, <1>6, <2>3, <3>1 DEF v
    <3>2. CASE i # Len(renamed) + 1
      <4>1. i \in 1 .. Len(renamed) /\ i \in DOMAIN renamed
        BY <1>4, <3>2
      <4>2. new[i] = [file |-> renamed[i], holds |-> data[renamed[i]]]
        BY <2>3, <4>1 DEF File!Versions
      <4>. QED
        BY <1>6, <4>1, <4>2
    <3>. QED
      BY <3>1, <3>2
  <2>. QED
    BY <2>4, <2>5, <2>6 DEF new, v
<1>8. \A i \in DOMAIN File!Versions : File!Versions[i].file # f
  BY <1>2, VersionsAre
<1>9. File!Durable!Install(f)
  BY <1>1, <1>7, <1>8 DEF File!Durable!Install, File!Durable!Finished
<1>. QED
  BY <1>2, <1>9

(* A write that flushed its directory reports the version it installed.    *)
LEMMA ReturnPromise ==
  ASSUME File!Inv, NEW w \in Writers, File!Return(w)
  PROVE  \E i \in DOMAIN File!Versions : File!Durable!Report(i)
<1>. DEFINE i == File!Position(mine[w])
<1>1. /\ onDisk' = Len(renamed) /\ settled' = IF i > settled THEN i ELSE settled
      /\ UNCHANGED <<renamed, data>>
  BY DEF File!Return, File!SyncsDir
<1>2. i \in DOMAIN renamed
  <2>1. \E j \in DOMAIN renamed : renamed[j] = mine[w]
    BY DEF File!Return, File!Inv, File!WrittenInOrder, File!HoldsSoFar
  <2>. QED
    BY <2>1 DEF File!Position
<1>. HIDE DEF i
<1>3. i \in DOMAIN File!Versions /\ Len(File!Versions) = Len(renamed)
  BY <1>2, VersionsAre
<1>4. File!Versions' = File!Versions
  BY <1>1, VersionsStay
<1>. QED
  BY <1>1, <1>3, <1>4 DEF File!Durable!Report

(* A machine that stops forgets the newest renames, and nothing of a file  *)
(* that was installed.                                                     *)
LEMMA CrashPromise ==
  ASSUME File!Inv, File!Crash
  PROVE  File!Durable!Stop
<1>1. PICK n \in onDisk .. Len(renamed) : renamed' = SubSeq(renamed, 1, n) /\ onDisk' = n
  BY DEF File!Crash
<1>2. /\ renamed \in Seq(Nat) /\ Len(renamed) \in Nat /\ onDisk \in 1 .. Len(renamed)
      /\ DOMAIN renamed = 1 .. Len(renamed)
  BY VersionsAre DEF File!Inv, File!TypeOK
<1>3. n \in 1 .. Len(renamed)
  BY <1>2
<1>4. DOMAIN renamed' = 1 .. n /\ \A i \in 1 .. n : renamed'[i] = renamed[i]
  <2>1. n \in Nat /\ n >= 1 /\ n <= Len(renamed) /\ renamed \in Seq(Nat)
    BY <1>2, <1>3
  <2>2. /\ renamed' \in Seq(Nat) /\ Len(renamed') = n
        /\ \A i \in 1 .. n : renamed'[i] = renamed[i]
    BY <1>1, <2>1
  <2>. QED
    BY <2>1, <2>2
<1>5. \A f \in flushed : data'[f] = data[f]
  <2>1. PICK lost \in [File!Files \ flushed -> SUBSET File!Whole] :
          data' = [f \in File!Files |-> IF f \in flushed THEN data[f] ELSE data[f] \ lost[f]]
    BY DEF File!Crash
  <2>2. flushed \subseteq File!Files
    BY DEF File!Inv, File!TypeOK
  <2>. QED
    BY <2>1, <2>2
<1>6. File!Versions' = SubSeq(File!Versions, 1, n)
  <2>. DEFINE old == SubSeq(File!Versions, 1, n)
  <2>1. /\ File!Versions \in Seq([file : Nat, holds : SUBSET File!Whole])
        /\ Len(File!Versions) = Len(renamed)
    BY VersionsAre
  <2>2. /\ old \in Seq([file : Nat, holds : SUBSET File!Whole]) /\ Len(old) = n
        /\ \A i \in 1 .. n : old[i] = File!Versions[i]
    <3>1. n \in Nat /\ n >= 1 /\ n <= Len(File!Versions)
      BY <1>2, <1>3, <2>1
    <3>. QED
      BY <2>1, <3>1, StartOfSeq
  <2>. HIDE DEF old
  <2>3. old = [i \in 1 .. n |-> old[i]]
    BY <1>3, <2>2
  <2>4. File!Versions' = [i \in 1 .. n |-> [file |-> renamed'[i], holds |-> data'[renamed'[i]]]]
    BY <1>4 DEF File!Versions
  <2>5. ASSUME NEW i \in 1 .. n
        PROVE  old[i] = [file |-> renamed'[i], holds |-> data'[renamed'[i]]]
    <3>1. i \in DOMAIN renamed
      BY <1>2, <1>3
    <3>2. old[i] = [file |-> renamed[i], holds |-> data[renamed[i]]]
      BY <2>2, <3>1 DEF File!Versions
    <3>3. renamed'[i] = renamed[i] /\ data'[renamed[i]] = data[renamed[i]]
      BY <1>4, <1>5, <3>1, VersionsAre
    <3>. QED
      BY <3>2, <3>3
  <2>. QED
    BY <2>3, <2>4, <2>5 DEF old
<1>7. settled' = settled /\ Len(File!Versions) = Len(renamed)
  BY VersionsAre DEF File!Crash
<1>. QED
  BY <1>1, <1>6, <1>7 DEF File!Durable!Stop

(* Each step of the writers is a step of the promise, or none of it.       *)
LEMMA PromiseStep ==
  ASSUME File!Inv, File!InstalledOnce, [File!Next]_(File!vars)
  PROVE  [File!Durable!Next]_(File!Durable!vars)
<1>1. CASE File!Crash
  BY <1>1, CrashPromise DEF File!Durable!Next
<1>2. ASSUME NEW w \in Writers, File!Rename(w)
      PROVE  [File!Durable!Next]_(File!Durable!vars)
  BY <1>2, RenamePromise DEF File!Durable!Next
<1>3. ASSUME NEW w \in Writers, File!Return(w)
      PROVE  [File!Durable!Next]_(File!Durable!vars)
  BY <1>3, ReturnPromise DEF File!Durable!Next
<1>4. CASE UNCHANGED <<renamed, onDisk, settled>> /\ \A f \in flushed : data'[f] = data[f]
  <2>1. File!Versions' = File!Versions
    BY <1>4, VersionsStay
  <2>. QED
    BY <1>4, <2>1 DEF File!Durable!vars
<1>5. ASSUME NEW w \in Writers, File!Create(w) \/ File!Write(w)
      PROVE  UNCHANGED <<renamed, onDisk, settled>> /\ \A f \in flushed : data'[f] = data[f]
  <2>1. UNCHANGED <<renamed, onDisk, settled>>
    BY <1>5 DEF File!Create, File!Write
  <2>2. /\ data \in Seq(SUBSET File!Whole) /\ flushed \subseteq 1 .. Len(data)
        /\ \A f \in flushed : data[f] = File!Whole
    BY DEF File!Inv, File!TypeOK, File!Files, File!FlushedIsWhole
  <2>3. CASE data' = data
    BY <2>1, <2>3
  <2>4. CASE data' = Append(data, {})
    BY <2>1, <2>2, <2>4
  <2>5. CASE File!Write(w)
    <3>1. at[w] \in File!Whole /\ data' = [data EXCEPT ![mine[w]] = data[mine[w]] \cup {at[w]}]
      BY <2>5 DEF File!Write
    <3>2. ASSUME NEW f \in flushed PROVE data'[f] = data[f]
      <4>1. f \in DOMAIN data /\ data[f] = File!Whole
        BY <2>2
      <4>. QED
        BY <3>1, <4>1
    <3>. QED
      BY <2>1, <3>2
  <2>. QED
    BY <1>5, <2>3, <2>4, <2>5 DEF File!Create
<1>6. CASE UNCHANGED File!vars
  BY <1>4, <1>6 DEF File!vars
<1>7. ASSUME NEW w \in Writers,
             File!Flush(w) \/ File!Checked(w) \/ File!Fail(w) \/ File!CleanUp(w)
               \/ File!ReturnUnsynced(w)
      PROVE  UNCHANGED <<renamed, onDisk, settled>> /\ \A f \in flushed : data'[f] = data[f]
  BY <1>7 DEF File!Flush, File!Checked, File!Fail, File!CleanUp, File!ReturnUnsynced
<1>. QED
  BY <1>1, <1>2, <1>3, <1>4, <1>5, <1>6, <1>7 DEF File!Next

(* The writers of a file, racing, failing and stopped at any moment,       *)
(* implement DurableFile: what its readers are led to is one finished file *)
(* after another, each installed once and never written again, and a stop  *)
(* loses none that a write reported with its directory flushed.            *)
THEOREM WritersKeepPromise == File!Spec => File!KeepsPromise
<1>1. File!Spec => []File!InstalledOnce
  BY FileInvariance, OnceInit, OnceStep, PTL DEF File!Spec
<1>. QED
  BY <1>1, FileInvariance, PromiseInit, PromiseStep, PTL
     DEF File!Spec, File!KeepsPromise, File!Durable!Spec
=============================================================================
