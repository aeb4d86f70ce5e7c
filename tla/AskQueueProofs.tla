--------------------------- MODULE AskQueueProofs ---------------------------
(***************************************************************************)
(* Proofs about AskQueue, for any number of requests, destinations and     *)
(* operators, any cap, with or without a timeout.                          *)
(***************************************************************************)
EXTENDS AskQueue, FiniteSetTheorems, TLAPS

USE DEF queueVars, waitVars, cmdVars, Goto, Drainers

(* An empty queue, and no command under way.                               *)
LEMMA InitInv == Init => Inv
<1>. SUFFICES ASSUME Init PROVE Inv
  OBVIOUS
<1>1. TypeOK
  <2>1. Dismissal \in Commands
    BY DEF Dismissal, Commands, Verdicts
  <2>2. /\ nextSeq \in Nat /\ seq \in [Parks -> 0 .. nextSeq] /\ dest \in [Parks -> Dests]
        /\ entries \in SUBSET Parks /\ linkUp \in BOOLEAN
    BY DEF Init
  <2>3. /\ chan \in [Parks -> Verdicts \cup {"empty"}] /\ thread \in [Parks -> Threads]
        /\ verdict \in [Parks -> Verdicts \cup {"none"}]
    BY DEF Init, Threads
  <2>4. pc \in [Drainers -> PCs] /\ cmd \in [Drainers -> Commands]
    BY <2>1 DEF Init, PCs
  <2>5. /\ seen \in [Drainers -> SUBSET Nat]
        /\ ran \in [Drainers -> SUBSET {Endpoint[d] : d \in Dests}]
        /\ taken \in [Drainers -> SUBSET Parks] /\ told \in [Drainers -> SUBSET Parks]
    BY DEF Init
  <2>. QED
    BY <2>2, <2>3, <2>4, <2>5 DEF TypeOK
<1>2. IdsAreUnique /\ OneSender /\ RanOnWhatItNames /\ NoOrphanWaiter
  BY DEF Init, IdsAreUnique, OneSender, RanOnWhatItNames, NoOrphanWaiter
<1>3. CommandsInOrder /\ AnswersAreTold
  BY DEF Init, CommandsInOrder, AnswersAreTold, Dismissal
<1>4. HeardOnce /\ HearsTheAnswer
  BY DEF Init, HeardOnce, HearsTheAnswer
<1>5. QueueBounded
  BY FS_EmptySet, CapAssumption DEF Init, QueueBounded
<1>6. AnsweredOnce /\ SparesOthers /\ FreedWhereFirstRan
  BY DEF Init, AnsweredOnce, SparesOthers, FreedWhereFirstRan
<1>. QED
  BY <1>1, <1>2, <1>3, <1>4, <1>5, <1>6 DEF Inv

(* A queue that lost requests is within its cap.                           *)
LEMMA FewerFit ==
  ASSUME QueueBounded, TypeOK, NEW S, S \subseteq entries
  PROVE  Cardinality(S) <= Cap
<1>1. IsFiniteSet(entries)
  BY ParksAssumption, FS_Subset DEF TypeOK
<1>2. IsFiniteSet(S) /\ Cardinality(S) <= Cardinality(entries)
  BY <1>1, FS_Subset
<1>3. Cardinality(S) \in Nat /\ Cardinality(entries) \in Nat
  BY <1>1, <1>2, FS_CardinalityType
<1>. QED
  BY <1>2, <1>3, CapAssumption DEF QueueBounded

(* A request enters the queue under a new id.                              *)
LEMMA EnqueueInv ==
  ASSUME Inv, NEW p \in Parks, Enqueue(p)
  PROVE  Inv'
<1>1. TypeOK'
  <2>1. nextSeq' \in Nat /\ seq' \in [Parks -> 0 .. nextSeq']
    BY DEF Inv, TypeOK, Enqueue
  <2>2. entries' \in SUBSET Parks /\ thread' \in [Parks -> Threads]
    BY DEF Inv, TypeOK, Enqueue, Threads
  <2>. QED
    BY <2>1, <2>2 DEF Inv, TypeOK, Enqueue
<1>2. IdsAreUnique'
  BY DEF Inv, TypeOK, IdsAreUnique, Enqueue
<1>3. chan[p] = "empty" /\ \A o \in Drainers : p \notin told[o] /\ p \notin taken[o]
  BY DEF Inv, TypeOK, OneSender, AnswersAreTold, Enqueue
<1>4. OneSender'
  BY <1>3 DEF Inv, TypeOK, OneSender, Enqueue
<1>5. CommandsInOrder'
  BY DEF Inv, TypeOK, CommandsInOrder, Enqueue, Commands
<1>6. AnswersAreTold' /\ AnsweredOnce' /\ SparesOthers' /\ FreedWhereFirstRan'
  BY DEF Inv, AnswersAreTold, AnsweredOnce, SparesOthers, FreedWhereFirstRan, Enqueue
<1>7. RanOnWhatItNames'
  BY DEF Inv, TypeOK, RanOnWhatItNames, CommandsInOrder, Enqueue, Commands
<1>8. QueueBounded'
  <2>1. IsFiniteSet(entries)
    BY ParksAssumption, FS_Subset DEF Inv, TypeOK
  <2>2. Cardinality(entries) \in Nat /\ Cardinality(entries) < Cap
    BY <2>1, FS_CardinalityType DEF Enqueue
  <2>3. Cardinality(entries') = Cardinality(entries) \/ Cardinality(entries') = Cardinality(entries) + 1
    BY <2>1, FS_AddElement DEF Enqueue
  <2>. QED
    BY <2>2, <2>3, CapAssumption DEF QueueBounded
<1>9. NoOrphanWaiter'
  BY DEF Inv, TypeOK, NoOrphanWaiter, SenderAlive, Enqueue
<1>10. HeardOnce'
  BY DEF Inv, TypeOK, HeardOnce, Enqueue
<1>11. verdict[p] = "none"
  BY DEF Inv, HeardOnce, Enqueue
<1>12. HearsTheAnswer'
  BY <1>11 DEF Inv, HearsTheAnswer, SenderAlive, Received, Enqueue
<1>. QED
  BY <1>1, <1>2, <1>4, <1>5, <1>6, <1>7, <1>8, <1>9, <1>10, <1>12 DEF Inv

(* A request is denied at once, or its thread moves on, without the queue. *)
LEMMA ThreadInv ==
  ASSUME Inv, NEW p \in Parks,
         DenyAtOnce(p) \/ StartWaiter(p) \/ WithdrawRecv(p) \/ WaitRecv(p) \/ WaitTimeout(p)
  PROVE  Inv'
<1>0. /\ UNCHANGED <<queueVars, chan, linkUp, cmdVars>>
      /\ \A q \in Parks : q # p => thread'[q] = thread[q] /\ verdict'[q] = verdict[q]
      /\ verdict'[p] = "Allow" => verdict[p] = "Allow" \/ chan[p] = "Allow"
      /\ thread' \in [Parks -> Threads] /\ verdict' \in [Parks -> Verdicts \cup {"none"}]
  BY DEF Inv, TypeOK, DenyAtOnce, StartWaiter, WithdrawRecv, WaitRecv, WaitTimeout, Received,
         Threads, Verdicts
<1>1. TypeOK'
  BY <1>0 DEF Inv, TypeOK
<1>2. /\ thread'[p] # "unborn"
      /\ thread[p] = "starting" => thread'[p] = "waiting"
      /\ thread[p] = "waiting" => thread'[p] = "leaving"
      /\ thread'[p] = "starting" => thread[p] = "starting"
      /\ thread'[p] = "waiting" => thread[p] = "starting"
      /\ thread[p] # "leaving"
  BY DEF Inv, TypeOK, DenyAtOnce, StartWaiter, WithdrawRecv, WaitRecv, WaitTimeout
<1>3. IdsAreUnique'
  BY <1>0, <1>2 DEF Inv, IdsAreUnique
<1>4. OneSender'
  BY <1>0, <1>2 DEF Inv, TypeOK, OneSender
<1>5. CommandsInOrder' /\ RanOnWhatItNames' /\ QueueBounded'
  BY <1>0 DEF Inv, CommandsInOrder, RanOnWhatItNames, QueueBounded
<1>6. AnswersAreTold'
  BY <1>0 DEF Inv, AnswersAreTold
<1>7. NoOrphanWaiter'
  BY <1>0, <1>2 DEF Inv, NoOrphanWaiter, SenderAlive
<1>8. AnsweredOnce' /\ SparesOthers' /\ FreedWhereFirstRan'
  BY <1>0 DEF Inv, AnsweredOnce, SparesOthers, FreedWhereFirstRan
<1>9. HeardOnce'
  <2>1. thread'[p] \in {"unborn", "starting", "waiting", "withdrawn"} => verdict'[p] = "none"
    BY DEF Inv, TypeOK, HeardOnce, DenyAtOnce, StartWaiter, WithdrawRecv, WaitRecv, WaitTimeout
  <2>2. thread'[p] \in {"leaving", "done"} => verdict'[p] # "none"
    BY DEF Inv, TypeOK, DenyAtOnce, StartWaiter, WithdrawRecv, WaitRecv, WaitTimeout,
           Received, Verdicts
  <2>. QED
    BY <1>0, <2>1, <2>2 DEF Inv, HeardOnce, Threads
<1>10. HearsTheAnswer'
  <2>1. CASE DenyAtOnce(p)
    <3>1. ~SenderAlive(p) /\ chan[p] = "empty" /\ verdict'[p] = "Deny"
      BY <2>1 DEF Inv, TypeOK, OneSender, AnswersAreTold, SenderAlive, DenyAtOnce
    <3>. QED
      BY <1>0, <3>1 DEF Inv, HearsTheAnswer, SenderAlive, Received
  <2>2. CASE StartWaiter(p)
    BY <2>2 DEF Inv, HearsTheAnswer, SenderAlive, Received, StartWaiter
  <2>3. CASE WithdrawRecv(p) \/ WaitRecv(p)
    <3>1. ~SenderAlive(p) /\ verdict'[p] = Received(p)
      BY <2>3 DEF Inv, TypeOK, OneSender, SenderAlive, WithdrawRecv, WaitRecv
    <3>. QED
      BY <1>0, <3>1 DEF Inv, HearsTheAnswer, SenderAlive, Received
  <2>4. CASE WaitTimeout(p)
    BY <2>4 DEF HearsTheAnswer, WaitTimeout
  <2>. QED
    BY <2>1, <2>2, <2>3, <2>4
<1>. QED
  BY <1>1, <1>3, <1>4, <1>5, <1>6, <1>7, <1>8, <1>9, <1>10 DEF Inv

(* A request that nobody waits for any more leaves the queue.              *)
LEMMA ForgetInv ==
  ASSUME Inv, NEW p \in Parks, WithdrawForget(p) \/ WaitForget(p)
  PROVE  Inv'
<1>0. /\ UNCHANGED <<nextSeq, seq, dest, chan, verdict, linkUp, cmdVars>>
      /\ entries' = entries \ {p}
      /\ \A q \in Parks : q # p => thread'[q] = thread[q]
      /\ thread' \in [Parks -> Threads]
      /\ thread'[p] \in {"withdrawn", "done"}
  BY DEF Inv, TypeOK, WithdrawForget, WaitForget, Threads
<1>1. TypeOK'
  BY <1>0 DEF Inv, TypeOK
<1>2. IdsAreUnique' /\ OneSender'
  BY <1>0 DEF Inv, TypeOK, IdsAreUnique, OneSender
<1>3. CommandsInOrder' /\ AnswersAreTold' /\ RanOnWhatItNames'
  BY <1>0 DEF Inv, CommandsInOrder, AnswersAreTold, RanOnWhatItNames
<1>4. QueueBounded'
  BY <1>0, FewerFit DEF Inv, QueueBounded
<1>5. NoOrphanWaiter'
  BY <1>0 DEF Inv, NoOrphanWaiter, SenderAlive
<1>6. AnsweredOnce' /\ SparesOthers' /\ FreedWhereFirstRan'
  BY <1>0 DEF Inv, AnsweredOnce, SparesOthers, FreedWhereFirstRan
<1>7. HeardOnce'
  BY DEF Inv, TypeOK, HeardOnce, WithdrawForget, WaitForget
<1>8. HearsTheAnswer'
  BY <1>0 DEF Inv, HearsTheAnswer, SenderAlive, Received
<1>. QED
  BY <1>1, <1>2, <1>3, <1>4, <1>5, <1>6, <1>7, <1>8 DEF Inv

(* A command, or the reader at the end of the link, reads the queue.       *)
LEMMA ReadInv ==
  ASSUME Inv, NEW o \in Drainers, pc[o] = "idle",
         NEW c \in Commands, NEW S \in SUBSET Nat,
         NEW R \in SUBSET {Endpoint[d] : d \in Dests},
         NEW next \in {"first", "take"},
         UNCHANGED <<queueVars, waitVars, taken, told>>, 
         linkUp' \in BOOLEAN, linkUp' => linkUp /\ o # Reader,
         cmd' = [cmd EXCEPT ![o] = c], seen' = [seen EXCEPT ![o] = S],
         ran' = [ran EXCEPT ![o] = R], pc' = [pc EXCEPT ![o] = next],
         o = Reader => c = Dismissal,
         c.target <= nextSeq, next = "take" => c.target = 0, S \subseteq 1 .. nextSeq,
         \A p \in Parks : c.target # 0 /\ seq[p] = c.target => Endpoint[dest[p]] \in R,
         \A p \in Parks : c.target = 0 /\ seq[p] \in S => Endpoint[dest[p]] \in R
  PROVE  Inv'
<1>1. TypeOK'
  BY DEF Inv, TypeOK, PCs
<1>2. /\ IdsAreUnique' /\ OneSender' /\ QueueBounded' /\ NoOrphanWaiter' /\ AnsweredOnce'
      /\ HeardOnce' /\ HearsTheAnswer'
  BY DEF Inv, IdsAreUnique, OneSender, QueueBounded, NoOrphanWaiter, SenderAlive, AnsweredOnce,
         HeardOnce, HearsTheAnswer, Received
<1>3. told[o] = {} /\ taken[o] = {}
  BY DEF Inv, CommandsInOrder
<1>4. CommandsInOrder'
  BY <1>3 DEF Inv, TypeOK, CommandsInOrder
<1>5. AnswersAreTold'
  BY <1>3 DEF Inv, TypeOK, AnswersAreTold
<1>6. RanOnWhatItNames'
  BY DEF Inv, TypeOK, RanOnWhatItNames
<1>7. SparesOthers' /\ FreedWhereFirstRan'
  BY <1>3 DEF Inv, TypeOK, SparesOthers, FreedWhereFirstRan
<1>. QED
  BY <1>1, <1>2, <1>4, <1>5, <1>6, <1>7 DEF Inv
(* LookUp, DrainSee and the end of the link are such reads: an id names    *)
(* one request, so what is read is what `first` runs on.                   *)
LEMMA LookUpInv ==
  ASSUME Inv, NEW o \in Ops, NEW v \in Verdicts, NEW session \in BOOLEAN,
         NEW s \in 1 .. nextSeq, LookUp(o, v, session, s)
  PROVE  Inv'
<1>. DEFINE c == [verdict |-> v, session |-> session, target |-> s]
            R == {Endpoint[dest[p]] : p \in At(s)}
<1>1. c \in Commands /\ c.target = s /\ s <= nextSeq /\ s # 0
  BY DEF Commands, Inv, TypeOK
<1>2. R \in SUBSET {Endpoint[d] : d \in Dests}
  BY DEF Inv, TypeOK, At
<1>3. \A p \in Parks : seq[p] = s => Endpoint[dest[p]] \in R
  BY <1>1 DEF Inv, TypeOK, IdsAreUnique, LookUp, At
<1>4. /\ seen[o] \in SUBSET Nat /\ seen[o] \subseteq 1 .. nextSeq
      /\ seen' = [seen EXCEPT ![o] = seen[o]]
  BY DEF Inv, TypeOK, CommandsInOrder, LookUp
<1>5. /\ pc[o] = "idle" /\ linkUp \in BOOLEAN
      /\ UNCHANGED <<queueVars, waitVars, linkUp, taken, told>>
      /\ cmd' = [cmd EXCEPT ![o] = c] /\ ran' = [ran EXCEPT ![o] = R]
      /\ pc' = [pc EXCEPT ![o] = "first"]
  BY DEF LookUp, Inv, TypeOK
<1>. HIDE DEF c, R
<1>. QED
  BY <1>1, <1>2, <1>3, <1>4, <1>5, ReadInv, ReaderAssumption

LEMMA SeenParts ==
  ASSUME Inv
  PROVE  LET S == {seq[p] : p \in entries}
             R == {Endpoint[dest[p]] : p \in entries}
         IN  /\ S \in SUBSET Nat /\ S \subseteq 1 .. nextSeq
             /\ R \in SUBSET {Endpoint[d] : d \in Dests}
             /\ \A p \in Parks : seq[p] \in S => Endpoint[dest[p]] \in R
BY DEF Inv, TypeOK, IdsAreUnique

LEMMA DrainSeeInv ==
  ASSUME Inv, NEW o \in Ops, NEW v \in Verdicts, NEW session \in BOOLEAN,
         DrainSee(o, v, session)
  PROVE  Inv'
<1>. DEFINE c == [verdict |-> v, session |-> session, target |-> 0]
            S == {seq[p] : p \in entries}
            R == {Endpoint[dest[p]] : p \in entries}
<1>1. c \in Commands /\ c.target = 0 /\ 0 <= nextSeq
  BY DEF Commands, Inv, TypeOK
<1>2. /\ S \in SUBSET Nat /\ S \subseteq 1 .. nextSeq
      /\ R \in SUBSET {Endpoint[d] : d \in Dests}
      /\ \A p \in Parks : seq[p] \in S => Endpoint[dest[p]] \in R
  BY SeenParts
<1>3. /\ pc[o] = "idle" /\ linkUp \in BOOLEAN
      /\ UNCHANGED <<queueVars, waitVars, linkUp, taken, told>>
      /\ cmd' = [cmd EXCEPT ![o] = c] /\ ran' = [ran EXCEPT ![o] = R]
      /\ seen' = [seen EXCEPT ![o] = S]
  BY DEF DrainSee, Inv, TypeOK
<1>4. PICK next \in {"first", "take"} : pc' = [pc EXCEPT ![o] = next]
  BY DEF DrainSee
<1>. HIDE DEF c, S, R
<1>. QED
  BY <1>1, <1>2, <1>3, <1>4, ReadInv, ReaderAssumption

LEMMA LinkEndsInv ==
  ASSUME Inv, LinkEnds
  PROVE  Inv'
<1>. DEFINE S == {seq[p] : p \in entries}
            R == {Endpoint[dest[p]] : p \in entries}
<1>1. Dismissal \in Commands /\ Dismissal.target = 0 /\ 0 <= nextSeq
  BY DEF Dismissal, Commands, Verdicts, Inv, TypeOK
<1>2. /\ S \in SUBSET Nat /\ S \subseteq 1 .. nextSeq
      /\ R \in SUBSET {Endpoint[d] : d \in Dests}
      /\ \A p \in Parks : seq[p] \in S => Endpoint[dest[p]] \in R
  BY SeenParts
<1>3. /\ pc[Reader] = "idle" /\ linkUp' = FALSE /\ UNCHANGED <<queueVars, waitVars, taken, told>>
      /\ ran' = [ran EXCEPT ![Reader] = R] /\ seen' = [seen EXCEPT ![Reader] = S]
      /\ pc' = [pc EXCEPT ![Reader] = "take"]
  BY DEF LinkEnds, ReaderFree, Inv, CommandsInOrder
<1>4. cmd' = [cmd EXCEPT ![Reader] = Dismissal]
  BY DEF LinkEnds, Inv, TypeOK, AnswersAreTold
<1>. HIDE DEF S, R
<1>. QED
  BY <1>1, <1>2, <1>3, <1>4, ReadInv

(* A command goes on, or gives up, with nothing changed.                   *)
LEMMA FirstInv ==
  ASSUME Inv, NEW o \in Drainers,
         \/ FirstDone(o) \/ FirstFails(o)
         \/ o \in Ops /\ \E s \in 1 .. (nextSeq + 1), ours \in BOOLEAN : LookUpMissing(o, s, ours)
  PROVE  Inv'
<1>0. /\ UNCHANGED <<queueVars, waitVars, linkUp, cmd, seen, ran, taken, told>>
      /\ \A x \in Drainers : x # o => pc'[x] = pc[x]
      /\ pc' \in [Drainers -> PCs]
  BY DEF Inv, TypeOK, FirstDone, FirstFails, LookUpMissing, PCs
<1>1. /\ pc[o] \in {"idle", "first"} /\ (o = Reader => pc[o] = "first")
      /\ pc'[o] \in {"take", "answer", "not-found", "unconfirmed"}
      /\ pc'[o] = "take" => cmd[o].target = 0 /\ pc[o] = "first"
      /\ pc'[o] = "answer" => cmd[o].target # 0 /\ pc[o] = "first"
  BY ReaderAssumption DEF Inv, TypeOK, FirstDone, FirstFails, LookUpMissing
<1>2. TypeOK'
  BY <1>0 DEF Inv, TypeOK
<1>3. /\ IdsAreUnique' /\ OneSender' /\ AnswersAreTold' /\ QueueBounded' /\ NoOrphanWaiter'
      /\ AnsweredOnce' /\ SparesOthers' /\ FreedWhereFirstRan' /\ HeardOnce' /\ HearsTheAnswer'
  BY <1>0 DEF Inv, IdsAreUnique, OneSender, AnswersAreTold, QueueBounded, NoOrphanWaiter, SenderAlive,
              AnsweredOnce, SparesOthers, FreedWhereFirstRan, HeardOnce, HearsTheAnswer, Received
<1>4. CommandsInOrder'
  BY <1>0, <1>1 DEF Inv, CommandsInOrder
<1>5. RanOnWhatItNames'
  BY <1>0, <1>1 DEF Inv, RanOnWhatItNames
<1>. QED
  BY <1>2, <1>3, <1>4, <1>5 DEF Inv

(* An answer by id takes out and answers the requests alike.               *)
LEMMA AnswerLikeInv ==
  ASSUME Inv, NEW o \in Drainers, AnswerLike(o)
  PROVE  Inv'
<1>. DEFINE M == Alike(cmd[o].target)
<1>0. M \subseteq entries /\ M \subseteq Parks
  BY DEF Inv, TypeOK, Alike
<1>1. /\ pc[o] = "answer" /\ cmd[o].target # 0 /\ told[o] = {} /\ taken[o] = {} /\ o \in Drainers
      /\ cmd[o].verdict \in Verdicts
  BY DEF Inv, TypeOK, CommandsInOrder, AnswerLike, Commands
<1>2. /\ UNCHANGED <<nextSeq, seq, dest, thread, verdict, linkUp, cmd, seen, ran, taken>>
      /\ entries' = entries \ M
      /\ chan' = [p \in Parks |-> IF p \in M THEN cmd[o].verdict ELSE chan[p]]
      /\ told' = [told EXCEPT ![o] = M]
      /\ \A x \in Drainers : x # o => pc'[x] = pc[x]
      /\ pc'[o] \in {"ok", "not-found"} /\ pc' \in [Drainers -> PCs]
      /\ M # {} => pc'[o] = "ok"
  BY DEF AnswerLike, Inv, TypeOK, PCs
<1>3. \A p \in M : Endpoint[dest[p]] \in ran[o]
  BY <1>1 DEF Inv, TypeOK, Alike, At, RanOnWhatItNames
<1>4. \A p, q \in M : dest[p] = dest[q]
  BY <1>1 DEF Inv, TypeOK, Alike, At, IdsAreUnique
<1>. HIDE DEF M
<1>5. TypeOK'
  BY <1>0, <1>1, <1>2 DEF Inv, TypeOK
<1>6. IdsAreUnique'
  BY <1>2 DEF Inv, IdsAreUnique
<1>7. OneSender'
  BY <1>0, <1>1, <1>2 DEF Inv, TypeOK, OneSender
<1>8. CommandsInOrder'
  BY <1>1, <1>2 DEF Inv, TypeOK, CommandsInOrder
<1>9. AnswersAreTold'
  BY <1>0, <1>1, <1>2 DEF Inv, TypeOK, AnswersAreTold, OneSender
<1>10. RanOnWhatItNames'
  BY <1>2 DEF Inv, RanOnWhatItNames
<1>11. QueueBounded'
  BY <1>2, FewerFit DEF Inv, QueueBounded
<1>12. NoOrphanWaiter'
  BY <1>0, <1>1, <1>2 DEF Inv, TypeOK, NoOrphanWaiter, SenderAlive, Verdicts
<1>13. AnsweredOnce'
  BY <1>0, <1>2 DEF Inv, TypeOK, AnsweredOnce, OneSender
<1>14. SparesOthers' /\ FreedWhereFirstRan'
  BY <1>2, <1>3, <1>4 DEF Inv, TypeOK, SparesOthers, FreedWhereFirstRan
<1>15. HeardOnce'
  BY <1>0, <1>1, <1>2 DEF Inv, TypeOK, HeardOnce, OneSender, Verdicts
<1>16. HearsTheAnswer'
  BY <1>0, <1>1, <1>2 DEF Inv, TypeOK, HearsTheAnswer, OneSender, SenderAlive, Received
<1>. QED
  BY <1>5, <1>6, <1>7, <1>8, <1>9, <1>10, <1>11, <1>12, <1>13, <1>14, <1>15, <1>16 DEF Inv

(* A drain takes its requests out of the queue, and their senders along.   *)
LEMMA DrainTakeInv ==
  ASSUME Inv, NEW o \in Drainers, DrainTake(o)
  PROVE  Inv'
<1>. DEFINE D == {p \in entries : seq[p] \in seen[o] \/ Endpoint[dest[p]] \in ran[o]}
<1>0. D \subseteq entries /\ D \subseteq Parks
  BY DEF Inv, TypeOK
<1>1. pc[o] = "take" /\ cmd[o].target = 0 /\ told[o] = {} /\ taken[o] = {}
  BY DEF Inv, CommandsInOrder, DrainTake
<1>2. /\ UNCHANGED <<nextSeq, seq, dest, waitVars, linkUp, cmd, seen, ran>>
      /\ entries' = entries \ D
      /\ taken' = [taken EXCEPT ![o] = D]
      /\ told' = [told EXCEPT ![o] = D]
      /\ \A x \in Drainers : x # o => pc'[x] = pc[x]
      /\ pc' \in [Drainers -> PCs] /\ pc'[o] \in {"ok", "send"}
      /\ D # {} => pc'[o] = "send"
  BY DEF DrainTake, Inv, TypeOK, PCs
<1>3. \A p \in D : Endpoint[dest[p]] \in ran[o]
  BY <1>1 DEF Inv, TypeOK, RanOnWhatItNames
<1>. HIDE DEF D
<1>5. TypeOK'
  BY <1>0, <1>2 DEF Inv, TypeOK
<1>6. IdsAreUnique'
  BY <1>2 DEF Inv, IdsAreUnique
<1>7. OneSender'
  BY <1>0, <1>1, <1>2 DEF Inv, TypeOK, OneSender
<1>8. CommandsInOrder'
  BY <1>1, <1>2 DEF Inv, TypeOK, CommandsInOrder
<1>9. AnswersAreTold'
  BY <1>1, <1>2 DEF Inv, TypeOK, AnswersAreTold
<1>10. RanOnWhatItNames'
  BY <1>2 DEF Inv, RanOnWhatItNames
<1>11. QueueBounded'
  BY <1>2, FewerFit DEF Inv, QueueBounded
<1>12. NoOrphanWaiter'
  BY <1>0, <1>1, <1>2 DEF Inv, TypeOK, NoOrphanWaiter, SenderAlive
<1>13. AnsweredOnce'
  BY <1>0, <1>2 DEF Inv, TypeOK, AnsweredOnce, OneSender
<1>14. SparesOthers' /\ FreedWhereFirstRan'
  BY <1>1, <1>2, <1>3 DEF Inv, TypeOK, SparesOthers, FreedWhereFirstRan
<1>15. HeardOnce'
  BY <1>0, <1>1, <1>2 DEF Inv, TypeOK, HeardOnce, OneSender, Verdicts
<1>16. HearsTheAnswer'
  BY <1>0, <1>1, <1>2 DEF Inv, TypeOK, HearsTheAnswer, OneSender, SenderAlive, Received
<1>. QED
  BY <1>5, <1>6, <1>7, <1>8, <1>9, <1>10, <1>11, <1>12, <1>13, <1>14, <1>15, <1>16 DEF Inv

(* ... and sends to each in turn.                                          *)
LEMMA DrainSendInv ==
  ASSUME Inv, NEW o \in Drainers, NEW p \in Parks, DrainSend(o, p)
  PROVE  Inv'
<1>1. /\ pc[o] = "send" /\ p \in taken[o] /\ p \in told[o] /\ p \notin entries /\ chan[p] = "empty"
      /\ cmd[o].verdict \in Verdicts
  BY DEF Inv, TypeOK, OneSender, DrainSend, Commands
<1>2. /\ UNCHANGED <<queueVars, thread, verdict, linkUp, cmd, seen, ran, told>>
      /\ chan' = [chan EXCEPT ![p] = cmd[o].verdict]
      /\ taken' = [taken EXCEPT ![o] = taken[o] \ {p}]
      /\ \A x \in Drainers : x # o => pc'[x] = pc[x]
      /\ pc' \in [Drainers -> PCs] /\ pc'[o] \in {"ok", "send"}
      /\ taken[o] # {p} => pc'[o] = "send"
  BY DEF DrainSend, Inv, TypeOK, PCs
<1>3. \A x \in Drainers : x # o => p \notin taken[x]
  BY <1>1 DEF Inv, OneSender, AnsweredOnce
<1>5. TypeOK'
  BY <1>1, <1>2 DEF Inv, TypeOK
<1>6. IdsAreUnique' /\ QueueBounded' /\ AnsweredOnce' /\ SparesOthers' /\ FreedWhereFirstRan'
  BY <1>2 DEF Inv, IdsAreUnique, QueueBounded, AnsweredOnce, SparesOthers, FreedWhereFirstRan
<1>7. OneSender'
  BY <1>1, <1>2, <1>3 DEF Inv, TypeOK, OneSender
<1>8. CommandsInOrder'
  BY <1>1, <1>2 DEF Inv, TypeOK, CommandsInOrder
<1>9. AnswersAreTold'
  BY <1>1, <1>2 DEF Inv, TypeOK, AnswersAreTold
<1>10. RanOnWhatItNames'
  BY <1>1, <1>2 DEF Inv, RanOnWhatItNames
<1>11. NoOrphanWaiter'
  BY <1>1, <1>2 DEF Inv, TypeOK, NoOrphanWaiter, SenderAlive, Verdicts
<1>12. HeardOnce'
  BY <1>1, <1>2, <1>3 DEF Inv, TypeOK, HeardOnce, Verdicts
<1>13. HearsTheAnswer'
  BY <1>1, <1>2 DEF Inv, TypeOK, HearsTheAnswer, SenderAlive, Received
<1>. QED
  BY <1>5, <1>6, <1>7, <1>8, <1>9, <1>10, <1>11, <1>12, <1>13 DEF Inv

LEMMA NextInv == Inv /\ [Next]_vars => Inv'
<1>. SUFFICES ASSUME Inv, [Next]_vars PROVE Inv'
  OBVIOUS
<1>1. CASE UNCHANGED vars
  BY <1>1 DEF vars, Inv, TypeOK, IdsAreUnique, OneSender, CommandsInOrder, AnswersAreTold,
              RanOnWhatItNames, QueueBounded, NoOrphanWaiter, SenderAlive, AnsweredOnce,
              SparesOthers, FreedWhereFirstRan, HeardOnce, HearsTheAnswer, Received
<1>2. ASSUME NEW p \in Parks, ReaderStep(p) \/ WaiterStep(p)
      PROVE  Inv'
  BY <1>2, EnqueueInv, ThreadInv, ForgetInv DEF ReaderStep, WaiterStep
<1>3. ASSUME NEW o \in Ops, Command(o)
      PROVE  Inv'
  BY <1>3, LookUpInv, DrainSeeInv, FirstInv DEF Command
<1>4. ASSUME NEW o \in Drainers, CommandStep(o)
      PROVE  Inv'
  BY <1>4, FirstInv, AnswerLikeInv, DrainTakeInv, DrainSendInv DEF CommandStep
<1>. QED
  BY <1>1, <1>2, <1>3, <1>4, LinkEndsInv DEF Next, Finished

(* The invariant of every reachable state.                                 *)
THEOREM Invariance == Spec => []Inv
<1>. QED
  BY InitInv, NextInv, PTL DEF Spec

(* Type correctness.                                                       *)
THEOREM TypeCorrect == Spec => []TypeOK
<1>1. Inv => TypeOK
  BY DEF Inv
<1>. QED
  BY <1>1, Invariance, PTL

(* No thread in PendingState::wait is left without an answer to come.      *)
THEOREM WaitersAreServed == Spec => []NoOrphanWaiter
<1>1. Inv => NoOrphanWaiter
  BY DEF Inv
<1>. QED
  BY <1>1, Invariance, PTL

(* Fail-closed: what PendingState::wait and withdraw return is `Allow`     *)
(* only where an operator's command says so and reports it.                *)
THEOREM FailsClosed == Spec => []AllowNeedsOperator
<1>1. Inv => AllowNeedsOperator
  <2>. SUFFICES ASSUME Inv, NEW p \in Parks, verdict[p] = "Allow"
                PROVE  \E o \in Ops : cmd[o].verdict = "Allow" /\ p \in told[o]
    BY DEF AllowNeedsOperator
  <2>1. PICK o \in Drainers : p \in told[o] /\ cmd[o].verdict = "Allow"
    BY DEF Inv, AnswersAreTold
  <2>2. o # Reader
    BY <2>1 DEF Inv, AnswersAreTold, Dismissal
  <2>. QED
    BY <2>1, <2>2
<1>. QED
  BY <1>1, Invariance, PTL

(* answer_like and answer_all_after never answer a request twice.          *)
THEOREM EachAnsweredOnce == Spec => []AnsweredOnce
<1>1. Inv => AnsweredOnce
  BY DEF Inv
<1>. QED
  BY <1>1, Invariance, PTL

(* What a command frees is what its `first` ran on, though the queue is    *)
(* unlocked in between.                                                    *)
THEOREM FreesWhatItMeant == Spec => []FreedWhereFirstRan
<1>1. Inv => FreedWhereFirstRan
  BY DEF Inv
<1>. QED
  BY <1>1, Invariance, PTL

(* An answer by id (answer_like) frees requests of one destination only.   *)
THEOREM SparesTheOthers == Spec => []SparesOthers
<1>1. Inv => SparesOthers
  BY DEF Inv
<1>. QED
  BY <1>1, Invariance, PTL

(* The flood guard of enqueue bounds the threads that wait.                *)
THEOREM FloodGuard == Spec => []WaitersBounded
<1>1. Inv => WaitersBounded
  <2>. SUFFICES ASSUME Inv PROVE WaitersBounded
    OBVIOUS
  <2>. DEFINE W == {p \in Parks : /\ thread[p] \in {"starting", "waiting"}
                                 /\ chan[p] = "empty"
                                 /\ \A o \in Drainers : p \notin taken[o]}
  <2>1. W \subseteq entries
    BY DEF Inv, NoOrphanWaiter, SenderAlive
  <2>2. Cardinality(W) <= Cap
    BY <2>1, FewerFit DEF Inv
  <2>. QED
    BY <2>2 DEF WaitersBounded
<1>. QED
  BY <1>1, Invariance, PTL

(* Without `ask_timeout`, what a command reports as answered heard that    *)
(* answer.                                                                 *)
THEOREM ReportsAreTrue == Spec => [](~AskTimeout => ToldIsTrue)
<1>1. ASSUME Inv, ~AskTimeout, NEW o \in Drainers, NEW p \in told[o], thread[p] = "done"
      PROVE  verdict[p] = cmd[o].verdict
  <2>0. p \in Parks /\ verdict[p] # "none"
    BY <1>1 DEF Inv, TypeOK, HeardOnce
  <2>1. ~SenderAlive(p) /\ verdict[p] = Received(p)
    BY <1>1, <2>0 DEF Inv, HearsTheAnswer
  <2>2. chan[p] # "empty" /\ verdict[p] = chan[p]
    BY <1>1, <2>1 DEF Inv, HeardOnce, SenderAlive, Received
  <2>3. PICK x \in Drainers : p \in told[x] /\ chan[p] = cmd[x].verdict
    BY <1>1, <2>0, <2>2 DEF Inv, AnswersAreTold
  <2>4. x = o
    BY <1>1, <2>3 DEF Inv, AnsweredOnce
  <2>. QED
    BY <2>2, <2>3, <2>4
<1>2. Inv => (~AskTimeout => ToldIsTrue)
  BY <1>1 DEF ToldIsTrue
<1>. QED
  BY <1>2, Invariance, PTL

-----------------------------------------------------------------------------
(* The queue implements AskPromise.                                        *)

(* A step that changes neither where a sender is nor what it will say      *)
(* decides nothing.                                                        *)
LEMMA NothingDecided ==
  ASSUME \A p \in Parks : /\ thread[p] = "unborn" <=> thread'[p] = "unborn"
                          /\ p \in entries <=> p \in entries'
                          /\ AllowOnItsWay(p) <=> AllowOnItsWay(p)'
  PROVE  Decided' = Decided
BY DEF Decided

(* What changes for one request.                                           *)
LEMMA OneDecided ==
  ASSUME NEW p \in Parks, NEW d,
         \A q \in Parks : q # p => Decided'[q] = Decided[q],
         Decided'[p] = d
  PROVE  Decided' = [Decided EXCEPT ![p] = d]
BY DEF Decided

(* Nothing is on its way to a request that is not let in, or is parked.    *)
LEMMA NothingOnItsWay ==
  ASSUME Inv, NEW p \in Parks, thread[p] = "unborn" \/ p \in entries
  PROVE  chan[p] = "empty" /\ ~AllowOnItsWay(p)
<1>1. chan[p] = "empty"
  BY DEF Inv, TypeOK, OneSender, AnswersAreTold
<1>2. \A o \in Drainers : p \notin taken[o]
  BY DEF Inv, OneSender
<1>. QED
  BY <1>1, <1>2 DEF AllowOnItsWay

LEMMA EnqueuePromise ==
  ASSUME Inv, NEW p \in Parks, Enqueue(p)
  PROVE  Promise!Admit(p)
<1>1. Decided[p] = "none" /\ Decided'[p] = "open"
  BY DEF Inv, TypeOK, Decided, Enqueue
<1>2. \A q \in Parks : q # p => Decided'[q] = Decided[q]
  BY DEF Inv, TypeOK, Decided, AllowOnItsWay, Enqueue
<1>. QED
  BY <1>1, <1>2, OneDecided DEF Promise!Admit, Enqueue

LEMMA DenyAtOncePromise ==
  ASSUME Inv, NEW p \in Parks, DenyAtOnce(p)
  PROVE  Promise!Refuse(p)
<1>1. chan[p] = "empty" /\ ~AllowOnItsWay(p) /\ p \notin entries
  BY NothingOnItsWay DEF Inv, OneSender, DenyAtOnce
<1>2. Decided[p] = "none" /\ Decided'[p] = "Deny"
  BY <1>1 DEF Inv, TypeOK, Decided, AllowOnItsWay, DenyAtOnce
<1>3. \A q \in Parks : q # p => Decided'[q] = Decided[q]
  BY DEF Inv, TypeOK, Decided, AllowOnItsWay, DenyAtOnce
<1>. QED
  BY <1>2, <1>3, OneDecided DEF Promise!Refuse, DenyAtOnce

(* A request that leaves the queue unanswered is denied.                   *)
LEMMA ForgetPromise ==
  ASSUME Inv, NEW p \in Parks, WithdrawForget(p) \/ WaitForget(p)
  PROVE  Promise!Decide({p}, "Deny") \/ UNCHANGED <<Decided, verdict>>
<1>0. /\ UNCHANGED <<chan, verdict, cmd, taken>>
      /\ entries' = entries \ {p}
      /\ \A q \in Parks : thread[q] = "unborn" <=> thread'[q] = "unborn"
      /\ thread[p] # "unborn"
  BY DEF Inv, TypeOK, WithdrawForget, WaitForget
<1>1. \A q \in Parks : AllowOnItsWay(q) <=> AllowOnItsWay(q)'
  BY <1>0 DEF AllowOnItsWay
<1>2. CASE p \in entries
  <2>1. Decided[p] = "open" /\ Decided'[p] = "Deny"
    BY <1>0, <1>1, <1>2, NothingOnItsWay DEF Decided
  <2>2. \A q \in Parks : q # p => Decided'[q] = Decided[q]
    BY <1>0, <1>1 DEF Decided
  <2>3. Decided' = [q \in Parks |-> IF q \in {p} THEN "Deny" ELSE Decided[q]]
    BY <2>1, <2>2 DEF Decided
  <2>. QED
    BY <1>0, <2>1, <2>3 DEF Promise!Decide
<1>3. CASE p \notin entries
  BY <1>0, <1>1, <1>3, NothingDecided
<1>. QED
  BY <1>2, <1>3

(* A thread that stops waiting hears what was decided, or gives up.        *)
LEMMA ThreadPromise ==
  ASSUME Inv, NEW p \in Parks,
         StartWaiter(p) \/ WithdrawRecv(p) \/ WaitRecv(p) \/ WaitTimeout(p)
  PROVE  Promise!Hear(p) \/ Promise!GiveUp(p) \/ UNCHANGED <<Decided, verdict>>
<1>0. /\ UNCHANGED <<entries, chan, cmd, taken>>
      /\ \A q \in Parks : thread[q] = "unborn" <=> thread'[q] = "unborn"
      /\ thread[p] # "unborn"
  BY DEF Inv, TypeOK, StartWaiter, WithdrawRecv, WaitRecv, WaitTimeout
<1>1. UNCHANGED Decided
  BY <1>0, NothingDecided DEF AllowOnItsWay
<1>2. CASE StartWaiter(p)
  BY <1>1, <1>2 DEF StartWaiter
<1>3. CASE WithdrawRecv(p) \/ WaitRecv(p)
  <2>1. ~SenderAlive(p) /\ verdict[p] = "none" /\ verdict' = [verdict EXCEPT ![p] = Received(p)]
    BY <1>3 DEF Inv, TypeOK, OneSender, SenderAlive, HeardOnce, WithdrawRecv, WaitRecv
  <2>2. Decided[p] = Received(p) /\ Received(p) \in {"Allow", "Deny"}
    BY <1>0, <2>1 DEF Inv, TypeOK, Decided, AllowOnItsWay, SenderAlive, Received, Verdicts
  <2>. QED
    BY <1>1, <2>1, <2>2 DEF Promise!Hear, Promise!Verdicts
<1>4. CASE WaitTimeout(p)
  <2>1. AskTimeout /\ verdict[p] = "none" /\ verdict' = [verdict EXCEPT ![p] = "Deny"]
    BY <1>4 DEF Inv, HeardOnce, WaitTimeout
  <2>2. Decided[p] # "none"
    BY <1>0 DEF Decided
  <2>. QED
    BY <1>1, <2>1, <2>2 DEF Promise!GiveUp
<1>. QED
  BY <1>2, <1>3, <1>4

(* A command that reads the queue decides nothing.                         *)
LEMMA ReadPromise ==
  ASSUME Inv, NEW o \in Drainers,
         \/ LinkEnds \/ FirstDone(o) \/ FirstFails(o)
         \/ o \in Ops /\ Command(o)
  PROVE  UNCHANGED <<Decided, verdict>>
<1>1. /\ UNCHANGED <<queueVars, waitVars, taken>>
      /\ \A x \in Drainers : taken[x] # {} => cmd'[x] = cmd[x]
  BY DEF Inv, TypeOK, CommandsInOrder, LinkEnds, FirstDone, FirstFails, Command, LookUp, DrainSee,
         LookUpMissing
<1>2. \A p \in Parks : AllowOnItsWay(p) <=> AllowOnItsWay(p)'
  BY <1>1 DEF AllowOnItsWay
<1>. QED
  BY <1>1, <1>2, NothingDecided

(* An answer by id decides the requests alike, a drain those it takes.     *)
LEMMA AnswerLikePromise ==
  ASSUME Inv, NEW o \in Drainers, AnswerLike(o)
  PROVE  Promise!Decide(Alike(cmd[o].target), cmd[o].verdict)
<1>. DEFINE M == Alike(cmd[o].target)
            v == cmd[o].verdict
<1>1. M \subseteq entries /\ M \subseteq Parks /\ v \in {"Allow", "Deny"}
  BY DEF Inv, TypeOK, Alike, Commands, Verdicts
<1>2. /\ UNCHANGED <<thread, verdict, cmd, taken>>
      /\ entries' = entries \ M
      /\ chan' = [p \in Parks |-> IF p \in M THEN v ELSE chan[p]]
  BY DEF AnswerLike
<1>. HIDE DEF M, v
<1>3. ASSUME NEW p \in Parks
      PROVE  Decided'[p] = IF p \in M THEN v ELSE Decided[p]
  <2>1. CASE p \in M
    <3>1. p \in entries /\ thread[p] # "unborn" /\ \A x \in Drainers : p \notin taken[x]
      BY <1>1, <2>1 DEF Inv, OneSender
    <3>2. AllowOnItsWay(p)' <=> v = "Allow"
      BY <1>2, <2>1, <3>1 DEF AllowOnItsWay
    <3>. QED
      BY <1>1, <1>2, <2>1, <3>1, <3>2 DEF Decided
  <2>2. CASE p \notin M
    <3>1. AllowOnItsWay(p)' <=> AllowOnItsWay(p)
      BY <1>2, <2>2 DEF AllowOnItsWay
    <3>. QED
      BY <1>2, <2>2, <3>1 DEF Decided
  <2>. QED
    BY <2>1, <2>2
<1>4. \A p \in M : Decided[p] = "open"
  BY <1>1 DEF Decided, Inv, OneSender
<1>5. Decided' = [p \in Parks |-> IF p \in M THEN v ELSE Decided[p]]
  BY <1>3 DEF Decided
<1>. QED
  BY <1>2, <1>4, <1>5 DEF Promise!Decide, M, v

LEMMA DrainTakePromise ==
  ASSUME Inv, NEW o \in Drainers, DrainTake(o)
  PROVE  \E S \in SUBSET Parks : Promise!Decide(S, cmd[o].verdict)
<1>. DEFINE D == {p \in entries : seq[p] \in seen[o] \/ Endpoint[dest[p]] \in ran[o]}
            v == cmd[o].verdict
<1>1. D \subseteq entries /\ D \subseteq Parks /\ v \in {"Allow", "Deny"} /\ taken[o] = {}
  BY DEF Inv, TypeOK, Commands, Verdicts, CommandsInOrder, DrainTake
<1>2. /\ UNCHANGED <<thread, verdict, chan, cmd>>
      /\ entries' = entries \ D
      /\ taken' = [taken EXCEPT ![o] = D]
      /\ cmd[o].verdict = v
  BY DEF DrainTake
<1>. HIDE DEF D, v
<1>3. ASSUME NEW p \in Parks
      PROVE  Decided'[p] = IF p \in D THEN v ELSE Decided[p]
  <2>1. CASE p \in D
    <3>1. /\ p \in entries /\ thread[p] # "unborn" /\ chan[p] = "empty"
          /\ \A x \in Drainers : p \notin taken[x]
      BY <1>1, <2>1 DEF Inv, OneSender
    <3>2. AllowOnItsWay(p)' <=> v = "Allow"
      BY <1>2, <2>1, <3>1 DEF AllowOnItsWay, Inv, TypeOK
    <3>. QED
      BY <1>1, <1>2, <2>1, <3>1, <3>2 DEF Decided
  <2>2. CASE p \notin D
    <3>1. AllowOnItsWay(p)' <=> AllowOnItsWay(p)
      BY <1>1, <1>2, <2>2 DEF AllowOnItsWay, Inv, TypeOK
    <3>. QED
      BY <1>2, <2>2, <3>1 DEF Decided
  <2>. QED
    BY <2>1, <2>2
<1>4. \A p \in D : Decided[p] = "open"
  BY <1>1 DEF Decided, Inv, OneSender
<1>5. Decided' = [p \in Parks |-> IF p \in D THEN v ELSE Decided[p]]
  BY <1>3 DEF Decided
<1>. QED
  BY <1>1, <1>2, <1>4, <1>5 DEF Promise!Decide

(* A send tells what was decided when the request was taken.               *)
LEMMA DrainSendPromise ==
  ASSUME Inv, NEW o \in Drainers, NEW p \in Parks, DrainSend(o, p)
  PROVE  UNCHANGED <<Decided, verdict>>
<1>1. /\ p \in taken[o] /\ chan[p] = "empty"
      /\ \A x \in Drainers : x # o => p \notin taken[x]
  BY DEF Inv, OneSender, AnsweredOnce, DrainSend
<1>2. /\ UNCHANGED <<queueVars, thread, verdict, cmd>>
      /\ chan' = [chan EXCEPT ![p] = cmd[o].verdict]
      /\ taken' = [taken EXCEPT ![o] = taken[o] \ {p}]
  BY DEF DrainSend
<1>3. AllowOnItsWay(p) <=> AllowOnItsWay(p)'
  BY <1>1, <1>2 DEF AllowOnItsWay, Inv, TypeOK
<1>4. \A q \in Parks : q # p => (AllowOnItsWay(q) <=> AllowOnItsWay(q)')
  BY <1>1, <1>2 DEF AllowOnItsWay, Inv, TypeOK
<1>. QED
  BY <1>2, <1>3, <1>4, NothingDecided

LEMMA StepPromise == Inv /\ [Next]_vars => [Promise!Next]_(Promise!vars)
<1>. SUFFICES ASSUME Inv, [Next]_vars
              PROVE  Promise!Next \/ UNCHANGED <<Decided, verdict>>
  BY DEF Promise!vars
<1>1. CASE UNCHANGED vars
  BY <1>1, NothingDecided DEF vars, AllowOnItsWay
<1>2. ASSUME NEW p \in Parks, ReaderStep(p) \/ WaiterStep(p)
      PROVE  Promise!Next \/ UNCHANGED <<Decided, verdict>>
  <2>1. CASE Enqueue(p) \/ DenyAtOnce(p)
    BY <2>1, EnqueuePromise, DenyAtOncePromise DEF Promise!Next
  <2>2. CASE StartWaiter(p) \/ WithdrawRecv(p) \/ WaitRecv(p) \/ WaitTimeout(p)
    BY <2>2, ThreadPromise DEF Promise!Next
  <2>3. CASE WithdrawForget(p) \/ WaitForget(p)
    <3>1. {p} \in SUBSET Parks /\ "Deny" \in Promise!Verdicts
      BY DEF Promise!Verdicts
    <3>. QED
      BY <2>3, <3>1, ForgetPromise DEF Promise!Next
  <2>. QED
    BY <1>2, <2>1, <2>2, <2>3 DEF ReaderStep, WaiterStep
<1>3. ASSUME NEW o \in Ops, Command(o)
      PROVE  UNCHANGED <<Decided, verdict>>
  BY <1>3, ReadPromise
<1>4. CASE LinkEnds
  BY <1>4, ReadPromise
<1>5. ASSUME NEW o \in Drainers, CommandStep(o)
      PROVE  Promise!Next \/ UNCHANGED <<Decided, verdict>>
  <2>1. cmd[o].verdict \in Promise!Verdicts /\ Alike(cmd[o].target) \in SUBSET Parks
    BY DEF Inv, TypeOK, Commands, Verdicts, Promise!Verdicts, Alike
  <2>2. CASE AnswerLike(o)
    BY <2>1, <2>2, AnswerLikePromise DEF Promise!Next
  <2>3. CASE DrainTake(o)
    BY <2>1, <2>3, DrainTakePromise DEF Promise!Next
  <2>4. CASE FirstDone(o) \/ FirstFails(o) \/ \E p \in Parks : DrainSend(o, p)
    BY <2>4, ReadPromise, DrainSendPromise
  <2>. QED
    BY <1>5, <2>2, <2>3, <2>4 DEF CommandStep
<1>. QED
  BY <1>1, <1>2, <1>3, <1>4, <1>5 DEF Next, Finished

(* Each request is decided once and for good when it leaves the queue, and *)
(* hears what was decided, or a deny if it gave up first.                  *)
THEOREM QueueKeepsPromise == Spec => KeepsPromise
<1>1. Init => Promise!Init
  BY DEF Init, Promise!Init, Decided
<1>. QED
  BY <1>1, StepPromise, Invariance, PTL DEF Spec, KeepsPromise, Promise!Spec
=============================================================================
