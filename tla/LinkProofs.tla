------------------------------ MODULE LinkProofs ----------------------------
(***************************************************************************)
(* Proofs about the link between the proxy and its supervisor, for any     *)
(* number of questions, requests, credential sets and naming slots:        *)
(* LinkReplies, then CredRefresh (as Refresh).                             *)
(***************************************************************************)
EXTENDS MCLink, TLAPS, FiniteSetTheorems

USE DEF askVars, wireVars, superVars

-----------------------------------------------------------------------------
(* LinkReplies.                                                            *)

(* Nothing is asked and nothing is on its way.                             *)
LEMMA InitInv == Init => Inv
<1>. SUFFICES ASSUME Init PROVE Inv
  OBVIOUS
<1>1. {a \in Asks : pc[a] # "ready"} = {}
  BY DEF Init
<1>2. Cardinality(Asks) \in Nat /\ Cardinality({}) = 0 /\ IsFiniteSet({})
  BY AsksAssumption, FS_CardinalityType, FS_EmptySet
<1>3. TypeOK
  <2>1. 0 \in 0 .. Cardinality(Asks) /\ DOMAIN replies = {}
    BY <1>2 DEF Init
  <2>2. up \in Seq(Questions) /\ down \in Seq(Questions)
    BY DEF Init
  <2>3. naming \in 0 .. NamingMax
    BY NamingMaxAssumption DEF Init
  <2>4. reader \in 0 .. 3
    BY DEF Init
  <2>7. {shut, left, server} \subseteq BOOLEAN
    BY Zenon DEF Init
  <2>5. /\ pc \in [Asks -> {"ready", "registered", "waiting", "forget", "done"}]
        /\ id \in [Asks -> 0 .. next] /\ chan \in [Asks -> Asks \cup {NoAnswer}]
    BY DEF Init
  <2>6. /\ next \in 0 .. Cardinality(Asks) /\ timed \subseteq Asks
        /\ pending \subseteq Questions /\ walks \subseteq Questions
    BY <2>1 DEF Init
  <2>. QED
    BY <2>1, <2>2, <2>3, <2>4, <2>5, <2>6, <2>7 DEF TypeOK
<1>4. IdsAreTheirOwn
  <2>1. next = Cardinality({a \in Asks : pc[a] # "ready"})
    BY <1>1, <1>2 DEF Init
  <2>. QED
    BY <2>1 DEF Init, IdsAreTheirOwn
<1>7. SentUnderItsId /\ SentOnce /\ HandedOverOnce /\ ShutFirst
  BY DEF Init, SentUnderItsId, SentOnce, HandedOverOnce, ShutFirst
<1>5. RepliesFindTheirs
  BY DEF Init, RepliesFindTheirs, AnswerIsItsOwn, NothingLeftWaiting, NobodyStranded
<1>6. IsFiniteSet(walks) /\ SlotsHeld
  BY <1>2, NamingMaxAssumption DEF Init, SlotsHeld
<1>. QED
  BY <1>3, <1>4, <1>5, <1>6, <1>7 DEF Inv

(* What a message on its way is, and what taking the first of some leaves. *)
LEMMA QuestionParts ==
  ASSUME NEW q \in Questions
  PROVE  q.for \in Asks /\ q.id \in Nat /\ q.id # 0
<1>1. Cardinality(Asks) \in Nat
  BY AsksAssumption, FS_CardinalityType
<1>. QED
  BY <1>1 DEF Questions

LEMMA FirstTaken ==
  ASSUME NEW S, NEW s \in Seq(S), s # << >>
  PROVE  /\ Head(s) \in S /\ Tail(s) \in Seq(S) /\ Head(s) = s[1] /\ 1 \in DOMAIN s
         /\ \A i \in DOMAIN Tail(s) : i + 1 \in DOMAIN s /\ i + 1 # 1 /\ Tail(s)[i] = s[i + 1]
OBVIOUS

(* A question takes an id of its own.                                      *)
LEMMA RegisterInv ==
  ASSUME Inv, NEW a \in Asks, Register(a)
  PROVE  Inv'
<1>. DEFINE Asked == {b \in Asks : pc[b] # "ready"}
<1>1. /\ pc[a] = "ready" /\ next' = next + 1
      /\ id' = [id EXCEPT ![a] = next + 1] /\ pc' = [pc EXCEPT ![a] = "registered"]
      /\ DOMAIN replies' = DOMAIN replies \cup {next + 1}
      /\ \A i \in DOMAIN replies' : replies'[i] = IF i = next + 1 THEN a ELSE replies[i]
      /\ UNCHANGED <<timed, chan, wireVars, reader, superVars>>
  BY DEF Register, FreshId, Goto
<1>2. {b \in Asks : pc'[b] # "ready"} = Asked \cup {a} /\ a \notin Asked
  BY <1>1 DEF Inv, TypeOK
<1>3. /\ Cardinality({b \in Asks : pc'[b] # "ready"}) = next + 1
      /\ next + 1 <= Cardinality(Asks) /\ Cardinality(Asks) \in Nat
  <2>1. IsFiniteSet(Asked) /\ Cardinality(Asked) = next
    BY AsksAssumption, FS_Subset DEF Inv, IdsAreTheirOwn
  <2>2. Asked \cup {a} \in SUBSET Asks
    OBVIOUS
  <2>. HIDE DEF Asked
  <2>3. Cardinality(Asked \cup {a}) = next + 1
    BY <2>1, <1>2, FS_AddElement
  <2>4. Cardinality(Asked \cup {a}) <= Cardinality(Asks) /\ Cardinality(Asks) \in Nat
    BY <2>2, AsksAssumption, FS_Subset, FS_CardinalityType
  <2>. QED
    BY <2>3, <2>4, <1>2
<1>. HIDE DEF Asked
<1>4. \A b \in Asks : id[b] \in 0 .. next
  BY DEF Inv, TypeOK
<1>5. TypeOK'
  <2>1. next' \in 0 .. Cardinality(Asks) /\ id' \in [Asks -> 0 .. next']
    BY <1>1, <1>3, <1>4 DEF Inv, TypeOK
  <2>2. DOMAIN replies' \subseteq 1 .. next' /\ \A i \in DOMAIN replies' : replies'[i] \in Asks
    BY <1>1, <1>3 DEF Inv, TypeOK
  <2>. QED
    BY <1>1, <2>1, <2>2 DEF Inv, TypeOK
<1>6. IdsAreTheirOwn'
  <2>1. next' = Cardinality({b \in Asks : pc'[b] # "ready"})
    BY <1>1, <1>3
  <2>2. \A b \in Asks : pc'[b] = "ready" <=> id'[b] = 0
    BY <1>1, <1>3 DEF Inv, TypeOK, IdsAreTheirOwn
  <2>3. \A b, c \in Asks : id'[b] = id'[c] /\ id'[b] # 0 => b = c
    BY <1>1, <1>4 DEF Inv, TypeOK, IdsAreTheirOwn
  <2>. QED
    BY <2>1, <2>2, <2>3 DEF IdsAreTheirOwn
<1>7. \A q \in Questions : q.for # a => id'[q.for] = id[q.for] /\ pc'[q.for] = pc[q.for]
  BY <1>1, QuestionParts DEF Inv, TypeOK
<1>8. /\ \A i \in DOMAIN up : up[i] \in Questions /\ up[i].for # a
      /\ \A q \in pending \cup walks : q \in Questions /\ q.for # a
  BY <1>1 DEF Inv, TypeOK, SentOnce
<1>9. \A i \in DOMAIN down : down[i] \in Questions /\ down[i].for # a
  <2>1. \A i \in DOMAIN down : down[i] \in Questions
    BY DEF Inv, TypeOK
  <2>2. \A i \in DOMAIN down : down[i].id # 0 /\ down[i].id = id[down[i].for]
    BY <2>1, QuestionParts DEF Inv, SentUnderItsId
  <2>3. id[a] = 0
    BY <1>1 DEF Inv, IdsAreTheirOwn
  <2>. QED
    BY <2>1, <2>2, <2>3
<1>10. SentUnderItsId' /\ SentOnce'
  BY <1>1, <1>7, <1>8, <1>9 DEF Inv, SentUnderItsId, SentOnce
<1>11. HandedOverOnce'
  <2>. SUFFICES ASSUME NEW b \in Asks, chan[b] # NoAnswer
                PROVE  pc'[b] # "ready" /\ id'[b] \notin DOMAIN replies'
    BY <1>1 DEF HandedOverOnce
  <2>1. b # a /\ pc[b] # "ready" /\ id[b] \notin DOMAIN replies
    BY <1>1 DEF Inv, HandedOverOnce
  <2>. QED
    BY <1>1, <1>4, <2>1 DEF Inv, TypeOK
<1>12. AnswerIsItsOwn'
  BY <1>1 DEF Inv, RepliesFindTheirs, AnswerIsItsOwn
<1>13. NothingLeftWaiting'
  <2>. SUFFICES ASSUME NEW i \in DOMAIN replies'
                PROVE  /\ id'[replies'[i]] = i
                       /\ pc'[replies'[i]] \in {"registered", "waiting", "forget"}
    BY DEF NothingLeftWaiting
  <2>1. CASE i = next + 1
    BY <1>1, <2>1 DEF Inv, TypeOK
  <2>2. CASE i # next + 1
    <3>1. i \in DOMAIN replies /\ replies'[i] = replies[i] /\ replies[i] \in Asks
      BY <1>1, <2>2 DEF Inv, TypeOK
    <3>2. replies[i] # a
      BY <3>1, <1>1 DEF Inv, RepliesFindTheirs, NothingLeftWaiting
    <3>. QED
      BY <1>1, <3>1, <3>2 DEF Inv, TypeOK, RepliesFindTheirs, NothingLeftWaiting
  <2>. QED
    BY <2>1, <2>2
<1>14. NobodyStranded'
  <2>. SUFFICES ASSUME reader = 3, NEW b \in Asks, pc'[b] = "waiting"
                PROVE  id'[b] \notin DOMAIN replies'
    BY <1>1 DEF NobodyStranded
  <2>1. b # a /\ pc[b] = "waiting"
    BY <1>1 DEF Inv, TypeOK
  <2>. QED
    BY <1>1, <1>4, <2>1 DEF Inv, TypeOK, RepliesFindTheirs, NobodyStranded
<1>15. ShutFirst' /\ IsFiniteSet(walks') /\ SlotsHeld'
  BY <1>1 DEF Inv, ShutFirst, SlotsHeld
<1>. QED
  BY <1>5, <1>6, <1>10, <1>11, <1>12, <1>13, <1>14, <1>15 DEF Inv, RepliesFindTheirs

(* A question is sent once, under its id, unless the link has ended.       *)
LEMMA SendInv ==
  ASSUME Inv, NEW a \in Asks, Send(a)
  PROVE  Inv'
<1>. DEFINE q == [id |-> id[a], for |-> a]
<1>0. /\ pc[a] = "registered"
      /\ pc' = [pc EXCEPT ![a] = IF shut THEN "forget" ELSE "waiting"]
      /\ up' = IF shut THEN up ELSE Append(up, q)
      /\ UNCHANGED <<timed, next, replies, id, chan, down, shut, left, reader, superVars>>
  BY DEF Send, Goto
<1>1. q \in Questions
  <2>1. id[a] \in 1 .. next /\ next \in 0 .. Cardinality(Asks)
    BY <1>0 DEF Inv, TypeOK, IdsAreTheirOwn
  <2>2. Cardinality(Asks) \in Nat
    BY AsksAssumption, FS_CardinalityType
  <2>. QED
    BY <2>1, <2>2 DEF Questions
<1>2. q.id = id[a] /\ q.for = a
  OBVIOUS
<1>. HIDE DEF q
<1>3. TypeOK'
  <2>1. up' \in Seq(Questions)
    BY <1>0, <1>1 DEF Inv, TypeOK
  <2>. QED
    BY <1>0, <2>1 DEF Inv, TypeOK
<1>4. IdsAreTheirOwn'
  <2>1. \A b \in Asks : pc'[b] = "ready" <=> pc[b] = "ready"
    BY <1>0 DEF Inv, TypeOK
  <2>2. {b \in Asks : pc'[b] # "ready"} = {b \in Asks : pc[b] # "ready"}
    BY <2>1
  <2>. QED
    BY <1>0, <2>1, <2>2 DEF Inv, IdsAreTheirOwn
<1>5. \A x \in Questions :
        pc[x.for] \notin {"ready", "registered"} => /\ x # q /\ x.for # a
                                                    /\ pc'[x.for] = pc[x.for]
  BY <1>0, <1>2, QuestionParts DEF Inv, TypeOK
<1>6. /\ \A x \in pending \cup walks : x \in Questions
      /\ \A i \in DOMAIN up : up[i] \in Questions
  BY DEF Inv, TypeOK
<1>7. pc'[a] \notin {"ready", "registered"}
  BY <1>0 DEF Inv, TypeOK
<1>8. SentUnderItsId' /\ SentOnce'
  <2>1. CASE shut
    BY <1>0, <1>5, <1>6, <2>1 DEF Inv, SentUnderItsId, SentOnce
  <2>2. CASE ~shut
    <3>1. /\ \A i \in DOMAIN up' : \/ i \in DOMAIN up /\ up'[i] = up[i]
                                   \/ i = Len(up) + 1 /\ up'[i] = q
      BY <1>0, <1>1, <2>2 DEF Inv, TypeOK
    <3>2. /\ \A x \in pending \cup walks : x # q
          /\ \A i \in DOMAIN up : up[i] # q
      BY <1>5, <1>6 DEF Inv, SentOnce
    <3>. QED
      BY <1>0, <1>2, <1>5, <1>6, <1>7, <3>1, <3>2 DEF Inv, SentUnderItsId, SentOnce
  <2>. QED
    BY <2>1, <2>2
<1>9. HandedOverOnce' /\ AnswerIsItsOwn'
  BY <1>0, <1>7 DEF Inv, TypeOK, HandedOverOnce, RepliesFindTheirs, AnswerIsItsOwn
<1>10. NothingLeftWaiting'
  BY <1>0 DEF Inv, TypeOK, RepliesFindTheirs, NothingLeftWaiting
<1>11. NobodyStranded'
  BY <1>0 DEF Inv, TypeOK, ShutFirst, RepliesFindTheirs, NobodyStranded
<1>12. ShutFirst' /\ IsFiniteSet(walks') /\ SlotsHeld'
  BY <1>0 DEF Inv, ShutFirst, SlotsHeld
<1>. QED
  BY <1>3, <1>4, <1>8, <1>9, <1>10, <1>11, <1>12 DEF Inv, RepliesFindTheirs

(* A question that stops waiting, or is forgotten, leaves the table with   *)
(* nothing of its own once it is done.                                     *)
LEMMA LeaveInv ==
  ASSUME Inv, NEW a \in Asks, NEW to \in {"forget", "done"},
         pc[a] \in {"waiting", "forget"}, pc' = [pc EXCEPT ![a] = to],
         replies' = replies \/ replies' = Without(id[a]),
         to = "done" => id[a] \notin DOMAIN replies',
         UNCHANGED <<timed, next, id, chan, wireVars, reader, superVars>>
  PROVE  Inv'
<1>1. /\ DOMAIN replies' \subseteq DOMAIN replies
      /\ \A i \in DOMAIN replies' : replies'[i] = replies[i]
  BY DEF Without
<1>2. TypeOK'
  BY <1>1 DEF Inv, TypeOK
<1>3. \A b \in Asks : /\ pc'[b] = "ready" <=> pc[b] = "ready"
                      /\ pc'[b] = "registered" <=> pc[b] = "registered"
                      /\ pc'[b] = "waiting" => pc[b] = "waiting"
  BY DEF Inv, TypeOK
<1>4. IdsAreTheirOwn'
  <2>1. {b \in Asks : pc'[b] # "ready"} = {b \in Asks : pc[b] # "ready"}
    BY <1>3
  <2>. QED
    BY <1>3, <2>1 DEF Inv, IdsAreTheirOwn
<1>5. /\ \A x \in pending \cup walks : x \in Questions
      /\ \A i \in DOMAIN up : up[i] \in Questions
  BY DEF Inv, TypeOK
<1>6. SentUnderItsId' /\ SentOnce'
  BY <1>3, <1>5, QuestionParts DEF Inv, SentUnderItsId, SentOnce
<1>7. HandedOverOnce' /\ AnswerIsItsOwn'
  BY <1>1, <1>3 DEF Inv, HandedOverOnce, RepliesFindTheirs, AnswerIsItsOwn
<1>8. NothingLeftWaiting'
  <2>. SUFFICES ASSUME NEW i \in DOMAIN replies'
                PROVE  /\ id[replies[i]] = i
                       /\ pc'[replies[i]] \in {"registered", "waiting", "forget"}
    BY <1>1 DEF NothingLeftWaiting
  <2>1. /\ replies[i] \in Asks /\ id[replies[i]] = i
        /\ pc[replies[i]] \in {"registered", "waiting", "forget"}
    BY <1>1 DEF Inv, TypeOK, RepliesFindTheirs, NothingLeftWaiting
  <2>2. replies[i] = a => to = "forget"
    BY <2>1
  <2>. QED
    BY <2>1, <2>2 DEF Inv, TypeOK
<1>9. NobodyStranded'
  BY <1>1, <1>3 DEF Inv, RepliesFindTheirs, NobodyStranded
<1>10. ShutFirst' /\ IsFiniteSet(walks') /\ SlotsHeld'
  BY DEF Inv, ShutFirst, SlotsHeld
<1>. QED
  BY <1>2, <1>4, <1>6, <1>7, <1>8, <1>9, <1>10 DEF Inv, RepliesFindTheirs

(* A question stops waiting: it has its answer, it was let go, or it gives *)
(* up and goes back to the table.                                          *)
LEMMA AskingInv ==
  ASSUME Inv, NEW a \in Asks, Asking(a)
  PROVE  Inv'
<1>1. CASE Receive(a)
  <2>1. id[a] \notin DOMAIN replies
    BY <1>1 DEF Inv, HandedOverOnce, Receive
  <2>. QED
    BY <1>1, <2>1, LeaveInv DEF Receive, Goto
<1>2. CASE LetGo(a)
  BY <1>2, LeaveInv DEF LetGo, Goto, AfterGivingUp
<1>3. CASE TimeOut(a)
  BY <1>3, LeaveInv DEF TimeOut, Goto, AfterGivingUp
<1>4. CASE Forget(a)
  <2>1. id[a] \notin DOMAIN replies'
    BY <1>4 DEF Forget, Without
  <2>. QED
    BY <1>4, <2>1, LeaveInv DEF Forget, Goto
<1>. QED
  BY <1>1, <1>2, <1>3, <1>4, RegisterInv, SendInv DEF Asking

(* Ending the link, at either end, leaves the questions where they are.    *)
LEMMA EndingInv ==
  ASSUME Inv, Drop \/ ReadEnd \/ ServerEnds \/ Close
  PROVE  Inv'
<1>0. /\ UNCHANGED <<askVars, up, down, pending, walks, naming>>
      /\ shut => shut'
      /\ reader' \in {reader, 1} /\ reader' \in 0 .. 3
  BY DEF Inv, TypeOK, Drop, ReadEnd, ServerEnds, Close
<1>1. {shut, left, server}' \subseteq BOOLEAN
  <2>1. /\ shut' \in {shut, TRUE, shut \/ EndsLink} /\ left' \in {left, TRUE}
        /\ server' \in {server, FALSE}
    BY DEF Drop, ReadEnd, ServerEnds, Close
  <2>. QED
    BY <2>1, Zenon DEF Inv, TypeOK
<1>2. TypeOK'
  BY <1>0, <1>1 DEF Inv, TypeOK
<1>3. IdsAreTheirOwn' /\ SentUnderItsId' /\ SentOnce' /\ HandedOverOnce'
  BY <1>0 DEF Inv, IdsAreTheirOwn, SentUnderItsId, SentOnce, HandedOverOnce
<1>4. ShutFirst' /\ RepliesFindTheirs'
  BY <1>0 DEF Inv, ShutFirst, RepliesFindTheirs, AnswerIsItsOwn, NothingLeftWaiting,
              NobodyStranded
<1>5. IsFiniteSet(walks') /\ SlotsHeld'
  BY <1>0 DEF Inv, SlotsHeld
<1>. QED
  BY <1>2, <1>3, <1>4, <1>5 DEF Inv

(* An answer is handed to the question whose id it carries, which is its   *)
(* own: no two questions have one id.                                      *)
LEMMA HandOverInv ==
  ASSUME Inv, HandOver
  PROVE  Inv'
<1>. DEFINE i == Head(down).id
            a == Head(down).for
<1>1. /\ Head(down) \in Questions /\ Tail(down) \in Seq(Questions)
      /\ i = id[a]
      /\ \A j \in DOMAIN Tail(down) : j + 1 \in DOMAIN down /\ Tail(down)[j] = down[j + 1]
  <2>1. down \in Seq(Questions) /\ down # << >>
    BY DEF Inv, TypeOK, HandOver
  <2>2. Head(down) = down[1] /\ 1 \in DOMAIN down
    BY <2>1, FirstTaken
  <2>. QED
    BY <2>1, <2>2, FirstTaken DEF Inv, SentUnderItsId
<1>2. a \in Asks /\ i # 0
  BY <1>1, QuestionParts
<1>3. /\ down' = Tail(down)
      /\ UNCHANGED <<timed, next, pc, id, up, shut, left, reader, superVars>>
  BY DEF HandOver
<1>4. /\ DOMAIN replies' = DOMAIN replies \ {i}
      /\ \A j \in DOMAIN replies' : replies'[j] = replies[j]
      /\ chan' = IF i \in DOMAIN replies THEN [chan EXCEPT ![replies[i]] = a] ELSE chan
  BY DEF HandOver, Without
<1>5. i \in DOMAIN replies => replies[i] = a /\ pc[a] # "ready"
  BY <1>1, <1>2 DEF Inv, TypeOK, IdsAreTheirOwn, RepliesFindTheirs, NothingLeftWaiting
<1>. HIDE DEF i, a
<1>6. TypeOK'
  BY <1>1, <1>2, <1>3, <1>4, <1>5 DEF Inv, TypeOK
<1>7. IdsAreTheirOwn' /\ SentOnce' /\ ShutFirst' /\ IsFiniteSet(walks') /\ SlotsHeld'
  BY <1>3 DEF Inv, IdsAreTheirOwn, SentOnce, ShutFirst, SlotsHeld
<1>8. SentUnderItsId'
  BY <1>1, <1>3 DEF Inv, SentUnderItsId
<1>9. HandedOverOnce' /\ AnswerIsItsOwn'
  BY <1>1, <1>2, <1>3, <1>4, <1>5
     DEF Inv, TypeOK, HandedOverOnce, RepliesFindTheirs, AnswerIsItsOwn
<1>10. NothingLeftWaiting' /\ NobodyStranded'
  BY <1>3, <1>4 DEF Inv, RepliesFindTheirs, NothingLeftWaiting, NobodyStranded
<1>. QED
  BY <1>6, <1>7, <1>8, <1>9, <1>10 DEF Inv, RepliesFindTheirs

(* The reader shuts the socket down, then lets the waiting go.             *)
LEMMA EndStepInv ==
  ASSUME Inv, EndStep
  PROVE  Inv'
<1>1. \/ reader = 1 /\ reader' = 2 /\ shut' /\ replies' = replies
      \/ reader = 2 /\ reader' = 3 /\ shut' /\ replies' = << >>
  <2>1. reader \in {1, 2} /\ Ending[1] = "shutdown" /\ Ending[2] = "clear"
    BY DEF EndStep, Ending
  <2>2. reader = 1 => reader' = 2 /\ replies' = replies
    BY <2>1 DEF EndStep
  <2>3. reader = 2 => reader' = 3 /\ replies' = << >>
    BY <2>1 DEF EndStep
  <2>4. shut'
    BY <2>1 DEF EndStep, Inv, ShutFirst
  <2>. QED
    BY <2>1, <2>2, <2>3, <2>4
<1>2. /\ UNCHANGED <<timed, next, pc, id, chan, up, down, left, superVars>>
      /\ DOMAIN replies' \subseteq DOMAIN replies
      /\ \A i \in DOMAIN replies' : replies'[i] = replies[i]
  BY <1>1 DEF EndStep
<1>3. {shut, left, server}' \subseteq BOOLEAN
  <2>1. shut' \in BOOLEAN
    BY DEF EndStep
  <2>. QED
    BY <2>1, <1>2 DEF Inv, TypeOK
<1>4. TypeOK'
  BY <1>1, <1>2, <1>3 DEF Inv, TypeOK
<1>5. IdsAreTheirOwn' /\ SentUnderItsId' /\ SentOnce' /\ IsFiniteSet(walks') /\ SlotsHeld'
  BY <1>2 DEF Inv, IdsAreTheirOwn, SentUnderItsId, SentOnce, SlotsHeld
<1>6. ShutFirst' /\ HandedOverOnce' /\ AnswerIsItsOwn' /\ NothingLeftWaiting'
  BY <1>1, <1>2 DEF Inv, ShutFirst, HandedOverOnce, RepliesFindTheirs, AnswerIsItsOwn,
                    NothingLeftWaiting
<1>7. NobodyStranded'
  BY <1>1, <1>2 DEF NobodyStranded
<1>. QED
  BY <1>4, <1>5, <1>6, <1>7 DEF Inv, RepliesFindTheirs

(* What the supervisor does with a question leaves the table alone.        *)
LEMMA SupervisorInv ==
  ASSUME Inv, UNCHANGED <<askVars, shut, left, reader, server>>,
         TypeOK', SentUnderItsId', SentOnce', IsFiniteSet(walks'), SlotsHeld'
  PROVE  Inv'
<1>1. IdsAreTheirOwn' /\ HandedOverOnce' /\ ShutFirst'
  BY DEF Inv, IdsAreTheirOwn, HandedOverOnce, ShutFirst
<1>2. RepliesFindTheirs'
  BY DEF Inv, RepliesFindTheirs, AnswerIsItsOwn, NothingLeftWaiting, NobodyStranded
<1>. QED
  BY <1>1, <1>2 DEF Inv

(* An answer goes down the link under the id of its question.              *)
LEMMA Answering ==
  ASSUME Inv, NEW q \in Questions, q.id = id[q.for], Say(q)
  PROVE  /\ down' \in Seq(Questions)
         /\ \A i \in DOMAIN down' : down'[i].id = id[down'[i].for]
BY DEF Inv, TypeOK, SentUnderItsId, Say

(* The first question on its way is one of its own, not yet served.        *)
LEMMA FirstQuestion ==
  ASSUME Inv, up # << >>
  PROVE  /\ Head(up) \in Questions /\ Head(up).id = id[Head(up).for]
         /\ Head(up) \notin pending \cup walks
         /\ pc[Head(up).for] \notin {"ready", "registered"}
         /\ Tail(up) \in Seq(Questions)
         /\ \A i \in DOMAIN Tail(up) : /\ i + 1 \in DOMAIN up /\ Tail(up)[i] = up[i + 1]
                                       /\ Tail(up)[i] # Head(up)
<1>1. up \in Seq(Questions)
  BY DEF Inv, TypeOK
<1>2. /\ Head(up) \in Questions /\ Tail(up) \in Seq(Questions)
      /\ Head(up) = up[1] /\ 1 \in DOMAIN up
      /\ \A i \in DOMAIN Tail(up) : i + 1 \in DOMAIN up /\ i + 1 # 1 /\ Tail(up)[i] = up[i + 1]
  BY <1>1, FirstTaken
<1>. QED
  BY <1>2 DEF Inv, SentUnderItsId, SentOnce

(* A question read is answered by a thread, at once, or by a walk.         *)
LEMMA ServeInv ==
  ASSUME Inv, Serve \/ ServeUnnamed \/ ServeIdentify
  PROVE  Inv'
<1>0. /\ up # << >> /\ up' = Tail(up)
      /\ UNCHANGED <<askVars, shut, left, reader, server>>
      /\ pending' \in {pending, pending \cup {Head(up)}}
      /\ walks' \in {walks, walks \cup {Head(up)}}
  BY DEF Serve, ServeUnnamed, ServeIdentify
<1>1. /\ Head(up) \in Questions /\ Head(up).id = id[Head(up).for]
      /\ Head(up) \notin pending \cup walks
      /\ pc[Head(up).for] \notin {"ready", "registered"}
      /\ Tail(up) \in Seq(Questions)
      /\ \A i \in DOMAIN Tail(up) : /\ i + 1 \in DOMAIN up /\ Tail(up)[i] = up[i + 1]
                                    /\ Tail(up)[i] # Head(up)
      /\ \A i, j \in DOMAIN Tail(up) : i + 1 = j + 1 => i = j
  BY <1>0, FirstQuestion
<1>2. /\ down' \in Seq(Questions)
      /\ \A i \in DOMAIN down' : down'[i].id = id[down'[i].for]
  <2>1. down' = down \/ Say(Head(up))
    BY DEF Serve, ServeUnnamed, ServeIdentify
  <2>. QED
    BY <2>1, <1>1, Answering DEF Inv, TypeOK, SentUnderItsId
<1>3. SentUnderItsId' /\ SentOnce'
  BY <1>0, <1>1, <1>2 DEF Inv, SentUnderItsId, SentOnce
<1>4. IsFiniteSet(walks') /\ SlotsHeld' /\ naming' \in 0 .. NamingMax
  <2>1. CASE walks' = walks /\ naming' = naming
    BY <2>1 DEF Inv, TypeOK, SlotsHeld
  <2>2. CASE walks' = walks \cup {Head(up)} /\ naming' = naming + 1 /\ naming < NamingMax
    <3>1. IsFiniteSet(walks') /\ Cardinality(walks') = Cardinality(walks) + 1
      BY <1>1, <2>2, FS_AddElement DEF Inv
    <3>. QED
      BY <2>2, <3>1, NamingMaxAssumption DEF Inv, TypeOK, SlotsHeld
  <2>. QED
    BY <2>1, <2>2 DEF Serve, ServeUnnamed, ServeIdentify, SlotFree
<1>5. TypeOK'
  BY <1>0, <1>1, <1>2, <1>4 DEF Inv, TypeOK
<1>. QED
  BY <1>0, <1>3, <1>4, <1>5, SupervisorInv

(* A question is answered, or a walk for it ends.                          *)
LEMMA AnswerInv ==
  ASSUME Inv, NEW q \in pending \cup walks, Answer(q) \/ WalkPanics(q) \/ WalkEnds(q)
  PROVE  Inv'
<1>0. /\ UNCHANGED <<askVars, up, shut, left, reader, server>>
      /\ pending' \in {pending, pending \ {q}} /\ walks' \in {walks, walks \ {q}}
  BY DEF Answer, WalkPanics, WalkEnds
<1>1. q \in Questions /\ q.id = id[q.for]
  BY DEF Inv, TypeOK, SentUnderItsId
<1>2. /\ down' \in Seq(Questions)
      /\ \A i \in DOMAIN down' : down'[i].id = id[down'[i].for]
  <2>1. down' = down \/ Say(q)
    BY DEF Answer, WalkPanics, WalkEnds
  <2>. QED
    BY <2>1, <1>1, Answering DEF Inv, TypeOK, SentUnderItsId
<1>3. SentUnderItsId' /\ SentOnce'
  BY <1>0, <1>2 DEF Inv, SentUnderItsId, SentOnce
<1>4. IsFiniteSet(walks') /\ SlotsHeld' /\ naming' \in 0 .. NamingMax
  <2>1. CASE walks' = walks /\ naming' = naming
    BY <2>1 DEF Inv, TypeOK, SlotsHeld
  <2>2. CASE q \in walks /\ walks' = walks \ {q} /\ naming' = naming - 1
    <3>1. /\ IsFiniteSet(walks') /\ Cardinality(walks') = Cardinality(walks) - 1
          /\ Cardinality(walks') \in Nat
      BY <2>2, FS_RemoveElement, FS_CardinalityType DEF Inv
    <3>. QED
      BY <2>2, <3>1, NamingMaxAssumption DEF Inv, TypeOK, SlotsHeld
  <2>. QED
    BY <2>1, <2>2 DEF Answer, WalkPanics, WalkEnds, GivenBack
<1>5. TypeOK'
  BY <1>0, <1>2, <1>4 DEF Inv, TypeOK
<1>. QED
  BY <1>0, <1>3, <1>4, <1>5, SupervisorInv

(* The invariant of the table, the link and the walks.                     *)
THEOREM RepliesInvariance == Spec => []Inv
<1>1. Inv /\ [Next]_vars => Inv'
  <2>. SUFFICES ASSUME Inv, [Next]_vars PROVE Inv'
    OBVIOUS
  <2>1. CASE UNCHANGED vars
    <3>1. SentUnderItsId' /\ SentOnce' /\ IsFiniteSet(walks') /\ SlotsHeld' /\ TypeOK'
      BY <2>1 DEF vars, Inv, SentUnderItsId, SentOnce, SlotsHeld, TypeOK
    <3>. QED
      BY <2>1, <3>1, SupervisorInv DEF vars
  <2>2. CASE \E a \in Asks : Asking(a)
    BY <2>2, AskingInv
  <2>3. CASE Drop \/ ProxyReader \/ SupervisorReader \/ Close
    BY <2>3, EndingInv, HandOverInv, EndStepInv, ServeInv DEF ProxyReader, SupervisorReader
  <2>4. CASE \E q \in pending \cup walks : Answer(q) \/ WalkPanics(q) \/ WalkEnds(q)
    BY <2>4, AnswerInv
  <2>. QED
    BY <2>1, <2>2, <2>3, <2>4 DEF Next
<1>. QED
  BY <1>1, InitInv, PTL DEF Spec

(* An answer reaches its own question whoever gave up before it, a         *)
(* question leaves nothing in the table, and nobody is left to wait there  *)
(* once the proxy's reader has let the waiting go.                         *)
THEOREM AnswersFindTheirs == Spec => []RepliesFindTheirs
<1>1. Inv => RepliesFindTheirs
  BY DEF Inv
<1>. QED
  BY <1>1, RepliesInvariance, PTL

(* The questions it is about, one by one.                                  *)
LEMMA KeptOneByOne ==
  ASSUME WalksAreTimed', ReadWhileUp',
         \A a \in Asks :
           /\ pc'[a] \in {"registered", "waiting"} /\ ~shut' =>
                chan'[a] # NoAnswer \/ id'[a] \in DOMAIN replies'
           /\ a \notin timed' /\ pc'[a] = "waiting" /\ ~shut' =>
                chan'[a] # NoAnswer \/ \E q \in UnderWay' : q.for = a
  PROVE  NobodyForgotten'
BY DEF NobodyForgotten, InTheTable, SentAndKept

(* A question takes its place in the table, is sent, and waits; or has     *)
(* done with waiting.                                                      *)
LEMMA AskingKept ==
  ASSUME Inv, NobodyForgotten, NEW a \in Asks, Asking(a)
  PROVE  NobodyForgotten'
<1>0. /\ UNCHANGED <<timed, chan, down, shut, left, reader, superVars>>
      /\ \A b \in Asks : b # a => pc'[b] = pc[b] /\ id'[b] = id[b]
  BY DEF Asking, Register, Send, Receive, LetGo, TimeOut, Forget, Goto, Inv, TypeOK
<1>1. up' = up \/ (Send(a) /\ up' = Append(up, [id |-> id[a], for |-> a]))
  BY DEF Asking, Register, Send, Receive, LetGo, TimeOut, Forget
<1>2. up \in Seq(Questions) /\ Len(up) \in Nat
  BY DEF Inv, TypeOK
<1>3. \A i \in DOMAIN up : i \in DOMAIN up' /\ up'[i] = up[i]
  BY <1>1, <1>2
<1>4. UnderWay \subseteq UnderWay'
  BY <1>0, <1>3 DEF UnderWay
<1>5. \A b \in Asks : b # a => (id[b] \in DOMAIN replies => id[b] \in DOMAIN replies')
  <2>1. DOMAIN replies \subseteq DOMAIN replies' \/ (Forget(a) /\ replies' = Without(id[a]))
    BY DEF Asking, Register, Send, Receive, LetGo, TimeOut, Forget
  <2>2. CASE DOMAIN replies \subseteq DOMAIN replies'
    BY <2>2
  <2>3. CASE Forget(a) /\ replies' = Without(id[a])
    <3>1. pc[a] # "ready" /\ id[a] # 0
      BY <2>3 DEF Forget, Inv, IdsAreTheirOwn
    <3>2. \A b \in Asks : b # a => id[b] # id[a]
      BY <3>1 DEF Inv, IdsAreTheirOwn
    <3>. QED
      BY <2>3, <3>2 DEF Without
  <2>. QED
    BY <2>1, <2>2, <2>3
<1>6. ASSUME NEW b \in Asks, b # a
      PROVE  /\ pc'[b] \in {"registered", "waiting"} /\ ~shut' =>
                  chan'[b] # NoAnswer \/ id'[b] \in DOMAIN replies'
             /\ b \notin timed' /\ pc'[b] = "waiting" /\ ~shut' =>
                  chan'[b] # NoAnswer \/ \E q \in UnderWay' : q.for = b
  <2>1. /\ shut' = shut /\ pc'[b] = pc[b] /\ chan'[b] = chan[b] /\ id'[b] = id[b]
        /\ timed' = timed
    BY <1>0, <1>6
  <2>2. id[b] \in DOMAIN replies => id'[b] \in DOMAIN replies'
    BY <1>5, <1>6, <2>1
  <2>3. \A q \in UnderWay : q.for = b => \E p \in UnderWay' : p.for = b
    BY <1>4
  <2>. QED
    BY <2>1, <2>2, <2>3 DEF NobodyForgotten, InTheTable, SentAndKept
<1>7. pc'[a] = "registered" => id'[a] \in DOMAIN replies'
  <2>. SUFFICES ASSUME pc'[a] = "registered" PROVE id'[a] \in DOMAIN replies'
    OBVIOUS
  <2>1. Register(a)
    BY DEF Asking, Register, Send, Receive, LetGo, TimeOut, Forget, Goto, AfterGivingUp, Inv, TypeOK
  <2>. QED
    BY <2>1 DEF Register, Inv, TypeOK
<1>8. pc'[a] = "waiting" /\ ~shut' =>
        /\ chan'[a] # NoAnswer \/ id'[a] \in DOMAIN replies'
        /\ \E q \in UnderWay' : q.for = a
  <2>. SUFFICES ASSUME pc'[a] = "waiting", ~shut'
                PROVE  /\ chan'[a] # NoAnswer \/ id'[a] \in DOMAIN replies'
                       /\ \E q \in UnderWay' : q.for = a
    OBVIOUS
  <2>1. Send(a)
    BY DEF Asking, Register, Send, Receive, LetGo, TimeOut, Forget, Goto, AfterGivingUp, Inv, TypeOK
  <2>2. /\ pc[a] = "registered" /\ ~shut /\ up' = Append(up, [id |-> id[a], for |-> a])
        /\ UNCHANGED <<id, chan, replies>>
    BY <2>1, <1>0 DEF Send
  <2>3. chan'[a] # NoAnswer \/ id'[a] \in DOMAIN replies'
    BY <2>2 DEF NobodyForgotten, InTheTable
  <2>4. Len(up) + 1 \in DOMAIN up' /\ up'[Len(up) + 1] = [id |-> id[a], for |-> a]
    BY <1>2, <2>2
  <2>5. [id |-> id[a], for |-> a] \in UnderWay'
    BY <2>4 DEF UnderWay
  <2>. QED
    BY <2>3, <2>5
<1>9. \A b \in Asks :
        /\ pc'[b] \in {"registered", "waiting"} /\ ~shut' =>
             chan'[b] # NoAnswer \/ id'[b] \in DOMAIN replies'
        /\ b \notin timed' /\ pc'[b] = "waiting" /\ ~shut' =>
             chan'[b] # NoAnswer \/ \E q \in UnderWay' : q.for = b
  BY <1>6, <1>7, <1>8
<1>10. WalksAreTimed' /\ ReadWhileUp'
  BY <1>0 DEF NobodyForgotten, WalksAreTimed, ReadWhileUp
<1>. QED
  BY <1>9, <1>10, KeptOneByOne

(* The link ends, or nothing of the questions changes.                     *)
LEMMA EndingKept ==
  ASSUME Inv, NobodyForgotten, Drop \/ ReadEnd \/ EndStep \/ ServerEnds \/ Close
  PROVE  NobodyForgotten'
<1>1. /\ UNCHANGED <<timed, pc, id, chan, up, down, pending, walks>>
      /\ shut' \/ (shut' = shut /\ server' = server /\ replies' = replies)
  <2>1. CASE EndStep
    <3>1. reader = 2 => shut
      BY DEF Inv, ShutFirst
    <3>2. Ending[1] = "shutdown" /\ DOMAIN Ending = {1, 2} /\ Ending[2] = "clear"
      BY DEF Ending
    <3>3. reader = 1 \/ reader = 2
      BY <2>1, <3>2 DEF EndStep
    <3>4. shut'
      BY <2>1, <3>1, <3>2, <3>3 DEF EndStep
    <3>. QED
      BY <2>1, <3>4 DEF EndStep
  <2>2. CASE Drop \/ ReadEnd
    BY <2>2 DEF Drop, ReadEnd
  <2>3. CASE ServerEnds \/ Close
    BY <2>3 DEF ServerEnds, Close, EndsLink
  <2>. QED
    BY <2>1, <2>2, <2>3
<1>2. UnderWay' = UnderWay
  BY <1>1 DEF UnderWay
<1>3. WalksAreTimed' /\ ReadWhileUp'
  BY <1>1 DEF NobodyForgotten, WalksAreTimed, ReadWhileUp
<1>4. InTheTable' /\ SentAndKept'
  BY <1>1, <1>2 DEF NobodyForgotten, InTheTable, SentAndKept
<1>. QED
  BY <1>3, <1>4 DEF NobodyForgotten

(* An answer is handed to its question, and to no other.                   *)
LEMMA HandOverKept ==
  ASSUME Inv, NobodyForgotten, HandOver
  PROVE  NobodyForgotten'
<1>. DEFINE q == Head(down)
<1>0. /\ down # << >> /\ down' = Tail(down)
      /\ UNCHANGED <<timed, pc, id, up, shut, left, reader, superVars>>
      /\ IF q.id \in DOMAIN replies
           THEN /\ chan' = [chan EXCEPT ![replies[q.id]] = q.for]
                /\ replies' = Without(q.id)
           ELSE chan' = chan /\ replies' = replies
  BY DEF HandOver
<1>1. down \in Seq(Questions)
  BY DEF Inv, TypeOK
<1>2. q \in Questions /\ q = down[1] /\ 1 \in DOMAIN down
  BY <1>0, <1>1, FirstTaken
<1>3. \A i \in DOMAIN down : i # 1 => i - 1 \in DOMAIN down' /\ down'[i - 1] = down[i]
  BY <1>0, <1>1
<1>4. q.for \in Asks /\ q.id # 0 /\ q.id = id[q.for]
  BY <1>2, QuestionParts DEF Inv, SentUnderItsId
<1>5. q.id \in DOMAIN replies => replies[q.id] = q.for
  <2>1. q.id \in DOMAIN replies => replies[q.id] \in Asks /\ id[replies[q.id]] = q.id
    BY DEF Inv, TypeOK, RepliesFindTheirs, NothingLeftWaiting
  <2>. QED
    BY <1>4, <2>1 DEF Inv, IdsAreTheirOwn
<1>. HIDE DEF q
<1>6. \A p \in UnderWay : p # q => p \in UnderWay'
  <2>1. \A p \in {down[i] : i \in DOMAIN down} : p # q => p \in {down'[i] : i \in DOMAIN down'}
    BY <1>2, <1>3
  <2>2. UNCHANGED <<up, pending>>
    BY <1>0
  <2>. QED
    BY <2>1, <2>2 DEF UnderWay
<1>7. ASSUME NEW a \in Asks, a # q.for
      PROVE  /\ pc'[a] \in {"registered", "waiting"} /\ ~shut' =>
                  chan'[a] # NoAnswer \/ id'[a] \in DOMAIN replies'
             /\ a \notin timed' /\ pc'[a] = "waiting" /\ ~shut' =>
                  chan'[a] # NoAnswer \/ \E p \in UnderWay' : p.for = a
  <2>1. chan'[a] = chan[a]
    BY <1>0, <1>5, <1>7 DEF Inv, TypeOK
  <2>2. id[a] # q.id
    BY <1>4, <1>7 DEF Inv, IdsAreTheirOwn
  <2>3. id[a] \in DOMAIN replies => id'[a] \in DOMAIN replies'
    BY <1>0, <2>2 DEF Without
  <2>4. \A p \in UnderWay : p.for = a => \E r \in UnderWay' : r.for = a
    BY <1>6, <1>7
  <2>. QED
    BY <1>0, <2>1, <2>3, <2>4 DEF NobodyForgotten, InTheTable, SentAndKept
<1>8. ASSUME pc[q.for] \in {"registered", "waiting"}, ~shut
      PROVE  chan'[q.for] # NoAnswer
  <2>1. CASE q.id \in DOMAIN replies
    <3>1. chan'[q.for] = q.for
      BY <1>0, <1>4, <1>5, <2>1 DEF Inv, TypeOK
    <3>. QED
      BY <1>4, <3>1, AsksAssumption
  <2>2. CASE q.id \notin DOMAIN replies
    BY <1>0, <1>4, <1>8, <2>2 DEF NobodyForgotten, InTheTable
  <2>. QED
    BY <2>1, <2>2
<1>9. \A a \in Asks :
        /\ pc'[a] \in {"registered", "waiting"} /\ ~shut' =>
             chan'[a] # NoAnswer \/ id'[a] \in DOMAIN replies'
        /\ a \notin timed' /\ pc'[a] = "waiting" /\ ~shut' =>
             chan'[a] # NoAnswer \/ \E p \in UnderWay' : p.for = a
  BY <1>0, <1>7, <1>8
<1>10. WalksAreTimed' /\ ReadWhileUp'
  BY <1>0 DEF NobodyForgotten, WalksAreTimed, ReadWhileUp
<1>. QED
  BY <1>9, <1>10, KeptOneByOne

(* The supervisor passes a question on, and answers it while it may.       *)
LEMMA SupervisorKept ==
  ASSUME Inv, NobodyForgotten, UNCHANGED <<askVars, shut, left, reader, server>>,
         \A q \in UnderWay : q.for \notin timed /\ ~shut => q \in UnderWay',
         \A q \in walks' : q.for \in timed
  PROVE  NobodyForgotten'
<1>1. WalksAreTimed' /\ ReadWhileUp' /\ InTheTable'
  BY DEF NobodyForgotten, WalksAreTimed, ReadWhileUp, InTheTable
<1>2. SentAndKept'
  BY DEF NobodyForgotten, SentAndKept
<1>. QED
  BY <1>1, <1>2 DEF NobodyForgotten

(* What is said on a link that is up is on its way.                        *)
LEMMA SaidIsUnderWay ==
  ASSUME Inv, NobodyForgotten, NEW q, Say(q) \/ down' = down
  PROVE  /\ {down[i] : i \in DOMAIN down} \subseteq {down'[i] : i \in DOMAIN down'}
         /\ ~shut /\ Say(q) => q \in {down'[i] : i \in DOMAIN down'}
<1>1. down \in Seq(Questions) /\ Len(down) \in Nat
  BY DEF Inv, TypeOK
<1>2. down' = down \/ down' = Append(down, q)
  BY DEF Say
<1>3. \A i \in DOMAIN down : i \in DOMAIN down' /\ down'[i] = down[i]
  BY <1>1, <1>2
<1>4. ~shut /\ Say(q) => Len(down) + 1 \in DOMAIN down' /\ down'[Len(down) + 1] = q
  BY <1>1 DEF Say, NobodyForgotten, ReadWhileUp
<1>. QED
  BY <1>3, <1>4

LEMMA ServeKept ==
  ASSUME Inv, NobodyForgotten, Serve \/ ServeUnnamed \/ ServeIdentify
  PROVE  NobodyForgotten'
<1>. DEFINE q == Head(up)
<1>0. /\ up # << >> /\ up' = Tail(up)
      /\ UNCHANGED <<askVars, shut, left, reader, server>>
      /\ \/ q.for \notin timed /\ pending' = pending \cup {q} /\ walks' = walks /\ down' = down
         \/ q.for \in timed /\ pending' = pending /\ walks' = walks /\ Say(q)
         \/ /\ q.for \in timed /\ pending' = pending \cup {q} /\ walks' = walks \cup {q}
            /\ down' = down
  BY DEF Serve, ServeUnnamed, ServeIdentify
<1>1. up \in Seq(Questions) /\ q = up[1]
  BY <1>0, FirstTaken DEF Inv, TypeOK
<1>2. \A i \in DOMAIN up : i # 1 => i - 1 \in DOMAIN up' /\ up'[i - 1] = up[i]
  BY <1>0, <1>1
<1>. HIDE DEF q
<1>3. {down[i] : i \in DOMAIN down} \subseteq {down'[i] : i \in DOMAIN down'}
  BY <1>0, SaidIsUnderWay
<1>4. \A p \in UnderWay : p.for \notin timed => p \in UnderWay'
  <2>. SUFFICES ASSUME NEW p \in UnderWay, p.for \notin timed PROVE p \in UnderWay'
    OBVIOUS
  <2>1. CASE p \in {up[i] : i \in DOMAIN up}
    <3>1. PICK i \in DOMAIN up : p = up[i]
      BY <2>1
    <3>2. CASE i = 1
      BY <1>0, <1>1, <3>1, <3>2 DEF UnderWay
    <3>3. CASE i # 1
      BY <1>2, <3>1, <3>3 DEF UnderWay
    <3>. QED
      BY <3>2, <3>3
  <2>2. CASE p \in pending
    BY <1>0, <2>2 DEF UnderWay
  <2>3. CASE p \in {down[i] : i \in DOMAIN down}
    BY <1>3, <2>3 DEF UnderWay
  <2>. QED
    BY <2>1, <2>2, <2>3 DEF UnderWay
<1>5. \A p \in walks' : p.for \in timed
  BY <1>0 DEF NobodyForgotten, WalksAreTimed
<1>. QED
  BY <1>0, <1>4, <1>5, SupervisorKept

LEMMA AnswerKept ==
  ASSUME Inv, NobodyForgotten, NEW q \in pending \cup walks,
         Answer(q) \/ WalkPanics(q) \/ WalkEnds(q)
  PROVE  NobodyForgotten'
<1>0. /\ UNCHANGED <<askVars, up, shut, left, reader, server>>
      /\ walks' \subseteq walks
      /\ \/ pending' = pending \ {q} /\ Say(q)
         \/ pending' = pending \ {q} /\ down' = down /\ q \in walks
         \/ pending' = pending /\ down' = down
  BY DEF Answer, WalkPanics, WalkEnds
<1>1. /\ {down[i] : i \in DOMAIN down} \subseteq {down'[i] : i \in DOMAIN down'}
      /\ ~shut /\ Say(q) => q \in {down'[i] : i \in DOMAIN down'}
  BY <1>0, SaidIsUnderWay
<1>2. \A p \in walks : p.for \in timed
  BY DEF NobodyForgotten, WalksAreTimed
<1>3. \A p \in UnderWay : p.for \notin timed /\ ~shut => p \in UnderWay'
  BY <1>0, <1>1, <1>2 DEF UnderWay
<1>4. \A p \in walks' : p.for \in timed
  BY <1>0, <1>2
<1>. QED
  BY <1>0, <1>3, <1>4, SupervisorKept

(* On a link that is up no question is forgotten: whoever waits is in the  *)
(* table, and unless it may give up its answer or its question is on the   *)
(* way or with the supervisor, whose reader reads.                         *)
THEOREM QuestionsAreKept == Spec => []NobodyForgotten
<1>1. Init => NobodyForgotten
  BY DEF Init, NobodyForgotten, InTheTable, SentAndKept, WalksAreTimed, ReadWhileUp
<1>2. Inv /\ NobodyForgotten /\ [Next]_vars => NobodyForgotten'
  <2>. SUFFICES ASSUME Inv, NobodyForgotten, [Next]_vars PROVE NobodyForgotten'
    OBVIOUS
  <2>1. CASE UNCHANGED vars
    BY <2>1 DEF vars, NobodyForgotten, InTheTable, SentAndKept, WalksAreTimed, ReadWhileUp,
                UnderWay
  <2>2. CASE \E a \in Asks : Asking(a)
    BY <2>2, AskingKept
  <2>3. CASE Drop \/ ProxyReader \/ SupervisorReader \/ Close
    BY <2>3, EndingKept, HandOverKept, ServeKept DEF ProxyReader, SupervisorReader
  <2>4. CASE \E q \in pending \cup walks : Answer(q) \/ WalkPanics(q) \/ WalkEnds(q)
    BY <2>4, AnswerKept
  <2>. QED
    BY <2>1, <2>2, <2>3, <2>4 DEF Next
<1>. QED
  BY <1>1, <1>2, RepliesInvariance, PTL DEF Spec

-----------------------------------------------------------------------------
(* CredRefresh.                                                            *)

USE DEF Refresh!boundVars, Refresh!threadVars, Refresh!copyVars, Refresh!linkVars,
        Refresh!askVars, Refresh!countVars

(* Both copies are the set of the launch, and nothing is asked.            *)
LEMMA RefreshInitInv == Refresh!Init => Refresh!Inv
<1>. SUFFICES ASSUME Refresh!Init PROVE Refresh!Inv
  OBVIOUS
<1>1. {prompt, stopped, running, recent, threaded, ended} \subseteq BOOLEAN
  BY Zenon DEF Refresh!Init
<1>2. Refresh!TypeOK
  <2>1. jobs \in Seq(Requests) /\ asked \in Seq(Requests)
    BY DEF Refresh!Init
  <2>2. answers \in Seq([for : Requests, set : Sets \cup {NoSet}])
    BY DEF Refresh!Init
  <2>3. /\ where \in [Requests -> {"ready", "asked", "heard", "done"}]
        /\ handed \in [Requests -> Sets \cup {NoSet}]
    BY DEF Refresh!Init
  <2>4. /\ step \in {"idle", "resolve", "publish", "cross", "answer"}
        /\ job \in Requests \cup {NoSet} /\ resolved \in Sets \cup {NoSet}
        /\ super \in Sets /\ proxy \in Sets /\ published \subseteq Sets
        /\ runs \in Nat /\ excused \in Nat
    BY RefreshSetsAssumption DEF Refresh!Init, Refresh!SetsAssumption
  <2>. QED
    BY <1>1, <2>1, <2>2, <2>3, <2>4 DEF Refresh!TypeOK
<1>3. Refresh!AskedOnce
  BY DEF Refresh!Init, Refresh!AskedOnce, Refresh!Queued, Refresh!Worked, Refresh!Returned
<1>4. Refresh!MaskedBefore /\ Refresh!IsNew /\ Refresh!InUseIsMasked
  BY DEF Refresh!Init, Refresh!MaskedBefore, Refresh!IsNew, Refresh!InUseIsMasked
<1>5. Refresh!StopsHard /\ Refresh!NoSpinning /\ Refresh!AdmissionHeld
  BY DEF Refresh!Init, Refresh!StopsHard, Refresh!NoSpinning, Refresh!AdmissionHeld,
         Refresh!Resolving
<1>6. Refresh!OneAtATime
  BY DEF Refresh!Init, Refresh!OneAtATime, Refresh!Carried
<1>. QED
  BY <1>2, <1>3, <1>4, <1>5, <1>6 DEF Refresh!Inv

(* A request asks once.                                                    *)
LEMMA RefreshAskInv ==
  ASSUME Refresh!Inv, NEW r \in Requests, Refresh!Ask(r)
  PROVE  Refresh!Inv'
<1>0. /\ where[r] = "ready"
      /\ where' = [where EXCEPT ![r] = IF ended THEN "done" ELSE "asked"]
      /\ asked' = IF ended THEN asked ELSE Append(asked, r)
      /\ UNCHANGED <<prompt, stopped, running, recent, threaded, jobs, step, job, resolved,
                     super, proxy, published, answers, ended, handed, runs, excused>>
  BY DEF Refresh!Ask, Refresh!Goto
<1>1. Refresh!TypeOK'
  <2>1. asked' \in Seq(Requests)
    BY <1>0 DEF Refresh!Inv, Refresh!TypeOK
  <2>. QED
    BY <1>0, <2>1 DEF Refresh!Inv, Refresh!TypeOK
<1>2. \A x \in Requests : where'[x] = "heard" <=> where[x] = "heard"
  BY <1>0 DEF Refresh!Inv, Refresh!TypeOK
<1>3. Refresh!AskedOnce'
  <2>1. r \notin Refresh!Queued \cup Refresh!Worked \cup Refresh!Returned
    BY <1>0 DEF Refresh!Inv, Refresh!AskedOnce
  <2>2. Refresh!Worked' = Refresh!Worked /\ Refresh!Returned' = Refresh!Returned
    BY <1>0 DEF Refresh!Worked, Refresh!Returned
  <2>3. \A i \in DOMAIN asked' : \/ i \in DOMAIN asked /\ asked'[i] = asked[i]
                                 \/ i = Len(asked) + 1 /\ asked'[i] = r
    BY <1>0 DEF Refresh!Inv, Refresh!TypeOK
  <2>4. Refresh!Queued' \subseteq Refresh!Queued \cup {r}
    BY <1>0, <2>3 DEF Refresh!Queued
  <2>5. /\ \A i \in DOMAIN asked : asked[i] # r
        /\ \A i \in DOMAIN jobs : jobs[i] # r
    BY <2>1 DEF Refresh!Queued
  <2>6. \A x \in Requests : x # r => where'[x] = where[x]
    BY <1>0 DEF Refresh!Inv, Refresh!TypeOK
  <2>7. where'[r] \in {"asked", "done"}
    BY <1>0 DEF Refresh!Inv, Refresh!TypeOK
  <2>. QED
    BY <1>0, <2>1, <2>2, <2>3, <2>4, <2>5, <2>6, <2>7 DEF Refresh!Inv, Refresh!AskedOnce
<1>4. Refresh!MaskedBefore' /\ Refresh!IsNew' /\ Refresh!InUseIsMasked'
  BY <1>0, <1>2 DEF Refresh!Inv, Refresh!MaskedBefore, Refresh!IsNew, Refresh!InUseIsMasked
<1>5. Refresh!StopsHard' /\ Refresh!NoSpinning' /\ Refresh!AdmissionHeld'
  BY <1>0 DEF Refresh!Inv, Refresh!StopsHard, Refresh!NoSpinning, Refresh!AdmissionHeld,
              Refresh!Resolving
<1>6. Refresh!OneAtATime'
  BY <1>0, <1>2 DEF Refresh!Inv, Refresh!OneAtATime, Refresh!Carried
<1>. QED
  BY <1>1, <1>3, <1>4, <1>5, <1>6 DEF Refresh!Inv

(* The requests hear, are let go and install what they were handed.        *)
LEMMA RefreshHearInv ==
  ASSUME Refresh!Inv, Refresh!Hear
  PROVE  Refresh!Inv'
<1>. DEFINE r == Head(answers).for
            set == Head(answers).set
<1>0. /\ answers # << >> /\ answers' = Tail(answers)
      /\ where' = [where EXCEPT ![r] = IF set = NoSet THEN "done" ELSE "heard"]
      /\ handed' = [handed EXCEPT ![r] = set]
      /\ UNCHANGED <<prompt, stopped, running, recent, threaded, jobs, step, job, resolved,
                     super, proxy, published, asked, ended, runs, excused>>
  BY DEF Refresh!Hear, Refresh!Goto
<1>. DEFINE Answers == [for : Requests, set : Sets \cup {NoSet}]
<1>1. answers \in Seq(Answers)
  BY DEF Refresh!Inv, Refresh!TypeOK
<1>2. /\ Head(answers) \in Answers /\ Tail(answers) \in Seq(Answers)
      /\ Head(answers) = answers[1] /\ 1 \in DOMAIN answers
      /\ \A i \in DOMAIN answers' : /\ i + 1 \in DOMAIN answers /\ i + 1 # 1
                                    /\ answers'[i] = answers[i + 1]
  BY <1>0, <1>1, FirstTaken
<1>3. r \in Requests /\ set \in Sets \cup {NoSet}
  BY <1>2
<1>4. r = answers[1].for /\ set = answers[1].set
  BY <1>2
<1>. HIDE DEF r, set
<1>5. Refresh!TypeOK'
  BY <1>0, <1>2, <1>3 DEF Refresh!Inv, Refresh!TypeOK
<1>6. \A x \in Requests : x # r => where'[x] = where[x] /\ handed'[x] = handed[x]
  BY <1>0, <1>3 DEF Refresh!Inv, Refresh!TypeOK
<1>7. handed'[r] = set /\ where'[r] = IF set = NoSet THEN "done" ELSE "heard"
  BY <1>0, <1>3 DEF Refresh!Inv, Refresh!TypeOK
<1>8. Refresh!AskedOnce'
  <2>1. r \in Refresh!Returned
    BY <1>2, <1>4 DEF Refresh!Returned
  <2>2. Refresh!Queued' = Refresh!Queued /\ Refresh!Worked' = Refresh!Worked
    BY <1>0 DEF Refresh!Queued, Refresh!Worked
  <2>3. \A i \in DOMAIN answers' : answers'[i].for # r
    BY <1>2, <1>4 DEF Refresh!Inv, Refresh!AskedOnce
  <2>4. Refresh!Returned' \subseteq Refresh!Returned \ {r}
    BY <1>2, <2>3 DEF Refresh!Returned
  <2>5. \A i, j \in DOMAIN answers' : answers'[i].for = answers'[j].for => i = j
    <3>. SUFFICES ASSUME NEW i \in DOMAIN answers', NEW j \in DOMAIN answers',
                         answers'[i].for = answers'[j].for
                  PROVE  i = j
      OBVIOUS
    <3>1. i + 1 = j + 1
      BY <1>2 DEF Refresh!Inv, Refresh!AskedOnce
    <3>. QED
      BY <3>1, <1>0, <1>2
  <2>. QED
    BY <1>0, <1>6, <2>1, <2>2, <2>4, <2>5 DEF Refresh!Inv, Refresh!AskedOnce
<1>9. Refresh!MaskedBefore' /\ Refresh!IsNew' /\ Refresh!InUseIsMasked'
  BY <1>0, <1>2, <1>3, <1>4, <1>6, <1>7
     DEF Refresh!Inv, Refresh!MaskedBefore, Refresh!IsNew, Refresh!InUseIsMasked
<1>10. Refresh!StopsHard' /\ Refresh!NoSpinning' /\ Refresh!AdmissionHeld'
  BY <1>0 DEF Refresh!Inv, Refresh!StopsHard, Refresh!NoSpinning, Refresh!AdmissionHeld,
              Refresh!Resolving
<1>11. Refresh!OneAtATime'
  <2>1. Refresh!Carried' => Refresh!Carried
    BY <1>2, <1>4, <1>6, <1>7 DEF Refresh!Carried
  <2>2. Refresh!Carried => Refresh!Carried'
    <3>1. ASSUME NEW i \in DOMAIN answers, answers[i].set # NoSet, i # 1
          PROVE  Refresh!Carried'
      <4>1. i - 1 \in DOMAIN answers' /\ answers'[i - 1] = answers[i]
        BY <1>0, <1>1, <3>1
      <4>. QED
        BY <3>1, <4>1 DEF Refresh!Carried
    <3>2. CASE set # NoSet
      BY <1>3, <1>7, <3>2 DEF Refresh!Carried
    <3>3. where[r] # "heard"
      <4>1. r \in Refresh!Returned
        BY <1>2, <1>4 DEF Refresh!Returned
      <4>. QED
        BY <4>1 DEF Refresh!Inv, Refresh!AskedOnce
    <3>4. ASSUME NEW x \in Requests, where[x] = "heard"
          PROVE  Refresh!Carried'
      BY <1>6, <3>3, <3>4 DEF Refresh!Carried
    <3>. QED
      BY <1>4, <3>1, <3>2, <3>4 DEF Refresh!Carried
  <2>. QED
    BY <1>0, <1>2, <1>3, <1>4, <1>6, <1>7, <2>1, <2>2 DEF Refresh!Inv, Refresh!OneAtATime
<1>. QED
  BY <1>5, <1>8, <1>9, <1>10, <1>11 DEF Refresh!Inv

LEMMA RefreshRequestInv ==
  ASSUME Refresh!Inv, NEW r \in Requests, Refresh!Request(r)
  PROVE  Refresh!Inv'
<1>0. /\ where' = [where EXCEPT ![r] = "done"]
      /\ UNCHANGED <<prompt, stopped, running, recent, threaded, jobs, step, job, resolved,
                     super, published, asked, answers, ended, handed, runs, excused>>
      /\ \/ where[r] = "asked" /\ proxy' = proxy
         \/ /\ where[r] = "heard"
            /\ proxy' = IF handed[r] \in Garbled THEN proxy ELSE handed[r]
  BY DEF Refresh!Request, Refresh!LetGo, Refresh!InstallHanded, Refresh!Goto
<1>1. where[r] = "heard" => proxy' = handed[r] /\ proxy' \in published
  BY <1>0 DEF Refresh!Inv, Refresh!MaskedBefore
<1>2. where[r] # "heard" => proxy' = proxy
  BY <1>0
<1>3. proxy' \in published /\ published \subseteq Sets
  BY <1>1, <1>2 DEF Refresh!Inv, Refresh!InUseIsMasked, Refresh!TypeOK
<1>4. Refresh!TypeOK'
  BY <1>0, <1>3 DEF Refresh!Inv, Refresh!TypeOK
<1>5. /\ \A x \in Requests : where'[x] = "heard" => where[x] = "heard"
      /\ \A x \in Requests : x # r => where'[x] = where[x]
      /\ \A x \in Requests : where[x] \in {"asked", "done"} => where'[x] \in {"asked", "done"}
  BY <1>0 DEF Refresh!Inv, Refresh!TypeOK
<1>6. Refresh!AskedOnce'
  <2>1. /\ Refresh!Queued' = Refresh!Queued /\ Refresh!Worked' = Refresh!Worked
        /\ Refresh!Returned' = Refresh!Returned
    BY <1>0 DEF Refresh!Queued, Refresh!Worked, Refresh!Returned
  <2>. QED
    BY <1>0, <1>5, <2>1 DEF Refresh!Inv, Refresh!AskedOnce
<1>7. Refresh!MaskedBefore' /\ Refresh!IsNew'
  BY <1>0, <1>5 DEF Refresh!Inv, Refresh!MaskedBefore, Refresh!IsNew
<1>8. Refresh!InUseIsMasked'
  BY <1>0, <1>3 DEF Refresh!Inv, Refresh!InUseIsMasked
<1>9. Refresh!StopsHard' /\ Refresh!NoSpinning' /\ Refresh!AdmissionHeld'
  BY <1>0 DEF Refresh!Inv, Refresh!StopsHard, Refresh!NoSpinning, Refresh!AdmissionHeld,
              Refresh!Resolving
<1>10. Refresh!OneAtATime'
  <2>1. Refresh!Carried' => Refresh!Carried
    BY <1>0, <1>5 DEF Refresh!Carried
  <2>2. where[r] # "heard" /\ Refresh!Carried => Refresh!Carried'
    BY <1>0, <1>5 DEF Refresh!Carried
  <2>3. where[r] = "heard" /\ prompt => proxy' = super
    BY <1>1 DEF Refresh!Inv, Refresh!OneAtATime
  <2>. QED
    BY <1>0, <1>2, <1>5, <2>1, <2>2, <2>3 DEF Refresh!Inv, Refresh!OneAtATime
<1>. QED
  BY <1>4, <1>6, <1>7, <1>8, <1>9, <1>10 DEF Refresh!Inv

(* What is answered is an answer to one, and carries a set or nothing.     *)
LEMMA RefreshAnswered ==
  ASSUME Refresh!TypeOK, NEW r \in Requests, NEW set \in Sets \cup {NoSet},
         Refresh!Answered(r, set)
  PROVE  /\ answers' \in Seq([for : Requests, set : Sets \cup {NoSet}])
         /\ ended => answers' = answers
         /\ DOMAIN answers \subseteq DOMAIN answers'
         /\ \A i \in DOMAIN answers : answers'[i] = answers[i]
         /\ \A i \in DOMAIN answers' \ DOMAIN answers :
              /\ i = Len(answers) + 1 /\ answers'[i].for = r
              /\ answers'[i].set = IF set \in TooMany THEN NoSet ELSE set
         /\ ~ended => Len(answers) + 1 \in DOMAIN answers' \ DOMAIN answers
<1>. DEFINE Answers == [for : Requests, set : Sets \cup {NoSet}]
            a == [for |-> r, set |-> IF set \in TooMany THEN NoSet ELSE set]
<1>1. a \in Answers /\ answers \in Seq(Answers)
  BY DEF Refresh!TypeOK
<1>2. a.for = r /\ a.set = IF set \in TooMany THEN NoSet ELSE set
  OBVIOUS
<1>3. answers' = IF ended THEN answers ELSE Append(answers, a)
  BY DEF Refresh!Answered
<1>. HIDE DEF Answers, a
<1>4. CASE ended
  BY <1>1, <1>3, <1>4 DEF Answers
<1>5. CASE ~ended
  <2>1. answers' = Append(answers, a)
    BY <1>3, <1>5
  <2>2. /\ answers' \in Seq(Answers) /\ DOMAIN answers = 1 .. Len(answers)
        /\ DOMAIN answers' = 1 .. Len(answers) + 1
        /\ \A i \in DOMAIN answers : answers'[i] = answers[i]
        /\ answers'[Len(answers) + 1] = a /\ Len(answers) \in Nat
    BY <1>1, <2>1
  <2>. QED
    BY <1>2, <1>5, <2>2 DEF Answers
<1>. QED
  BY <1>4, <1>5

(* The reader takes a question, and declines it: at once, or for lack of a *)
(* thread.                                                                 *)
LEMMA RefreshDeclineInv ==
  ASSUME Refresh!Inv, Refresh!Decline \/ Refresh!AdmitUnqueued
  PROVE  Refresh!Inv'
<1>. DEFINE r == Head(asked)
<1>0. /\ asked # << >> /\ asked' = Tail(asked)
      /\ Refresh!Answered(r, NoSet)
      /\ recent' = recent \/ recent' = TRUE
      /\ UNCHANGED <<prompt, stopped, running, threaded, jobs, step, job, resolved, super,
                     proxy, published, ended, where, handed, runs, excused>>
  BY DEF Refresh!Decline, Refresh!AdmitUnqueued
<1>1. asked \in Seq(Requests)
  BY DEF Refresh!Inv, Refresh!TypeOK
<1>2. /\ r \in Requests /\ Tail(asked) \in Seq(Requests) /\ r = asked[1] /\ 1 \in DOMAIN asked
      /\ \A i \in DOMAIN asked' : /\ i + 1 \in DOMAIN asked /\ i + 1 # 1
                                  /\ asked'[i] = asked[i + 1]
      /\ \A i, j \in DOMAIN asked' : i + 1 = j + 1 => i = j
  BY <1>0, <1>1, FirstTaken
<1>. HIDE DEF r
<1>3. /\ answers' \in Seq([for : Requests, set : Sets \cup {NoSet}])
      /\ DOMAIN answers \subseteq DOMAIN answers'
      /\ \A i \in DOMAIN answers : answers'[i] = answers[i]
      /\ \A i \in DOMAIN answers' \ DOMAIN answers :
           i = Len(answers) + 1 /\ answers'[i].for = r /\ answers'[i].set = NoSet
  <2>1. NoSet \in Sets \cup {NoSet} /\ Refresh!TypeOK
    BY DEF Refresh!Inv
  <2>2. (IF NoSet \in TooMany THEN NoSet ELSE NoSet) = NoSet
    OBVIOUS
  <2>3. /\ answers' \in Seq([for : Requests, set : Sets \cup {NoSet}])
        /\ DOMAIN answers \subseteq DOMAIN answers'
        /\ \A i \in DOMAIN answers : answers'[i] = answers[i]
        /\ \A i \in DOMAIN answers' \ DOMAIN answers :
             /\ i = Len(answers) + 1 /\ answers'[i].for = r
             /\ answers'[i].set = IF NoSet \in TooMany THEN NoSet ELSE NoSet
    BY <1>0, <1>2, <2>1, RefreshAnswered, Zenon
  <2>. QED
    BY <2>2, <2>3
<1>4. Refresh!TypeOK'
  <2>1. {prompt, stopped, running, recent, threaded, ended}' \subseteq BOOLEAN
    BY <1>0, Zenon DEF Refresh!Inv, Refresh!TypeOK
  <2>. QED
    BY <1>0, <1>2, <1>3, <2>1 DEF Refresh!Inv, Refresh!TypeOK
<1>5. Refresh!AskedOnce'
  <2>1. r \in Refresh!Queued
    BY <1>2 DEF Refresh!Queued
  <2>2. /\ \A i \in DOMAIN asked' : asked'[i] # r
        /\ \A i, j \in DOMAIN asked' : asked'[i] = asked'[j] => i = j
        /\ \A i \in DOMAIN asked', j \in DOMAIN jobs : asked'[i] # jobs[j]
        /\ \A j \in DOMAIN jobs : r # jobs[j]
    BY <1>2 DEF Refresh!Inv, Refresh!AskedOnce
  <2>3. Refresh!Queued' \subseteq Refresh!Queued \ {r} /\ Refresh!Worked' = Refresh!Worked
    BY <1>0, <1>2, <2>2 DEF Refresh!Queued, Refresh!Worked
  <2>4. Refresh!Returned' \subseteq Refresh!Returned \cup {r}
    BY <1>3 DEF Refresh!Returned
  <2>5. \A i \in DOMAIN answers : answers[i].for # r
    BY <2>1 DEF Refresh!Inv, Refresh!AskedOnce, Refresh!Returned
  <2>6. \A i, j \in DOMAIN answers' : answers'[i].for = answers'[j].for => i = j
    BY <1>3, <2>5 DEF Refresh!Inv, Refresh!AskedOnce
  <2>. QED
    BY <1>0, <2>1, <2>2, <2>3, <2>4, <2>6 DEF Refresh!Inv, Refresh!AskedOnce
<1>6. Refresh!MaskedBefore' /\ Refresh!IsNew' /\ Refresh!InUseIsMasked'
  BY <1>0, <1>3 DEF Refresh!Inv, Refresh!MaskedBefore, Refresh!IsNew, Refresh!InUseIsMasked
<1>7. Refresh!StopsHard' /\ Refresh!NoSpinning' /\ Refresh!AdmissionHeld'
  BY <1>0 DEF Refresh!Inv, Refresh!StopsHard, Refresh!NoSpinning, Refresh!AdmissionHeld,
              Refresh!Resolving
<1>8. Refresh!OneAtATime'
  <2>1. Refresh!Carried' <=> Refresh!Carried
    BY <1>0, <1>3 DEF Refresh!Carried
  <2>. QED
    BY <1>0, <1>3, <2>1 DEF Refresh!Inv, Refresh!OneAtATime
<1>. QED
  BY <1>4, <1>5, <1>6, <1>7, <1>8 DEF Refresh!Inv

(* The reader hands a question to the refresh thread, with nothing else    *)
(* under way.                                                              *)
LEMMA RefreshAdmitInv ==
  ASSUME Refresh!Inv, Refresh!Admit
  PROVE  Refresh!Inv'
<1>. DEFINE r == Head(asked)
<1>0. /\ asked # << >> /\ asked' = Tail(asked) /\ jobs' = Append(jobs, r)
      /\ ~stopped /\ ~running /\ ~recent /\ recent' = TRUE /\ running' = TRUE
      /\ UNCHANGED <<prompt, stopped, threaded, step, job, resolved, super, proxy, published,
                     answers, ended, where, handed, runs, excused>>
  BY DEF Refresh!Admit, Refresh!Refuses
<1>1. asked \in Seq(Requests) /\ jobs \in Seq(Requests)
  BY DEF Refresh!Inv, Refresh!TypeOK
<1>2. /\ r \in Requests /\ Tail(asked) \in Seq(Requests) /\ r = asked[1] /\ 1 \in DOMAIN asked
      /\ \A i \in DOMAIN asked' : /\ i + 1 \in DOMAIN asked /\ i + 1 # 1
                                  /\ asked'[i] = asked[i + 1]
      /\ \A i, j \in DOMAIN asked' : i + 1 = j + 1 => i = j
  BY <1>0, <1>1, FirstTaken
<1>. HIDE DEF r
<1>3. jobs = << >> /\ ~Refresh!Resolving
  <2>1. Len(jobs) + (IF Refresh!Resolving THEN 1 ELSE 0) = 0
    BY <1>0 DEF Refresh!Inv, Refresh!AdmissionHeld, Refresh!Resolving
  <2>. QED
    BY <1>1, <2>1
<1>4. jobs' \in Seq(Requests) /\ DOMAIN jobs' = {1} /\ jobs'[1] = r /\ Len(jobs') = 1
  BY <1>0, <1>2, <1>3
<1>5. Refresh!TypeOK'
  <2>1. {prompt, stopped, running, recent, threaded, ended}' \subseteq BOOLEAN
    BY <1>0, Zenon DEF Refresh!Inv, Refresh!TypeOK
  <2>. QED
    BY <1>0, <1>2, <1>4, <2>1 DEF Refresh!Inv, Refresh!TypeOK
<1>6. Refresh!AskedOnce'
  <2>1. r \in Refresh!Queued
    BY <1>2 DEF Refresh!Queued
  <2>2. /\ \A i \in DOMAIN asked' : asked'[i] # r
        /\ \A i, j \in DOMAIN asked' : asked'[i] = asked'[j] => i = j
    BY <1>2 DEF Refresh!Inv, Refresh!AskedOnce
  <2>3. Refresh!Queued' \subseteq Refresh!Queued
    BY <1>2, <1>4, <2>1 DEF Refresh!Queued
  <2>4. Refresh!Worked' = Refresh!Worked /\ Refresh!Returned' = Refresh!Returned
    BY <1>0 DEF Refresh!Worked, Refresh!Returned
  <2>. QED
    BY <1>0, <1>4, <2>2, <2>3, <2>4 DEF Refresh!Inv, Refresh!AskedOnce
<1>7. Refresh!MaskedBefore' /\ Refresh!IsNew' /\ Refresh!InUseIsMasked'
  BY <1>0 DEF Refresh!Inv, Refresh!MaskedBefore, Refresh!IsNew, Refresh!InUseIsMasked
<1>8. Refresh!StopsHard' /\ Refresh!NoSpinning' /\ Refresh!AdmissionHeld'
  BY <1>0, <1>3, <1>4
     DEF Refresh!Inv, Refresh!StopsHard, Refresh!NoSpinning, Refresh!AdmissionHeld,
         Refresh!Resolving
<1>9. Refresh!OneAtATime'
  <2>1. Refresh!Carried' <=> Refresh!Carried
    BY <1>0 DEF Refresh!Carried
  <2>. QED
    BY <1>0, <2>1 DEF Refresh!Inv, Refresh!OneAtATime
<1>. QED
  BY <1>5, <1>6, <1>7, <1>8, <1>9 DEF Refresh!Inv

(* The refresh thread takes the question it was handed.                    *)
LEMMA RefreshTakeInv ==
  ASSUME Refresh!Inv, Refresh!TakeJob
  PROVE  Refresh!Inv'
<1>0. /\ step = "idle" /\ jobs # << >> /\ job' = Head(jobs) /\ jobs' = Tail(jobs)
      /\ step' = "resolve" /\ runs' = runs + 1
      /\ UNCHANGED <<prompt, stopped, running, recent, threaded, resolved, super, proxy,
                     published, asked, answers, ended, where, handed, excused>>
  BY DEF Refresh!TakeJob
<1>1. jobs \in Seq(Requests) /\ Len(jobs) \in Nat
  BY DEF Refresh!Inv, Refresh!TypeOK
<1>2. running /\ Len(jobs) = 1
  <2>1. (IF running THEN 1 ELSE 0) = Len(jobs) + 0
    BY <1>0 DEF Refresh!Inv, Refresh!AdmissionHeld
  <2>2. Len(jobs) # 0
    BY <1>0, <1>1
  <2>. QED
    BY <1>1, <2>1, <2>2
<1>3. /\ job' \in Requests /\ job' = jobs[1] /\ 1 \in DOMAIN jobs
      /\ jobs' = << >> /\ Len(jobs') = 0 /\ DOMAIN jobs' = {}
  BY <1>0, <1>1, <1>2
<1>4. Refresh!TypeOK'
  BY <1>0, <1>3 DEF Refresh!Inv, Refresh!TypeOK
<1>5. Refresh!AskedOnce'
  <2>1. job' \in Refresh!Queued
    BY <1>3 DEF Refresh!Queued
  <2>2. Refresh!Queued' \subseteq Refresh!Queued \ {job'}
    BY <1>0, <1>3 DEF Refresh!Queued, Refresh!Inv, Refresh!AskedOnce
  <2>3. Refresh!Worked' = {job'} /\ Refresh!Returned' = Refresh!Returned
    BY <1>0 DEF Refresh!Worked, Refresh!Returned
  <2>. QED
    BY <1>0, <1>3, <2>1, <2>2, <2>3 DEF Refresh!Inv, Refresh!AskedOnce
<1>6. Refresh!MaskedBefore' /\ Refresh!IsNew' /\ Refresh!InUseIsMasked'
  BY <1>0 DEF Refresh!Inv, Refresh!MaskedBefore, Refresh!IsNew, Refresh!InUseIsMasked
<1>7. Refresh!StopsHard' /\ Refresh!NoSpinning' /\ Refresh!AdmissionHeld'
  <2>1. ~stopped /\ runs <= excused /\ runs \in Nat /\ excused \in Nat
    BY <1>0 DEF Refresh!Inv, Refresh!TypeOK, Refresh!StopsHard, Refresh!Resolving
  <2>. QED
    BY <1>0, <1>2, <1>3, <2>1
       DEF Refresh!StopsHard, Refresh!NoSpinning, Refresh!AdmissionHeld, Refresh!Resolving
<1>8. Refresh!OneAtATime'
  <2>1. Refresh!Carried' <=> Refresh!Carried
    BY <1>0 DEF Refresh!Carried
  <2>. QED
    BY <1>0, <1>2, <2>1 DEF Refresh!Inv, Refresh!OneAtATime
<1>. QED
  BY <1>4, <1>5, <1>6, <1>7, <1>8 DEF Refresh!Inv

(* The questions stay where they are while the thread works at its own.    *)
LEMMA RefreshWorks ==
  ASSUME Refresh!Inv, step # "idle", step' # "idle",
         UNCHANGED <<jobs, job, asked, answers, where>>
  PROVE  /\ Refresh!AskedOnce'
         /\ Refresh!Carried' <=> Refresh!Carried
<1>1. Refresh!Queued' = Refresh!Queued /\ Refresh!Returned' = Refresh!Returned
  BY DEF Refresh!Queued, Refresh!Returned
<1>2. Refresh!Worked' = Refresh!Worked
  BY DEF Refresh!Worked
<1>3. Refresh!AskedOnce'
  BY <1>1, <1>2 DEF Refresh!Inv, Refresh!AskedOnce
<1>4. Refresh!Carried' <=> Refresh!Carried
  BY DEF Refresh!Carried
<1>. QED
  BY <1>3, <1>4

(* While a re-resolution is under way it holds the one admission.          *)
LEMMA RefreshAlone ==
  ASSUME Refresh!Inv, Refresh!Resolving
  PROVE  running /\ Len(jobs) = 0 /\ jobs = << >> /\ ~stopped
<1>1. jobs \in Seq(Requests) /\ Len(jobs) \in Nat
  BY DEF Refresh!Inv, Refresh!TypeOK
<1>2. (IF running THEN 1 ELSE 0) = Len(jobs) + 1
  BY DEF Refresh!Inv, Refresh!AdmissionHeld, Refresh!Resolving
<1>3. running /\ Len(jobs) = 0
  BY <1>1, <1>2
<1>. QED
  BY <1>1, <1>3 DEF Refresh!Inv, Refresh!StopsHard

(* A re-resolution ends with nothing: given up for good, or a panic.       *)
LEMMA RefreshVainInv ==
  ASSUME Refresh!Inv, Refresh!ResolveInVain \/ Refresh!ResolvePanics \/ Refresh!CannotCross
  PROVE  Refresh!Inv'
<1>0. /\ Refresh!Resolving /\ step' = "answer" /\ resolved' = NoSet /\ running' = FALSE
      /\ \/ stopped' = TRUE /\ excused' = excused
         \/ stopped' = stopped /\ excused' = excused + 1
      /\ UNCHANGED <<prompt, recent, threaded, jobs, job, super, proxy, published, asked,
                     answers, ended, where, handed, runs>>
  BY DEF Refresh!ResolveInVain, Refresh!ResolvePanics, Refresh!CannotCross, Refresh!Finish,
         Refresh!Caught, Refresh!Resolving
<1>1. running /\ Len(jobs) = 0 /\ jobs = << >> /\ step # "idle"
  BY <1>0, RefreshAlone DEF Refresh!Resolving
<1>2. Refresh!TypeOK'
  <2>1. {prompt, stopped, running, recent, threaded, ended}' \subseteq BOOLEAN
    BY <1>0, Zenon DEF Refresh!Inv, Refresh!TypeOK
  <2>. QED
    BY <1>0, <2>1 DEF Refresh!Inv, Refresh!TypeOK
<1>3. Refresh!AskedOnce' /\ (Refresh!Carried' <=> Refresh!Carried)
  BY <1>0, <1>1, RefreshWorks
<1>4. Refresh!MaskedBefore' /\ Refresh!IsNew' /\ Refresh!InUseIsMasked'
  BY <1>0 DEF Refresh!Inv, Refresh!MaskedBefore, Refresh!IsNew, Refresh!InUseIsMasked
<1>5. Refresh!StopsHard' /\ Refresh!NoSpinning' /\ Refresh!AdmissionHeld'
  BY <1>0, <1>1
     DEF Refresh!Inv, Refresh!TypeOK, Refresh!StopsHard, Refresh!NoSpinning,
         Refresh!AdmissionHeld, Refresh!Resolving
<1>6. Refresh!OneAtATime'
  BY <1>0, <1>1, <1>3 DEF Refresh!Inv, Refresh!OneAtATime, Refresh!Resolving
<1>. QED
  BY <1>2, <1>3, <1>4, <1>5, <1>6 DEF Refresh!Inv

(* A new set is resolved, then published.                                  *)
LEMMA RefreshAnewInv ==
  ASSUME Refresh!Inv, Refresh!ResolveAnew \/ Refresh!Publish
  PROVE  Refresh!Inv'
<1>0. /\ UNCHANGED <<prompt, stopped, running, recent, threaded, jobs, job, super, proxy,
                     asked, answers, ended, where, handed, runs, excused>>
      /\ \/ /\ step = "resolve" /\ step' = "publish"
            /\ resolved' \in Sets \ {super} /\ published' = published
         \/ /\ step = "publish" /\ step' = "cross"
            /\ resolved' = resolved /\ published' = published \cup {resolved}
  BY DEF Refresh!ResolveAnew, Refresh!Publish, Refresh!Unchanging, Refresh!Masks
<1>1. running /\ step # "idle" /\ step' # "idle" /\ Refresh!Resolving /\ Refresh!Resolving'
  BY <1>0, RefreshAlone DEF Refresh!Resolving
<1>2. resolved' \in Sets \ {super}
  BY <1>0 DEF Refresh!Inv, Refresh!IsNew
<1>3. Refresh!TypeOK'
  BY <1>0, <1>2 DEF Refresh!Inv, Refresh!TypeOK
<1>4. Refresh!AskedOnce' /\ (Refresh!Carried' <=> Refresh!Carried)
  BY <1>0, <1>1, RefreshWorks
<1>5. Refresh!MaskedBefore' /\ Refresh!IsNew' /\ Refresh!InUseIsMasked'
  BY <1>0, <1>2 DEF Refresh!Inv, Refresh!MaskedBefore, Refresh!IsNew, Refresh!InUseIsMasked
<1>6. Refresh!StopsHard' /\ Refresh!NoSpinning' /\ Refresh!AdmissionHeld'
  BY <1>0, <1>1
     DEF Refresh!Inv, Refresh!StopsHard, Refresh!NoSpinning, Refresh!AdmissionHeld,
         Refresh!Resolving
<1>7. Refresh!OneAtATime'
  BY <1>0, <1>1, <1>4 DEF Refresh!Inv, Refresh!OneAtATime
<1>. QED
  BY <1>3, <1>4, <1>5, <1>6, <1>7 DEF Refresh!Inv

(* A set that crosses is installed at the supervisor: one it had not, and  *)
(* published by then.                                                      *)
LEMMA RefreshReplaceInv ==
  ASSUME Refresh!Inv, Refresh!Replace
  PROVE  Refresh!Inv'
<1>0. /\ step = "cross" /\ resolved \notin Garbled /\ super' = resolved
      /\ excused' = IF resolved = super THEN excused ELSE excused + 1
      /\ resolved' = resolved /\ running' = FALSE /\ step' = "answer"
      /\ UNCHANGED <<prompt, stopped, recent, threaded, jobs, job, proxy, published, asked,
                     answers, ended, where, handed, runs>>
  BY DEF Refresh!Replace, Refresh!Finish, Refresh!Crosses
<1>1. running /\ Len(jobs) = 0 /\ jobs = << >> /\ ~stopped
  BY <1>0, RefreshAlone DEF Refresh!Resolving
<1>2. resolved \in Sets \ {super} /\ resolved \in published /\ excused' = excused + 1
  BY <1>0 DEF Refresh!Inv, Refresh!IsNew, Refresh!MaskedBefore
<1>3. Refresh!TypeOK'
  <2>1. {prompt, stopped, running, recent, threaded, ended}' \subseteq BOOLEAN
    BY <1>0, Zenon DEF Refresh!Inv, Refresh!TypeOK
  <2>. QED
    BY <1>0, <1>2, <2>1 DEF Refresh!Inv, Refresh!TypeOK
<1>4. Refresh!AskedOnce' /\ (Refresh!Carried' <=> Refresh!Carried)
  BY <1>0, RefreshWorks
<1>5. Refresh!MaskedBefore' /\ Refresh!IsNew' /\ Refresh!InUseIsMasked'
  BY <1>0, <1>2 DEF Refresh!Inv, Refresh!MaskedBefore, Refresh!IsNew, Refresh!InUseIsMasked
<1>6. Refresh!StopsHard' /\ Refresh!NoSpinning' /\ Refresh!AdmissionHeld'
  BY <1>0, <1>1, <1>2
     DEF Refresh!Inv, Refresh!TypeOK, Refresh!StopsHard, Refresh!NoSpinning,
         Refresh!AdmissionHeld, Refresh!Resolving
<1>7. Refresh!OneAtATime'
  <2>1. prompt => ~Refresh!Carried /\ recent
    BY <1>1 DEF Refresh!Inv, Refresh!OneAtATime
  <2>2. prompt => \A i \in DOMAIN answers : answers[i].set = NoSet
    BY <2>1 DEF Refresh!Carried
  <2>3. prompt => \A r \in Requests : where[r] # "heard"
    BY <2>1 DEF Refresh!Carried
  <2>. QED
    BY <1>0, <1>4, <2>1, <2>2, <2>3 DEF Refresh!OneAtATime
<1>. QED
  BY <1>3, <1>4, <1>5, <1>6, <1>7 DEF Refresh!Inv

(* The thread answers, and is free for another question.                   *)
LEMMA RefreshAnswerInv ==
  ASSUME Refresh!Inv, Refresh!Answer
  PROVE  Refresh!Inv'
<1>0. /\ step = "answer" /\ Refresh!Answered(job, resolved)
      /\ step' = "idle" /\ resolved' = NoSet
      /\ UNCHANGED <<prompt, stopped, running, recent, threaded, jobs, job, super, proxy,
                     published, asked, ended, where, handed, runs, excused>>
  BY DEF Refresh!Answer
<1>1. job \in Requests /\ job \in Refresh!Worked /\ resolved \in Sets \cup {NoSet}
  BY <1>0 DEF Refresh!Inv, Refresh!TypeOK, Refresh!AskedOnce, Refresh!Worked
<1>2. /\ answers' \in Seq([for : Requests, set : Sets \cup {NoSet}])
      /\ DOMAIN answers \subseteq DOMAIN answers'
      /\ \A i \in DOMAIN answers : answers'[i] = answers[i]
      /\ \A i \in DOMAIN answers' \ DOMAIN answers :
           /\ i = Len(answers) + 1 /\ answers'[i].for = job
           /\ answers'[i].set = IF resolved \in TooMany THEN NoSet ELSE resolved
      /\ ~ended => Len(answers) + 1 \in DOMAIN answers' \ DOMAIN answers
  BY <1>0, <1>1, RefreshAnswered, Zenon DEF Refresh!Inv
<1>3. Refresh!TypeOK'
  BY <1>0, <1>2 DEF Refresh!Inv, Refresh!TypeOK
<1>4. Refresh!AskedOnce'
  <2>1. Refresh!Queued' = Refresh!Queued /\ Refresh!Worked' = {}
    BY <1>0 DEF Refresh!Queued, Refresh!Worked
  <2>2. Refresh!Returned' \subseteq Refresh!Returned \cup {job}
    BY <1>2 DEF Refresh!Returned
  <2>3. \A i \in DOMAIN answers : answers[i].for # job
    BY <1>1 DEF Refresh!Inv, Refresh!AskedOnce, Refresh!Returned
  <2>4. \A i, j \in DOMAIN answers' : answers'[i].for = answers'[j].for => i = j
    BY <1>2, <2>3 DEF Refresh!Inv, Refresh!AskedOnce
  <2>. QED
    BY <1>0, <1>1, <2>1, <2>2, <2>4 DEF Refresh!Inv, Refresh!AskedOnce
<1>5. Refresh!MaskedBefore' /\ Refresh!IsNew' /\ Refresh!InUseIsMasked'
  BY <1>0, <1>2 DEF Refresh!Inv, Refresh!MaskedBefore, Refresh!IsNew, Refresh!InUseIsMasked
<1>6. Refresh!StopsHard' /\ Refresh!NoSpinning' /\ Refresh!AdmissionHeld'
  BY <1>0 DEF Refresh!Inv, Refresh!StopsHard, Refresh!NoSpinning, Refresh!AdmissionHeld,
              Refresh!Resolving
<1>7. Refresh!OneAtATime'
  <2>. SUFFICES ASSUME prompt PROVE Refresh!OneAtATime'
    BY <1>0 DEF Refresh!OneAtATime
  <2>1. ~running /\ recent /\ ~Refresh!Carried /\ resolved \in {NoSet, super}
    BY <1>0 DEF Refresh!Inv, Refresh!OneAtATime
  <2>2. \A i \in DOMAIN answers' : answers'[i].set \in {NoSet, super}
    BY <1>2, <2>1 DEF Refresh!Inv, Refresh!OneAtATime
  <2>3. ~ended /\ super \notin TooMany \cup {proxy} => Refresh!Carried'
    <3>. SUFFICES ASSUME ~ended, super \notin TooMany, super # proxy PROVE Refresh!Carried'
      OBVIOUS
    <3>1. resolved = super /\ super # NoSet
      BY <2>1, RefreshSetsAssumption
         DEF Refresh!Inv, Refresh!OneAtATime, Refresh!TypeOK, Refresh!SetsAssumption
    <3>2. /\ Len(answers) + 1 \in DOMAIN answers'
          /\ answers'[Len(answers) + 1].set = super
      BY <1>2, <3>1
    <3>. QED
      BY <3>1, <3>2 DEF Refresh!Carried
  <2>4. \A r \in Requests : where'[r] # "heard"
    BY <1>0, <2>1 DEF Refresh!Carried
  <2>. QED
    BY <1>0, <2>1, <2>2, <2>3, <2>4 DEF Refresh!OneAtATime
<1>. QED
  BY <1>3, <1>4, <1>5, <1>6, <1>7 DEF Refresh!Inv

(* The gap passes, or the link ends with what was sent read or lost.       *)
LEMMA RefreshTimeInv ==
  ASSUME Refresh!Inv, Refresh!GapPasses \/ Refresh!LinkEnds
  PROVE  Refresh!Inv'
<1>0. /\ UNCHANGED <<prompt, stopped, running, threaded, jobs, step, job, resolved, super,
                     proxy, published, answers, where, handed, runs, excused>>
      /\ \/ /\ asked' = asked /\ ended' = ended
            /\ recent' = FALSE /\ (prompt => ~Refresh!Underway)
         \/ asked' \in {asked, << >>} /\ ended' = TRUE /\ recent' = recent
  BY DEF Refresh!GapPasses, Refresh!LinkEnds
<1>1. Refresh!TypeOK'
  <2>1. {prompt, stopped, running, recent, threaded, ended}' \subseteq BOOLEAN
    BY <1>0, Zenon DEF Refresh!Inv, Refresh!TypeOK
  <2>2. asked' \in Seq(Requests)
    <3>1. asked \in Seq(Requests) /\ << >> \in Seq(Requests)
      BY DEF Refresh!Inv, Refresh!TypeOK
    <3>. QED
      BY <1>0, <3>1
  <2>. QED
    BY <1>0, <2>1, <2>2 DEF Refresh!Inv, Refresh!TypeOK
<1>2. Refresh!AskedOnce'
  <2>1. /\ DOMAIN asked' \subseteq DOMAIN asked
        /\ \A i \in DOMAIN asked' : asked'[i] = asked[i]
    BY <1>0
  <2>2. Refresh!Queued' \subseteq Refresh!Queued
    BY <1>0, <2>1 DEF Refresh!Queued
  <2>3. Refresh!Worked' = Refresh!Worked /\ Refresh!Returned' = Refresh!Returned
    BY <1>0 DEF Refresh!Worked, Refresh!Returned
  <2>. QED
    BY <1>0, <2>1, <2>2, <2>3 DEF Refresh!Inv, Refresh!AskedOnce
<1>3. Refresh!MaskedBefore' /\ Refresh!IsNew' /\ Refresh!InUseIsMasked'
  BY <1>0 DEF Refresh!Inv, Refresh!MaskedBefore, Refresh!IsNew, Refresh!InUseIsMasked
<1>4. Refresh!StopsHard' /\ Refresh!NoSpinning' /\ Refresh!AdmissionHeld'
  BY <1>0 DEF Refresh!Inv, Refresh!StopsHard, Refresh!NoSpinning, Refresh!AdmissionHeld,
              Refresh!Resolving
<1>5. Refresh!OneAtATime'
  <2>1. Refresh!Carried' <=> Refresh!Carried
    BY <1>0 DEF Refresh!Carried
  <2>2. ~Refresh!Underway => ~running /\ step = "idle" /\ ~Refresh!Carried
    BY DEF Refresh!Underway, Refresh!Carried
  <2>. QED
    BY <1>0, <2>1, <2>2 DEF Refresh!Inv, Refresh!OneAtATime
<1>. QED
  BY <1>1, <1>2, <1>3, <1>4, <1>5 DEF Refresh!Inv

(* The invariant of the refreshes.                                         *)
THEOREM RefreshInvariance == Refresh!Spec => []Refresh!Inv
<1>1. Refresh!Inv /\ [Refresh!Next]_(Refresh!vars) => Refresh!Inv'
  <2>. SUFFICES ASSUME Refresh!Inv, [Refresh!Next]_(Refresh!vars) PROVE Refresh!Inv'
    OBVIOUS
  <2>1. CASE UNCHANGED Refresh!vars
    <3>1. Refresh!AskedOnce' /\ (Refresh!Carried' <=> Refresh!Carried)
      BY <2>1 DEF Refresh!vars, Refresh!Inv, Refresh!AskedOnce, Refresh!Queued,
                  Refresh!Worked, Refresh!Returned, Refresh!Carried
    <3>2. Refresh!TypeOK' /\ Refresh!MaskedBefore' /\ Refresh!IsNew' /\ Refresh!InUseIsMasked'
      BY <2>1 DEF Refresh!vars, Refresh!Inv, Refresh!TypeOK, Refresh!MaskedBefore,
                  Refresh!IsNew, Refresh!InUseIsMasked
    <3>3. Refresh!StopsHard' /\ Refresh!NoSpinning' /\ Refresh!AdmissionHeld'
      BY <2>1 DEF Refresh!vars, Refresh!Inv, Refresh!StopsHard, Refresh!NoSpinning,
                  Refresh!AdmissionHeld, Refresh!Resolving
    <3>4. Refresh!OneAtATime'
      BY <2>1, <3>1 DEF Refresh!vars, Refresh!Inv, Refresh!OneAtATime
    <3>. QED
      BY <3>1, <3>2, <3>3, <3>4 DEF Refresh!Inv
  <2>2. CASE \E r \in Requests : Refresh!Ask(r) \/ Refresh!Request(r)
    BY <2>2, RefreshAskInv, RefreshRequestInv
  <2>3. CASE Refresh!Hear \/ Refresh!Reader \/ Refresh!GapPasses \/ Refresh!LinkEnds
    BY <2>3, RefreshHearInv, RefreshDeclineInv, RefreshAdmitInv, RefreshTimeInv
       DEF Refresh!Reader
  <2>4. CASE Refresh!Thread
    BY <2>4, RefreshTakeInv, RefreshVainInv, RefreshAnewInv, RefreshReplaceInv,
       RefreshAnswerInv DEF Refresh!Thread
  <2>. QED
    BY <2>1, <2>2, <2>3, <2>4 DEF Refresh!Next
<1>. QED
  BY <1>1, RefreshInitInv, PTL DEF Refresh!Spec

(* No set is in use, at either end, that the notifier does not mask.       *)
THEOREM MaskedWhileInUse == Refresh!Spec => []InUseIsMasked
<1>1. Refresh!Inv => InUseIsMasked
  BY DEF Refresh!Inv, InUseIsMasked
<1>. QED
  BY <1>1, RefreshInvariance, PTL

(* With nothing under way both ends hold the same set, unless the          *)
(* supervisor's names more plugins than a message hands over.              *)
THEOREM CopiesAgreeAtRest == Refresh!Spec => []CopiesAgree
<1>1. Refresh!Inv => CopiesAgree
  BY DEF Refresh!Inv, Refresh!OneAtATime, Refresh!Carried, CopiesAgree, Refresh!CopiesAgree,
         Refresh!Underway
<1>. QED
  BY <1>1, RefreshInvariance, PTL

(* What was admitted is under way and within its limits: the naming slots  *)
(* and the re-resolutions, of which none is tried in vain twice.           *)
THEOREM AdmissionsHeld == Spec /\ Refresh!Spec => []AdmittedWithinLimits
<1>1. Inv /\ Refresh!Inv => AdmittedWithinLimits
  BY DEF Inv, Refresh!Inv, AdmittedWithinLimits
<1>. QED
  BY <1>1, RepliesInvariance, RefreshInvariance, PTL

(* Where the question of a request is kept: with the reader, the thread or *)
(* in an answer.                                                           *)
LEMMA RefreshPassesOn ==
  ASSUME Refresh!AskedIsKept, UNCHANGED <<ended, where>>,
         ~ended => Refresh!Queued \cup Refresh!Worked \cup Refresh!Returned
                     \subseteq (Refresh!Queued \cup Refresh!Worked \cup Refresh!Returned)'
  PROVE  Refresh!AskedIsKept'
BY DEF Refresh!AskedIsKept

LEMMA RefreshAskKept ==
  ASSUME Refresh!Inv, Refresh!AskedIsKept, NEW r \in Requests, Refresh!Ask(r)
  PROVE  Refresh!AskedIsKept'
<1>0. /\ ended' = ended
      /\ where' = [where EXCEPT ![r] = IF ended THEN "done" ELSE "asked"]
      /\ asked' = IF ended THEN asked ELSE Append(asked, r)
      /\ UNCHANGED <<jobs, step, job, answers>>
  BY DEF Refresh!Ask, Refresh!Goto
<1>1. asked \in Seq(Requests) /\ Len(asked) \in Nat
  BY DEF Refresh!Inv, Refresh!TypeOK
<1>2. \A i \in DOMAIN asked : i \in DOMAIN asked' /\ asked'[i] = asked[i]
  BY <1>0, <1>1
<1>3. ~ended => Len(asked) + 1 \in DOMAIN asked' /\ asked'[Len(asked) + 1] = r
  BY <1>0, <1>1
<1>4. Refresh!Queued \subseteq Refresh!Queued' /\ (~ended => r \in Refresh!Queued')
  BY <1>0, <1>2, <1>3 DEF Refresh!Queued
<1>5. Refresh!Worked' = Refresh!Worked /\ Refresh!Returned' = Refresh!Returned
  BY <1>0 DEF Refresh!Worked, Refresh!Returned
<1>6. \A x \in Requests : x # r => where'[x] = where[x]
  BY <1>0 DEF Refresh!Inv, Refresh!TypeOK
<1>. QED
  BY <1>0, <1>4, <1>5, <1>6 DEF Refresh!AskedIsKept

LEMMA RefreshHearKept ==
  ASSUME Refresh!Inv, Refresh!AskedIsKept, Refresh!Hear
  PROVE  Refresh!AskedIsKept'
<1>. DEFINE r == Head(answers).for
            Answers == [for : Requests, set : Sets \cup {NoSet}]
<1>0. /\ answers # << >> /\ answers' = Tail(answers)
      /\ \E to \in {"done", "heard"} : where' = [where EXCEPT ![r] = to]
      /\ UNCHANGED <<jobs, step, job, asked, ended>>
  BY DEF Refresh!Hear, Refresh!Goto
<1>1. answers \in Seq(Answers)
  BY DEF Refresh!Inv, Refresh!TypeOK
<1>2. Head(answers) \in Answers /\ r = answers[1].for
  BY <1>0, <1>1, FirstTaken
<1>3. \A i \in DOMAIN answers : i # 1 => i - 1 \in DOMAIN answers' /\ answers'[i - 1] = answers[i]
  BY <1>0, <1>1
<1>4. r \in Requests
  BY <1>2
<1>. HIDE DEF r
<1>5. Refresh!Returned \subseteq Refresh!Returned' \cup {r}
  BY <1>2, <1>3 DEF Refresh!Returned
<1>6. Refresh!Queued' = Refresh!Queued /\ Refresh!Worked' = Refresh!Worked
  BY <1>0 DEF Refresh!Queued, Refresh!Worked
<1>7. where'[r] # "asked" /\ \A x \in Requests : x # r => where'[x] = where[x]
  BY <1>0, <1>4 DEF Refresh!Inv, Refresh!TypeOK
<1>. QED
  BY <1>0, <1>5, <1>6, <1>7 DEF Refresh!AskedIsKept

(* An answer on a link that is up is with the answers.                     *)
LEMMA RefreshReturns ==
  ASSUME Refresh!Inv, NEW r, NEW set, Refresh!Answered(r, set)
  PROVE  /\ Refresh!Returned \subseteq Refresh!Returned'
         /\ ~ended => r \in Refresh!Returned'
<1>. DEFINE a == [for |-> r, set |-> IF set \in TooMany THEN NoSet ELSE set]
<1>1. answers \in Seq([for : Requests, set : Sets \cup {NoSet}]) /\ Len(answers) \in Nat
  BY DEF Refresh!Inv, Refresh!TypeOK
<1>2. answers' = IF ended THEN answers ELSE Append(answers, a)
  BY DEF Refresh!Answered
<1>3. a.for = r
  OBVIOUS
<1>. HIDE DEF a
<1>4. \A i \in DOMAIN answers : i \in DOMAIN answers' /\ answers'[i] = answers[i]
  BY <1>1, <1>2
<1>5. ~ended => Len(answers) + 1 \in DOMAIN answers' /\ answers'[Len(answers) + 1] = a
  BY <1>1, <1>2
<1>. QED
  BY <1>3, <1>4, <1>5 DEF Refresh!Returned

LEMMA OneAdded ==
  ASSUME NEW S, NEW s \in Seq(S), NEW e, NEW t, t = Append(s, e)
  PROVE  /\ \A i \in DOMAIN s : i \in DOMAIN t /\ t[i] = s[i]
         /\ Len(s) + 1 \in DOMAIN t /\ t[Len(s) + 1] = e
OBVIOUS

LEMMA RefreshReaderKept ==
  ASSUME Refresh!Inv, Refresh!AskedIsKept, Refresh!Reader
  PROVE  Refresh!AskedIsKept'
<1>. DEFINE r == Head(asked)
<1>0. /\ asked # << >> /\ asked' = Tail(asked)
      /\ UNCHANGED <<step, job, ended, where>>
      /\ \/ Refresh!Answered(r, NoSet) /\ jobs' = jobs
         \/ jobs' = Append(jobs, r) /\ answers' = answers
  BY DEF Refresh!Reader, Refresh!Decline, Refresh!AdmitUnqueued, Refresh!Admit
<1>1. asked \in Seq(Requests) /\ jobs \in Seq(Requests) /\ Len(jobs) \in Nat
  BY DEF Refresh!Inv, Refresh!TypeOK
<1>2. r = asked[1]
  BY <1>0, <1>1, FirstTaken
<1>3. \A i \in DOMAIN asked : i # 1 => i - 1 \in DOMAIN asked' /\ asked'[i - 1] = asked[i]
  BY <1>0, <1>1
<1>. HIDE DEF r
<1>4. \A i \in DOMAIN jobs : i \in DOMAIN jobs' /\ jobs'[i] = jobs[i]
  <2>1. CASE jobs' = jobs
    BY <2>1
  <2>2. CASE jobs' = Append(jobs, r)
    BY <1>1, <2>2, OneAdded
  <2>. QED
    BY <1>0, <2>1, <2>2
<1>5. jobs' = Append(jobs, r) => Len(jobs) + 1 \in DOMAIN jobs' /\ jobs'[Len(jobs) + 1] = r
  BY <1>1, OneAdded
<1>6. Refresh!Queued \subseteq Refresh!Queued' \cup {r}
  BY <1>2, <1>3, <1>4 DEF Refresh!Queued
<1>7. Refresh!Worked' = Refresh!Worked
  BY <1>0 DEF Refresh!Worked
<1>8. CASE Refresh!Answered(r, NoSet) /\ jobs' = jobs
  <2>1. Refresh!Returned \subseteq Refresh!Returned' /\ (~ended => r \in Refresh!Returned')
    BY <1>8, RefreshReturns
  <2>. QED
    BY <1>0, <1>6, <1>7, <2>1, RefreshPassesOn
<1>9. CASE jobs' = Append(jobs, r) /\ answers' = answers
  <2>1. Refresh!Returned' = Refresh!Returned
    BY <1>9 DEF Refresh!Returned
  <2>2. r \in Refresh!Queued'
    BY <1>5, <1>9 DEF Refresh!Queued
  <2>. QED
    BY <1>0, <1>6, <1>7, <2>1, <2>2, RefreshPassesOn
<1>. QED
  BY <1>0, <1>8, <1>9

LEMMA RefreshThreadKept ==
  ASSUME Refresh!Inv, Refresh!AskedIsKept, Refresh!Thread
  PROVE  Refresh!AskedIsKept'
<1>0. UNCHANGED <<asked, ended, where>>
  BY DEF Refresh!Thread, Refresh!TakeJob, Refresh!ResolveInVain, Refresh!ResolvePanics,
         Refresh!ResolveAnew, Refresh!Publish, Refresh!CannotCross, Refresh!Replace,
         Refresh!Answer
<1>1. CASE Refresh!TakeJob
  <2>1. /\ step = "idle" /\ step' = "resolve" /\ jobs # << >> /\ answers' = answers
        /\ job' = Head(jobs) /\ jobs' = Tail(jobs)
    BY <1>1 DEF Refresh!TakeJob
  <2>2. jobs \in Seq(Requests)
    BY DEF Refresh!Inv, Refresh!TypeOK
  <2>3. job' = jobs[1]
    BY <2>1, <2>2, FirstTaken
  <2>4. \A i \in DOMAIN jobs : i # 1 => i - 1 \in DOMAIN jobs' /\ jobs'[i - 1] = jobs[i]
    BY <2>1, <2>2
  <2>5. Refresh!Queued \subseteq Refresh!Queued' \cup {job'}
    BY <1>0, <2>3, <2>4 DEF Refresh!Queued
  <2>6. Refresh!Worked = {} /\ Refresh!Worked' = {job'} /\ Refresh!Returned' = Refresh!Returned
    BY <2>1 DEF Refresh!Worked, Refresh!Returned
  <2>. QED
    BY <1>0, <2>5, <2>6, RefreshPassesOn
<1>2. CASE Refresh!Answer
  <2>1. /\ step = "answer" /\ step' = "idle" /\ jobs' = jobs
        /\ Refresh!Answered(job, resolved)
    BY <1>2 DEF Refresh!Answer
  <2>2. Refresh!Queued' = Refresh!Queued /\ Refresh!Worked = {job}
    BY <1>0, <2>1 DEF Refresh!Queued, Refresh!Worked
  <2>3. Refresh!Returned \subseteq Refresh!Returned' /\ (~ended => job \in Refresh!Returned')
    BY <2>1, RefreshReturns
  <2>. QED
    BY <1>0, <2>2, <2>3, RefreshPassesOn
<1>3. ASSUME ~Refresh!TakeJob, ~Refresh!Answer
      PROVE  Refresh!AskedIsKept'
  <2>1. step # "idle" /\ step' # "idle" /\ UNCHANGED <<jobs, job, answers>>
    BY <1>3 DEF Refresh!Thread, Refresh!ResolveInVain, Refresh!ResolvePanics, Refresh!Caught,
                Refresh!ResolveAnew, Refresh!Publish, Refresh!CannotCross, Refresh!Replace,
                Refresh!Finish
  <2>2. /\ Refresh!Queued' = Refresh!Queued /\ Refresh!Worked' = Refresh!Worked
        /\ Refresh!Returned' = Refresh!Returned
    BY <1>0, <2>1 DEF Refresh!Queued, Refresh!Worked, Refresh!Returned
  <2>. QED
    BY <1>0, <2>2, RefreshPassesOn
<1>. QED
  BY <1>1, <1>2, <1>3

(* The question of a request that asked is never dropped while the link is *)
(* up, whether its re-resolution is declined, fails or panics.             *)
THEOREM RefreshesAreKept == Refresh!Spec => []Refresh!AskedIsKept
<1>1. Refresh!Init => Refresh!AskedIsKept
  BY DEF Refresh!Init, Refresh!AskedIsKept
<1>2. Refresh!Inv /\ Refresh!AskedIsKept /\ [Refresh!Next]_(Refresh!vars) => Refresh!AskedIsKept'
  <2>. SUFFICES ASSUME Refresh!Inv, Refresh!AskedIsKept, [Refresh!Next]_(Refresh!vars)
                PROVE  Refresh!AskedIsKept'
    OBVIOUS
  <2>1. CASE UNCHANGED Refresh!vars
    BY <2>1 DEF Refresh!vars, Refresh!AskedIsKept, Refresh!Queued, Refresh!Worked,
                Refresh!Returned
  <2>2. ASSUME NEW r \in Requests, Refresh!Ask(r) PROVE Refresh!AskedIsKept'
    BY <2>2, RefreshAskKept
  <2>3. ASSUME NEW r \in Requests, Refresh!Request(r) PROVE Refresh!AskedIsKept'
    <3>1. UNCHANGED <<asked, jobs, step, job, answers, ended>>
      BY <2>3 DEF Refresh!Request, Refresh!LetGo, Refresh!InstallHanded
    <3>2. \A x \in Requests : where'[x] = "asked" => where[x] = "asked"
      BY <2>3 DEF Refresh!Request, Refresh!LetGo, Refresh!InstallHanded, Refresh!Goto,
                  Refresh!Inv, Refresh!TypeOK
    <3>3. /\ Refresh!Queued' = Refresh!Queued /\ Refresh!Worked' = Refresh!Worked
          /\ Refresh!Returned' = Refresh!Returned
      BY <3>1 DEF Refresh!Queued, Refresh!Worked, Refresh!Returned
    <3>. QED
      BY <3>1, <3>2, <3>3 DEF Refresh!AskedIsKept
  <2>4. CASE Refresh!Hear \/ Refresh!Reader \/ Refresh!Thread
    BY <2>4, RefreshHearKept, RefreshReaderKept, RefreshThreadKept
  <2>5. CASE Refresh!GapPasses
    BY <2>5 DEF Refresh!GapPasses, Refresh!AskedIsKept, Refresh!Queued, Refresh!Worked,
                Refresh!Returned
  <2>6. CASE Refresh!LinkEnds
    BY <2>6 DEF Refresh!LinkEnds, Refresh!AskedIsKept
  <2>. QED
    BY <2>1, <2>2, <2>3, <2>4, <2>5, <2>6 DEF Refresh!Next
<1>. QED
  BY <1>1, <1>2, RefreshInvariance, PTL DEF Refresh!Spec
=============================================================================
