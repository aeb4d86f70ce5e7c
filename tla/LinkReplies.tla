----------------------------- MODULE LinkReplies ----------------------------
(***************************************************************************)
(* How a question of the proxy's reaches the supervisor and its answer the *)
(* request that asked it (src/sandbox/proxy/link.rs): the table of waiting *)
(* replies (Link::ask_within, hand_over), the two readers and how they end *)
(* together (read_supervisor, read_proxy, Link::drop, Supervisor::close),  *)
(* and the questions that give up waiting, which name the program behind a *)
(* connection (Link::identify, serve_identify, NamingSlot).                *)
(*                                                                         *)
(* Every other question is answered by a thread of the supervisor's some   *)
(* time later, or never: modules AskQueue, UpstreamJudge and CredRefresh   *)
(* model those.                                                            *)
(***************************************************************************)
EXTENDS Naturals, Sequences, FiniteSets

CONSTANTS
  Asks,       \* the questions, each asked by a request of its own
  NamingMax,  \* the programs named at once (NAMING_MAX)
  NoAnswer    \* nothing was handed over

ASSUME AsksAssumption == IsFiniteSet(Asks) /\ NoAnswer \notin Asks
ASSUME NamingMaxAssumption == NamingMax \in Nat \ {0}

VARIABLES
  timed,    \* the questions that name a program and give up (IDENTIFY_WAIT)
  next,     \* Waiting: the last id given out
  replies,  \* Waiting: who is waiting for the answer under each id
  pc,       \* where each question is
  id,       \* the id it was sent under
  chan,     \* the answer handed to it, named by the question it answers
  up,       \* the questions on their way to the supervisor
  down,     \* the answers on their way to the proxy
  shut,     \* the socket was shut down, by either end
  left,     \* the proxy has dropped its end (Link::drop)
  reader,   \* the proxy's reader: 0 while it reads, then the step of its end
  server,   \* whether the supervisor's reader reads
  pending,  \* the questions the supervisor is to answer
  walks,    \* the ones of them it is naming a program for
  naming    \* how many of the NamingMax slots are taken

askVars  == <<timed, next, replies, pc, id, chan>>
wireVars == <<up, down, shut, left>>
superVars == <<server, pending, walks, naming>>
vars == <<askVars, wireVars, reader, superVars>>

Init ==
  /\ timed \in SUBSET Asks
  /\ next = 0 /\ replies = << >>
  /\ pc = [a \in Asks |-> "ready"]
  /\ id = [a \in Asks |-> 0]
  /\ chan = [a \in Asks |-> NoAnswer]
  /\ up = << >> /\ down = << >> /\ shut = FALSE /\ left = FALSE
  /\ reader = 0 /\ server = TRUE
  /\ pending = {} /\ walks = {} /\ naming = 0

-----------------------------------------------------------------------------
(* A question: Link::ask_within.                                           *)

Goto(a, to) == pc' = [pc EXCEPT ![a] = to]

Without(i) == [j \in DOMAIN replies \ {i} |-> replies[j]]

(* Faulty: a question takes the first id nobody is waiting under.          *)
FreshIdReused == CHOOSE i \in 1 .. next + 1 : i \notin DOMAIN replies

FreshId == next + 1

Register(a) ==
  /\ pc[a] = "ready" /\ ~left
  /\ next' = FreshId
  /\ id' = [id EXCEPT ![a] = FreshId]
  /\ replies' = [i \in DOMAIN replies \cup {FreshId} |->
                   IF i = FreshId THEN a ELSE replies[i]]
  /\ Goto(a, "registered")
  /\ UNCHANGED <<timed, chan, wireVars, reader, superVars>>

Send(a) ==
  /\ pc[a] = "registered"
  /\ IF shut THEN Goto(a, "forget") /\ UNCHANGED up
             ELSE Goto(a, "waiting") /\ up' = Append(up, [id |-> id[a], for |-> a])
  /\ UNCHANGED <<timed, next, replies, id, chan, down, shut, left, reader, superVars>>

Receive(a) ==
  /\ pc[a] = "waiting" /\ chan[a] # NoAnswer
  /\ Goto(a, "done")
  /\ UNCHANGED <<timed, next, replies, id, chan, wireVars, reader, superVars>>

(* Faulty: a question that gave up stays in the table.                     *)
AfterGivingUpKept == "done"

(* Where a question that gave up goes: back to the table.                  *)
AfterGivingUp == "forget"

(* The table let go of it, and with it of the channel it waits on.         *)
LetGo(a) ==
  /\ pc[a] = "waiting" /\ chan[a] = NoAnswer
  /\ id[a] \notin DOMAIN replies
  /\ Goto(a, IF a \in timed THEN AfterGivingUp ELSE "done")
  /\ UNCHANGED <<timed, next, replies, id, chan, wireVars, reader, superVars>>

(* Faulty: a question waits for as long as it takes.                       *)
GivesUpNever(a) == FALSE

GivesUp(a) == a \in timed

TimeOut(a) ==
  /\ GivesUp(a)
  /\ pc[a] = "waiting" /\ chan[a] = NoAnswer
  /\ Goto(a, AfterGivingUp)
  /\ UNCHANGED <<timed, next, replies, id, chan, wireVars, reader, superVars>>

Forget(a) ==
  /\ pc[a] = "forget"
  /\ replies' = Without(id[a])
  /\ Goto(a, "done")
  /\ UNCHANGED <<timed, next, id, chan, wireVars, reader, superVars>>

(* Link::drop, once no request uses the link: the reader at the other end  *)
(* reads the end of it.                                                    *)
Drop ==
  /\ ~left
  /\ \A a \in Asks : pc[a] \in {"ready", "done"}
  /\ left' = TRUE
  /\ UNCHANGED <<askVars, up, down, shut, reader, superVars>>

-----------------------------------------------------------------------------
(* The proxy's reader: read_supervisor and hand_over.                      *)

HandOver ==
  /\ reader = 0 /\ down # << >>
  /\ down' = Tail(down)
  /\ LET i == Head(down).id IN
       IF i \in DOMAIN replies
         THEN /\ chan' = [chan EXCEPT ![replies[i]] = Head(down).for]
              /\ replies' = Without(i)
         ELSE UNCHANGED <<chan, replies>>
  /\ UNCHANGED <<timed, next, pc, id, up, shut, left, reader, superVars>>

(* The link ended; or a message does not decode, at any time.              *)
ReadEnd ==
  /\ reader = 0
  /\ shut \/ down # << >>
  /\ reader' = 1
  /\ UNCHANGED <<askVars, wireVars, superVars>>

(* Faulty: the waiting are let go while questions are still sent.          *)
EndingLetsGoFirst == <<"clear", "shutdown">>

Ending == <<"shutdown", "clear">>

EndStep ==
  /\ reader \in DOMAIN Ending
  /\ reader' = reader + 1
  /\ shut' = (shut \/ Ending[reader] = "shutdown")
  /\ replies' = IF Ending[reader] = "clear" THEN << >> ELSE replies
  /\ UNCHANGED <<timed, next, pc, id, chan, up, down, left, superVars>>

-----------------------------------------------------------------------------
(* The supervisor: read_proxy, serve_identify and the threads that answer. *)

(* A send after the link has ended fails.                                  *)
Say(q) == down' = IF shut \/ ~server THEN down ELSE Append(down, q)

Serve ==
  /\ server /\ up # << >>
  /\ Head(up).for \notin timed
  /\ up' = Tail(up)
  /\ pending' = pending \cup {Head(up)}
  /\ UNCHANGED <<askVars, down, shut, left, reader, server, walks, naming>>

(* Answered with no name at once: every slot is taken, or the thread could *)
(* not be started, which drops the slot it was to hold.                    *)
ServeUnnamed ==
  /\ server /\ up # << >>
  /\ Head(up).for \in timed
  /\ up' = Tail(up)
  /\ Say(Head(up))
  /\ UNCHANGED <<askVars, shut, left, reader, superVars>>

(* Faulty: one question more than there are slots is walked.               *)
SlotFreeOffByOne == naming <= NamingMax

SlotFree == naming < NamingMax

ServeIdentify ==
  /\ server /\ up # << >>
  /\ Head(up).for \in timed
  /\ SlotFree
  /\ up' = Tail(up)
  /\ pending' = pending \cup {Head(up)}
  /\ walks' = walks \cup {Head(up)}
  /\ naming' = naming + 1
  /\ UNCHANGED <<askVars, down, shut, left, reader, server>>

Answer(q) ==
  /\ q \in pending
  /\ pending' = pending \ {q}
  /\ Say(q)
  /\ UNCHANGED <<askVars, up, shut, left, reader, server, walks, naming>>

(* A walk that panics answers nothing.                                     *)
WalkPanics(q) ==
  /\ q \in walks \cap pending
  /\ pending' = pending \ {q}
  /\ UNCHANGED <<askVars, wireVars, reader, server, walks, naming>>

(* Faulty: the slot of a walk that ended is kept.                          *)
GivenBackNot == 0

GivenBack == 1

(* The walk's thread ends, and drops its slot.                             *)
WalkEnds(q) ==
  /\ q \in walks \ pending
  /\ walks' = walks \ {q}
  /\ naming' = naming - GivenBack
  /\ UNCHANGED <<askVars, wireVars, reader, server, pending>>

(* Faulty: the supervisor's reader ends without ending the link.           *)
EndsLinkNot == FALSE

EndsLink == TRUE

(* The supervisor's reader ends with the link, or at a message it cannot   *)
(* read, and ends the link then.                                           *)
ServerEnds ==
  /\ server
  /\ shut \/ left \/ up # << >>
  /\ server' = FALSE
  /\ shut' = (shut \/ EndsLink)
  /\ UNCHANGED <<askVars, up, down, left, reader, pending, walks, naming>>

(* Supervisor::close, or a send that found no room within SEND_WAIT.       *)
Close ==
  /\ server /\ ~shut
  /\ shut' = TRUE
  /\ UNCHANGED <<askVars, up, down, left, reader, superVars>>

-----------------------------------------------------------------------------

Asking(a) == Register(a) \/ Send(a) \/ Receive(a) \/ LetGo(a) \/ TimeOut(a) \/ Forget(a)

ProxyReader == HandOver \/ ReadEnd \/ EndStep
SupervisorReader == Serve \/ ServeUnnamed \/ ServeIdentify \/ ServerEnds
Walk(q) == (q \in walks /\ Answer(q)) \/ WalkPanics(q) \/ WalkEnds(q)

Next ==
  \/ \E a \in Asks : Asking(a)
  \/ Drop \/ ProxyReader \/ SupervisorReader \/ Close
  \/ \E q \in pending \cup walks : Answer(q) \/ WalkPanics(q) \/ WalkEnds(q)

Spec == Init /\ [][Next]_vars

Questions == [id : 1 .. Cardinality(Asks), for : Asks]

(* Threads run on: a question that can go on does, the readers read, and   *)
(* time passes for a question that gives up.  Nobody need answer another   *)
(* question, and nobody need ask one or end the link.                      *)
Fairness ==
  /\ \A a \in Asks : WF_vars(Asking(a) /\ pc[a] # "ready")
  /\ WF_vars(ProxyReader) /\ WF_vars(SupervisorReader)
  /\ \A q \in Questions : WF_vars(Walk(q))

-----------------------------------------------------------------------------
(* Properties.                                                             *)

TypeOK ==
  /\ timed \subseteq Asks
  /\ next \in 0 .. Cardinality(Asks)
  /\ DOMAIN replies \subseteq 1 .. next /\ \A i \in DOMAIN replies : replies[i] \in Asks
  /\ pc \in [Asks -> {"ready", "registered", "waiting", "forget", "done"}]
  /\ id \in [Asks -> 0 .. next]
  /\ chan \in [Asks -> Asks \cup {NoAnswer}]
  /\ up \in Seq(Questions) /\ down \in Seq(Questions)
  /\ {shut, left, server} \subseteq BOOLEAN
  /\ reader \in 0 .. 3
  /\ pending \subseteq Questions /\ walks \subseteq Questions
  /\ naming \in 0 .. NamingMax

(* A request hears the answer to its own question, whoever gave up before  *)
(* and however late the answers come: an id is never given out twice.      *)
AnswerIsItsOwn == \A a \in Asks : chan[a] \in {NoAnswer, a}

(* Once the proxy's reader has let the waiting go, no question is left to  *)
(* wait for an answer nobody will read: it is let go, or it fails to send. *)
NobodyStranded ==
  reader = 3 => \A a \in Asks : pc[a] = "waiting" => id[a] \notin DOMAIN replies

(* The table holds only questions still under way, each under its own id:  *)
(* giving up, a failed send and an answer each leave nothing behind.       *)
NothingLeftWaiting ==
  \A i \in DOMAIN replies :
    id[replies[i]] = i /\ pc[replies[i]] \in {"registered", "waiting", "forget"}

(* The table of waiting replies is right: an answer reaches the question   *)
(* it answers, whoever gave up leaves nothing in the table, and nobody is  *)
(* left in it once the reader has let the waiting go (Link::ask_within,    *)
(* hand_over, read_supervisor).                                            *)
RepliesFindTheirs == AnswerIsItsOwn /\ NothingLeftWaiting /\ NobodyStranded

(* The slots taken are the walks under way, at most NamingMax of them; a   *)
(* walk that panics gives its slot back too.                               *)
SlotsHeld == naming = Cardinality(walks) /\ naming <= NamingMax

(* Every question waiting when the link ends is let go.                    *)
LinkEndLetsGo == \A a \in Asks : shut /\ pc[a] = "waiting" ~> pc[a] = "done"

(* A question that gives up ends, even where its walk panicked.            *)
NamingEnds == \A a \in Asks : a \in timed /\ pc[a] = "waiting" ~> pc[a] = "done"

(* When the proxy drops its end, both readers end with it.                 *)
ReadersEnd == left ~> reader = 3 /\ ~server

-----------------------------------------------------------------------------
(* The inductive invariant.                                                *)

(* Every question but the ones not asked yet has an id of its own.         *)
IdsAreTheirOwn ==
  /\ next = Cardinality({a \in Asks : pc[a] # "ready"})
  /\ \A a \in Asks : pc[a] = "ready" <=> id[a] = 0
  /\ \A a, b \in Asks : id[a] = id[b] /\ id[a] # 0 => a = b

(* A message carries the id of the question it is for, wherever it is.     *)
SentUnderItsId ==
  /\ \A i \in DOMAIN up : up[i].id = id[up[i].for]
  /\ \A i \in DOMAIN down : down[i].id = id[down[i].for]
  /\ \A q \in pending \cup walks : q.id = id[q.for]

(* A question is sent once, and served once.                               *)
SentOnce ==
  /\ \A i \in DOMAIN up : /\ pc[up[i].for] \notin {"ready", "registered"}
                         /\ up[i] \notin pending \cup walks
                         /\ \A j \in DOMAIN up : up[i] = up[j] => i = j
  /\ \A q \in pending \cup walks : pc[q.for] \notin {"ready", "registered"}

(* An answer takes its question out of the table.                          *)
HandedOverOnce ==
  \A a \in Asks : chan[a] # NoAnswer => pc[a] # "ready" /\ id[a] \notin DOMAIN replies

(* The socket is shut down before the waiting are let go.                  *)
ShutFirst == reader \in {2, 3} => shut

Inv ==
  /\ TypeOK /\ IsFiniteSet(walks)
  /\ IdsAreTheirOwn /\ SentUnderItsId /\ SentOnce /\ HandedOverOnce /\ ShutFirst
  /\ RepliesFindTheirs /\ SlotsHeld

-----------------------------------------------------------------------------
(* What becomes of a question nobody gives up on.                          *)

(* The questions sent and not handed over yet.                             *)
UnderWay == {up[i] : i \in DOMAIN up} \cup pending \cup {down[i] : i \in DOMAIN down}

(* Whoever waits is in the table, where the answer or the end finds it.    *)
InTheTable ==
  \A a \in Asks : pc[a] \in {"registered", "waiting"} /\ ~shut =>
    chan[a] # NoAnswer \/ id[a] \in DOMAIN replies

(* A question that was sent is answered, given up, or still under way.     *)
SentAndKept ==
  \A a \in Asks \ timed : pc[a] = "waiting" /\ ~shut =>
    chan[a] # NoAnswer \/ \E q \in UnderWay : q.for = a

(* Only a walk may end with no answer, and nobody stops reading questions  *)
(* on a link that is up.                                                   *)
WalksAreTimed == \A q \in walks : q.for \in timed
ReadWhileUp   == server \/ shut

(* No question is forgotten while the link is up, with no step left that   *)
(* would answer it or let it go (Link::ask_within, read_proxy).            *)
NobodyForgotten == InTheTable /\ SentAndKept /\ WalksAreTimed /\ ReadWhileUp
=============================================================================
