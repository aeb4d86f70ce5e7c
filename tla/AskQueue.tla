------------------------------ MODULE AskQueue ------------------------------
(***************************************************************************)
(* The queue of egress requests parked under `mode = "ask"`                *)
(* (src/sandbox/control/mod.rs, PendingState), with everything that runs   *)
(* against it: the reader of the proxy's link, which lets a request in and *)
(* drains the queue when the link ends (src/sandbox/proxy/link.rs,         *)
(* serve_park, read_proxy); one waiting thread per parked request; and the *)
(* control connections, each of which carries one operator's command       *)
(* (dispatch: ALLOW/DENY <seq>, ALLOW/DENY *, either with `session`).      *)
(*                                                                         *)
(* One step is one critical section of the queue's mutex, or one operation *)
(* on a request's answer channel.  Commands release the mutex between      *)
(* reading the queue and answering it, so requests park, time out and are  *)
(* answered by somebody else in between.                                   *)
(***************************************************************************)
EXTENDS Naturals, FiniteSets

CONSTANTS
  Parks,       \* the Park messages the proxy sends, each about one request
  Dests,       \* what a request asks for: host, port and path
  Requestable, \* the destinations whose host is a name or an address
  Endpoint,    \* the host and port of a destination
  Ops,         \* the operators' control connections, one command each
  Reader,      \* the reader of the link, which drains the queue at its end
  Cap,         \* the most requests parked at once (ASK_PENDING_CAP)
  AskTimeout   \* whether `[network] ask_timeout` is set

ASSUME CapAssumption == Cap \in Nat
ASSUME ParksAssumption == IsFiniteSet(Parks)
ASSUME ReaderAssumption == Reader \notin Ops
ASSUME TimeoutAssumption == AskTimeout \in BOOLEAN

Verdicts == {"Allow", "Deny"}
Drainers == Ops \cup {Reader}

VARIABLES
  nextSeq,  \* the last id given out
  seq,      \* the id each request was let in under, 0 before
  dest,     \* what each request asks for
  entries,  \* the requests in the queue
  chan,     \* what was sent on each request's answer channel
  thread,   \* where the thread serving each request is
  verdict,  \* the answer each finished request was given
  linkUp,   \* the link to the proxy has not ended
  pc,       \* where each command is
  cmd,      \* what each command says
  seen,     \* the ids a drain read at its start
  ran,      \* the endpoints `first` was run on
  taken,    \* the requests a drain removed and has not sent to
  told      \* the requests each command reports as answered

queueVars == <<nextSeq, seq, dest, entries>>
waitVars  == <<chan, thread, verdict>>
cmdVars   == <<pc, cmd, seen, ran, taken, told>>
vars      == <<queueVars, waitVars, linkUp, cmdVars>>

Threads == {"unborn", "starting", "waiting", "leaving", "withdrawn", "done"}
PCs     == {"idle", "first", "answer", "take", "send", "ok", "not-found",
            "unconfirmed"}

(* `target` is the id a command names, 0 standing for `*`.                 *)
Commands == [verdict : Verdicts, session : BOOLEAN, target : Nat]

(* What the reader does when the link ends: answer_all(Verdict::Deny).     *)
Dismissal == [verdict |-> "Deny", session |-> FALSE, target |-> 0]

Init ==
  /\ nextSeq = 0
  /\ seq = [p \in Parks |-> 0]
  /\ dest \in [Parks -> Dests]
  /\ entries = {}
  /\ chan = [p \in Parks |-> "empty"]
  /\ thread = [p \in Parks |-> "unborn"]
  /\ verdict = [p \in Parks |-> "none"]
  /\ linkUp = TRUE
  /\ pc = [o \in Drainers |-> "idle"]
  /\ cmd = [o \in Drainers |-> Dismissal]
  /\ seen = [o \in Drainers |-> {}]
  /\ ran = [o \in Drainers |-> {}]
  /\ taken = [o \in Drainers |-> {}]
  /\ told = [o \in Drainers |-> {}]

(* The sending end of a request's channel lives in its queue entry, and in *)
(* the hands of a drain that removed the entry and has not sent yet.       *)
SenderAlive(p) == p \in entries \/ \E o \in Drainers : p \in taken[o]

(* Faulty: a channel whose sender is gone is read as an allow.             *)
ReceivedFailOpen(p) == IF chan[p] = "empty" THEN "Allow" ELSE chan[p]

(* What `recv` returns: the answer sent, or a deny once none can come.     *)
Received(p) == IF chan[p] = "empty" THEN "Deny" ELSE chan[p]

-----------------------------------------------------------------------------
(* The reader of the link takes one message at a time.                     *)

ReaderFree == linkUp /\ \A p \in Parks : thread[p] \notin {"starting", "withdrawn"}

(* PendingState::enqueue, from serve_park: the cap is tested in the same   *)
(* critical section that inserts, under an id never given out before.      *)
Enqueue(p) ==
  /\ ReaderFree
  /\ thread[p] = "unborn"
  /\ dest[p] \in Requestable
  /\ Cardinality(entries) < Cap
  /\ nextSeq' = nextSeq + 1
  /\ seq' = [seq EXCEPT ![p] = nextSeq + 1]
  /\ entries' = entries \cup {p}
  /\ thread' = [thread EXCEPT ![p] = "starting"]
  /\ UNCHANGED <<dest, chan, verdict, linkUp, cmdVars>>

(* Past the cap, or about a host that is neither a name nor an address, a  *)
(* request is denied without entering the queue.                           *)
DenyAtOnce(p) ==
  /\ ReaderFree
  /\ thread[p] = "unborn"
  /\ dest[p] \notin Requestable \/ Cardinality(entries) >= Cap
  /\ thread' = [thread EXCEPT ![p] = "done"]
  /\ verdict' = [verdict EXCEPT ![p] = "Deny"]
  /\ UNCHANGED <<queueVars, chan, linkUp, cmdVars>>

(* The thread that waits for the answer was started.                       *)
StartWaiter(p) ==
  /\ thread[p] = "starting"
  /\ thread' = [thread EXCEPT ![p] = "waiting"]
  /\ UNCHANGED <<queueVars, chan, verdict, linkUp, cmdVars>>

(* No thread could be started: PendingState::withdraw, on the reader.      *)
(* Out of the queue first, then wait for an answer already on its way.     *)
WithdrawForget(p) ==
  /\ thread[p] = "starting"
  /\ entries' = entries \ {p}
  /\ thread' = [thread EXCEPT ![p] = "withdrawn"]
  /\ UNCHANGED <<nextSeq, seq, dest, chan, verdict, linkUp, cmdVars>>

(* Faulty: the request keeps a sender of its own, so its channel never     *)
(* closes.                                                                 *)
WithdrawRecvOwnSender(p) ==
  /\ thread[p] = "withdrawn"
  /\ chan[p] # "empty"
  /\ thread' = [thread EXCEPT ![p] = "done"]
  /\ verdict' = [verdict EXCEPT ![p] = Received(p)]
  /\ UNCHANGED <<queueVars, chan, linkUp, cmdVars>>

(* Faulty: the answer is read without waiting for one on its way.          *)
WithdrawTryRecv(p) ==
  /\ thread[p] = "withdrawn"
  /\ thread' = [thread EXCEPT ![p] = "done"]
  /\ verdict' = [verdict EXCEPT ![p] = Received(p)]
  /\ UNCHANGED <<queueVars, chan, linkUp, cmdVars>>

WithdrawRecv(p) ==
  /\ thread[p] = "withdrawn"
  /\ chan[p] # "empty" \/ ~SenderAlive(p)
  /\ thread' = [thread EXCEPT ![p] = "done"]
  /\ verdict' = [verdict EXCEPT ![p] = Received(p)]
  /\ UNCHANGED <<queueVars, chan, linkUp, cmdVars>>

(* Faulty: the link ends and the queue is left as it is.                   *)
LinkEndsUndrained ==
  /\ ReaderFree
  /\ linkUp' = FALSE
  /\ UNCHANGED <<queueVars, waitVars, cmdVars>>

(* The end of read_proxy: nobody is left to hear the answers, so the       *)
(* reader drains the queue with a deny, as PendingState::answer_all.       *)
LinkEnds ==
  /\ ReaderFree
  /\ linkUp' = FALSE
  /\ seen' = [seen EXCEPT ![Reader] = {seq[p] : p \in entries}]
  /\ ran' = [ran EXCEPT ![Reader] = {Endpoint[dest[p]] : p \in entries}]
  /\ pc' = [pc EXCEPT ![Reader] = "take"]
  /\ UNCHANGED <<queueVars, waitVars, cmd, taken, told>>

-----------------------------------------------------------------------------
(* The waiting thread: PendingState::wait.                                 *)

WaitRecv(p) ==
  /\ thread[p] = "waiting"
  /\ chan[p] # "empty" \/ ~SenderAlive(p)
  /\ thread' = [thread EXCEPT ![p] = "leaving"]
  /\ verdict' = [verdict EXCEPT ![p] = Received(p)]
  /\ UNCHANGED <<queueVars, chan, linkUp, cmdVars>>

WaitTimeout(p) ==
  /\ AskTimeout
  /\ thread[p] = "waiting"
  /\ chan[p] = "empty"
  /\ thread' = [thread EXCEPT ![p] = "leaving"]
  /\ verdict' = [verdict EXCEPT ![p] = "Deny"]
  /\ UNCHANGED <<queueVars, chan, linkUp, cmdVars>>

(* The trailing `forget` takes the mutex again, in a step of its own.      *)
WaitForget(p) ==
  /\ thread[p] = "leaving"
  /\ entries' = entries \ {p}
  /\ thread' = [thread EXCEPT ![p] = "done"]
  /\ UNCHANGED <<nextSeq, seq, dest, chan, verdict, linkUp, cmdVars>>

-----------------------------------------------------------------------------
(* ALLOW/DENY <seq>: PendingState::answer_like_after, then answer_like.    *)

At(s) == {p \in entries : seq[p] = s}

Goto(o, next) == pc' = [pc EXCEPT ![o] = next]

LookUp(o, v, session, s) ==
  /\ pc[o] = "idle"
  /\ At(s) # {}
  /\ cmd' = [cmd EXCEPT ![o] = [verdict |-> v, session |-> session, target |-> s]]
  /\ ran' = [ran EXCEPT ![o] = {Endpoint[dest[p]] : p \in At(s)}]
  /\ Goto(o, "first")
  /\ UNCHANGED <<queueVars, waitVars, linkUp, seen, taken, told>>

(* No such request, or an id of another incarnation of this pid.           *)
LookUpMissing(o, s, ours) ==
  /\ pc[o] = "idle"
  /\ At(s) = {} \/ ~ours
  /\ Goto(o, "not-found")
  /\ UNCHANGED <<queueVars, waitVars, linkUp, cmd, seen, ran, taken, told>>

(* `first` runs with the queue unlocked: it remembers the destination when *)
(* the command carries `session`, and is done at once when it does not.    *)
FirstDone(o) ==
  /\ pc[o] = "first"
  /\ Goto(o, IF cmd[o].target = 0 THEN "take" ELSE "answer")
  /\ UNCHANGED <<queueVars, waitVars, linkUp, cmd, seen, ran, taken, told>>

FirstFails(o) ==
  /\ pc[o] = "first"
  /\ cmd[o].session
  /\ Goto(o, "unconfirmed")
  /\ UNCHANGED <<queueVars, waitVars, linkUp, cmd, seen, ran, taken, told>>

(* Faulty: the path is left out of the comparison.                         *)
AlikeByEndpoint(s) ==
  {p \in entries : \E q \in At(s) : Endpoint[dest[p]] = Endpoint[dest[q]]}

(* The parked requests to the destination of the request `s` names now.    *)
Alike(s) == {p \in entries : \E q \in At(s) : dest[p] = dest[q]}

AnswerLike(o) ==
  LET matching == Alike(cmd[o].target)
  IN  /\ pc[o] = "answer"
      /\ entries' = entries \ matching
      /\ chan' = [p \in Parks |-> IF p \in matching THEN cmd[o].verdict ELSE chan[p]]
      /\ told' = [told EXCEPT ![o] = matching]
      /\ Goto(o, IF matching # {} \/ cmd[o].session THEN "ok" ELSE "not-found")
      /\ UNCHANGED <<nextSeq, seq, dest, thread, verdict, linkUp, cmd, seen, ran, taken>>

-----------------------------------------------------------------------------
(* ALLOW/DENY *: PendingState::answer_all_after.                           *)

DrainSee(o, v, session) ==
  /\ pc[o] = "idle"
  /\ cmd' = [cmd EXCEPT ![o] = [verdict |-> v, session |-> session,
                                target |-> 0]]
  /\ seen' = [seen EXCEPT ![o] = {seq[p] : p \in entries}]
  /\ ran' = [ran EXCEPT ![o] = {Endpoint[dest[p]] : p \in entries}]
  /\ Goto(o, IF entries = {} THEN "take" ELSE "first")
  /\ UNCHANGED <<queueVars, waitVars, linkUp, taken, told>>

(* Faulty: whatever is parked by the time `first` is done is drained.      *)
DrainTakeAll(o) ==
  /\ pc[o] = "take"
  /\ entries' = {}
  /\ taken' = [taken EXCEPT ![o] = entries]
  /\ told' = [told EXCEPT ![o] = entries]
  /\ Goto(o, IF entries = {} THEN "ok" ELSE "send")
  /\ UNCHANGED <<nextSeq, seq, dest, waitVars, linkUp, cmd, seen, ran>>

(* What was parked at the start, and what has since parked for an endpoint *)
(* `first` ran on.                                                         *)
DrainTake(o) ==
  LET drained == {p \in entries : seq[p] \in seen[o] \/ Endpoint[dest[p]] \in ran[o]}
  IN  /\ pc[o] = "take"
      /\ entries' = entries \ drained
      /\ taken' = [taken EXCEPT ![o] = drained]
      /\ told' = [told EXCEPT ![o] = drained]
      /\ Goto(o, IF drained = {} THEN "ok" ELSE "send")
      /\ UNCHANGED <<nextSeq, seq, dest, waitVars, linkUp, cmd, seen, ran>>

(* Faulty: one send ends the drain, and the other senders are dropped.     *)
DrainSendFirst(o, p) ==
  /\ pc[o] = "send"
  /\ p \in taken[o]
  /\ chan' = [chan EXCEPT ![p] = cmd[o].verdict]
  /\ taken' = [taken EXCEPT ![o] = {}]
  /\ Goto(o, "ok")
  /\ UNCHANGED <<queueVars, thread, verdict, linkUp, cmd, seen, ran, told>>

(* The sends happen after the mutex is released, one request at a time.    *)
DrainSend(o, p) ==
  /\ pc[o] = "send"
  /\ p \in taken[o]
  /\ chan' = [chan EXCEPT ![p] = cmd[o].verdict]
  /\ taken' = [taken EXCEPT ![o] = @ \ {p}]
  /\ Goto(o, IF taken[o] = {p} THEN "ok" ELSE "send")
  /\ UNCHANGED <<queueVars, thread, verdict, linkUp, cmd, seen, ran, told>>

-----------------------------------------------------------------------------
ReaderStep(p) ==
  \/ Enqueue(p)
  \/ DenyAtOnce(p)
  \/ StartWaiter(p)
  \/ WithdrawForget(p)
  \/ WithdrawRecv(p)

WaiterStep(p) == WaitRecv(p) \/ WaitTimeout(p) \/ WaitForget(p)

Command(o) ==
  \/ \E v \in Verdicts, session \in BOOLEAN :
       \/ \E s \in 1 .. nextSeq : LookUp(o, v, session, s)
       \/ DrainSee(o, v, session)
  \/ \E s \in 1 .. (nextSeq + 1), ours \in BOOLEAN : LookUpMissing(o, s, ours)

CommandStep(o) ==
  \/ FirstDone(o)
  \/ FirstFails(o)
  \/ AnswerLike(o)
  \/ DrainTake(o)
  \/ \E p \in Parks : DrainSend(o, p)

(* Every request is through and every command has replied.                 *)
Finished ==
  /\ ~linkUp
  /\ \A p \in Parks : thread[p] \in {"unborn", "done"}
  /\ \A o \in Drainers : pc[o] \in {"idle", "ok", "not-found", "unconfirmed"}
  /\ UNCHANGED vars

Next ==
  \/ \E p \in Parks : ReaderStep(p) \/ WaiterStep(p)
  \/ \E o \in Ops : Command(o)
  \/ \E o \in Drainers : CommandStep(o)
  \/ LinkEnds
  \/ Finished

(* Threads run: one that can leave its wait leaves it, a command that is   *)
(* under way replies (`first` ends within CONFIRM_WAIT), and the reader    *)
(* finishes the message it is on.  Nothing makes an operator answer, a     *)
(* request arrive, the link end, or `ask_timeout` elapse.                  *)
Fairness ==
  /\ \A p \in Parks : /\ WF_vars(StartWaiter(p) \/ WithdrawForget(p))
                      /\ WF_vars(WithdrawRecv(p))
                      /\ WF_vars(WaitRecv(p))
                      /\ WF_vars(WaitForget(p))
  /\ \A o \in Drainers : WF_vars(CommandStep(o))

Spec == Init /\ [][Next]_vars

FairSpec == Spec /\ Fairness

-----------------------------------------------------------------------------
(* Properties.                                                             *)

(* Every variable has its type, and an id that was given out is not ahead  *)
(* of the counter.                                                         *)
TypeOK ==
  /\ nextSeq \in Nat
  /\ seq \in [Parks -> 0 .. nextSeq]
  /\ dest \in [Parks -> Dests]
  /\ entries \in SUBSET Parks
  /\ chan \in [Parks -> Verdicts \cup {"empty"}]
  /\ thread \in [Parks -> Threads]
  /\ verdict \in [Parks -> Verdicts \cup {"none"}]
  /\ linkUp \in BOOLEAN
  /\ pc \in [Drainers -> PCs]
  /\ cmd \in [Drainers -> Commands]
  /\ seen \in [Drainers -> SUBSET Nat]
  /\ ran \in [Drainers -> SUBSET {Endpoint[d] : d \in Dests}]
  /\ taken \in [Drainers -> SUBSET Parks]
  /\ told \in [Drainers -> SUBSET Parks]

(* A thread blocked in PendingState::wait has its answer, or somebody who  *)
(* can still give it: no command drops a sender it took out of the queue,  *)
(* which would turn into a deny nobody gave.                               *)
NoOrphanWaiter ==
  \A p \in Parks : thread[p] \in {"starting", "waiting"} =>
                     SenderAlive(p) \/ chan[p] # "empty"

(* A request that goes through was answered `allow` by an operator whose   *)
(* command counts it: neither a timeout, a lost sender, the end of the     *)
(* link nor a thread that could not be started lets one through.           *)
AllowNeedsOperator ==
  \A p \in Parks : verdict[p] = "Allow" =>
    \E o \in Ops : cmd[o].verdict = "Allow" /\ p \in told[o]

(* No two commands report the same request as answered, whatever they      *)
(* raced over.                                                             *)
AnsweredOnce ==
  \A o1, o2 \in Drainers : o1 # o2 => told[o1] \cap told[o2] = {}

(* An answer by id frees the requests to one destination only, path        *)
(* included, though the queue is read again after `first` ran.             *)
SparesOthers ==
  \A o \in Ops : cmd[o].target # 0 =>
    \A p, q \in told[o] : dest[p] = dest[q]

(* A request is only freed by a command whose `first` ran on its endpoint: *)
(* with `session` the rule that decides its retry is in force.  Holds      *)
(* across the unlocked `first`, in which requests come and go.             *)
FreedWhereFirstRan ==
  \A o \in Drainers : \A p \in told[o] : Endpoint[dest[p]] \in ran[o]

(* The flood guard: no more than Cap threads wait for an operator.         *)
WaitersBounded ==
  Cardinality({p \in Parks : /\ thread[p] \in {"starting", "waiting"}
                             /\ chan[p] = "empty"
                             /\ \A o \in Drainers : p \notin taken[o]}) <= Cap

(* A request a command reports as answered got that answer.                *)
ToldIsTrue ==
  \A o \in Drainers : \A p \in told[o] :
    thread[p] = "done" => verdict[p] = cmd[o].verdict

(* The end of the link lets every request go, the ones parked without a    *)
(* timeout included.                                                       *)
LinkEndFreesAll ==
  ~linkUp ~> \A p \in Parks : thread[p] \in {"unborn", "done"}

(* A request a command reports as answered stops waiting.                  *)
ToldAreWoken ==
  \A o \in Drainers, p \in Parks : p \in told[o] ~> thread[p] = "done"

-----------------------------------------------------------------------------
(* The queue implements AskPromise: a request is decided when it leaves    *)
(* the queue, by the answer that is then on its way to it.                 *)

AllowOnItsWay(p) ==
  \/ chan[p] = "Allow"
  \/ \E o \in Drainers : p \in taken[o] /\ cmd[o].verdict = "Allow"

Decided ==
  [p \in Parks |-> IF thread[p] = "unborn" THEN "none"
                   ELSE IF p \in entries THEN "open"
                   ELSE IF AllowOnItsWay(p) THEN "Allow" ELSE "Deny"]

Promise == INSTANCE AskPromise WITH MayGiveUp <- AskTimeout,
                                    decided <- Decided, heard <- verdict

(* Each step of the queue is a step of the promise, or none of it.         *)
KeepsPromise == Promise!Spec

(* ... and a request that was decided hears of it.                         *)
KeepsPromiseFairly == Promise!FairSpec

-----------------------------------------------------------------------------
(* Why they hold: an inductive invariant.                                  *)

(* An id is given out once, to a request that is let in.                   *)
IdsAreUnique ==
  /\ \A p, q \in Parks : seq[p] = seq[q] /\ seq[p] # 0 => p = q
  /\ \A p \in Parks : thread[p] = "unborn" => seq[p] = 0
  /\ \A p \in entries : seq[p] # 0

(* A request's sender is in one place at a time: in the queue, where its   *)
(* thread has neither left nor withdrawn it, or in the hands of the one    *)
(* command that reports it, or used up.                                    *)
OneSender ==
  /\ \A p \in entries : /\ chan[p] = "empty"
                        /\ thread[p] \in {"starting", "waiting", "leaving"}
                        /\ \A o \in Drainers : p \notin told[o]
  /\ \A o \in Drainers : /\ taken[o] \subseteq told[o]
                         /\ \A p \in taken[o] : chan[p] = "empty"
                         /\ \A p \in told[o] : thread[p] # "unborn"

(* Where a command is says what it holds and what it was asked.            *)
CommandsInOrder ==
  /\ linkUp => pc[Reader] = "idle"
  /\ \A o \in Drainers :
       /\ pc[o] \notin {"send", "ok"} => told[o] = {}
       /\ pc[o] # "send" => taken[o] = {}
       /\ pc[o] = "answer" => cmd[o].target # 0
       /\ pc[o] \in {"take", "send"} => cmd[o].target = 0
       /\ cmd[o].target <= nextSeq
       /\ seen[o] \subseteq 1 .. nextSeq

(* An answer that was sent is the one its command says, and a request that *)
(* goes through was sent one.                                              *)
AnswersAreTold ==
  /\ \A p \in Parks : chan[p] # "empty" =>
       \E o \in Drainers : p \in told[o] /\ chan[p] = cmd[o].verdict
  /\ \A p \in Parks : verdict[p] = "Allow" => chan[p] = "Allow"
  /\ cmd[Reader] = Dismissal

(* While `first` runs, and until the command acts on it, what it will free *)
(* by id is what `first` ran on.                                           *)
RanOnWhatItNames ==
  \A o \in Drainers : \A p \in Parks :
    /\ pc[o] \in {"first", "answer"} /\ cmd[o].target # 0 /\ seq[p] = cmd[o].target =>
         Endpoint[dest[p]] \in ran[o]
    /\ pc[o] \in {"first", "take"} /\ cmd[o].target = 0 /\ seq[p] \in seen[o] =>
         Endpoint[dest[p]] \in ran[o]

(* A request hears once, when its thread stops waiting; and what a command *)
(* reports was sent, or is about to be.                                    *)
HeardOnce ==
  /\ \A p \in Parks : thread[p] \in {"unborn", "starting", "waiting", "withdrawn"} <=>
                       verdict[p] = "none"
  /\ \A o \in Drainers : \A p \in told[o] : p \in taken[o] \/ chan[p] # "empty"

(* Without a timeout, a request hears what was sent to it, and only once   *)
(* nothing more can be.                                                    *)
HearsTheAnswer ==
  ~AskTimeout => \A p \in Parks : verdict[p] # "none" =>
                   ~SenderAlive(p) /\ verdict[p] = Received(p)

QueueBounded == Cardinality(entries) <= Cap

Inv ==
  /\ TypeOK
  /\ IdsAreUnique
  /\ OneSender
  /\ CommandsInOrder
  /\ AnswersAreTold
  /\ RanOnWhatItNames
  /\ HeardOnce
  /\ HearsTheAnswer
  /\ QueueBounded
  /\ NoOrphanWaiter
  /\ AnsweredOnce
  /\ SparesOthers
  /\ FreedWhereFirstRan
=============================================================================
