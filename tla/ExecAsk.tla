------------------------------ MODULE ExecAsk -------------------------------
(***************************************************************************)
(* Execs parked for a decision (src/sandbox/proc_enforce/pending.rs and    *)
(* the receive loop of proc_enforce/mod.rs).  The kernel stops a process   *)
(* at execve and notifies the supervisor; one the policy leaves undecided  *)
(* is parked until an operator answers it, it runs out of time, or         *)
(* supervision ends.  The target may die at any moment.                    *)
(*                                                                         *)
(* What the policy says of an exec is a choice here.  An exec stands for   *)
(* one notification after another: it is raised again only once nothing    *)
(* holds the last one, as the kernel never reuses a notification id.       *)
(***************************************************************************)
EXTENDS Naturals, SequencesExt

CONSTANTS
  Execs,       \* the notifications
  Ops,         \* the control connections that answer
  Cap,         \* ASK_PENDING_CAP
  AskTimeout,  \* ASK_TIMEOUT, in ticks
  SweepEvery   \* SWEEP_EVERY, in ticks

BoundsAssumption == {Cap, AskTimeout, SweepEvery} \subseteq Nat \ {0}

(* The receive loop is no control connection.                              *)
LoopAssumption == "loop" \notin Ops

VARIABLES
  queue,    \* the kernel's notifications nobody received yet, oldest first
  state,    \* what became of each exec
  parked,   \* PendingExec::inner, with the time each entry was there
  loop,     \* where the receive loop is
  swept,    \* the time since the last sweep
  stop,     \* the session's stop flag
  cage,     \* whether a process is left behind the filter
  taken,    \* the entries each thread took out and has yet to answer
  verdict,  \* what each operator answers with
  told      \* what an operator was told about each exec

vars == <<queue, state, parked, loop, swept, stop, cage, taken, verdict, told>>

Threads == Ops \cup {"loop"}
Waiting == {"raised", "received"}
Parked  == DOMAIN parked

Init ==
  /\ queue = << >> /\ state = [e \in Execs |-> "none"]
  /\ parked = << >>
  /\ loop = "top" /\ swept = 0
  /\ stop = FALSE /\ cage = TRUE
  /\ taken = [t \in Threads |-> {}]
  /\ verdict = [o \in Ops |-> "none"]
  /\ told = [e \in Execs |-> "none"]

-----------------------------------------------------------------------------
(* The kernel: it keeps the listener while a descriptor of it is open.     *)

ListenerOpen == loop # "closed" \/ Parked # {} \/ \E t \in Threads : taken[t] # {}

Raise(e) ==
  /\ cage /\ state[e] \notin Waiting
  /\ e \notin Parked /\ \A t \in Threads : e \notin taken[t]
  /\ queue' = Append(queue, e)
  /\ state' = [state EXCEPT ![e] = "raised"]
  /\ told' = [told EXCEPT ![e] = "none"]
  /\ UNCHANGED <<parked, loop, swept, stop, cage, taken, verdict>>

(* A notification is in the queue once, if it is there.                    *)
Unqueued(e) ==
  IF e \in ToSet(queue)
  THEN RemoveAt(queue, CHOOSE i \in DOMAIN queue : queue[i] = e) ELSE queue

(* The target is killed: its notification is no longer valid.              *)
Die(e) ==
  /\ state[e] \in Waiting
  /\ queue' = Unqueued(e)
  /\ state' = [state EXCEPT ![e] = "dead"]
  /\ UNCHANGED <<parked, loop, swept, stop, cage, taken, verdict, told>>

(* The last process goes, and the poll reports a hang-up.                  *)
CageEnds ==
  /\ cage /\ \A e \in Execs : state[e] \notin Waiting
  /\ cage' = FALSE
  /\ UNCHANGED <<queue, state, parked, loop, swept, stop, taken, verdict, told>>

(* With no listener left, the filter answers ENOSYS.                       *)
Unsupervised(e) ==
  /\ ~ListenerOpen /\ state[e] \in Waiting
  /\ queue' = Unqueued(e)
  /\ state' = [state EXCEPT ![e] = "enosys"]
  /\ UNCHANGED <<parked, loop, swept, stop, cage, taken, verdict, told>>

(* respond_continue and respond_errno: the first answer to a notification  *)
(* that is still valid is the one the kernel takes.                        *)
Responded(es, v) ==
  [e \in Execs |-> IF e \in es /\ state[e] \in Waiting THEN v ELSE state[e]]

-----------------------------------------------------------------------------
(* The receive loop.                                                       *)

Without(es) == [e \in Parked \ es |-> parked[e]]
Expired == {e \in Parked : parked[e] >= AskTimeout}

(* Faulty: the sweep waits for the cage to be quiet.                       *)
SweepDueIdle == swept >= SweepEvery /\ queue = << >>

SweepDue == swept >= SweepEvery

(* Faulty: what ran out of time is answered and left in the registry.      *)
KeptBySweepAll == Parked

KeptBySweep == Parked \ Expired

(* PendingExec::sweep, under the registry's lock throughout.               *)
Sweep ==
  /\ loop = "top" /\ ~stop /\ SweepDue
  /\ parked' = [e \in KeptBySweep |-> parked[e]]
  /\ state' = Responded(Expired, "refused")
  /\ swept' = 0 /\ loop' = "poll"
  /\ UNCHANGED <<queue, stop, cage, taken, verdict, told>>

SkipSweep ==
  /\ loop = "top" /\ ~stop /\ ~SweepDue
  /\ loop' = "poll"
  /\ UNCHANGED <<queue, state, parked, swept, stop, cage, taken, verdict, told>>

(* handle_notif on an exec the policy decides.                             *)
Decide(v) ==
  /\ loop = "poll" /\ queue # << >>
  /\ queue' = Tail(queue)
  /\ state' = [state EXCEPT ![Head(queue)] = v]
  /\ loop' = "top"
  /\ UNCHANGED <<parked, swept, stop, cage, taken, verdict, told>>

(* PendingExec::park: past the cap, or without a descriptor of its own to  *)
(* answer through, an exec is refused at once, which is Decide("refused"). *)
Room == Cardinality(Parked) < Cap

Park ==
  /\ loop = "poll" /\ queue # << >> /\ Room
  /\ queue' = Tail(queue)
  /\ state' = [state EXCEPT ![Head(queue)] = "received"]
  /\ parked' = [e \in Parked \cup {Head(queue)} |-> IF e \in Parked THEN parked[e] ELSE 0]
  /\ loop' = "top"
  /\ UNCHANGED <<swept, stop, cage, taken, verdict, told>>

(* The poll times out, or what it saw was gone by the receive.             *)
Idle ==
  /\ loop = "poll" /\ queue = << >>
  /\ loop' = IF cage THEN "top" ELSE "closing"
  /\ UNCHANGED <<queue, state, parked, swept, stop, cage, taken, verdict, told>>

Stop ==
  /\ ~stop
  /\ stop' = TRUE
  /\ UNCHANGED <<queue, state, parked, loop, swept, cage, taken, verdict, told>>

Stopped ==
  /\ loop = "top" /\ stop
  /\ loop' = "closing"
  /\ UNCHANGED <<queue, state, parked, swept, stop, cage, taken, verdict, told>>

(* close_supervision: take everything, deny it, close the descriptor.      *)
Drain ==
  /\ loop = "closing"
  /\ taken' = [taken EXCEPT !["loop"] = Parked]
  /\ parked' = Without(Parked)
  /\ loop' = "draining"
  /\ UNCHANGED <<queue, state, swept, stop, cage, verdict, told>>

DenyDrained(e) ==
  /\ loop = "draining" /\ e \in taken["loop"]
  /\ state' = Responded({e}, "refused")
  /\ taken' = [taken EXCEPT !["loop"] = @ \ {e}]
  /\ UNCHANGED <<queue, parked, loop, swept, stop, cage, verdict, told>>

Close ==
  /\ loop = "draining" /\ taken["loop"] = {}
  /\ loop' = "closed"
  /\ UNCHANGED <<queue, state, parked, swept, stop, cage, taken, verdict, told>>

-----------------------------------------------------------------------------
(* The operators: ALLOW and DENY, of one exec or of all.                   *)

(* PendingExec::answer and answer_all take under the lock...               *)
Take(o, es, v) ==
  /\ verdict[o] = "none" /\ es # {} /\ es \subseteq Parked
  /\ Cardinality(es) = 1 \/ es = Parked
  /\ verdict' = [verdict EXCEPT ![o] = v]
  /\ taken' = [taken EXCEPT ![o] = es]
  /\ parked' = Without(es)
  /\ UNCHANGED <<queue, state, loop, swept, stop, cage, told>>

(* ... and answer after it, through the entry's own descriptor.            *)
Answer(o, e) ==
  /\ e \in taken[o]
  /\ state' = Responded({e}, verdict[o])
  /\ told' = [told EXCEPT ![e] = verdict[o]]
  /\ taken' = [taken EXCEPT ![o] = @ \ {e}]
  /\ UNCHANGED <<queue, parked, loop, swept, stop, cage, verdict>>

Done(o) ==
  /\ verdict[o] # "none" /\ taken[o] = {}
  /\ verdict' = [verdict EXCEPT ![o] = "none"]
  /\ UNCHANGED <<queue, state, parked, loop, swept, stop, cage, taken, told>>

-----------------------------------------------------------------------------
Older(age, most) == IF age < most THEN age + 1 ELSE age

Tick ==
  /\ \/ \E e \in Parked : parked[e] < AskTimeout
     \/ swept < SweepEvery
  /\ parked' = [e \in Parked |-> Older(parked[e], AskTimeout)]
  /\ swept' = Older(swept, SweepEvery)
  /\ UNCHANGED <<queue, state, loop, stop, cage, taken, verdict, told>>

LoopStep ==
  \/ Sweep \/ SkipSweep \/ Park \/ Idle \/ Stopped \/ Drain \/ Close
  \/ \E v \in {"ran", "refused"} : Decide(v)
  \/ \E e \in Execs : DenyDrained(e)

OpStep(o) == Done(o) \/ \E e \in Execs : Answer(o, e)

Next ==
  \/ LoopStep \/ Tick \/ Stop \/ CageEnds
  \/ \E e \in Execs : Raise(e) \/ Die(e) \/ Unsupervised(e)
  \/ \E o \in Ops : OpStep(o)
  \/ \E o \in Ops, es \in SUBSET Execs, v \in {"ran", "refused"} : Take(o, es, v)

Spec == Init /\ [][Next]_vars

(* The loop and a serving thread keep running, and time passes; the cage   *)
(* need never pause and no operator need ever answer.                      *)
FairSpec ==
  /\ Spec
  /\ WF_vars(LoopStep) /\ WF_vars(Tick)
  /\ \A o \in Ops : WF_vars(OpStep(o))
  /\ \A e \in Execs : WF_vars(Unsupervised(e))

-----------------------------------------------------------------------------
(* Properties.                                                             *)

TypeOK ==
  /\ queue \in Seq(Execs) /\ ToSet(queue) = {e \in Execs : state[e] = "raised"}
  /\ state \in [Execs -> {"none", "raised", "received", "ran", "refused", "dead", "enosys"}]
  /\ Parked \subseteq Execs /\ Cardinality(Parked) <= Cap
  /\ \A e \in Parked : parked[e] \in 0..AskTimeout
  /\ loop \in {"top", "poll", "closing", "draining", "closed"}
  /\ swept \in 0..SweepEvery /\ {stop, cage} \subseteq BOOLEAN
  /\ taken \in [Threads -> SUBSET Execs]
  /\ verdict \in [Ops -> {"none", "ran", "refused"}]
  /\ told \in [Execs -> {"none", "ran", "refused"}]

(* What an operator was told of an exec is what happened to it, unless its *)
(* target died: neither the sweep, another operator nor the end of         *)
(* supervision answered it first, or closed the way to answer it.          *)
ToldIsDone ==
  \A e \in Execs : told[e] # "none" => state[e] \in {told[e], "dead"}

(* The inductive invariant: a notification is queued once, parked or in    *)
(* the hands of one thread that took it out, and nobody was told of one    *)
(* that is still to be answered.                                           *)
QueuedOnce == \A i, j \in DOMAIN queue : queue[i] = queue[j] => i = j

InOneHand ==
  \A t \in Threads : \A e \in taken[t] :
    e \notin Parked /\ \A u \in Threads : e \in taken[u] => u = t

UntoldIfHeld ==
  \A e \in Execs : e \in Parked \/ (\E t \in Threads : e \in taken[t]) =>
    state[e] \in {"received", "dead"} /\ told[e] = "none"

Inv ==
  /\ TypeOK /\ IsFiniteSet(Parked) /\ QueuedOnce
  /\ InOneHand /\ UntoldIfHeld /\ ToldIsDone

(* Every stopped process is let go, by an answer or by its own death, also *)
(* when nobody answers, the cage keeps the loop busy, or supervision ends. *)
StoppedIsLetGo ==
  \A e \in Execs : (state[e] \in Waiting) ~> (state[e] \notin Waiting)

-----------------------------------------------------------------------------
(* What becomes of a stopped process.                                      *)

(* Whoever answers while supervision ends, a stopped exec that was read is *)
(* parked or in the hands of a thread that is about to answer it, and      *)
(* nothing is left parked for a loop that has stopped sweeping.            *)
StoppedIsInHand ==
  /\ \A e \in Execs :
       state[e] = "received" => e \in Parked \/ \E t \in Threads : e \in taken[t]
  /\ loop \in {"draining", "closed"} => Parked = {}
  /\ \A t \in Threads :
       taken[t] # {} => IF t = "loop" THEN loop = "draining" ELSE verdict[t] # "none"
=============================================================================
