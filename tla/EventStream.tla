----------------------------- MODULE EventStream ----------------------------
(***************************************************************************)
(* What the proxy reports and how the supervisor applies it                *)
(* (src/sandbox/proxy/events.rs): request threads queue events through one *)
(* bounded queue, a thread writes them down the report channel, the        *)
(* supervisor's applier applies them and acknowledges barriers, and a      *)
(* flush of the link (src/sandbox/proxy/link.rs, Supervisor::flush,        *)
(* run_flushes) waits for a barrier to come back.                          *)
(*                                                                         *)
(* Each request logs its decision and later amends it, by the number it    *)
(* logged it under.  The ring it lands in is shared with other proxies, so *)
(* the ring's numbers are not the proxy's.                                 *)
(***************************************************************************)
EXTENDS Naturals, SequencesExt, FiniteSetsExt

CONSTANTS
  Requests,  \* the threads that report
  Muted,     \* the ones whose decision a rule mutes
  Weight,    \* how heavy each one's events are
  QueueCap,  \* the events queued at once (QUEUE)
  Bytes,     \* the weight in flight at once (QUEUE_BYTES)
  RingCap,   \* the events the ring holds
  Flushes,   \* how many flushes the supervisor asks for
  Others,    \* bound: the events other proxies push into the ring
  Flusher,   \* the proxy's flush thread
  Nobody     \* the holder of a mutex nobody holds

ASSUME RequestsAssumption ==
  IsFiniteSet(Requests) /\ Muted \subseteq Requests /\ Weight \in [Requests -> Nat \ {0}]
ASSUME BoundsAssumption ==
  {QueueCap, Bytes, RingCap} \subseteq Nat \ {0} /\ {Flushes, Others} \subseteq Nat
ASSUME NamesAssumption == Flusher \notin Requests /\ Nobody \notin Requests \cup {Flusher}

VARIABLES
  pc,        \* where each request is in reporting its two events
  id,        \* the number its decision was logged under
  lock,      \* who holds Emitter::sent
  logged,    \* Sent: the decisions numbered so far
  barriers,  \* Sent: the barriers numbered so far
  queue,     \* the bounded queue
  inFlight,  \* Applied: the weight reserved and not yet released
  acked,     \* Applied: the last barrier acknowledged
  closed,    \* Applied: the channel is at its end
  channel,   \* the frames written and not yet read
  acks,      \* the acknowledgements on their way back
  writer,    \* whether write_all runs
  applier,   \* whether apply_all runs
  ids,       \* Applier: the ring's number of each number of the proxy's
  lastId,    \* Applier: the newest number it met
  ring,      \* every event pushed: whose it is, the decisions pushed by then that
             \* are not muted, and whose amendment it got
  amended,   \* the requests whose amendment was applied
  asked,     \* the flushes the supervisor asked for
  toFlush,   \* the ones the flush thread has not taken
  flushing,  \* where the flush thread is, and with which flush and barrier
  flushed,   \* Heard: the newest flush answered
  before,    \* what was reported before each flush was asked for
  others     \* the events other proxies have yet to push into the ring

emitVars  == <<pc, id, lock, logged, barriers, queue>>
boundVars == <<inFlight, acked, closed>>
wireVars  == <<channel, acks, writer>>
applyVars == <<applier, ids, lastId, ring, amended, others>>
flushVars == <<asked, toFlush, flushing, flushed, before>>
vars == <<emitVars, boundVars, wireVars, applyVars, flushVars>>

(* A request reserves, composes and queues its decision, then its status.  *)
PCs == <<"reserve", "compose", "send", "reserve", "compose", "send", "done">>

IdleFlush == [at |-> "idle", for |-> 0, barrier |-> 0]

(* Any of the requests may report, the others having nothing to.          *)
Init ==
  /\ pc \in [Requests -> {1, 7}] /\ id = [r \in Requests |-> 0]
  /\ lock = Nobody /\ logged = 0 /\ barriers = 0 /\ queue = << >>
  /\ inFlight = 0 /\ acked = 0 /\ closed = FALSE
  /\ channel = << >> /\ acks = << >> /\ writer = TRUE
  /\ applier = TRUE /\ ids = << >> /\ lastId = 0 /\ ring = << >> /\ amended = {}
  /\ others \in 0 .. Others
  /\ asked = 0 /\ toFlush = << >> /\ flushing = IdleFlush /\ flushed = 0 /\ before = << >>

-----------------------------------------------------------------------------
(* A request: Emitter::log and Emitter::send, which reserve and queue.     *)

At(r, where) == PCs[pc[r]] = where
Step(r) == pc' = [pc EXCEPT ![r] = @ + 1]

(* Faulty: an event waits for room whatever is in flight, and one heavier  *)
(* than all of it waits for ever.                                          *)
MayReserveFitting(r) == closed \/ inFlight + Weight[r] <= Bytes

(* Faulty: an event is let in while what is in flight is within the bound. *)
MayReserveOver(r) == closed \/ inFlight <= Bytes

MayReserve(r) == closed \/ inFlight = 0 \/ inFlight + Weight[r] <= Bytes

Reserve(r) ==
  /\ At(r, "reserve")
  /\ MayReserve(r)
  /\ inFlight' = inFlight + Weight[r]
  /\ Step(r)
  /\ UNCHANGED <<id, lock, logged, barriers, queue, acked, closed, wireVars, applyVars, flushVars>>

(* Faulty: an event is numbered before the mutex is taken.                 *)
MayComposeUnlocked == TRUE

MayCompose == lock = Nobody

(* The number is taken under the mutex held until the event is queued.     *)
Compose(r) ==
  /\ At(r, "compose")
  /\ MayCompose
  /\ lock' = r
  /\ IF pc[r] = 2 THEN logged' = logged + 1 /\ id' = [id EXCEPT ![r] = logged + 1]
                  ELSE UNCHANGED <<logged, id>>
  /\ Step(r)
  /\ UNCHANGED <<barriers, queue, boundVars, wireVars, applyVars, flushVars>>

Event(r) == [kind |-> IF pc[r] = 3 THEN "logged" ELSE "status",
             by |-> r, id |-> id[r], weight |-> Weight[r]]

(* The send waits for room while the queue's receiver lives.               *)
Queue(r) ==
  /\ At(r, "send") /\ writer /\ Len(queue) < QueueCap
  /\ queue' = Append(queue, Event(r))
  /\ lock' = Nobody
  /\ Step(r)
  /\ UNCHANGED <<id, logged, barriers, boundVars, wireVars, applyVars, flushVars>>

(* Faulty: the weight of an event that was not queued is released twice.   *)
UnqueuedWeightTwice(r) == Weight[r] + Weight[r]

UnqueuedWeight(r) == Weight[r]

QueueFails(r) ==
  /\ At(r, "send") /\ ~writer
  /\ inFlight' = inFlight - UnqueuedWeight(r)
  /\ lock' = Nobody
  /\ Step(r)
  /\ UNCHANGED <<id, logged, barriers, queue, acked, closed, wireVars, applyVars, flushVars>>

-----------------------------------------------------------------------------
(* The writer and the reader of acknowledgements.                          *)

(* write_all: its weight is released once an event is written.             *)
Write ==
  /\ writer /\ queue # << >> /\ applier
  /\ channel' = Append(channel, Head(queue))
  /\ queue' = Tail(queue)
  /\ inFlight' = inFlight - Head(queue).weight
  /\ UNCHANGED <<pc, id, lock, logged, barriers, acked, closed, acks, writer, applyVars, flushVars>>

(* Faulty: the writer returns without saying so.                           *)
ClosesNot == closed

Closes == TRUE

(* The applying side has ended: the writer drops the queue's receiver.     *)
WriteFails ==
  /\ writer /\ queue # << >> /\ ~applier
  /\ inFlight' = inFlight - Head(queue).weight
  /\ queue' = << >>
  /\ writer' = FALSE
  /\ closed' = Closes
  /\ UNCHANGED <<pc, id, lock, logged, barriers, acked, channel, acks, applyVars, flushVars>>

ReadAck ==
  /\ acks # << >>
  /\ acked' = Max({acked, Head(acks)})
  /\ acks' = Tail(acks)
  /\ UNCHANGED <<emitVars, inFlight, closed, channel, writer, applyVars, flushVars>>

(* read_acks ends with the applying side.                                  *)
AcksEnd ==
  /\ ~applier /\ acks = << >> /\ ~closed
  /\ closed' = Closes
  /\ UNCHANGED <<emitVars, inFlight, acked, wireVars, applyVars, flushVars>>

-----------------------------------------------------------------------------
(* The supervisor's applier: apply_all and Applier::apply.                 *)

Took == channel' = Tail(channel)

Decisions == IF ring = << >> THEN 0 ELSE ring[Len(ring)].nth

(* LogRing::push.  A muted decision is kept apart, and takes the place of  *)
(* none that is not.                                                       *)
Entry(by) ==
  [by |-> by, nth |-> IF by \in Muted THEN Decisions ELSE Decisions + 1, got |-> Nobody]

(* Of decisions that are not muted the ring holds the last RingCap.        *)
Retained(seq) == ring[seq].nth + RingCap > Decisions

(* The newest RingCap numbers are kept, oldest forgotten first.            *)
Trimmed(s) == SubSeq(s, Max({1, Len(s) - RingCap + 1}), Len(s))

ApplyLogged ==
  /\ applier /\ channel # << >> /\ Head(channel).kind = "logged"
  /\ Took
  /\ LET e == Head(channel) IN
       /\ ring' = Append(ring, Entry(e.by))
       /\ lastId' = Max({lastId, e.id})
       /\ ids' = IF e.id > lastId /\ e.by \notin Muted
                   THEN Trimmed(Append(ids, [id |-> e.id, seq |-> Len(ring) + 1]))
                   ELSE ids
  /\ UNCHANGED <<emitVars, boundVars, acks, writer, applier, amended, others, flushVars>>

(* An amendment of a number unknown or evicted changes nothing.            *)
ApplyStatus ==
  /\ applier /\ channel # << >> /\ Head(channel).kind = "status"
  /\ Took
  /\ LET e == Head(channel)
         found == {m.seq : m \in {n \in Range(ids) : n.id = e.id}} IN
       /\ ring' = [s \in DOMAIN ring |->
                     IF s \in found /\ Retained(s) THEN [ring[s] EXCEPT !.got = e.by]
                                                   ELSE ring[s]]
       /\ amended' = amended \cup {e.by}
  /\ UNCHANGED <<emitVars, boundVars, acks, writer, applier, ids, lastId, others, flushVars>>

Acknowledge ==
  /\ applier /\ channel # << >> /\ Head(channel).kind = "barrier"
  /\ Took
  /\ acks' = Append(acks, Head(channel).id)
  /\ UNCHANGED <<emitVars, boundVars, writer, applyVars, flushVars>>

(* A frame that does not read, or a panic, ends it.                        *)
ApplierEnds ==
  /\ applier /\ channel # << >>
  /\ applier' = FALSE
  /\ channel' = << >>
  /\ UNCHANGED <<emitVars, boundVars, acks, writer, ids, lastId, ring, amended, others, flushVars>>

(* Another proxy of the session reports into the same ring.                *)
OtherPushes ==
  /\ applier
  /\ others > 0
  /\ others' = others - 1
  /\ ring' = Append(ring, Entry(Nobody))
  /\ UNCHANGED <<emitVars, boundVars, wireVars, applier, ids, lastId, amended, flushVars>>

-----------------------------------------------------------------------------
(* A flush: Supervisor::flush, run_flushes and Emitter::flush.             *)

Reported == {r \in Requests : pc[r] >= 4 /\ id[r] # 0}

AskFlush ==
  /\ asked < Flushes
  /\ asked' = asked + 1
  /\ toFlush' = Append(toFlush, asked + 1)
  /\ before' = Append(before, Reported)
  /\ UNCHANGED <<emitVars, boundVars, wireVars, applyVars, flushing, flushed>>

TakeFlush ==
  /\ flushing.at = "idle" /\ toFlush # << >>
  /\ flushing' = [IdleFlush EXCEPT !.at = "lock", !.for = Head(toFlush)]
  /\ toFlush' = Tail(toFlush)
  /\ UNCHANGED <<emitVars, boundVars, wireVars, applyVars, asked, flushed, before>>

LockForBarrier ==
  /\ flushing.at = "lock" /\ lock = Nobody
  /\ lock' = Flusher
  /\ barriers' = barriers + 1
  /\ flushing' = [flushing EXCEPT !.at = "send", !.barrier = barriers + 1]
  /\ UNCHANGED <<pc, id, logged, queue, boundVars, wireVars, applyVars, asked, toFlush, flushed, before>>

QueueBarrier ==
  /\ flushing.at = "send" /\ writer /\ Len(queue) < QueueCap
  /\ queue' = Append(queue, [kind |-> "barrier", by |-> Flusher,
                             id |-> flushing.barrier, weight |-> 0])
  /\ lock' = Nobody
  /\ flushing' = [flushing EXCEPT !.at = "wait"]
  /\ UNCHANGED <<pc, id, logged, barriers, boundVars, wireVars, applyVars, asked, toFlush, flushed, before>>

QueueBarrierFails ==
  /\ flushing.at = "send" /\ ~writer
  /\ lock' = Nobody
  /\ flushing' = [flushing EXCEPT !.at = "say"]
  /\ UNCHANGED <<pc, id, logged, barriers, queue, boundVars, wireVars, applyVars, asked, toFlush, flushed, before>>

(* Faulty: the wait ends one barrier early.                                *)
AckedEarly(barrier) == acked + 1 >= barrier

Acked(barrier) == acked >= barrier

AwaitAck ==
  /\ flushing.at = "wait"
  /\ Acked(flushing.barrier) \/ closed
  /\ flushing' = [flushing EXCEPT !.at = "say"]
  /\ UNCHANGED <<emitVars, boundVars, wireVars, applyVars, asked, toFlush, flushed, before>>

(* Flushed, as the supervisor's reader takes it in.                        *)
SayFlushed ==
  /\ flushing.at = "say"
  /\ flushed' = Max({flushed, Min({flushing.for, asked})})
  /\ flushing' = IdleFlush
  /\ UNCHANGED <<emitVars, boundVars, wireVars, applyVars, asked, toFlush, before>>

-----------------------------------------------------------------------------

Request(r) == Reserve(r) \/ Compose(r) \/ Queue(r) \/ QueueFails(r)
WriteAll == Write \/ WriteFails
ReadAcks == ReadAck \/ AcksEnd
ApplyAll == ApplyLogged \/ ApplyStatus \/ Acknowledge \/ ApplierEnds
RunFlushes ==
  \/ TakeFlush \/ LockForBarrier \/ QueueBarrier \/ QueueBarrierFails
  \/ AwaitAck \/ SayFlushed

Next ==
  \/ \E r \in Requests : Request(r)
  \/ WriteAll \/ ReadAcks \/ ApplyAll \/ OtherPushes \/ AskFlush \/ RunFlushes

Spec == Init /\ [][Next]_vars

(* The threads of both ends run on.  Nobody need ask for a flush.          *)
Fairness ==
  /\ \A r \in Requests : WF_vars(Request(r))
  /\ WF_vars(WriteAll) /\ WF_vars(ReadAcks) /\ WF_vars(ApplyAll) /\ WF_vars(RunFlushes)

-----------------------------------------------------------------------------
(* Properties.                                                             *)

Frames  == [kind : {"logged", "status", "barrier"}, by : Requests \cup {Flusher},
            id : Nat, weight : Nat]
Places  == [id : Nat, seq : Nat]
Entries == [by : Requests \cup {Nobody}, nth : Nat, got : Requests \cup {Nobody}]

EmitKinds ==
  /\ pc \in [Requests -> 1 .. 7] /\ id \in [Requests -> Nat]
  /\ lock \in Requests \cup {Flusher, Nobody} /\ logged \in Nat /\ barriers \in Nat
  /\ queue \in Seq(Frames) /\ Len(queue) <= QueueCap

WireKinds ==
  /\ acked \in Nat /\ closed \in BOOLEAN
  /\ channel \in Seq(Frames) /\ acks \in Seq(Nat) /\ writer \in BOOLEAN

ApplyKinds ==
  /\ applier \in BOOLEAN /\ ids \in Seq(Places) /\ lastId \in Nat
  /\ ring \in Seq(Entries)
  /\ amended \subseteq Requests /\ others \in 0 .. Others

FlushKinds ==
  /\ asked \in Nat /\ flushed \in Nat
  /\ toFlush \in Seq(Nat) /\ before \in Seq(SUBSET Requests)
  /\ flushing \in [at : {"idle", "lock", "send", "wait", "say"}, for : Nat, barrier : Nat]

Kinds == EmitKinds /\ WireKinds /\ ApplyKinds /\ FlushKinds

TypeOK == Kinds /\ inFlight \in Nat

(* A flush answered while the channel is up means what it says: every      *)
(* decision reported before it was asked for is in the ring, though it     *)
(* crossed a queue, a socket and two threads.                              *)
FlushedMeansApplied ==
  ~closed /\ applier =>
    \A i \in 1 .. flushed : before[i] \subseteq {ring[s].by : s \in DOMAIN ring}

(* An amendment lands on the decision its request logged, and on no other, *)
(* as long as the ring holds it: numbers enter the queue in the order they *)
(* are given out.  A muted decision takes none.                            *)
AmendsItsOwn ==
  \A s \in DOMAIN ring :
    /\ ring[s].got \in {Nobody, ring[s].by}
    /\ ring[s].by \in amended \ Muted /\ Retained(s) => ring[s].got = ring[s].by
    /\ ring[s].by \in Muted => ring[s].got = Nobody

Reserving(r) == pc[r] \in {2, 3, 5, 6}

(* The weight in flight, one element for each unit of it: what a request   *)
(* reserved and has not queued, and what is queued.                        *)
HeldUnits   == UNION {{r} \X (1 .. Weight[r]) : r \in {q \in Requests : Reserving(q)}}
QueuedUnits == UNION {{i} \X (1 .. queue[i].weight) : i \in DOMAIN queue}

(* The weight in flight is what requests and the queue hold, and past the  *)
(* bound it is one event's.  What the writer drops with the queue is never *)
(* given back, which matters to nobody: the channel is closed then.        *)
InFlightHeld ==
  ~closed =>
    /\ inFlight = Cardinality(HeldUnits) + Cardinality(QueuedUnits)
    /\ inFlight <= Bytes \/ \E r \in Requests : inFlight <= Weight[r]

(* A request is never stuck reporting, nor a flush unanswered, even where  *)
(* the applying side ends with the queue full.                             *)
ReportsEnd == <>(\A r \in Requests : pc[r] = 7)
FlushesEnd == asked = Flushes ~> flushed = Flushes

-----------------------------------------------------------------------------
(* The inductive invariant, for as long as the applying side is there.     *)

(* What was queued and not yet applied, in the order it will be.           *)
Pipe == channel \o queue

Landed == {ring[s].by : s \in DOMAIN ring}

(* The decision of a request, and a frame of either kind, in the pipe.     *)
IsLogged(e, r) == e.kind = "logged" /\ e.by = r
IsStatus(e, r) == e.kind = "status" /\ e.by = r
InPipe(r) == \E i \in DOMAIN Pipe : IsLogged(Pipe[i], r)

UpTogether == (closed \/ ~writer) => ~applier

(* The mutex is one request's that composed, or the flush thread's.        *)
HeldToQueue ==
  /\ \A r \in Requests : pc[r] \in {3, 6} => lock = r
  /\ flushing.at = "send" => lock = Flusher

(* Each request has a number of its own, and the newest is the one that is *)
(* not queued yet.                                                         *)
Numbered ==
  /\ \A r \in Requests :
       /\ id[r] <= logged
       /\ pc[r] \in 1 .. 2 => id[r] = 0
       /\ pc[r] \in 3 .. 6 => id[r] # 0
       /\ pc[r] = 3 => id[r] = logged
  /\ \A q, r \in Requests : id[q] = id[r] /\ id[q] # 0 => q = r

(* Decisions are in the pipe in the order of their numbers, and each       *)
(* before its amendment.                                                   *)
Sorted ==
  \A i, j \in DOMAIN Pipe : i < j =>
    /\ Pipe[i].kind = "logged" /\ Pipe[j].kind = "logged" => Pipe[i].id < Pipe[j].id
    /\ Pipe[i].kind = "status" => ~IsLogged(Pipe[j], Pipe[i].by)

(* A decision in the pipe is past all that were applied.                   *)
Framed ==
  /\ \A i \in DOMAIN Pipe : Pipe[i].kind # "barrier" => Pipe[i].by \in Requests
  /\ \A i \in DOMAIN Pipe, r \in Requests :
       /\ IsLogged(Pipe[i], r) =>
            /\ Pipe[i].id = id[r] /\ pc[r] >= 4 /\ id[r] > lastId
            /\ r \notin Landed /\ r \notin amended
       /\ IsStatus(Pipe[i], r) => Pipe[i].id = id[r] /\ pc[r] = 7 /\ id[r] # 0

AppliedUpTo ==
  /\ lastId <= logged
  /\ \A r \in Requests : pc[r] = 3 => id[r] > lastId
  /\ \A r \in Landed \cap Requests : pc[r] >= 4 /\ id[r] # 0 /\ id[r] <= lastId
  /\ \A r \in amended : pc[r] = 7

InOrder == Sorted /\ Framed /\ AppliedUpTo

NothingLost == Reported \subseteq {r \in Requests : r \in Landed \/ InPipe(r)}

(* What the applier remembers leads to the decision itself, for every one  *)
(* the ring holds that is not muted.                                       *)
Remembered ==
  /\ Len(ids) <= RingCap
  /\ \A k \in DOMAIN ids :
       /\ ids[k].seq \in DOMAIN ring
       /\ ring[ids[k].seq].nth + Len(ids) - k <= Decisions
       /\ ring[ids[k].seq].by \in Requests \ Muted
       /\ ids[k].id = id[ring[ids[k].seq].by]
  /\ \A s \in DOMAIN ring :
       ring[s].by \in Requests \ Muted /\ Retained(s) =>
         \E k \in DOMAIN ids : ids[k].seq = s
  /\ \A s, t \in DOMAIN ring : ring[s].by = ring[t].by /\ ring[s].by # Nobody => s = t

(* Of two flushes the later covers the earlier.                            *)
Covered ==
  /\ Len(before) = asked /\ flushed <= asked
  /\ \A i \in 1 .. asked : before[i] \subseteq Reported
  /\ \A i, j \in 1 .. asked : i <= j => before[i] \subseteq before[j]
  /\ \A i \in DOMAIN toFlush : toFlush[i] \in 1 .. asked
  /\ flushing.at # "idle" => flushing.for \in 1 .. asked

(* No barrier is newer than the one the flush thread sends, or awaits.     *)
BarrierIs(e, b) == e.kind = "barrier" /\ e.id = b

BarriersGiven ==
  /\ flushing.at \in {"send", "wait"} => flushing.barrier = barriers
  /\ acked <= barriers /\ \A i \in DOMAIN acks : acks[i] <= barriers
  /\ \A i \in DOMAIN Pipe : Pipe[i].kind = "barrier" => Pipe[i].id <= barriers
  /\ flushing.at = "send" =>
       /\ acked # barriers /\ \A i \in DOMAIN acks : acks[i] # barriers
       /\ \A i \in DOMAIN Pipe : ~BarrierIs(Pipe[i], barriers)

(* It is behind what was reported before its flush was asked for.          *)
Ahead(i, r) == r \in Landed \/ \E j \in 1 .. i - 1 : IsLogged(Pipe[j], r)

BarrierBehind ==
  flushing.at = "wait" =>
    \A i \in DOMAIN Pipe : BarrierIs(Pipe[i], barriers) =>
      \A r \in before[flushing.for] : Ahead(i, r)

AckedMeansLanded ==
  /\ flushing.at = "wait" /\ (acked = barriers \/ \E i \in DOMAIN acks : acks[i] = barriers)
       => before[flushing.for] \subseteq Landed
  /\ flushing.at = "say" => before[flushing.for] \subseteq Landed
  /\ \A i \in 1 .. flushed : before[i] \subseteq Landed

Behind == BarriersGiven /\ BarrierBehind /\ AckedMeansLanded

Inv ==
  /\ Kinds /\ UpTogether /\ HeldToQueue /\ Numbered /\ Covered /\ AmendsItsOwn
  /\ applier => InOrder /\ NothingLost /\ Remembered /\ Behind

(* The weight in flight never falls below what is held, closed or not.     *)
Accounted ==
  /\ IsFiniteSet(HeldUnits) /\ IsFiniteSet(QueuedUnits)
  /\ inFlight \in Nat /\ inFlight >= Cardinality(HeldUnits) + Cardinality(QueuedUnits)
  /\ ~writer => closed
  /\ InFlightHeld

-----------------------------------------------------------------------------
(* Nobody waits for somebody who waits.                                    *)

(* Where each thread goes on, whatever the others do next.                 *)
RequestGoes(r) ==
  \/ At(r, "reserve") /\ MayReserve(r)
  \/ At(r, "compose") /\ MayCompose
  \/ At(r, "send") /\ (writer => Len(queue) < QueueCap)

WriterGoes  == writer /\ queue # << >>
ApplierGoes == applier /\ channel # << >>
ReaderGoes  == acks # << >> \/ (~applier /\ ~closed)

FlusherGoes ==
  \/ flushing.at = "idle" /\ toFlush # << >>
  \/ flushing.at = "lock" /\ lock = Nobody
  \/ flushing.at = "send" /\ (writer => Len(queue) < QueueCap)
  \/ flushing.at = "wait" /\ (Acked(flushing.barrier) \/ closed)
  \/ flushing.at = "say"

(* While a request has not reported all it has to, or a flush was asked    *)
(* for and not answered, a thread goes on: for the mutex they wait for its *)
(* holder, which waits for room in the queue; for that, for the writer;    *)
(* for the weight in flight, for whoever holds some of it; and for an      *)
(* acknowledgement, for the applier, or for the end of what it wrote.      *)
NeverStuck ==
  (\E r \in Requests : pc[r] # 7) \/ toFlush # << >> \/ flushing.at # "idle" =>
    \/ \E r \in Requests : RequestGoes(r)
    \/ WriterGoes \/ ApplierGoes \/ ReaderGoes \/ FlusherGoes

(* The mutex is held only on the way to the queue.                         *)
HolderQueues ==
  /\ lock \in Requests => pc[lock] \in {3, 6}
  /\ lock = Flusher => flushing.at = "send"

(* The barrier the flush thread waits for is on its way, there or back.    *)
AckIsComing ==
  flushing.at = "wait" /\ applier =>
    \/ Acked(flushing.barrier)
    \/ \E i \in DOMAIN acks : acks[i] = flushing.barrier
    \/ \E i \in DOMAIN Pipe : BarrierIs(Pipe[i], flushing.barrier)

Moving == HolderQueues /\ AckIsComing
=============================================================================
