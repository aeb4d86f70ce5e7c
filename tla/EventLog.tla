------------------------------ MODULE EventLog ------------------------------
(***************************************************************************)
(* The ring of recent egress decisions and a `--follow` reader of it       *)
(* (src/sandbox/control/mod.rs, LogRing): decisions are pushed under one   *)
(* sequence and amended under a second one, muted refusals take numbers of *)
(* the first and live in a ring of their own, and a reader that polls with *)
(* both cursors is told what the cap evicted before it came.               *)
(***************************************************************************)
EXTENDS Naturals, SequencesExt, FiniteSetsExt

CONSTANTS
  Cap,        \* how many events each ring holds
  Codes,      \* the statuses a response may have
  MaxPushes,  \* bound: decisions pushed
  MaxAmends   \* bound: amendments stamped

ASSUME BoundsAssumption == Cap \in Nat \ {0} /\ {MaxPushes, MaxAmends} \subseteq Nat
ASSUME CodesAssumption == Codes \subseteq Nat \ {0}

VARIABLES
  nextSeq,       \* LogInner: the number the next decision gets
  nextAmend,     \* LogInner: the number the next amendment gets
  events,        \* LogInner: the decisions held, oldest first
  muted,         \* LogInner: the numbers of the muted refusals held
  evicted,       \* LogInner: decisions the cap took
  evictedHigh,   \* LogInner: the newest number among them
  mutedEvicted,  \* LogInner: muted refusals the cap took
  mutedHigh,     \* LogInner: the newest number among them
  main,          \* the numbers of every decision pushed that was not muted
  cursor,        \* the reader: the newest number it was told
  amendCursor,   \* the reader: the newest amendment it was told
  view           \* the reader: each event as it was last shown

ringVars  == <<nextSeq, events, muted, evicted, evictedHigh, mutedEvicted, mutedHigh, main>>
readVars  == <<cursor, amendCursor, view>>
vars == <<ringVars, nextAmend, readVars>>

(* What an event shows: its status, how often its capture was filed, the   *)
(* program named, and whether a secret was seen.                           *)
NoFacts == [status |-> 0, filed |-> 0, caller |-> FALSE, seen |-> FALSE]

Init ==
  /\ nextSeq = 1 /\ nextAmend = 1
  /\ events = << >> /\ muted = << >>
  /\ evicted = 0 /\ evictedHigh = 0 /\ mutedEvicted = 0 /\ mutedHigh = 0
  /\ main = {}
  /\ cursor = 0 /\ amendCursor = 0 /\ view = << >>

Held == {e.seq : e \in Range(events)}

-----------------------------------------------------------------------------
(* Pushing: a muted refusal goes to its own ring, so that it never evicts  *)
(* a decision.                                                             *)

(* Faulty: the cap is passed by one.                                       *)
OverByOne(ring) == Len(ring) > Cap + 1

Over(ring) == Len(ring) > Cap

Push ==
  /\ nextSeq <= MaxPushes
  /\ nextSeq' = nextSeq + 1
  /\ main' = main \cup {nextSeq}
  /\ LET ring == Append(events, [seq |-> nextSeq, facts |-> NoFacts,
                                 amend |-> 0, awaiting |-> FALSE])
     IN  /\ events' = IF Over(ring) THEN Tail(ring) ELSE ring
         /\ evicted' = IF Over(ring) THEN evicted + 1 ELSE evicted
         /\ evictedHigh' = IF Over(ring) THEN Head(ring).seq ELSE evictedHigh
  /\ UNCHANGED <<nextAmend, muted, mutedEvicted, mutedHigh, readVars>>

PushMuted ==
  /\ nextSeq <= MaxPushes
  /\ nextSeq' = nextSeq + 1
  /\ LET ring == Append(muted, nextSeq)
     IN  /\ muted' = IF Over(ring) THEN Tail(ring) ELSE ring
         /\ mutedEvicted' = IF Over(ring) THEN mutedEvicted + 1 ELSE mutedEvicted
         /\ mutedHigh' = IF Over(ring) THEN Head(ring) ELSE mutedHigh
  /\ UNCHANGED <<nextAmend, events, evicted, evictedHigh, main, readVars>>

-----------------------------------------------------------------------------
(* Amending an event still held; one that was evicted is left alone.       *)

Amend(i, facts, awaiting, stamp) ==
  /\ stamp => nextAmend <= MaxAmends
  /\ events' = [events EXCEPT ![i].facts = facts, ![i].awaiting = awaiting,
                              ![i].amend = IF stamp THEN nextAmend ELSE @]
  /\ nextAmend' = IF stamp THEN nextAmend + 1 ELSE nextAmend
  /\ UNCHANGED <<nextSeq, muted, evicted, evictedHigh, mutedEvicted, mutedHigh, main, readVars>>

(* While a capture is on its way the status waits for it.                  *)
StatusAmends(e) == ~e.awaiting

SetStatus(i, code) ==
  LET e == events[i]
  IN  Amend(i, [e.facts EXCEPT !.status = code], e.awaiting, StatusAmends(e))

ExpectCapture(i) == Amend(i, events[i].facts, TRUE, FALSE)

(* Faulty: an exchange whose capture was empty is never shown again.       *)
SettledAmendsIfFiled(e, filed) == filed

(* With nothing filed, only a status that waited is worth showing.         *)
SettledAmends(e, filed) == filed \/ e.facts.status # 0

CaptureSettled(i, filed) ==
  LET e == events[i]
  IN  Amend(i, IF filed THEN [e.facts EXCEPT !.filed = @ + 1] ELSE e.facts,
            FALSE, SettledAmends(e, filed))

CaptureGrew(i) ==
  Amend(i, [events[i].facts EXCEPT !.filed = @ + 1], events[i].awaiting, TRUE)

SetCaller(i) ==
  /\ ~events[i].facts.caller
  /\ Amend(i, [events[i].facts EXCEPT !.caller = TRUE], events[i].awaiting, TRUE)

SecretSeen(i) ==
  /\ ~events[i].facts.seen
  /\ Amend(i, [events[i].facts EXCEPT !.seen = TRUE], events[i].awaiting, TRUE)

-----------------------------------------------------------------------------
(* Reading: LogRing::snapshot.                                             *)

Minus(m, n) == IF m >= n THEN m - n ELSE 0

(* Faulty: the distance to the oldest event held counts as lost, muted     *)
(* refusals included.                                                      *)
DroppedByDistance(a) == IF events = << >> THEN 0 ELSE Minus(Head(events).seq, a + 1)

(* How many decisions past the cursor `a` the reader is told it lost.      *)
Dropped(a) ==
  LET mutedSeen == Cardinality({s \in Range(muted) : s <= a})
                     + (IF mutedHigh <= a THEN mutedEvicted ELSE 0)
  IN  IF evictedHigh > a THEN Max({1, Minus(evicted, Minus(a, mutedSeen))}) ELSE 0

(* New events, and those behind the cursor amended since.                  *)
Shown(a, m) == {e \in Range(events) : e.seq > a \/ e.amend > m}

(* A follow read, after which the reader holds both cursors.               *)
Read ==
  /\ cursor' = nextSeq - 1
  /\ amendCursor' = nextAmend - 1
  /\ view' = LET new == Shown(cursor, amendCursor)
             IN  [s \in DOMAIN view \cup {e.seq : e \in new} |->
                    IF \E e \in new : e.seq = s
                      THEN (CHOOSE e \in new : e.seq = s).facts ELSE view[s]]
  /\ UNCHANGED <<ringVars, nextAmend>>

Next ==
  \/ Push \/ PushMuted \/ Read
  \/ \E i \in DOMAIN events :
       \/ \E code \in Codes : SetStatus(i, code)
       \/ ExpectCapture(i) \/ CaptureGrew(i) \/ SetCaller(i) \/ SecretSeen(i)
       \/ \E filed \in BOOLEAN : CaptureSettled(i, filed)

Spec == Init /\ [][Next]_vars

-----------------------------------------------------------------------------
(* Properties.                                                             *)

TypeOK ==
  /\ nextSeq \in 1 .. MaxPushes + 1 /\ nextAmend \in 1 .. MaxAmends + 1
  /\ Len(events) <= Cap /\ Len(muted) <= Cap
  /\ Range(muted) \subseteq 1 .. nextSeq - 1
  /\ \A e \in Range(events) :
       /\ e.seq \in 1 .. nextSeq - 1 /\ e.amend \in 0 .. nextAmend - 1
       /\ e.awaiting \in BOOLEAN
       /\ e.facts \in [status : Codes \cup {0}, filed : Nat, caller : BOOLEAN, seen : BOOLEAN]
  /\ {evicted, mutedEvicted} \subseteq 0 .. MaxPushes
  /\ {evictedHigh, mutedHigh, cursor} \subseteq 0 .. nextSeq - 1
  /\ amendCursor \in 0 .. nextAmend - 1
  /\ DOMAIN view \subseteq 1 .. nextSeq - 1

(* The decisions past a cursor that no reader will see any more.           *)
Lost(a) == {s \in main : s > a /\ s \notin Held}

(* Whatever a reader's cursor, it is told of a gap exactly when decisions  *)
(* past it were lost, never of more than were lost, and of exactly as many *)
(* unless muted refusals past its cursor were evicted too.                 *)
GapIsTrue ==
  \A a \in 0 .. nextSeq - 1 :
    /\ (Dropped(a) > 0) = (Lost(a) # {})
    /\ Dropped(a) <= Cardinality(Lost(a))
    /\ mutedHigh <= a => Dropped(a) = Cardinality(Lost(a))

(* A reader misses nothing of an event it was shown: what it shows is what *)
(* the ring holds, or the next read shows it again, or a capture that will *)
(* amend it is on its way.                                                 *)
ShownOrComing ==
  \A e \in Range(events) :
    e.seq <= cursor => \/ e.seq \in DOMAIN view /\ view[e.seq] = e.facts
                       \/ e.amend > amendCursor
                       \/ e.awaiting

-----------------------------------------------------------------------------
(* The inductive invariant.                                                *)

Facts == [status : Codes \cup {0}, filed : Nat, caller : BOOLEAN, seen : BOOLEAN]
Entries == [seq : Nat, facts : Facts, amend : Nat, awaiting : BOOLEAN]

Kinds ==
  /\ nextSeq \in 1 .. MaxPushes + 1 /\ nextAmend \in 1 .. MaxAmends + 1
  /\ events \in Seq(Entries) /\ muted \in Seq(Nat)
  /\ Len(events) <= Cap /\ Len(muted) <= Cap
  /\ {evicted, mutedEvicted, evictedHigh, mutedHigh} \subseteq Nat
  /\ cursor \in 0 .. nextSeq - 1 /\ amendCursor \in 0 .. nextAmend - 1
  /\ DOMAIN view \subseteq 1 .. nextSeq - 1

(* Every number given went to a decision or to a muted refusal.            *)
Given == 1 .. nextSeq - 1
Refusals == Given \ main

NumbersGiven ==
  /\ main \subseteq Given
  /\ \A i \in DOMAIN events : events[i].seq \in main /\ events[i].amend < nextAmend
  /\ \A i \in DOMAIN muted : muted[i] \in Refusals

OldestFirst ==
  /\ \A i, j \in DOMAIN events : i < j => events[i].seq < events[j].seq
  /\ \A i, j \in DOMAIN muted : i < j => muted[i] < muted[j]

(* The cap takes the oldest: what it took is counted, and older than what  *)
(* is held.                                                                *)
EvictedCounted ==
  /\ evicted = Cardinality(main \ Held)
  /\ evictedHigh # 0 => evictedHigh \in main \ Held
  /\ \A s \in main \ Held : s <= evictedHigh
  /\ \A s \in Held : evictedHigh < s
MutedCounted ==
  /\ mutedEvicted = Cardinality(Refusals \ Range(muted))
  /\ mutedHigh # 0 => mutedHigh \in Refusals \ Range(muted)
  /\ \A s \in Refusals \ Range(muted) : s <= mutedHigh
  /\ \A s \in Range(muted) : mutedHigh < s

(* Only a status that waits for its capture is not shown, nor going to be  *)
(* by the next read.                                                       *)
ShownOrWaiting ==
  \A i \in DOMAIN events : LET e == events[i] IN
    e.seq <= cursor => \/ e.seq \in DOMAIN view /\ view[e.seq] = e.facts
                       \/ e.amend > amendCursor
                       \/ e.awaiting /\ e.facts.status # 0

Inv ==
  /\ Kinds /\ NumbersGiven /\ OldestFirst /\ EvictedCounted /\ MutedCounted
  /\ ShownOrWaiting
=============================================================================
