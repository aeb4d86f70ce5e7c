------------------------------ MODULE Lookups -------------------------------
(***************************************************************************)
(* Host lookups (src/sandbox/proxy/dns.rs): a short-lived cache in front   *)
(* of lookups that run on threads of their own, one per name, joined by    *)
(* every caller of the name and waited for up to a deadline.               *)
(*                                                                         *)
(* An answer is "ok" or "err" here; the addresses are left out.  A slot is *)
(* what a lookup and its callers share, reused once nobody holds it.       *)
(***************************************************************************)
EXTENDS Naturals, FiniteSets

CONSTANTS
  Callers, Hosts,  \* who asks, and for which names
  Slots,           \* bound: lookups whose slot somebody holds at once
  Cap,             \* Lookups::cap
  CacheCap,        \* DNS_CACHE_CAP
  Ttl              \* how long an answer is reused, in ticks

NoOne == "no one"

BoundsAssumption == {Cap, CacheCap} \subseteq Nat \ {0} /\ Ttl \in Nat
NamesAssumption == NoOne \notin Callers \cup Hosts \cup Slots

VARIABLES
  table,   \* Lookups::in_flight
  lock,    \* who holds its mutex
  thread,  \* where the lookup thread of each slot is
  names,   \* the name each slot was made for
  result,  \* what each lookup thread has to publish
  answer,  \* the answer published in each slot
  at,      \* where each caller is
  wants,   \* the name it asked for
  joined,  \* the slot it waits on
  cache    \* the age of each cached answer

lookupVars == <<table, lock, thread, names, result, answer>>
callerVars == <<at, wants, joined>>
vars == <<lookupVars, callerVars, cache>>

Init ==
  /\ table = << >> /\ lock = NoOne
  /\ thread = [s \in Slots |-> "none"]
  /\ names = [s \in Slots |-> NoOne]
  /\ result = [s \in Slots |-> "none"] /\ answer = [s \in Slots |-> "none"]
  /\ at = [c \in Callers |-> "idle"]
  /\ wants = [c \in Callers |-> NoOne] /\ joined = [c \in Callers |-> NoOne]
  /\ cache = << >>

Held(s) == thread[s] # "none" \/ \E c \in Callers : joined[c] = s
Goes(c, to) == at' = [at EXCEPT ![c] = to]
Returns(c) == Goes(c, "idle") /\ wants' = [wants EXCEPT ![c] = NoOne]
Without(f, k) == [x \in DOMAIN f \ {k} |-> f[x]]
With(f, k, v) == [x \in DOMAIN f \cup {k} |-> IF x = k THEN v ELSE f[x]]

-----------------------------------------------------------------------------
(* A caller of cached_resolver and of Lookups::lookup.                     *)

Fresh(h) == h \in DOMAIN cache /\ cache[h] < Ttl

(* A fresh answer in the cache ends the call at once.                      *)
Ask(c, h) ==
  /\ at[c] = "idle" /\ ~Fresh(h)
  /\ Goes(c, "asking")
  /\ wants' = [wants EXCEPT ![c] = h]
  /\ UNCHANGED <<lookupVars, joined, cache>>

Lock(c) ==
  /\ at[c] = "asking" /\ lock = NoOne
  /\ lock' = c
  /\ Goes(c, "locked")
  /\ UNCHANGED <<table, thread, names, result, answer, wants, joined, cache>>

Join(c) ==
  /\ at[c] = "locked" /\ wants[c] \in DOMAIN table
  /\ joined' = [joined EXCEPT ![c] = table[wants[c]]]
  /\ lock' = NoOne
  /\ Goes(c, "waiting")
  /\ UNCHANGED <<table, thread, names, result, answer, wants, cache>>

New(c) == at[c] = "locked" /\ wants[c] \notin DOMAIN table

Room == Cardinality(DOMAIN table) < Cap

(* Refused for want of room, or because no thread could be started: the    *)
(* closure is dropped on this thread, before it made a Settle.             *)
Refuse(c) ==
  /\ New(c)
  /\ lock' = NoOne
  /\ Returns(c)
  /\ UNCHANGED <<table, thread, names, result, answer, joined, cache>>

Spawn(c, s) ==
  /\ New(c) /\ Room /\ ~Held(s)
  /\ thread' = [thread EXCEPT ![s] = "resolving"]
  /\ names' = [names EXCEPT ![s] = wants[c]]
  /\ answer' = [answer EXCEPT ![s] = "none"]
  /\ joined' = [joined EXCEPT ![c] = s]
  /\ Goes(c, "inserting")
  /\ UNCHANGED <<table, lock, result, wants, cache>>

Insert(c) ==
  /\ at[c] = "inserting"
  /\ table' = With(table, wants[c], joined[c])
  /\ lock' = NoOne
  /\ Goes(c, "waiting")
  /\ UNCHANGED <<thread, names, result, answer, wants, joined, cache>>

(* Faulty: a caller waits for as long as it takes.                         *)
HasDeadlineNot == FALSE

HasDeadline == TRUE

(* The deadline passes with no answer.                                     *)
GiveUp(c) ==
  /\ HasDeadline /\ at[c] = "waiting" /\ answer[joined[c]] = "none"
  /\ joined' = [joined EXCEPT ![c] = NoOne]
  /\ Returns(c)
  /\ UNCHANGED <<lookupVars, cache>>

(* An answer is read, and goes with its last reader; a good one is stored. *)
Read(c) ==
  /\ at[c] = "waiting" /\ answer[joined[c]] # "none"
  /\ joined' = [joined EXCEPT ![c] = NoOne]
  /\ answer' = [answer EXCEPT ![joined[c]] =
                  IF \E d \in Callers \ {c} : joined[d] = joined[c] THEN @ ELSE "none"]
  /\ IF answer[joined[c]] = "ok" /\ Ttl > 0 THEN Goes(c, "storing") /\ UNCHANGED wants
                                             ELSE Returns(c)
  /\ UNCHANGED <<table, lock, thread, names, result, cache>>

(* At the ceiling, what is past its time goes first.                       *)
Swept == IF Cardinality(DOMAIN cache) < CacheCap THEN DOMAIN cache
         ELSE {h \in DOMAIN cache : cache[h] < Ttl}

RoomInCache == Cardinality(Swept) < CacheCap

Store(c) ==
  /\ at[c] = "storing"
  /\ LET kept == [h \in Swept |-> cache[h]]
     IN  cache' = IF RoomInCache THEN With(kept, wants[c], 0) ELSE kept
  /\ Returns(c)
  /\ UNCHANGED <<lookupVars, joined>>

-----------------------------------------------------------------------------
(* A lookup thread, which may end in a panic.                              *)

Resolve(s, r) ==
  /\ thread[s] = "resolving"
  /\ result' = [result EXCEPT ![s] = r]
  /\ thread' = [thread EXCEPT ![s] = "settling"]
  /\ UNCHANGED <<table, lock, names, answer, callerVars, cache>>

(* Faulty: a panic ends the thread with nothing settled.                   *)
AfterPanicNothing == "none"

(* A panic unwinds through Settle as well.                                 *)
AfterPanic == "settling"

Panic(s) ==
  /\ thread[s] = "resolving"
  /\ result' = [result EXCEPT ![s] = "err"]
  /\ thread' = [thread EXCEPT ![s] = AfterPanic]
  /\ UNCHANGED <<table, lock, names, answer, callerVars, cache>>

(* Drop for Settle: the name leaves the table first...                     *)
Unlist(s) ==
  /\ thread[s] = "settling" /\ lock = NoOne
  /\ table' = IF names[s] \in DOMAIN table /\ table[names[s]] = s
              THEN Without(table, names[s]) ELSE table
  /\ thread' = [thread EXCEPT ![s] = "unlisted"]
  /\ UNCHANGED <<lock, names, result, answer, callerVars, cache>>

(* Faulty: the answer is published while the name is still listed.         *)
MayPublishEarly(s) == thread[s] \in {"settling", "unlisted"}

MayPublish(s) == thread[s] = "unlisted"

(* ... and the answer is published to those that wait.                     *)
Publish(s) ==
  /\ MayPublish(s)
  /\ answer' = [answer EXCEPT ![s] = IF \E c \in Callers : joined[c] = s THEN result[s] ELSE "none"]
  /\ thread' = [thread EXCEPT ![s] = "none"]
  /\ names' = [names EXCEPT ![s] = NoOne]
  /\ result' = [result EXCEPT ![s] = "none"]
  /\ UNCHANGED <<table, lock, callerVars, cache>>

-----------------------------------------------------------------------------
Age ==
  /\ \E h \in DOMAIN cache : cache[h] < Ttl
  /\ cache' = [h \in DOMAIN cache |-> IF cache[h] < Ttl THEN cache[h] + 1 ELSE Ttl]
  /\ UNCHANGED <<lookupVars, callerVars>>

CallerStep(c) ==
  \/ Lock(c) \/ Join(c) \/ Refuse(c) \/ Insert(c) \/ GiveUp(c) \/ Read(c) \/ Store(c)
  \/ \E s \in Slots : Spawn(c, s)

Settles(s) == Unlist(s) \/ Publish(s)

Next ==
  \/ Age
  \/ \E c \in Callers : CallerStep(c) \/ \E h \in Hosts : Ask(c, h)
  \/ \E s \in Slots : Panic(s) \/ Settles(s) \/ \E r \in {"ok", "err"} : Resolve(s, r)

Spec == Init /\ [][Next]_vars

(* Callers and settling threads keep running; a resolver owes no answer.   *)
Fairness ==
  /\ \A c \in Callers :
       /\ SF_vars(Lock(c))
       /\ WF_vars(Join(c) \/ Refuse(c) \/ Insert(c)) /\ WF_vars(GiveUp(c) \/ Read(c) \/ Store(c))
  /\ \A s \in Slots : SF_vars(Unlist(s)) /\ WF_vars(Publish(s))

-----------------------------------------------------------------------------
(* Properties.                                                             *)

Threads == {"none", "resolving", "settling", "unlisted"}
Steps   == {"idle", "asking", "locked", "inserting", "waiting", "storing"}
Answers == {"none", "ok", "err"}

TableKept ==
  /\ DOMAIN table \subseteq Hosts /\ IsFiniteSet(DOMAIN table)
  /\ Cardinality(DOMAIN table) <= Cap
  /\ \A h \in DOMAIN table : table[h] \in Slots

CacheKept ==
  /\ DOMAIN cache \subseteq Hosts /\ IsFiniteSet(DOMAIN cache)
  /\ Cardinality(DOMAIN cache) <= CacheCap
  /\ \A h \in DOMAIN cache : cache[h] \in 0 .. Ttl

SlotsKept ==
  /\ lock \in Callers \cup {NoOne}
  /\ thread \in [Slots -> Threads] /\ names \in [Slots -> Hosts \cup {NoOne}]
  /\ result \in [Slots -> Answers] /\ answer \in [Slots -> Answers]
  /\ at \in [Callers -> Steps] /\ wants \in [Callers -> Hosts \cup {NoOne}]
  /\ joined \in [Callers -> Slots \cup {NoOne}]

TypeOK == TableKept /\ CacheKept /\ SlotsKept

(* A name in flight has a thread that will take it out, however it ends:   *)
(* otherwise it holds its place, and its callers, for good.                *)
InFlightIsRunning ==
  \A h \in DOMAIN table :
    names[table[h]] = h /\ thread[table[h]] \in {"resolving", "settling"}

(* No caller joins a lookup that already answered: one that asks again on  *)
(* reading an answer starts a lookup of its own.                           *)
JoinedIsUnanswered == \A h \in DOMAIN table : answer[table[h]] = "none"

(* However a lookup ends, its caller is answered or gives up: nobody waits *)
(* on a table lock that is never let go.                                   *)
CallersReturn == \A c \in Callers : (at[c] # "idle") ~> (at[c] = "idle")

-----------------------------------------------------------------------------
(* The inductive invariant.                                                *)

(* What a caller has in hand at each of its steps.                         *)
CallersKnow ==
  \A c \in Callers :
    /\ lock = c <=> at[c] \in {"locked", "inserting"}
    /\ at[c] # "idle" => wants[c] \in Hosts
    /\ at[c] \in {"inserting", "waiting"} <=> joined[c] # NoOne

(* Under the lock the table neither grows nor loses a name.                *)
MadeUnderLock ==
  \A c \in Callers : at[c] = "inserting" =>
    /\ wants[c] \notin DOMAIN table /\ Cardinality(DOMAIN table) < Cap
    /\ names[joined[c]] = wants[c]
    /\ thread[joined[c]] \in {"resolving", "settling"}

RunningIsUnanswered == \A s \in Slots : thread[s] # "none" => answer[s] = "none"

Inv ==
  /\ TypeOK /\ CallersKnow /\ MadeUnderLock /\ RunningIsUnanswered /\ InFlightIsRunning

-----------------------------------------------------------------------------
(* A caller waits on a lookup of the name it asked for that still runs, or *)
(* on an answer it has yet to read: never on one that ended unanswered,    *)
(* which would cost it its whole deadline.                                 *)
WaitsForItsName ==
  \A c \in Callers : at[c] = "waiting" =>
    \/ thread[joined[c]] # "none" /\ names[joined[c]] = wants[c]
    \/ answer[joined[c]] # "none"

(* A lookup thread that ends has something to publish.                     *)
ResultInHand == \A s \in Slots : thread[s] \in {"settling", "unlisted"} => result[s] # "none"

Served == WaitsForItsName /\ ResultInHand
=============================================================================
