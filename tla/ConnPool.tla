------------------------------ MODULE ConnPool ------------------------------
(***************************************************************************)
(* Reuse of upstream connections (src/sandbox/proxy/pool.rs) by the        *)
(* requests that ride them (acquire_upstream in proxy/mod.rs and the       *)
(* exchange of proxy/forward.rs), while the launch's credentials are       *)
(* replaced under them (proxy/inject.rs) and upstreams close connections   *)
(* whenever they like.                                                     *)
(*                                                                         *)
(* A credential's value is stood for by the generation of the set it came  *)
(* with.  Which parked connections have waited too long is a choice.       *)
(***************************************************************************)
EXTENDS Naturals, SequencesExt, FiniteSets

CONSTANTS
  Reqs,        \* the requests
  Conns,       \* bound: connections open at once
  Cred,        \* the injections each request matches
  Idempotent,  \* the requests that may be sent a second time
  Guarded,     \* the requests that may not reach a private address
  MaxParked,   \* MAX_PARKED
  MaxPerKey,   \* MAX_PER_KEY
  MaxGen       \* bound: replacements of the credentials

None == "none"

ReqsAssumption ==
  /\ DOMAIN Cred = Reqs
  /\ IsFiniteSet(Conns) /\ None \notin Reqs \cup Conns
  /\ Idempotent \cup Guarded \subseteq Reqs
BoundsAssumption == {MaxParked, MaxPerKey, MaxGen} \subseteq Nat

VARIABLES
  gen,      \* the generation of the credentials in force
  at,       \* where each request is
  value,    \* the generation of the set a request took
  key,      \* its pool key, without the host and port
  on,       \* the connection it rides
  reused,   \* whether that one came from the pool
  idle,     \* UpstreamPool::idle, the newest last
  conn,     \* each connection: is it open, its address, what it carried,
            \* and the request its upstream has not answered
  applied   \* how often an upstream took each request

vars == <<gen, at, value, key, on, reused, idle, conn, applied>>

NoKey == [cred |-> None, generation |-> 0]
Keys == [cred : {Cred[r] : r \in Reqs}, generation : 0..MaxGen]
Unopened == [up |-> FALSE, peer |-> "public", carried |-> {}, sent |-> None, answer |-> None]

Init ==
  /\ gen = 0
  /\ at = [r \in Reqs |-> "start"] /\ value = [r \in Reqs |-> 0]
  /\ key = [r \in Reqs |-> NoKey] /\ on = [r \in Reqs |-> None]
  /\ reused = [r \in Reqs |-> FALSE]
  /\ idle = [k \in Keys |-> << >>]
  /\ conn = [c \in Conns |-> Unopened]
  /\ applied = [r \in Reqs |-> 0]

Goes(r, to) == at' = [at EXCEPT ![r] = to]
Parked(slots) == UNION {ToSet(slots[k]) : k \in Keys}
Waiting == Parked(idle)
Free == {c \in Conns : c \notin Waiting /\ \A r \in Reqs : on[r] # c}
LetGo(r) == on' = [on EXCEPT ![r] = None]

(* UpstreamPool::sweep, under the pool's lock: the connections parked      *)
(* longest ago, the first of each key, have waited too long.               *)
Ages == [Keys -> 0 .. MaxPerKey]
Swept(old) == [k \in Keys |-> SubSeq(idle[k], old[k] + 1, Len(idle[k]))]

-----------------------------------------------------------------------------
(* Credentials::replace and snapshot_with_generation.                      *)

Replace ==
  /\ gen < MaxGen
  /\ gen' = gen + 1
  /\ UNCHANGED <<at, value, key, on, reused, idle, conn, applied>>

Snapshot(r) ==
  /\ at[r] = "start"
  /\ value' = [value EXCEPT ![r] = gen]
  /\ Goes(r, "keying")
  /\ UNCHANGED <<gen, key, on, reused, idle, conn, applied>>

(* Faulty: the generation is read when the key is made.                    *)
KeyGenerationNow(r) == gen

(* The generation read with the set.                                       *)
KeyGeneration(r) == value[r]

(* Only a request whose bytes the proxy still holds takes a parked         *)
(* connection, and only a launch that reuses connections has any.          *)
MakeKey(r) ==
  /\ at[r] = "keying"
  /\ key' = [key EXCEPT ![r] = [cred |-> Cred[r], generation |-> KeyGeneration(r)]]
  /\ Goes(r, "sweeping") \/ Goes(r, "opening")
  /\ UNCHANGED <<gen, value, on, reused, idle, conn, applied>>

-----------------------------------------------------------------------------
(* acquire_upstream.                                                       *)

CheckoutSweep(r) ==
  /\ at[r] = "sweeping"
  /\ \E old \in Ages : idle' = Swept(old)
  /\ Goes(r, "popping")
  /\ UNCHANGED <<gen, value, key, on, reused, conn, applied>>

(* still_live: open, and nothing to read.                                  *)
StillLive(c) == conn[c].up

(* Faulty: a parked connection is taken wherever it leads.                 *)
ReusableAnywhere(r, c) == TRUE

(* The address passes the guard of this request's own rule.                *)
Reusable(r, c) == r \in Guarded => conn[c].peer = "public"

(* One candidate, the newest, per turn of checkout's loop; one that is     *)
(* dead or leads elsewhere is dropped.                                     *)
Pop(r) ==
  /\ at[r] = "popping"
  /\ IF idle[key[r]] = << >>
     THEN Goes(r, "opening") /\ UNCHANGED <<on, reused, idle>>
     ELSE LET c == Last(idle[key[r]]) IN
          /\ idle' = [idle EXCEPT ![key[r]] = Front(@)]
          /\ \/ StillLive(c) /\ Reusable(r, c)
                /\ on' = [on EXCEPT ![r] = c] /\ reused' = [reused EXCEPT ![r] = TRUE]
                /\ Goes(r, "sending")
             \/ StillLive(c) /\ ~Reusable(r, c)
                /\ Goes(r, "opening") /\ UNCHANGED <<on, reused>>
             \/ ~StillLive(c) /\ UNCHANGED <<at, on, reused>>
  /\ UNCHANGED <<gen, value, key, conn, applied>>

(* connect_upstream: the supervisor opens what the guard passes.           *)
Open(r, c) ==
  /\ at[r] = "opening" /\ c \in Free
  /\ \E p \in IF r \in Guarded THEN {"public"} ELSE {"public", "private"} :
       conn' = [conn EXCEPT ![c] = [Unopened EXCEPT !.up = TRUE, !.peer = p]]
  /\ on' = [on EXCEPT ![r] = c] /\ reused' = [reused EXCEPT ![r] = FALSE]
  /\ Goes(r, "sending")
  /\ UNCHANGED <<gen, value, key, idle, applied>>

Refused(r) ==
  /\ at[r] = "opening"
  /\ Goes(r, "refused")
  /\ UNCHANGED <<gen, value, key, on, reused, idle, conn, applied>>

-----------------------------------------------------------------------------
(* The exchange.                                                           *)

(* The write, its failure included: bytes to a closed connection are lost. *)
Send(r) ==
  /\ at[r] = "sending"
  /\ conn' = IF conn[on[r]].up
             THEN [conn EXCEPT ![on[r]].sent = r,
                               ![on[r]].carried = @ \cup {[cred |-> Cred[r], value |-> value[r]]}]
             ELSE conn
  /\ Goes(r, "awaiting")
  /\ UNCHANGED <<gen, value, key, on, reused, idle, applied>>

Silent(r) == at[r] = "awaiting" /\ ~conn[on[r]].up /\ conn[on[r]].answer # r

(* Faulty: whatever was lost is sent again.                                *)
MayReplayAll(r) == reused[r]

(* A parked connection closed without a word, under a request that may be  *)
(* sent twice.                                                             *)
MayReplay(r) == reused[r] /\ r \in Idempotent

Replay(r) ==
  /\ Silent(r) /\ MayReplay(r)
  /\ LetGo(r) /\ Goes(r, "opening")
  /\ UNCHANGED <<gen, value, key, reused, idle, conn, applied>>

Lose(r) ==
  /\ Silent(r) /\ ~MayReplay(r)
  /\ LetGo(r) /\ Goes(r, "refused")
  /\ UNCHANGED <<gen, value, key, reused, idle, conn, applied>>

Answered(r) == at[r] = "awaiting" /\ conn[on[r]].answer = r

(* The response ended as framed and leaves the connection quiet: the pool  *)
(* may take it.                                                            *)
Relay(r) ==
  /\ Answered(r)
  /\ \/ conn[on[r]].up /\ Goes(r, "parking") /\ UNCHANGED on
     \/ Goes(r, "done") /\ LetGo(r)
  /\ UNCHANGED <<gen, value, key, reused, idle, conn, applied>>

Room(slots, k) == Cardinality(Parked(slots)) < MaxParked /\ Len(slots[k]) < MaxPerKey

(* UpstreamPool::park, after its probe; it too sweeps first.               *)
Park(r) ==
  /\ at[r] = "parking"
  /\ \E old \in Ages :
       idle' = IF Room(Swept(old), key[r])
                 THEN [Swept(old) EXCEPT ![key[r]] = Append(@, on[r])]
                 ELSE Swept(old)
  /\ LetGo(r) /\ Goes(r, "done")
  /\ UNCHANGED <<gen, value, key, reused, conn, applied>>

-----------------------------------------------------------------------------
(* The upstream: it takes a request, answers it, or closes at any moment.  *)

Apply(c) ==
  /\ conn[c].up /\ conn[c].sent # None
  /\ applied' = [applied EXCEPT ![conn[c].sent] = @ + 1]
  /\ \/ conn' = [conn EXCEPT ![c].answer = conn[c].sent, ![c].sent = None]
     \/ conn' = [conn EXCEPT ![c].up = FALSE, ![c].sent = None]
  /\ UNCHANGED <<gen, at, value, key, on, reused, idle>>

CloseUp(c) ==
  /\ conn[c].up
  /\ conn' = [conn EXCEPT ![c].up = FALSE, ![c].sent = None]
  /\ UNCHANGED <<gen, at, value, key, on, reused, idle, applied>>

Next ==
  \/ Replace
  \/ \E r \in Reqs :
       \/ Snapshot(r) \/ MakeKey(r) \/ CheckoutSweep(r) \/ Pop(r) \/ Refused(r)
       \/ Send(r) \/ Replay(r) \/ Lose(r) \/ Relay(r) \/ Park(r)
       \/ \E c \in Conns : Open(r, c)
  \/ \E c \in Conns : Apply(c) \/ CloseUp(c)

Spec == Init /\ [][Next]_vars

-----------------------------------------------------------------------------
(* Properties.                                                             *)

TypeOK ==
  /\ gen \in 0..MaxGen
  /\ at \in [Reqs -> {"start", "keying", "sweeping", "popping", "opening", "sending",
                      "awaiting", "parking", "done", "refused"}]
  /\ value \in [Reqs -> 0..MaxGen] /\ key \in [Reqs -> Keys \cup {NoKey}]
  /\ on \in [Reqs -> Conns \cup {None}] /\ reused \in [Reqs -> BOOLEAN]
  /\ \A k \in Keys : idle[k] \in Seq(Conns) /\ Len(idle[k]) <= MaxPerKey
  /\ Cardinality(Waiting) <= MaxParked
  /\ applied \in [Reqs -> Nat]

(* A connection carries one set of credential values in all its life: no   *)
(* request rides one that carried what it does not receive itself, also    *)
(* with a replacement between any two of its steps.                        *)
CarriesItsOwn ==
  \A r \in Reqs : on[r] # None =>
    conn[on[r]].carried \subseteq {[cred |-> Cred[r], value |-> value[r]]}

(* A request reaches only an address its own rule lets it reach.           *)
GuardKept ==
  \A r \in Reqs : on[r] # None /\ r \in Guarded => conn[on[r]].peer = "public"

(* A request that is not idempotent is taken by an upstream at most once,  *)
(* and any other at most twice, wherever the connection was lost.          *)
AppliedOnce ==
  \A r \in Reqs : applied[r] <= IF r \in Idempotent THEN 2 ELSE 1

-----------------------------------------------------------------------------
(* The inductive invariant.                                                *)

Riding == {"sending", "awaiting", "parking"}
Keyed == {"sweeping", "popping", "opening"} \cup Riding
Credentials == [cred : {Cred[r] : r \in Reqs}, value : 0 .. MaxGen]
Connections == [up : BOOLEAN, peer : {"public", "private"}, carried : SUBSET Credentials,
                sent : Reqs \cup {None}, answer : Reqs \cup {None}]

Kinds ==
  TypeOK /\ idle \in [Keys -> Seq(Conns)] /\ conn \in [Conns -> Connections]

(* A request's key stands for the credentials it took.                     *)
KeyedByItsOwn ==
  \A r \in Reqs : at[r] \in Keyed => key[r] = [cred |-> Cred[r], generation |-> value[r]]

(* A connection is one request's, or waits in one place of one slot.       *)
RidesWhenAt == \A r \in Reqs : on[r] # None <=> at[r] \in Riding
RidesAlone ==
  \A r, o \in Reqs : on[r] # None /\ on[r] = on[o] => r = o
ParkedOrRidden ==
  \A r \in Reqs, k \in Keys : \A i \in DOMAIN idle[k] : idle[k][i] # on[r]
ParkedInOnePlace ==
  \A k, l \in Keys : \A i \in DOMAIN idle[k], j \in DOMAIN idle[l] :
    idle[k][i] = idle[l][j] => k = l /\ i = j

(* A parked connection carried what the key it waits under stands for.     *)
CarriesItsKey ==
  \A k \in Keys : \A i \in DOMAIN idle[k] :
    conn[idle[k][i]].carried \subseteq {[cred |-> k.cred, value |-> k.generation]}

(* What an upstream has not answered waits for it, and what it answered    *)
(* has its answer or was done with it.                                     *)
SentIsAwaited ==
  \A c \in Conns : LET r == conn[c].sent IN
    r # None => conn[c].up /\ at[r] = "awaiting" /\ on[r] = c
AnswerIsRead ==
  \A c \in Conns : LET r == conn[c].answer IN
    r # None => \/ at[r] = "awaiting" /\ on[r] = c /\ conn[c].sent # r
                \/ at[r] \in {"parking", "done"}

(* How often a request may have been taken before it is sent.              *)
TakenBefore(r) == IF r \in Idempotent /\ ~reused[r] THEN 1 ELSE 0

Taken(r) ==
  /\ at[r] \in {"start", "keying", "sweeping", "popping"} => applied[r] = 0 /\ ~reused[r]
  /\ at[r] = "opening" => \/ reused[r] /\ r \in Idempotent /\ applied[r] <= 1
                          \/ ~reused[r] /\ applied[r] = 0
  /\ at[r] = "sending" => applied[r] <= TakenBefore(r)
  /\ at[r] = "awaiting" =>
       applied[r] <= TakenBefore(r) + IF conn[on[r]].sent = r THEN 0 ELSE 1
TakenCounted == \A r \in Reqs : Taken(r)

Inv ==
  /\ Kinds /\ KeyedByItsOwn /\ RidesWhenAt /\ RidesAlone /\ ParkedOrRidden
  /\ ParkedInOnePlace /\ CarriesItsKey /\ SentIsAwaited /\ AnswerIsRead
  /\ CarriesItsOwn /\ GuardKept /\ TakenCounted /\ AppliedOnce
=============================================================================
