------------------------------- MODULE MCKept -------------------------------
(***************************************************************************)
(* A small instance of what is kept from one request to the next: the      *)
(* event log (EventLog: rings of two), the readers its session waits for   *)
(* at its end (LogLinger: readers of two paces, one of which asks for      *)
(* amendments, for a table of two), and the connections (ConnPool: a       *)
(* request that may be sent twice, one that may not, and one whose rule    *)
(* keeps it from private addresses, for a pool of one).                    *)
(*                                                                         *)
(* The three share no state, so a behaviour of all is one of each: a run   *)
(* takes the steps of one of them, chosen at the start.                    *)
(***************************************************************************)
EXTENDS EventLog

CONSTANTS
  quick, slow, quiet, Readers, Amending, Interval, Slack, LingerMax,
  FollowersMax, Horizon, MaxChanges,
  get, post, wild, Reqs, Conns, Cred, Idempotent, Guarded, MaxParked,
  MaxPerKey, MaxGen

VARIABLES
  part,
  now, head, amend, followers, polls, last, serving, got, session, lingerTo,
  gen, at, value, key, on, reused, idle, conn, applied

lingerVars == <<now, head, amend, followers, polls, last, serving, got, session, lingerTo>>
poolVars == <<gen, at, value, key, on, reused, idle, conn, applied>>

Linger == INSTANCE LogLinger
Pool == INSTANCE ConnPool

ASSUME LingerAssumption == Linger!ReadersAssumption /\ Linger!BoundsAssumption
ASSUME PoolAssumption == Pool!ReqsAssumption /\ Pool!BoundsAssumption

MCInterval == [r \in Readers |-> IF r = slow THEN 3 ELSE 1]

OneCred == [r \in Reqs |-> "token"]

MCInit ==
  part \in {"log", "linger", "pool"} /\ Init /\ Linger!Init /\ Pool!Init

MCNext ==
  \/ part = "log" /\ Next /\ UNCHANGED <<part, lingerVars, poolVars>>
  \/ part = "linger" /\ Linger!Next /\ UNCHANGED <<part, vars, poolVars>>
  \/ part = "pool" /\ Pool!Next /\ UNCHANGED <<part, vars, lingerVars>>

MCSpec == MCInit /\ [][MCNext]_<<part, vars, lingerVars, poolVars>>

-----------------------------------------------------------------------------
(* The properties of LogLinger and ConnPool.                               *)

(* Every variable has its type; the rings, the table of readers and the    *)
(* pool keep their bounds.                                                 *)
TypesOK == TypeOK /\ Linger!TypeOK /\ Pool!TypeOK

(* When the wait at a session's end is over, every reader that still polls *)
(* has had a read noted since the last change (LogRing::linger).           *)
LastReadNoted == Linger!LastReadNoted

(* A connection is reused only by a request that might have opened it: it  *)
(* carries one set of credential values in all its life (PoolKey), and     *)
(* leads where the request's own rule lets it go (UpstreamPool::checkout). *)
ReusedRightly == Pool!CarriesItsOwn /\ Pool!GuardKept

(* A request that is not idempotent is taken by an upstream at most once,  *)
(* any other at most twice (the replay on a fresh connection).             *)
AppliedOnce == Pool!AppliedOnce
=============================================================================
