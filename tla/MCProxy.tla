------------------------------- MODULE MCProxy ------------------------------
(***************************************************************************)
(* A small instance of two places where the proxy's threads wait for one   *)
(* another: the event stream (EventStream: two requests report, one of     *)
(* which may be `big`, with events heavier than all that may be in flight, *)
(* or one reports beside another proxy), and the lookups (Lookups: two     *)
(* callers, two names, one of them in flight at a time).                   *)
(*                                                                         *)
(* The two share no state, so a behaviour of both is one of each: a run    *)
(* takes the steps of one of them, chosen at the start.                    *)
(***************************************************************************)
EXTENDS EventStream

CONSTANTS r1, r2, big, Callers, Hosts, Slots, Cap, CacheCap, Ttl

VARIABLES
  part,
  table, tableLock, thread, names, result, answer, at, wants, joined, cache

lookupVars == <<table, tableLock, thread, names, result, answer, at, wants, joined, cache>>

Lookup == INSTANCE Lookups WITH lock <- tableLock

ASSUME LookupAssumption == Lookup!BoundsAssumption /\ Lookup!NamesAssumption

MCWeight == [r \in Requests |-> IF r = big THEN 3 ELSE 1]

(* Who reports: nobody where the other part was chosen.                    *)
Reporting == {r \in Requests : pc[r] = 1}

MCInit ==
  /\ Init /\ Lookup!Init
  /\ \/ part = "events" /\ Reporting \in {{r1, r2}, {r1, big}} /\ others = 0
     \/ part = "events" /\ Reporting \in {{r1}, {big}} /\ others = 1
     \/ part = "lookups" /\ Reporting = {} /\ others = 0

MCNext ==
  \/ part = "events" /\ Next /\ UNCHANGED <<part, lookupVars>>
  \/ part = "lookups" /\ Lookup!Next /\ UNCHANGED <<part, vars>>

(* The fairness of each part asks for nothing in these initial states,     *)
(* where the part that was not chosen stays.                               *)
MCSpec ==
  /\ MCInit /\ [][MCNext]_<<part, vars, lookupVars>>
  /\ Fairness /\ Lookup!Fairness

-----------------------------------------------------------------------------
(* The properties of both parts.                                           *)

(* What is in flight is accounted for and bounded: the weight of events is *)
(* what requests and the queue hold (events.rs, reserve), and the table of *)
(* lookups and the cache keep their caps (dns.rs).                         *)
WithinBounds == TypeOK /\ InFlightHeld /\ Lookup!TypeOK

(* A name in flight has a thread that will take it out, and no caller      *)
(* joins a lookup that already answered (dns.rs, lookup and Settle).       *)
LookupsAreLive == Lookup!InFlightIsRunning /\ Lookup!JoinedIsUnanswered

(* Nobody waits for good: a report for room, a flush for the applier, a    *)
(* caller for its lookup, whichever of the threads they wait for ends, and *)
(* however (events.rs, dns.rs).                                            *)
NobodyWaitsForGood == ReportsEnd /\ FlushesEnd /\ Lookup!CallersReturn
=============================================================================
