------------------------------- MODULE MCWaits -------------------------------
(***************************************************************************)
(* A small instance of two components in which somebody waits for another  *)
(* to let it go, and which share nothing: a project's store lock, between  *)
(* a launch and two verbs, and the ask queue without a timeout, between    *)
(* its requests, one operator and the end of the link.  Which of the two   *)
(* goes on is chosen at the start, and the other stays as it begins.       *)
(*                                                                         *)
(* With two projects the verbs are those that leave trees in place.  The   *)
(* runs of a verb differ in their kind only, so one order of two kinds     *)
(* stands for both.                                                        *)
(***************************************************************************)
EXTENDS ProjectStore

CONSTANTS
  l1, v1, v2, p1, p2, o1,
  Parks, Dests, Requestable, Endpoint, Ops, Reader, Cap, AskTimeout

VARIABLES
  part,
  nextSeq, seq, dest, waiting, chan, thread, verdict, linkUp, pc, cmd, seen, ran, taken, told

askVars == <<nextSeq, seq, dest, waiting, chan, thread, verdict, linkUp, pc, cmd, seen, ran,
             taken, told>>

Ask == INSTANCE AskQueue WITH entries <- waiting

(* /a is a path of an endpoint, other an endpoint of its own, and bad a    *)
(* host the supervisor does not let in.                                    *)
MCEndpoint == [d \in Dests |-> IF d = "/a" THEN "site" ELSE d]

Order == [collect |-> 1, purge |-> 2, remove |-> 3, sweep |-> 4]

StoreInit ==
  /\ Init
  /\ exists[1] /\ (exists[2] => TakesTrees = {})
  /\ Order[kind[v1]] <= Order[kind[v2]]

MCInit ==
  /\ StoreInit /\ Ask!Init
  /\ \/ part = "store" /\ dest = [p \in Parks |-> "bad"]
     \/ part = "asks" /\ ~exists[2] /\ kind = [v \in Verbs |-> "collect"]

MCNext ==
  \/ part = "store" /\ Next /\ UNCHANGED <<part, askVars>>
  \/ part = "asks" /\ Ask!Next /\ UNCHANGED <<part, vars>>

MCSpec == MCInit /\ [][MCNext]_<<part, vars, askVars>> /\ Fairness /\ Ask!Fairness

-----------------------------------------------------------------------------
(* What operators are told is what requests hear, without a timeout        *)
(* (PendingState, answer_like and answer_all_after).                       *)
ToldIsTrue == Ask!ToldIsTrue

(* The queue implements AskPromise (PendingState): decided once, and heard *)
(* as it was decided.                                                      *)
KeepsPromise == Ask!KeepsPromise

(* No request waits for good once something was done about it: the end of  *)
(* the link lets it go (read_proxy), so does a command that reports it as  *)
(* answered, and whoever decided it, it hears of it (PendingState).        *)
RequestsLetGo == Ask!LinkEndFreesAll /\ Ask!ToldAreWoken /\ Ask!KeepsPromiseFairly
=============================================================================
