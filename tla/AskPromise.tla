----------------------------- MODULE AskPromise -----------------------------
(***************************************************************************)
(* What the ask queue promises a request and the operators who answer it,  *)
(* without the queue: a request that is let in is decided once, for good,  *)
(* and what it hears is what was decided.  Where an `ask_timeout` is set,  *)
(* a request may stop waiting first, and then it hears a deny.             *)
(***************************************************************************)
CONSTANTS
  Parks,     \* the requests
  MayGiveUp  \* whether a request may stop waiting for its answer

VARIABLES
  decided,   \* what was decided for each request, "open" while it is parked
  heard      \* what each request was told

vars == <<decided, heard>>

Verdicts == {"Allow", "Deny"}

Init ==
  /\ decided = [p \in Parks |-> "none"]
  /\ heard = [p \in Parks |-> "none"]

Admit(p) ==
  /\ decided[p] = "none"
  /\ decided' = [decided EXCEPT ![p] = "open"]
  /\ UNCHANGED heard

Refuse(p) ==
  /\ decided[p] = "none"
  /\ decided' = [decided EXCEPT ![p] = "Deny"]
  /\ heard' = [heard EXCEPT ![p] = "Deny"]

(* One answer decides any number of parked requests, all alike.            *)
Decide(S, v) ==
  /\ \A p \in S : decided[p] = "open"
  /\ decided' = [p \in Parks |-> IF p \in S THEN v ELSE decided[p]]
  /\ UNCHANGED heard

Hear(p) ==
  /\ decided[p] \in Verdicts
  /\ heard[p] = "none"
  /\ heard' = [heard EXCEPT ![p] = decided[p]]
  /\ UNCHANGED decided

GiveUp(p) ==
  /\ MayGiveUp
  /\ decided[p] # "none"
  /\ heard[p] = "none"
  /\ heard' = [heard EXCEPT ![p] = "Deny"]
  /\ UNCHANGED decided

Next ==
  \/ \E p \in Parks : Admit(p) \/ Refuse(p) \/ Hear(p) \/ GiveUp(p)
  \/ \E S \in SUBSET Parks, v \in Verdicts : Decide(S, v)

Spec == Init /\ [][Next]_vars

(* A request that was decided hears of it.                                 *)
FairSpec == Spec /\ \A p \in Parks : WF_vars(Hear(p))
=============================================================================
