--------------------------- MODULE MCUpstreamJudge --------------------------
(***************************************************************************)
(* Small instances of UpstreamJudge.  One host is left to the operator     *)
(* under `/ask`, denied by a rule under `/no`, and refused by default over *)
(* `/ws`, a WebSocket; `open` is a host the policy allows.                 *)
(*                                                                         *)
(* An honest proxy is checked where there is room for every question, and  *)
(* where there is room for one only, threads fail and records are evicted; *)
(* which of the two is chosen at the start.                                *)
(***************************************************************************)
EXTENDS UpstreamJudge

CONSTANTS r1, r2

VARIABLE room

MCEndpoint == [d \in Dests |-> IF d = "open" THEN "open" ELSE "site"]

MCPolicy == [d \in Dests |-> CASE d = "open" -> "allow"
                              [] d = "/no" -> "deny"
                              [] d = "/ws" -> "default"
                              [] OTHER -> "ask"]

SiteRules == [verdict : Verdicts, at : {"site"}]

SiteDeny == {[verdict |-> "Deny", at |-> "site"]}

Interchangeable == Permutations(Requests)

Tight == INSTANCE UpstreamJudge WITH Cap <- 1, ThreadsMayFail <- TRUE

MCInit ==
  /\ Init
  /\ \/ room = "roomy" /\ \A r \in Requests : asks[r] # "/ws"
     \/ room = "tight"

MCNext ==
  \/ room = "roomy" /\ Next /\ UNCHANGED room
  \/ room = "tight" /\ Tight!Next /\ UNCHANGED room

MCSpec == MCInit /\ [][MCNext]_<<room, vars>> /\ Fairness

-----------------------------------------------------------------------------
(* The properties that depend on the room there is.                        *)

(* No more questions are answered at once than there is room for, and past *)
(* the cap only checks that hold an operator's allow are kept              *)
(* (link/judge.rs, Judge::enter and Judge::check).                         *)
WithinCaps ==
  IF room = "tight" THEN Tight!TypeOK /\ Tight!KeptBounded
  ELSE TypeOK /\ KeptBounded

(* A proxy that asks at most as many questions as there is room for is     *)
(* never refused as too busy (link/judge.rs, the place given back before   *)
(* the answer is written).                                                 *)
NeverBusyWithRoom == room = "roomy" => NeverBusy
=============================================================================
