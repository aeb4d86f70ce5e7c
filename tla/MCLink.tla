-------------------------------- MODULE MCLink ------------------------------
(***************************************************************************)
(* A small instance of the link between the proxy and its supervisor: the  *)
(* table of waiting replies (LinkReplies: two questions, with either, both *)
(* or none to give up) and the refreshes of a credential (CredRefresh: two *)
(* requests, the set of the launch, two to replace it with and one that    *)
(* does not survive being encoded).                                        *)
(*                                                                         *)
(* The two share no state, so a behaviour of both is one of each: a run    *)
(* takes the steps of one of them, chosen at the start.                    *)
(***************************************************************************)
EXTENDS LinkReplies

CONSTANTS a1, a2, q1, q2,
          Requests, Sets, First, Garbled, TooMany, NoSet

VARIABLES
  part,
  prompt, stopped, running, recent, threaded, jobs, step, job, resolved,
  super, proxy, published, asked, answers, ended, where, handed, runs, excused

refreshVars ==
  <<prompt, stopped, running, recent, threaded, jobs, step, job, resolved,
    super, proxy, published, asked, answers, ended, where, handed, runs, excused>>

Refresh == INSTANCE CredRefresh WITH
             up <- asked, down <- answers, shut <- ended, pc <- where

ASSUME RefreshSetsAssumption == Refresh!SetsAssumption

MCInit == part \in {"replies", "refresh"} /\ Init /\ Refresh!Init

MCNext ==
  \/ part = "replies" /\ Next /\ UNCHANGED <<part, refreshVars>>
  \/ part = "refresh" /\ Refresh!Next /\ UNCHANGED <<part, vars>>

(* The fairness of each part asks for nothing in its initial states, where *)
(* the part that was not chosen stays.                                     *)
MCSpec ==
  /\ MCInit /\ [][MCNext]_<<part, vars, refreshVars>>
  /\ Fairness /\ Refresh!Fairness

-----------------------------------------------------------------------------
(* The properties of both parts.                                           *)

(* What was admitted is under way, and within its limits: a naming slot is *)
(* held by a walk (NamingSlot), an admission by one re-resolution, each of *)
(* them given back on every path (Started), and a hopeless credential is   *)
(* not tried again and again (InjectCtx::finish).                          *)
AdmittedWithinLimits ==
  /\ TypeOK /\ SlotsHeld
  /\ Refresh!TypeOK /\ Refresh!AdmissionHeld /\ Refresh!NoSpinning

(* A set is masked before it is in use at either end (run_refreshes).      *)
InUseIsMasked == Refresh!InUseIsMasked

(* With nothing under way both ends hold the same set, unless it could not *)
(* be sent (CredentialRefresh::finish, run_refreshes, credential_refused). *)
CopiesAgree == Refresh!CopiesAgree

(* Nobody waits on the link for good: its end lets every question go, a    *)
(* naming question ends by itself, both readers end once it is dropped,    *)
(* and a request that asked for a new credential is answered or let go.    *)
NobodyWaitsForGood ==
  LinkEndLetsGo /\ NamingEnds /\ ReadersEnd /\ Refresh!RefreshAnswered
=============================================================================
