----------------------------- MODULE MCOperator -----------------------------
(***************************************************************************)
(* A small instance of what operators tell a running launch: the rules     *)
(* they load (SessionRules: two commands over two rules, so that a rule is *)
(* loaded a second time after its push failed) and the execs they answer   *)
(* (ExecAsk: two operators, two execs, one place in the queue).            *)
(*                                                                         *)
(* The two share no state, so a behaviour of both is one of each: a run    *)
(* takes the steps of one of them, chosen at the start.                    *)
(***************************************************************************)
EXTENDS SessionRules

CONSTANTS o1, o2, r1, r2, e1, e2, Execs, Cap, AskTimeout, SweepEvery

VARIABLES
  part, queue, state, parked, loop, swept, stop, cage, taken, verdict, told

execVars == <<queue, state, parked, loop, swept, stop, cage, taken, verdict, told>>

Exec == INSTANCE ExecAsk

ASSUME ExecBounds == Exec!BoundsAssumption /\ Exec!LoopAssumption

MCInit == part \in {"rules", "execs"} /\ Init /\ Exec!Init

MCNext ==
  \/ part = "rules" /\ Next /\ UNCHANGED <<part, execVars>>
  \/ part = "execs" /\ Exec!Next /\ UNCHANGED <<part, vars>>

(* The fairness of SessionRules asks for nothing in its initial states,    *)
(* where it stays if it was not chosen; that of ExecAsk is asked for where *)
(* it was chosen.                                                          *)
MCSpec ==
  /\ MCInit /\ [][MCNext]_<<part, vars, execVars>>
  /\ Fairness
  /\ WF_execVars(part = "execs" /\ Exec!LoopStep) /\ WF_execVars(part = "execs" /\ Exec!Tick)
  /\ \A o \in Ops : WF_execVars(part = "execs" /\ Exec!OpStep(o))
  /\ \A e \in Execs : WF_execVars(part = "execs" /\ Exec!Unsupervised(e))

-----------------------------------------------------------------------------
(* The properties of both parts.                                           *)

(* What an operator was told of an exec is what happened to it, unless its *)
(* target died, and no more execs are parked than the queue has places     *)
(* (proc_enforce/pending.rs).                                              *)
ExecsAnsweredTruly == Exec!TypeOK /\ Exec!ToldIsDone

(* Nobody is held up for good: a command that loads a rule ends, whatever  *)
(* the proxy does (ManualRules::confirm), and a stopped process is let go, *)
(* whoever answers, dies or ends supervision (proc_enforce, recv_loop).    *)
NobodyHeldUp == CommandsEnd /\ Exec!StoppedIsLetGo
=============================================================================
