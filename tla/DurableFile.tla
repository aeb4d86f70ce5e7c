----------------------------- MODULE DurableFile -----------------------------
(***************************************************************************)
(* What installing a file promises the readers of it, without the writers: *)
(* the name leads to one finished file after another, a file once          *)
(* installed is never written again (a cage bound to it keeps its view),   *)
(* and a machine that stops forgets none that a write reported as          *)
(* installed, with its directory flushed.                                  *)
(***************************************************************************)
EXTENDS Naturals, Sequences

CONSTANTS
  Files,   \* the names of files
  Before,  \* the file that was there before
  Body     \* what a finished file holds

VARIABLES
  versions,  \* what the name led to, oldest first: each file and what it holds
  durable,   \* how many of them a machine that stops keeps
  promised   \* the newest of them that a write reported as installed for good

vars == <<versions, durable, promised>>

Finished(f) == [file |-> f, holds |-> Body]

Init ==
  /\ versions = <<Finished(Before)>>
  /\ durable = 1 /\ promised = 1

(* A file that was never installed replaces what was there.                *)
Install(f) ==
  /\ \A i \in DOMAIN versions : versions[i].file # f
  /\ versions' = Append(versions, Finished(f))
  /\ UNCHANGED <<durable, promised>>

(* The write that installed a version reports it, the directory flushed.   *)
Report(i) ==
  /\ durable' = Len(versions)
  /\ promised' = IF i > promised THEN i ELSE promised
  /\ UNCHANGED versions

(* The machine stops: the newest versions, not yet durable, may be lost.   *)
Stop ==
  /\ \E n \in durable .. Len(versions) : versions' = SubSeq(versions, 1, n) /\ durable' = n
  /\ UNCHANGED promised

Next ==
  \/ \E f \in Files : Install(f)
  \/ \E i \in DOMAIN versions : Report(i)
  \/ Stop

Spec == Init /\ [][Next]_vars
=============================================================================
