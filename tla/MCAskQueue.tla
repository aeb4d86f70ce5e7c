----------------------------- MODULE MCAskQueue -----------------------------
(***************************************************************************)
(* Small instances of AskQueue, with a timeout.  /a and /b are two paths   *)
(* of one endpoint, and bad a host the supervisor does not let in.         *)
(***************************************************************************)
EXTENDS AskQueue, TLC

CONSTANTS p1, p2, o1, o2

MCEndpoint == [d \in Dests |-> IF d \in {"/a", "/b"} THEN "site" ELSE d]

Interchangeable == Permutations(Parks) \cup Permutations(Ops)
=============================================================================
