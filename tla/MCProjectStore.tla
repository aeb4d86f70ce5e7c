--------------------------- MODULE MCProjectStore ---------------------------
(***************************************************************************)
(* A small instance of ProjectStore: two runs of `projects rm` and two     *)
(* launches of one project.                                                *)
(***************************************************************************)
EXTENDS ProjectStore

CONSTANTS l1, l2, v1, v2
=============================================================================
