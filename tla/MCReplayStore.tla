--------------------------- MODULE MCReplayStore ---------------------------
(***************************************************************************)
(* A small instance of ReplayStore.                                         *)
(***************************************************************************)
EXTENDS ReplayStore
CONSTANTS root, goal, x, y, tree, running, success
=============================================================================
