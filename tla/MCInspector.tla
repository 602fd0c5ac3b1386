---------------------------- MODULE MCInspector ----------------------------
(***************************************************************************)
(* Small instances of Inspector, with one client.                           *)
(***************************************************************************)
EXTENDS Inspector
CONSTANT c1
=============================================================================
