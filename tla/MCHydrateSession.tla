-------------------------- MODULE MCHydrateSession --------------------------
(***************************************************************************)
(* The small instances of LazyHydration, for one opened replay.             *)
(***************************************************************************)
EXTENDS MCLazyHydration, HydrateSession
=============================================================================
