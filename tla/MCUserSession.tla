---------------------------- MODULE MCUserSession ----------------------------
(***************************************************************************)
(* UserSession for TLC.  No symmetry: the run checks liveness.             *)
(***************************************************************************)
EXTENDS UserSession
=============================================================================
