---------------------------- MODULE MCUserAccounts ----------------------------
(***************************************************************************)
(* UserAccounts for TLC.  Requests and emails are interchangeable.         *)
(***************************************************************************)
EXTENDS UserAccounts, TLC

Symmetry == Permutations(Visit) \cup Permutations(Email)
=============================================================================
