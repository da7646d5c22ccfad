--------------------------- MODULE MCAddressBinding ---------------------------
(***************************************************************************)
(* AddressBinding for TLC.  Requests, names and persons are                *)
(* interchangeable.                                                        *)
(***************************************************************************)
EXTENDS AddressBinding, TLC

Symmetry == Permutations(Task) \cup Permutations(Name) \cup Permutations(Person)
=============================================================================
