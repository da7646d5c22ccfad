----------------------------- MODULE MCMailboxData -----------------------------
(***************************************************************************)
(* MailboxData for TLC.  Requests and names are interchangeable.           *)
(***************************************************************************)
EXTENDS MailboxData, TLC

Symmetry == Permutations(Task) \cup Permutations(Name)
=============================================================================
