---------------------------- MODULE MCMailReceive ----------------------------
(***************************************************************************)
(* MailReceive for TLC.  Messages are interchangeable; the rules forward   *)
(* between two mailboxes, in circles, and outside.                         *)
(***************************************************************************)
EXTENDS MailReceive, TLC

CONSTANTS a, b

To(n) == [to |-> n, deleteOriginal |-> TRUE]

Circle == {<<To(a), To(b)>>, <<To(External), [To(b) EXCEPT !.deleteOriginal = FALSE]>>}

Symmetry == Permutations(Msg)
=============================================================================
