--------------------------- MODULE MCTelegramBinding ---------------------------
(***************************************************************************)
(* TelegramBinding for TLC.  Requests, chats and names are                 *)
(* interchangeable.                                                        *)
(***************************************************************************)
EXTENDS TelegramBinding, TLC

Symmetry == Permutations(Task) \cup Permutations(Chat) \cup Permutations(Name)
=============================================================================
