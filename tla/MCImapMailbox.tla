---------------------------- MODULE MCImapMailbox ----------------------------
(***************************************************************************)
(* ImapMailbox for TLC: two commands overlap.  In the run about the index  *)
(* and the cache one of them fetches and the other is a SEARCH, which      *)
(* builds the index if there is none: two rebuilds overlap, and a fetch    *)
(* goes on while the other replaces the index.  In the run about flags     *)
(* each of them is a SELECT or a STORE.                                    *)
(***************************************************************************)
EXTENDS ImapMailbox, TLC

CONSTANTS c1, c2

MCSlot == {c1, c2}

MCFetch == [c \in MCSlot |-> IF c = c1 THEN {"fetch"} ELSE {"search"}]

MCStore == [c \in MCSlot |-> {"select", "store"}]

(* Commands and flags are interchangeable in the run about flags. *)
Symmetry == Permutations(MCSlot) \cup Permutations(Flag)

(* What the steps and the properties of the run about flags depend on:     *)
(* changes, unmatched and since are history for the properties of the      *)
(* other run, answer is NoAnswer as long as nobody fetches, and serials    *)
(* and ids are in the same order.                                          *)
FlagView ==
    <<Ids(mails), stored, top, [c \in Slot |-> [cmd[c] EXCEPT !.since = "nothing"]],
      count, built, index, cache, flagVars, shownVars>>
=============================================================================
