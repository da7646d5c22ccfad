------------------------------ MODULE FlagStore ------------------------------
(***************************************************************************)
(* Table imap_flags of the IMAP proxy (flag_store.py), for one mailbox:    *)
(* the flags of its mails, by uid, which all sessions with the mailbox     *)
(* read and write.  A STORE is one transaction.  Rows are never deleted,   *)
(* and a uid without a row has no flags.                                   *)
(***************************************************************************)
EXTENDS Naturals

CONSTANTS
    Uid,        \* ids of mails
    Flag,       \* flags and keywords
    MaxStore    \* bound on the STOREs ever executed

ASSUME FlagStoreAssumption == MaxStore \in Nat

VARIABLES
    persisted,  \* table imap_flags
    stores,     \* how many STOREs were executed
    standing    \* history: the flags added to a uid and not taken away since

flagVars == <<persisted, stores, standing>>

Mode == {"add", "remove", "replace"}

NoFlags == [u \in Uid |-> {}]

FlagInit == persisted = NoFlags /\ stores = 0 /\ standing = NoFlags

Applied(old, F, mode) ==
    CASE mode = "add" -> old \cup F
      [] mode = "remove" -> old \ F
      [] mode = "replace" -> F

(* f after a STORE to uids that is computed from the flags in base *)
Stored(f, base, uids, F, mode) ==
    [u \in Uid |-> IF u \in uids THEN Applied(base[u], F, mode) ELSE f[u]]

(* update_flags, computed from what the transaction reads itself *)
UpdateFlags(base, uids, F, mode) ==
    /\ stores < MaxStore
    /\ stores' = stores + 1
    /\ persisted' = Stored(persisted, base, uids, F, mode)
    /\ standing' = [u \in Uid |->
           IF u \notin uids THEN standing[u]
           ELSE IF mode = "add" THEN standing[u] \cup F ELSE standing[u] \ (IF mode = "remove" THEN F ELSE Flag \ F)]
=============================================================================
