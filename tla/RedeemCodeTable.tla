-------------------------- MODULE RedeemCodeTable --------------------------
(***************************************************************************)
(* The table redeem_codes and the admin handlers that write it             *)
(* (admin_redeem_code_api.ts).  The redemption flows extend this module.   *)
(*                                                                         *)
(* A row is looked up by its code text and written by its id.  Codes are   *)
(* random UUIDs made by the worker and ids are AUTOINCREMENT, so a row,    *)
(* once deleted, never comes back under the same code or id: one           *)
(* identifier stands for both.  A deleted row stays here as a tombstone    *)
(* whose fields nothing reads but the properties.  An instance of a flow   *)
(* has the rows of one redeem_type, which no handler ever changes.         *)
(***************************************************************************)
CONSTANTS
    CodeId,   \* the redemption codes that are ever created
    Value,    \* the values parseRedeemValue accepts for the flow's type
    None      \* SQL NULL

ASSUME ValueAssumption == Value # {} /\ None \notin Value

VARIABLE codes

Unissued ==
    [state |-> "unissued", value |-> CHOOSE v \in Value : TRUE,
     enabled |-> FALSE, expired |-> FALSE, redeemed |-> FALSE, result |-> None]

(* A row whose result column holds None or a member of R. *)
RowType(R) ==
    [state: {"unissued", "issued", "deleted"}, value: Value, enabled: BOOLEAN,
     expired: BOOLEAN, redeemed: BOOLEAN, result: R \cup {None}]

TableInit == codes = [c \in CodeId |-> Unissued]

-----------------------------------------------------------------------------
(* The WHERE clause every redemption query shares: enabled = 1 and         *)
(* expires_at in the future.                                               *)
Live(row) == row.state = "issued" /\ row.enabled /\ ~row.expired

(* Mutant: a code that was redeemed since the read is redeemed again. *)
ClaimableAgain(row, v) == Live(row) /\ row.value = v

(* Mutant: the UPDATE does not compare the value with the one read. *)
ClaimableAnyValue(row, v) == Live(row) /\ ~row.redeemed

(* The WHERE clause of the UPDATE that marks a code redeemed: nothing the  *)
(* request read (v is the value it read) may have changed.                 *)
Claimable(row, v) == Live(row) /\ ~row.redeemed /\ row.value = v

(* ... and its SET clause. *)
Redeemed(row, r) == [row EXCEPT !.redeemed = TRUE, !.result = r]

-----------------------------------------------------------------------------
(* One batch of createRedeemCodes.  The handler inserts up to 100 rows per *)
(* transaction, so a large request commits in several such steps.          *)
CreateCodes(S, v, on) ==
    /\ S # {}
    /\ \A c \in S : codes[c].state = "unissued"
    /\ codes' = [c \in CodeId |->
                   IF c \in S
                   THEN [Unissued EXCEPT !.state = "issued", !.value = v, !.enabled = on]
                   ELSE codes[c]]

(* updateRedeemCode: the new expiry must lie in the future; redeemed rows  *)
(* are out of reach of the UPDATE.                                         *)
UpdateCode(c, v, on) ==
    /\ codes[c].state = "issued"
    /\ ~codes[c].redeemed
    /\ codes' = [codes EXCEPT ![c] = [@ EXCEPT !.value = v, !.enabled = on, !.expired = FALSE]]

DeleteCode(c) ==
    /\ codes[c].state = "issued"
    /\ codes' = [codes EXCEPT ![c].state = "deleted"]

(* The clock passes expires_at. *)
ExpireCode(c) ==
    /\ codes[c].state = "issued"
    /\ ~codes[c].expired
    /\ codes' = [codes EXCEPT ![c].expired = TRUE]

TableNext ==
    \/ \E S \in SUBSET CodeId, v \in Value, on \in BOOLEAN : CreateCodes(S, v, on)
    \/ \E c \in CodeId, v \in Value, on \in BOOLEAN : UpdateCode(c, v, on)
    \/ \E c \in CodeId : DeleteCode(c)
    \/ \E c \in CodeId : ExpireCode(c)

-----------------------------------------------------------------------------
(* The refinement mapping to OneTimeGrant that the flows share: a live row *)
(* is an offer of its value, whether or not it is already redeemed.        *)
OfferOf(c) == IF Live(codes[c]) THEN codes[c].value ELSE None
=============================================================================
