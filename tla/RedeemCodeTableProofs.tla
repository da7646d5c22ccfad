------------------------ MODULE RedeemCodeTableProofs ------------------------
(***************************************************************************)
(* What the admin handlers may do to the table, for any number of codes:   *)
(* the facts the proofs about the three redemption flows start from.       *)
(***************************************************************************)
EXTENDS RedeemCodeTable, TLAPS

(* Only issued rows are ever redeemed, and a redeemed row has its result. *)
TableOK ==
    \A c \in CodeId : codes[c].redeemed =>
        codes[c].state # "unissued" /\ codes[c].result # None

(* A redemption, once recorded, stays what it was. *)
KeepsRedeemed ==
    \A c \in CodeId : codes[c].redeemed =>
        /\ codes'[c].redeemed
        /\ codes'[c].result = codes[c].result
        /\ codes'[c].value = codes[c].value
        /\ OfferOf(c)' \in {OfferOf(c), None}

(* No row becomes redeemed. *)
RedeemsNothing ==
    \A c \in CodeId : codes'[c].redeemed => codes[c].redeemed

(* A row that was never created is a well-typed row. *)
LEMMA UnissuedType ==
    ASSUME NEW R
    PROVE  /\ Unissued \in RowType(R)
           /\ Unissued.state = "unissued"
           /\ ~Unissued.redeemed
  BY ValueAssumption DEF Unissued, RowType

LEMMA TableInitOK ==
    ASSUME NEW R, TableInit
    PROVE  /\ codes \in [CodeId -> RowType(R)]
           /\ TableOK
           /\ \A c \in CodeId : ~codes[c].redeemed /\ OfferOf(c) = None
<1>1. /\ Unissued \in RowType(R)
      /\ Unissued.state = "unissued"
      /\ ~Unissued.redeemed
  BY UnissuedType
<1> QED
  BY <1>1 DEF TableInit, TableOK, OfferOf, Live

(* The admin handlers keep the table well typed, never touch what a        *)
(* redemption recorded and never redeem a code themselves.                 *)
LEMMA TableStep ==
    ASSUME NEW R,
           codes \in [CodeId -> RowType(R)],
           TableOK,
           TableNext
    PROVE  /\ codes' \in [CodeId -> RowType(R)]
           /\ TableOK'
           /\ KeepsRedeemed
           /\ RedeemsNothing
<1>1. /\ Unissued \in RowType(R)
      /\ ~Unissued.redeemed
  BY UnissuedType
<1>2. ASSUME NEW S \in SUBSET CodeId, NEW v \in Value, NEW on \in BOOLEAN,
             CreateCodes(S, v, on)
      PROVE  /\ codes' \in [CodeId -> RowType(R)]
             /\ TableOK' /\ KeepsRedeemed /\ RedeemsNothing
  <2> DEFINE row == [Unissued EXCEPT !.state = "issued", !.value = v, !.enabled = on]
  <2>1. row \in RowType(R) /\ ~row.redeemed
    BY <1>1 DEF RowType
  <2>2. \A c \in CodeId : codes'[c] = IF c \in S THEN row ELSE codes[c]
    BY <1>2 DEF CreateCodes
  <2>3. codes' \in [CodeId -> RowType(R)]
    BY <1>2, <2>1 DEF CreateCodes
  <2>4. \A c \in S : ~codes[c].redeemed
    BY <1>2 DEF CreateCodes, TableOK
  <2> HIDE DEF row
  <2> QED
    BY <2>1, <2>2, <2>3, <2>4 DEF TableOK, KeepsRedeemed, RedeemsNothing, OfferOf, Live
<1>3. ASSUME NEW c \in CodeId, NEW v \in Value, NEW on \in BOOLEAN, UpdateCode(c, v, on)
      PROVE  /\ codes' \in [CodeId -> RowType(R)]
             /\ TableOK' /\ KeepsRedeemed /\ RedeemsNothing
  BY <1>3 DEF UpdateCode, RowType, TableOK, KeepsRedeemed, RedeemsNothing, OfferOf, Live
<1>4. ASSUME NEW c \in CodeId, DeleteCode(c)
      PROVE  /\ codes' \in [CodeId -> RowType(R)]
             /\ TableOK' /\ KeepsRedeemed /\ RedeemsNothing
  BY <1>4 DEF DeleteCode, RowType, TableOK, KeepsRedeemed, RedeemsNothing, OfferOf, Live
<1>5. ASSUME NEW c \in CodeId, ExpireCode(c)
      PROVE  /\ codes' \in [CodeId -> RowType(R)]
             /\ TableOK' /\ KeepsRedeemed /\ RedeemsNothing
  BY <1>5 DEF ExpireCode, RowType, TableOK, KeepsRedeemed, RedeemsNothing, OfferOf, Live
<1> QED
  BY <1>2, <1>3, <1>4, <1>5 DEF TableNext

(* Marking a claimable row redeemed with a result. *)
LEMMA RedeemStep ==
    ASSUME NEW R, NEW r \in R, NEW c \in CodeId, NEW v,
           None \notin R,
           codes \in [CodeId -> RowType(R)],
           TableOK,
           Claimable(codes[c], v),
           codes' = [codes EXCEPT ![c] = Redeemed(@, r)]
    PROVE  /\ codes' \in [CodeId -> RowType(R)]
           /\ TableOK'
           /\ KeepsRedeemed
           /\ codes'[c].redeemed /\ codes'[c].result = r /\ codes'[c].value = v
           /\ ~codes[c].redeemed
           /\ \A d \in CodeId \ {c} : codes'[d] = codes[d]
           /\ \A d \in CodeId : OfferOf(d)' = OfferOf(d)
           /\ OfferOf(c) = v
  BY DEF Claimable, Redeemed, RowType, TableOK, KeepsRedeemed, OfferOf, Live
=============================================================================
