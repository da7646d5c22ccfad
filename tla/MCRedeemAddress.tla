--------------------------- MODULE MCRedeemAddress ---------------------------
(***************************************************************************)
(* RedeemAddress for TLC.  No symmetry: the runs check liveness too.       *)
(***************************************************************************)
EXTENDS RedeemAddress
=============================================================================
