----------------------------- MODULE MCRedeemRole -----------------------------
(***************************************************************************)
(* RedeemRole for TLC: one users row at a time, its address spelled in one *)
(* of two ways; the row, its id and its role outlive one another.          *)
(***************************************************************************)
EXTENDS RedeemRole, TLC

MCFold == [e \in Email |-> CHOOSE f \in Email : TRUE]

Symmetry == Permutations(Req) \cup Permutations(CodeId)
=============================================================================
