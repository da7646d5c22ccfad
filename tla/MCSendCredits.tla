---------------------------- MODULE MCSendCredits ----------------------------
(***************************************************************************)
(* SendCredits for TLC, with the limits off: MCSendMail checks those.      *)
(***************************************************************************)
EXTENDS SendCredits, TLC

MCLimit == [p \in Period |-> Off]

MCAdminBalance == {2}

Symmetry == Permutations(Req)
=============================================================================
