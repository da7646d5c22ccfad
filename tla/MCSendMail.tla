------------------------------ MODULE MCSendMail ------------------------------
(***************************************************************************)
(* SendMail for TLC: a daily limit of one mail, months that are counted    *)
(* but not limited.                                                        *)
(***************************************************************************)
EXTENDS SendMail, TLC

MCLimit == [p \in Period |-> IF p = "daily" THEN 1 ELSE Unlimited]

MCAdminBalance == {0}

Symmetry == Permutations(Job)
=============================================================================
