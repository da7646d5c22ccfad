---------------------------- MODULE OneTimeGrant ----------------------------
(***************************************************************************)
(* What a redemption code promises, independent of what it grants: while   *)
(* it is on offer it can be turned into a grant, once, of exactly what was *)
(* on offer at that instant; afterwards the grant never changes, whatever  *)
(* happens to the code.  RedeemRole, RedeemBalance and RedeemAddress each  *)
(* implement this specification.                                           *)
(***************************************************************************)
CONSTANTS
    Code,     \* the codes
    Value,    \* what a code can be worth: a role, an amount, a prefix
    Holder,   \* who or what receives the grant
    Nothing   \* no offer, no grant

VARIABLES
    offer,    \* offer[c]: the value redeeming c now would give, or Nothing
    grant     \* grant[c]: what c was turned into, or Nothing

Grants == [value: Value, to: Holder]

TypeOK ==
    /\ offer \in [Code -> Value \cup {Nothing}]
    /\ grant \in [Code -> Grants \cup {Nothing}]

Init ==
    /\ offer = [c \in Code |-> Nothing]
    /\ grant = [c \in Code |-> Nothing]

(* The issuer offers, reprices or withdraws codes; a granted code can only *)
(* be withdrawn.                                                           *)
Manage ==
    /\ offer' \in [Code -> Value \cup {Nothing}]
    /\ \A c \in Code : grant[c] # Nothing => offer'[c] \in {offer[c], Nothing}
    /\ UNCHANGED grant

(* A code on offer is turned into its one grant. *)
Grant(c, h) ==
    /\ offer[c] # Nothing
    /\ grant[c] = Nothing
    /\ grant' = [grant EXCEPT ![c] = [value |-> offer[c], to |-> h]]
    /\ UNCHANGED offer

Next == Manage \/ \E c \in Code, h \in Holder : Grant(c, h)

Spec == Init /\ [][Next]_<<offer, grant>>
=============================================================================
