---------------------------- MODULE RedeemBalance ----------------------------
(***************************************************************************)
(* Redeeming a send_balance code (redeemSendBalance in redeem_code.ts).    *)
(* The mailbox is checked, its sender row is created with the default      *)
(* balance if it has none, and a transaction marks the code and adds its   *)
(* amount.  The three are separate database calls.                         *)
(***************************************************************************)
EXTENDS RedeemCodeTable, SenderTable

CONSTANT Req   \* the HTTP requests

(* SendBalanceRedeemResult *)
Result == [address: Addr, amount: Value]

ASSUME RedeemBalanceAssumption ==
    /\ Value \subseteq Nat \ {0}
    /\ None \notin CodeId \cup Addr \cup Result

VARIABLE req   \* the handlers' local state

redeemVars == <<codes, req>>

Idle == [pc |-> "idle", code |-> None, value |-> None, address |-> None]

ReqType ==
    [pc: {"idle", "check", "ensure", "redeem", "ok", "refused"},
     code: CodeId \cup {None}, value: Value \cup {None}, address: Addr \cup {None}]

RedeemInit == TableInit /\ req = [q \in Req |-> Idle]

Goto(q, pc) == req' = [req EXCEPT ![q].pc = pc]

(* The answer; what the handler knew is gone with it. *)
Stop(q, pc) == req' = [req EXCEPT ![q] = [Idle EXCEPT !.pc = pc]]

-----------------------------------------------------------------------------
(* getRedeemCodeForRedemption; a redeemed balance code is refused.  A      *)
(* request that was answered makes room for another.                       *)
Lookup(q, c, a) ==
    /\ req[q].pc \in {"idle", "ok", "refused"}
    /\ \/ /\ Live(codes[c]) /\ ~codes[c].redeemed
          /\ req' = [req EXCEPT ![q] = [@ EXCEPT !.pc = "check", !.code = c, !.address = a,
                                                 !.value = codes[c].value]]
       \/ /\ ~(Live(codes[c]) /\ ~codes[c].redeemed)
          /\ Stop(q, "refused")
    /\ UNCHANGED <<codes, senderVars>>

(* SELECT id FROM address WHERE name = ? *)
CheckAddress(q) ==
    /\ req[q].pc = "check"
    /\ IF req[q].address \in mailbox THEN Goto(q, "ensure") ELSE Stop(q, "refused")
    /\ UNCHANGED <<codes, senderVars>>

Ensure(q) ==
    /\ req[q].pc = "ensure"
    /\ sender' = WithDefault(req[q].address)
    /\ Goto(q, "redeem")
    /\ UNCHANGED <<codes, mailbox, managed>>

-----------------------------------------------------------------------------
(* The transaction's two statements, on the code's row, the sender row and *)
(* changes(): mark the code, then add the amount if that changed it.       *)
Mark(s, r) ==
    IF Claimable(s.row, r.amount)
    THEN [s EXCEPT !.row = Redeemed(@, r), !.changes = 1]
    ELSE [s EXCEPT !.changes = 0]

(* INSERT ... ON CONFLICT DO UPDATE SET balance = balance + ? *)
Raised(row, v) ==
    IF row = NoRow THEN [balance |-> v, enabled |-> TRUE]
                   ELSE [row EXCEPT !.balance = row.balance + v]

(* Mutant: the amount is added without asking for changes(). *)
CreditUnasked(s, v) == [s EXCEPT !.sender = Raised(s.sender, v)]

Credit(s, v) ==
    IF s.changes = 1 THEN [s EXCEPT !.sender = Raised(s.sender, v)]
                     ELSE [s EXCEPT !.changes = 0]

Committed(q) ==
    LET s == [row |-> codes[req[q].code], sender |-> sender[req[q].address], changes |-> 0]
    IN  Credit(Mark(s, [address |-> req[q].address, amount |-> req[q].value]), req[q].value)

Commit(q) ==
    /\ codes' = [codes EXCEPT ![req[q].code] = Committed(q).row]
    /\ sender' = [sender EXCEPT ![req[q].address] = Committed(q).sender]

(* The transaction.  The balance the answer shows is read afterwards. *)
Redeem(q) ==
    /\ req[q].pc = "redeem"
    /\ Commit(q)
    /\ IF Committed(q).changes = 1 THEN Stop(q, "ok") ELSE Stop(q, "refused")
    /\ UNCHANGED <<mailbox, managed>>

(* The request is cancelled, or a call throws: its write is lost, or it is *)
(* committed without the request learning of it.                           *)
Cancel(q) ==
    /\ req[q].pc \in {"check", "ensure", "redeem"}
    /\ Stop(q, "idle")
    /\ \/ UNCHANGED <<codes, sender>>
       \/ req[q].pc = "redeem" /\ Commit(q)
    /\ UNCHANGED <<mailbox, managed>>

RedeemNext ==
    \/ \E q \in Req, c \in CodeId, a \in Addr : Lookup(q, c, a)
    \/ \E q \in Req : CheckAddress(q) \/ Ensure(q) \/ Redeem(q) \/ Cancel(q)

AdminNext == TableNext /\ UNCHANGED <<req, senderVars>>

RedeemTypeOK == codes \in [CodeId -> RowType(Result)] /\ req \in [Req -> ReqType]

-----------------------------------------------------------------------------
(* The grant of a balance code: its amount, to a mailbox *)
GrantOf(c) ==
    IF codes[c].redeemed
    THEN [value |-> codes[c].result.amount, to |-> codes[c].result.address]
    ELSE None

Once == INSTANCE OneTimeGrant WITH
    Code <- CodeId, Holder <- Addr, Nothing <- None,
    offer <- [c \in CodeId |-> OfferOf(c)], grant <- [c \in CodeId |-> GrantOf(c)]
=============================================================================
