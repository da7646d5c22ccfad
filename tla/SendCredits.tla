----------------------------- MODULE SendCredits -----------------------------
(***************************************************************************)
(* Redeeming credits and spending them at the same time: RedeemBalance and *)
(* SendMail share the table address_sender, with each other and with the   *)
(* admin.                                                                  *)
(***************************************************************************)
EXTENDS RedeemBalance, SendMail

vars == <<senderVars, redeemVars, sendVars>>

Init == SenderInit /\ RedeemInit /\ SendInit

Next ==
    \/ RedeemNext /\ UNCHANGED sendVars
    \/ AdminNext /\ UNCHANGED sendVars
    \/ SendNext /\ UNCHANGED redeemVars
    \/ SenderNext /\ UNCHANGED <<redeemVars, sendVars>>

Spec == Init /\ [][Next]_vars

-----------------------------------------------------------------------------
CreditsTypeOK == TypeOK /\ RedeemTypeOK

RedeemedTo(a) == {c \in CodeId : codes[c].redeemed /\ codes[c].result.address = a}

Charged(a) ==
    mailed[a] - unpaid[a] - Cardinality({j \in Job : Owing(j) /\ job[j].address = a})

(* As long as no admin edits or deletes it, a mailbox's balance is exactly *)
(* the default balance, given once, plus the amounts of the codes redeemed *)
(* to it, each added once, minus one for every mail it paid for; without a *)
(* sender row, it neither redeemed nor paid (redeem_code.ts:284-320,       *)
(* send_balance.ts:6-23, send_mail_api.ts:216-228).                        *)
BalanceAddsUp ==
    \A a \in Addr \ managed :
        LET credits == MapThenSumSet(LAMBDA c : codes[c].result.amount, RedeemedTo(a)) IN
        IF sender[a] = NoRow
        THEN RedeemedTo(a) = {} /\ Charged(a) = 0
        ELSE sender[a].balance = DefaultBalance + credits - Charged(a)

(* A mailbox that may not send gets no permission from redeeming, sending  *)
(* or opening its settings: only an admin enables it.  The guide:          *)
(* redemption "does not re-enable an address disabled by an administrator" *)
(* (redeem_code.ts:305-310, send_balance.ts:17-22).                        *)
OnlyAdminEnables ==
    [][\A a \in Addr :
        sender[a] # NoRow /\ sender'[a] # NoRow /\ ~sender[a].enabled /\ sender'[a].enabled
            => \E b \in AdminBalance : UpdateSender(a, b, TRUE)]_vars

(* A success that is reported, or not, to the redeemer is the code's one   *)
(* redemption, for its value at that instant.                              *)
ImplementsOneTimeGrant == Once!Spec
=============================================================================
