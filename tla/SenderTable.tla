----------------------------- MODULE SenderTable -----------------------------
(***************************************************************************)
(* The table address_sender, which holds what each mailbox may still send, *)
(* and the handlers that write it besides sending and redeeming            *)
(* (send_balance.ts, address_sender_api.ts, the deletion of a mailbox).    *)
(* RedeemBalance and SendMail extend this module.                          *)
(***************************************************************************)
EXTENDS Integers

CONSTANTS
    Addr,             \* mailbox names
    DefaultBalance,   \* DEFAULT_SEND_BALANCE
    AdminBalance,     \* the balances an admin may set
    NoRow             \* no address_sender row

ASSUME SenderAssumption ==
    /\ DefaultBalance \in Nat
    /\ AdminBalance \subseteq Int
    /\ NoRow \notin [balance: Int, enabled: BOOLEAN]

VARIABLES
    mailbox,   \* table address: the names in use
    sender,    \* table address_sender
    managed    \* history: mailboxes whose row an admin or a deletion handled

senderVars == <<mailbox, sender, managed>>

SenderRow == [balance: Int, enabled: BOOLEAN]

SenderInit ==
    /\ mailbox = {}
    /\ sender = [a \in Addr |-> NoRow]
    /\ managed = {}

-----------------------------------------------------------------------------
(* INSERT ... ON CONFLICT DO NOTHING *)
Inserted(a, row) == IF sender[a] = NoRow THEN [sender EXCEPT ![a] = row] ELSE sender

(* Mutant: ON CONFLICT DO UPDATE SET enabled = 1 *)
WithDefaultEnabling(a) ==
    IF sender[a] = NoRow
    THEN Inserted(a, [balance |-> DefaultBalance, enabled |-> TRUE])
    ELSE [sender EXCEPT ![a].enabled = TRUE]

(* ensureDefaultSendBalance *)
WithDefault(a) ==
    IF DefaultBalance > 0
    THEN Inserted(a, [balance |-> DefaultBalance, enabled |-> TRUE])
    ELSE sender

(* Mutant: a balance of zero still pays. *)
MayPayNothing(a) == sender[a] # NoRow /\ sender[a].enabled /\ sender[a].balance >= 0

(* getEnabledSendBalance, compared with what a send needs *)
MayPay(a) == sender[a] # NoRow /\ sender[a].enabled /\ sender[a].balance > 0

-----------------------------------------------------------------------------
CreateMailbox(a) ==
    /\ a \notin mailbox
    /\ mailbox' = mailbox \cup {a}
    /\ UNCHANGED <<sender, managed>>

(* The admin's deletion is one transaction; the others delete the sender   *)
(* row first, like RemoveSender, and the mailbox in a later call.          *)
DeleteMailbox(a) ==
    /\ a \in mailbox
    /\ mailbox' = mailbox \ {a}
    /\ \/ sender' = [sender EXCEPT ![a] = NoRow]
       \/ UNCHANGED sender
    /\ managed' = managed \cup {a}

(* The mailbox's settings are read: the default balance appears. *)
OpenSettings(a) ==
    /\ a \in mailbox
    /\ sender' = WithDefault(a)
    /\ UNCHANGED <<mailbox, managed>>

(* requestSendMailAccess: without a default balance, a row that waits for  *)
(* an admin to enable it                                                   *)
RequestAccess(a) ==
    /\ a \in mailbox
    /\ sender' = IF DefaultBalance > 0 THEN WithDefault(a)
                 ELSE Inserted(a, [balance |-> DefaultBalance, enabled |-> FALSE])
    /\ UNCHANGED <<mailbox, managed>>

(* admin update: both columns are overwritten with what the admin saw *)
UpdateSender(a, b, on) ==
    /\ sender[a] # NoRow
    /\ sender' = [sender EXCEPT ![a] = [balance |-> b, enabled |-> on]]
    /\ managed' = managed \cup {a}
    /\ UNCHANGED mailbox

(* admin remove, and the statement of a deletion that removes the row *)
RemoveSender(a) ==
    /\ sender[a] # NoRow
    /\ sender' = [sender EXCEPT ![a] = NoRow]
    /\ managed' = managed \cup {a}
    /\ UNCHANGED mailbox

SenderNext ==
    \E a \in Addr :
        \/ CreateMailbox(a) \/ DeleteMailbox(a)
        \/ OpenSettings(a) \/ RequestAccess(a)
        \/ \E b \in AdminBalance, on \in BOOLEAN : UpdateSender(a, b, on)
        \/ RemoveSender(a)

SenderTypeOK ==
    /\ mailbox \subseteq Addr
    /\ sender \in [Addr -> SenderRow \cup {NoRow}]
    /\ managed \subseteq Addr
=============================================================================
