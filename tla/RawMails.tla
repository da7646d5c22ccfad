------------------------------ MODULE RawMails ------------------------------
(***************************************************************************)
(* Table raw_mails, with the handlers that read and write it besides the   *)
(* receiving of mail.                                                      *)
(*                                                                         *)
(* raw_mails.id is INTEGER PRIMARY KEY without AUTOINCREMENT: a new row    *)
(* gets the largest id in the table plus one, so the id of a row that was  *)
(* the last one comes back after its deletion.  serial tells rows apart    *)
(* that had the same id; it is in insertion order, like created_at.        *)
(*                                                                         *)
(* Which names have a mailbox is left open: here it decides only what      *)
(* CleanUnknown deletes.                                                   *)
(***************************************************************************)
EXTENDS Naturals, FiniteSets

CONSTANTS
    Name,      \* mailbox names under the system's domains
    Msg,       \* messages from outside, each with a Message-ID of its own
    None,      \* the Message-ID of a mail of the system itself
    MaxMail    \* bound on the rows ever inserted

ASSUME RawMailsAssumption == MaxMail \in Nat /\ None \notin Msg

VARIABLES
    mails,     \* table raw_mails
    stored     \* history: how many rows were ever inserted

tableVars == <<mails, stored>>

Serial == 1..MaxMail

TableInit ==
    /\ mails = {}
    /\ stored = 0

-----------------------------------------------------------------------------
Serials(S) == {m.serial : m \in S}

Inbox(n) == {m \in mails : m.address = n}

NextId == IF mails = {} THEN 1
          ELSE 1 + (CHOOSE i \in Serial :
                       /\ \E m \in mails : m.id = i
                       /\ \A m \in mails : m.id <= i)

(* storeRawMail; meta is the serial of the mail whose extracted code or    *)
(* link the row shows.                                                     *)
Insert(n, msg) ==
    /\ stored < MaxMail
    /\ stored' = stored + 1
    /\ mails' = mails \cup
           {[id |-> NextId, serial |-> stored + 1, address |-> n, msg |-> msg, meta |-> 0]}

(* The mails in S that are not newer than one of them *)
Oldest(S) == {{m \in S : m.serial <= last.serial} : last \in S}

Discard(S) ==
    /\ S # {}
    /\ mails' = mails \ S
    /\ UNCHANGED stored

(* sendAdminInternalMail, when the admin edits a balance *)
SendAdminInternalMail(n) == Insert(n, None)

(* By the mailbox, by a user it is bound to, or by the admin: the ones that *)
(* may delete the mail differ, what happens does not.                      *)
DeleteMail(m) == Discard({m})

(* By the mailbox or the admin, or with the mailbox: deleteAddressWithData, *)
(* the admin's deletion of one and the cleanup of several                  *)
ClearInbox(N) == Discard({m \in mails : m.address \in N})

(* The nightly cleanup of mails by age, some of the oldest up to the batch *)
(* size: of any address, or only of those in N, which have no mailbox      *)
CleanMails == \E S \in Oldest(mails) : Discard(S)

CleanUnknown(N) == \E S \in Oldest({m \in mails : m.address \in N}) : Discard(S)

Housekeeping ==
    \/ \E n \in Name : SendAdminInternalMail(n)
    \/ \E m \in mails : DeleteMail(m)
    \/ \E N \in SUBSET Name : ClearInbox(N) \/ CleanUnknown(N)
    \/ CleanMails
=============================================================================
