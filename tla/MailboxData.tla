----------------------------- MODULE MailboxData -----------------------------
(***************************************************************************)
(* A mailbox and the rows that belong to it: mails, balance, sent mails,   *)
(* binding and auto-reply.  All of them but the binding are kept under the *)
(* mailbox's name, which somebody else may take once the mailbox is gone:  *)
(* a row that is left behind is then theirs.                               *)
(*                                                                         *)
(* There are three ways to delete a mailbox with its data: call by call    *)
(* (deleteAddressWithData), in one transaction (the admin), and by a       *)
(* condition that every statement evaluates again                          *)
(* (batchDeleteAddressWithData).  Each action is one database call.        *)
(***************************************************************************)
EXTENDS Naturals, Sequences, FiniteSets

CONSTANTS
    Task,          \* concurrent requests and scheduled runs
    Name,          \* mailbox names
    CleanType,     \* the cleanups that are configured
    MaxAddress,    \* bound on the address rows ever inserted
    MaxRow,        \* bound on the rows of data
    NoName         \* no name

AddressId == 1..MaxAddress

ASSUME MailboxDataAssumption ==
    /\ MaxAddress \in Nat /\ MaxRow \in Nat
    /\ CleanType \subseteq {"addressCreated", "inactiveAddress", "unboundAddress", "emptyAddress"}
    /\ NoName \notin Name

Kind == {"raw_mails", "address_sender", "sendbox", "users_address", "auto_reply_mails"}

VARIABLES
    address,   \* table address: id (AUTOINCREMENT) and name (UNIQUE)
    nextId,    \* the next id sqlite hands out
    rows,      \* the five tables of data
    task       \* the handlers' local state

vars == <<address, nextId, rows, task>>

(* old and idle: created_at and updated_at are before the days that the *)
(* cleanup keeps                                                        *)
AddressRow == [id: AddressId, name: Name, old: BOOLEAN, idle: BOOLEAN]

(* holder is history: the mailbox the row was made for, 0 when the name had *)
(* none.  excused is history: it may outlive its holder, see NoOrphans.     *)
(* Rows that agree in all of this count as one.                             *)
DataRow == [kind: Kind, name: Name, holder: 0..MaxAddress, excused: BOOLEAN]

(* all is history: the mailboxes that every statement of a cleanup matched *)
Idle == [pc |-> "idle", id |-> 0, name |-> NoName, step |-> 0, all |-> {}]

TaskType ==
    [pc: {"idle", "wipe"} \cup Kind \cup CleanType, id: 0..MaxAddress, name: Name \cup {NoName},
     step: 0..6, all: SUBSET AddressId]

Init ==
    /\ address = {}
    /\ nextId = 1
    /\ rows = {}
    /\ task = [t \in Task |-> Idle]

-----------------------------------------------------------------------------
HasId(i) == \E a \in address : a.id = i
Owns(i, n) == \E a \in address : a.id = i /\ a.name = n
Taken(n) == \E a \in address : a.name = n
Has(k, i) == \E r \in rows : r.kind = k /\ r.holder = i
Under(k, n) == {r \in rows : r.kind = k /\ r.name = n}

(* Mutant: the mailbox goes before what hangs on it. *)
WipeAddressEarly ==
    <<"raw_mails", "address_sender", "address", "sendbox", "users_address", "auto_reply_mails">>

(* The statements of the two deletions, in their order *)
WipeOrder ==
    <<"raw_mails", "address_sender", "sendbox", "users_address", "auto_reply_mails", "address">>

CleanOrder ==
    <<"raw_mails", "sendbox", "auto_reply_mails", "address_sender", "users_address", "address">>

Order(t) == IF task[t].pc = "wipe" THEN WipeOrder ELSE CleanOrder
Deleting(t) == task[t].pc \in {"wipe"} \cup CleanType
Through(t, k) == \E s \in 1..(task[t].step - 1) : Order(t)[s] = k

(* A deletion that would take mailbox i, called n, has been through k. *)
Passed(k, n, i) ==
    \E t \in Task :
        /\ Deleting(t) /\ Through(t, k)
        /\ task[t].pc = "wipe" => n = task[t].name /\ (k = "users_address" => i = task[t].id)

Row(k, n, i) ==
    [kind |-> k, name |-> n, holder |-> i, excused |-> ~HasId(i) \/ Passed(k, n, i)]

Add(r) ==
    /\ r \in rows \/ Cardinality(rows) < MaxRow
    /\ rows' = rows \cup {r}

(* address_sender.address and users_address.address_id are UNIQUE. *)
Conflicts(r) ==
    \/ r.kind = "address_sender" /\ Under(r.kind, r.name) # {}
    \/ r.kind = "users_address" /\ Has(r.kind, r.holder)

(* INSERT OR REPLACE *)
Replace(r) ==
    /\ Under(r.kind, r.name) # {} \/ Cardinality(rows) < MaxRow
    /\ rows' = (rows \ Under(r.kind, r.name)) \cup {r}

(* What a statement that deletes kind k removes, for the mailboxes in S *)
OfMailboxes(k, S) ==
    {r \in rows : r.kind = k /\ IF k = "users_address" THEN \E a \in S : r.holder = a.id
                                ELSE \E a \in S : r.name = a.name}

-----------------------------------------------------------------------------
(* The life of a mailbox: newAddress, and the clock *)
CreateAddress(n) ==
    /\ ~Taken(n) /\ nextId <= MaxAddress
    /\ address' = address \cup {[id |-> nextId, name |-> n, old |-> FALSE, idle |-> FALSE]}
    /\ nextId' = nextId + 1
    /\ UNCHANGED <<rows, task>>

Becomes(a, b) ==
    /\ address' = (address \ {a}) \cup {b}
    /\ UNCHANGED <<nextId, rows, task>>

GrowOld(a) == Becomes(a, [a EXCEPT !.old = TRUE])
GrowIdle(a) == Becomes(a, [a EXCEPT !.idle = TRUE])

(* updateAddressUpdatedAt, by name and after the answer *)
Touch(a) == Becomes(a, [a EXCEPT !.idle = FALSE])

(* The rows of the mailboxes in S may stay. *)
Excuse(K, S) ==
    {IF r.kind \in K /\ r.holder \in S THEN [r EXCEPT !.excused = TRUE] ELSE r : r \in rows}

(* transferAddress, and a redemption that undoes what it created, delete *)
(* the mailbox's row and leave its data to whoever has the name next.    *)
RemoveRowOnly(a) ==
    /\ address' = address \ {a}
    /\ rows' = Excuse(Kind, {a.id})
    /\ UNCHANGED <<nextId, task>>

-----------------------------------------------------------------------------
(* What adds data.  A mail is stored whether or not its name has a mailbox. *)
ReceiveMail(n) ==
    /\ \/ ~Taken(n) /\ Add(Row("raw_mails", n, 0))
       \/ \E a \in address : a.name = n /\ Add(Row("raw_mails", n, a.id))
    /\ UNCHANGED <<address, nextId, task>>

(* validateAddressPayload: the credential's id and name are one mailbox's;  *)
(* the handler behind it goes on with the credential alone.                 *)
Admit(t, i, n, pc) ==
    /\ task[t].pc = "idle"
    /\ Owns(i, n)
    /\ task' = [task EXCEPT ![t] =
           [Idle EXCEPT !.pc = pc, !.id = i, !.name = n, !.step = IF pc = "wipe" THEN 1 ELSE 0]]
    /\ UNCHANGED <<address, nextId, rows>>

(* The handlers of a credential that write: the first balance (conflicts do *)
(* nothing), a mail that was sent, the binding (the id is unique), and the  *)
(* auto-reply, which replaces.                                              *)
Write(t) ==
    LET k == task[t].pc
        r == Row(k, task[t].name, task[t].id)
    IN
    /\ k \in Kind
    /\ IF k = "auto_reply_mails" THEN Replace(r)
       ELSE IF Conflicts(r) THEN UNCHANGED rows
       ELSE Add(r)
    /\ task' = [task EXCEPT ![t] = Idle]
    /\ UNCHANGED <<address, nextId>>

-----------------------------------------------------------------------------
(* What deletes data and leaves the mailbox: one statement each. *)
DeleteMails(n) ==
    /\ rows' = rows \ Under("raw_mails", n)
    /\ UNCHANGED <<address, nextId, task>>

DeleteSent(n) ==
    /\ rows' = rows \ Under("sendbox", n)
    /\ UNCHANGED <<address, nextId, task>>

RemoveSender(n) ==
    /\ rows' = rows \ Under("address_sender", n)
    /\ UNCHANGED <<address, nextId, task>>

Unbind(i) ==
    /\ rows' = {r \in rows : ~(r.kind = "users_address" /\ r.holder = i)}
    /\ UNCHANGED <<address, nextId, task>>

(* The scheduled cleanup of mails to names that nobody has; those of old    *)
(* mails and of old sent mails do no more than DeleteMails and DeleteSent.  *)
CleanUnknown ==
    /\ rows' = {r \in rows : r.kind = "raw_mails" => Taken(r.name)}
    /\ UNCHANGED <<address, nextId, task>>

-----------------------------------------------------------------------------
(* deleteAddressWithData: five tables by name or id, then the mailbox by    *)
(* name.  If the name is another mailbox's by now, that one goes and leaves *)
(* the binding of its own id.                                               *)
Wipe(t) ==
    LET k == WipeOrder[task[t].step]
        gone == {a \in address : a.name = task[t].name}
    IN
    /\ task[t].pc = "wipe"
    /\ IF k = "address"
       THEN /\ address' = address \ gone
            /\ rows' = Excuse({"users_address"}, {a.id : a \in gone} \ {task[t].id})
       ELSE /\ rows' = {r \in rows : ~(/\ r.kind = k
                                     /\ IF k = "users_address" THEN r.holder = task[t].id
                                                                ELSE r.name = task[t].name)}
            /\ UNCHANGED address
    /\ task' = [task EXCEPT ![t] =
           IF task[t].step = 6 THEN Idle ELSE [task[t] EXCEPT !.step = task[t].step + 1]]
    /\ UNCHANGED nextId

(* The admin's deleteAddress, one transaction *)
AdminDelete(a) ==
    /\ rows' = rows \ UNION {OfMailboxes(k, {a}) : k \in Kind}
    /\ address' = address \ {a}
    /\ UNCHANGED <<nextId, task>>

StartCleanup(t, c) ==
    /\ task[t].pc = "idle"
    /\ task' = [task EXCEPT ![t] = [Idle EXCEPT !.pc = c, !.step = 1, !.all = AddressId]]
    /\ UNCHANGED <<address, nextId, rows>>

(* Mutant: what matched the first statement is deleted by the last. *)
MatchingAtFirst(t) ==
    LET c == task[t].pc IN
    IF task[t].step # 1 THEN {a \in address : a.id \in task[t].all}
    ELSE {a \in address :
             /\ IF c = "inactiveAddress" THEN a.idle ELSE a.old
             /\ c = "unboundAddress" => ~Has("users_address", a.id)
             /\ c = "emptyAddress" => Under("raw_mails", a.name) = {}}

(* The condition of a cleanup, as each statement finds it; a batch that is *)
(* limited takes the oldest mailboxes first.                               *)
Matching(t) ==
    LET c == task[t].pc IN
    {a \in address :
        /\ IF c = "inactiveAddress" THEN a.idle ELSE a.old
        /\ c = "unboundAddress" => ~Has("users_address", a.id)
        /\ c = "emptyAddress" => Under("raw_mails", a.name) = {}}

(* batchDeleteAddressWithData *)
Clean(t) ==
    LET k == CleanOrder[task[t].step]
        hit == Matching(t)
    IN
    /\ task[t].pc \in CleanType
    /\ IF k = "address"
       THEN /\ address' = address \ hit
            /\ rows' = Excuse(Kind, {a.id : a \in hit} \ task[t].all)
            /\ task' = [task EXCEPT ![t] = Idle]
       ELSE /\ rows' = rows \ OfMailboxes(k, hit)
            /\ task' = [task EXCEPT ![t] =
                   [task[t] EXCEPT !.step = task[t].step + 1,
                                   !.all = task[t].all \cap {a.id : a \in hit}]]
            /\ UNCHANGED address
    /\ UNCHANGED nextId

(* A request that is cancelled, or whose call throws, stops where it is. *)
Cancel(t) ==
    /\ task[t].pc # "idle"
    /\ task' = [task EXCEPT ![t] = Idle]
    /\ UNCHANGED <<address, nextId, rows>>

-----------------------------------------------------------------------------
Step(t) == Write(t) \/ Wipe(t) \/ Clean(t)

Next ==
    \/ \E n \in Name :
          CreateAddress(n) \/ ReceiveMail(n) \/ DeleteMails(n) \/ DeleteSent(n) \/ RemoveSender(n)
    \/ \E i \in AddressId : Unbind(i)
    \/ \E a \in address :
          GrowOld(a) \/ GrowIdle(a) \/ Touch(a) \/ RemoveRowOnly(a) \/ AdminDelete(a)
    \/ CleanUnknown
    \/ \E t \in Task :
          \/ Step(t) \/ Cancel(t)
          \/ \E c \in CleanType : StartCleanup(t, c)
          \/ \E i \in AddressId, n \in Name, pc \in (Kind \ {"raw_mails"}) \cup {"wipe"} :
                Admit(t, i, n, pc)

Spec == Init /\ [][Next]_vars

-----------------------------------------------------------------------------
TypeOK ==
    /\ address \subseteq AddressRow
    /\ nextId \in 1..(MaxAddress + 1)
    /\ rows \subseteq DataRow
    /\ task \in [Task -> TaskType]

(* A mailbox leaves nothing to the next one of its name, although its data  *)
(* is deleted statement by statement and may be written between them.       *)
(* Except what came when the mailbox was gone or its deletion had been      *)
(* through that table, what a transfer keeps on purpose, the binding of a   *)
(* mailbox that somebody else's deletion took for its own name, and the     *)
(* data of a mailbox that began to match while a cleanup was under way      *)
(* (common.ts:587-676).                                                     *)
NoOrphans == \A r \in rows : r.holder # 0 /\ ~HasId(r.holder) => r.excused

(* A cleanup of unbound mailboxes never takes a mailbox that is bound, and  *)
(* one of empty mailboxes none that has a mail, even if it was bound or got *)
(* the mail since the cleanup began (common.ts:527-590).                    *)
CleanupSparesUsed ==
    [][\A t \in Task : \A a \in address \ address' :
          task[t].step = 6 /\ task'[t].pc = "idle" =>
             /\ task[t].pc = "unboundAddress" => ~Has("users_address", a.id)
             /\ task[t].pc = "emptyAddress" => Under("raw_mails", a.name) = {}]_vars
=============================================================================
