--------------------------- MODULE TelegramBinding ---------------------------
(***************************************************************************)
(* Mailboxes bound to Telegram chats (telegram_api/common.ts).  A binding  *)
(* is two values of the key-value store: the chat's list of tokens, which  *)
(* says what the chat may open and unbind, and the mailbox's entry, which  *)
(* says where its mails are pushed.  The list is read, changed and written *)
(* back; nothing holds the two together.  Each action is one call of the   *)
(* store or the database, up to the next await.                            *)
(*                                                                         *)
(* The order of a list means nothing to the code; its length does, and the *)
(* same token may be in it twice: copy tells those apart.                  *)
(***************************************************************************)
EXTENDS Naturals, FiniteSets

CONSTANTS
    Task,          \* concurrent requests
    Chat,          \* Telegram users
    Name,          \* mailbox names
    MaxAddress,    \* bound on the address rows ever inserted
    MaxBound,      \* TG_MAX_ADDRESS
    MaxFail,       \* bound on validations that fail though the token is valid
    Nothing           \* no chat, no name, no entry

AddressId == 1..MaxAddress
Address == [id: AddressId, name: Name]
ChatToken == [id: AddressId, name: Name, copy: 1..MaxBound]

(* id is history: the mailbox the entry was made for.  excused is history:  *)
(* see NoStalePush.                                                         *)
Entry == [chat: Chat, id: AddressId, excused: BOOLEAN]

ASSUME TelegramBindingAssumption ==
    /\ MaxAddress \in Nat /\ MaxBound \in Nat /\ MaxFail \in Nat
    /\ Nothing \notin Chat \cup Name \cup Entry

VARIABLES
    address,   \* table address: id (AUTOINCREMENT) and name (UNIQUE)
    nextId,    \* the next id sqlite hands out
    list,      \* TG_KV_PREFIX:<chat>, a JSON list of tokens
    entry,     \* TG_KV_PREFIX:<address>, the chat mails are pushed to
    task,      \* the handlers' local state
    fails,     \* how many validations failed
    upset      \* history: chats whose two values may disagree, see PushedIsListed

chatVars == <<address, nextId, list, entry, task, fails, upset>>

(* seen is the list as the request read it; then is what follows when the  *)
(* chat has been unbound.                                                  *)
NoTask == [pc |-> "idle", chat |-> Nothing, id |-> 0, name |-> Nothing, seen |-> {}, then |-> "idle"]

TaskType ==
    [pc: {"idle", "bindRead", "bindCheck", "newRead", "create", "putList", "putEntry",
          "unbindRead", "unbindCheck", "find", "read", "filter", "owner", "drop",
          "deleteName", "deleteId", "cleanRead", "cleanCheck"},
     chat: Chat \cup {Nothing}, id: 0..MaxAddress, name: Name \cup {Nothing},
     seen: SUBSET ChatToken, then: {"idle", "deleteName", "deleteId"}]

ChatInit ==
    /\ address = {}
    /\ nextId = 1
    /\ list = [u \in Chat |-> {}]
    /\ entry = [n \in Name |-> Nothing]
    /\ task = [t \in Task |-> NoTask]
    /\ fails = 0
    /\ upset = {}

-----------------------------------------------------------------------------
Taken(n) == \E a \in address : a.name = n
Of(token) == [id |-> token.id, name |-> token.name]
Listed(u, a) == \E token \in list[u] : Of(token) = a

GoOn(t, pc) == task' = [task EXCEPT ![t].pc = pc]
Stop(t) == task' = [task EXCEPT ![t] = NoTask]
BeginTask(t, r) == task[t].pc = "idle" /\ task' = [task EXCEPT ![t] = r]

(* Read the chat's list and go on to pc. *)
Read(t, from, pc) ==
    /\ task[t].pc = from
    /\ task' = [task EXCEPT ![t] = [@ EXCEPT !.pc = pc, !.seen = list[task[t].chat]]]
    /\ UNCHANGED <<address, nextId, list, entry, fails, upset>>

(* verifyTelegramBindingToken of every token in seen, each a query.  A query *)
(* that fails makes its token as good as invalid.                            *)
Valid(t, V) ==
    LET valid == {token \in task[t].seen : Of(token) \in address} IN
    /\ V \subseteq valid
    /\ V = valid \/ fails < MaxFail
    /\ fails' = IF V = valid THEN fails ELSE fails + 1

(* put of the whole list, whatever became of it since it was read *)
Put(t, l) ==
    /\ list' = [list EXCEPT ![task[t].chat] = l]
    /\ upset' = IF list[task[t].chat] = task[t].seen THEN upset ELSE upset \cup {task[t].chat}

(* A request is unbinding or deleting name n. *)
Leaving(n) ==
    \E t \in Task : task[t].name = n
                 /\ task[t].pc \in {"read", "filter", "owner", "drop", "deleteName", "deleteId"}

-----------------------------------------------------------------------------
(* bindTelegramAddress: the credential is checked first. *)
StartBind(t, u, a) ==
    /\ BeginTask(t, [NoTask EXCEPT !.pc = "bindRead", !.chat = u, !.id = a.id, !.name = a.name])
    /\ UNCHANGED <<address, nextId, list, entry, fails, upset>>

BindRead(t) == Read(t, "bindRead", "bindCheck")

(* Mutant: the comparison is off by one. *)
FullPassed(l) == Cardinality(l) > MaxBound

Full(l) == Cardinality(l) >= MaxBound

(* Mutant: a token that is listed is taken for valid. *)
BindCheckByName(t) ==
    /\ task[t].pc = "bindCheck"
    /\ IF \E token \in task[t].seen : token.name = task[t].name
       THEN GoOn(t, "putEntry")
       ELSE IF Full(task[t].seen) THEN Stop(t)
       ELSE GoOn(t, "putList")
    /\ UNCHANGED <<address, nextId, list, entry, fails, upset>>

(* A mailbox that is listed only has its entry written again. *)
BindCheck(t) ==
    /\ task[t].pc = "bindCheck"
    /\ \E V \in SUBSET task[t].seen :
          /\ Valid(t, V)
          /\ IF \E token \in V : token.name = task[t].name THEN GoOn(t, "putEntry")
             ELSE IF Full(task[t].seen) THEN Stop(t)
             ELSE GoOn(t, "putList")
    /\ UNCHANGED <<address, nextId, list, entry, upset>>

PutList(t) ==
    /\ task[t].pc = "putList"
    /\ \E token \in ChatToken \ task[t].seen :
          LET l == task[t].seen \cup {token} IN
          /\ token.id = task[t].id /\ token.name = task[t].name
          /\ Put(t, l)
          /\ task' = [task EXCEPT ![t] = [@ EXCEPT !.pc = "putEntry", !.seen = l]]
    /\ UNCHANGED <<address, nextId, entry, fails>>

PutEntry(t) ==
    LET r == task[t] IN
    /\ r.pc = "putEntry"
    /\ entry' = [entry EXCEPT ![r.name] =
           [chat |-> r.chat, id |-> r.id,
            excused |-> [id |-> r.id, name |-> r.name] \notin address \/ Leaving(r.name)]]
    /\ upset' = IF list[r.chat] = r.seen THEN upset ELSE upset \cup {r.chat}
    /\ Stop(t)
    /\ UNCHANGED <<address, nextId, list, fails>>

(* tgUserNewAddress *)
StartNew(t, u, n) ==
    /\ BeginTask(t, [NoTask EXCEPT !.pc = "newRead", !.chat = u, !.name = n])
    /\ UNCHANGED <<address, nextId, list, entry, fails, upset>>

NewRead(t) ==
    /\ task[t].pc = "newRead"
    /\ \/ ~Full(list[task[t].chat]) /\ Read(t, "newRead", "create")
       \/ /\ Full(list[task[t].chat])
          /\ Stop(t)
          /\ UNCHANGED <<address, nextId, list, entry, fails, upset>>

Insert(n) ==
    /\ nextId <= MaxAddress
    /\ address' = address \cup {[id |-> nextId, name |-> n]}
    /\ nextId' = nextId + 1

NewAddress(t) ==
    /\ task[t].pc = "create"
    /\ IF Taken(task[t].name) THEN Stop(t) /\ UNCHANGED <<address, nextId>>
       ELSE /\ Insert(task[t].name)
            /\ task' = [task EXCEPT ![t] = [@ EXCEPT !.pc = "putList", !.id = nextId]]
    /\ UNCHANGED <<list, entry, fails, upset>>

-----------------------------------------------------------------------------
(* unbindTelegramAddress: the chat must hold a valid token of the name. *)
StartUnbind(t, u, n) ==
    /\ BeginTask(t, [NoTask EXCEPT !.pc = "unbindRead", !.chat = u, !.name = n])
    /\ UNCHANGED <<address, nextId, list, entry, fails, upset>>

UnbindRead(t) == Read(t, "unbindRead", "unbindCheck")

UnbindCheck(t) ==
    /\ task[t].pc = "unbindCheck"
    /\ \E V \in SUBSET task[t].seen :
          /\ Valid(t, V)
          /\ IF \E token \in V : token.name = task[t].name THEN GoOn(t, "filter") ELSE Stop(t)
    /\ UNCHANGED <<address, nextId, list, entry, upset>>

(* Mutant: the deletion does not unbind. *)
StartDeleteOnly(t, a, by) ==
    /\ BeginTask(t, [NoTask EXCEPT !.pc = by, !.id = a.id, !.name = a.name, !.then = by])
    /\ UNCHANGED <<address, nextId, list, entry, fails, upset>>

(* unbindTelegramByAddress, by which the owner's and the admin's deletion   *)
(* and a transfer begin: it unbinds the chat that gets the pushes.          *)
StartDelete(t, a, by) ==
    /\ BeginTask(t, [NoTask EXCEPT !.pc = "find", !.id = a.id, !.name = a.name, !.then = by])
    /\ UNCHANGED <<address, nextId, list, entry, fails, upset>>

(* What follows when the chat has been unbound *)
Proceed(t) == IF task[t].then = "idle" THEN Stop(t) ELSE GoOn(t, task[t].then)

FindChat(t) ==
    /\ task[t].pc = "find"
    /\ IF entry[task[t].name] = Nothing THEN Proceed(t)
       ELSE task' = [task EXCEPT ![t] = [@ EXCEPT !.pc = "read", !.chat = entry[task[t].name].chat]]
    /\ UNCHANGED <<address, nextId, list, entry, fails, upset>>

ReadTokens(t) == Read(t, "read", "filter")

(* removeTelegramBinding: all tokens of the name, then the entry if it is *)
(* still this chat's                                                      *)
FilterList(t) ==
    /\ task[t].pc = "filter"
    /\ Put(t, {token \in task[t].seen : token.name # task[t].name})
    /\ GoOn(t, "owner")
    /\ UNCHANGED <<address, nextId, entry, fails>>

(* Mutant: the entry is deleted whoever's it is. *)
ReadAnyOwner(t) ==
    /\ task[t].pc = "owner"
    /\ GoOn(t, "drop")
    /\ UNCHANGED <<address, nextId, list, entry, fails, upset>>

ReadOwner(t) ==
    LET e == entry[task[t].name] IN
    /\ task[t].pc = "owner"
    /\ IF e # Nothing /\ e.chat = task[t].chat THEN GoOn(t, "drop") ELSE Proceed(t)
    /\ UNCHANGED <<address, nextId, list, entry, fails, upset>>

DropEntry(t) ==
    /\ task[t].pc = "drop"
    /\ entry' = [entry EXCEPT ![task[t].name] = Nothing]
    /\ Proceed(t)
    /\ UNCHANGED <<address, nextId, list, fails, upset>>

(* The mailbox itself: by name in deleteAddressWithData, by id for the  *)
(* admin and a transfer                                                 *)
Delete(t) ==
    /\ task[t].pc \in {"deleteName", "deleteId"}
    /\ address' = {a \in address : IF task[t].pc = "deleteName" THEN a.name # task[t].name
                                                              ELSE a.id # task[t].id}
    /\ Stop(t)
    /\ UNCHANGED <<nextId, list, entry, fails, upset>>

-----------------------------------------------------------------------------
(* The command /cleaninvalidaddress: tokens that do not validate are      *)
(* dropped, entries stay.                                                 *)
StartClean(t, u) ==
    /\ BeginTask(t, [NoTask EXCEPT !.pc = "cleanRead", !.chat = u])
    /\ UNCHANGED <<address, nextId, list, entry, fails, upset>>

CleanRead(t) == Read(t, "cleanRead", "cleanCheck")

CleanPut(t) ==
    /\ task[t].pc = "cleanCheck"
    /\ \E V \in SUBSET task[t].seen :
          /\ Valid(t, V)
          /\ list' = [list EXCEPT ![task[t].chat] = V]
          /\ upset' = IF list[task[t].chat] = task[t].seen /\ fails' = fails THEN upset
                      ELSE upset \cup {task[t].chat}
    /\ Stop(t)
    /\ UNCHANGED <<address, nextId, entry>>

(* Mailboxes come and go without the chats: newAddress of other handlers,  *)
(* and the batch cleanup, which leaves list and entry as they are.         *)
CreateElsewhere(n) ==
    /\ ~Taken(n)
    /\ Insert(n)
    /\ UNCHANGED <<list, entry, task, fails, upset>>

BatchCleanup(a) ==
    /\ address' = address \ {a}
    /\ entry' = IF entry[a.name] = Nothing THEN entry
                ELSE [entry EXCEPT ![a.name].excused = TRUE]
    /\ UNCHANGED <<nextId, list, task, fails, upset>>

(* A request that is cancelled, or whose call throws, stops where it is. *)
CancelTask(t) ==
    /\ task[t].pc # "idle"
    /\ upset' = IF task[t].pc \in {"owner", "drop"} THEN upset \cup {task[t].chat} ELSE upset
    /\ Stop(t)
    /\ UNCHANGED <<address, nextId, list, entry, fails>>

-----------------------------------------------------------------------------
TaskStep(t) ==
    \/ BindRead(t) \/ BindCheck(t) \/ NewRead(t) \/ NewAddress(t) \/ PutList(t) \/ PutEntry(t)
    \/ UnbindRead(t) \/ UnbindCheck(t) \/ FindChat(t) \/ ReadTokens(t) \/ FilterList(t)
    \/ ReadOwner(t) \/ DropEntry(t) \/ Delete(t) \/ CleanRead(t) \/ CleanPut(t)

Start(t) ==
    \/ \E a \in address, by \in {"deleteName", "deleteId"} : StartDelete(t, a, by)
    \/ \E u \in Chat :
          \/ StartClean(t, u)
          \/ \E a \in address : StartBind(t, u, a)
          \/ \E n \in Name : StartNew(t, u, n) \/ StartUnbind(t, u, n)

ChatNext ==
    \/ \E t \in Task : TaskStep(t) \/ Start(t) \/ CancelTask(t)
    \/ \E n \in Name : CreateElsewhere(n)
    \/ \E a \in address : BatchCleanup(a)

ChatSpec == ChatInit /\ [][ChatNext]_chatVars

-----------------------------------------------------------------------------
(* Types, and the quota: a list never grows beyond the maximum, because a  *)
(* request writes back the list it has counted: where concurrent binds     *)
(* overshoot the quota of users (bind_address.ts:60), here one of them is  *)
(* lost (common.ts:101-116).                                               *)
ChatTypeOK ==
    /\ address \subseteq Address
    /\ nextId \in 1..(MaxAddress + 1)
    /\ list \in [Chat -> SUBSET ChatToken]
    /\ \A u \in Chat : Cardinality(list[u]) <= MaxBound
    /\ entry \in [Name -> Entry \cup {Nothing}]
    /\ task \in [Task -> TaskType]
    /\ fails \in 0..MaxFail
    /\ upset \subseteq Chat

(* When a name is taken again, its mails are not pushed to a chat that was  *)
(* bound to an earlier mailbox of the name.  Except where the entry was     *)
(* written while the mailbox was being unbound or was gone already, and     *)
(* where the batch cleanup deleted the mailbox, which unbinds nothing       *)
(* (common.ts:157-166, telegram.ts:478; worker common.ts:593-622).          *)
NoStalePush ==
    \A a \in address :
        entry[a.name] # Nothing => entry[a.name].id = a.id \/ entry[a.name].excused

(* Who gets the pushes of a mailbox that exists has it on their list, and   *)
(* can therefore unbind it.  Except while an unbinding is between the two,  *)
(* and for chats whose list was written by a request that had read an older *)
(* one, whose unbinding was cut short, or whose tokens could not be         *)
(* validated when invalid ones were dropped (common.ts:86-155).             *)
PushedIsListed ==
    \A n \in Name :
        entry[n] # Nothing =>
            LET e == entry[n]
                mailbox == [id |-> e.id, name |-> n]
            IN
            \/ mailbox \notin address \/ Listed(e.chat, mailbox) \/ e.chat \in upset
            \/ \E t \in Task : /\ task[t].pc \in {"owner", "drop"}
                               /\ task[t].chat = e.chat /\ task[t].name = n

(* Unbinding one chat does not silence another that has bound the mailbox   *)
(* since, unless that happened while the unbinding was under way            *)
(* (common.ts:129-139).                                                     *)
OwnerKept ==
    [][\A n \in Name :
          entry[n] # Nothing /\ entry'[n] = Nothing =>
              entry[n].excused
              \/ \E t \in Task : /\ task[t].pc = "drop" /\ task'[t].pc # "drop"
                                 /\ task[t].chat = entry[n].chat /\ task[t].name = n]_chatVars
=============================================================================
