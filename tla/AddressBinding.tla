--------------------------- MODULE AddressBinding ---------------------------
(***************************************************************************)
(* Mailboxes and the users they are bound to (bind_address.ts), with the   *)
(* deletion of mailboxes (common.ts, admin address_api.ts) and of users    *)
(* (admin_user_api.ts).                                                    *)
(*                                                                         *)
(* Binding checks everything first and inserts last.  A transfer revokes   *)
(* the old credential by deleting the mailbox and creating it anew under   *)
(* the same name, then binds the new id to the target, all in separate     *)
(* database calls.  Each action below is one call, up to the next await.   *)
(* A handler whose call throws stops there, like one that is cancelled.    *)
(***************************************************************************)
EXTENDS Naturals, FiniteSets

CONSTANTS
    Task,         \* concurrent requests
    Name,         \* mailbox names
    MaxAddress,   \* bound on the address rows ever inserted
    MaxUserId,    \* bound on users.id
    Person,       \* who registers, each under an email of their own
    NoOne,        \* no person, no name
    MaxBound      \* maxAddressCount, 0 for no limit

UserId == 1..MaxUserId
AddressId == 1..MaxAddress

ASSUME AddressBindingAssumption ==
    /\ MaxAddress \in Nat /\ MaxUserId \in Nat /\ MaxBound \in Nat
    /\ IsFiniteSet(Task)
    /\ NoOne \notin Person \cup Name

VARIABLES
    address,   \* table address: id (AUTOINCREMENT) and name (UNIQUE)
    nextId,    \* the next id sqlite hands out
    users,     \* table users: who has an id
    bound,     \* table users_address, and for whom each row was made
    task,      \* the handlers' local state
    moved,     \* history: names a transfer deleted, until someone else deletes them
    cut        \* history: user ids whose deletion stopped halfway

vars == <<address, nextId, users, bound, task, moved, cut>>

AddressRow == [id: AddressId, name: Name]

Binding == [user: UserId, address: AddressId, owner: Person \cup {NoOne}]

(* own is history: the row a transfer inserted *)
Idle == [pc |-> "idle", user |-> 0, owner |-> NoOne, id |-> 0, name |-> NoOne,
         target |-> 0, own |-> 0]

TaskType ==
    [pc: {"idle", "user", "bound", "count", "insert", "unbindUser", "unbind",
          "sender", "target", "targetCount", "senderBound", "release", "remove", "recreate",
          "select", "handOver", "deleteBindings", "wipeBinding", "wipeAddress",
          "cleanAddresses"},
     user: 0..MaxUserId, owner: Person \cup {NoOne}, id: 0..MaxAddress,
     name: Name \cup {NoOne}, target: 0..MaxUserId, own: 0..MaxAddress]

Init ==
    /\ address = {}
    /\ nextId = 1
    /\ users = [i \in UserId |-> NoOne]
    /\ bound = {}
    /\ task = [t \in Task |-> Idle]
    /\ moved = {}
    /\ cut = {}

-----------------------------------------------------------------------------
Goto(t, pc) == task' = [task EXCEPT ![t].pc = pc]

Stop(t) == task' = [task EXCEPT ![t] = Idle]

(* A check that passes leads on to pc, one that fails ends the request. *)
Check(t, ok, pc) == IF ok THEN Goto(t, pc) ELSE Stop(t)

HasId(i) == \E a \in address : a.id = i
Taken(n) == \E a \in address : a.name = n
IsBound(u, i) == \E b \in bound : b.user = u /\ b.address = i
BoundTo(u) == {b \in bound : b.user = u}

(* Mutant: the comparison is off by one. *)
LimitPassed(u) == MaxBound > 0 /\ Cardinality(BoundTo(u)) > MaxBound

(* isAddressCountLimitReached *)
LimitReached(u) == MaxBound > 0 /\ Cardinality(BoundTo(u)) >= MaxBound

(* A handler other than a transfer deletes the mailboxes in S. *)
Discard(S) ==
    /\ address' = address \ S
    /\ moved' = moved \ {a.name : a \in S}

-----------------------------------------------------------------------------
(* bindByID, for a user (with a credential of mailbox i) or the admin; its *)
(* first check is that the mailbox exists. *)
StartBind(t, u, i) ==
    /\ task[t].pc = "idle"
    /\ HasId(i)
    /\ task' = [task EXCEPT ![t] = [Idle EXCEPT !.pc = "user", !.user = u, !.id = i]]
    /\ UNCHANGED <<address, nextId, users, bound, moved, cut>>

CheckUser(t) ==
    LET u == task[t].user IN
    /\ task[t].pc = "user"
    /\ IF users[u] = NoOne THEN Stop(t)
       ELSE task' = [task EXCEPT ![t] = [@ EXCEPT !.pc = "bound", !.owner = users[u]]]
    /\ UNCHANGED <<address, nextId, users, bound, moved, cut>>

(* Binding again what is bound succeeds without a change. *)
CheckBound(t) ==
    /\ task[t].pc = "bound"
    /\ Check(t, ~IsBound(task[t].user, task[t].id), "count")
    /\ UNCHANGED <<address, nextId, users, bound, moved, cut>>

CheckCount(t) ==
    /\ task[t].pc = "count"
    /\ Check(t, ~LimitReached(task[t].user), "insert")
    /\ UNCHANGED <<address, nextId, users, bound, moved, cut>>

(* INSERT INTO users_address, where address_id is UNIQUE.  The row's owner  *)
(* is whom the request had found under the user's id, NoOne when they no   *)
(* longer have it.                                                         *)
Bind(u, i, owner) ==
    bound' = IF \E b \in bound : b.address = i THEN bound
             ELSE bound \cup {[user |-> u, address |-> i,
                               owner |-> IF users[u] = owner THEN owner ELSE NoOne]}

InsertBinding(t) ==
    /\ task[t].pc = "insert"
    /\ Bind(task[t].user, task[t].id, task[t].owner)
    /\ Stop(t)
    /\ UNCHANGED <<address, nextId, users, moved, cut>>

(* unbind, likewise *)
StartUnbind(t, u, i) ==
    /\ task[t].pc = "idle"
    /\ HasId(i)
    /\ task' = [task EXCEPT ![t] = [Idle EXCEPT !.pc = "unbindUser", !.user = u, !.id = i]]
    /\ UNCHANGED <<address, nextId, users, bound, moved, cut>>

CheckUnbindUser(t) ==
    /\ task[t].pc = "unbindUser"
    /\ Check(t, users[task[t].user] # NoOne, "unbind")
    /\ UNCHANGED <<address, nextId, users, bound, moved, cut>>

Unbound(u, i) == {b \in bound : ~(b.user = u /\ b.address = i)}

Unbind(t) ==
    /\ task[t].pc = "unbind"
    /\ bound' = Unbound(task[t].user, task[t].id)
    /\ Stop(t)
    /\ UNCHANGED <<address, nextId, users, moved, cut>>

-----------------------------------------------------------------------------
(* transferAddress reads the mailbox's name, checks that the sender exists *)
(* and finds the target by email ...                                       *)
StartTransfer(t, u, a, p) ==
    /\ task[t].pc = "idle"
    /\ a \in address
    /\ task' = [task EXCEPT ![t] = [Idle EXCEPT !.pc = "sender", !.user = u, !.id = a.id,
                                                !.name = a.name, !.owner = p]]
    /\ UNCHANGED <<address, nextId, users, bound, moved, cut>>

CheckSender(t) ==
    /\ task[t].pc = "sender"
    /\ Check(t, users[task[t].user] # NoOne, "target")
    /\ UNCHANGED <<address, nextId, users, bound, moved, cut>>

FindTarget(t) ==
    /\ task[t].pc = "target"
    /\ \/ \E u \in UserId :
            /\ users[u] = task[t].owner
            /\ task' = [task EXCEPT ![t] = [@ EXCEPT !.pc = "targetCount", !.target = u]]
       \/ /\ \A u \in UserId : users[u] # task[t].owner
          /\ Stop(t)
    /\ UNCHANGED <<address, nextId, users, bound, moved, cut>>

CheckTargetCount(t) ==
    /\ task[t].pc = "targetCount"
    /\ Check(t, ~LimitReached(task[t].target), "senderBound")
    /\ UNCHANGED <<address, nextId, users, bound, moved, cut>>

CheckSenderBound(t) ==
    /\ task[t].pc = "senderBound"
    /\ Check(t, IsBound(task[t].user, task[t].id), "release")
    /\ UNCHANGED <<address, nextId, users, bound, moved, cut>>

(* ... unbinds the sender, deletes the mailbox ... *)
Release(t) ==
    /\ task[t].pc = "release"
    /\ bound' = Unbound(task[t].user, task[t].id)
    /\ Goto(t, "remove")
    /\ UNCHANGED <<address, nextId, users, moved, cut>>

(* Mutant: the target's count is checked when the mailbox is gone. *)
RemoveBeforeCount(t) ==
    /\ task[t].pc = "remove"
    /\ address' = {a \in address : a.id # task[t].id}
    /\ moved' = IF HasId(task[t].id) THEN moved \cup {task[t].name} ELSE moved
    /\ Check(t, ~LimitReached(task[t].target), "recreate")
    /\ UNCHANGED <<nextId, users, bound, cut>>

Remove(t) ==
    /\ task[t].pc = "remove"
    /\ address' = {a \in address : a.id # task[t].id}
    /\ moved' = IF HasId(task[t].id) THEN moved \cup {task[t].name} ELSE moved
    /\ Goto(t, "recreate")
    /\ UNCHANGED <<nextId, users, bound, cut>>

(* ... creates it again, unless the name was taken since, and reads the    *)
(* new id by name ...                                                      *)
Recreate(t) ==
    LET n == task[t].name IN
    /\ task[t].pc = "recreate"
    /\ \/ /\ Taken(n)
          /\ Stop(t)
          /\ UNCHANGED <<address, nextId>>
       \/ /\ ~Taken(n)
          /\ nextId <= MaxAddress
          /\ address' = address \cup {[id |-> nextId, name |-> n]}
          /\ nextId' = nextId + 1
          /\ task' = [task EXCEPT ![t] = [@ EXCEPT !.pc = "select", !.own = nextId]]
    /\ UNCHANGED <<users, bound, moved, cut>>

(* Mutants: the largest id is taken for the new one; a missing one is not  *)
(* noticed.                                                                *)
SelectLastId(t) ==
    /\ task[t].pc = "select"
    /\ \E a \in address :
            /\ \A b \in address : b.id <= a.id
            /\ task' = [task EXCEPT ![t] = [@ EXCEPT !.pc = "handOver", !.id = a.id]]
    /\ UNCHANGED <<address, nextId, users, bound, moved, cut>>

SelectNewId(t) ==
    /\ task[t].pc = "select"
    /\ \/ \E a \in address :
            /\ a.name = task[t].name
            /\ task' = [task EXCEPT ![t] = [@ EXCEPT !.pc = "handOver", !.id = a.id]]
       \/ /\ ~Taken(task[t].name)
          /\ Stop(t)
    /\ UNCHANGED <<address, nextId, users, bound, moved, cut>>

(* ... and binds the target. *)
HandOver(t) ==
    /\ task[t].pc = "handOver"
    /\ Bind(task[t].target, task[t].id, task[t].owner)
    /\ Stop(t)
    /\ UNCHANGED <<address, nextId, users, moved, cut>>

-----------------------------------------------------------------------------
(* newAddress, as one step: RedeemAddress has its details. *)
CreateAddress(n) ==
    /\ ~Taken(n)
    /\ nextId <= MaxAddress
    /\ address' = address \cup {[id |-> nextId, name |-> n]}
    /\ nextId' = nextId + 1
    /\ UNCHANGED <<users, bound, task, moved, cut>>

(* admin deleteAddress: one transaction *)
AdminDelete(i) ==
    /\ bound' = {b \in bound : b.address # i}
    /\ Discard({a \in address : a.id = i})
    /\ UNCHANGED <<nextId, users, task, cut>>

(* deleteAddressWithData, with a credential that was valid: the bindings   *)
(* of the id, later the mailbox of that name                               *)
StartWipe(t, a) ==
    /\ task[t].pc = "idle"
    /\ a \in address
    /\ task' = [task EXCEPT ![t] = [Idle EXCEPT !.pc = "wipeBinding", !.id = a.id,
                                                !.name = a.name]]
    /\ UNCHANGED <<address, nextId, users, bound, moved, cut>>

WipeBinding(t) ==
    /\ task[t].pc = "wipeBinding"
    /\ bound' = {b \in bound : b.address # task[t].id}
    /\ task' = [task EXCEPT ![t] = [Idle EXCEPT !.pc = "wipeAddress", !.name = task[t].name]]
    /\ UNCHANGED <<address, nextId, users, moved, cut>>

WipeAddress(t) ==
    /\ task[t].pc = "wipeAddress"
    /\ Discard({a \in address : a.name = task[t].name})
    /\ Stop(t)
    /\ UNCHANGED <<nextId, users, bound, cut>>

(* batchDeleteAddressWithData evaluates its condition in each statement;   *)
(* age, activity and mails make it any set.                                *)
StartCleanup(t, S) ==
    /\ task[t].pc = "idle"
    /\ bound' = {b \in bound : \A a \in S : b.address # a.id}
    /\ task' = [task EXCEPT ![t] = [Idle EXCEPT !.pc = "cleanAddresses"]]
    /\ UNCHANGED <<address, nextId, users, moved, cut>>

CleanAddresses(t, S) ==
    /\ task[t].pc = "cleanAddresses"
    /\ Discard(S)
    /\ Stop(t)
    /\ UNCHANGED <<nextId, users, bound, cut>>

-----------------------------------------------------------------------------
(* A new users row takes one more than the largest id in use (the id is    *)
(* not AUTOINCREMENT), so the id of a deleted user can come back.          *)
Register(i, p) ==
    /\ users[i] = NoOne
    /\ \A j \in UserId : users[j] # p /\ (j > i => users[j] = NoOne)
    /\ i # 1 => users[i - 1] # NoOne
    /\ users' = [users EXCEPT ![i] = p]
    /\ UNCHANGED <<address, nextId, bound, task, moved, cut>>

(* Mutant: the bindings are left behind. *)
DeleteUserOnly(t, i) ==
    /\ task[t].pc = "idle"
    /\ users' = [users EXCEPT ![i] = NoOne]
    /\ UNCHANGED <<address, nextId, bound, task, moved, cut>>

(* admin deleteUser: the users row, then its bindings *)
StartDeleteUser(t, i) ==
    /\ task[t].pc = "idle"
    /\ users' = [users EXCEPT ![i] = NoOne]
    /\ task' = [task EXCEPT ![t] = [Idle EXCEPT !.pc = "deleteBindings", !.user = i]]
    /\ UNCHANGED <<address, nextId, bound, moved, cut>>

DeleteBindings(t) ==
    /\ task[t].pc = "deleteBindings"
    /\ bound' = bound \ BoundTo(task[t].user)
    /\ Stop(t)
    /\ UNCHANGED <<address, nextId, users, moved, cut>>

-----------------------------------------------------------------------------
(* The request is cancelled at an await, or its next call throws.  A call  *)
(* that was committed before it throws is that call followed by this.      *)
Cancel(t) ==
    /\ task[t].pc # "idle"
    /\ moved' = IF task[t].pc = "recreate" THEN moved \ {task[t].name} ELSE moved
    /\ cut' = IF task[t].pc = "deleteBindings" THEN cut \cup {task[t].user} ELSE cut
    /\ Stop(t)
    /\ UNCHANGED <<address, nextId, users, bound>>

Start(t) ==
    \/ \E u \in UserId, i \in AddressId : StartBind(t, u, i) \/ StartUnbind(t, u, i)
    \/ \E u \in UserId, a \in address, p \in Person : StartTransfer(t, u, a, p)
    \/ \E a \in address : StartWipe(t, a)
    \/ \E S \in SUBSET address : StartCleanup(t, S)
    \/ \E u \in UserId : StartDeleteUser(t, u)

Step(t) ==
    \/ CheckUser(t) \/ CheckBound(t) \/ CheckCount(t) \/ InsertBinding(t)
    \/ CheckUnbindUser(t) \/ Unbind(t)
    \/ CheckSender(t) \/ FindTarget(t) \/ CheckTargetCount(t) \/ CheckSenderBound(t)
    \/ Release(t) \/ Remove(t) \/ Recreate(t) \/ SelectNewId(t) \/ HandOver(t)
    \/ WipeBinding(t) \/ WipeAddress(t) \/ DeleteBindings(t)
    \/ \E S \in SUBSET address : CleanAddresses(t, S)

Next ==
    \/ \E t \in Task : Start(t) \/ Step(t) \/ Cancel(t)
    \/ \E n \in Name : CreateAddress(n)
    \/ \E i \in AddressId : AdminDelete(i)
    \/ \E i \in UserId, p \in Person : Register(i, p)

Spec == Init /\ [][Next]_vars

-----------------------------------------------------------------------------
TypeOK ==
    /\ address \subseteq AddressRow
    /\ nextId \in Nat
    /\ users \in [UserId -> Person \cup {NoOne}]
    /\ bound \subseteq Binding
    /\ task \in [Task -> TaskType]
    /\ moved \subseteq Name
    /\ cut \subseteq UserId

(* Concurrent binds and transfers pass the count check together and exceed *)
(* the user's maximum, but by no more than the requests beyond the first   *)
(* (bind_address.ts:58-67, 222-268).                                       *)
QuotaOvershootBounded ==
    MaxBound > 0 => \A u \in UserId :
        Cardinality(BoundTo(u)) <= MaxBound + (Cardinality(Task) - 1)

(* A transfer hands over the mailbox it created: what it read by name is   *)
(* another row only if its own was deleted meanwhile                       *)
(* (bind_address.ts:245-268).                                              *)
TransferHandsOverOwn ==
    \A t \in Task : task[t].pc = "handOver" => task[t].id = task[t].own \/ ~HasId(task[t].own)

(* A transfer does not lose the mailbox: a name it deleted exists again,   *)
(* or is about to, unless the transfer was cut short in between or some    *)
(* other handler deleted the name (bind_address.ts:245-255).               *)
TransferKeepsName ==
    \A n \in moved :
        Taken(n) \/ \E t \in Task : task[t].pc = "recreate" /\ task[t].name = n

(* Ids of users come back, but bindings do not come with them: a user has  *)
(* only bindings made for them, except while the deletion of the previous  *)
(* user of the id is under way, when it was cut short, and for a request   *)
(* that had found the previous user before (admin_user_api.ts:103-108).    *)
NoInheritance ==
    \A b \in bound : users[b.user] \notin {NoOne, b.owner} =>
        \/ b.owner = NoOne
        \/ b.user \in cut
        \/ \E t \in Task : task[t].pc = "deleteBindings" /\ task[t].user = b.user
=============================================================================
