-------------------------- MODULE MailboxDataProofs --------------------------
(***************************************************************************)
(* MailboxData for any number of requests, mailboxes and rows: a deleted   *)
(* mailbox leaves nothing to its successor but what is excused, however    *)
(* the statements of deletions and cleanups interleave with what adds data.*)
(***************************************************************************)
EXTENDS MailboxData, TLAPS

(* Ids were handed out before, and belong to one name. *)
AddressOK ==
    \A a \in address : a.id < nextId /\ \A b \in address : a.id = b.id => a.name = b.name

(* A row keeps the name of the mailbox it was made for. *)
RowOK ==
    \A r \in rows :
        /\ r.holder < nextId
        /\ \A a \in address : a.id = r.holder => a.name = r.name

(* So does a request, and requests for one mailbox agree on it. *)
TaskOK ==
    \A t \in Task :
        /\ task[t].id < nextId
        /\ Deleting(t) => task[t].step \in 1..6
        /\ task[t].pc \in Kind => task[t].id # 0 /\ task[t].name \in Name
        /\ task[t].id # 0 =>
              /\ \A a \in address : a.id = task[t].id => a.name = task[t].name
              /\ \A u \in Task : task[u].id = task[t].id => task[u].name = task[t].name

(* The rows that a deletion will not delete any more, although they would  *)
(* be its mailbox's: those of a table it has been through.                 *)
Hit(t, r) ==
    IF task[t].pc = "wipe"
    THEN IF r.kind = "users_address" THEN r.holder = task[t].id ELSE r.name = task[t].name
    ELSE r.holder \in task[t].all

(* They are all excused. *)
Covered(t) ==
    Deleting(t) => \A r \in rows : Through(t, r.kind) /\ Hit(t, r) => r.excused

IInv ==
    /\ TypeOK /\ AddressOK /\ RowOK /\ TaskOK
    /\ \A t \in Task : Covered(t)
    /\ NoOrphans

-----------------------------------------------------------------------------
LEMMA IdleType ==
    /\ Idle \in TaskType /\ Idle.pc = "idle" /\ Idle.id = 0
    /\ "idle" \notin {"wipe"} \cup CleanType /\ "idle" \notin Kind
    /\ "wipe" \notin CleanType /\ "wipe" \notin Kind
    /\ Kind \cap CleanType = {}
<1>1. Idle \in TaskType /\ Idle.pc = "idle" /\ Idle.id = 0
  BY MailboxDataAssumption DEF Idle, TaskType
<1>2. /\ "idle" \notin {"wipe"} \cup CleanType /\ "idle" \notin Kind
      /\ "wipe" \notin CleanType /\ "wipe" \notin Kind
      /\ Kind \cap CleanType = {}
  BY MailboxDataAssumption DEF Kind
<1> QED
  BY <1>1, <1>2

(* Both deletions go through the five tables and end with the mailbox. *)
LEMMA Orders ==
    /\ WipeOrder[6] = "address" /\ CleanOrder[6] = "address"
    /\ \A s \in 1..5 : WipeOrder[s] \in Kind /\ CleanOrder[s] \in Kind
    /\ \A k \in Kind : (\E s \in 1..5 : WipeOrder[s] = k) /\ \E s \in 1..5 : CleanOrder[s] = k
    /\ "address" \notin Kind
<1>1. /\ WipeOrder[1] = "raw_mails" /\ WipeOrder[2] = "address_sender" /\ WipeOrder[3] = "sendbox"
      /\ WipeOrder[4] = "users_address" /\ WipeOrder[5] = "auto_reply_mails"
      /\ WipeOrder[6] = "address"
  BY DEF WipeOrder
<1>2. /\ CleanOrder[1] = "raw_mails" /\ CleanOrder[2] = "sendbox"
      /\ CleanOrder[3] = "auto_reply_mails" /\ CleanOrder[4] = "address_sender"
      /\ CleanOrder[5] = "users_address" /\ CleanOrder[6] = "address"
  BY DEF CleanOrder
<1>3. \A s \in 1..5 : s = 1 \/ s = 2 \/ s = 3 \/ s = 4 \/ s = 5
  OBVIOUS
<1>4. 1 \in 1..5 /\ 2 \in 1..5 /\ 3 \in 1..5 /\ 4 \in 1..5 /\ 5 \in 1..5
  OBVIOUS
<1>5. \A s \in 1..5 : WipeOrder[s] \in Kind /\ CleanOrder[s] \in Kind
  BY <1>1, <1>2, <1>3 DEF Kind
<1>6. \A k \in Kind : (\E s \in 1..5 : WipeOrder[s] = k) /\ \E s \in 1..5 : CleanOrder[s] = k
  BY <1>1, <1>2, <1>4 DEF Kind
<1> QED
  BY <1>1, <1>2, <1>5, <1>6 DEF Kind

LEMMA InvInit == Init => IInv
<1> SUFFICES ASSUME Init PROVE IInv
  OBVIOUS
<1>1. TypeOK
  BY IdleType, MailboxDataAssumption DEF Init, TypeOK
<1>2. \A t \in Task : ~Deleting(t)
  BY IdleType DEF Init, Deleting
<1> QED
  BY <1>1, <1>2, IdleType DEF Init, IInv, AddressOK, RowOK, TaskOK, Covered, NoOrphans

-----------------------------------------------------------------------------
(* Rows only go, or become excused ... *)
Fades ==
    \A r \in rows' : \E s \in rows :
        /\ s.kind = r.kind /\ s.name = r.name /\ s.holder = r.holder
        /\ s.excused => r.excused

(* ... and mailboxes only go, or grow older; those that go leave nothing.  *)
Clears ==
    /\ \A b \in address' : \E a \in address : a.id = b.id /\ a.name = b.name
    /\ \A r \in rows' : r.holder # 0 /\ HasId(r.holder) => HasId(r.holder)' \/ r.excused

LEMMA TablesKept ==
    ASSUME IInv, Fades, Clears, UNCHANGED nextId
    PROVE  AddressOK' /\ RowOK' /\ NoOrphans'
<1>1. AddressOK'
  BY DEF IInv, AddressOK, Clears
<1>2. RowOK'
  BY DEF IInv, RowOK, Clears, Fades
<1>3. NoOrphans'
  <2> SUFFICES ASSUME NEW r \in rows', r.holder # 0, ~HasId(r.holder)' PROVE r.excused
    BY DEF NoOrphans
  <2>1. PICK s \in rows : s.holder = r.holder /\ (s.excused => r.excused)
    BY DEF Fades
  <2>2. CASE HasId(r.holder)
    BY <2>2 DEF Clears
  <2>3. CASE ~HasId(r.holder)
    BY <2>1, <2>3 DEF IInv, NoOrphans
  <2> QED
    BY <2>2, <2>3
<1> QED
  BY <1>1, <1>2, <1>3

(* The deletions of others are covered as before. *)
LEMMA OthersCovered ==
    ASSUME IInv, Fades, NEW t \in Task, task'[t] = task[t]
    PROVE  Covered(t)'
<1> SUFFICES ASSUME Deleting(t)', NEW r \in rows', Through(t, r.kind)', Hit(t, r)' PROVE r.excused
  BY DEF Covered
<1>1. Deleting(t)
  BY DEF Deleting
<1>2. PICK s \in rows : /\ s.kind = r.kind /\ s.name = r.name /\ s.holder = r.holder
                        /\ s.excused => r.excused
  BY DEF Fades
<1>3. Through(t, s.kind)
  BY <1>2 DEF Through, Order
<1>4. Hit(t, s)
  BY <1>2 DEF Hit
<1> QED
  BY <1>1, <1>2, <1>3, <1>4 DEF IInv, Covered

(* The requests in T keep their mailbox or let go of it, and the others do *)
(* nothing.                                                                *)
Moves(T) ==
    /\ \A t \in Task \ T : task'[t] = task[t]
    /\ \A t \in T :
          /\ task'[t].id \in {0, task[t].id}
          /\ task'[t].id # 0 => task'[t].name = task[t].name
          /\ Deleting(t)' => task'[t].step \in 1..6
          /\ task'[t].pc \in Kind => task'[t].id # 0 /\ task'[t].name \in Name

LEMMA TasksKept ==
    ASSUME IInv, UNCHANGED nextId, NEW T \in SUBSET Task, Moves(T),
           \A b \in address' : \E a \in address : a.id = b.id /\ a.name = b.name
    PROVE  TaskOK'
<1>0. nextId \in Nat /\ 0 < nextId
  BY MailboxDataAssumption DEF IInv, TypeOK
<1>1. ASSUME NEW t \in Task
      PROVE  /\ task'[t].id \in {0, task[t].id}
             /\ task'[t].id # 0 => task'[t].name = task[t].name
             /\ Deleting(t)' => task'[t].step \in 1..6
             /\ task'[t].pc \in Kind => task'[t].id # 0 /\ task'[t].name \in Name
  BY DEF IInv, TaskOK, Deleting, Moves
<1> QED
  BY <1>0, <1>1 DEF IInv, TaskOK

(* What only removes and ages keeps the invariant, if the deletions that *)
(* made a step are covered.                                              *)
LEMMA Preserved ==
    ASSUME IInv, TypeOK', UNCHANGED nextId, NEW T \in SUBSET Task, Moves(T), Fades, Clears,
           \A t \in T : Covered(t)'
    PROVE  IInv'
<1>1. AddressOK' /\ RowOK' /\ NoOrphans'
  BY TablesKept
<1>2. TaskOK'
  BY TasksKept DEF Clears
<1>3. ASSUME NEW t \in Task PROVE Covered(t)'
  <2>1. CASE t \in T
    BY <2>1
  <2>2. CASE t \notin T
    BY <2>2, OthersCovered DEF Moves
  <2> QED
    BY <2>1, <2>2
<1> QED
  BY <1>1, <1>2, <1>3 DEF IInv

(* One statement of a request that keeps no state *)
LEMMA QuietStep ==
    ASSUME IInv, UNCHANGED <<nextId, task>>, address' \subseteq AddressRow, rows' \subseteq DataRow,
           Fades, Clears
    PROVE  IInv'
<1>1. TypeOK'
  BY DEF IInv, TypeOK
<1>2. Moves({})
  BY DEF Moves
<1> QED
  BY <1>1, <1>2, Preserved

(* The last statement of a request *)
LEMMA LastStep ==
    ASSUME IInv, UNCHANGED nextId, address' \subseteq AddressRow, rows' \subseteq DataRow,
           NEW t \in Task, task' = [task EXCEPT ![t] = Idle], Fades, Clears
    PROVE  IInv'
<1>1. TypeOK'
  BY IdleType DEF IInv, TypeOK
<1>2. task'[t] = Idle /\ \A u \in Task \ {t} : task'[u] = task[u]
  BY DEF IInv, TypeOK
<1>3. ~Deleting(t)'
  BY <1>2, IdleType DEF Deleting
<1>4. Moves({t})
  BY <1>2, <1>3, IdleType DEF Moves
<1>5. Covered(t)'
  BY <1>3 DEF Covered
<1> QED
  BY <1>1, <1>4, <1>5, Preserved

(* A statement that only removes rows *)
LEMMA Removes ==
    ASSUME IInv, rows' \subseteq rows, UNCHANGED <<address, nextId, task>>
    PROVE  IInv'
<1>1. Fades /\ Clears
  BY DEF Fades, Clears, HasId
<1>2. address' \subseteq AddressRow /\ rows' \subseteq DataRow
  BY DEF IInv, TypeOK
<1> QED
  BY <1>1, <1>2, QuietStep

(* A mailbox grows old, idle, or active again. *)
LEMMA Ages ==
    ASSUME IInv, NEW a \in address, NEW b \in AddressRow, b.id = a.id, b.name = a.name,
           Becomes(a, b)
    PROVE  IInv'
<1>1. \A c \in address' : \E d \in address : d.id = c.id /\ d.name = c.name
  BY DEF Becomes
<1>2. \A i : HasId(i) => HasId(i)'
  BY DEF Becomes, HasId
<1>3. Fades /\ Clears
  BY <1>1, <1>2 DEF Fades, Clears, Becomes
<1>4. address' \subseteq AddressRow /\ rows' \subseteq DataRow
  BY DEF IInv, TypeOK, Becomes
<1> QED
  BY <1>3, <1>4, QuietStep DEF Becomes

(* What Excuse does to the rows *)
LEMMA ExcuseEffect ==
    ASSUME IInv, NEW K, NEW S, rows' = Excuse(K, S)
    PROVE  /\ Fades /\ rows' \subseteq DataRow
           /\ \A r \in rows' : r.kind \in K /\ r.holder \in S => r.excused
<1>1. ASSUME NEW r \in rows'
      PROVE  /\ r \in DataRow
             /\ r.kind \in K /\ r.holder \in S => r.excused
             /\ \E s \in rows : /\ s.kind = r.kind /\ s.name = r.name /\ s.holder = r.holder
                                /\ s.excused => r.excused
  <2>1. PICK s \in rows :
             r = IF s.kind \in K /\ s.holder \in S THEN [s EXCEPT !.excused = TRUE] ELSE s
    BY DEF Excuse
  <2>2. s \in DataRow
    BY DEF IInv, TypeOK
  <2>3. CASE s.kind \in K /\ s.holder \in S
    <3>1. r = [s EXCEPT !.excused = TRUE]
      BY <2>1, <2>3
    <3>2. /\ r \in DataRow /\ r.excused
          /\ s.kind = r.kind /\ s.name = r.name /\ s.holder = r.holder
      BY <2>2, <3>1 DEF DataRow
    <3> QED
      BY <3>2
  <2>4. CASE ~(s.kind \in K /\ s.holder \in S)
    BY <2>1, <2>2, <2>4
  <2> QED
    BY <2>3, <2>4
<1> QED
  BY <1>1 DEF Fades

-----------------------------------------------------------------------------
LEMMA RowOnlyRemoved ==
    ASSUME IInv, NEW a \in address, RemoveRowOnly(a)
    PROVE  IInv'
<1>1. /\ Fades /\ rows' \subseteq DataRow
      /\ \A r \in rows' : r.kind \in Kind /\ r.holder = a.id => r.excused
  BY ExcuseEffect DEF RemoveRowOnly
<1>2. \A i : HasId(i) => HasId(i)' \/ i = a.id
  BY DEF RemoveRowOnly, HasId
<1>3. \A r \in rows' : r.kind \in Kind
  BY <1>1 DEF DataRow
<1>4. Clears
  BY <1>1, <1>2, <1>3 DEF RemoveRowOnly, Clears
<1>5. address' \subseteq AddressRow
  BY DEF RemoveRowOnly, IInv, TypeOK
<1> QED
  BY <1>1, <1>4, <1>5, QuietStep DEF RemoveRowOnly

LEMMA AdminDeleted ==
    ASSUME IInv, NEW a \in address, AdminDelete(a)
    PROVE  IInv'
<1>1. rows' \subseteq rows /\ address' \subseteq address
  BY DEF AdminDelete
<1>2. Fades
  BY <1>1 DEF Fades
<1>3. \A i : HasId(i) => HasId(i)' \/ i = a.id
  BY DEF AdminDelete, HasId
<1>4. ASSUME NEW r \in rows' PROVE r.holder # a.id
  <2>1. SUFFICES ASSUME r.holder = a.id PROVE FALSE
    OBVIOUS
  <2>2. r \in rows /\ r.kind \in Kind /\ r.name = a.name
    BY <1>1, <2>1 DEF IInv, TypeOK, DataRow, RowOK
  <2>3. r \in OfMailboxes(r.kind, {a})
    BY <2>1, <2>2 DEF OfMailboxes
  <2> QED
    BY <2>2, <2>3 DEF AdminDelete
<1>5. Clears
  BY <1>1, <1>3, <1>4 DEF Clears
<1>6. address' \subseteq AddressRow /\ rows' \subseteq DataRow
  BY <1>1 DEF IInv, TypeOK
<1> QED
  BY <1>2, <1>5, <1>6, QuietStep DEF AdminDelete

(* A new id belongs to no row and to no request. *)
LEMMA AddressCreated ==
    ASSUME IInv, NEW n \in Name, CreateAddress(n)
    PROVE  IInv'
<1>1. PICK b : b = [id |-> nextId, name |-> n, old |-> FALSE, idle |-> FALSE]
  OBVIOUS
<1>2. nextId \in Nat /\ nextId \in AddressId /\ MaxAddress \in Nat
  BY MailboxDataAssumption DEF IInv, TypeOK, CreateAddress, AddressId
<1>3. b \in AddressRow /\ b.id = nextId
  BY <1>1, <1>2 DEF AddressRow
<1>4. address' = address \cup {b} /\ nextId' = nextId + 1 /\ rows' = rows /\ task' = task
  BY <1>1 DEF CreateAddress
<1>5. /\ \A a \in address : a.id \in Nat
      /\ \A r \in rows : r.holder \in Nat
      /\ \A t \in Task : task[t].id \in Nat
  BY <1>2 DEF IInv, TypeOK, AddressRow, AddressId, DataRow, TaskType
<1>6. TypeOK'
  BY <1>2, <1>3, <1>4 DEF IInv, TypeOK, AddressId
<1>7. AddressOK'
  BY <1>2, <1>3, <1>4, <1>5 DEF IInv, AddressOK
<1>8. RowOK'
  BY <1>2, <1>3, <1>4, <1>5 DEF IInv, RowOK
<1>9. TaskOK'
  <2> SUFFICES ASSUME NEW t \in Task
               PROVE  /\ task[t].id < nextId'
                      /\ \A a \in address' : task[t].id # 0 /\ a.id = task[t].id => a.name = task[t].name
    BY <1>4 DEF IInv, TaskOK, Deleting
  <2>1. task[t].id < nextId
    BY DEF IInv, TaskOK
  <2> QED
    BY <1>2, <1>3, <1>4, <1>5, <2>1 DEF IInv, TaskOK
<1>10. \A t \in Task : Covered(t)'
  BY <1>4 DEF IInv, Covered, Deleting, Through, Order, Hit
<1>11. NoOrphans'
  BY <1>4 DEF IInv, NoOrphans, HasId
<1> QED
  BY <1>6, <1>7, <1>8, <1>9, <1>10, <1>11 DEF IInv

(* A new row is excused where it has to be: if its mailbox is gone, or a   *)
(* deletion has been through its table.                                    *)
LEMMA RowAdded ==
    ASSUME IInv, NEW k \in Kind, NEW n \in Name, NEW i \in 0..MaxAddress,
           k = "users_address" => i # 0,
           i < nextId, \A a \in address : a.id = i => a.name = n,
           \A t \in Task : task[t].id = i /\ i # 0 => task[t].name = n,
           rows' \subseteq rows \cup {Row(k, n, i)},
           UNCHANGED <<address, nextId>>,
           task' \in [Task -> TaskType], \A t \in Task : task'[t] \in {task[t], Idle}
    PROVE  IInv'
<1>0. PICK r : r = Row(k, n, i)
  OBVIOUS
<1>1. /\ r \in DataRow
      /\ r.kind = k /\ r.name = n /\ r.holder = i
      /\ r.excused <=> ~HasId(i) \/ Passed(k, n, i)
  <2>1. PICK e \in BOOLEAN : e = (~HasId(i) \/ Passed(k, n, i))
    OBVIOUS
  <2>2. r = [kind |-> k, name |-> n, holder |-> i, excused |-> e]
    BY <1>0, <2>1, Zenon DEF Row
  <2>3. r \in DataRow /\ r.kind = k /\ r.name = n /\ r.holder = i /\ r.excused = e
    BY <2>2 DEF DataRow
  <2>4. r.excused <=> ~HasId(i) \/ Passed(k, n, i)
    BY <2>1, <2>3, Zenon
  <2> QED
    BY <2>3, <2>4
<1>2. \A s \in rows' : s \in rows \/ s = r
  BY <1>0
<1>3. TypeOK'
  BY <1>1, <1>2 DEF IInv, TypeOK
<1>4. AddressOK' /\ RowOK' /\ (\A j : HasId(j)' <=> HasId(j))
  BY <1>1, <1>2 DEF IInv, AddressOK, RowOK, HasId
<1>5. NoOrphans'
  BY <1>1, <1>2, <1>4 DEF IInv, NoOrphans
<1> DEFINE T == {t \in Task : task'[t] = Idle}
<1>6. \A t \in T : ~Deleting(t)'
  BY IdleType DEF Deleting
<1>7. Moves(T)
  BY <1>6, IdleType DEF Moves
<1>8. TaskOK'
  BY <1>7, TasksKept
<1>9. ASSUME NEW t \in Task PROVE Covered(t)'
  <2>1. CASE t \in T
    BY <1>6, <2>1 DEF Covered
  <2>2. CASE t \notin T
    <3>1. SUFFICES ASSUME Deleting(t)', NEW s \in rows', Through(t, s.kind)', Hit(t, s)'
                   PROVE  s.excused
      BY DEF Covered
    <3>2. Deleting(t) /\ Through(t, s.kind) /\ Hit(t, s)
      BY <2>2, <3>1 DEF Deleting, Through, Order, Hit
    <3>3. CASE s \in rows
      BY <3>2, <3>3 DEF IInv, Covered
    <3>4. CASE s = r
      <4>1. task[t].pc = "wipe" => n = task[t].name /\ (k = "users_address" => i = task[t].id)
        BY <1>1, <3>2, <3>4 DEF Hit
      <4>2. Passed(k, n, i)
        BY <1>1, <3>2, <3>4, <4>1 DEF Passed
      <4> QED
        BY <1>1, <3>4, <4>2
    <3> QED
      BY <1>2, <3>3, <3>4
  <2> QED
    BY <2>1, <2>2
<1> QED
  BY <1>3, <1>4, <1>5, <1>8, <1>9 DEF IInv

-----------------------------------------------------------------------------
LEMMA MailReceived ==
    ASSUME IInv, NEW n \in Name, ReceiveMail(n)
    PROVE  IInv'
<1>0. /\ nextId \in Nat /\ 0 < nextId /\ "raw_mails" \in Kind /\ "raw_mails" # "users_address"
      /\ task \in [Task -> TaskType] /\ task' = task /\ 0 \in 0..MaxAddress
  BY MailboxDataAssumption DEF IInv, TypeOK, Kind, ReceiveMail
<1>1. CASE ~Taken(n) /\ Add(Row("raw_mails", n, 0))
  <2>1. \A a \in address : a.id # 0
    BY MailboxDataAssumption DEF IInv, TypeOK, AddressRow, AddressId
  <2> QED
    BY <1>0, <1>1, <2>1, RowAdded DEF ReceiveMail, Add
<1>2. CASE \E a \in address : a.name = n /\ Add(Row("raw_mails", n, a.id))
  <2>1. PICK a \in address : a.name = n /\ Add(Row("raw_mails", n, a.id))
    BY <1>2
  <2>2. a.id \in 0..MaxAddress
    BY MailboxDataAssumption DEF IInv, TypeOK, AddressRow, AddressId
  <2>3. a.id < nextId /\ \A b \in address : b.id = a.id => b.name = n
    BY <2>1 DEF IInv, AddressOK
  <2>4. \A t \in Task : task[t].id = a.id /\ a.id # 0 => task[t].name = n
    BY <2>1 DEF IInv, TaskOK
  <2> QED
    BY <1>0, <2>1, <2>2, <2>3, <2>4, RowAdded DEF ReceiveMail, Add
<1> QED
  BY <1>1, <1>2 DEF ReceiveMail

LEMMA Written ==
    ASSUME IInv, NEW t \in Task, Write(t)
    PROVE  IInv'
<1> DEFINE k == task[t].pc
           n == task[t].name
           i == task[t].id
<1>1. k \in Kind /\ n \in Name /\ i # 0 /\ i < nextId
  BY DEF Write, IInv, TaskOK
<1>2. i \in 0..MaxAddress
  BY DEF IInv, TypeOK, TaskType
<1>3. /\ \A a \in address : a.id = i => a.name = n
      /\ \A u \in Task : task[u].id = i /\ i # 0 => task[u].name = n
  BY <1>1 DEF IInv, TaskOK
<1>4. rows' \subseteq rows \cup {Row(k, n, i)}
  BY DEF Write, Replace, Add
<1>5. /\ task' \in [Task -> TaskType] /\ task'[t] = Idle
      /\ \A u \in Task : task'[u] \in {task[u], Idle}
      /\ UNCHANGED <<address, nextId>>
  BY IdleType DEF Write, IInv, TypeOK
<1> HIDE DEF k, n, i
<1> QED
  BY <1>1, <1>2, <1>3, <1>4, <1>5, RowAdded

LEMMA Admitted ==
    ASSUME IInv, NEW t \in Task, NEW i \in AddressId, NEW n \in Name,
           NEW pc \in (Kind \ {"raw_mails"}) \cup {"wipe"}, Admit(t, i, n, pc)
    PROVE  IInv'
<1>1. PICK x : x = [Idle EXCEPT !.pc = pc, !.id = i, !.name = n,
                                !.step = IF pc = "wipe" THEN 1 ELSE 0]
  OBVIOUS
<1>2. /\ x \in TaskType /\ x.pc = pc /\ x.id = i /\ x.name = n
      /\ pc = "wipe" => x.step = 1
  <2>1. PICK st \in {0, 1} : st = IF pc = "wipe" THEN 1 ELSE 0
    OBVIOUS
  <2>2. x = [pc |-> pc, id |-> i, name |-> n, step |-> st, all |-> {}]
    BY <1>1, <2>1 DEF Idle
  <2>3. i \in 0..MaxAddress /\ st \in 0..6
    BY MailboxDataAssumption DEF AddressId
  <2> QED
    BY <2>1, <2>2, <2>3 DEF TaskType
<1>3. task'[t] = x /\ \A u \in Task \ {t} : task'[u] = task[u]
  BY <1>1 DEF Admit, IInv, TypeOK
<1>4. TypeOK'
  BY <1>1, <1>2 DEF Admit, IInv, TypeOK
<1>5. PICK a \in address : a.id = i /\ a.name = n
  BY DEF Admit, Owns
<1>6. /\ i # 0 /\ i < nextId
      /\ \A b \in address : b.id = i => b.name = n
      /\ \A u \in Task : task[u].id = i => task[u].name = n
  BY <1>5, MailboxDataAssumption DEF AddressId, IInv, AddressOK, TaskOK
<1>7. pc \notin CleanType
  BY IdleType
<1>8. TaskOK'
  <2>1. ASSUME NEW u \in Task
        PROVE  /\ task'[u].id < nextId
               /\ Deleting(u)' => task'[u].step \in 1..6
               /\ task'[u].pc \in Kind => task'[u].id # 0 /\ task'[u].name \in Name
               /\ task'[u].id # 0 => \A b \in address : b.id = task'[u].id => b.name = task'[u].name
    <3>1. CASE u = t
      BY <1>2, <1>3, <1>6, <1>7, <3>1 DEF Deleting
    <3>2. CASE u # t
      BY <1>3, <3>2 DEF IInv, TaskOK, Deleting
    <3> QED
      BY <3>1, <3>2
  <2>2. ASSUME NEW u \in Task, NEW v \in Task, task'[u].id # 0, task'[u].id = task'[v].id
        PROVE  task'[u].name = task'[v].name
    BY <1>2, <1>3, <1>6, <2>2 DEF IInv, TaskOK
  <2> QED
    BY <2>1, <2>2 DEF TaskOK, Admit
<1>9. ASSUME NEW u \in Task PROVE Covered(u)'
  <2>1. CASE u = t
    <3>1. Deleting(t)' => \A k : ~Through(t, k)'
      BY <1>2, <1>3, <1>7 DEF Deleting, Through
    <3> QED
      BY <2>1, <3>1 DEF Covered
  <2>2. CASE u # t
    <3>1. Fades
      BY DEF Admit, Fades
    <3> QED
      BY <1>3, <2>2, <3>1, OthersCovered
  <2> QED
    BY <2>1, <2>2
<1>10. AddressOK' /\ RowOK' /\ NoOrphans'
  BY DEF Admit, IInv, AddressOK, RowOK, NoOrphans, HasId
<1> QED
  BY <1>4, <1>8, <1>9, <1>10 DEF IInv

LEMMA CleanupStarted ==
    ASSUME IInv, NEW t \in Task, NEW c \in CleanType, StartCleanup(t, c)
    PROVE  IInv'
<1>1. PICK x : x = [Idle EXCEPT !.pc = c, !.step = 1, !.all = AddressId]
  OBVIOUS
<1>2. x \in TaskType /\ x.pc = c /\ x.id = 0 /\ x.step = 1
  <2>1. x = [pc |-> c, id |-> 0, name |-> NoName, step |-> 1, all |-> AddressId]
    BY <1>1 DEF Idle
  <2> QED
    BY <2>1, MailboxDataAssumption DEF TaskType
<1>3. task'[t] = x /\ \A u \in Task \ {t} : task'[u] = task[u]
  BY <1>1 DEF StartCleanup, IInv, TypeOK
<1>4. TypeOK'
  BY <1>1, <1>2 DEF StartCleanup, IInv, TypeOK
<1>5. Moves({t})
  BY <1>2, <1>3, IdleType DEF Moves
<1>6. Covered(t)'
  BY <1>2, <1>3 DEF Covered, Through
<1>7. Fades /\ Clears
  BY DEF Fades, Clears, HasId, StartCleanup
<1> QED
  BY <1>4, <1>5, <1>6, <1>7, Preserved DEF StartCleanup

LEMMA Cancelled ==
    ASSUME IInv, NEW t \in Task, Cancel(t)
    PROVE  IInv'
<1>1. Fades /\ Clears
  BY DEF Fades, Clears, HasId, Cancel
<1>2. address' \subseteq AddressRow /\ rows' \subseteq DataRow
  BY DEF Cancel, IInv, TypeOK
<1> QED
  BY <1>1, <1>2, LastStep DEF Cancel

(* A deletion that has done a statement goes on to the next. *)
LEMMA StepDone ==
    ASSUME IInv, NEW t \in Task, Deleting(t), task[t].step < 6, NEW x \in TaskType,
           x.pc = task[t].pc, x.id = task[t].id, x.name = task[t].name,
           x.step = task[t].step + 1, x.all \subseteq task[t].all,
           task' \in [Task -> TaskType], task'[t] = x, \A u \in Task \ {t} : task'[u] = task[u],
           rows' \subseteq rows, UNCHANGED <<address, nextId>>,
           \A r \in rows' : r.kind = Order(t)[task[t].step] => ~Hit(t, r)'
    PROVE  IInv'
<1>1. task'[t] = x /\ \A u \in Task \ {t} : task'[u] = task[u]
  OBVIOUS
<1>2. TypeOK'
  BY DEF IInv, TypeOK
<1>3. task[t].step \in 1..5 /\ x.step \in 1..6
  BY DEF IInv, TaskOK
<1>4. Moves({t})
  BY <1>1, <1>3 DEF Moves, IInv, TaskOK
<1>5. Fades /\ Clears
  BY DEF Fades, Clears, HasId
<1>6. Covered(t)'
  <2>1. SUFFICES ASSUME NEW r \in rows', Through(t, r.kind)', Hit(t, r)' PROVE r.excused
    BY DEF Covered
  <2>2. Order(t)' = Order(t)
    BY <1>1 DEF Order
  <2>3. PICK s \in 1..task[t].step : Order(t)[s] = r.kind
    BY <1>1, <1>3, <2>1, <2>2 DEF Through
  <2>4. s # task[t].step
    BY <2>1, <2>3
  <2>5. Through(t, r.kind)
    BY <1>3, <2>3, <2>4 DEF Through
  <2>6. Hit(t, r)
    BY <1>1, <2>1 DEF Hit
  <2> QED
    BY <2>5, <2>6 DEF IInv, Covered
<1> QED
  BY <1>2, <1>4, <1>5, <1>6, Preserved

(* A request's last statement takes its mailboxes, and their rows are *)
(* excused.                                                           *)
LEMMA MailboxesTaken ==
    ASSUME IInv, NEW t \in Task, NEW gone \in SUBSET address,
           address' = address \ gone, Fades, rows' \subseteq DataRow,
           task' = [task EXCEPT ![t] = Idle], UNCHANGED nextId,
           \A r \in rows' : \A a \in gone : r.holder = a.id => r.excused
    PROVE  IInv'
<1>1. Clears
  <2>1. \A i : HasId(i) => HasId(i)' \/ \E a \in gone : a.id = i
    BY DEF HasId
  <2> QED
    BY <2>1 DEF Clears
<1>2. address' \subseteq AddressRow
  BY DEF IInv, TypeOK
<1> QED
  BY <1>1, <1>2, LastStep

(* When a deletion comes to its last statement, it has been through all *)
(* five tables.                                                         *)
LEMMA ThroughAll ==
    ASSUME IInv, NEW t \in Task, Deleting(t), task[t].step = 6, NEW r \in rows, Hit(t, r)
    PROVE  r.excused
<1>1. r.kind \in Kind
  BY DEF IInv, TypeOK, DataRow
<1>2. Through(t, r.kind)
  BY <1>1, Orders DEF Through, Order
<1> QED
  BY <1>2 DEF IInv, Covered

(* The position in a deletion *)
LEMMA Position ==
    ASSUME IInv, NEW t \in Task, Deleting(t)
    PROVE  /\ task[t].step = 6 \/ (task[t].step \in 1..5 /\ task[t].step < 6)
           /\ Order(t)[task[t].step] = "address" <=> task[t].step = 6
           /\ task[t] \in TaskType
<1>1. task[t].step \in 1..6
  BY DEF IInv, TaskOK
<1>2. task[t].step = 6 \/ task[t].step \in 1..5
  BY <1>1
<1> QED
  BY <1>2, Orders DEF Order, IInv, TypeOK

LEMMA Wiped ==
    ASSUME IInv, NEW t \in Task, Wipe(t)
    PROVE  IInv'
<1>1. Deleting(t) /\ task[t].pc = "wipe" /\ Order(t) = WipeOrder
  BY DEF Wipe, Deleting, Order
<1>2. CASE task[t].step = 6
  <2> DEFINE gone == {a \in address : a.name = task[t].name}
             S == {a.id : a \in gone} \ {task[t].id}
  <2>1. /\ address' = address \ gone /\ rows' = Excuse({"users_address"}, S)
        /\ task' = [task EXCEPT ![t] = Idle] /\ UNCHANGED nextId
    BY <1>1, <1>2, Position DEF Wipe
  <2>2. /\ Fades /\ rows' \subseteq DataRow
        /\ \A r \in rows' : r.kind \in {"users_address"} /\ r.holder \in S => r.excused
    <3> HIDE DEF S
    <3> QED
      BY <2>1, ExcuseEffect
  <2>3. ASSUME NEW r \in rows', NEW a \in gone, r.holder = a.id PROVE r.excused
    <3>1. PICK s \in rows : /\ s.kind = r.kind /\ s.name = r.name /\ s.holder = r.holder
                            /\ s.excused => r.excused
      BY <2>2 DEF Fades
    <3>2. s.name = task[t].name
      BY <2>3, <3>1 DEF IInv, RowOK
    <3>3. CASE s.kind # "users_address" \/ s.holder = task[t].id
      <4>1. Hit(t, s)
        BY <1>1, <3>2, <3>3 DEF Hit
      <4> QED
        BY <1>1, <1>2, <3>1, <4>1, ThroughAll
    <3>4. CASE s.kind = "users_address" /\ s.holder # task[t].id
      BY <2>2, <2>3, <3>1, <3>4
    <3> QED
      BY <3>3, <3>4
  <2>4. gone \in SUBSET address
    OBVIOUS
  <2> HIDE DEF gone
  <2> QED
    BY <2>1, <2>2, <2>3, <2>4, MailboxesTaken
<1>3. CASE task[t].step # 6
  <2> DEFINE k == WipeOrder[task[t].step]
  <2>1. PICK x : x = [task[t] EXCEPT !.step = task[t].step + 1]
    OBVIOUS
  <2>2. k # "address" /\ task[t].step \in 1..5 /\ task[t].step < 6 /\ task[t] \in TaskType
    BY <1>1, <1>3, Position
  <2>3. /\ x \in TaskType /\ x.pc = task[t].pc /\ x.id = task[t].id /\ x.name = task[t].name
        /\ x.step = task[t].step + 1 /\ x.all = task[t].all
    BY <2>1, <2>2 DEF TaskType
  <2>4. /\ UNCHANGED <<address, nextId>>
        /\ rows' = {r \in rows : ~(r.kind = k /\ IF k = "users_address" THEN r.holder = task[t].id
                                                                     ELSE r.name = task[t].name)}
    BY <2>2, Zenon DEF Wipe
  <2>5. /\ task' \in [Task -> TaskType] /\ task'[t] = x
        /\ \A u \in Task \ {t} : task'[u] = task[u]
    <3>1. x = IF task[t].step = 6 THEN Idle ELSE [task[t] EXCEPT !.step = task[t].step + 1]
      BY <1>3, <2>1, Zenon
    <3>2. task' = [task EXCEPT ![t] = x]
      BY <3>1, Zenon DEF Wipe
    <3>3. task \in [Task -> TaskType]
      BY DEF IInv, TypeOK
    <3> QED
      BY <2>3, <3>2, <3>3
  <2>6. \A r \in rows' : r.kind = k => ~Hit(t, r)'
    BY <1>1, <2>3, <2>4, <2>5 DEF Hit
  <2>7. Order(t)[task[t].step] = k /\ rows' \subseteq rows /\ x.all \subseteq task[t].all
    BY <1>1, <2>3, <2>4
  <2> QED
    BY <1>1, <2>2, <2>3, <2>4, <2>5, <2>6, <2>7, StepDone
<1> QED
  BY <1>2, <1>3

LEMMA Cleaned ==
    ASSUME IInv, NEW t \in Task, Clean(t)
    PROVE  IInv'
<1> DEFINE hit == Matching(t)
           ids == {a.id : a \in hit}
<1>1. Deleting(t) /\ task[t].pc # "wipe" /\ Order(t) = CleanOrder
  BY IdleType DEF Clean, Deleting, Order
<1>0. hit \in SUBSET address
  BY DEF Matching
<1>2. CASE task[t].step = 6
  <2> DEFINE S == ids \ task[t].all
  <2>1. /\ address' = address \ hit /\ rows' = Excuse(Kind, S)
        /\ task' = [task EXCEPT ![t] = Idle] /\ UNCHANGED nextId
    BY <1>1, <1>2, Position DEF Clean
  <2>2. /\ Fades /\ rows' \subseteq DataRow
        /\ \A r \in rows' : r.kind \in Kind /\ r.holder \in S => r.excused
    <3> HIDE DEF S
    <3> QED
      BY <2>1, ExcuseEffect
  <2>3. ASSUME NEW r \in rows', NEW a \in hit, r.holder = a.id PROVE r.excused
    <3>1. PICK s \in rows : /\ s.kind = r.kind /\ s.name = r.name /\ s.holder = r.holder
                            /\ s.excused => r.excused
      BY <2>2 DEF Fades
    <3>2. CASE s.holder \in task[t].all
      <4>1. Hit(t, s)
        BY <1>1, <3>2 DEF Hit
      <4> QED
        BY <1>1, <1>2, <3>1, <4>1, ThroughAll
    <3>3. CASE s.holder \notin task[t].all
      <4>1. r.kind \in Kind
        BY <2>2 DEF DataRow
      <4>2. r.holder \in S
        BY <2>3, <3>1, <3>3
      <4> QED
        BY <2>2, <4>1, <4>2
    <3> QED
      BY <3>2, <3>3
  <2> HIDE DEF hit
  <2> QED
    BY <1>0, <2>1, <2>2, <2>3, MailboxesTaken
<1>3. CASE task[t].step # 6
  <2> DEFINE k == CleanOrder[task[t].step]
  <2>1. PICK x : x = [task[t] EXCEPT !.step = task[t].step + 1,
                                      !.all = task[t].all \cap ids]
    OBVIOUS
  <2>2. k # "address" /\ task[t].step \in 1..5 /\ task[t].step < 6 /\ task[t] \in TaskType
    BY <1>1, <1>3, Position
  <2>3. /\ x \in TaskType /\ x.pc = task[t].pc /\ x.id = task[t].id /\ x.name = task[t].name
        /\ x.step = task[t].step + 1 /\ x.all = task[t].all \cap ids
    <3>1. PICK seen : seen = task[t].all \cap ids
      OBVIOUS
    <3>2. x = [task[t] EXCEPT !.step = task[t].step + 1, !.all = seen]
      BY <2>1, <3>1
    <3>3. seen \in SUBSET AddressId
      BY <2>2, <3>1 DEF TaskType
    <3>4. PICK y \in TaskType : y = task[t] /\ y.step \in 1..5
      BY <2>2
    <3>5. x = [y EXCEPT !.step = y.step + 1, !.all = seen] /\ y.step + 1 \in 0..6
      BY <3>2, <3>4
    <3>6. /\ x \in TaskType /\ x.pc = y.pc /\ x.id = y.id /\ x.name = y.name
          /\ x.step = y.step + 1 /\ x.all = seen
      BY <3>3, <3>5 DEF TaskType
    <3> QED
      BY <3>1, <3>4, <3>6
  <2>4. UNCHANGED <<address, nextId>> /\ rows' = rows \ OfMailboxes(k, hit)
    BY <2>2, Zenon DEF Clean
  <2>5. /\ task' \in [Task -> TaskType] /\ task'[t] = x
        /\ \A u \in Task \ {t} : task'[u] = task[u]
    <3>1. task \in [Task -> TaskType]
      BY DEF IInv, TypeOK
    <3>2. task' = [task EXCEPT ![t] = x]
      BY <2>1, <2>2, Zenon DEF Clean
    <3> QED
      BY <2>3, <3>1, <3>2
  <2>6. ASSUME NEW r \in rows', r.kind = k, Hit(t, r)' PROVE FALSE
    <3>1. r \in rows /\ r \notin OfMailboxes(k, hit)
      BY <2>4
    <3>2. PICK a \in hit : r.holder = a.id
      BY <1>1, <2>3, <2>5, <2>6 DEF Hit
    <3>3. r.name = a.name
      BY <1>0, <3>1, <3>2 DEF IInv, RowOK
    <3> QED
      BY <2>6, <3>1, <3>2, <3>3 DEF OfMailboxes
  <2>7. Order(t)[task[t].step] = k /\ rows' \subseteq rows /\ x.all \subseteq task[t].all
    BY <1>1, <2>3, <2>4
  <2> QED
    BY <1>1, <2>2, <2>3, <2>4, <2>5, <2>6, <2>7, StepDone
<1> QED
  BY <1>2, <1>3

-----------------------------------------------------------------------------
LEMMA InvStep == IInv /\ [Next]_vars => IInv'
<1> SUFFICES ASSUME IInv, [Next]_vars PROVE IInv'
  OBVIOUS
<1>1. ASSUME NEW n \in Name, CreateAddress(n) PROVE IInv'
  BY <1>1, AddressCreated
<1>2. ASSUME NEW n \in Name, ReceiveMail(n) PROVE IInv'
  BY <1>2, MailReceived
<1>3. ASSUME NEW n \in Name, DeleteMails(n) \/ DeleteSent(n) \/ RemoveSender(n) PROVE IInv'
  BY <1>3, Removes DEF DeleteMails, DeleteSent, RemoveSender
<1>4. ASSUME NEW i \in AddressId, Unbind(i) PROVE IInv'
  BY <1>4, Removes DEF Unbind
<1>5. CASE CleanUnknown
  BY <1>5, Removes DEF CleanUnknown
<1>6. ASSUME NEW a \in address, GrowOld(a) \/ GrowIdle(a) \/ Touch(a) PROVE IInv'
  <2>1. a \in AddressRow
    BY DEF IInv, TypeOK
  <2>2. PICK b : Becomes(a, b) /\ b \in {[a EXCEPT !.old = TRUE], [a EXCEPT !.idle = TRUE],
                                        [a EXCEPT !.idle = FALSE]}
    BY <1>6 DEF GrowOld, GrowIdle, Touch
  <2>3. b \in AddressRow /\ b.id = a.id /\ b.name = a.name
    BY <2>1, <2>2 DEF AddressRow
  <2> QED
    BY <2>2, <2>3, Ages
<1>7. ASSUME NEW a \in address, RemoveRowOnly(a) PROVE IInv'
  BY <1>7, RowOnlyRemoved
<1>8. ASSUME NEW a \in address, AdminDelete(a) PROVE IInv'
  BY <1>8, AdminDeleted
<1>9. ASSUME NEW t \in Task, Step(t) PROVE IInv'
  BY <1>9, Written, Wiped, Cleaned DEF Step
<1>10. ASSUME NEW t \in Task, Cancel(t) PROVE IInv'
  BY <1>10, Cancelled
<1>11. ASSUME NEW t \in Task, NEW c \in CleanType, StartCleanup(t, c) PROVE IInv'
  BY <1>11, CleanupStarted
<1>12. ASSUME NEW t \in Task, NEW i \in AddressId, NEW n \in Name,
              NEW pc \in (Kind \ {"raw_mails"}) \cup {"wipe"}, Admit(t, i, n, pc)
       PROVE  IInv'
  BY <1>12, Admitted
<1>13. CASE UNCHANGED vars
  <2>1. Fades /\ Clears
    BY <1>13 DEF vars, Fades, Clears, HasId
  <2>2. address' \subseteq AddressRow /\ rows' \subseteq DataRow
    BY <1>13 DEF vars, IInv, TypeOK
  <2> QED
    BY <1>13, <2>1, <2>2, QuietStep DEF vars
<1> QED
  BY <1>1, <1>2, <1>3, <1>4, <1>5, <1>6, <1>7, <1>8, <1>9, <1>10, <1>11, <1>12, <1>13 DEF Next

(* Every variable keeps its type. *)
THEOREM TypeCorrect == Spec => []TypeOK
<1>1. IInv => TypeOK
  BY DEF IInv
<1> QED
  BY <1>1, InvInit, InvStep, PTL DEF Spec

(* A mailbox leaves nothing to the next one of its name but what may stay, *)
(* whichever way it is deleted and whatever is written between the         *)
(* statements (common.ts:587-676).                                         *)
THEOREM LeavesNothing == Spec => []NoOrphans
<1>1. IInv => NoOrphans
  BY DEF IInv
<1> QED
  BY <1>1, InvInit, InvStep, PTL DEF Spec

(* A cleanup takes no mailbox that came into use since it began. *)
THEOREM SparesUsed == Spec => CleanupSparesUsed
<1> DEFINE Spares ==
        \A t \in Task : \A a \in address \ address' :
            task[t].step = 6 /\ task'[t].pc = "idle" =>
               /\ task[t].pc = "unboundAddress" => ~Has("users_address", a.id)
               /\ task[t].pc = "emptyAddress" => Under("raw_mails", a.name) = {}
<1>1. IInv /\ [Next]_vars => Spares
  <2> SUFFICES ASSUME IInv, [Next]_vars, NEW t \in Task, NEW a \in address \ address',
                      task'[t].pc = "idle", task[t].pc \in {"unboundAddress", "emptyAddress"}
               PROVE  /\ task[t].pc = "unboundAddress" => ~Has("users_address", a.id)
                      /\ task[t].pc = "emptyAddress" => Under("raw_mails", a.name) = {}
    OBVIOUS
  <2>1. task' # task /\ address' # address
    OBVIOUS
  <2>2. PICK u \in Task : Wipe(u) \/ Clean(u)
    BY <2>1 DEF Next, vars, Step, ReceiveMail, DeleteMails, DeleteSent, RemoveSender,
       Unbind, GrowOld, GrowIdle, Touch, Becomes, RemoveRowOnly, AdminDelete, CleanUnknown,
       CreateAddress, Write, Cancel, StartCleanup, Admit
  <2>3. u = t
    BY <2>2 DEF Wipe, Clean, IInv, TypeOK
  <2>4. Clean(t)
    BY <2>2, <2>3 DEF Wipe
  <2>5. a \in Matching(t)
    BY <2>4 DEF Clean
  <2> QED
    BY <2>5 DEF Matching
<1>2. IInv /\ [Next]_vars => [Spares]_vars
  BY <1>1
<1> QED
  BY <1>2, InvInit, InvStep, PTL DEF Spec, CleanupSparesUsed
=============================================================================
