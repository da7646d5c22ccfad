------------------------ MODULE AddressBindingProofs ------------------------
(***************************************************************************)
(* The properties of AddressBinding, for any number of requests, users and *)
(* mailboxes.                                                              *)
(***************************************************************************)
EXTENDS AddressBinding, FiniteSetTheorems, TLAPS

Binding4 == {"user", "bound", "count", "insert"}

(* A transfer, from its first read to its last write; when it knows the    *)
(* target; and when it has created the mailbox anew.                       *)
Targeted ==
    {"targetCount", "senderBound", "release", "remove", "recreate", "select", "handOver"}
Transfer == {"sender", "target"} \cup Targeted
Renewed == {"select", "handOver"}

(* What a request's local state r holds at its position *)
WellFormed(r) ==
    /\ r.pc \in Binding4 \cup Transfer \cup {"unbindUser", "unbind", "deleteBindings"} =>
          r.user \in UserId
    /\ r.pc \in Binding4 \cup Transfer \cup {"unbindUser", "unbind", "wipeBinding"} =>
          r.id \in AddressId
    /\ r.pc \in (Binding4 \ {"user"}) \cup Transfer => r.owner \in Person
    /\ r.pc \in Transfer \cup {"wipeBinding", "wipeAddress"} => r.name \in Name
    /\ r.pc \in Targeted => r.target \in UserId
    /\ r.pc \in Transfer => r.id < nextId
    /\ r.pc \in Renewed => r.own \in AddressId /\ r.own < nextId

(* The rows a transfer knows by id have the name it knows. *)
KnowsRows(r) ==
    \A a \in address :
        /\ r.pc \in Transfer /\ a.id = r.id => a.name = r.name
        /\ r.pc \in Renewed /\ a.id = r.own => a.name = r.name

(* TransferHandsOverOwn for one request *)
HandsOverOwn(r) == r.pc = "handOver" => r.id = r.own \/ ~HasId(r.own)

Good(r) == WellFormed(r) /\ KnowsRows(r) /\ HandsOverOwn(r)

(* Ids were handed out before; ids and names are keys. *)
AddressOK ==
    /\ nextId \in Nat \ {0}
    /\ \A a \in address : a.id < nextId
    /\ \A a, b \in address : a.id = b.id \/ a.name = b.name => a = b

CoreInv == TypeOK /\ AddressOK /\ \A t \in Task : Good(task[t])

-----------------------------------------------------------------------------
LEMMA IdType ==
    /\ UserId \subseteq 0..MaxUserId /\ AddressId \subseteq 0..MaxAddress
    /\ 0 \in 0..MaxUserId /\ 0 \in 0..MaxAddress
  BY AddressBindingAssumption DEF UserId, AddressId

LEMMA IdleType == Idle \in TaskType /\ Idle.pc = "idle"
  BY AddressBindingAssumption DEF Idle, TaskType

LEMMA IdleGood == Good(Idle)
  BY IdleType DEF Good, WellFormed, KnowsRows, HandsOverOwn, Binding4, Transfer, Targeted, Renewed

LEMMA CoreInit == Init => CoreInv
<1> SUFFICES ASSUME Init PROVE CoreInv
  OBVIOUS
<1>1. TypeOK
  BY IdleType DEF Init, TypeOK
<1>2. AddressOK
  BY DEF Init, AddressOK
<1>3. \A t \in Task : Good(task[t])
  BY IdleGood DEF Init
<1> QED
  BY <1>1, <1>2, <1>3 DEF CoreInv

(* What every step does to the table of mailboxes: rows go, or one comes   *)
(* with a new id.                                                          *)
MildStep ==
    /\ nextId' \in {nextId, nextId + 1}
    /\ \A a \in address' : a \in address \/ (a.id = nextId /\ nextId' = nextId + 1)

(* Such a step is harmless to what any request holds. *)
LEMMA GoodStays ==
    ASSUME CoreInv, MildStep, NEW r \in TaskType, Good(r)
    PROVE  Good(r)'
<1>1. nextId \in Nat
  BY DEF CoreInv, AddressOK
<1>2. WellFormed(r)'
  BY <1>1 DEF Good, WellFormed, MildStep, Transfer, Targeted, Renewed, TaskType, AddressId
<1>3. KnowsRows(r)'
  BY <1>1 DEF Good, WellFormed, KnowsRows, MildStep, Transfer, Targeted, Renewed, TaskType,
              AddressId
<1>4. HandsOverOwn(r)'
  BY <1>1 DEF Good, WellFormed, HandsOverOwn, HasId, MildStep, Renewed, AddressId
<1> QED
  BY <1>2, <1>3, <1>4 DEF Good

(* A step that moves request t to the state r *)
LEMMA OneMoves ==
    ASSUME CoreInv, MildStep, AddressOK', NEW t \in Task, NEW r \in TaskType,
           task' = [task EXCEPT ![t] = r], Good(r)'
    PROVE  task' \in [Task -> TaskType] /\ (\A s \in Task : Good(task[s]))'
<1>1. task \in [Task -> TaskType] /\ \A s \in Task : Good(task[s])
  BY DEF CoreInv, TypeOK
<1>2. \A s \in Task : task'[s] = IF s = t THEN r ELSE task[s]
  BY <1>1
<1>3. \A s \in Task : task[s] \in TaskType /\ Good(task[s])'
  BY <1>1, GoodStays
<1> QED
  BY <1>1, <1>2, <1>3

(* A step of a request that leaves the mailboxes alone *)
LEMMA QuietMove ==
    ASSUME CoreInv, UNCHANGED <<address, nextId>>, NEW t \in Task, NEW r \in TaskType,
           task' = [task EXCEPT ![t] = r], Good(r)
    PROVE  /\ task' \in [Task -> TaskType]
           /\ (\A s \in Task : Good(task[s]))'
           /\ AddressOK'
<1>1. MildStep /\ AddressOK'
  BY DEF MildStep, CoreInv, AddressOK
<1>2. Good(r)'
  BY <1>1, GoodStays
<1> QED
  BY <1>1, <1>2, OneMoves
LEMMA QuietCore ==
    ASSUME CoreInv, UNCHANGED <<address, nextId>>, NEW t \in Task, NEW r \in TaskType,
           task' = [task EXCEPT ![t] = r], Good(r),
           users' \in [UserId -> Person \cup {NoOne}], bound' \subseteq Binding,
           moved' \subseteq Name, cut' \subseteq UserId
    PROVE  CoreInv'
  BY QuietMove DEF CoreInv, TypeOK

(* The first call of a request fills its local state. *)
LEMMA CoreStart ==
    ASSUME CoreInv, NEW t \in Task, Start(t)
    PROVE  CoreInv'
<1>1. /\ users \in [UserId -> Person \cup {NoOne}] /\ bound \subseteq Binding
      /\ moved \subseteq Name /\ cut \subseteq UserId
  BY DEF CoreInv, TypeOK
<1>2. ASSUME NEW u \in UserId, NEW i \in AddressId, StartBind(t, u, i)
      PROVE  CoreInv'
  <2> DEFINE r == [Idle EXCEPT !.pc = "user", !.user = u, !.id = i]
  <2>1. r \in TaskType
    BY IdType, IdleType DEF TaskType
  <2>2. Good(r)
    BY IdType DEF Idle, Good, WellFormed, KnowsRows, HandsOverOwn, Binding4,
                Transfer, Targeted, Renewed
  <2> HIDE DEF r
  <2> QED
    BY <1>1, <1>2, <2>1, <2>2, QuietCore DEF StartBind, r
<1>3. ASSUME NEW u \in UserId, NEW i \in AddressId, StartUnbind(t, u, i)
      PROVE  CoreInv'
  <2> DEFINE r == [Idle EXCEPT !.pc = "unbindUser", !.user = u, !.id = i]
  <2>1. r \in TaskType
    BY IdType, IdleType DEF TaskType
  <2>2. Good(r)
    BY IdType DEF Idle, Good, WellFormed, KnowsRows, HandsOverOwn, Binding4,
                Transfer, Targeted, Renewed
  <2> HIDE DEF r
  <2> QED
    BY <1>1, <1>3, <2>1, <2>2, QuietCore DEF StartUnbind, r
<1>4. ASSUME NEW u \in UserId, NEW a \in address, NEW p \in Person, StartTransfer(t, u, a, p)
      PROVE  CoreInv'
  <2> DEFINE r == [Idle EXCEPT !.pc = "sender", !.user = u, !.id = a.id,
                               !.name = a.name, !.owner = p]
  <2>1. a.id \in AddressId /\ a.name \in Name /\ a.id < nextId
    BY DEF CoreInv, TypeOK, AddressRow, AddressOK
  <2>2. \A b \in address : b.id = a.id => b.name = a.name
    BY DEF CoreInv, AddressOK
  <2>3. r \in TaskType
    BY <2>1, <2>2, IdType, IdleType DEF TaskType
  <2>4. Good(r)
    BY <2>1, <2>2, IdType DEF Idle, Good, WellFormed, KnowsRows, HandsOverOwn, Binding4,
                Transfer, Targeted, Renewed
  <2> HIDE DEF r
  <2> QED
    BY <1>1, <1>4, <2>3, <2>4, QuietCore DEF StartTransfer, r
<1>5. ASSUME NEW a \in address, StartWipe(t, a)
      PROVE  CoreInv'
  <2> DEFINE r == [Idle EXCEPT !.pc = "wipeBinding", !.id = a.id, !.name = a.name]
  <2>1. r \in TaskType
    BY IdType, IdleType DEF CoreInv, TypeOK, AddressRow, TaskType
  <2>2. Good(r)
    BY IdType DEF CoreInv, TypeOK, AddressRow, Idle, Good, WellFormed, KnowsRows,
                HandsOverOwn, Binding4, Transfer, Targeted, Renewed
  <2> HIDE DEF r
  <2> QED
    BY <1>1, <1>5, <2>1, <2>2, QuietCore DEF StartWipe, r
<1>6. ASSUME NEW S \in SUBSET address, StartCleanup(t, S)
      PROVE  CoreInv'
  <2> DEFINE r == [Idle EXCEPT !.pc = "cleanAddresses"]
  <2>1. r \in TaskType
    BY IdType, IdleType DEF TaskType
  <2>2. Good(r)
    BY IdType DEF Idle, Good, WellFormed, KnowsRows, HandsOverOwn, Binding4,
                Transfer, Targeted, Renewed
  <2>3. bound' \subseteq Binding
    BY <1>1, <1>6 DEF StartCleanup
  <2> HIDE DEF r
  <2> QED
    BY <1>1, <1>6, <2>1, <2>2, <2>3, QuietCore DEF StartCleanup, r
<1>7. ASSUME NEW i \in UserId, StartDeleteUser(t, i)
      PROVE  CoreInv'
  <2> DEFINE r == [Idle EXCEPT !.pc = "deleteBindings", !.user = i]
  <2>1. r \in TaskType
    BY IdType, IdleType DEF TaskType
  <2>2. Good(r)
    BY IdType DEF Idle, Good, WellFormed, KnowsRows, HandsOverOwn, Binding4,
                Transfer, Targeted, Renewed
  <2>3. users' \in [UserId -> Person \cup {NoOne}]
    BY <1>1, <1>7 DEF StartDeleteUser
  <2> HIDE DEF r
  <2> QED
    BY <1>1, <1>7, <2>1, <2>2, <2>3, QuietCore DEF StartDeleteUser, r
<1> QED
  BY <1>2, <1>3, <1>4, <1>5, <1>6, <1>7 DEF Start

(* A handler that goes on to its next call, or ends *)
LEMMA PcGood ==
    ASSUME CoreInv, NEW t \in Task, NEW pc,
           \/ /\ task[t].pc = "bound" /\ pc = "count"
           \/ /\ task[t].pc = "count" /\ pc = "insert"
           \/ /\ task[t].pc = "unbindUser" /\ pc = "unbind"
           \/ /\ task[t].pc = "sender" /\ pc = "target"
           \/ /\ task[t].pc = "targetCount" /\ pc = "senderBound"
           \/ /\ task[t].pc = "senderBound" /\ pc = "release"
           \/ /\ task[t].pc = "release" /\ pc = "remove"
           \/ /\ task[t].pc = "remove" /\ pc = "recreate"
    PROVE  LET r == [task[t] EXCEPT !.pc = pc] IN r \in TaskType /\ Good(r)
<1> DEFINE r == [task[t] EXCEPT !.pc = pc]
<1>1. task[t] \in TaskType /\ Good(task[t])
  BY DEF CoreInv, TypeOK
<1>2. r \in TaskType
  BY <1>1 DEF TaskType
<1>3. Good(r)
  BY <1>1 DEF TaskType, Good, WellFormed, KnowsRows, HandsOverOwn, Binding4, Transfer, Targeted,
              Renewed
<1> QED
  BY <1>2, <1>3
(* A step that ends a request and leaves the mailboxes alone *)
LEMMA CoreStop ==
    ASSUME CoreInv, UNCHANGED <<address, nextId>>, NEW t \in Task, Stop(t),
           users' \in [UserId -> Person \cup {NoOne}], bound' \subseteq Binding,
           moved' \subseteq Name, cut' \subseteq UserId
    PROVE  CoreInv'
  BY IdleType, IdleGood, QuietCore DEF Stop

LEMMA CoreCheck ==
    ASSUME CoreInv, NEW t \in Task,
           \/ CheckBound(t) \/ CheckCount(t) \/ CheckUnbindUser(t)
           \/ CheckSender(t) \/ CheckTargetCount(t) \/ CheckSenderBound(t)
    PROVE  CoreInv'
<1>1. /\ UNCHANGED <<address, nextId, users, bound, moved, cut>>
      /\ users \in [UserId -> Person \cup {NoOne}] /\ bound \subseteq Binding
      /\ moved \subseteq Name /\ cut \subseteq UserId
  BY DEF CoreInv, TypeOK, CheckBound, CheckCount, CheckUnbindUser, CheckSender,
         CheckTargetCount, CheckSenderBound
<1>2. PICK pc :
        /\ \/ task[t].pc = "bound" /\ pc = "count"
           \/ task[t].pc = "count" /\ pc = "insert"
           \/ task[t].pc = "unbindUser" /\ pc = "unbind"
           \/ task[t].pc = "sender" /\ pc = "target"
           \/ task[t].pc = "targetCount" /\ pc = "senderBound"
           \/ task[t].pc = "senderBound" /\ pc = "release"
        /\ Goto(t, pc) \/ Stop(t)
  BY DEF Check, CheckBound, CheckCount, CheckUnbindUser, CheckSender, CheckTargetCount,
         CheckSenderBound
<1>3. CASE Stop(t)
  BY <1>1, <1>3, CoreStop
<1>4. CASE Goto(t, pc)
  <2> DEFINE r == [task[t] EXCEPT !.pc = pc]
  <2>1. r \in TaskType /\ Good(r)
    BY <1>2, PcGood
  <2>2. task' = [task EXCEPT ![t] = r]
    BY <1>4 DEF Goto
  <2> HIDE DEF r
  <2> QED
    BY <1>1, <2>1, <2>2, QuietCore
<1> QED
  BY <1>2, <1>3, <1>4

(* A row INSERT INTO users_address adds *)
LEMMA BindType ==
    ASSUME CoreInv, NEW u \in UserId, NEW i \in AddressId, NEW p \in Person, Bind(u, i, p)
    PROVE  bound' \subseteq Binding
  BY DEF Bind, CoreInv, TypeOK, Binding

LEMMA CoreWrite ==
    ASSUME CoreInv, NEW t \in Task,
           \/ InsertBinding(t) \/ HandOver(t) \/ Unbind(t) \/ WipeBinding(t)
           \/ DeleteBindings(t) \/ Release(t)
    PROVE  CoreInv'
<1> DEFINE me == task[t]
<1>1. /\ users \in [UserId -> Person \cup {NoOne}] /\ bound \subseteq Binding
      /\ moved \subseteq Name /\ cut \subseteq UserId
      /\ me \in TaskType /\ Good(me)
  BY DEF CoreInv, TypeOK
<1>2. CASE InsertBinding(t)
  <2>1. me.user \in UserId /\ me.id \in AddressId /\ me.owner \in Person
    BY <1>1, <1>2 DEF InsertBinding, Good, WellFormed, Binding4
  <2>2. bound' \subseteq Binding
    BY <1>2, <2>1, BindType DEF InsertBinding
  <2> QED
    BY <1>1, <1>2, <2>2, CoreStop DEF InsertBinding
<1>3. CASE HandOver(t)
  <2>1. me.target \in UserId /\ me.id \in AddressId /\ me.owner \in Person
    BY <1>1, <1>3 DEF HandOver, Good, WellFormed, Transfer, Targeted
  <2>2. bound' \subseteq Binding
    BY <1>3, <2>1, BindType DEF HandOver
  <2> QED
    BY <1>1, <1>3, <2>2, CoreStop DEF HandOver
<1>4. CASE Unbind(t)
  BY <1>1, <1>4, CoreStop DEF Unbind, Unbound
<1>5. CASE DeleteBindings(t)
  BY <1>1, <1>5, CoreStop DEF DeleteBindings
<1>6. CASE WipeBinding(t)
  <2> DEFINE r == [Idle EXCEPT !.pc = "wipeAddress", !.name = me.name]
  <2>1. me.name \in Name
    BY <1>1, <1>6 DEF WipeBinding, Good, WellFormed
  <2>2. r \in TaskType
    BY <2>1, IdleType DEF TaskType
  <2>3. Good(r)
    BY <2>1 DEF Idle, Good, WellFormed, KnowsRows, HandsOverOwn, Binding4, Transfer, Targeted,
                Renewed
  <2>4. bound' \subseteq Binding
    BY <1>1, <1>6 DEF WipeBinding
  <2> HIDE DEF r
  <2> QED
    BY <1>1, <1>6, <2>2, <2>3, <2>4, QuietCore DEF WipeBinding, r
<1>7. CASE Release(t)
  <2> DEFINE r == [me EXCEPT !.pc = "remove"]
  <2>1. r \in TaskType /\ Good(r)
    BY <1>7, PcGood DEF Release
  <2>2. task' = [task EXCEPT ![t] = r] /\ bound' \subseteq Binding
    BY <1>1, <1>7 DEF Release, Goto, Unbound
  <2> HIDE DEF r
  <2> QED
    BY <1>1, <1>7, <2>1, <2>2, QuietCore DEF Release
<1> QED
  BY <1>2, <1>3, <1>4, <1>5, <1>6, <1>7

(* The calls that read something a request keeps *)
LEMMA CoreRead ==
    ASSUME CoreInv, NEW t \in Task, CheckUser(t) \/ FindTarget(t) \/ SelectNewId(t)
    PROVE  CoreInv'
<1> DEFINE me == task[t]
<1>1. /\ users \in [UserId -> Person \cup {NoOne}] /\ bound \subseteq Binding
      /\ moved \subseteq Name /\ cut \subseteq UserId
      /\ me \in TaskType /\ Good(me)
      /\ UNCHANGED <<address, nextId, users, bound, moved, cut>>
  BY DEF CoreInv, TypeOK, CheckUser, FindTarget, SelectNewId
<1>2. CASE Stop(t)
  BY <1>1, <1>2, CoreStop
<1>3. CASE CheckUser(t) /\ ~Stop(t)
  <2> DEFINE r == [me EXCEPT !.pc = "bound", !.owner = users[me.user]]
  <2>1. me.pc = "user" /\ task' = [task EXCEPT ![t] = r] /\ users[me.user] # NoOne
    BY <1>3 DEF CheckUser
  <2>2. me.user \in UserId /\ me.id \in AddressId
    BY <1>1, <2>1 DEF Good, WellFormed, Binding4
  <2>3. users[me.user] \in Person
    BY <1>1, <2>1, <2>2
  <2>4. r \in TaskType
    BY <1>1, <2>3 DEF TaskType
  <2>5. Good(r)
    BY <1>1, <2>2, <2>3 DEF TaskType, Good, WellFormed, KnowsRows, HandsOverOwn, Binding4,
                            Transfer, Targeted, Renewed
  <2> HIDE DEF r
  <2> QED
    BY <1>1, <2>1, <2>4, <2>5, QuietCore
<1>4. CASE FindTarget(t) /\ ~Stop(t)
  <2>1. me.pc = "target"
    BY <1>4 DEF FindTarget
  <2>2. PICK u \in UserId :
          task' = [task EXCEPT ![t] = [me EXCEPT !.pc = "targetCount", !.target = u]]
    BY <1>4 DEF FindTarget
  <2> DEFINE r == [me EXCEPT !.pc = "targetCount", !.target = u]
  <2>3. r \in TaskType
    BY <1>1, IdType DEF TaskType
  <2>4. Good(r)
    BY <1>1, <2>1 DEF TaskType, Good, WellFormed, KnowsRows, HandsOverOwn, Binding4,
                      Transfer, Targeted, Renewed
  <2> HIDE DEF r
  <2> QED
    BY <1>1, <2>2, <2>3, <2>4, QuietCore DEF r
<1>5. CASE SelectNewId(t) /\ ~Stop(t)
  <2>1. me.pc = "select"
    BY <1>5 DEF SelectNewId
  <2>2. PICK a \in address :
          /\ a.name = me.name
          /\ task' = [task EXCEPT ![t] = [me EXCEPT !.pc = "handOver", !.id = a.id]]
    BY <1>5 DEF SelectNewId
  <2> DEFINE r == [me EXCEPT !.pc = "handOver", !.id = a.id]
  <2>3. a.id \in AddressId /\ a.id < nextId
    BY DEF CoreInv, TypeOK, AddressOK, AddressRow
  <2>4. \A b \in address : b.id = a.id \/ b.name = a.name => b = a
    BY DEF CoreInv, AddressOK
  <2>5. r \in TaskType
    BY <1>1, <2>3, IdType DEF TaskType
  <2>6. Good(r)
    BY <1>1, <2>1, <2>2, <2>3, <2>4
       DEF TaskType, Good, WellFormed, KnowsRows, HandsOverOwn, HasId, Binding4, Transfer,
           Targeted, Renewed
  <2> HIDE DEF r
  <2> QED
    BY <1>1, <2>2, <2>5, <2>6, QuietCore DEF r
<1> QED
  BY <1>2, <1>3, <1>4, <1>5
(* Deletions of mailboxes *)
LEMMA Shrinks ==
    ASSUME CoreInv, address' \subseteq address, UNCHANGED nextId
    PROVE  MildStep /\ AddressOK' /\ address' \subseteq AddressRow
  BY DEF MildStep, CoreInv, TypeOK, AddressOK

LEMMA CoreDelete ==
    ASSUME CoreInv,
           \/ \E t \in Task : WipeAddress(t) \/ \E S \in SUBSET address : CleanAddresses(t, S)
           \/ \E t \in Task : Remove(t)
           \/ \E i \in AddressId : AdminDelete(i)
    PROVE  CoreInv'
<1>1. task \in [Task -> TaskType] /\ \A s \in Task : Good(task[s])
  BY DEF CoreInv, TypeOK
<1>2. address' \subseteq address /\ UNCHANGED <<nextId, users, cut>>
  BY DEF WipeAddress, CleanAddresses, Remove, AdminDelete, Discard
<1>3. MildStep /\ AddressOK' /\ address' \subseteq AddressRow
  BY <1>2, Shrinks
<1>4. bound' \subseteq Binding
  BY DEF CoreInv, TypeOK, WipeAddress, CleanAddresses, Remove, AdminDelete
<1>5. ASSUME NEW t \in Task, Remove(t)
      PROVE  CoreInv'
  <2>1. PICK r \in TaskType : r = [task[t] EXCEPT !.pc = "recreate"] /\ Good(r)
    BY <1>5, PcGood DEF Remove
  <2>2. task' = [task EXCEPT ![t] = r]
    BY <1>5, <2>1 DEF Remove, Goto
  <2>3. Good(r)'
    BY <2>1, <1>3, GoodStays
  <2>4. task[t].name \in Name
    BY <1>1, <1>5 DEF Remove, Good, WellFormed, Transfer, Targeted
  <2>5. moved' \subseteq Name
    BY <1>5, <2>4 DEF Remove, CoreInv, TypeOK
  <2>6. task' \in [Task -> TaskType] /\ \A s \in Task : Good(task[s])'
    BY <1>3, <2>2, <2>3, OneMoves
  <2> QED
    BY <1>2, <1>3, <1>4, <2>5, <2>6 DEF CoreInv, TypeOK, AddressOK
<1>6. ASSUME NEW t \in Task,
             WipeAddress(t) \/ \E S \in SUBSET address : CleanAddresses(t, S)
      PROVE  CoreInv'
  <2>1. task' = [task EXCEPT ![t] = Idle] /\ moved' \subseteq Name
    BY <1>6 DEF WipeAddress, CleanAddresses, Discard, Stop, CoreInv, TypeOK
  <2>2. Good(Idle)'
    BY IdleType, IdleGood, <1>3, GoodStays
  <2>3. task' \in [Task -> TaskType] /\ \A s \in Task : Good(task[s])'
    BY <1>3, <2>1, <2>2, IdleType, OneMoves
  <2> QED
    BY <1>2, <1>3, <1>4, <2>1, <2>3 DEF CoreInv, TypeOK, AddressOK
<1>7. ASSUME NEW i \in AddressId, AdminDelete(i)
      PROVE  CoreInv'
  <2>1. UNCHANGED task /\ moved' \subseteq Name
    BY <1>7 DEF AdminDelete, Discard, CoreInv, TypeOK
  <2>2. \A s \in Task : Good(task[s])'
    BY <1>1, <1>3, <2>1, GoodStays
  <2> QED
    BY <1>1, <1>2, <1>3, <1>4, <2>1, <2>2 DEF CoreInv, TypeOK, AddressOK
<1> QED
  BY <1>5, <1>6, <1>7

(* A mailbox comes under a free name and a new id. *)
LEMMA Grows ==
    ASSUME CoreInv, NEW n \in Name, ~Taken(n), nextId <= MaxAddress,
           address' = address \cup {[id |-> nextId, name |-> n]}, nextId' = nextId + 1
    PROVE  MildStep /\ AddressOK' /\ address' \subseteq AddressRow /\ nextId \in AddressId
<1> DEFINE row == [id |-> nextId, name |-> n]
<1>1. nextId \in AddressId /\ row \in AddressRow /\ row.id = nextId /\ row.name = n
  BY AddressBindingAssumption DEF CoreInv, AddressOK, AddressId, AddressRow
<1>2. \A a \in address : a.id < nextId /\ a.name # n /\ a.id \in Nat
  BY DEF CoreInv, TypeOK, AddressOK, Taken, AddressRow, AddressId
<1>3. \A a, b \in address : a.id = b.id \/ a.name = b.name => a = b
  BY DEF CoreInv, AddressOK
<1>4. nextId \in Nat \ {0} /\ address \subseteq AddressRow
  BY DEF CoreInv, TypeOK, AddressOK
<1>5. address' = address \cup {row}
  OBVIOUS
<1> HIDE DEF row
<1>6. AddressOK'
  BY <1>1, <1>2, <1>3, <1>4, <1>5 DEF AddressOK
<1> QED
  BY <1>1, <1>4, <1>5, <1>6 DEF MildStep

LEMMA CoreCreate ==
    ASSUME CoreInv,
           (\E t \in Task : Recreate(t)) \/ (\E n \in Name : CreateAddress(n))
    PROVE  CoreInv'
<1>1. task \in [Task -> TaskType] /\ \A s \in Task : Good(task[s])
  BY DEF CoreInv, TypeOK
<1>2. ASSUME NEW n \in Name, CreateAddress(n)
      PROVE  CoreInv'
  <2>1. MildStep /\ AddressOK' /\ address' \subseteq AddressRow
    BY <1>2, Grows DEF CreateAddress
  <2>2. \A s \in Task : Good(task[s])'
    BY <1>1, <1>2, <2>1, GoodStays DEF CreateAddress
  <2> QED
    BY <1>1, <1>2, <2>1, <2>2 DEF CreateAddress, CoreInv, TypeOK, AddressOK
<1>3. ASSUME NEW t \in Task, Recreate(t)
      PROVE  CoreInv'
  <2>1. PICK me \in TaskType : me = task[t] /\ Good(me) /\ me.pc = "recreate"
    BY <1>1, <1>3 DEF Recreate
  <2>2. me.name \in Name /\ me.id \in AddressId /\ me.id < nextId
    BY <2>1 DEF Good, WellFormed, Transfer, Targeted
  <2>3. CASE Taken(me.name)
    <3>1. Stop(t) /\ UNCHANGED <<address, nextId, users, bound, moved, cut>>
      BY <1>3, <2>1, <2>3 DEF Recreate
    <3> QED
      BY <3>1, CoreStop DEF CoreInv, TypeOK
  <2>4. CASE ~Taken(me.name)
    <3> PICK r : r = [me EXCEPT !.pc = "select", !.own = nextId]
      OBVIOUS
    <3>1. /\ address' = address \cup {[id |-> nextId, name |-> me.name]}
          /\ nextId' = nextId + 1 /\ nextId <= MaxAddress
          /\ task' = [task EXCEPT ![t] = r]
          /\ UNCHANGED <<users, bound, moved, cut>>
      BY <1>3, <2>1, <2>4 DEF Recreate
    <3>2. MildStep /\ AddressOK' /\ address' \subseteq AddressRow /\ nextId \in AddressId
      BY <2>2, <2>4, <3>1, Grows
    <3>3. \A a \in address' : a.id = nextId => a.name = me.name
      BY <3>1 DEF CoreInv, AddressOK, TypeOK, AddressRow, AddressId
    <3>4. Good(me)'
      BY <2>1, <3>2, GoodStays
    <3>5. r \in TaskType
      BY <2>1, <3>2, IdType DEF TaskType
    <3>6. nextId \in Nat
      BY DEF CoreInv, TypeOK
    <3>7. Good(r)'
      BY <2>1, <3>1, <3>2, <3>3, <3>4, <3>6
         DEF TaskType, Good, WellFormed, KnowsRows, HandsOverOwn, Binding4, Transfer, Targeted,
             Renewed
    <3>8. task' \in [Task -> TaskType] /\ \A s \in Task : Good(task[s])'
      BY <3>1, <3>2, <3>5, <3>7, OneMoves
    <3> QED
      BY <3>1, <3>2, <3>8 DEF CoreInv, TypeOK, AddressOK
  <2> QED
    BY <2>3, <2>4
<1> QED
  BY <1>2, <1>3

LEMMA CoreCancel ==
    ASSUME CoreInv, NEW t \in Task, Cancel(t)
    PROVE  CoreInv'
<1>1. task[t].pc = "deleteBindings" => task[t].user \in UserId
  BY DEF CoreInv, Good, WellFormed
<1>2. moved' \subseteq Name /\ cut' \subseteq UserId
  BY <1>1 DEF Cancel, CoreInv, TypeOK
<1> QED
  BY <1>2, CoreStop DEF Cancel, CoreInv, TypeOK

LEMMA CoreRegister ==
    ASSUME CoreInv, NEW i \in UserId, NEW p \in Person, Register(i, p)
    PROVE  CoreInv'
<1>1. UNCHANGED <<address, nextId, bound, task, moved, cut>>
      /\ users' \in [UserId -> Person \cup {NoOne}]
  BY DEF Register, CoreInv, TypeOK
<1>2. MildStep
  BY <1>1 DEF MildStep
<1>3. \A s \in Task : Good(task[s])'
  BY <1>1, <1>2, GoodStays DEF CoreInv, TypeOK
<1> QED
  BY <1>1, <1>3 DEF CoreInv, TypeOK, AddressOK

LEMMA CoreStep == CoreInv /\ [Next]_vars => CoreInv'
<1> SUFFICES ASSUME CoreInv, [Next]_vars PROVE CoreInv'
  OBVIOUS
<1>1. CASE UNCHANGED vars
  <2>1. MildStep /\ \A s \in Task : task[s] \in TaskType /\ Good(task[s])
    BY <1>1 DEF vars, MildStep, CoreInv, TypeOK
  <2>2. \A s \in Task : Good(task[s])'
    BY <1>1, <2>1, GoodStays DEF vars
  <2> QED
    BY <1>1, <2>2 DEF vars, CoreInv, TypeOK, AddressOK
<1>2. ASSUME NEW t \in Task, Step(t)
      PROVE  CoreInv'
  BY <1>2, CoreRead, CoreCheck, CoreWrite, CoreDelete, CoreCreate DEF Step
<1> QED
  BY <1>1, <1>2, CoreStart, CoreCancel, CoreRegister, CoreDelete, CoreCreate DEF Next

(* The model's state is well typed. *)
THEOREM TypeCorrect == Spec => []TypeOK
<1>1. CoreInv => TypeOK
  BY DEF CoreInv
<1> QED
  BY <1>1, CoreInit, CoreStep, PTL DEF Spec

(* A transfer hands over the mailbox it created, whatever others delete,   *)
(* create or transfer while it reads the new id back by name.              *)
THEOREM HandsOver == Spec => []TransferHandsOverOwn
<1>1. CoreInv => TransferHandsOverOwn
  BY DEF CoreInv, Good, HandsOverOwn, TransferHandsOverOwn
<1> QED
  BY <1>1, CoreInit, CoreStep, PTL DEF Spec
-----------------------------------------------------------------------------
(* TransferKeepsName for one name *)
Kept(n) == Taken(n) \/ \E t \in Task : task[t].pc = "recreate" /\ task[t].name = n

(* The steps that neither delete nor create a mailbox *)
Calm ==
    /\ UNCHANGED <<address, moved>>
    /\ \A t \in Task : task[t].pc = "recreate" =>
          task'[t].pc = "recreate" /\ task'[t].name = task[t].name

LEMMA CalmSteps ==
    ASSUME CoreInv, NEW t \in Task,
           \/ Start(t) \/ CheckUser(t) \/ CheckBound(t) \/ CheckCount(t) \/ InsertBinding(t)
           \/ CheckUnbindUser(t) \/ Unbind(t)
           \/ CheckSender(t) \/ FindTarget(t) \/ CheckTargetCount(t) \/ CheckSenderBound(t)
           \/ Release(t) \/ SelectNewId(t) \/ HandOver(t) \/ WipeBinding(t)
           \/ DeleteBindings(t)
    PROVE  Calm
<1>1. task \in [Task -> TaskType]
  BY DEF CoreInv, TypeOK
<1>2. CASE Start(t)
  BY <1>1, <1>2 DEF Start, StartBind, StartUnbind, StartTransfer, StartWipe, StartCleanup,
                    StartDeleteUser, Calm
<1>3. CASE \/ CheckUser(t) \/ CheckBound(t) \/ CheckCount(t) \/ CheckUnbindUser(t)
           \/ CheckSender(t) \/ FindTarget(t) \/ CheckTargetCount(t) \/ CheckSenderBound(t)
           \/ SelectNewId(t)
  BY <1>1, <1>3 DEF CheckUser, CheckBound, CheckCount, CheckUnbindUser, CheckSender, FindTarget,
                    CheckTargetCount, CheckSenderBound, SelectNewId, Check, Goto, Stop, Calm
<1>4. CASE \/ InsertBinding(t) \/ Unbind(t) \/ Release(t) \/ HandOver(t) \/ WipeBinding(t)
           \/ DeleteBindings(t)
  BY <1>1, <1>4 DEF InsertBinding, Unbind, Release, HandOver, WipeBinding, DeleteBindings,
                    Goto, Stop, Calm
<1> QED
  BY <1>2, <1>3, <1>4

(* A deletion by another handler takes the names it deletes off the list. *)
LEMMA KeptDiscard ==
    ASSUME TransferKeepsName, NEW S \in SUBSET address, Discard(S),
           \A t \in Task : task[t].pc = "recreate" => task'[t] = task[t]
    PROVE  TransferKeepsName'
<1> SUFFICES ASSUME NEW n \in moved' PROVE Kept(n)'
  BY DEF TransferKeepsName, Kept
<1>1. n \in moved /\ (\A a \in S : a.name # n) /\ address' = address \ S
  BY DEF Discard
<1>2. Kept(n)
  BY <1>1 DEF TransferKeepsName, Kept
<1> QED
  BY <1>1, <1>2 DEF Kept, Taken

LEMMA KeptStep == CoreInv /\ TransferKeepsName /\ [Next]_vars => TransferKeepsName'
<1> SUFFICES ASSUME CoreInv, TransferKeepsName, [Next]_vars PROVE TransferKeepsName'
  OBVIOUS
<1>1. task \in [Task -> TaskType] /\ \A t \in Task : Good(task[t])
  BY DEF CoreInv, TypeOK
<1>2. CASE Calm
  BY <1>2 DEF Calm, TransferKeepsName, Taken
<1>3. CASE UNCHANGED vars
  BY <1>1, <1>2, <1>3 DEF vars, Calm
<1>4. ASSUME NEW t \in Task, Remove(t)
      PROVE  TransferKeepsName'
  <2> DEFINE me == task[t]
  <2>1. me.pc = "recreate" \/ me.pc = "remove"
    BY <1>4 DEF Remove
  <2>2. \A a \in address : a.id = me.id => a.name = me.name
    BY <1>1, <1>4 DEF Remove, Good, KnowsRows, Transfer, Targeted
  <2>3. /\ address' = {a \in address : a.id # me.id}
        /\ moved' \subseteq moved \cup {me.name}
        /\ task'[t].pc = "recreate" /\ task'[t].name = me.name
        /\ \A s \in Task \ {t} : task'[s] = task[s]
        /\ me.pc = "remove"
    BY <1>1, <1>4 DEF Remove, Goto
  <2> SUFFICES ASSUME NEW n \in moved', n # me.name PROVE Kept(n)'
    BY <2>3 DEF TransferKeepsName, Kept
  <2>4. Kept(n)
    BY <2>3 DEF TransferKeepsName, Kept
  <2> QED
    BY <2>2, <2>3, <2>4 DEF Kept, Taken
<1>5. ASSUME NEW t \in Task, Recreate(t)
      PROVE  TransferKeepsName'
  <2>1. /\ address \subseteq address' /\ moved' = moved
        /\ \A s \in Task \ {t} : task'[s] = task[s]
    BY <1>1, <1>5 DEF Recreate, Stop
  <2>2. \/ Taken(task[t].name) /\ address' = address
        \/ address' = address \cup {[id |-> nextId, name |-> task[t].name]}
    BY <1>5 DEF Recreate
  <2> SUFFICES ASSUME NEW n \in moved PROVE Kept(n)'
    BY <2>1 DEF TransferKeepsName, Kept
  <2>3. \E a \in address' : a.name = task[t].name
    <3>1. CASE Taken(task[t].name) /\ address' = address
      BY <3>1 DEF Taken
    <3>2. CASE address' = address \cup {[id |-> nextId, name |-> task[t].name]}
      <4>1. [id |-> nextId, name |-> task[t].name] \in address'
        BY <3>2
      <4> QED
        BY <4>1
    <3> QED
      BY <2>2, <3>1, <3>2
  <2>4. Kept(n)
    BY DEF TransferKeepsName, Kept
  <2> QED
    BY <2>1, <2>3, <2>4 DEF Kept, Taken
<1>6. ASSUME NEW n \in Name, CreateAddress(n)
      PROVE  TransferKeepsName'
  BY <1>6 DEF CreateAddress, TransferKeepsName, Taken
<1>7. ASSUME NEW i \in AddressId, AdminDelete(i)
      PROVE  TransferKeepsName'
  BY <1>7, KeptDiscard DEF AdminDelete
<1>8. ASSUME NEW t \in Task, WipeAddress(t) \/ \E S \in SUBSET address : CleanAddresses(t, S)
      PROVE  TransferKeepsName'
  <2>1. PICK S \in SUBSET address : Discard(S)
    BY <1>8 DEF WipeAddress, CleanAddresses
  <2>2. \A s \in Task : task[s].pc = "recreate" => task'[s] = task[s]
    BY <1>1, <1>8 DEF WipeAddress, CleanAddresses, Stop
  <2> QED
    BY <2>1, <2>2, KeptDiscard
<1>9. ASSUME NEW t \in Task, Cancel(t)
      PROVE  TransferKeepsName'
  <2> SUFFICES ASSUME NEW n \in moved' PROVE Kept(n)'
    BY DEF TransferKeepsName, Kept
  <2>1. n \in moved /\ (task[t].pc = "recreate" => task[t].name # n) /\ address' = address
    BY <1>9 DEF Cancel
  <2>2. \A s \in Task \ {t} : task'[s] = task[s]
    BY <1>1, <1>9 DEF Cancel, Stop
  <2>3. Kept(n)
    BY <2>1 DEF TransferKeepsName, Kept
  <2> QED
    BY <2>1, <2>2, <2>3 DEF Kept, Taken
<1>10. ASSUME NEW i \in UserId, NEW p \in Person, Register(i, p)
       PROVE  TransferKeepsName'
  BY <1>2, <1>10 DEF Register, Calm
<1>11. ASSUME NEW t \in Task, Step(t)
       PROVE  TransferKeepsName'
  BY <1>2, <1>4, <1>5, <1>8, <1>11, CalmSteps DEF Step
<1>12. ASSUME NEW t \in Task, Start(t)
       PROVE  TransferKeepsName'
  BY <1>2, <1>12, CalmSteps
<1> QED
  BY <1>3, <1>6, <1>7, <1>9, <1>10, <1>11, <1>12 DEF Next

(* A transfer never loses the mailbox it deletes and creates anew, however *)
(* many transfers of it run at once, unless it is cut short in between or  *)
(* somebody else deletes the mailbox.                                      *)
THEOREM KeepsName == Spec => []TransferKeepsName
<1> DEFINE Inv == CoreInv /\ TransferKeepsName
<1>1. Init => Inv
  BY CoreInit DEF Init, TransferKeepsName
<1>2. Inv /\ [Next]_vars => Inv'
  BY CoreStep, KeptStep
<1>3. Inv => TransferKeepsName
  OBVIOUS
<1> QED
  BY <1>1, <1>2, <1>3, PTL DEF Spec
-----------------------------------------------------------------------------
Deleting(u) == \E t \in Task : task[t].pc = "deleteBindings" /\ task[t].user = u

(* NoInheritance as an invariant that a registration keeps: also while the *)
(* id is unused, a binding that is left for it has one of the excuses.     *)
Excused(b) ==
    users[b.user] = b.owner \/ b.owner = NoOne \/ b.user \in cut \/ Deleting(b.user)

NoHeirs == \A b \in bound : Excused(b)

(* The steps that leave users and unfinished deletions alone, and insert   *)
(* no binding                                                              *)
Sterile ==
    /\ UNCHANGED users /\ cut \subseteq cut' /\ bound' \subseteq bound
    /\ \A t \in Task : task[t].pc = "deleteBindings" => task'[t] = task[t]

LEMMA SterileSteps ==
    ASSUME CoreInv,
           \/ \E t \in Task :
                \/ CheckUser(t) \/ CheckBound(t) \/ CheckCount(t)
                \/ CheckUnbindUser(t) \/ Unbind(t)
                \/ CheckSender(t) \/ FindTarget(t) \/ CheckTargetCount(t)
                \/ CheckSenderBound(t) \/ Release(t) \/ Remove(t) \/ Recreate(t)
                \/ SelectNewId(t) \/ WipeBinding(t) \/ WipeAddress(t)
                \/ \E S \in SUBSET address : CleanAddresses(t, S)
                \/ \E u \in UserId, i \in AddressId : StartBind(t, u, i) \/ StartUnbind(t, u, i)
                \/ \E u \in UserId, a \in address, p \in Person : StartTransfer(t, u, a, p)
                \/ \E a \in address : StartWipe(t, a)
                \/ \E S \in SUBSET address : StartCleanup(t, S)
           \/ \E n \in Name : CreateAddress(n)
           \/ \E i \in AddressId : AdminDelete(i)
    PROVE  Sterile
<1>1. task \in [Task -> TaskType]
  BY DEF CoreInv, TypeOK
<1>2. CASE \/ \E n \in Name : CreateAddress(n)
           \/ \E i \in AddressId : AdminDelete(i)
  BY <1>2 DEF CreateAddress, AdminDelete, Discard, Sterile
<1>3. ASSUME NEW t \in Task,
             \/ CheckUser(t) \/ CheckBound(t) \/ CheckCount(t) \/ CheckUnbindUser(t)
             \/ CheckSender(t) \/ FindTarget(t) \/ CheckTargetCount(t) \/ CheckSenderBound(t)
             \/ SelectNewId(t)
      PROVE  Sterile
  BY <1>1, <1>3 DEF CheckUser, CheckBound, CheckCount, CheckUnbindUser, CheckSender, FindTarget,
                    CheckTargetCount, CheckSenderBound, SelectNewId, Check, Goto, Stop, Sterile
<1>4. ASSUME NEW t \in Task,
             \/ Unbind(t) \/ Release(t) \/ Remove(t) \/ Recreate(t) \/ WipeBinding(t)
             \/ WipeAddress(t) \/ \E S \in SUBSET address : CleanAddresses(t, S)
      PROVE  Sterile
  BY <1>1, <1>4 DEF Unbind, Unbound, Release, Remove, Recreate, WipeBinding, WipeAddress,
                    CleanAddresses, Discard, Goto, Stop, Sterile
<1>5. ASSUME NEW t \in Task,
             \/ \E u \in UserId, i \in AddressId : StartBind(t, u, i) \/ StartUnbind(t, u, i)
             \/ \E u \in UserId, a \in address, p \in Person : StartTransfer(t, u, a, p)
             \/ \E a \in address : StartWipe(t, a)
             \/ \E S \in SUBSET address : StartCleanup(t, S)
      PROVE  Sterile
  BY <1>1, <1>5 DEF StartBind, StartUnbind, StartTransfer, StartWipe, StartCleanup, Sterile
<1> QED
  BY <1>2, <1>3, <1>4, <1>5

(* The row a request inserts is made for who has the id, or for nobody. *)
LEMMA BindHeirs ==
    ASSUME NoHeirs, NEW u, NEW i, NEW p, Bind(u, i, p), UNCHANGED <<users, cut>>,
           \A t \in Task : task[t].pc = "deleteBindings" => task'[t] = task[t]
    PROVE  NoHeirs'
<1> SUFFICES ASSUME NEW b \in bound' PROVE Excused(b)'
  BY DEF NoHeirs
<1>1. CASE b \in bound
  BY <1>1 DEF NoHeirs, Excused, Deleting
<1>2. CASE b = [user |-> u, address |-> i, owner |-> IF users[u] = p THEN p ELSE NoOne]
  BY <1>2 DEF Excused
<1> QED
  BY <1>1, <1>2 DEF Bind

LEMMA HeirStep == CoreInv /\ NoHeirs /\ [Next]_vars => NoHeirs'
<1> SUFFICES ASSUME CoreInv, NoHeirs, [Next]_vars PROVE NoHeirs'
  OBVIOUS
<1>1. /\ task \in [Task -> TaskType] /\ users \in [UserId -> Person \cup {NoOne}]
      /\ bound \subseteq Binding
  BY DEF CoreInv, TypeOK
<1>2. CASE Sterile
  BY <1>2 DEF Sterile, NoHeirs, Excused, Deleting
<1>3. CASE UNCHANGED vars
  BY <1>2, <1>3 DEF vars, Sterile
<1>4. ASSUME NEW t \in Task, InsertBinding(t) \/ HandOver(t)
      PROVE  NoHeirs'
  <2>1. \A s \in Task : task[s].pc = "deleteBindings" => task'[s] = task[s]
    BY <1>1, <1>4 DEF InsertBinding, HandOver, Stop
  <2> QED
    BY <1>4, <2>1, BindHeirs DEF InsertBinding, HandOver
<1>5. ASSUME NEW t \in Task, DeleteBindings(t)
      PROVE  NoHeirs'
  <2>1. \A s \in Task \ {t} : task'[s] = task[s]
    BY <1>1, <1>5 DEF DeleteBindings, Stop
  <2>2. \A b \in bound' : b \in bound /\ b.user # task[t].user
    BY <1>5 DEF DeleteBindings, BoundTo
  <2> QED
    BY <1>5, <2>1, <2>2 DEF DeleteBindings, NoHeirs, Excused, Deleting
<1>6. ASSUME NEW t \in Task, NEW i \in UserId, StartDeleteUser(t, i)
      PROVE  NoHeirs'
  <2>1. /\ task'[t].pc = "deleteBindings" /\ task'[t].user = i
        /\ \A s \in Task \ {t} : task'[s] = task[s]
        /\ task[t].pc # "deleteBindings"
        /\ \A j \in UserId \ {i} : users'[j] = users[j]
    BY <1>1, <1>6 DEF StartDeleteUser, Idle
  <2>2. \A b \in bound : b.user \in UserId
    BY <1>1 DEF Binding
  <2> QED
    BY <1>6, <2>1, <2>2 DEF StartDeleteUser, NoHeirs, Excused, Deleting
<1>7. ASSUME NEW t \in Task, Cancel(t)
      PROVE  NoHeirs'
  <2>1. /\ \A s \in Task \ {t} : task'[s] = task[s]
        /\ UNCHANGED <<users, bound>> /\ cut \subseteq cut'
        /\ task[t].pc = "deleteBindings" => task[t].user \in cut'
    BY <1>1, <1>7 DEF Cancel, Stop
  <2> QED
    BY <2>1 DEF NoHeirs, Excused, Deleting
<1>8. ASSUME NEW i \in UserId, NEW p \in Person, Register(i, p)
      PROVE  NoHeirs'
  <2>1. /\ \A j \in UserId \ {i} : users'[j] = users[j]
        /\ users[i] = NoOne
        /\ UNCHANGED <<bound, task, cut>>
    BY <1>1, <1>8 DEF Register
  <2>2. \A b \in bound : b.user \in UserId
    BY <1>1 DEF Binding
  <2> QED
    BY <2>1, <2>2 DEF NoHeirs, Excused, Deleting
<1>9. ASSUME NEW t \in Task, Step(t)
      PROVE  NoHeirs'
  BY <1>2, <1>4, <1>5, <1>9, SterileSteps DEF Step
<1>10. ASSUME NEW t \in Task, Start(t)
       PROVE  NoHeirs'
  BY <1>2, <1>6, <1>10, SterileSteps DEF Start
<1> QED
  BY <1>2, <1>3, <1>7, <1>8, <1>9, <1>10, SterileSteps DEF Next

(* Nobody inherits the bindings of the user who had their id before, unless *)
(* that user's deletion is not finished or a request straddled it.          *)
THEOREM NobodyInherits == Spec => []NoInheritance
<1> DEFINE Inv == CoreInv /\ NoHeirs
<1>1. Init => Inv
  BY CoreInit DEF Init, NoHeirs
<1>2. Inv /\ [Next]_vars => Inv'
  BY CoreStep, HeirStep
<1>3. Inv => NoInheritance
  BY DEF NoHeirs, Excused, Deleting, NoInheritance
<1> QED
  BY <1>1, <1>2, <1>3, PTL DEF Spec
-----------------------------------------------------------------------------
Promised == {"senderBound", "release", "remove", "recreate", "select", "handOver"}

(* The requests that passed the count check for u and have yet to insert *)
Admits(r, u) ==
    \/ r.pc = "insert" /\ r.user = u
    \/ r.pc \in Promised /\ r.target = u

Admitted(u) == {t \in Task : Admits(task[t], u)}

(* The strengthening of QuotaOvershootBounded: bindings and admitted       *)
(* requests count together.  A check that passes had at least one place    *)
(* left, and no more than all requests are admitted.                       *)
Room(u) == Cardinality(BoundTo(u)) + Cardinality(Admitted(u)) <= MaxBound + (Cardinality(Task) - 1)

QuotaInv == IsFiniteSet(bound) /\ (MaxBound > 0 => \A u \in UserId : Room(u))

LEMMA Sizes ==
    ASSUME IsFiniteSet(bound), NEW u
    PROVE  /\ IsFiniteSet(BoundTo(u)) /\ Cardinality(BoundTo(u)) \in Nat
           /\ IsFiniteSet(Admitted(u)) /\ Cardinality(Admitted(u)) \in Nat
           /\ Cardinality(Task) \in Nat
           /\ Cardinality(Admitted(u)) <= Cardinality(Task)
<1>1. BoundTo(u) \in SUBSET bound /\ Admitted(u) \in SUBSET Task
  BY DEF BoundTo, Admitted
<1>2. IsFiniteSet(Task) /\ Cardinality(Task) \in Nat
  BY AddressBindingAssumption, FS_CardinalityType
<1> QED
  BY <1>1, <1>2, FS_Subset, FS_CardinalityType

LEMMA RoomShrinks ==
    ASSUME IsFiniteSet(bound), NEW u, Room(u),
           BoundTo(u)' \subseteq BoundTo(u), Admitted(u)' \subseteq Admitted(u)
    PROVE  Room(u)'
<1> DEFINE B == BoundTo(u)  A == Admitted(u)  C == BoundTo(u)'  D == Admitted(u)'
<1>1. /\ IsFiniteSet(B) /\ Cardinality(B) \in Nat /\ IsFiniteSet(A) /\ Cardinality(A) \in Nat
      /\ Cardinality(Task) \in Nat /\ MaxBound \in Nat
  BY Sizes, AddressBindingAssumption
<1>2. C \in SUBSET B /\ D \in SUBSET A
  OBVIOUS
<1> HIDE DEF A, B, C, D
<1>3. /\ IsFiniteSet(C) /\ Cardinality(C) <= Cardinality(B)
      /\ IsFiniteSet(D) /\ Cardinality(D) <= Cardinality(A)
  BY <1>1, <1>2, FS_Subset
<1>4. Cardinality(C) \in Nat /\ Cardinality(D) \in Nat
  BY <1>3, FS_CardinalityType
<1>5. Cardinality(B) + Cardinality(A) <= MaxBound + (Cardinality(Task) - 1)
  BY DEF Room, A, B
<1>6. Cardinality(C) + Cardinality(D) <= MaxBound + (Cardinality(Task) - 1)
  BY <1>1, <1>3, <1>4, <1>5
<1> QED
  BY <1>6 DEF Room, C, D

(* An admitted request inserts its binding and is admitted no more. *)
LEMMA RoomBinds ==
    ASSUME IsFiniteSet(bound), NEW u, Room(u), NEW t \in Admitted(u), NEW b,
           BoundTo(u)' \subseteq BoundTo(u) \cup {b}, Admitted(u)' \subseteq Admitted(u) \ {t}
    PROVE  Room(u)'
<1> DEFINE B == BoundTo(u)  A == Admitted(u)  C == BoundTo(u)'  D == Admitted(u)'
<1>1. /\ IsFiniteSet(B) /\ Cardinality(B) \in Nat /\ IsFiniteSet(A) /\ Cardinality(A) \in Nat
      /\ Cardinality(Task) \in Nat /\ MaxBound \in Nat
  BY Sizes, AddressBindingAssumption
<1>2. C \in SUBSET (B \cup {b}) /\ D \in SUBSET (A \ {t}) /\ t \in A
  OBVIOUS
<1> HIDE DEF A, B, C, D
<1>3. /\ IsFiniteSet(B \cup {b}) /\ Cardinality(B \cup {b}) \in Nat
      /\ Cardinality(B \cup {b}) <= Cardinality(B) + 1
  <2>1. IsFiniteSet(B \cup {b})
    BY <1>1, FS_AddElement
  <2>2. Cardinality(B \cup {b}) = IF b \in B THEN Cardinality(B) ELSE Cardinality(B) + 1
    BY <1>1, FS_AddElement
  <2>3. Cardinality(B \cup {b}) \in Nat
    BY <2>1, FS_CardinalityType
  <2> QED
    BY <1>1, <2>1, <2>2, <2>3
<1>4. /\ IsFiniteSet(A \ {t}) /\ Cardinality(A \ {t}) = Cardinality(A) - 1
  BY <1>1, <1>2, FS_RemoveElement
<1>5. /\ IsFiniteSet(C) /\ Cardinality(C) <= Cardinality(B \cup {b})
      /\ IsFiniteSet(D) /\ Cardinality(D) <= Cardinality(A \ {t})
  BY <1>2, <1>3, <1>4, FS_Subset
<1>6. Cardinality(C) \in Nat /\ Cardinality(D) \in Nat
  BY <1>5, FS_CardinalityType
<1>7. Cardinality(B) + Cardinality(A) <= MaxBound + (Cardinality(Task) - 1)
  BY DEF Room, A, B
<1>8. Cardinality(C) + Cardinality(D) <= MaxBound + (Cardinality(Task) - 1)
  BY <1>1, <1>3, <1>4, <1>5, <1>6, <1>7
<1> QED
  BY <1>8 DEF Room, C, D

(* A request is admitted while a place is left. *)
LEMMA RoomAdmits ==
    ASSUME IsFiniteSet(bound), UNCHANGED bound, NEW u, MaxBound > 0, ~LimitReached(u)
    PROVE  Room(u)'
<1> DEFINE B == BoundTo(u)  D == Admitted(u)'
<1>1. /\ Cardinality(B) \in Nat /\ IsFiniteSet(Task) /\ Cardinality(Task) \in Nat
      /\ MaxBound \in Nat
  BY Sizes, AddressBindingAssumption
<1>2. Cardinality(B) < MaxBound
  BY <1>1 DEF LimitReached
<1>3. D \in SUBSET Task
  BY DEF Admitted
<1> HIDE DEF D
<1>4. Cardinality(D) <= Cardinality(Task) /\ IsFiniteSet(D)
  BY <1>1, <1>3, FS_Subset
<1>5. Cardinality(D) \in Nat
  BY <1>4, FS_CardinalityType
<1>6. Cardinality(B) + Cardinality(D) <= MaxBound + (Cardinality(Task) - 1)
  BY <1>1, <1>2, <1>4, <1>5
<1>7. BoundTo(u)' = B
  BY DEF BoundTo
<1> QED
  BY <1>6, <1>7 DEF Room, D
(* The steps that add no binding and admit no request *)
Modest ==
    /\ bound' \subseteq bound
    /\ \A t \in Task, u \in UserId : Admits(task'[t], u) => Admits(task[t], u)

LEMMA ModestQuota ==
    ASSUME QuotaInv, Modest
    PROVE  QuotaInv'
<1>1. IsFiniteSet(bound) /\ IsFiniteSet(bound')
  BY FS_Subset DEF QuotaInv, Modest
<1>2. ASSUME MaxBound > 0, NEW u \in UserId
      PROVE  Room(u)'
  <2>1. BoundTo(u)' \subseteq BoundTo(u) /\ Admitted(u)' \subseteq Admitted(u)
    BY DEF Modest, BoundTo, Admitted
  <2> QED
    BY <1>1, <1>2, <2>1, RoomShrinks DEF QuotaInv
<1> QED
  BY <1>1, <1>2 DEF QuotaInv

LEMMA ModestSteps ==
    ASSUME CoreInv,
           \/ UNCHANGED vars
           \/ \E t \in Task :
                \/ Start(t) \/ Cancel(t) \/ CheckUser(t) \/ CheckBound(t)
                \/ CheckUnbindUser(t) \/ Unbind(t) \/ CheckSender(t) \/ FindTarget(t)
                \/ CheckSenderBound(t) \/ Release(t) \/ Remove(t) \/ Recreate(t)
                \/ SelectNewId(t) \/ WipeBinding(t) \/ WipeAddress(t) \/ DeleteBindings(t)
                \/ \E S \in SUBSET address : CleanAddresses(t, S)
           \/ \E n \in Name : CreateAddress(n)
           \/ \E i \in AddressId : AdminDelete(i)
           \/ \E i \in UserId, p \in Person : Register(i, p)
    PROVE  Modest
<1>1. task \in [Task -> TaskType]
  BY DEF CoreInv, TypeOK
<1>2. CASE \/ UNCHANGED vars
           \/ \E n \in Name : CreateAddress(n)
           \/ \E i \in AddressId : AdminDelete(i)
           \/ \E i \in UserId, p \in Person : Register(i, p)
  BY <1>2 DEF vars, CreateAddress, AdminDelete, Register, Modest
<1>3. ASSUME NEW t \in Task, \A s \in Task \ {t} : task'[s] = task[s], bound' \subseteq bound,
             \/ task'[t].pc \notin {"insert"} \cup Promised
             \/ /\ task'[t].pc # "insert" /\ task[t].pc \in Promised
                /\ task'[t].target = task[t].target
      PROVE  Modest
  <2>1. \A u \in UserId : Admits(task'[t], u) => Admits(task[t], u)
    BY <1>3 DEF Admits, Promised
  <2> QED
    BY <1>3, <2>1 DEF Modest
<1>4. ASSUME NEW t \in Task, Start(t)
      PROVE  Modest
  <2>1. (\A s \in Task \ {t} : task'[s] = task[s]) /\ bound' \subseteq bound
    BY <1>1, <1>4 DEF Start, StartBind, StartUnbind, StartTransfer, StartWipe, StartCleanup,
                      StartDeleteUser
  <2>2. task'[t].pc \in {"user", "unbindUser", "sender", "wipeBinding", "cleanAddresses",
                         "deleteBindings"}
    BY <1>1, <1>4 DEF Start, StartBind, StartUnbind, StartTransfer, StartWipe, StartCleanup,
                      StartDeleteUser, Idle
  <2> QED
    BY <1>3, <2>1, <2>2 DEF Promised
<1>5. ASSUME NEW t \in Task, Stop(t), bound' \subseteq bound
      PROVE  Modest
  BY <1>1, <1>3, <1>5 DEF Stop, Idle, Promised
<1>6. ASSUME NEW t \in Task, NEW pc, Goto(t, pc), bound' \subseteq bound,
             \/ pc \notin {"insert"} \cup Promised
             \/ pc # "insert" /\ task[t].pc \in Promised
      PROVE  Modest
  <2>1. task[t] \in TaskType
    BY <1>1
  <2>2. /\ \A s \in Task \ {t} : task'[s] = task[s]
        /\ task'[t].pc = pc /\ task'[t].target = task[t].target
    BY <1>1, <1>6, <2>1 DEF Goto, TaskType
  <2> QED
    BY <1>3, <1>6, <2>2
<1>7. ASSUME NEW t \in Task,
             CheckBound(t) \/ CheckUnbindUser(t) \/ CheckSender(t) \/ CheckSenderBound(t)
      PROVE  Modest
  <2>1. PICK pc : /\ Goto(t, pc) \/ Stop(t)
                  /\ \/ pc \notin {"insert"} \cup Promised
                     \/ pc # "insert" /\ task[t].pc \in Promised
    BY <1>7 DEF CheckBound, CheckUnbindUser, CheckSender, CheckSenderBound, Check, Promised
  <2>2. bound' \subseteq bound
    BY <1>7 DEF CheckBound, CheckUnbindUser, CheckSender, CheckSenderBound
  <2> QED
    BY <1>5, <1>6, <2>1, <2>2
<1>8. ASSUME NEW t \in Task,
             CheckUser(t) \/ FindTarget(t) \/ SelectNewId(t) \/ Recreate(t) \/ WipeBinding(t)
      PROVE  Modest
  <2>1. task[t] \in TaskType
    BY <1>1
  <2>2. (\A s \in Task \ {t} : task'[s] = task[s]) /\ bound' \subseteq bound
    BY <1>1, <1>8 DEF CheckUser, FindTarget, SelectNewId, Recreate, WipeBinding, Stop
  <2>3. CASE Stop(t)
    BY <1>5, <2>2, <2>3
  <2>4. CASE CheckUser(t) /\ ~Stop(t)
    <3>1. task'[t].pc = "bound"
      BY <1>1, <2>1, <2>4 DEF CheckUser, TaskType
    <3> QED
      BY <1>3, <2>2, <3>1 DEF Promised
  <2>5. CASE FindTarget(t) /\ ~Stop(t)
    <3>1. PICK u : task' = [task EXCEPT ![t] = [@ EXCEPT !.pc = "targetCount", !.target = u]]
      BY <2>5 DEF FindTarget
    <3>2. task'[t].pc = "targetCount"
      BY <1>1, <2>1, <3>1 DEF TaskType
    <3> QED
      BY <1>3, <2>2, <3>2 DEF Promised
  <2>6. CASE WipeBinding(t)
    <3>1. task'[t].pc = "wipeAddress"
      BY <1>1, <2>6 DEF WipeBinding, Idle
    <3> QED
      BY <1>3, <2>2, <3>1 DEF Promised
  <2>7. CASE SelectNewId(t) /\ ~Stop(t)
    <3>1. PICK i : task' = [task EXCEPT ![t] = [@ EXCEPT !.pc = "handOver", !.id = i]]
      BY <2>7 DEF SelectNewId
    <3>2. task'[t].pc = "handOver" /\ task'[t].target = task[t].target
      BY <1>1, <2>1, <3>1 DEF TaskType
    <3>3. task[t].pc \in Promised
      BY <2>7 DEF SelectNewId, Promised
    <3> QED
      BY <1>3, <2>2, <3>2, <3>3
  <2>8. CASE Recreate(t) /\ ~Stop(t)
    <3>1. task' = [task EXCEPT ![t] = [@ EXCEPT !.pc = "select", !.own = nextId]]
      BY <2>8 DEF Recreate
    <3>2. task'[t].pc = "select" /\ task'[t].target = task[t].target
      BY <1>1, <2>1, <3>1 DEF TaskType
    <3>3. task[t].pc \in Promised
      BY <2>8 DEF Recreate, Promised
    <3> QED
      BY <1>3, <2>2, <3>2, <3>3
  <2> QED
    BY <1>8, <2>3, <2>4, <2>5, <2>6, <2>7, <2>8
<1>9. ASSUME NEW t \in Task,
             \/ Unbind(t) \/ WipeAddress(t) \/ DeleteBindings(t) \/ Cancel(t)
             \/ \E S \in SUBSET address : CleanAddresses(t, S)
      PROVE  Modest
  BY <1>5, <1>9 DEF Unbind, Unbound, WipeAddress, DeleteBindings, Cancel, CleanAddresses
<1>10. ASSUME NEW t \in Task, Release(t) \/ Remove(t)
       PROVE  Modest
  <2>1. task[t].pc \in Promised /\ bound' \subseteq bound
    BY <1>10 DEF Release, Unbound, Remove, Promised
  <2> QED
    BY <1>6, <1>10, <2>1 DEF Release, Remove
<1> QED
  BY <1>2, <1>4, <1>7, <1>8, <1>9, <1>10

LEMMA AdmitQuota ==
    ASSUME CoreInv, QuotaInv, NEW t \in Task, CheckCount(t) \/ CheckTargetCount(t)
    PROVE  QuotaInv'
<1>1. task \in [Task -> TaskType] /\ UNCHANGED bound
  BY DEF CoreInv, TypeOK, CheckCount, CheckTargetCount
<1>2. \A s \in Task \ {t} : task'[s] = task[s]
  BY <1>1 DEF CheckCount, CheckTargetCount, Check, Goto, Stop
<1>3. ASSUME MaxBound > 0, NEW u \in UserId
      PROVE  Room(u)'
  <2>1. CASE ~LimitReached(u)
    BY <1>1, <1>3, <2>1, RoomAdmits DEF QuotaInv
  <2>2. CASE LimitReached(u)
    <3>1. ~Admits(task'[t], u)
      BY <1>1, <2>2 DEF CheckCount, CheckTargetCount, Check, Goto, Stop, Idle, TaskType, Admits,
                        Promised
    <3>2. BoundTo(u)' \subseteq BoundTo(u) /\ Admitted(u)' \subseteq Admitted(u)
      BY <1>1, <1>2, <3>1 DEF BoundTo, Admitted
    <3> QED
      BY <1>3, <3>2, RoomShrinks DEF QuotaInv
  <2> QED
    BY <2>1, <2>2
<1> QED
  BY <1>1, <1>3 DEF QuotaInv

LEMMA BindQuota ==
    ASSUME CoreInv, QuotaInv, NEW t \in Task, InsertBinding(t) \/ HandOver(t)
    PROVE  QuotaInv'
<1>1. task \in [Task -> TaskType]
  BY DEF CoreInv, TypeOK
<1>2. /\ \A s \in Task \ {t} : task'[s] = task[s]
      /\ task'[t] = Idle
  BY <1>1 DEF InsertBinding, HandOver, Stop
<1>3. PICK v, i, p : Bind(v, i, p) /\ Admits(task[t], v)
  BY DEF InsertBinding, HandOver, Admits, Promised
<1>4. PICK b : bound' \subseteq bound \cup {b} /\ b.user = v
  <2> DEFINE new == [user |-> v, address |-> i, owner |-> IF users[v] = p THEN p ELSE NoOne]
  <2>1. bound' \subseteq bound \cup {new}
    BY <1>3 DEF Bind
  <2>2. new.user = v
    OBVIOUS
  <2> HIDE DEF new
  <2> QED
    BY <2>1, <2>2
<1>5. IsFiniteSet(bound) /\ IsFiniteSet(bound')
  <2>1. IsFiniteSet(bound \cup {b})
    BY FS_AddElement DEF QuotaInv
  <2> QED
    BY <1>4, <2>1, FS_Subset DEF QuotaInv
<1>6. ASSUME MaxBound > 0, NEW u \in UserId
      PROVE  Room(u)'
  <2>1. Admitted(u)' \subseteq Admitted(u) \ {t}
    BY <1>2 DEF Admitted, Admits, Promised, Idle
  <2>2. CASE u = v
    <3>1. t \in Admitted(u) /\ BoundTo(u)' \subseteq BoundTo(u) \cup {b}
      BY <1>3, <1>4, <2>2 DEF Admitted, BoundTo
    <3> QED
      BY <1>5, <1>6, <2>1, <3>1, RoomBinds DEF QuotaInv
  <2>3. CASE u # v
    <3>1. BoundTo(u)' \subseteq BoundTo(u)
      BY <1>4, <2>3 DEF BoundTo
    <3> QED
      BY <1>5, <1>6, <2>1, <3>1, RoomShrinks DEF QuotaInv
  <2> QED
    BY <2>2, <2>3
<1> QED
  BY <1>5, <1>6 DEF QuotaInv

LEMMA QuotaInit == Init => QuotaInv
<1> SUFFICES ASSUME Init PROVE QuotaInv
  OBVIOUS
<1>1. IsFiniteSet(bound)
  BY FS_EmptySet DEF Init
<1>2. ASSUME MaxBound > 0, NEW u \in UserId
      PROVE  Room(u)
  <2>1. BoundTo(u) = {} /\ Admitted(u) = {}
    BY IdleType DEF Init, BoundTo, Admitted, Admits, Promised
  <2>2. Cardinality(Task) \in Nat /\ MaxBound \in Nat
    BY <1>1, Sizes, AddressBindingAssumption
  <2> QED
    BY <1>2, <2>1, <2>2, FS_EmptySet DEF Room
<1> QED
  BY <1>1, <1>2 DEF QuotaInv

LEMMA QuotaStep == CoreInv /\ QuotaInv /\ [Next]_vars => QuotaInv'
<1> SUFFICES ASSUME CoreInv, QuotaInv, [Next]_vars PROVE QuotaInv'
  OBVIOUS
<1>1. ASSUME NEW t \in Task, Step(t)
      PROVE  QuotaInv'
  BY <1>1, ModestSteps, ModestQuota, AdmitQuota, BindQuota DEF Step
<1> QED
  BY <1>1, ModestSteps, ModestQuota DEF Next

(* However many requests bind or transfer to a user at once, the user ends *)
(* with at most one mailbox too many per request beyond the first.         *)
THEOREM QuotaBounded == Spec => []QuotaOvershootBounded
<1> DEFINE Inv == CoreInv /\ QuotaInv
<1>1. Init => Inv
  BY CoreInit, QuotaInit
<1>2. Inv /\ [Next]_vars => Inv'
  BY CoreStep, QuotaStep
<1>3. Inv => QuotaOvershootBounded
  <2> SUFFICES ASSUME QuotaInv, MaxBound > 0, NEW u \in UserId
               PROVE  Cardinality(BoundTo(u)) <= MaxBound + (Cardinality(Task) - 1)
    BY DEF QuotaOvershootBounded
  <2>1. Cardinality(BoundTo(u)) + Cardinality(Admitted(u)) <= MaxBound + (Cardinality(Task) - 1)
    BY DEF QuotaInv, Room
  <2>2. /\ Cardinality(BoundTo(u)) \in Nat /\ Cardinality(Admitted(u)) \in Nat
        /\ Cardinality(Task) \in Nat /\ MaxBound \in Nat
    BY Sizes, AddressBindingAssumption DEF QuotaInv
  <2> QED
    BY <2>1, <2>2
<1> QED
  BY <1>1, <1>2, <1>3, PTL DEF Spec
=============================================================================
