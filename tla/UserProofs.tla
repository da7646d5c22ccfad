----------------------------- MODULE UserProofs -----------------------------
(***************************************************************************)
(* Theorems about users.  UserAccounts for any number of requests, clients *)
(* and emails and any limit: nobody's account is taken over, no code is    *)
(* replaced early, and the requests of a client in a day are bounded.      *)
(* UserSession for any number of calls, users, mailboxes and tokens: the   *)
(* two action properties; that every call ends is liveness and is left to  *)
(* the model checker.  TelegramBinding for any number of requests, chats   *)
(* and mailboxes and any maximum: the chat's list and the mailbox's entry, *)
(* which nothing but the order of the calls relates.                       *)
(***************************************************************************)
EXTENDS UserAccounts, UserSession, TelegramBinding, FiniteSetTheorems,
        NaturalsInduction, WellFoundedInduction, TLAPS

-----------------------------------------------------------------------------
(* UserAccounts                                                            *)

(* What a visit promises at its position: the count it is about to write   *)
(* is within the limit.                                                    *)
VisitOK ==
    \A v \in Visit :
        /\ visit[v].pc \in {"read", "write"} => visit[v].client \in Client
        /\ visit[v].pc = "write" => visit[v].count < DailyLimit

(* The codes in mailboxes are numbered as they were mailed, none was       *)
(* mailed twice, and what is stored for an email was mailed to it.         *)
CodesOK ==
    /\ Issued = 1..Cardinality(Issued) /\ Cardinality(Issued) \in Nat
    /\ \A e, f \in Email : \A k : k \in mailed[e] /\ k \in mailed[f] => e = f
    /\ \A e \in Email : code[e] # 0 => code[e] \in mailed[e]

(* What a request's local state r promises at its position. *)
ReqOK(r) ==
    /\ r.pc # "idle" => r.email \in Email
    /\ r.pc \in {"check", "insert", "upsert"} => r.by \in Email
    /\ r.pc \in {"check", "upsert"} => r.code \in mailed[r.by]
    /\ r.pc \in {"put", "upsert"} => r.code \in mailed[r.email]
    /\ r.pc \in {"send", "put"} /\ ~r.overtaken => code[r.email] = 0

IInv == TypeOK /\ VisitOK /\ CodesOK /\ \A v \in Visit : ReqOK(req[v])

-----------------------------------------------------------------------------
LEMMA IdleType == Idle \in ReqType /\ Idle.pc = "idle" /\ ReqOK(Idle)
  BY UserAccountsAssumption DEF Idle, ReqType, ReqOK

LEMMA OutsideType ==
    /\ Outside \in [pc: {"out", "read", "write", "in"}, client: Client \cup {NoClient},
                    count: 0..DailyLimit]
    /\ Outside.pc = "out"
  BY AccessControlAssumption DEF Outside

LEMMA InvInit == Init => IInv
<1> SUFFICES ASSUME Init PROVE IInv
  OBVIOUS
<1>1. TypeOK
  BY OutsideType, IdleType, AccessControlAssumption, UserAccountsAssumption
     DEF Init, AccessInit, TypeOK, AccessType
<1>2. VisitOK
  BY OutsideType DEF Init, AccessInit, VisitOK
<1>3. Issued = {}
  BY DEF Init, Issued
<1>4. Cardinality(Issued) = 0
  BY <1>3, FS_EmptySet
<1>5. CodesOK
  BY <1>3, <1>4 DEF Init, CodesOK
<1>6. \A v \in Visit : ReqOK(req[v])
  BY IdleType DEF Init
<1> QED
  BY <1>1, <1>2, <1>5, <1>6 DEF IInv

-----------------------------------------------------------------------------
(* The access control on its own *)
LEMMA AccessStep ==
    ASSUME AccessType, VisitOK, AccessNext
    PROVE  AccessType' /\ VisitOK'
<1> DEFINE V == [pc: {"out", "read", "write", "in"}, client: Client \cup {NoClient},
                 count: 0..DailyLimit]
<1>1. ASSUME NEW v \in Visit, NEW r \in V, visit' = [visit EXCEPT ![v] = r],
             r.pc \in {"read", "write"} => r.client \in Client,
             r.pc = "write" => r.count < DailyLimit
      PROVE  visit' \in [Visit -> V] /\ VisitOK'
  <2>1. visit' \in [Visit -> V]
    BY <1>1 DEF AccessType
  <2>2. \A w \in Visit : visit'[w] = IF w = v THEN r ELSE visit[w]
    BY <1>1 DEF AccessType
  <2> QED
    BY <1>1, <2>1, <2>2 DEF VisitOK
<1>2. ASSUME NEW v \in Visit, NEW i \in Client, Arrive(v, i) PROVE AccessType' /\ VisitOK'
  <2>1. PICK pc \in {"in", "read"} :
          visit' = [visit EXCEPT ![v] = [pc |-> pc, client |-> i, count |-> 0]]
    BY <1>2 DEF Arrive
  <2>2. PICK r : r = [pc |-> pc, client |-> i, count |-> 0]
    OBVIOUS
  <2>3. r \in V /\ r.client = i /\ r.pc # "write"
    BY <2>2, AccessControlAssumption
  <2> QED
    BY <1>1, <1>2, <2>1, <2>2, <2>3 DEF AccessType, Arrive
<1>3. ASSUME NEW v \in Visit, ReadCount(v) PROVE AccessType' /\ VisitOK'
  <2>1. visit[v] \in V /\ visit[v].pc = "read" /\ visit[v].client \in Client
    BY <1>3 DEF ReadCount, AccessType, VisitOK
  <2>2. daily[visit[v].client] \in 0..DailyLimit
    BY <2>1 DEF AccessType
  <2>3. CASE daily[visit[v].client] >= DailyLimit
    BY <1>1, <1>3, <2>3, OutsideType DEF ReadCount, AccessType
  <2>4. CASE ~(daily[visit[v].client] >= DailyLimit)
    <3>0. PICK d \in 0..DailyLimit : d = daily[visit[v].client] /\ d < DailyLimit
      BY <2>2, <2>4, AccessControlAssumption
    <3>1. PICK r : r = [visit[v] EXCEPT !.pc = "write", !.count = d]
      OBVIOUS
    <3>2. r \in V /\ r.pc = "write" /\ r.client = visit[v].client /\ r.count < DailyLimit
      BY <2>1, <3>0, <3>1
    <3>3. visit' = [visit EXCEPT ![v] = r]
      BY <1>3, <2>4, <3>0, <3>1 DEF ReadCount
    <3> QED
      BY <1>1, <1>3, <2>1, <3>2, <3>3 DEF ReadCount, AccessType
  <2> QED
    BY <2>3, <2>4
<1>4. ASSUME NEW v \in Visit, CountFails(v) \/ WriteCount(v) PROVE visit' \in [Visit -> V] /\ VisitOK'
  <2>0. visit[v] \in V
    BY DEF AccessType
  <2>1. PICK d \in 0..DailyLimit : d = 0
    BY AccessControlAssumption
  <2>2. PICK r : r = [visit[v] EXCEPT !.pc = "in", !.count = d]
    OBVIOUS
  <2>3. r \in V /\ r.pc = "in"
    BY <2>0, <2>2
  <2>4. visit' = [visit EXCEPT ![v] = r]
    BY <1>4, <2>1, <2>2 DEF CountFails, WriteCount
  <2> QED
    BY <1>1, <2>3, <2>4
<1>5. ASSUME NEW v \in Visit, CountFails(v) PROVE AccessType' /\ VisitOK'
  BY <1>4, <1>5 DEF CountFails, AccessType
<1>6. ASSUME NEW v \in Visit, WriteCount(v) PROVE AccessType' /\ VisitOK'
  <2>1. visit[v].client \in Client /\ visit[v].count \in 0..DailyLimit /\ visit[v].count < DailyLimit
    BY <1>6 DEF WriteCount, AccessType, VisitOK
  <2>2. daily' \in [Client -> 0..DailyLimit] /\ admitted' \in [Client -> 0..MaxCount]
    BY <1>6, <2>1, AccessControlAssumption DEF WriteCount, AccessType
  <2> QED
    BY <1>4, <1>6, <2>2 DEF AccessType
<1> QED
  BY <1>2, <1>3, <1>5, <1>6 DEF AccessNext

(* The answer leaves the room of a visit empty. *)
LEMMA LeaveStep ==
    ASSUME AccessType, VisitOK, NEW v \in Visit, UNCHANGED visit \/ Leave(v),
           UNCHANGED <<daily, admitted>>
    PROVE  AccessType' /\ VisitOK'
<1>1. CASE UNCHANGED visit
  BY <1>1 DEF AccessType, VisitOK
<1>2. CASE Leave(v)
  <2>1. \A w \in Visit : visit'[w] = IF w = v THEN Outside ELSE visit[w]
    BY <1>2 DEF Leave, AccessType
  <2> QED
    BY <1>2, <2>1, OutsideType DEF Leave, AccessType, VisitOK
<1> QED
  BY <1>1, <1>2

-----------------------------------------------------------------------------
(* The requests stay well formed when codes are only mailed, and the codes *)
(* that are stored only vanish.                                            *)
LEMMA ReqKept ==
    ASSUME TypeOK, NEW r, ReqOK(r),
           \A e \in Email : mailed[e] \subseteq mailed'[e],
           \A e \in Email : code'[e] = code[e] \/ code'[e] = 0
    PROVE  ReqOK(r)'
  BY DEF ReqOK

(* A step of the request v, or of nobody, that writes no code. *)
LEMMA Moves ==
    ASSUME IInv, NEW v \in Visit, NEW r \in ReqType, ReqOK(r),
           req' = [req EXCEPT ![v] = r],
           AccessType', VisitOK', verifying' \in BOOLEAN,
           users' \in [Email -> Email \cup {Admin, NoUser, NoPassword}],
           UNCHANGED <<code, mailed>>
    PROVE  IInv'
<1>1. \A w \in Visit : req'[w] = IF w = v THEN r ELSE req[w]
  BY DEF IInv, TypeOK
<1>2. TypeOK'
  BY DEF IInv, TypeOK
<1>3. CodesOK'
  BY DEF IInv, CodesOK, Issued
<1>4. \A w \in Visit : ReqOK(req[w])'
  BY <1>1 DEF IInv, ReqOK
<1> QED
  BY <1>2, <1>3, <1>4 DEF IInv

LEMMA Stays ==
    ASSUME IInv, UNCHANGED <<req, mailed>>,
           AccessType', VisitOK', verifying' \in BOOLEAN,
           users' \in [Email -> Email \cup {Admin, NoUser, NoPassword}],
           code' \in [Email -> 0..MaxCode],
           \A e \in Email : code'[e] = code[e] \/ code'[e] = 0
    PROVE  IInv'
<1>1. TypeOK'
  BY DEF IInv, TypeOK
<1>2. CodesOK'
  <2>1. Issued' = Issued
    BY DEF Issued
  <2> QED
    BY <2>1 DEF IInv, CodesOK
<1>3. \A w \in Visit : ReqOK(req[w])'
  BY DEF IInv, ReqOK
<1> QED
  BY <1>1, <1>2, <1>3 DEF IInv

(* A request is answered. *)
LEMMA Answered ==
    ASSUME IInv, NEW v \in Visit, Answer(v), UNCHANGED <<daily, admitted, verifying, code, mailed>>,
           users' \in [Email -> Email \cup {Admin, NoUser, NoPassword}]
    PROVE  IInv'
<1>1. AccessType' /\ VisitOK'
  BY LeaveStep DEF Answer, IInv, TypeOK
<1> QED
  BY <1>1, Moves, IdleType DEF Answer, IInv, TypeOK

(* A request begins, or goes on to another position, in its state r. *)
LEMMA Proceeds ==
    ASSUME IInv, NEW v \in Visit, NEW r \in ReqType, ReqOK(r),
           req' = [req EXCEPT ![v] = r],
           UNCHANGED <<visit, daily, admitted, verifying, users, code, mailed>>
    PROVE  IInv'
<1>1. AccessType' /\ VisitOK'
  BY LeaveStep DEF IInv, TypeOK
<1> QED
  BY <1>1, Moves DEF IInv, TypeOK

LEMMA StartSteps ==
    ASSUME IInv, NEW v \in Visit,
           \/ \E e \in Email : StartVerify(v, e)
           \/ \E p, e \in Email : \E k \in mailed[p] \cup {0} : StartRegister(v, p, e, k)
    PROVE  IInv'
<1>1. ASSUME NEW e \in Email, StartVerify(v, e) PROVE IInv'
  <2>1. PICK r : r = [Idle EXCEPT !.pc = "find", !.by = e, !.email = e]
    OBVIOUS
  <2>2. r \in ReqType /\ r.pc = "find" /\ r.email = e
    BY <2>1, IdleType DEF ReqType
  <2>3. ReqOK(r)
    BY <2>2 DEF ReqOK
  <2> QED
    BY <1>1, <2>1, <2>2, <2>3, Proceeds DEF StartVerify, Begin
<1>2. ASSUME NEW p \in Email, NEW e \in Email, NEW k \in mailed[p] \cup {0},
             StartRegister(v, p, e, k)
      PROVE  IInv'
  <2>1. PICK pc : pc = IF verifying THEN "check" ELSE "insert"
    OBVIOUS
  <2>2. PICK r : r = [Idle EXCEPT !.pc = pc, !.by = p, !.email = e, !.code = k]
    OBVIOUS
  <2>3. pc \in {"check", "insert"} /\ k \in 0..MaxCode /\ (pc = "check" => k \in mailed[p])
    <3>1. mailed[p] \subseteq 1..MaxCode
      BY DEF IInv, TypeOK
    <3>2. k \in 0..MaxCode
      BY <3>1, UserAccountsAssumption
    <3>3. pc = "check" => k # 0
      BY <1>2, <2>1 DEF StartRegister
    <3> QED
      BY <2>1, <3>2, <3>3
  <2>4. r \in ReqType /\ r.pc = pc /\ r.email = e /\ r.by = p /\ r.code = k
    BY <2>2, <2>3, IdleType DEF ReqType
  <2>5. ReqOK(r)
    BY <2>3, <2>4 DEF ReqOK
  <2> QED
    BY <1>2, <2>1, <2>2, <2>4, <2>5, Proceeds DEF StartRegister, Begin
<1> QED
  BY <1>1, <1>2

LEMMA CheckSteps ==
    ASSUME IInv, NEW v \in Visit, FindCode(v) \/ CheckCode(v)
    PROVE  IInv'
<1>1. req[v] \in ReqType /\ ReqOK(req[v])
  BY DEF IInv, TypeOK
<1>2. CASE Answer(v)
  BY <1>2, Answered DEF FindCode, CheckCode, IInv, TypeOK
<1>3. CASE FindCode(v) /\ ~Answer(v)
  <2>1. PICK r : r = [req[v] EXCEPT !.pc = "send"]
    OBVIOUS
  <2>2. r \in ReqType /\ r.pc = "send" /\ r.email = req[v].email
    BY <1>1, <2>1 DEF ReqType
  <2>3. ReqOK(r)
    BY <1>1, <1>3, <2>2 DEF ReqOK, FindCode
  <2> QED
    BY <1>3, <2>1, <2>2, <2>3, Proceeds DEF FindCode, Goto
<1>4. CASE CheckCode(v) /\ ~Answer(v)
  <2>1. PICK r : r = [req[v] EXCEPT !.pc = "upsert"]
    OBVIOUS
  <2>2. r \in ReqType /\ r.pc = "upsert" /\ r.email = req[v].email /\ r.by = req[v].by
        /\ r.code = req[v].code
    BY <1>1, <2>1 DEF ReqType
  <2>3. req[v].code \in mailed[req[v].by] /\ req[v].by \in Email /\ req[v].email \in Email
    BY <1>1, <1>4 DEF ReqOK, CheckCode
  <2>4. code[req[v].email] # 0
    BY <1>4, <2>3 DEF CheckCode, IInv, TypeOK
  <2>5. ReqOK(r)
    BY <1>4, <2>2, <2>3, <2>4 DEF ReqOK, CheckCode, IInv, CodesOK
  <2> QED
    BY <1>4, <2>1, <2>2, <2>5, Proceeds DEF CheckCode, Goto
<1> QED
  BY <1>2, <1>3, <1>4

LEMMA SendStep ==
    ASSUME IInv, NEW v \in Visit, SendCode(v)
    PROVE  IInv'
<1>1. req[v] \in ReqType /\ ReqOK(req[v]) /\ req[v].pc = "send" /\ req[v].email \in Email
  BY DEF IInv, TypeOK, SendCode, ReqOK
<1>2. CASE Answer(v) /\ UNCHANGED mailed
  BY <1>2, Answered DEF SendCode, IInv, TypeOK
<1>3. CASE /\ NextCode <= MaxCode
           /\ mailed' = [mailed EXCEPT ![req[v].email] = @ \cup {NextCode}]
           /\ req' = [req EXCEPT ![v] = [@ EXCEPT !.pc = "put", !.code = NextCode]]
           /\ UNCHANGED visit
  <2>1. PICK n, e : n = NextCode /\ e = req[v].email
    OBVIOUS
  <2>2. Cardinality(Issued) \in Nat /\ n = Cardinality(Issued) + 1 /\ n \in 1..MaxCode
        /\ n \notin Issued
    BY <1>3, <2>1, UserAccountsAssumption DEF NextCode, IInv, CodesOK
  <2>3. e \in Email /\ mailed \in [Email -> SUBSET (1..MaxCode)]
        /\ mailed' = [mailed EXCEPT ![e] = @ \cup {n}]
    BY <1>1, <1>3, <2>1 DEF IInv, TypeOK
  <2>4. mailed' \in [Email -> SUBSET (1..MaxCode)]
    BY <2>2, <2>3
  <2>5. Issued' = Issued \cup {n}
    BY <2>3 DEF Issued
  <2>6. Issued' = 1..n
    BY <2>2, <2>5 DEF IInv, CodesOK
  <2>7. Cardinality(1..n) = n
    BY <2>2, FS_Interval
  <2>8. \A f \in Email : n \notin mailed[f]
    BY <2>2 DEF Issued
  <2>9. CodesOK'
    <3>1. \A f \in Email : mailed'[f] = IF f = e THEN mailed[f] \cup {n} ELSE mailed[f]
      BY <2>3
    <3>2. UNCHANGED code
      BY DEF SendCode
    <3>3. Issued' = 1..Cardinality(Issued') /\ Cardinality(Issued') \in Nat
      BY <2>2, <2>6, <2>7
    <3>4. \A f, g \in Email : \A k : k \in mailed'[f] /\ k \in mailed'[g] => f = g
      <4> TAKE f, g \in Email
      <4> TAKE k
      <4>1. (k \in mailed[f] /\ k \in mailed[g] => f = g) /\ n \notin mailed[f] /\ n \notin mailed[g]
        BY <2>8 DEF IInv, CodesOK
      <4> QED
        BY <3>1, <4>1
    <3>5. \A f \in Email : code'[f] # 0 => code'[f] \in mailed'[f]
      BY <3>1, <3>2 DEF IInv, CodesOK
    <3> QED
      BY <3>3, <3>4, <3>5 DEF CodesOK
  <2>10. PICK r : r = [req[v] EXCEPT !.pc = "put", !.code = n]
    OBVIOUS
  <2>11. n \in 0..MaxCode
    BY <2>2, UserAccountsAssumption
  <2>12. r \in ReqType /\ r.pc = "put" /\ r.code = n /\ r.email = e
         /\ r.overtaken = req[v].overtaken
    BY <1>1, <2>1, <2>10, <2>11 DEF ReqType
  <2>13. \A w \in Visit : req'[w] = IF w = v THEN r ELSE req[w]
    BY <1>3, <2>1, <2>10 DEF IInv, TypeOK
  <2>14. UNCHANGED <<visit, daily, admitted, verifying, users, code>>
    BY <1>3 DEF SendCode
  <2>15. AccessType' /\ VisitOK'
    BY <2>14, LeaveStep DEF IInv, TypeOK
  <2>16. TypeOK'
    <3>1. req' \in [Visit -> ReqType]
      BY <1>3, <2>1, <2>10, <2>12 DEF IInv, TypeOK
    <3> QED
      BY <2>4, <2>14, <2>15, <3>1 DEF IInv, TypeOK
  <2>17. ASSUME NEW w \in Visit PROVE ReqOK(req[w])'
    <3>1. \A f \in Email : mailed[f] \subseteq mailed'[f]
      BY <2>3
    <3>2. ReqOK(r)'
      BY <1>1, <2>1, <2>3, <2>12, <2>14 DEF ReqOK
    <3>3. w # v => ReqOK(req[w])
      BY DEF IInv
    <3> QED
      BY <2>13, <2>14, <3>1, <3>2, <3>3 DEF ReqOK
  <2> QED
    BY <2>9, <2>15, <2>16, <2>17 DEF IInv
<1> QED
  BY <1>2, <1>3 DEF SendCode

LEMMA PutStep ==
    ASSUME IInv, NEW v \in Visit, PutCode(v)
    PROVE  IInv'
<1>1. PICK e : e = req[v].email
  OBVIOUS
<1>2. /\ req[v] \in ReqType /\ req[v].pc = "put" /\ e \in Email /\ req[v].code \in mailed[e]
      /\ req \in [Visit -> ReqType]
  BY <1>1 DEF IInv, TypeOK, PutCode, ReqOK
<1>3. /\ code' = [code EXCEPT ![e] = req[v].code]
      /\ req' = [w \in Visit |->
                   IF w = v THEN Idle
                   ELSE IF req[w].email = e /\ req[w].pc \in {"send", "put"}
                   THEN [req[w] EXCEPT !.overtaken = TRUE] ELSE req[w]]
      /\ Leave(v) /\ UNCHANGED <<daily, admitted, verifying, users, mailed>>
  BY <1>1 DEF PutCode
<1>4. AccessType' /\ VisitOK'
  BY <1>3, LeaveStep DEF IInv, TypeOK
<1>5. code' \in [Email -> 0..MaxCode] /\ \A f \in Email : f # e => code'[f] = code[f]
  BY <1>2, <1>3 DEF IInv, TypeOK, ReqType
<1>6. code'[e] = req[v].code
  BY <1>2, <1>3 DEF IInv, TypeOK
<1>7. ASSUME NEW w \in Visit
      PROVE  /\ req'[w] \in ReqType
             /\ \/ w = v /\ req'[w] = Idle
                \/ w # v /\ req'[w] = req[w] /\ ~(req[w].email = e /\ req[w].pc \in {"send", "put"})
                \/ /\ w # v /\ req'[w].overtaken = TRUE
                   /\ req'[w].pc = req[w].pc /\ req'[w].email = req[w].email
                   /\ req'[w].by = req[w].by /\ req'[w].code = req[w].code
  <2>1. req[w] \in ReqType /\ Idle \in ReqType
    BY <1>2, IdleType
  <2> QED
    BY <1>3, <2>1 DEF ReqType
<1>8. TypeOK'
  <2>1. req' \in [Visit -> ReqType]
    BY <1>3, <1>7
  <2> QED
    BY <1>3, <1>4, <1>5, <2>1 DEF IInv, TypeOK
<1>9. CodesOK'
  BY <1>2, <1>3, <1>5, <1>6 DEF IInv, CodesOK, Issued
<1>10. ASSUME NEW w \in Visit PROVE ReqOK(req[w])'
  <2>1. CASE req'[w] = Idle
    BY <2>1, IdleType DEF ReqOK
  <2>2. CASE req'[w] = req[w] /\ ~(req[w].email = e /\ req[w].pc \in {"send", "put"})
    BY <1>3, <1>5, <2>2 DEF IInv, ReqOK
  <2>3. CASE /\ req'[w].overtaken = TRUE
             /\ req'[w].pc = req[w].pc /\ req'[w].email = req[w].email
             /\ req'[w].by = req[w].by /\ req'[w].code = req[w].code
    BY <1>3, <2>3 DEF IInv, ReqOK
  <2> QED
    BY <1>7, <2>1, <2>2, <2>3
<1> QED
  BY <1>4, <1>8, <1>9, <1>10 DEF IInv

(* What a creation may make of the accounts *)
LEMMA CreatedType ==
    ASSUME TypeOK, NEW e \in Email, NEW p \in Email \cup {Admin, NoUser, NoPassword}
    PROVE  /\ Created(e, p) \in [Email -> Email \cup {Admin, NoUser, NoPassword}]
           /\ \A f \in Email : users[f] # NoUser => Created(e, p)[f] = users[f]
  BY DEF TypeOK, Created

LEMMA WriteSteps ==
    ASSUME IInv, NEW v \in Visit, InsertUser(v) \/ UpsertUser(v)
    PROVE  IInv'
<1>1. req[v].email \in Email /\ req[v].by \in Email
  BY DEF IInv, ReqOK, InsertUser, UpsertUser
<1>2. users' \in [Email -> Email \cup {Admin, NoUser, NoPassword}]
  <2>1. CASE InsertUser(v)
    BY <1>1, <2>1, CreatedType DEF InsertUser, IInv
  <2>2. CASE UpsertUser(v)
    BY <1>1, <2>2 DEF UpsertUser, IInv, TypeOK
  <2> QED
    BY <2>1, <2>2
<1> QED
  BY <1>2, Answered DEF InsertUser, UpsertUser

LEMMA OutsideSteps ==
    ASSUME IInv,
           \/ AccessNext /\ UNCHANGED <<verifying, users, code, mailed, req>>
           \/ \E e \in Email : Expire(e) \/ OAuth2Login(e) \/ AdminUser(e)
           \/ ChangeSettings
    PROVE  IInv'
<1>1. CASE AccessNext /\ UNCHANGED <<verifying, users, code, mailed, req>>
  BY <1>1, AccessStep, Stays DEF IInv, TypeOK
<1>2. CASE UNCHANGED <<visit, daily, admitted>>
  <2>1. AccessType' /\ VisitOK'
    BY <1>2 DEF IInv, TypeOK, AccessType, VisitOK
  <2>2. ASSUME NEW e \in Email, Expire(e) PROVE IInv'
    BY <2>1, <2>2, Stays, UserAccountsAssumption DEF Expire, IInv, TypeOK
  <2>3. ASSUME NEW e \in Email, OAuth2Login(e) \/ AdminUser(e) PROVE IInv'
    <3>1. users' \in [Email -> Email \cup {Admin, NoUser, NoPassword}]
      <4>1. CASE users' = Created(e, NoPassword) \/ users' = Created(e, Admin)
        BY <4>1, CreatedType DEF IInv
      <4>2. CASE users' = [users EXCEPT ![e] = Admin] \/ users' = [users EXCEPT ![e] = NoUser]
        BY <4>2 DEF IInv, TypeOK
      <4> QED
        BY <2>3, <4>1, <4>2 DEF OAuth2Login, AdminUser
    <3> QED
      BY <2>1, <2>3, <3>1, Stays DEF OAuth2Login, AdminUser, IInv, TypeOK
  <2>4. CASE ChangeSettings
    BY <2>1, <2>4, Stays DEF ChangeSettings, IInv, TypeOK
  <2>5. CASE AccessNext /\ UNCHANGED <<verifying, users, code, mailed, req>>
    BY <1>1, <2>5
  <2> QED
    BY <2>2, <2>3, <2>4, <2>5
<1>3. CASE ~UNCHANGED <<visit, daily, admitted>>
  BY <1>1, <1>3 DEF Expire, OAuth2Login, AdminUser, ChangeSettings
<1> QED
  BY <1>2, <1>3

LEMMA InvStep == IInv /\ [Next]_vars => IInv'
<1> SUFFICES ASSUME IInv, [Next]_vars PROVE IInv'
  OBVIOUS
<1>1. CASE UNCHANGED vars
  <2>1. AccessType' /\ VisitOK'
    BY <1>1 DEF vars, IInv, TypeOK, AccessType, VisitOK
  <2> QED
    BY <1>1, <2>1, Stays DEF vars, IInv, TypeOK
<1>2. ASSUME NEW v \in Visit, Cancel(v) PROVE IInv'
  BY <1>2, Answered DEF Cancel, IInv, TypeOK
<1> QED
  BY <1>1, <1>2, StartSteps, CheckSteps, SendStep, PutStep, WriteSteps, OutsideSteps DEF Next, Step

-----------------------------------------------------------------------------
(* Type correctness of the accounts for all parameters; among it, that the *)
(* stored counter never exceeds the limit.                                 *)
THEOREM TypeCorrect == Spec => []TypeOK
<1>1. IInv => TypeOK
  BY DEF IInv
<1> QED
  BY <1>1, InvInit, InvStep, PTL DEF Spec

(* Whoever asks for codes and registers, and however the requests meet,    *)
(* the password of an account is only replaced by the reader of its email  *)
(* and by the admin (user.ts:116-158).                                     *)
THEOREM NobodyTakesOver == Spec => NoTakeover
<1>1. ASSUME IInv, [Next]_vars, NEW e \in Email, users[e] # NoUser, users'[e] \notin {NoUser, users[e]}
      PROVE  users'[e] \in {e, Admin}
  <2>1. users' # users /\ users \in [Email -> Email \cup {Admin, NoUser, NoPassword}]
    BY <1>1 DEF IInv, TypeOK
  <2>2. \/ \E v \in Visit : InsertUser(v) \/ UpsertUser(v)
        \/ \E f \in Email : OAuth2Login(f) \/ AdminUser(f)
    BY <1>1, <2>1 DEF Next, Step, vars, AccessNext, FindCode, SendCode, PutCode, CheckCode, Cancel,
       StartVerify, StartRegister, Expire, ChangeSettings
  <2>3. ASSUME NEW v \in Visit, InsertUser(v) PROVE FALSE
    BY <1>1, <2>3, CreatedType DEF InsertUser, IInv, ReqOK
  <2>4. ASSUME NEW v \in Visit, UpsertUser(v) PROVE users'[e] = e
    <3>1. /\ req[v].by \in Email /\ req[v].email \in Email
          /\ req[v].code \in mailed[req[v].by] /\ req[v].code \in mailed[req[v].email]
      BY <1>1, <2>4 DEF UpsertUser, IInv, ReqOK
    <3>2. req[v].by = req[v].email
      BY <1>1, <3>1 DEF IInv, CodesOK
    <3>3. req[v].email = e
      BY <1>1, <2>1, <2>4, <3>1 DEF UpsertUser
    <3> QED
      BY <2>1, <2>4, <3>2, <3>3 DEF UpsertUser
  <2>5. ASSUME NEW f \in Email, OAuth2Login(f) PROVE FALSE
    BY <1>1, <2>5, CreatedType DEF OAuth2Login, IInv
  <2>6. ASSUME NEW f \in Email, AdminUser(f) PROVE users'[e] = Admin
    BY <1>1, <2>1, <2>6, CreatedType DEF AdminUser, IInv
  <2> QED
    BY <2>2, <2>3, <2>4, <2>5, <2>6
<1>2. IInv /\ [Next]_vars =>
        [\A e \in Email : users[e] # NoUser /\ users'[e] \notin {NoUser, users[e]} =>
                           users'[e] \in {e, Admin}]_vars
  BY <1>1
<1> QED
  BY <1>2, InvInit, InvStep, PTL DEF Spec, NoTakeover

(* A mailed code stays good until it expires, unless a request had looked  *)
(* before it was stored (user.ts:44-69).                                   *)
THEOREM CodesStay == Spec => CodeStays
<1>1. ASSUME IInv, [Next]_vars, NEW e \in Email, code[e] # 0, code'[e] \notin {0, code[e]}
      PROVE  \E v \in Visit : req[v].pc = "put" /\ req[v].email = e /\ req[v].overtaken
  <2>1. code' # code /\ code \in [Email -> 0..MaxCode]
    BY <1>1 DEF IInv, TypeOK
  <2>2. (\E v \in Visit : PutCode(v)) \/ \E f \in Email : Expire(f)
    BY <1>1, <2>1 DEF Next, Step, vars, AccessNext, FindCode, SendCode, CheckCode, InsertUser,
       UpsertUser, Cancel, StartVerify, StartRegister, OAuth2Login, AdminUser, ChangeSettings
  <2>3. ASSUME NEW f \in Email, Expire(f) PROVE FALSE
    BY <1>1, <2>1, <2>3 DEF Expire
  <2>4. ASSUME NEW v \in Visit, PutCode(v)
        PROVE  req[v].pc = "put" /\ req[v].email = e /\ req[v].overtaken
    <3>1. req[v].pc = "put" /\ req[v].email \in Email
      BY <1>1, <2>4 DEF PutCode, IInv, ReqOK
    <3>2. req[v].email = e
      BY <1>1, <2>1, <2>4, <3>1 DEF PutCode
    <3>3. req[v].overtaken
      BY <1>1, <3>1, <3>2 DEF IInv, ReqOK
    <3> QED
      BY <3>1, <3>2, <3>3
  <2> QED
    BY <2>2, <2>3, <2>4
<1>2. IInv /\ [Next]_vars =>
        [\A e \in Email : code[e] # 0 /\ code'[e] \notin {0, code[e]} =>
             \E v \in Visit : req[v].pc = "put" /\ req[v].email = e /\ req[v].overtaken]_vars
  BY <1>1
<1> QED
  BY <1>2, InvInit, InvStep, PTL DEF Spec, CodeStays

-----------------------------------------------------------------------------
(* The requests of a day.  The stored counter may fall, so what it bounds   *)
(* is the progress of all requests together: how many of them have n or     *)
(* more of the limit behind them, for every n.  Every write takes that      *)
(* further in lexicographic order, the smallest n first, and Passes is the  *)
(* number of the places there are.                                          *)
(* A set of naturals with 0 and every successor is all of them.            *)
LEMMA Induction ==
    ASSUME NEW S, S \subseteq Nat, 0 \in S, \A n \in S : n + 1 \in S
    PROVE  S = Nat
<1> DEFINE R == OpToRel(<, Nat)
           T == Nat \ S
<1> SUFFICES ASSUME T # {} PROVE FALSE
  OBVIOUS
<1>1. IsWellFoundedOn(R, Nat)
  BY NatLessThanWellFounded
<1>2. \A x, y \in Nat : y < x => <<y, x>> \in R
  BY DEF OpToRel
<1> HIDE DEF R
<1>3. PICK n \in T : \A m \in T : <<m, n>> \notin R
  <2>1. T \subseteq Nat
    OBVIOUS
  <2> QED
    BY <1>1, <2>1, WFMin
<1>4. n # 0 /\ n \in Nat /\ n - 1 \in Nat /\ n - 1 < n
  OBVIOUS
<1>5. n - 1 \in S
  BY <1>2, <1>3, <1>4
<1> QED
  BY <1>4, <1>5

(* The recursion of Passes, on the pairs below a diagonal *)
Pair == Nat \X Nat
Below(n) == {p \in Pair : p[1] + p[2] < n}
Recurs(g, p) ==
    g[p] = IF p[1] = 0 \/ p[2] = 0 THEN 0 ELSE g[<<p[1] - 1, p[2]>>] + 1 + g[<<p[1], p[2] - 1>>]
Partial(n) == {g \in [Below(n) -> Nat] : \A p \in Below(n) : Recurs(g, p)}

LEMMA Earlier ==
    ASSUME NEW n \in Nat, NEW p \in Below(n + 1), ~(p[1] = 0 \/ p[2] = 0)
    PROVE  <<p[1] - 1, p[2]>> \in Below(n) /\ <<p[1], p[2] - 1>> \in Below(n)
  BY DEF Below, Pair

LEMMA BelowGrows ==
    ASSUME NEW m \in Nat, NEW n \in Nat, m <= n PROVE Below(m) \subseteq Below(n)
  BY DEF Below, Pair

LEMMA PartialExists == \A n \in Nat : Partial(n) # {}
<1> DEFINE S == {n \in Nat : Partial(n) # {}}
<1>1. 0 \in S
  <2>1. Below(0) = {}
    BY DEF Below, Pair
  <2>2. PICK g : g = [p \in {} |-> 0]
    OBVIOUS
  <2>3. g \in Partial(0)
    BY <2>1, <2>2 DEF Partial
  <2> QED
    BY <2>3
<1>2. ASSUME NEW n \in S PROVE n + 1 \in S
  <2>1. PICK g : g \in Partial(n)
    BY <1>2
  <2>2. g \in [Below(n) -> Nat] /\ \A p \in Below(n) : Recurs(g, p)
    BY <2>1 DEF Partial
  <2> DEFINE Value(p) == IF p[1] = 0 \/ p[2] = 0 THEN 0
                         ELSE g[<<p[1] - 1, p[2]>>] + 1 + g[<<p[1], p[2] - 1>>]
             h == [p \in Below(n + 1) |-> Value(p)]
  <2>3. \A p \in Below(n) : Value(p) = g[p]
    BY <2>2 DEF Recurs
  <2>4. Below(n) \subseteq Below(n + 1)
    BY BelowGrows
  <2>5. \A p \in Below(n) : h[p] = g[p]
    BY <2>3, <2>4
  <2>6. \A p \in Below(n + 1) : Value(p) \in Nat
    <3> SUFFICES ASSUME NEW p \in Below(n + 1), ~(p[1] = 0 \/ p[2] = 0)
                 PROVE  g[<<p[1] - 1, p[2]>>] + 1 + g[<<p[1], p[2] - 1>>] \in Nat
      OBVIOUS
    <3>1. PICK x \in Below(n), y \in Below(n) : x = <<p[1] - 1, p[2]>> /\ y = <<p[1], p[2] - 1>>
      BY Earlier
    <3>2. g[x] \in Nat /\ g[y] \in Nat
      BY <2>2
    <3> QED
      BY <3>1, <3>2
  <2>7. \A p \in Below(n + 1) : Recurs(h, p)
    <3> SUFFICES ASSUME NEW p \in Below(n + 1) PROVE Recurs(h, p)
      OBVIOUS
    <3>1. h[p] = Value(p)
      OBVIOUS
    <3>2. CASE p[1] = 0 \/ p[2] = 0
      BY <3>1, <3>2 DEF Recurs
    <3>3. CASE ~(p[1] = 0 \/ p[2] = 0)
      <4>1. PICK x \in Below(n), y \in Below(n) : x = <<p[1] - 1, p[2]>> /\ y = <<p[1], p[2] - 1>>
        BY <3>3, Earlier
      <4>2. h[x] = g[x] /\ h[y] = g[y]
        BY <2>5
      <4>3. h[p] = g[x] + 1 + g[y]
        BY <3>1, <3>3, <4>1
      <4> HIDE DEF h, Value
      <4> QED
        BY <3>3, <4>1, <4>2, <4>3 DEF Recurs
    <3> QED
      BY <3>2, <3>3
  <2>8. h \in Partial(n + 1)
    <3>1. h \in [Below(n + 1) -> Nat]
      BY <2>6
    <3> HIDE DEF h
    <3> QED
      BY <2>7, <3>1 DEF Partial
  <2> HIDE DEF h
  <2> QED
    BY <2>8
<1> HIDE DEF S
<1>3. S \subseteq Nat
  BY DEF S
<1>4. S = Nat
  BY <1>1, <1>2, <1>3, Induction
<1> QED
  BY <1>4 DEF S

LEMMA PartialAgree ==
    ASSUME NEW m \in Nat, NEW n \in Nat, NEW g \in Partial(m), NEW h \in Partial(n),
           NEW p \in Below(m) \cap Below(n)
    PROVE  g[p] = h[p]
<1> DEFINE S == {k \in Nat : \A q \in Below(k) \cap Below(m) \cap Below(n) : g[q] = h[q]}
<1>1. 0 \in S
  BY DEF Below, Pair
<1>2. ASSUME NEW k \in S PROVE k + 1 \in S
  <2> SUFFICES ASSUME NEW q \in Below(k + 1) \cap Below(m) \cap Below(n) PROVE g[q] = h[q]
    OBVIOUS
  <2>1. Recurs(g, q) /\ Recurs(h, q)
    BY DEF Partial
  <2>2. CASE q[1] = 0 \/ q[2] = 0
    BY <2>1, <2>2 DEF Recurs
  <2>3. CASE ~(q[1] = 0 \/ q[2] = 0)
    <3>1. PICK x \in Below(k), y \in Below(k) : x = <<q[1] - 1, q[2]>> /\ y = <<q[1], q[2] - 1>>
      BY <2>3, Earlier
    <3>2. x \in Below(m) /\ y \in Below(m) /\ x \in Below(n) /\ y \in Below(n)
      BY <2>3, <3>1 DEF Below, Pair
    <3>3. g[x] = h[x] /\ g[y] = h[y]
      BY <1>2, <3>2
    <3> QED
      BY <2>1, <2>3, <3>1, <3>3 DEF Recurs
  <2> QED
    BY <2>2, <2>3
<1> HIDE DEF S
<1>3. S \subseteq Nat
  BY DEF S
<1>4. S = Nat
  BY <1>1, <1>2, <1>3, Induction
<1>5. PICK k \in Nat : p \in Below(k)
  OBVIOUS
<1> QED
  BY <1>4, <1>5 DEF S

LEMMA PassesRecurs == Passes \in [Pair -> Nat] /\ \A p \in Pair : Recurs(Passes, p)
<1> DEFINE Sum(p) == p[1] + p[2] + 1
           Pick(n) == CHOOSE g : g \in Partial(n)
           f == [p \in Pair |-> Pick(Sum(p))[p]]
<1>1. \A n \in Nat : Pick(n) \in Partial(n)
  BY PartialExists
<1>2. \A p \in Pair : Sum(p) \in Nat /\ p \in Below(Sum(p))
  BY DEF Below, Pair
<1>3. ASSUME NEW n \in Nat, NEW p \in Below(n) PROVE f[p] = Pick(n)[p] /\ f[p] \in Nat
  <2>1. p \in Pair
    BY DEF Below
  <2>2. f[p] = Pick(Sum(p))[p]
    BY <2>1
  <2>3. p \in Below(Sum(p)) \cap Below(n) /\ Sum(p) \in Nat
    BY <1>2, <2>1
  <2>4. Pick(n) \in Partial(n) /\ Pick(Sum(p)) \in Partial(Sum(p))
    BY <1>1, <2>3
  <2> HIDE DEF Pick, Sum, f
  <2>5. Pick(Sum(p))[p] = Pick(n)[p]
    BY <2>3, <2>4, PartialAgree
  <2>6. Pick(n)[p] \in Nat
    BY <2>4 DEF Partial
  <2> QED
    BY <2>2, <2>5, <2>6
<1>4. ASSUME NEW p \in Pair PROVE Recurs(f, p)
  <2>1. PICK n \in Nat : n = Sum(p)
    BY <1>2
  <2>2. PICK g \in Partial(n) : g = Pick(n)
    BY <1>1
  <2>3. \A q \in Below(n) : f[q] = g[q]
    BY <1>3, <2>2
  <2>4. p \in Below(n) /\ Recurs(g, p)
    BY <1>2, <2>1, <2>2 DEF Partial
  <2> HIDE DEF f, Pick, Sum
  <2>5. ~(p[1] = 0 \/ p[2] = 0) =>
           <<p[1] - 1, p[2]>> \in Below(n) /\ <<p[1], p[2] - 1>> \in Below(n)
    BY <2>4 DEF Below, Pair
  <2> QED
    BY <2>3, <2>4, <2>5 DEF Recurs
<1>5. f \in [Pair -> Nat]
  <2>1. \A p \in Pair : f[p] \in Nat
    BY <1>2, <1>3
  <2> QED
    BY <2>1
<1>6. f = [p \in Pair |-> IF p[1] = 0 \/ p[2] = 0 THEN 0
                          ELSE f[<<p[1] - 1, p[2]>>] + 1 + f[<<p[1], p[2] - 1>>]]
  <2> HIDE DEF f
  <2> QED
    BY <1>4, <1>5 DEF Recurs
<1>7. Passes = CHOOSE g : g = [p \in Pair |-> IF p[1] = 0 \/ p[2] = 0 THEN 0
                          ELSE g[<<p[1] - 1, p[2]>>] + 1 + g[<<p[1], p[2] - 1>>]]
  BY DEF Passes, Pair
<1>8. Passes = [p \in Pair |-> IF p[1] = 0 \/ p[2] = 0 THEN 0
                          ELSE Passes[<<p[1] - 1, p[2]>>] + 1 + Passes[<<p[1], p[2] - 1>>]]
  <2> HIDE DEF f
  <2> QED
    BY <1>6, <1>7
<1>9. \A p \in Pair : Recurs(Passes, p)
  BY <1>8 DEF Recurs
<1>10. DOMAIN Passes = Pair /\ Passes = [p \in Pair |-> Passes[p]]
  BY <1>8
<1> DEFINE S == {n \in Nat : \A p \in Below(n) : Passes[p] \in Nat}
<1>11. S = Nat
  <2>1. 0 \in S
    BY DEF Below, Pair
  <2>2. ASSUME NEW n \in S PROVE n + 1 \in S
    <3> SUFFICES ASSUME NEW p \in Below(n + 1) PROVE Passes[p] \in Nat
      OBVIOUS
    <3>1. Recurs(Passes, p)
      BY <1>9 DEF Below
    <3>2. CASE p[1] = 0 \/ p[2] = 0
      BY <3>1, <3>2 DEF Recurs
    <3>3. CASE ~(p[1] = 0 \/ p[2] = 0)
      <4>1. PICK x \in Below(n), y \in Below(n) : x = <<p[1] - 1, p[2]>> /\ y = <<p[1], p[2] - 1>>
        BY <3>3, Earlier
      <4>2. Passes[x] \in Nat /\ Passes[y] \in Nat
        BY <2>2
      <4>3. Passes[p] = Passes[x] + 1 + Passes[y]
        BY <3>1, <3>3, <4>1 DEF Recurs
      <4> QED
        BY <4>2, <4>3
    <3> QED
      BY <3>2, <3>3
  <2>3. S \subseteq Nat
    OBVIOUS
  <2> HIDE DEF S
  <2> QED
    BY <2>1, <2>2, <2>3, Induction
<1>12. \A p \in Pair : Passes[p] \in Nat
  <2> SUFFICES ASSUME NEW p \in Pair PROVE Passes[p] \in Nat
    OBVIOUS
  <2>1. Sum(p) \in S /\ p \in Below(Sum(p))
    BY <1>2, <1>11
  <2> QED
    BY <2>1
<1> QED
  BY <1>9, <1>10, <1>12

Most(k, l) == Passes[<<k, l>>]

LEMMA PassesRule ==
    ASSUME NEW k \in Nat, NEW l \in Nat
    PROVE  /\ Most(k, l) \in Nat /\ Most(0, l) = 0 /\ Most(k, 0) = 0
           /\ Most(k + 1, l + 1) = Most(k, l + 1) + 1 + Most(k + 1, l)
<1>1. <<k, l>> \in Pair /\ <<0, l>> \in Pair /\ <<k, 0>> \in Pair /\ <<k + 1, l + 1>> \in Pair
  BY DEF Pair
<1>2. Most(k, l) \in Nat
  BY <1>1, PassesRecurs DEF Most
<1>3. Recurs(Passes, <<0, l>>) /\ Recurs(Passes, <<k, 0>>) /\ Recurs(Passes, <<k + 1, l + 1>>)
  BY <1>1, PassesRecurs
<1>4. Most(0, l) = 0 /\ Most(k, 0) = 0
  BY <1>3 DEF Recurs, Most
<1>5. <<k + 1 - 1, l + 1>> = <<k, l + 1>> /\ <<k + 1, l + 1 - 1>> = <<k + 1, l>>
      /\ ~(k + 1 = 0 \/ l + 1 = 0)
  OBVIOUS
<1>6. Most(k + 1, l + 1) = Most(k, l + 1) + 1 + Most(k + 1, l)
  BY <1>3, <1>5 DEF Recurs, Most
<1> QED
  BY <1>2, <1>4, <1>6

(* What one more of the limit is worth to k requests *)
More(k, l) == Most(k, l + 1) - Most(k, l)

LEMMA MoreType ==
    ASSUME NEW k \in Nat, NEW l \in Nat
    PROVE  More(k, l) \in Nat /\ More(k, l) <= More(k + 1, l)
           /\ More(k + 1, l) = Most(k, l + 1) + 1
<1>1. \A i, j \in Nat : Most(i, j) \in Nat
  BY PassesRule
<1>2. More(k + 1, l) = Most(k, l + 1) + 1
  BY <1>1, PassesRule DEF More
<1>3. CASE k = 0
  <2>1. Most(0, l + 1) = 0 /\ Most(0, l) = 0
    BY PassesRule
  <2>2. More(k, l) = 0
    BY <1>3, <2>1 DEF More
  <2>3. More(k + 1, l) = 1
    BY <1>2, <1>3, <2>1
  <2> QED
    BY <1>2, <2>2, <2>3
<1>4. CASE k # 0
  <2>1. PICK i \in Nat : k = i + 1
    BY <1>4, k - 1 \in Nat
  <2>2. More(k, l) = Most(i, l + 1) + 1
    BY <1>1, <2>1, PassesRule DEF More
  <2>3. Most(k, l + 1) = Most(i, l + 1) + 1 + Most(k, l)
    BY <2>1, PassesRule
  <2>4. Most(i, l + 1) \in Nat /\ Most(k, l) \in Nat /\ Most(k, l + 1) \in Nat
    <3>1. l + 1 \in Nat
      OBVIOUS
    <3> QED
      BY <1>1, <3>1
  <2> QED
    BY <1>2, <2>2, <2>3, <2>4
<1> QED
  BY <1>2, <1>3, <1>4

LEMMA MoreGrows ==
    ASSUME NEW k \in Nat, NEW m \in Nat, k <= m, NEW l \in Nat
    PROVE  More(k, l) <= More(m, l)
<1> DEFINE S == {n \in Nat : More(k, l) <= More(k + n, l)}
<1>1. 0 \in S
  BY MoreType
<1>2. ASSUME NEW n \in S PROVE n + 1 \in S
  <2>1. PICK j \in Nat : j = k + n
    OBVIOUS
  <2>2. More(k, l) \in Nat /\ More(j, l) \in Nat /\ More(j + 1, l) \in Nat /\ More(j, l) <= More(j + 1, l)
    BY MoreType, <2>1, j + 1 \in Nat
  <2>3. k + (n + 1) = j + 1
    BY <2>1
  <2> QED
    BY <1>2, <2>1, <2>2, <2>3
<1>3. S \subseteq Nat
  OBVIOUS
<1> HIDE DEF S
<1>4. S = Nat
  BY <1>1, <1>2, <1>3, Induction
<1>5. PICK n \in Nat : m = k + n
  BY m - k \in Nat
<1> QED
  BY <1>4, <1>5 DEF S

(* The n-th step of the limit, for m requests that it is still before *)
Weight(m, n) == More(m, DailyLimit - n)

(* f[n] requests at least have n or more behind them: R[n] is what that  *)
(* leaves of the limit's first n steps.                                  *)
Ranks(R, f) ==
    /\ R \in [0..DailyLimit -> Nat]
    /\ R[0] = 0
    /\ \A n \in 1..DailyLimit : R[n] <= R[n - 1] + Weight(f[n], n)

Steps == 1..DailyLimit

LEMMA WeightType ==
    ASSUME NEW m \in Nat, NEW k \in Nat, m <= k, NEW n \in Steps
    PROVE  Weight(m, n) \in Nat /\ Weight(k, n) \in Nat /\ Weight(m, n) <= Weight(k, n)
<1>1. DailyLimit - n \in Nat
  BY AccessControlAssumption DEF Steps
<1> QED
  BY <1>1, MoreType, MoreGrows DEF Weight

LEMMA Telescopes ==
    ASSUME NEW f \in [Steps -> Nat], NEW R, Ranks(R, f), NEW b \in 0..DailyLimit, NEW m \in Nat,
           \A n \in (b + 1)..DailyLimit : f[n] <= m
    PROVE  R[DailyLimit] <= R[b] + Most(m, DailyLimit - b)
<1>0. DailyLimit \in Nat /\ b \in Nat /\ b <= DailyLimit
  BY AccessControlAssumption
<1> DEFINE S == {n \in Nat : b + n <= DailyLimit =>
                               R[b + n] <= R[b] + Most(m, DailyLimit - b) - Most(m, DailyLimit - (b + n))}
<1>1. 0 \in S
  <2>1. Most(m, DailyLimit - b) \in Nat /\ R[b] \in Nat
    BY <1>0, PassesRule, DailyLimit - b \in Nat DEF Ranks
  <2> QED
    BY <1>0, <2>1
<1>2. ASSUME NEW n \in S PROVE n + 1 \in S
  <2> SUFFICES ASSUME b + (n + 1) <= DailyLimit
               PROVE  R[b + (n + 1)] <= R[b] + Most(m, DailyLimit - b) - Most(m, DailyLimit - (b + (n + 1)))
    OBVIOUS
  <2>1. PICK i \in Nat : i = b + n
    BY <1>0
  <2>2. i + 1 \in Steps /\ i + 1 \in (b + 1)..DailyLimit /\ i \in 0..DailyLimit /\ i + 1 \in 0..DailyLimit
        /\ b + (n + 1) = i + 1
    BY <1>0, <2>1 DEF Steps
  <2>3. PICK l \in Nat : l = DailyLimit - (i + 1)
    BY <1>0, <2>1
  <2>4. DailyLimit - i = l + 1
    BY <1>0, <2>3
  <2>5. R[i] <= R[b] + Most(m, DailyLimit - b) - Most(m, l + 1)
    BY <1>0, <2>1, <2>4
  <2>6. R[i + 1] <= R[i] + Weight(f[i + 1], i + 1)
    <3>1. i + 1 - 1 = i
      OBVIOUS
    <3> QED
      BY <2>2, <3>1 DEF Ranks, Steps
  <2>7. Weight(f[i + 1], i + 1) <= Weight(m, i + 1) /\ Weight(f[i + 1], i + 1) \in Nat
    BY <2>2, WeightType
  <2>8. Weight(m, i + 1) = Most(m, l + 1) - Most(m, l)
    BY <2>3 DEF Weight, More
  <2>9. Most(m, l + 1) \in Nat /\ Most(m, l) \in Nat /\ Most(m, DailyLimit - b) \in Nat
        /\ R[i] \in Nat /\ R[i + 1] \in Nat /\ R[b] \in Nat
    <3>1. l + 1 \in Nat /\ DailyLimit - b \in Nat
      BY <1>0
    <3>2. \A j \in Nat : Most(m, j) \in Nat
      BY PassesRule
    <3>3. R[i] \in Nat /\ R[i + 1] \in Nat /\ R[b] \in Nat
      BY <2>2 DEF Ranks
    <3> QED
      BY <3>1, <3>2, <3>3
  <2>10. R[i + 1] <= R[b] + Most(m, DailyLimit - b) - Most(m, l)
    BY <2>5, <2>6, <2>7, <2>8, <2>9
  <2> QED
    BY <2>2, <2>3, <2>10
<1>3. S \subseteq Nat
  OBVIOUS
<1> HIDE DEF S
<1>4. S = Nat
  BY <1>1, <1>2, <1>3, Induction
<1>5. PICK n \in Nat : n = DailyLimit - b
  BY <1>0
<1>6. b + n = DailyLimit /\ DailyLimit - (b + n) = 0
  BY <1>0, <1>5
<1>7. R[DailyLimit] <= R[b] + Most(m, DailyLimit - b) - Most(m, 0)
  <2>1. n \in S
    BY <1>4
  <2>2. b + n <= DailyLimit
    BY <1>0, <1>6
  <2>3. R[b + n] <= R[b] + Most(m, DailyLimit - b) - Most(m, DailyLimit - (b + n))
    BY <2>1, <2>2 DEF S
  <2> QED
    BY <1>6, <2>3
<1>8. Most(m, 0) = 0 /\ Most(m, DailyLimit - b) \in Nat /\ R[b] \in Nat
  BY <1>0, PassesRule, DailyLimit - b \in Nat DEF Ranks
<1> QED
  BY <1>7, <1>8

LEMMA RankStays ==
    ASSUME NEW f \in [Steps -> Nat], NEW g \in [Steps -> Nat], NEW R, Ranks(R, f),
           \A n \in Steps : f[n] <= g[n]
    PROVE  Ranks(R, g)
<1>1. ASSUME NEW n \in 1..DailyLimit PROVE R[n] <= R[n - 1] + Weight(g[n], n)
  <2>1. n \in Steps /\ n \in 0..DailyLimit /\ n - 1 \in 0..DailyLimit
    BY AccessControlAssumption DEF Steps
  <2>2. R[n] <= R[n - 1] + Weight(f[n], n) /\ R[n] \in Nat /\ R[n - 1] \in Nat
    BY <2>1 DEF Ranks
  <2>3. Weight(f[n], n) <= Weight(g[n], n) /\ Weight(f[n], n) \in Nat /\ Weight(g[n], n) \in Nat
    BY <2>1, WeightType
  <2> QED
    BY <2>2, <2>3
<1> QED
  BY <1>1 DEF Ranks

LEMMA RankRises ==
    ASSUME NEW f \in [Steps -> Nat], NEW g \in [Steps -> Nat], NEW R, Ranks(R, f),
           NEW b \in Nat, b < DailyLimit,
           \A n \in 1..b : f[n] <= g[n],
           f[b + 1] + 1 <= g[b + 1],
           \A n \in (b + 1)..DailyLimit : f[n] <= f[b + 1]
    PROVE  \E Q : Ranks(Q, g) /\ R[DailyLimit] + 1 <= Q[DailyLimit]
<1>0. DailyLimit \in Nat /\ b + 1 \in Steps /\ b \in 0..DailyLimit /\ b + 1 \in 0..DailyLimit
      /\ 0 \in 0..DailyLimit /\ DailyLimit \in 0..DailyLimit
  BY AccessControlAssumption DEF Steps
<1>1. PICK m \in Nat : m = f[b + 1]
  BY <1>0
<1>2. PICK t : t = Weight(g[b + 1], b + 1)
  OBVIOUS
<1>3. t \in Nat /\ Weight(m + 1, b + 1) <= t /\ Weight(m + 1, b + 1) \in Nat
  <2>1. g[b + 1] \in Nat /\ m + 1 <= g[b + 1] /\ m + 1 \in Nat
    BY <1>0, <1>1
  <2> QED
    BY <1>0, <1>2, <2>1, WeightType
<1> DEFINE Q == [n \in 0..DailyLimit |-> IF n <= b THEN R[n] ELSE R[b] + t]
<1>4. \A n \in 0..DailyLimit : R[n] \in Nat
  BY DEF Ranks
<1>5. Q \in [0..DailyLimit -> Nat] /\ Q[0] = 0
  <2>1. \A n \in 0..DailyLimit : (IF n <= b THEN R[n] ELSE R[b] + t) \in Nat
    BY <1>0, <1>3, <1>4
  <2>2. Q[0] = R[0]
    BY <1>0
  <2>3. Q \in [0..DailyLimit -> Nat]
    BY <2>1
  <2> HIDE DEF Q
  <2> QED
    BY <2>2, <2>3 DEF Ranks
<1>6. ASSUME NEW n \in 1..DailyLimit PROVE Q[n] <= Q[n - 1] + Weight(g[n], n)
  <2>1. n \in Steps /\ n \in 0..DailyLimit /\ n - 1 \in 0..DailyLimit
    BY <1>0 DEF Steps
  <2>2. Weight(g[n], n) \in Nat
    BY <2>1, WeightType
  <2>3. CASE n <= b
    <3>1. n - 1 <= b
      BY <2>3, <2>1
    <3>2. Q[n] = R[n] /\ Q[n - 1] = R[n - 1]
      BY <2>1, <2>3, <3>1
    <3>3. R[n] <= R[n - 1] + Weight(f[n], n)
      BY <2>1 DEF Ranks
    <3>4. f[n] <= g[n]
      BY <2>1, <2>3
    <3>5. Weight(f[n], n) <= Weight(g[n], n) /\ Weight(f[n], n) \in Nat
      BY <2>1, <3>4, WeightType
    <3> HIDE DEF Q
    <3> QED
      BY <1>4, <2>1, <2>2, <3>2, <3>3, <3>5
  <2>4. CASE n = b + 1
    <3>1. Q[n] = R[b] + t /\ Q[n - 1] = R[b]
      <4>1. ~(n <= b) /\ n - 1 = b /\ b <= b
        BY <2>4
      <4> QED
        BY <2>1, <4>1
    <3> HIDE DEF Q
    <3> QED
      BY <1>0, <1>2, <1>3, <1>4, <2>4, <3>1
  <2>5. CASE n > b + 1
    <3>1. Q[n] = R[b] + t /\ Q[n - 1] = R[b] + t
      <4>1. ~(n <= b) /\ ~(n - 1 <= b)
        BY <2>1, <2>5
      <4> QED
        BY <2>1, <4>1
    <3> HIDE DEF Q
    <3> QED
      BY <1>0, <1>3, <1>4, <2>2, <3>1
  <2> QED
    BY <2>1, <2>3, <2>4, <2>5
<1>7. R[DailyLimit] <= R[b] + Most(m, DailyLimit - b)
  <2>1. \A n \in (b + 1)..DailyLimit : f[n] <= m
    BY <1>1
  <2> QED
    BY <1>0, <2>1, Telescopes
<1>8. Weight(m + 1, b + 1) = Most(m, DailyLimit - b) + 1
  <2>1. PICK l \in Nat : l = DailyLimit - (b + 1)
    BY <1>0
  <2>2. l + 1 = DailyLimit - b
    BY <1>0, <2>1
  <2>3. More(m + 1, l) = Most(m, l + 1) + 1
    BY MoreType
  <2> QED
    BY <2>1, <2>2, <2>3 DEF Weight
<1>9. Q[DailyLimit] = R[b] + t
  BY <1>0
<1>10. Most(m, DailyLimit - b) \in Nat
  BY <1>0, PassesRule, DailyLimit - b \in Nat
<1> HIDE DEF Q
<1>11. R[DailyLimit] + 1 <= Q[DailyLimit]
  BY <1>0, <1>3, <1>4, <1>7, <1>8, <1>9, <1>10
<1>12. Ranks(Q, g)
  BY <1>5, <1>6 DEF Ranks
<1> QED
  BY <1>11, <1>12

(* Of the requests, those that have at least n of i's limit behind them: one *)
(* that is about to write has what it read, or what is stored if that is     *)
(* less; any other would read what is stored.                                *)
Waits(v, i, n) == visit[v].pc = "write" /\ visit[v].client = i /\ visit[v].count < n
Behind(i, n) == {v \in Visit : daily[i] >= n /\ ~Waits(v, i, n)}
Reached(i) == [n \in Steps |-> Cardinality(Behind(i, n))]

(* What is counted is never more than the progress made. *)
DayInv ==
    /\ AccessType /\ VisitOK
    /\ \A i \in Client : \E R : Ranks(R, Reached(i)) /\ admitted[i] <= R[DailyLimit]

LEMMA ProgressType ==
    ASSUME NEW i
    PROVE  /\ Reached(i) \in [Steps -> Nat]
           /\ \A n : IsFiniteSet(Behind(i, n)) /\ Cardinality(Behind(i, n)) \in Nat
                     /\ Cardinality(Behind(i, n)) <= Cardinality(Visit)
           /\ Cardinality(Visit) \in Nat
<1>1. \A n : Behind(i, n) \subseteq Visit
  BY DEF Behind
<1>2. IsFiniteSet(Visit)
  BY AccessControlAssumption
<1>3. \A n : IsFiniteSet(Behind(i, n)) /\ Cardinality(Behind(i, n)) \in Nat
             /\ Cardinality(Behind(i, n)) <= Cardinality(Visit)
  BY <1>1, <1>2, FS_Subset, FS_CardinalityType
<1> QED
  BY <1>2, <1>3, FS_CardinalityType DEF Reached

LEMMA DayInit == AccessInit => DayInv
<1> SUFFICES ASSUME AccessInit PROVE DayInv
  OBVIOUS
<1>1. AccessType /\ VisitOK
  BY OutsideType, AccessControlAssumption DEF AccessInit, AccessType, VisitOK
<1>2. ASSUME NEW i \in Client PROVE \E R : Ranks(R, Reached(i)) /\ admitted[i] <= R[DailyLimit]
  <2>1. PICK R : R = [n \in 0..DailyLimit |-> 0]
    OBVIOUS
  <2>2. Ranks(R, Reached(i))
    <3>1. R \in [0..DailyLimit -> Nat] /\ R[0] = 0
      BY <2>1, AccessControlAssumption
    <3>2. ASSUME NEW n \in 1..DailyLimit PROVE R[n] <= R[n - 1] + Weight(Reached(i)[n], n)
      <4>1. n \in Steps /\ n \in 0..DailyLimit /\ n - 1 \in 0..DailyLimit
        BY AccessControlAssumption DEF Steps
      <4>2. R[n] = 0 /\ R[n - 1] = 0
        BY <2>1, <4>1
      <4>3. Reached(i)[n] \in Nat
        BY <4>1, ProgressType
      <4>4. Weight(Reached(i)[n], n) \in Nat
        BY <4>1, <4>3, WeightType
      <4> QED
        BY <4>2, <4>4
    <3> QED
      BY <3>1, <3>2 DEF Ranks
  <2>3. admitted[i] = 0 /\ R[DailyLimit] = 0
    BY <2>1, AccessControlAssumption DEF AccessInit
  <2> QED
    BY <2>2, <2>3
<1> QED
  BY <1>1, <1>2 DEF DayInv

(* A client loses no progress unless a request writes for it. *)
LEMMA DayKept ==
    ASSUME DayInv, NEW i \in Client, daily'[i] = daily[i], admitted'[i] = admitted[i],
           \A v \in Visit : \A n \in Steps : Waits(v, i, n)' => Waits(v, i, n) \/ daily[i] < n
    PROVE  (\E R : Ranks(R, Reached(i)) /\ admitted[i] <= R[DailyLimit])'
<1>1. PICK R : Ranks(R, Reached(i)) /\ admitted[i] <= R[DailyLimit]
  BY DEF DayInv
<1>2. \A n \in Steps : daily[i] \in Nat /\ n \in Nat
  BY AccessControlAssumption DEF DayInv, AccessType, Steps
<1>3. ASSUME NEW n \in Steps PROVE Behind(i, n) \subseteq Behind(i, n)'
  BY <1>2 DEF Behind
<1>4. PICK f \in [Steps -> Nat], g \in [Steps -> Nat] : f = Reached(i) /\ g = Reached(i)'
  <2>1. \A n : Behind(i, n)' \subseteq Visit
    BY DEF Behind
  <2>2. \A n : Cardinality(Behind(i, n)') \in Nat
    BY <2>1, AccessControlAssumption, FS_Subset, FS_CardinalityType
  <2> QED
    BY <2>2, ProgressType DEF Reached
<1>5. \A n \in Steps : f[n] <= g[n]
  <2> SUFFICES ASSUME NEW n \in Steps PROVE f[n] <= g[n]
    OBVIOUS
  <2>1. Behind(i, n)' \subseteq Visit /\ IsFiniteSet(Visit)
    BY AccessControlAssumption DEF Behind
  <2>2. IsFiniteSet(Behind(i, n)')
    BY <2>1, FS_Subset
  <2>3. Cardinality(Behind(i, n)) <= Cardinality(Behind(i, n)')
    BY <1>3, <2>2, FS_Subset
  <2> QED
    BY <1>4, <2>3 DEF Reached
<1>6. Ranks(R, g)
  BY <1>1, <1>4, <1>5, RankStays
<1> QED
  BY <1>1, <1>4, <1>6 DEF Ranks, Weight, More, Most

LEMMA DayWritten ==
    ASSUME DayInv, NEW v \in Visit, WriteCount(v), NEW i \in Client, visit[v].client = i
    PROVE  (\E R : Ranks(R, Reached(i)) /\ admitted[i] <= R[DailyLimit])'
<1>1. PICK R : Ranks(R, Reached(i)) /\ admitted[i] <= R[DailyLimit]
  BY DEF DayInv
<1>2. PICK c \in Nat, d \in Nat : c = visit[v].count /\ d = daily[i] /\ c < DailyLimit /\ d <= DailyLimit
  BY AccessControlAssumption DEF DayInv, AccessType, VisitOK, WriteCount
<1>3. /\ daily'[i] = c + 1 /\ admitted'[i] = admitted[i] + 1 /\ admitted[i] \in Nat
      /\ visit[v].pc = "write" /\ visit'[v].pc = "in"
      /\ \A w \in Visit \ {v} : visit'[w] = visit[w]
  <2>1. visit[v] \in [pc: {"out", "read", "write", "in"}, client: Client \cup {NoClient}, count: 0..DailyLimit]
        /\ visit' = [visit EXCEPT ![v] = [visit[v] EXCEPT !.pc = "in", !.count = 0]]
    BY DEF DayInv, AccessType, WriteCount
  <2>2. visit'[v].pc = "in" /\ \A w \in Visit \ {v} : visit'[w] = visit[w]
    BY <2>1 DEF DayInv, AccessType
  <2>3. daily'[i] = c + 1 /\ admitted'[i] = admitted[i] + 1 /\ admitted[i] \in Nat
    BY <1>2, AccessControlAssumption DEF DayInv, AccessType, WriteCount
  <2> QED
    BY <2>2, <2>3 DEF WriteCount
<1>4. PICK b \in Nat : b = IF c < d THEN c ELSE d
  OBVIOUS
<1>5. DailyLimit \in Nat /\ b <= c /\ b <= d /\ b < DailyLimit /\ b + 1 \in Steps
  BY <1>2, <1>4, AccessControlAssumption DEF Steps
<1>6. ASSUME NEW n \in Nat, n <= b + 1 PROVE Behind(i, n) \subseteq Behind(i, n)'
  BY <1>2, <1>3, <1>5, <1>6 DEF Behind, Waits
<1>7. v \notin Behind(i, b + 1) /\ v \in Behind(i, b + 1)'
  BY <1>2, <1>3, <1>4 DEF Behind, Waits
<1>8. ASSUME NEW n \in Nat, b + 1 <= n PROVE Behind(i, n) \subseteq Behind(i, b + 1)
  <2>1. \A w \in Visit : visit[w].count \in Nat
    BY AccessControlAssumption DEF DayInv, AccessType
  <2> QED
    BY <1>2, <1>8, <2>1 DEF Behind, Waits
<1>9. \A n : IsFiniteSet(Behind(i, n)') /\ Cardinality(Behind(i, n)') \in Nat
  <2>1. \A n : Behind(i, n)' \subseteq Visit
    BY DEF Behind
  <2> QED
    BY <2>1, AccessControlAssumption, FS_Subset, FS_CardinalityType
<1>10. PICK f \in [Steps -> Nat], g \in [Steps -> Nat] : f = Reached(i) /\ g = Reached(i)'
  BY <1>9, ProgressType DEF Reached
<1>11. \A n \in Steps : f[n] = Cardinality(Behind(i, n)) /\ g[n] = Cardinality(Behind(i, n)')
  BY <1>10 DEF Reached
<1>12. \A n \in 1..b : f[n] <= g[n]
  <2> SUFFICES ASSUME NEW n \in 1..b PROVE f[n] <= g[n]
    OBVIOUS
  <2>1. n \in Nat /\ n <= b + 1 /\ n \in Steps
    BY <1>5 DEF Steps
  <2>2. Behind(i, n) \subseteq Behind(i, n)' /\ IsFiniteSet(Behind(i, n)')
    BY <1>6, <1>9, <2>1
  <2>3. Cardinality(Behind(i, n)) <= Cardinality(Behind(i, n)')
    BY <2>2, FS_Subset
  <2> QED
    BY <1>11, <2>1, <2>3
<1>13. f[b + 1] + 1 <= g[b + 1]
  <2>1. PICK S : S = Behind(i, b + 1)
    OBVIOUS
  <2>2. PICK T : T = Behind(i, b + 1)'
    OBVIOUS
  <2>3. S \cup {v} \subseteq T /\ v \notin S
    BY <1>6, <1>7, <2>1, <2>2
  <2>4. IsFiniteSet(S) /\ Cardinality(S) \in Nat /\ IsFiniteSet(T)
    BY <1>9, <2>1, <2>2, ProgressType
  <2>5. Cardinality(S \cup {v}) = Cardinality(S) + 1
    BY <2>3, <2>4, FS_AddElement
  <2>6. Cardinality(S \cup {v}) <= Cardinality(T)
    BY <2>3, <2>4, FS_Subset
  <2> QED
    BY <1>5, <1>11, <2>1, <2>2, <2>5, <2>6
<1>14. \A n \in (b + 1)..DailyLimit : f[n] <= f[b + 1]
  <2> SUFFICES ASSUME NEW n \in (b + 1)..DailyLimit PROVE f[n] <= f[b + 1]
    OBVIOUS
  <2>1. n \in Nat /\ b + 1 <= n /\ n \in Steps
    BY <1>5 DEF Steps
  <2>2. Behind(i, n) \subseteq Behind(i, b + 1) /\ IsFiniteSet(Behind(i, b + 1))
    BY <1>8, <2>1, ProgressType
  <2>3. Cardinality(Behind(i, n)) <= Cardinality(Behind(i, b + 1))
    BY <2>2, FS_Subset
  <2> QED
    BY <1>5, <1>11, <2>1, <2>3
<1>15. PICK Q : Ranks(Q, g) /\ R[DailyLimit] + 1 <= Q[DailyLimit]
  <2>1. Ranks(R, f)
    BY <1>1, <1>10
  <2> QED
    BY <1>5, <1>12, <1>13, <1>14, <2>1, RankRises
<1>16. admitted'[i] <= Q[DailyLimit]
  <2>1. R[DailyLimit] \in Nat /\ Q[DailyLimit] \in Nat
    BY <1>1, <1>5, <1>15 DEF Ranks
  <2> QED
    BY <1>1, <1>3, <1>15, <2>1
<1> QED
  BY <1>10, <1>15, <1>16 DEF Ranks, Weight, More, Most

LEMMA DayStep ==
    ASSUME DayInv, AccessNext
    PROVE  DayInv'
<1>1. AccessType' /\ VisitOK'
  BY AccessStep DEF DayInv
<1>2. ASSUME NEW i \in Client
      PROVE  (\E R : Ranks(R, Reached(i)) /\ admitted[i] <= R[DailyLimit])'
  <2>1. ASSUME NEW v \in Visit, NEW j \in Client, Arrive(v, j)
        PROVE  (\E R : Ranks(R, Reached(i)) /\ admitted[i] <= R[DailyLimit])'
    <3>1. visit'[v].pc # "write" /\ \A w \in Visit \ {v} : visit'[w] = visit[w]
      BY <2>1 DEF Arrive, DayInv, AccessType
    <3>2. \A w \in Visit : \A n \in Steps : Waits(w, i, n)' => Waits(w, i, n) \/ daily[i] < n
      BY <3>1 DEF Waits
    <3> QED
      BY <2>1, <3>2, DayKept DEF Arrive
  <2>2. ASSUME NEW v \in Visit, ReadCount(v)
        PROVE  (\E R : Ranks(R, Reached(i)) /\ admitted[i] <= R[DailyLimit])'
    <3>1. \A w \in Visit \ {v} : visit'[w] = visit[w]
      BY <2>2 DEF ReadCount, DayInv, AccessType
    <3>2. visit'[v].pc = "write" => visit'[v].client = visit[v].client /\ visit'[v].count = daily[visit[v].client]
      BY <2>2, OutsideType DEF ReadCount, DayInv, AccessType
    <3>3. \A w \in Visit : \A n \in Steps : Waits(w, i, n)' => Waits(w, i, n) \/ daily[i] < n
      BY <3>1, <3>2 DEF Waits
    <3> QED
      BY <2>2, <3>3, DayKept DEF ReadCount
  <2>3. ASSUME NEW v \in Visit, CountFails(v)
        PROVE  (\E R : Ranks(R, Reached(i)) /\ admitted[i] <= R[DailyLimit])'
    <3>1. visit'[v].pc = "in" /\ \A w \in Visit \ {v} : visit'[w] = visit[w]
      BY <2>3 DEF CountFails, DayInv, AccessType
    <3>2. \A w \in Visit : \A n \in Steps : Waits(w, i, n)' => Waits(w, i, n) \/ daily[i] < n
      BY <3>1 DEF Waits
    <3> QED
      BY <2>3, <3>2, DayKept DEF CountFails
  <2>4. ASSUME NEW v \in Visit, WriteCount(v)
        PROVE  (\E R : Ranks(R, Reached(i)) /\ admitted[i] <= R[DailyLimit])'
    <3>1. CASE visit[v].client = i
      BY <2>4, <3>1, DayWritten
    <3>2. CASE visit[v].client # i
      <4>1. visit'[v].pc = "in" /\ (\A w \in Visit \ {v} : visit'[w] = visit[w])
            /\ daily'[i] = daily[i] /\ admitted'[i] = admitted[i]
        BY <2>4, <3>2 DEF WriteCount, DayInv, AccessType
      <4>2. \A w \in Visit : \A n \in Steps : Waits(w, i, n)' => Waits(w, i, n) \/ daily[i] < n
        BY <4>1 DEF Waits
      <4> QED
        BY <4>1, <4>2, DayKept
    <3> QED
      BY <3>1, <3>2
  <2> QED
    BY <2>1, <2>2, <2>3, <2>4 DEF AccessNext
<1> QED
  BY <1>1, <1>2 DEF DayInv

(* Every other step at most answers a request. *)
LEMMA DayAnswers ==
    ASSUME DayInv, NEW v \in Visit, UNCHANGED visit \/ Leave(v), UNCHANGED <<daily, admitted>>
    PROVE  DayInv'
<1>1. AccessType' /\ VisitOK'
  BY LeaveStep DEF DayInv
<1>2. ASSUME NEW i \in Client
      PROVE  (\E R : Ranks(R, Reached(i)) /\ admitted[i] <= R[DailyLimit])'
  <2>1. \A w \in Visit : visit'[w] = visit[w] \/ visit'[w].pc # "write"
    BY OutsideType DEF Leave, DayInv, AccessType
  <2>2. \A w \in Visit : \A n \in Steps : Waits(w, i, n)' => Waits(w, i, n) \/ daily[i] < n
    BY <2>1 DEF Waits
  <2> QED
    BY <2>2, DayKept
<1> QED
  BY <1>1, <1>2 DEF DayInv

LEMMA DayInvStep == DayInv /\ [Next]_vars => DayInv'
<1> SUFFICES ASSUME DayInv, [Next]_vars PROVE DayInv'
  OBVIOUS
<1>1. ASSUME UNCHANGED <<visit, daily, admitted>> PROVE DayInv'
  <2>1. AccessType' /\ VisitOK'
    BY <1>1 DEF DayInv, AccessType, VisitOK
  <2>2. ASSUME NEW i \in Client
        PROVE  (\E R : Ranks(R, Reached(i)) /\ admitted[i] <= R[DailyLimit])'
    <3>1. \A w \in Visit : \A n \in Steps : Waits(w, i, n)' => Waits(w, i, n) \/ daily[i] < n
      BY <1>1 DEF Waits
    <3> QED
      BY <1>1, <3>1, DayKept
  <2> QED
    BY <2>1, <2>2 DEF DayInv
<1>2. ASSUME NEW v \in Visit,
             \/ Step(v) \/ Cancel(v)
             \/ \E e \in Email : StartVerify(v, e)
             \/ \E p, e \in Email : \E k \in mailed[p] \cup {0} : StartRegister(v, p, e, k)
      PROVE  DayInv'
  <2>1. (UNCHANGED visit \/ Leave(v)) /\ UNCHANGED <<daily, admitted>>
    BY <1>2 DEF Step, Cancel, StartVerify, StartRegister, FindCode, SendCode, PutCode, CheckCode,
       InsertUser, UpsertUser, Answer, Goto
  <2> QED
    BY <2>1, DayAnswers
<1>3. ASSUME NEW e \in Email, Expire(e) \/ OAuth2Login(e) \/ AdminUser(e) PROVE DayInv'
  BY <1>1, <1>3 DEF Expire, OAuth2Login, AdminUser
<1>4. CASE ChangeSettings
  BY <1>1, <1>4 DEF ChangeSettings
<1>5. CASE UNCHANGED vars
  BY <1>1, <1>5 DEF vars
<1> QED
  BY <1>2, <1>3, <1>4, <1>5, DayStep DEF Next

LEMMA DayBounded == DayInv => DailyLimitBounded
<1> SUFFICES ASSUME DayInv, NEW i \in Client
             PROVE  admitted[i] <= Most(Cardinality(Visit), DailyLimit)
  BY DEF DailyLimitBounded, Most
<1>1. PICK R : Ranks(R, Reached(i)) /\ admitted[i] <= R[DailyLimit]
  BY DEF DayInv
<1>2. PICK k \in Nat : k = Cardinality(Visit)
  BY ProgressType
<1>3. PICK f \in [Steps -> Nat] : f = Reached(i)
  BY ProgressType
<1>4. \A n \in (0 + 1)..DailyLimit : f[n] <= k
  BY <1>2, <1>3, ProgressType DEF Reached, Steps
<1>5. R[0] = 0 /\ R[DailyLimit] \in Nat /\ DailyLimit \in Nat /\ admitted[i] \in Nat
  BY <1>1, AccessControlAssumption DEF Ranks, DayInv, AccessType
<1>6. R[DailyLimit] <= R[0] + Most(k, DailyLimit)
  <2>1. 0 \in 0..DailyLimit /\ DailyLimit - 0 = DailyLimit
    BY <1>5
  <2>2. Ranks(R, f)
    BY <1>1, <1>3
  <2>3. R[DailyLimit] <= R[0] + Most(k, DailyLimit - 0)
    BY <1>4, <2>1, <2>2, Telescopes
  <2> QED
    BY <2>1, <2>3
<1>7. Most(k, DailyLimit) \in Nat
  <2> HIDE DEF Most
  <2> QED
    BY <1>5, PassesRule
<1> QED
  BY <1>1, <1>2, <1>5, <1>6, <1>7

(* For any number of concurrent requests, any limit and any clients, however *)
(* reads and writes of the counter interleave and fail, no more requests of  *)
(* a client are counted in a day than Passes says (ip_blacklist.ts:232-247). *)
THEOREM DailyBounded == Spec => []DailyLimitBounded
<1>1. Init => DayInv
  BY DayInit DEF Init
<1> QED
  BY <1>1, DayInvStep, DayBounded, PTL DEF Spec

-----------------------------------------------------------------------------
(* UserSession                                                             *)

(* A call whose refusal is being handled was made with an expired token. *)
RefusedExpired == \A c \in Call : call[c].pc = "refused" => call[c].access \in expired

(* getUserSettings was called for a login. *)
LoadsLogin == load.pc # "idle" => load.login \in Login

TabInv == TabTypeOK /\ RefusedExpired /\ LoadsLogin

-----------------------------------------------------------------------------
LEMMA TabTypes ==
    /\ MaxToken \in Nat /\ MaxLogin \in Nat
    /\ 0 \in Token
    /\ NoFetch \in FetchType /\ NoFetch.pc = "idle"
  BY UserSessionAssumption DEF Token, NoFetch, FetchType

LEMMA NoCallType == ASSUME Box # {} PROVE NoCall \in CallType /\ NoCall.pc = "idle"
<1>1. (CHOOSE b \in Box : TRUE) \in Box
  OBVIOUS
<1> QED
  BY <1>1, TabTypes DEF NoCall, CallType, Kind

LEMMA TabInvInit == TabInit => TabInv
<1> SUFFICES ASSUME TabInit PROVE TabInv
  OBVIOUS
<1>1. NoCall \in CallType /\ NoCall.pc = "idle"
  BY NoCallType DEF TabInit
<1> QED
  BY <1>1, TabTypes DEF TabInit, TabInv, TabTypeOK, RefusedExpired, LoadsLogin

(* A step that moves calls, and expires tokens at most. *)
LEMMA CallsMove ==
    ASSUME TabInv, expired \subseteq expired', expired' \subseteq Token,
           login' \in Login \cup {None}, box' \in Box, access' \in Token,
           issued' \in Seq(User), Len(issued') <= MaxToken,
           refresh' \in [Login -> FetchType], load' \in FetchType,
           load'.pc # "idle" => load'.login \in Login,
           call' \in [Call -> CallType],
           \A c \in Call : call'[c].pc = "refused" =>
               call'[c] = call[c] \/ call'[c].access \in expired
    PROVE  TabInv'
  BY DEF TabInv, TabTypeOK, RefusedExpired, LoadsLogin

(* What a settings call of the worker leaves. *)
LEMMA SettingsType ==
    ASSUME TabTypeOK, NEW l \in Login, NEW token \in Token, Settings(l, token)
    PROVE  issued' \in Seq(User) /\ Len(issued') <= MaxToken
<1>1. l.user \in User /\ Len(issued) \in Nat
  BY DEF Login, TabTypeOK
<1>2. CASE Len(issued) < MaxToken /\ issued' = Append(issued, l.user)
  BY <1>1, <1>2, TabTypes DEF TabTypeOK
<1>3. CASE UNCHANGED issued
  BY <1>3 DEF TabTypeOK
<1> QED
  BY <1>2, <1>3 DEF Settings

(* A call moved by hand, the session and the tokens as they were. *)
LEMMA OneMoves ==
    ASSUME TabInv, NEW c \in Call, NEW r \in CallType,
           UNCHANGED <<session, access, server, load>>, refresh' \in [Login -> FetchType],
           call' = [call EXCEPT ![c] = r],
           r.pc = "refused" => r.access \in expired
    PROVE  TabInv'
<1>1. \A d \in Call : call'[d] = IF d = c THEN r ELSE call[d]
  BY DEF TabInv, TabTypeOK
<1>2. call' \in [Call -> CallType]
  BY DEF TabInv, TabTypeOK
<1> QED
  BY <1>1, <1>2, CallsMove DEF LoadsLogin, TabInv, TabTypeOK, session, server

LEMMA CallSteps ==
    ASSUME TabInv, NEW c \in Call,
           \/ \E kind \in Kind : Send(c, kind)
           \/ Serve(c) \/ Lose(c) \/ GiveUp(c) \/ SendAgain(c) \/ Wait(c)
    PROVE  TabInv'
<1>1. call[c] \in CallType /\ NoCall \in CallType /\ NoCall.pc = "idle"
      /\ refresh \in [Login -> FetchType] /\ access \in Token
  BY NoCallType DEF TabInv, TabTypeOK
<1>2. ASSUME NEW kind \in Kind, Send(c, kind) PROVE TabInv'
  <2> DEFINE r == [pc |-> "sent", kind |-> kind, login |-> login, box |-> box, access |-> access]
  <2>1. r \in CallType /\ r.pc = "sent"
    BY DEF CallType, TabInv, TabTypeOK
  <2>2. call' = [call EXCEPT ![c] = r] /\ UNCHANGED <<session, access, server, refresh, load>>
    BY <1>2 DEF Send
  <2> HIDE DEF r
  <2> QED
    BY <1>1, <2>1, <2>2, OneMoves
<1>3. CASE Lose(c) \/ GiveUp(c)
  BY <1>1, <1>3, OneMoves DEF Lose, GiveUp
<1>4. CASE Serve(c)
  <2>1. PICK r : r = IF call[c].pc = "sent" /\ call[c].access \in expired
                     THEN [call[c] EXCEPT !.pc = "refused"] ELSE NoCall
    OBVIOUS
  <2>2. r \in CallType /\ (r.pc = "refused" => r.access \in expired)
    BY <1>1, <2>1 DEF CallType
  <2>3. call' = [call EXCEPT ![c] = r]
    BY <1>4, <2>1 DEF Serve
  <2> QED
    BY <1>1, <1>4, <2>2, <2>3, OneMoves DEF Serve
<1>5. CASE SendAgain(c)
  <2>1. PICK r : r = Resent(c, IF call[c].login = None THEN 0 ELSE access)
    OBVIOUS
  <2>2. r \in CallType /\ r.pc = "resent"
    BY <1>1, <2>1, TabTypes DEF Resent, CallType
  <2>3. call' = [call EXCEPT ![c] = r]
    BY <1>5, <2>1 DEF SendAgain
  <2> QED
    BY <1>1, <1>5, <2>2, <2>3, OneMoves DEF SendAgain
<1>6. CASE Wait(c)
  <2>1. PICK r : r = [call[c] EXCEPT !.pc = "wait"]
    OBVIOUS
  <2>2. r \in CallType /\ r.pc = "wait"
    BY <1>1, <2>1 DEF CallType
  <2>3. call' = [call EXCEPT ![c] = r]
    BY <1>6, <2>1 DEF Wait
  <2>4. call[c].login \in Login
    BY <1>1, <1>6 DEF Wait, CallType
  <2>5. [pc |-> "sent", login |-> call[c].login, token |-> 0] \in FetchType
    BY <2>4, TabTypes DEF FetchType
  <2>6. refresh' \in [Login -> FetchType]
    BY <1>1, <1>6, <2>4, <2>5 DEF Wait
  <2> QED
    BY <1>6, <2>2, <2>3, <2>6, OneMoves DEF Wait
<1> QED
  BY <1>2, <1>3, <1>4, <1>5, <1>6

(* Every call that waited is sent again or ends. *)
LEMMA ResumedType ==
    ASSUME TabInv, NEW c \in Call, NEW token \in Token
    PROVE  /\ Resumed(c, token) \in CallType
           /\ Resumed(c, token).pc \in {"idle", "resent"}
  BY NoCallType DEF TabInv, TabTypeOK, Resumed, Resent, CallType

LEMMA RefreshSteps ==
    ASSUME TabInv, NEW l \in Login, ServeRefresh(l) \/ Refreshed(l) \/ RefreshFails(l)
    PROVE  TabInv'
<1>1. refresh[l] \in FetchType /\ NoCall \in CallType /\ NoCall.pc = "idle"
      /\ call \in [Call -> CallType]
  BY NoCallType DEF TabInv, TabTypeOK
<1>2. CASE ServeRefresh(l)
  <2>1. PICK token \in Token :
          /\ Settings(l, token)
          /\ refresh' = [refresh EXCEPT ![l].pc = "served", ![l].token = token]
    BY <1>2 DEF ServeRefresh
  <2>2. refresh' \in [Login -> FetchType]
    BY <2>1 DEF TabInv, TabTypeOK, FetchType
  <2> QED
    BY <1>2, <2>1, <2>2, SettingsType, CallsMove DEF LoadsLogin, ServeRefresh, TabInv, TabTypeOK, session
<1>3. CASE Refreshed(l)
  <2>1. access' \in Token /\ UNCHANGED <<session, server, load>>
    BY <1>1, <1>3 DEF Refreshed, FetchType, TabInv, TabTypeOK
  <2>2. refresh' \in [Login -> FetchType]
    BY <1>3, TabTypes DEF Refreshed, TabInv, TabTypeOK
  <2>3. call' = [c \in Call |-> IF c \in Waiting(l) THEN Resumed(c, access') ELSE call[c]]
    BY <1>3 DEF Refreshed
  <2>4. call' \in [Call -> CallType]
    BY <1>1, <2>1, <2>3, ResumedType
  <2>5. \A c \in Call : call'[c].pc = "refused" => call'[c] = call[c]
    BY <2>1, <2>3, ResumedType
  <2> QED
    BY <2>1, <2>2, <2>4, <2>5, CallsMove DEF LoadsLogin, TabInv, TabTypeOK, session, server
<1>4. CASE RefreshFails(l)
  <2>1. UNCHANGED <<session, access, server, load>>
    BY <1>4 DEF RefreshFails
  <2>2. refresh' \in [Login -> FetchType]
    BY <1>4, TabTypes DEF RefreshFails, TabInv, TabTypeOK
  <2>3. call' = [c \in Call |->
                   IF c \notin Waiting(l) THEN call[c]
                   ELSE IF call[c].kind = "mailbox" THEN Resumed(c, 0) ELSE NoCall]
    BY <1>4 DEF RefreshFails
  <2>4. call' \in [Call -> CallType]
    BY <1>1, <2>3, ResumedType, TabTypes
  <2>5. \A c \in Call : call'[c].pc = "refused" => call'[c] = call[c]
    BY <1>1, <2>3, ResumedType, TabTypes
  <2> QED
    BY <2>1, <2>2, <2>4, <2>5, CallsMove DEF LoadsLogin, TabInv, TabTypeOK, session, server
<1> QED
  BY <1>2, <1>3, <1>4

LEMMA LoadSteps ==
    ASSUME TabInv, StartLoad \/ ServeLoad \/ Loaded \/ Renew \/ LoadFails
    PROVE  TabInv'
<1>1. load \in FetchType /\ UNCHANGED <<refresh, call>> /\ expired' = expired
      /\ expired \subseteq Token /\ box' \in Box
  BY DEF TabInv, TabTypeOK, StartLoad, ServeLoad, Loaded, Renew, LoadFails, session, server
<1>2. CASE StartLoad
  <2>1. load' \in FetchType /\ load'.login \in Login
    BY <1>2, TabTypes DEF StartLoad, FetchType, TabInv, TabTypeOK
  <2> QED
    BY <1>1, <1>2, <2>1, CallsMove DEF LoadsLogin, StartLoad, TabInv, TabTypeOK, session, server
<1>3. CASE ServeLoad
  <2>1. PICK token \in Token :
          Settings(load.login, token) /\ load' = [load EXCEPT !.pc = "served", !.token = token]
    BY <1>3 DEF ServeLoad
  <2>2. load' \in FetchType /\ load'.login = load.login /\ load.pc # "idle"
    BY <1>1, <1>3, <2>1 DEF ServeLoad, FetchType
  <2>3. load.login \in Login
    BY <2>2 DEF TabInv, LoadsLogin
  <2>4. issued' \in Seq(User) /\ Len(issued') <= MaxToken
    BY <2>1, <2>3, SettingsType DEF TabInv
  <2> QED
    BY <1>1, <1>3, <2>2, <2>3, <2>4, CallsMove DEF LoadsLogin, ServeLoad, TabInv, TabTypeOK, session
<1>4. CASE Loaded
  <2>1. load' \in FetchType /\ access' \in Token
        /\ load.pc # "idle" /\ (load'.pc # "idle" => load'.login = load.login)
    BY <1>1, <1>4, TabTypes DEF Loaded, FetchType
  <2> QED
    BY <1>1, <1>4, <2>1, CallsMove DEF LoadsLogin, Loaded, TabInv, TabTypeOK, session, server
<1>5. CASE Renew
  BY <1>1, <1>5, CallsMove, TabTypes DEF LoadsLogin, Renew, TabInv, TabTypeOK, server
<1>6. CASE LoadFails
  BY <1>1, <1>6, CallsMove, TabTypes DEF LoadsLogin, LoadFails, TabInv, TabTypeOK, session, server
<1> QED
  BY <1>2, <1>3, <1>4, <1>5, <1>6

LEMMA BrowserSteps ==
    ASSUME TabInv, OtherTab \/ Reload \/ \E t \in Token : ExpireToken(t)
    PROVE  TabInv'
<1>1. CASE OtherTab
  BY <1>1, CallsMove DEF LoadsLogin, OtherTab, TabInv, TabTypeOK, server
<1>2. CASE Reload
  <2>1. login' \in Login \cup {None} /\ box' \in Box
    BY <1>2 DEF Reload, TabInv, TabTypeOK
  <2>2. refresh' \in [Login -> FetchType] /\ load' \in FetchType /\ access' \in Token
    BY <1>2, TabTypes DEF Reload
  <2>3. call' \in [Call -> CallType] /\ \A c \in Call : call'[c].pc = "idle"
    BY <1>2, NoCallType DEF Reload, TabInv, TabTypeOK
  <2>4. \A c \in Call : call'[c].pc # "refused"
    BY <2>3
  <2> QED
    BY <1>2, <2>1, <2>2, <2>3, <2>4, TabTypes, CallsMove DEF LoadsLogin, Reload, TabInv, TabTypeOK, server
<1>3. ASSUME NEW t \in Token, ExpireToken(t) PROVE TabInv'
  <2>1. expired' \subseteq Token /\ expired \subseteq expired'
    BY <1>3 DEF ExpireToken, TabInv, TabTypeOK
  <2> QED
    BY <1>3, <2>1, CallsMove DEF LoadsLogin, ExpireToken, TabInv, TabTypeOK, session
<1> QED
  BY <1>1, <1>2, <1>3

LEMMA TabInvStep == TabInv /\ [TabNext]_tabVars => TabInv'
<1> SUFFICES ASSUME TabInv, [TabNext]_tabVars PROVE TabInv'
  OBVIOUS
<1>1. CASE UNCHANGED tabVars
  BY <1>1 DEF tabVars, session, server, TabInv, TabTypeOK, RefusedExpired, LoadsLogin
<1> QED
  BY <1>1, CallSteps, RefreshSteps, LoadSteps, BrowserSteps DEF TabNext, Progress

-----------------------------------------------------------------------------
(* Type correctness of the session for all parameters. *)
THEOREM SessionTypes == TabSpec => []TabTypeOK
<1>1. TabInv => TabTypeOK
  BY DEF TabInv
<1> QED
  BY <1>1, TabInvInit, TabInvStep, PTL DEF TabSpec

(* However many calls are refused, together or late, a refresh is only     *)
(* started while the token of the tab is an expired one                    *)
(* (user-access-token-interceptor.js:40-62).                               *)
THEOREM RefreshesExpired == TabSpec => OnlyExpiredRefreshed
<1>1. ASSUME TabInv, [TabNext]_tabVars, NEW l \in Login,
             refresh[l].pc = "idle", refresh'[l].pc = "sent"
      PROVE  access \in expired
  <2>1. \E c \in Call : Wait(c)
    BY <1>1, TabTypes
       DEF TabNext, Progress, tabVars, session, server, Send, Serve, Lose, GiveUp, SendAgain,
           ServeRefresh, Refreshed, RefreshFails, StartLoad, ServeLoad, Loaded, Renew,
           LoadFails, OtherTab, Reload, ExpireToken, TabInv, TabTypeOK
  <2> QED
    BY <1>1, <2>1 DEF Wait, IsReplaced, TabInv, RefusedExpired
<1>2. TabInv /\ [TabNext]_tabVars =>
        [\A l \in Login : refresh[l].pc = "idle" /\ refresh'[l].pc = "sent" => access \in expired]_tabVars
  BY <1>1
<1> QED
  BY <1>2, TabInvInit, TabInvStep, PTL DEF TabSpec, OnlyExpiredRefreshed

(* A call is only sent again for the login and the mailbox of the browser, *)
(* whatever other tabs did while it waited                                 *)
(* (user-access-token-interceptor.js:67-75).                               *)
THEOREM RetriesAreCurrent == TabSpec => RetryIsCurrent
<1>1. ASSUME TabInv, [TabNext]_tabVars, NEW c \in Call,
             call[c].pc # "resent", call'[c].pc = "resent"
      PROVE  call'[c].login = login /\ call'[c].box = box
  <2>1. call \in [Call -> CallType] /\ NoCall.pc = "idle"
    BY <1>1, NoCallType DEF TabInv, TabTypeOK
  <2>2. ASSUME NEW token, IsCurrentSession(c)
        PROVE  Resent(c, token).login = login /\ Resent(c, token).box = box
    BY <2>1, <2>2 DEF Resent, CallType, IsCurrentSession
  <2>3. ASSUME NEW d \in Call, SendAgain(d)
        PROVE  call'[c].login = login /\ call'[c].box = box
    <3>1. d = c
      BY <1>1, <2>1, <2>3 DEF SendAgain
    <3> QED
      BY <2>1, <2>2, <2>3, <3>1 DEF SendAgain, Matches
  <2>4. ASSUME NEW l \in Login, Refreshed(l) \/ RefreshFails(l)
        PROVE  call'[c].login = login /\ call'[c].box = box
    <3>1. \E token : call'[c] = Resumed(c, token)
      BY <1>1, <2>1, <2>4 DEF Refreshed, RefreshFails
    <3> QED
      BY <1>1, <2>1, <2>2, <3>1 DEF Resumed
  <2>5. (\E d \in Call : SendAgain(d)) \/ (\E l \in Login : Refreshed(l) \/ RefreshFails(l))
    <3>1. ASSUME NEW d \in Call, NEW r, r.pc # "resent", call' = [call EXCEPT ![d] = r]
          PROVE  FALSE
      BY <1>1, <2>1, <3>1
    <3>2. ASSUME NEW d \in Call, \/ \E kind \in Kind : Send(d, kind)
                                 \/ Serve(d) \/ Lose(d) \/ GiveUp(d) \/ Wait(d)
          PROVE  FALSE
      BY <1>1, <2>1, <3>1, <3>2 DEF Send, Serve, Lose, GiveUp, Wait, CallType
    <3>3. call' # call
      BY <1>1
    <3>4. ~Reload
      BY <1>1, <2>1 DEF Reload
    <3> QED
      BY <1>1, <3>2, <3>3, <3>4
         DEF TabNext, Progress, tabVars, ServeRefresh, StartLoad, ServeLoad, Loaded, Renew,
             LoadFails, OtherTab, ExpireToken
  <2> QED
    BY <2>3, <2>4, <2>5
<1>2. TabInv /\ [TabNext]_tabVars =>
        [\A c \in Call : call[c].pc # "resent" /\ call'[c].pc = "resent" =>
                           call'[c].login = login /\ call'[c].box = box]_tabVars
  BY <1>1
<1> QED
  BY <1>2, TabInvInit, TabInvStep, PTL DEF TabSpec, RetryIsCurrent

-----------------------------------------------------------------------------
(* TelegramBinding                                                         *)

(* A list is never longer than the maximum, and one that a token is about *)
(* to be added to is shorter; what a request needs later it has.          *)
TaskFits(pc, chat, id, name, seen, then) ==
    /\ IsFiniteSet(seen) /\ Cardinality(seen) <= MaxBound
    /\ pc \in {"create", "putList"} => Cardinality(seen) < MaxBound
    /\ pc \notin {"idle", "find", "deleteName", "deleteId"} => chat \in Chat
    /\ pc \in {"bindRead", "bindCheck", "putList", "putEntry"} => id \in AddressId
    /\ pc \notin {"idle", "cleanRead", "cleanCheck"} => name \in Name
    /\ pc = "find" => then # "idle"
    /\ pc \in {"unbindRead", "unbindCheck"} => then = "idle"

TaskOK(r) == r \in TaskType /\ TaskFits(r.pc, r.chat, r.id, r.name, r.seen, r.then)

ChatTyped ==
    /\ ChatTypeOK
    /\ \A u \in Chat : IsFiniteSet(list[u])
    /\ \A t \in Task : TaskOK(task[t])

(* Ids are handed out once; the id a request knows is of its name. *)
IdFits(id, name) == id < nextId /\ \A a \in address : a.id = id => a.name = name

IdsOK ==
    /\ \A a \in address : a.id < nextId
    /\ \A a, b \in address : a.id = b.id \/ a.name = b.name => a = b
    /\ \A n \in Name : entry[n] # Nothing => entry[n].id < nextId
    /\ \A t \in Task : IdFits(task[t].id, task[t].name)

(* Nothing is pushed that NoStalePush does not excuse. *)
Silent(n) == entry[n] = Nothing \/ entry[n].excused

(* The request that unbinds found the chat that gets the pushes, or they *)
(* were bound anew meanwhile.                                            *)
LeavingFits(pc, chat, name, then) ==
    /\ pc \in {"deleteName", "deleteId"} => Silent(name)
    /\ pc = "drop" \/ (pc \in {"read", "filter", "owner"} /\ then # "idle") =>
          Silent(name) \/ entry[name].chat = chat

PushOK ==
    /\ NoStalePush
    /\ \A n \in Name : Taken(n) \/ Silent(n)
    /\ \A t \in Task : LeavingFits(task[t].pc, task[t].chat, task[t].name, task[t].then)

(* An entry is written after a list that has the mailbox. *)
SeenFits(pc, id, name, seen) ==
    LET mailbox == [id |-> id, name |-> name] IN
    pc = "putEntry" /\ mailbox \in address => \E token \in seen : Of(token) = mailbox

ListsOK ==
    /\ PushedIsListed
    /\ \A t \in Task : SeenFits(task[t].pc, task[t].id, task[t].name, task[t].seen)

ChatInv == ChatTyped /\ IdsOK /\ PushOK /\ ListsOK

-----------------------------------------------------------------------------
(* What a step does to the task of t, field by field *)
Now(t, pc, chat, id, name, seen, then) ==
    /\ \A s \in Task \ {t} : task'[s] = task[s]
    /\ task' \in [Task -> TaskType]
    /\ task'[t].pc = pc /\ task'[t].chat = chat /\ task'[t].id = id /\ task'[t].name = name
    /\ task'[t].seen = seen /\ task'[t].then = then

PCs == {"idle", "bindRead", "bindCheck", "newRead", "create", "putList", "putEntry",
        "unbindRead", "unbindCheck", "find", "read", "filter", "owner", "drop",
        "deleteName", "deleteId", "cleanRead", "cleanCheck"}

LEMMA NewTask ==
    ASSUME task \in [Task -> TaskType], NEW t \in Task, NEW r \in TaskType,
           task' = [task EXCEPT ![t] = r]
    PROVE  Now(t, r.pc, r.chat, r.id, r.name, r.seen, r.then)
  BY DEF Now

LEMMA NoTaskType ==
    /\ NoTask \in TaskType
    /\ NoTask = [pc |-> "idle", chat |-> Nothing, id |-> 0, name |-> Nothing, seen |-> {},
                 then |-> "idle"]
  BY TelegramBindingAssumption DEF NoTask, TaskType

LEMMA Stops ==
    ASSUME task \in [Task -> TaskType], NEW t \in Task, Stop(t)
    PROVE  Now(t, "idle", Nothing, 0, Nothing, {}, "idle")
<1>1. PICK r \in TaskType : r = NoTask
  BY NoTaskType
<1>2. r.pc = "idle" /\ r.chat = Nothing /\ r.id = 0 /\ r.name = Nothing /\ r.seen = {}
      /\ r.then = "idle"
  BY <1>1 DEF NoTask
<1>3. Now(t, r.pc, r.chat, r.id, r.name, r.seen, r.then)
  BY <1>1, NewTask DEF Stop
<1> QED
  BY <1>2, <1>3

LEMMA Goes ==
    ASSUME task \in [Task -> TaskType], NEW t \in Task, NEW pc \in PCs, GoOn(t, pc)
    PROVE  Now(t, pc, task[t].chat, task[t].id, task[t].name, task[t].seen, task[t].then)
<1>1. PICK o \in TaskType : o = task[t]
  OBVIOUS
<1>2. PICK r : r = [o EXCEPT !.pc = pc]
  OBVIOUS
<1>3. r \in TaskType /\ r.pc = pc /\ r.chat = o.chat /\ r.id = o.id /\ r.name = o.name
      /\ r.seen = o.seen /\ r.then = o.then
  BY <1>2 DEF TaskType, PCs
<1>4. task' = [task EXCEPT ![t] = r]
  BY <1>1, <1>2 DEF GoOn
<1>5. Now(t, r.pc, r.chat, r.id, r.name, r.seen, r.then)
  BY <1>3, <1>4, NewTask
<1> QED
  BY <1>1, <1>3, <1>5

LEMMA Reads ==
    ASSUME task \in [Task -> TaskType], list \in [Chat -> SUBSET ChatToken],
           NEW t \in Task, task[t].chat \in Chat, NEW from, NEW pc \in PCs, Read(t, from, pc)
    PROVE  /\ Now(t, pc, task[t].chat, task[t].id, task[t].name, list[task[t].chat], task[t].then)
           /\ task[t].pc = from
           /\ UNCHANGED <<address, nextId, list, entry, fails, upset>>
<1>1. PICK o \in TaskType : o = task[t]
  OBVIOUS
<1>2. PICK l \in SUBSET ChatToken : l = list[o.chat]
  BY <1>1
<1>3. PICK r : r = [o EXCEPT !.pc = pc, !.seen = l]
  OBVIOUS
<1>4. r \in TaskType /\ r.pc = pc /\ r.chat = o.chat /\ r.id = o.id /\ r.name = o.name
      /\ r.seen = l /\ r.then = o.then
  BY <1>3 DEF TaskType, PCs
<1>5. task' = [task EXCEPT ![t] = r]
  BY <1>1, <1>2, <1>3 DEF Read
<1>6. Now(t, r.pc, r.chat, r.id, r.name, r.seen, r.then)
  BY <1>4, <1>5, NewTask
<1> QED
  BY <1>1, <1>2, <1>4, <1>6 DEF Read

-----------------------------------------------------------------------------
(* A step that leaves the tables alone keeps the invariant if the task it *)
(* leads to fits them.                                                    *)
LEMMA TasksKept ==
    ASSUME ChatTyped, NEW t \in Task, NEW pc, NEW chat, NEW id, NEW name, NEW seen, NEW then,
           Now(t, pc, chat, id, name, seen, then), TaskFits(pc, chat, id, name, seen, then)
    PROVE  (task \in [Task -> TaskType])' /\ (\A s \in Task : TaskOK(task[s]))'
<1>1. task' \in [Task -> TaskType]
  BY DEF Now
<1>2. TaskOK(task'[t])
  BY <1>1 DEF Now, TaskOK
<1>3. \A s \in Task \ {t} : TaskOK(task'[s])
  BY DEF Now, ChatTyped
<1> QED
  BY <1>1, <1>2, <1>3

LEMMA QuietStep ==
    ASSUME ChatInv, NEW t \in Task, NEW pc, NEW chat, NEW id, NEW name, NEW seen, NEW then,
           Now(t, pc, chat, id, name, seen, then),
           UNCHANGED <<address, nextId, list, entry>>,
           upset \subseteq upset', upset' \subseteq Chat, fails' \in 0..MaxFail,
           TaskFits(pc, chat, id, name, seen, then), IdFits(id, name),
           LeavingFits(pc, chat, name, then), SeenFits(pc, id, name, seen),
           task[t].pc \in {"owner", "drop"} =>
              \/ pc \in {"owner", "drop"} /\ chat = task[t].chat /\ name = task[t].name
              \/ task[t].chat \in upset'
              \/ entry[task[t].name] = Nothing
              \/ entry[task[t].name].chat # task[t].chat
    PROVE  ChatInv'
<1>1. ChatTyped'
  BY TasksKept DEF ChatInv, ChatTyped, ChatTypeOK
<1>2. IdsOK'
  <2>1. \A s \in Task : IdFits(task'[s].id, task'[s].name)
    BY DEF Now, ChatInv, IdsOK
  <2> QED
    BY <2>1 DEF ChatInv, IdsOK, IdFits
<1>3. PushOK'
  <2>1. \A s \in Task : LeavingFits(task'[s].pc, task'[s].chat, task'[s].name, task'[s].then)
    BY DEF Now, ChatInv, PushOK
  <2> QED
    BY <2>1 DEF ChatInv, PushOK, LeavingFits, Silent, NoStalePush, Taken
<1>4. ListsOK'
  <2>1. \A s \in Task : SeenFits(task'[s].pc, task'[s].id, task'[s].name, task'[s].seen)
    BY DEF Now, ChatInv, ListsOK
  <2>2. PushedIsListed'
    <3> SUFFICES ASSUME NEW n \in Name, entry[n] # Nothing, entry[n].chat \notin upset',
                        [id |-> entry[n].id, name |-> n] \in address,
                        ~Listed(entry[n].chat, [id |-> entry[n].id, name |-> n])
                 PROVE  \E s \in Task : /\ task'[s].pc \in {"owner", "drop"}
                                        /\ task'[s].chat = entry[n].chat /\ task'[s].name = n
      BY DEF PushedIsListed, Listed, Of
    <3>1. PICK s \in Task : /\ task[s].pc \in {"owner", "drop"}
                            /\ task[s].chat = entry[n].chat /\ task[s].name = n
      BY DEF ChatInv, ListsOK, PushedIsListed
    <3> QED
      BY <3>1 DEF Now
  <2> QED
    BY <2>1, <2>2 DEF ListsOK, SeenFits
<1> QED
  BY <1>1, <1>2, <1>3, <1>4 DEF ChatInv

LEMMA Begins ==
    ASSUME ChatInv, NEW t \in Task, NEW r \in TaskType, BeginTask(t, r), r.seen = {},
           UNCHANGED <<address, nextId, list, entry, fails, upset>>,
           TaskFits(r.pc, r.chat, r.id, r.name, {}, r.then), IdFits(r.id, r.name),
           LeavingFits(r.pc, r.chat, r.name, r.then), r.pc # "putEntry"
    PROVE  ChatInv'
<1>1. task \in [Task -> TaskType] /\ upset \subseteq Chat /\ fails \in 0..MaxFail
  BY DEF ChatInv, ChatTyped, ChatTypeOK
<1>2. Now(t, r.pc, r.chat, r.id, r.name, r.seen, r.then) /\ task[t].pc = "idle"
  BY <1>1, NewTask DEF BeginTask
<1> QED
  BY <1>1, <1>2, QuietStep DEF SeenFits

LEMMA StartStep ==
    ASSUME ChatInv, NEW t \in Task, Start(t)
    PROVE  ChatInv'
<1>1. address \subseteq Address /\ nextId \in 1..(MaxAddress + 1)
      /\ \A a, b \in address : a.id = b.id => a = b
  BY DEF ChatInv, ChatTyped, ChatTypeOK, IdsOK
<1>2. IsFiniteSet({}) /\ Cardinality({}) <= MaxBound /\ IdFits(0, Nothing)
      /\ \A n : IdFits(0, n)
  BY <1>1, TelegramBindingAssumption, FS_EmptySet DEF IdFits, Address, AddressId
<1>3. \A a \in address : /\ a.id \in AddressId /\ a.id \in 0..MaxAddress /\ a.name \in Name
                         /\ IdFits(a.id, a.name)
  BY <1>1 DEF Address, AddressId, IdFits, ChatInv, IdsOK
<1> PICK o \in TaskType : o = NoTask
  BY NoTaskType
<1>8. o.id = 0 /\ o.name = Nothing /\ o.chat = Nothing /\ o.seen = {} /\ o.then = "idle"
  BY DEF NoTask
<1>4. ASSUME NEW a \in address, NEW by \in {"deleteName", "deleteId"}, StartDelete(t, a, by)
      PROVE  ChatInv'
  <2>1. PICK r : r = [o EXCEPT !.pc = "find", !.id = a.id, !.name = a.name, !.then = by]
    OBVIOUS
  <2>2. r \in TaskType /\ r.pc = "find" /\ r.id = a.id /\ r.name = a.name /\ r.then = by
        /\ r.seen = {} /\ r.chat = Nothing
    BY <1>8, <1>3, <2>1 DEF TaskType
  <2> QED
    BY <1>2, <1>3, <1>4, <2>1, <2>2, Begins DEF StartDelete, TaskFits, LeavingFits
<1>5. ASSUME NEW u \in Chat, StartClean(t, u) PROVE ChatInv'
  <2>1. PICK r : r = [o EXCEPT !.pc = "cleanRead", !.chat = u]
    OBVIOUS
  <2>2. r \in TaskType /\ r.pc = "cleanRead" /\ r.id = 0 /\ r.name = Nothing /\ r.then = "idle"
        /\ r.seen = {} /\ r.chat = u
    BY <1>8, <2>1, TelegramBindingAssumption DEF TaskType
  <2> QED
    BY <1>2, <1>5, <2>1, <2>2, Begins DEF StartClean, TaskFits, LeavingFits
<1>6. ASSUME NEW u \in Chat, NEW a \in address, StartBind(t, u, a) PROVE ChatInv'
  <2>1. PICK r : r = [o EXCEPT !.pc = "bindRead", !.chat = u, !.id = a.id, !.name = a.name]
    OBVIOUS
  <2>2. r \in TaskType /\ r.pc = "bindRead" /\ r.id = a.id /\ r.name = a.name /\ r.then = "idle"
        /\ r.seen = {} /\ r.chat = u
    BY <1>8, <1>3, <2>1 DEF TaskType
  <2> QED
    BY <1>2, <1>3, <1>6, <2>1, <2>2, Begins DEF StartBind, TaskFits, LeavingFits
<1>7. ASSUME NEW u \in Chat, NEW n \in Name, NEW pc \in {"newRead", "unbindRead"},
             BeginTask(t, [NoTask EXCEPT !.pc = pc, !.chat = u, !.name = n]),
             UNCHANGED <<address, nextId, list, entry, fails, upset>>
      PROVE  ChatInv'
  <2>1. PICK r : r = [o EXCEPT !.pc = pc, !.chat = u, !.name = n]
    OBVIOUS
  <2>2. r \in TaskType /\ r.pc = pc /\ r.id = 0 /\ r.name = n /\ r.then = "idle"
        /\ r.seen = {} /\ r.chat = u
    BY <1>8, <2>1, TelegramBindingAssumption DEF TaskType
  <2> QED
    BY <1>2, <1>7, <2>1, <2>2, Begins DEF TaskFits, LeavingFits
<1> QED
  BY <1>4, <1>5, <1>6, <1>7 DEF Start, StartNew, StartUnbind

(* What is known of the task that moves *)
LEMMA Mine ==
    ASSUME ChatInv, NEW t \in Task
    PROVE  /\ task \in [Task -> TaskType] /\ list \in [Chat -> SUBSET ChatToken]
           /\ upset \subseteq Chat /\ fails \in 0..MaxFail
           /\ TaskOK(task[t]) /\ IdFits(task[t].id, task[t].name)
           /\ LeavingFits(task[t].pc, task[t].chat, task[t].name, task[t].then)
           /\ SeenFits(task[t].pc, task[t].id, task[t].name, task[t].seen)
           /\ \A u \in Chat : IsFiniteSet(list[u]) /\ Cardinality(list[u]) <= MaxBound
  BY DEF ChatInv, ChatTyped, ChatTypeOK, IdsOK, PushOK, ListsOK

(* A request that ends, but not between its list and its entry *)
LEMMA StopStep ==
    ASSUME ChatInv, NEW t \in Task, Stop(t), UNCHANGED <<address, nextId, list, entry>>,
           upset \subseteq upset', upset' \subseteq Chat, fails' \in 0..MaxFail,
           task[t].pc \in {"owner", "drop"} =>
              \/ task[t].chat \in upset'
              \/ entry[task[t].name] = Nothing
              \/ entry[task[t].name].chat # task[t].chat
    PROVE  ChatInv'
<1>1. Now(t, "idle", Nothing, 0, Nothing, {}, "idle")
  BY Mine, Stops
<1>2. TaskFits("idle", Nothing, 0, Nothing, {}, "idle") /\ IdFits(0, Nothing)
  BY TelegramBindingAssumption, FS_EmptySet
     DEF TaskFits, IdFits, ChatInv, ChatTyped, ChatTypeOK, Address, AddressId
<1> QED
  BY <1>1, <1>2, QuietStep DEF LeavingFits, SeenFits

(* A request that goes on *)
LEMMA GoStep ==
    ASSUME ChatInv, NEW t \in Task, NEW pc \in PCs, GoOn(t, pc),
           UNCHANGED <<address, nextId, list, entry, upset>>, fails' \in 0..MaxFail,
           TaskFits(pc, task[t].chat, task[t].id, task[t].name, task[t].seen, task[t].then),
           LeavingFits(pc, task[t].chat, task[t].name, task[t].then),
           SeenFits(pc, task[t].id, task[t].name, task[t].seen),
           task[t].pc = "owner" => 
              \/ pc = "drop"
              \/ entry[task[t].name] = Nothing
              \/ entry[task[t].name].chat # task[t].chat,
           task[t].pc # "drop"
    PROVE  ChatInv'
  BY Mine, Goes, QuietStep

LEMMA ReadStep ==
    ASSUME ChatInv, NEW t \in Task,
           BindRead(t) \/ UnbindRead(t) \/ ReadTokens(t) \/ CleanRead(t)
    PROVE  ChatInv'
<1>1. ASSUME NEW from, NEW pc \in {"bindCheck", "unbindCheck", "filter", "cleanCheck"},
             Read(t, from, pc),
             \/ from = "bindRead" /\ pc = "bindCheck"
             \/ from = "unbindRead" /\ pc = "unbindCheck"
             \/ from = "read" /\ pc = "filter"
             \/ from = "cleanRead" /\ pc = "cleanCheck"
      PROVE  ChatInv'
  <2>1. task[t].pc = from /\ task[t].chat \in Chat
    BY <1>1, Mine DEF Read, TaskOK, TaskFits
  <2>2. pc \in PCs
    BY DEF PCs
  <2>3. /\ Now(t, pc, task[t].chat, task[t].id, task[t].name, list[task[t].chat], task[t].then)
        /\ UNCHANGED <<address, nextId, list, entry, fails, upset>>
    BY <1>1, <2>1, <2>2, Mine, Reads
  <2>4. TaskFits(pc, task[t].chat, task[t].id, task[t].name, list[task[t].chat], task[t].then)
    BY <1>1, <2>1, Mine DEF TaskOK, TaskFits
  <2>5. LeavingFits(pc, task[t].chat, task[t].name, task[t].then)
    BY <1>1, <2>1, Mine DEF LeavingFits
  <2> QED
    BY <1>1, <2>1, <2>3, <2>4, <2>5, Mine, QuietStep DEF SeenFits
<1> QED
  BY <1>1 DEF BindRead, UnbindRead, ReadTokens, CleanRead

LEMMA ValidFails ==
    ASSUME ChatInv, NEW t \in Task, NEW V, Valid(t, V)
    PROVE  /\ fails' \in 0..MaxFail
           /\ \A token \in V : token \in task[t].seen /\ Of(token) \in address
  BY Mine, TelegramBindingAssumption DEF Valid

LEMMA BindCheckStep ==
    ASSUME ChatInv, NEW t \in Task, BindCheck(t)
    PROVE  ChatInv'
<1>1. PICK V \in SUBSET task[t].seen :
        /\ Valid(t, V)
        /\ IF \E token \in V : token.name = task[t].name THEN GoOn(t, "putEntry")
           ELSE IF Full(task[t].seen) THEN Stop(t)
           ELSE GoOn(t, "putList")
  BY DEF BindCheck
<1>2. task[t].pc = "bindCheck" /\ UNCHANGED <<address, nextId, list, entry, upset>>
  BY DEF BindCheck
<1>3. fails' \in 0..MaxFail
  BY <1>1, ValidFails
<1>4. CASE \E token \in V : token.name = task[t].name
  <2>1. PICK token \in V : token.name = task[t].name
    BY <1>4
  <2>2. token \in task[t].seen /\ Of(token) \in address
    BY <1>1, ValidFails
  <2>3. SeenFits("putEntry", task[t].id, task[t].name, task[t].seen)
    <3> SUFFICES ASSUME [id |-> task[t].id, name |-> task[t].name] \in address
                 PROVE  Of(token) = [id |-> task[t].id, name |-> task[t].name]
      BY <2>2 DEF SeenFits
    <3> QED
      BY <2>1, <2>2 DEF Of, ChatInv, IdsOK
  <2>4. TaskFits("putEntry", task[t].chat, task[t].id, task[t].name, task[t].seen, task[t].then)
    BY <1>2, Mine DEF TaskOK, TaskFits
  <2> QED
    BY <1>1, <1>2, <1>3, <1>4, <2>3, <2>4, Mine, GoStep DEF PCs, LeavingFits
<1>5. CASE ~(\E token \in V : token.name = task[t].name) /\ Full(task[t].seen)
  BY <1>1, <1>2, <1>3, <1>5, Mine, StopStep
<1>6. CASE ~(\E token \in V : token.name = task[t].name) /\ ~Full(task[t].seen)
  <2>1. IsFiniteSet(task[t].seen) /\ Cardinality(task[t].seen) \in Nat
    BY Mine, FS_CardinalityType DEF TaskOK, TaskFits
  <2>2. TaskFits("putList", task[t].chat, task[t].id, task[t].name, task[t].seen, task[t].then)
    BY <1>2, <1>6, <2>1, Mine, TelegramBindingAssumption DEF TaskOK, TaskFits, Full
  <2> QED
    BY <1>1, <1>2, <1>3, <1>6, <2>2, Mine, GoStep DEF PCs, LeavingFits, SeenFits
<1> QED
  BY <1>4, <1>5, <1>6

LEMMA NewReadStep ==
    ASSUME ChatInv, NEW t \in Task, NewRead(t)
    PROVE  ChatInv'
<1>1. task[t].pc = "newRead" /\ UNCHANGED <<address, nextId, list, entry, fails, upset>>
  BY DEF NewRead, Read
<1>2. task[t].chat \in Chat
  BY <1>1, Mine DEF TaskOK, TaskFits
<1>3. CASE Stop(t)
  BY <1>1, <1>3, Mine, StopStep
<1>4. CASE ~Full(list[task[t].chat]) /\ Read(t, "newRead", "create")
  <2> DEFINE l == list[task[t].chat]
  <2>1. Now(t, "create", task[t].chat, task[t].id, task[t].name, l, task[t].then)
    BY <1>2, <1>4, Mine, Reads DEF PCs
  <2>2. Cardinality(l) \in Nat
    BY <1>2, Mine, FS_CardinalityType
  <2>3. TaskFits("create", task[t].chat, task[t].id, task[t].name, l, task[t].then)
    BY <1>1, <1>2, <1>4, <2>2, Mine, TelegramBindingAssumption DEF TaskOK, TaskFits, Full
  <2>4. LeavingFits("create", task[t].chat, task[t].name, task[t].then)
        /\ SeenFits("create", task[t].id, task[t].name, l)
    BY DEF LeavingFits, SeenFits
  <2> HIDE DEF l
  <2> QED
    BY <1>1, <2>1, <2>3, <2>4, Mine, QuietStep
<1> QED
  BY <1>3, <1>4 DEF NewRead

LEMMA UnbindCheckStep ==
    ASSUME ChatInv, NEW t \in Task, UnbindCheck(t)
    PROVE  ChatInv'
<1>1. PICK V \in SUBSET task[t].seen :
        /\ Valid(t, V)
        /\ GoOn(t, "filter") \/ Stop(t)
  BY DEF UnbindCheck
<1>2. task[t].pc = "unbindCheck" /\ UNCHANGED <<address, nextId, list, entry, upset>>
  BY DEF UnbindCheck
<1>3. fails' \in 0..MaxFail
  BY <1>1, ValidFails
<1>4. CASE Stop(t)
  BY <1>2, <1>3, <1>4, Mine, StopStep
<1>5. CASE GoOn(t, "filter")
  <2>1. TaskFits("filter", task[t].chat, task[t].id, task[t].name, task[t].seen, task[t].then)
    BY <1>2, Mine DEF TaskOK, TaskFits
  <2>2. LeavingFits("filter", task[t].chat, task[t].name, task[t].then)
    BY <1>2, Mine DEF LeavingFits, TaskOK, TaskFits
  <2> QED
    BY <1>2, <1>3, <1>5, <2>1, <2>2, Mine, GoStep DEF PCs, SeenFits
<1> QED
  BY <1>1, <1>4, <1>5

(* What follows when nothing is pushed to the chat any more *)
LEMMA ProceedStep ==
    ASSUME ChatInv, NEW t \in Task, Proceed(t),
           UNCHANGED <<address, nextId, list, entry, fails, upset>>,
           task[t].pc \in {"find", "owner"}, task[t].then # "idle" => Silent(task[t].name),
           task[t].pc = "owner" =>
              \/ entry[task[t].name] = Nothing
              \/ entry[task[t].name].chat # task[t].chat
    PROVE  ChatInv'
<1>1. CASE task[t].then = "idle"
  BY <1>1, Mine, StopStep DEF Proceed
<1>2. CASE task[t].then # "idle"
  <2>1. PICK pc \in {"deleteName", "deleteId"} : pc = task[t].then
    BY <1>2, Mine DEF TaskOK, TaskType
  <2>2. GoOn(t, pc)
    BY <1>2, <2>1 DEF Proceed
  <2>3. TaskFits(pc, task[t].chat, task[t].id, task[t].name, task[t].seen, task[t].then)
    BY <2>1, Mine DEF TaskOK, TaskFits
  <2>4. LeavingFits(pc, task[t].chat, task[t].name, task[t].then)
    BY <1>2 DEF LeavingFits
  <2> QED
    BY <2>2, <2>3, <2>4, Mine, GoStep DEF PCs, SeenFits
<1> QED
  BY <1>1, <1>2

LEMMA EntryFields ==
    ASSUME ChatInv, NEW n \in Name, entry[n] # Nothing
    PROVE  /\ entry[n] \in Entry /\ entry[n].chat \in Chat /\ entry[n].id \in AddressId
           /\ entry[n].excused \in BOOLEAN
  BY DEF ChatInv, ChatTyped, ChatTypeOK, Entry

LEMMA FindChatStep ==
    ASSUME ChatInv, NEW t \in Task, FindChat(t)
    PROVE  ChatInv'
<1>1. task[t].pc = "find" /\ UNCHANGED <<address, nextId, list, entry, fails, upset>>
  BY DEF FindChat
<1>2. task[t].name \in Name
  BY <1>1, Mine DEF TaskOK, TaskFits
<1>3. CASE entry[task[t].name] = Nothing
  BY <1>1, <1>3, ProceedStep DEF FindChat, Silent
<1>4. CASE entry[task[t].name] # Nothing
  <2>1. PICK o \in TaskType : o = task[t]
    BY Mine
  <2>2. PICK u \in Chat : u = entry[task[t].name].chat
    BY <1>2, <1>4, EntryFields
  <2>3. PICK r : r = [o EXCEPT !.pc = "read", !.chat = u]
    OBVIOUS
  <2>4. r \in TaskType /\ r.pc = "read" /\ r.chat = u /\ r.id = o.id /\ r.name = o.name
        /\ r.seen = o.seen /\ r.then = o.then
    BY <2>3 DEF TaskType
  <2>5. task' = [task EXCEPT ![t] = r]
    BY <1>4, <2>1, <2>2, <2>3 DEF FindChat
  <2>6. Now(t, "read", u, o.id, o.name, o.seen, o.then)
    BY <2>4, <2>5, Mine, NewTask
  <2>7. TaskFits("read", u, o.id, o.name, o.seen, o.then)
    BY <1>2, <2>1, Mine DEF TaskOK, TaskFits
  <2>8. LeavingFits("read", u, o.name, o.then) /\ SeenFits("read", o.id, o.name, o.seen)
    BY <2>1, <2>2 DEF LeavingFits, SeenFits
  <2> QED
    BY <1>1, <2>1, <2>6, <2>7, <2>8, Mine, QuietStep
<1> QED
  BY <1>3, <1>4

LEMMA ReadOwnerStep ==
    ASSUME ChatInv, NEW t \in Task, ReadOwner(t)
    PROVE  ChatInv'
<1> DEFINE e == entry[task[t].name]
<1>1. task[t].pc = "owner" /\ UNCHANGED <<address, nextId, list, entry, fails, upset>>
  BY DEF ReadOwner
<1>2. CASE e # Nothing /\ e.chat = task[t].chat
  <2>1. GoOn(t, "drop")
    BY <1>2 DEF ReadOwner
  <2>2. TaskFits("drop", task[t].chat, task[t].id, task[t].name, task[t].seen, task[t].then)
    BY <1>1, Mine DEF TaskOK, TaskFits
  <2>3. LeavingFits("drop", task[t].chat, task[t].name, task[t].then)
    BY <1>2 DEF LeavingFits
  <2> QED
    BY <1>1, <2>1, <2>2, <2>3, Mine, GoStep DEF PCs, SeenFits
<1>3. CASE ~(e # Nothing /\ e.chat = task[t].chat)
  <2>1. Proceed(t)
    BY <1>3 DEF ReadOwner
  <2>2. task[t].then # "idle" => Silent(task[t].name)
    BY <1>1, <1>3, Mine DEF LeavingFits, Silent
  <2> QED
    BY <1>1, <1>3, <2>1, <2>2, ProceedStep
<1> QED
  BY <1>2, <1>3

LEMMA CancelTaskStep ==
    ASSUME ChatInv, NEW t \in Task, CancelTask(t)
    PROVE  ChatInv'
<1>1. task[t].pc \in {"owner", "drop"} => task[t].chat \in Chat
  BY Mine DEF TaskOK, TaskFits
<1> QED
  BY <1>1, Mine, StopStep DEF CancelTask

-----------------------------------------------------------------------------
(* A mailbox is created: no id that is known, and no entry, is its. *)
LEMMA RowAdded ==
    ASSUME ChatInv, NEW n \in Name, ~Taken(n), Insert(n), UNCHANGED <<list, entry, fails, upset>>,
           task' \in [Task -> TaskType], \A s \in Task : TaskOK(task'[s]),
           \A s \in Task : \/ task'[s] = task[s]
                           \/ /\ task[s].pc = "create" /\ task'[s].pc = "putList"
                              /\ task'[s].id = nextId /\ task'[s].name = n
    PROVE  ChatInv'
<1> DEFINE new == [id |-> nextId, name |-> n]
<1>1. address' = address \cup {new} /\ nextId' = nextId + 1 /\ nextId <= MaxAddress
  BY DEF Insert
<1>2. nextId \in AddressId /\ new \in Address /\ nextId' \in 1..(MaxAddress + 1)
  BY <1>1, TelegramBindingAssumption
     DEF ChatInv, ChatTyped, ChatTypeOK, AddressId, Address
<1>3. address \subseteq Address /\ \A a \in address : a.id < nextId /\ a.id \in Nat /\ a.name # n
  BY DEF ChatInv, ChatTyped, ChatTypeOK, AddressId, Address, IdsOK, Taken
<1>4. ChatTyped'
  BY <1>1, <1>2, <1>3 DEF ChatInv, ChatTyped, ChatTypeOK
<1>5. IdsOK'
  <2>1. \A a, b \in address' : a.id = b.id \/ a.name = b.name => a = b
    BY <1>1, <1>2, <1>3 DEF ChatInv, IdsOK
  <2>2. \A a \in address' : a.id < nextId'
    BY <1>1, <1>2, <1>3 DEF AddressId
  <2>3. \A m \in Name : entry[m] # Nothing => entry[m].id < nextId'
    BY <1>1, <1>2, EntryFields DEF ChatInv, IdsOK, AddressId
  <2>4. ASSUME NEW s \in Task
        PROVE  task'[s].id < nextId' /\ \A a \in address' : a.id = task'[s].id => a.name = task'[s].name
    <3>1. CASE task'[s] = task[s]
      <4>1. task[s].id < nextId /\ task[s].id \in Nat
            /\ \A a \in address : a.id = task[s].id => a.name = task[s].name
        BY Mine DEF IdFits, TaskOK, TaskType
      <4> QED
        BY <1>1, <1>2, <3>1, <4>1 DEF IdFits, AddressId
    <3>2. CASE task'[s].id = nextId /\ task'[s].name = n
      BY <1>1, <1>2, <1>3, <3>2 DEF IdFits, AddressId
    <3> QED
      BY <3>1, <3>2
  <2> QED
    BY <2>1, <2>2, <2>3, <2>4 DEF IdsOK, IdFits
<1>6. PushOK'
  <2>1. NoStalePush'
    <3>1. Silent(n)
      BY DEF ChatInv, PushOK
    <3> QED
      BY <1>1, <3>1 DEF NoStalePush, ChatInv, PushOK, Silent
  <2>2. \A m \in Name : Taken(m)' \/ Silent(m)'
    BY <1>1 DEF ChatInv, PushOK, Taken, Silent
  <2>3. \A s \in Task : LeavingFits(task'[s].pc, task'[s].chat, task'[s].name, task'[s].then)
    BY DEF ChatInv, PushOK, LeavingFits
  <2> QED
    BY <2>1, <2>2, <2>3 DEF PushOK, LeavingFits, Silent
<1>7. ListsOK'
  <2>1. \A m \in Name : entry[m] # Nothing =>
          ([id |-> entry[m].id, name |-> m] \in address' => [id |-> entry[m].id, name |-> m] \in address)
    <3> SUFFICES ASSUME NEW m \in Name, entry[m] # Nothing,
                        [id |-> entry[m].id, name |-> m] = new
                 PROVE  FALSE
      BY <1>1
    <3>1. entry[m].id = nextId
      OBVIOUS
    <3> QED
      BY <1>2, <3>1 DEF ChatInv, IdsOK, AddressId
  <2>2. PushedIsListed'
    <3>1. \A s \in Task : task[s].pc \in {"owner", "drop"} => task'[s] = task[s]
      OBVIOUS
    <3> QED
      BY <2>1, <3>1 DEF ChatInv, ListsOK, PushedIsListed, Listed
  <2>3. ASSUME NEW s \in Task
        PROVE  task'[s].pc = "putEntry" /\ [id |-> task'[s].id, name |-> task'[s].name] \in address'
                  => \E token \in task'[s].seen : Of(token) = [id |-> task'[s].id, name |-> task'[s].name]
    <3>1. CASE task'[s] = task[s]
      <4>1. task[s].id < nextId /\ SeenFits(task[s].pc, task[s].id, task[s].name, task[s].seen)
        BY Mine DEF IdFits
      <4>2. [id |-> task[s].id, name |-> task[s].name] # new
        BY <1>2, <4>1 DEF AddressId
      <4> QED
        BY <1>1, <3>1, <4>1, <4>2 DEF SeenFits
    <3>2. CASE task'[s].pc = "putList"
      BY <3>2 DEF SeenFits
    <3> QED
      BY <3>1, <3>2
  <2> QED
    BY <2>2, <2>3 DEF ListsOK, SeenFits
<1> QED
  BY <1>4, <1>5, <1>6, <1>7 DEF ChatInv

LEMMA NewAddressStep ==
    ASSUME ChatInv, NEW t \in Task, NewAddress(t)
    PROVE  ChatInv'
<1>1. task[t].pc = "create" /\ UNCHANGED <<list, entry, fails, upset>>
  BY DEF NewAddress
<1>2. CASE Taken(task[t].name)
  BY <1>1, <1>2, Mine, StopStep DEF NewAddress
<1>3. CASE ~Taken(task[t].name)
  <2>1. PICK o \in TaskType : o = task[t]
    BY Mine
  <2>2. PICK i \in AddressId : i = nextId
    BY <1>3 DEF NewAddress, Insert, ChatInv, ChatTyped, ChatTypeOK, AddressId
  <2>3. PICK r : r = [o EXCEPT !.pc = "putList", !.id = i]
    OBVIOUS
  <2>4. i \in 0..MaxAddress
    BY DEF AddressId
  <2>5. r \in TaskType /\ r.pc = "putList" /\ r.chat = o.chat /\ r.id = i /\ r.name = o.name
        /\ r.seen = o.seen /\ r.then = o.then
    BY <2>3, <2>4 DEF TaskType
  <2>6. task' = [task EXCEPT ![t] = r]
    BY <1>3, <2>1, <2>2, <2>3 DEF NewAddress
  <2>7. Now(t, "putList", o.chat, i, o.name, o.seen, o.then)
    BY <2>5, <2>6, Mine, NewTask
  <2>8. TaskFits("putList", o.chat, i, o.name, o.seen, o.then)
    BY <1>1, <2>1, Mine DEF TaskOK, TaskFits
  <2>9. task' \in [Task -> TaskType] /\ \A s \in Task : TaskOK(task'[s])
    BY <2>7, <2>8, TasksKept DEF ChatInv
  <2>10. o.name \in Name /\ Insert(o.name) /\ ~Taken(o.name)
    BY <1>1, <1>3, <2>1, Mine DEF NewAddress, TaskOK, TaskFits
  <2>11. \A s \in Task : \/ task'[s] = task[s]
                         \/ /\ task[s].pc = "create" /\ task'[s].pc = "putList"
                            /\ task'[s].id = nextId /\ task'[s].name = o.name
    BY <1>1, <2>1, <2>2, <2>7 DEF Now
  <2> QED
    BY <1>1, <2>9, <2>10, <2>11, RowAdded
<1> QED
  BY <1>2, <1>3

LEMMA CreateElsewhereStep ==
    ASSUME ChatInv, NEW n \in Name, CreateElsewhere(n)
    PROVE  ChatInv'
  BY RowAdded DEF CreateElsewhere, ChatInv, ChatTyped, ChatTypeOK

(* Mailboxes are deleted: what may still be pushed for a name without one *)
(* is excused.                                                            *)
LEMMA RowsGone ==
    ASSUME ChatInv, address' \subseteq address, UNCHANGED <<nextId, list, fails, upset>>,
           entry' \in [Name -> Entry \cup {Nothing}],
           \A n \in Name : \/ entry'[n] = entry[n]
                           \/ /\ entry[n] # Nothing /\ entry'[n] # Nothing /\ entry'[n].excused
                              /\ entry'[n].chat = entry[n].chat /\ entry'[n].id = entry[n].id,
           \A n \in Name : Taken(n) => Taken(n)' \/ Silent(n)',
           task' \in [Task -> TaskType], \A s \in Task : TaskOK(task'[s]),
           \A s \in Task : \/ task'[s] = task[s]
                           \/ /\ task[s].pc \notin {"owner", "drop"} /\ task'[s].pc = "idle"
                              /\ task'[s].id = 0
    PROVE  ChatInv'
<1>1. address' \subseteq Address /\ \A a \in address : a.id \in Nat \ {0}
  BY DEF ChatInv, ChatTyped, ChatTypeOK, Address, AddressId
<1>2. ChatTyped'
  BY <1>1 DEF ChatInv, ChatTyped, ChatTypeOK
<1>3. IdsOK'
  <2>1. \A s \in Task : task'[s].id < nextId /\ \A a \in address' : a.id = task'[s].id => a.name = task'[s].name
    BY <1>1, Mine DEF ChatInv, ChatTyped, ChatTypeOK, IdFits
  <2> QED
    BY <2>1 DEF ChatInv, IdsOK, IdFits
<1>4. PushOK'
  <2>1. \A n \in Name : Silent(n) => Silent(n)'
    BY DEF Silent
  <2>2. NoStalePush'
    BY DEF ChatInv, PushOK, NoStalePush, ChatTyped, ChatTypeOK, Address
  <2>3. \A n \in Name : Taken(n)' \/ Silent(n)'
    BY <2>1 DEF ChatInv, PushOK
  <2>4. ASSUME NEW s \in Task, task'[s] = task[s]
        PROVE  LeavingFits(task[s].pc, task[s].chat, task[s].name, task[s].then)'
    <3>1. CASE task[s].pc \in {"deleteName", "deleteId", "drop", "read", "filter", "owner"}
      <4>1. task[s].name \in Name
        BY <3>1, Mine DEF TaskOK, TaskFits
      <4> QED
        BY <2>1, <2>4, <3>1, <4>1, Mine DEF LeavingFits, Silent
    <3>2. CASE task[s].pc \notin {"deleteName", "deleteId", "drop", "read", "filter", "owner"}
      BY <2>4, <3>2 DEF LeavingFits
    <3> QED
      BY <3>1, <3>2
  <2> QED
    BY <2>2, <2>3, <2>4 DEF PushOK, LeavingFits
<1>5. ListsOK'
  <2>1. PushedIsListed'
    <3>1. \A s \in Task : task[s].pc \in {"owner", "drop"} => task'[s] = task[s]
      OBVIOUS
    <3> QED
      BY <3>1 DEF ChatInv, ListsOK, PushedIsListed, Listed
  <2> QED
    BY <2>1 DEF ChatInv, ListsOK, SeenFits
<1> QED
  BY <1>2, <1>3, <1>4, <1>5 DEF ChatInv

LEMMA DeleteStep ==
    ASSUME ChatInv, NEW t \in Task, Delete(t)
    PROVE  ChatInv'
<1>1. task[t].pc \in {"deleteName", "deleteId"} /\ UNCHANGED <<nextId, list, entry, fails, upset>>
      /\ address' \subseteq address
  BY DEF Delete
<1>2. task[t].name \in Name /\ Silent(task[t].name)
  BY <1>1, Mine DEF TaskOK, TaskFits, LeavingFits
<1>3. Now(t, "idle", Nothing, 0, Nothing, {}, "idle")
  BY Mine, Stops DEF Delete
<1>4. TaskFits("idle", Nothing, 0, Nothing, {}, "idle")
  BY TelegramBindingAssumption, FS_EmptySet DEF TaskFits
<1>5. task' \in [Task -> TaskType] /\ \A s \in Task : TaskOK(task'[s])
  BY <1>3, <1>4, TasksKept DEF ChatInv
<1>6. \A n \in Name : Taken(n) => Taken(n)' \/ Silent(n)'
  <2> SUFFICES ASSUME NEW n \in Name, Taken(n), n # task[t].name PROVE Taken(n)'
    BY <1>1, <1>2 DEF Silent
  <2>1. PICK a \in address : a.name = n
    BY DEF Taken
  <2>2. a.id # task[t].id
    BY <2>1, Mine DEF IdFits
  <2>3. a \in address'
    BY <2>1, <2>2 DEF Delete
  <2> QED
    BY <2>1, <2>3 DEF Taken
<1>7. \A s \in Task : \/ task'[s] = task[s]
                      \/ /\ task[s].pc \notin {"owner", "drop"} /\ task'[s].pc = "idle"
                         /\ task'[s].id = 0
  BY <1>1, <1>3 DEF Now
<1>8. entry' \in [Name -> Entry \cup {Nothing}]
  BY <1>1 DEF ChatInv, ChatTyped, ChatTypeOK
<1> QED
  BY <1>1, <1>5, <1>6, <1>7, <1>8, RowsGone

LEMMA BatchCleanupStep ==
    ASSUME ChatInv, NEW a \in address, BatchCleanup(a)
    PROVE  ChatInv'
<1>1. address' = address \ {a} /\ UNCHANGED <<nextId, list, task, fails, upset>>
  BY DEF BatchCleanup
<1>2. a.name \in Name /\ entry \in [Name -> Entry \cup {Nothing}]
  BY DEF ChatInv, ChatTyped, ChatTypeOK, Address
<1>3. /\ entry' \in [Name -> Entry \cup {Nothing}]
      /\ entry'[a.name] # Nothing => entry'[a.name].excused
      /\ \A n \in Name : \/ entry'[n] = entry[n]
                         \/ /\ entry[n] # Nothing /\ entry'[n] # Nothing /\ entry'[n].excused
                            /\ entry'[n].chat = entry[n].chat /\ entry'[n].id = entry[n].id
  <2>1. CASE entry[a.name] = Nothing
    BY <1>2, <2>1 DEF BatchCleanup
  <2>2. CASE entry[a.name] # Nothing
    <3>1. PICK o \in Entry : o = entry[a.name]
      BY <1>2, <2>2
    <3>2. PICK e : e = [o EXCEPT !.excused = TRUE]
      OBVIOUS
    <3>3. e \in Entry /\ e.excused /\ e.chat = o.chat /\ e.id = o.id
      BY <3>2 DEF Entry
    <3>4. entry' = [entry EXCEPT ![a.name] = e]
      BY <2>2, <3>1, <3>2 DEF BatchCleanup
    <3>5. e # Nothing
      BY <3>3, TelegramBindingAssumption
    <3> QED
      BY <1>2, <2>2, <3>1, <3>3, <3>4, <3>5
  <2> QED
    BY <2>1, <2>2
<1>4. \A n \in Name : Taken(n) => Taken(n)' \/ Silent(n)'
  BY <1>1, <1>3 DEF Taken, Silent
<1>5. task' \in [Task -> TaskType] /\ \A s \in Task : TaskOK(task'[s])
  BY <1>1 DEF ChatInv, ChatTyped, ChatTypeOK
<1> QED
  BY <1>1, <1>3, <1>4, <1>5, RowsGone

-----------------------------------------------------------------------------
(* A list is written: what it loses of the list that is there is either of *)
(* a mailbox that is gone, or of the name that is being unbound, or the    *)
(* chat counts as upset.                                                   *)
LEMMA ListPut ==
    ASSUME ChatInv, NEW t \in Task, NEW pc, NEW chat, NEW id, NEW name, NEW seen, NEW then,
           Now(t, pc, chat, id, name, seen, then), NEW u \in Chat, NEW l \in SUBSET ChatToken,
           IsFiniteSet(l), Cardinality(l) <= MaxBound, list' = [list EXCEPT ![u] = l],
           UNCHANGED <<address, nextId, entry>>,
           upset \subseteq upset', upset' \subseteq Chat, fails' \in 0..MaxFail,
           TaskFits(pc, chat, id, name, seen, then), IdFits(id, name),
           LeavingFits(pc, chat, name, then), SeenFits(pc, id, name, seen),
           task[t].pc \notin {"owner", "drop"},
           u \in upset' \/ \A token \in list[u] \ l :
                              \/ Of(token) \notin address
                              \/ pc = "owner" /\ chat = u /\ name = token.name
    PROVE  ChatInv'
<1>1. ChatTyped'
  BY TasksKept DEF ChatInv, ChatTyped, ChatTypeOK
<1>2. IdsOK'
  <2>1. \A s \in Task : IdFits(task'[s].id, task'[s].name)
    BY DEF Now, ChatInv, IdsOK
  <2> QED
    BY <2>1 DEF ChatInv, IdsOK, IdFits
<1>3. PushOK'
  <2>1. \A s \in Task : LeavingFits(task'[s].pc, task'[s].chat, task'[s].name, task'[s].then)
    BY DEF Now, ChatInv, PushOK
  <2> QED
    BY <2>1 DEF ChatInv, PushOK, LeavingFits, Silent, NoStalePush, Taken
<1>4. ListsOK'
  <2>1. \A s \in Task : SeenFits(task'[s].pc, task'[s].id, task'[s].name, task'[s].seen)
    BY DEF Now, ChatInv, ListsOK
  <2>2. PushedIsListed'
    <3> SUFFICES ASSUME NEW n \in Name, entry[n] # Nothing, entry[n].chat \notin upset',
                        [id |-> entry[n].id, name |-> n] \in address
                 PROVE  \/ \E token \in list'[entry[n].chat] : Of(token) = [id |-> entry[n].id, name |-> n]
                        \/ \E s \in Task : /\ task'[s].pc \in {"owner", "drop"}
                                           /\ task'[s].chat = entry[n].chat /\ task'[s].name = n
      BY DEF PushedIsListed, Listed
    <3>1. CASE \E s \in Task : /\ task[s].pc \in {"owner", "drop"}
                               /\ task[s].chat = entry[n].chat /\ task[s].name = n
      BY <3>1 DEF Now
    <3>2. CASE Listed(entry[n].chat, [id |-> entry[n].id, name |-> n])
      <4>1. PICK token \in list[entry[n].chat] : Of(token) = [id |-> entry[n].id, name |-> n]
        BY <3>2 DEF Listed
      <4>2. entry[n].chat \in Chat /\ list \in [Chat -> SUBSET ChatToken] /\ token.name = n
        BY <4>1, EntryFields, Mine DEF Of
      <4>3. CASE entry[n].chat # u \/ token \in l
        <5>1. token \in list'[entry[n].chat]
          BY <4>1, <4>2, <4>3
        <5> QED
          BY <4>1, <5>1
      <4>4. CASE entry[n].chat = u /\ token \notin l
        BY <4>1, <4>2, <4>4 DEF Now
      <4> QED
        BY <4>3, <4>4
    <3> QED
      BY <3>1, <3>2 DEF ChatInv, ListsOK, PushedIsListed
  <2> QED
    BY <2>1, <2>2 DEF ListsOK, SeenFits
<1> QED
  BY <1>1, <1>2, <1>3, <1>4 DEF ChatInv

LEMMA PutListStep ==
    ASSUME ChatInv, NEW t \in Task, PutList(t)
    PROVE  ChatInv'
<1>1. task[t].pc = "putList" /\ UNCHANGED <<address, nextId, entry, fails>>
  BY DEF PutList
<1>2. PICK token \in ChatToken \ task[t].seen :
        /\ token.id = task[t].id /\ token.name = task[t].name
        /\ Put(t, task[t].seen \cup {token})
        /\ task' = [task EXCEPT ![t] = [@ EXCEPT !.pc = "putEntry", !.seen = task[t].seen \cup {token}]]
  BY DEF PutList
<1>3. PICK o \in TaskType : o = task[t]
  BY Mine
<1>4. PICK l \in SUBSET ChatToken : l = o.seen \cup {token}
  BY DEF TaskType
<1>5. PICK r : r = [o EXCEPT !.pc = "putEntry", !.seen = l]
  OBVIOUS
<1>6. r \in TaskType /\ r.pc = "putEntry" /\ r.chat = o.chat /\ r.id = o.id /\ r.name = o.name
      /\ r.seen = l /\ r.then = o.then
  BY <1>5 DEF TaskType
<1>7. task' = [task EXCEPT ![t] = r]
  BY <1>2, <1>3, <1>4, <1>5
<1>8. Now(t, "putEntry", o.chat, o.id, o.name, l, o.then)
  BY <1>6, <1>7, Mine, NewTask
<1>9. IsFiniteSet(l) /\ Cardinality(l) <= MaxBound
  <2>1. IsFiniteSet(o.seen) /\ Cardinality(o.seen) < MaxBound /\ token \notin o.seen
    BY <1>1, <1>2, <1>3, Mine DEF TaskOK, TaskFits
  <2>2. Cardinality(o.seen) \in Nat
    BY <2>1, FS_CardinalityType
  <2>3. IsFiniteSet(l) /\ Cardinality(l) = Cardinality(o.seen) + 1
    BY <1>4, <2>1, FS_AddElement
  <2> QED
    BY <2>1, <2>2, <2>3, TelegramBindingAssumption
<1>10. TaskFits("putEntry", o.chat, o.id, o.name, l, o.then) /\ o.chat \in Chat
  BY <1>1, <1>3, <1>9, Mine DEF TaskOK, TaskFits
<1>11. LeavingFits("putEntry", o.chat, o.name, o.then) /\ SeenFits("putEntry", o.id, o.name, l)
  BY <1>2, <1>3, <1>4 DEF LeavingFits, SeenFits, Of
<1>12. list' = [list EXCEPT ![o.chat] = l]
       /\ upset' = IF list[o.chat] = o.seen THEN upset ELSE upset \cup {o.chat}
  BY <1>2, <1>3, <1>4 DEF Put
<1>13. o.chat \in upset' \/ list[o.chat] \subseteq l
  BY <1>4, <1>12
<1> QED
  BY <1>1, <1>3, <1>8, <1>9, <1>10, <1>11, <1>12, <1>13, Mine, ListPut

LEMMA FilterListStep ==
    ASSUME ChatInv, NEW t \in Task, FilterList(t)
    PROVE  ChatInv'
<1>1. task[t].pc = "filter" /\ UNCHANGED <<address, nextId, entry, fails>>
  BY DEF FilterList
<1>2. PICK o \in TaskType : o = task[t]
  BY Mine
<1>3. PICK l \in SUBSET ChatToken : l = {token \in o.seen : token.name # o.name}
  BY DEF TaskType
<1>4. Now(t, "owner", o.chat, o.id, o.name, o.seen, o.then)
  BY <1>2, Mine, Goes DEF FilterList, PCs
<1>5. IsFiniteSet(l) /\ Cardinality(l) <= MaxBound
  <2>1. IsFiniteSet(o.seen) /\ Cardinality(o.seen) <= MaxBound /\ l \subseteq o.seen
    BY <1>2, <1>3, Mine DEF TaskOK, TaskFits
  <2>2. IsFiniteSet(l) /\ Cardinality(l) <= Cardinality(o.seen)
    BY <2>1, FS_Subset
  <2>3. Cardinality(l) \in Nat /\ Cardinality(o.seen) \in Nat
    BY <2>1, <2>2, FS_CardinalityType
  <2> QED
    BY <2>1, <2>2, <2>3, TelegramBindingAssumption
<1>6. TaskFits("owner", o.chat, o.id, o.name, o.seen, o.then) /\ o.chat \in Chat
  BY <1>1, <1>2, Mine DEF TaskOK, TaskFits
<1>7. LeavingFits("owner", o.chat, o.name, o.then) /\ SeenFits("owner", o.id, o.name, o.seen)
  BY <1>1, <1>2, Mine DEF LeavingFits, SeenFits
<1>8. list' = [list EXCEPT ![o.chat] = l]
      /\ upset' = IF list[o.chat] = o.seen THEN upset ELSE upset \cup {o.chat}
  BY <1>2, <1>3 DEF FilterList, Put
<1>9. o.chat \in upset' \/ \A token \in list[o.chat] \ l : o.name = token.name
  BY <1>3, <1>8
<1>10. IdFits(o.id, o.name) /\ fails' \in 0..MaxFail /\ upset \subseteq upset' /\ upset' \subseteq Chat
  BY <1>1, <1>2, <1>6, <1>8, Mine
<1> QED
  BY <1>1, <1>2, <1>4, <1>5, <1>6, <1>7, <1>8, <1>9, <1>10, ListPut

LEMMA CleanPutStep ==
    ASSUME ChatInv, NEW t \in Task, CleanPut(t)
    PROVE  ChatInv'
<1>1. task[t].pc = "cleanCheck" /\ UNCHANGED <<address, nextId, entry>>
  BY DEF CleanPut
<1>2. PICK o \in TaskType : o = task[t]
  BY Mine
<1>3. PICK V \in SUBSET o.seen :
        /\ Valid(t, V)
        /\ list' = [list EXCEPT ![o.chat] = V]
        /\ upset' = IF list[o.chat] = o.seen /\ fails' = fails THEN upset
                    ELSE upset \cup {o.chat}
  BY <1>2 DEF CleanPut
<1>4. Now(t, "idle", Nothing, 0, Nothing, {}, "idle")
  BY Mine, Stops DEF CleanPut
<1>5. IsFiniteSet(V) /\ Cardinality(V) <= MaxBound /\ V \in SUBSET ChatToken
  <2>1. IsFiniteSet(o.seen) /\ Cardinality(o.seen) <= MaxBound /\ V \subseteq o.seen
        /\ o.seen \subseteq ChatToken
    BY <1>2, Mine DEF TaskOK, TaskFits, TaskType
  <2>2. IsFiniteSet(V) /\ Cardinality(V) <= Cardinality(o.seen)
    BY <2>1, FS_Subset
  <2>3. Cardinality(V) \in Nat /\ Cardinality(o.seen) \in Nat
    BY <2>1, <2>2, FS_CardinalityType
  <2> QED
    BY <2>1, <2>2, <2>3, TelegramBindingAssumption
<1>6. TaskFits("idle", Nothing, 0, Nothing, {}, "idle") /\ IdFits(0, Nothing)
  BY TelegramBindingAssumption, FS_EmptySet
     DEF TaskFits, IdFits, ChatInv, ChatTyped, ChatTypeOK, Address, AddressId
<1>7. LeavingFits("idle", Nothing, Nothing, "idle") /\ SeenFits("idle", 0, Nothing, {})
  BY DEF LeavingFits, SeenFits
<1>8. o.chat \in Chat /\ fails' \in 0..MaxFail /\ fails \in Nat
  BY <1>1, <1>2, <1>3, Mine, ValidFails DEF TaskOK, TaskFits
<1>9. o.chat \in upset' \/ \A token \in list[o.chat] \ V : Of(token) \notin address
  BY <1>2, <1>3, <1>8 DEF Valid
<1> QED
  BY <1>1, <1>2, <1>3, <1>4, <1>5, <1>6, <1>7, <1>8, <1>9, Mine, ListPut

-----------------------------------------------------------------------------
(* Who is unbinding a mailbox finds it excused if its entry is written. *)
LEMMA EntryPut ==
    ASSUME ChatInv, NEW t \in Task, NEW pc, NEW chat, NEW id, NEW name, NEW seen, NEW then,
           Now(t, pc, chat, id, name, seen, then),
           UNCHANGED <<address, nextId, list>>,
           upset \subseteq upset', upset' \subseteq Chat, fails' \in 0..MaxFail,
           TaskFits(pc, chat, id, name, seen, then), IdFits(id, name),
           NEW n \in Name, NEW e \in Entry \cup {Nothing}, entry' = [entry EXCEPT ![n] = e],
           e # Nothing =>
              /\ e.id < nextId
              /\ [id |-> e.id, name |-> n] \notin address \/ Leaving(n) => e.excused
              /\ \/ [id |-> e.id, name |-> n] \notin address \/ e.chat \in upset'
                 \/ Listed(e.chat, [id |-> e.id, name |-> n]),
           pc = "idle" \/ (pc \in {"deleteName", "deleteId"} /\ e = Nothing /\ name = n),
           task[t].pc \in {"owner", "drop"} => task[t].name = n /\ e = Nothing
    PROVE  ChatInv'
<1> DEFINE Kept(m) == [id |-> e.id, name |-> m]
<1>1. entry \in [Name -> Entry \cup {Nothing}] /\ address \subseteq Address
      /\ \A m \in Name : entry'[m] = IF m = n THEN e ELSE entry[m]
  BY DEF ChatInv, ChatTyped, ChatTypeOK
<1>2. ChatTyped'
  BY TasksKept DEF ChatInv, ChatTyped, ChatTypeOK
<1>3. IdsOK'
  <2>1. \A s \in Task : IdFits(task'[s].id, task'[s].name)
    BY DEF Now, ChatInv, IdsOK
  <2>2. \A m \in Name : entry'[m] # Nothing => entry'[m].id < nextId
    BY <1>1 DEF ChatInv, IdsOK
  <2> QED
    BY <2>1, <2>2 DEF ChatInv, IdsOK, IdFits
<1>4. PushOK'
  <2>1. NoStalePush'
    <3> SUFFICES ASSUME NEW a \in address, entry'[a.name] # Nothing
                 PROVE  entry'[a.name].id = a.id \/ entry'[a.name].excused
      BY DEF NoStalePush
    <3>1. CASE a.name # n
      BY <1>1, <3>1 DEF ChatInv, PushOK, NoStalePush, Address
    <3>2. CASE a.name = n /\ Kept(n) \in address
      BY <1>1, <3>2 DEF ChatInv, IdsOK
    <3>3. CASE a.name = n /\ Kept(n) \notin address
      BY <1>1, <3>3
    <3> QED
      BY <3>1, <3>2, <3>3
  <2>2. \A m \in Name : Taken(m) \/ Silent(m)'
    <3>1. Taken(n) \/ e = Nothing \/ e.excused
      BY DEF Taken
    <3> QED
      BY <1>1, <3>1 DEF ChatInv, PushOK, Silent
  <2>3. ASSUME NEW s \in Task \ {t}
        PROVE  LeavingFits(task[s].pc, task[s].chat, task[s].name, task[s].then)'
    <3>1. task'[s] = task[s]
      BY <2>3 DEF Now
    <3>2. CASE task[s].pc \in {"deleteName", "deleteId", "drop", "read", "filter", "owner"}
      <4>1. task[s].name \in Name
        BY <3>2, Mine DEF TaskOK, TaskFits
      <4>2. task[s].name = n => Silent(n)'
        BY <1>1, <3>2 DEF Leaving, Silent
      <4> QED
        BY <1>1, <3>1, <4>1, <4>2, Mine DEF LeavingFits, Silent
    <3>3. CASE task[s].pc \notin {"deleteName", "deleteId", "drop", "read", "filter", "owner"}
      BY <3>1, <3>3 DEF LeavingFits
    <3> QED
      BY <3>2, <3>3
  <2>4. LeavingFits(task[t].pc, task[t].chat, task[t].name, task[t].then)'
    BY <1>1 DEF Now, LeavingFits, Silent
  <2> QED
    BY <2>1, <2>2, <2>3, <2>4 DEF PushOK, Taken
<1>5. ListsOK'
  <2>1. \A s \in Task : SeenFits(task'[s].pc, task'[s].id, task'[s].name, task'[s].seen)
    BY DEF Now, ChatInv, ListsOK, SeenFits
  <2>2. PushedIsListed'
    <3> SUFFICES ASSUME NEW m \in Name, entry'[m] # Nothing, entry'[m].chat \notin upset',
                        [id |-> entry'[m].id, name |-> m] \in address,
                        ~Listed(entry'[m].chat, [id |-> entry'[m].id, name |-> m])
                 PROVE  \E s \in Task : /\ task'[s].pc \in {"owner", "drop"}
                                        /\ task'[s].chat = entry'[m].chat /\ task'[s].name = m
      BY DEF PushedIsListed, Listed
    <3>1. m # n
      BY <1>1
    <3>2. PICK s \in Task : /\ task[s].pc \in {"owner", "drop"}
                            /\ task[s].chat = entry[m].chat /\ task[s].name = m
      BY <1>1, <3>1 DEF ChatInv, ListsOK, PushedIsListed
    <3> QED
      BY <1>1, <3>1, <3>2 DEF Now
  <2> QED
    BY <2>1, <2>2 DEF ListsOK, SeenFits
<1> QED
  BY <1>2, <1>3, <1>4, <1>5 DEF ChatInv

LEMMA PutEntryStep ==
    ASSUME ChatInv, NEW t \in Task, PutEntry(t)
    PROVE  ChatInv'
<1>1. task[t].pc = "putEntry" /\ UNCHANGED <<address, nextId, list, fails>>
  BY DEF PutEntry
<1>2. PICK o \in TaskType : o = task[t]
  BY Mine
<1>3. o.name \in Name /\ o.chat \in Chat /\ o.id \in AddressId /\ IdFits(o.id, o.name)
      /\ SeenFits("putEntry", o.id, o.name, o.seen)
  BY <1>1, <1>2, Mine DEF TaskOK, TaskFits
<1> DEFINE mailbox == [id |-> o.id, name |-> o.name]
<1>4. PICK x \in BOOLEAN : x = (mailbox \notin address \/ Leaving(o.name))
  OBVIOUS
<1>5. PICK e : e = [chat |-> o.chat, id |-> o.id, excused |-> x]
  OBVIOUS
<1>6. e \in Entry /\ e.chat = o.chat /\ e.id = o.id /\ e.excused = x
  BY <1>3, <1>5 DEF Entry
<1>7. /\ entry' = [entry EXCEPT ![o.name] = e]
      /\ upset' = IF list[o.chat] = o.seen THEN upset ELSE upset \cup {o.chat}
  <2>1. entry' = [entry EXCEPT ![o.name] =
           [chat |-> o.chat, id |-> o.id, excused |-> mailbox \notin address \/ Leaving(o.name)]]
    BY <1>2 DEF PutEntry
  <2> QED
    BY <1>2, <1>4, <1>5, <2>1 DEF PutEntry
<1>8. Now(t, "idle", Nothing, 0, Nothing, {}, "idle")
  BY Mine, Stops DEF PutEntry
<1>9. TaskFits("idle", Nothing, 0, Nothing, {}, "idle") /\ IdFits(0, Nothing)
  BY TelegramBindingAssumption, FS_EmptySet
     DEF TaskFits, IdFits, ChatInv, ChatTyped, ChatTypeOK, Address, AddressId
<1>10. e.id < nextId
  BY <1>3, <1>6 DEF IdFits
<1>11. mailbox \notin address \/ o.chat \in upset' \/ Listed(o.chat, mailbox)
  BY <1>3, <1>7 DEF SeenFits, Listed
<1>12. mailbox \notin address \/ Leaving(o.name) => e.excused
  BY <1>4, <1>6
<1>13. upset \subseteq upset' /\ upset' \subseteq Chat /\ fails' \in 0..MaxFail
  BY <1>1, <1>3, <1>7, Mine
<1> QED
  BY <1>1, <1>3, <1>6, <1>7, <1>8, <1>9, <1>10, <1>11, <1>12, <1>13, EntryPut

LEMMA DropEntryStep ==
    ASSUME ChatInv, NEW t \in Task, DropEntry(t)
    PROVE  ChatInv'
<1>1. task[t].pc = "drop" /\ UNCHANGED <<address, nextId, list, fails, upset>>
      /\ entry' = [entry EXCEPT ![task[t].name] = Nothing]
  BY DEF DropEntry
<1>2. task[t].name \in Name
  BY <1>1, Mine DEF TaskOK, TaskFits
<1>3. CASE task[t].then = "idle"
  <2>1. Now(t, "idle", Nothing, 0, Nothing, {}, "idle")
    BY <1>3, Mine, Stops DEF DropEntry, Proceed
  <2>2. TaskFits("idle", Nothing, 0, Nothing, {}, "idle") /\ IdFits(0, Nothing)
    BY TelegramBindingAssumption, FS_EmptySet
       DEF TaskFits, IdFits, ChatInv, ChatTyped, ChatTypeOK, Address, AddressId
  <2> QED
    BY <1>1, <1>2, <2>1, <2>2, Mine, EntryPut
<1>4. CASE task[t].then # "idle"
  <2>1. PICK pc \in {"deleteName", "deleteId"} : pc = task[t].then
    BY <1>4, Mine DEF TaskOK, TaskType
  <2>2. Now(t, pc, task[t].chat, task[t].id, task[t].name, task[t].seen, task[t].then)
    BY <1>4, <2>1, Mine, Goes DEF DropEntry, Proceed, PCs
  <2>3. TaskFits(pc, task[t].chat, task[t].id, task[t].name, task[t].seen, task[t].then)
    BY <1>2, <2>1, Mine DEF TaskOK, TaskFits
  <2> QED
    BY <1>1, <1>2, <2>1, <2>2, <2>3, Mine, EntryPut
<1> QED
  BY <1>3, <1>4

-----------------------------------------------------------------------------
LEMMA ChatInvInit == ChatInit => ChatInv
<1> SUFFICES ASSUME ChatInit PROVE ChatInv
  OBVIOUS
<1>1. IsFiniteSet({}) /\ Cardinality({}) = 0 /\ MaxBound \in Nat
  BY FS_EmptySet, TelegramBindingAssumption
<1>2. TaskOK(NoTask) /\ NoTask.pc = "idle" /\ NoTask.id = 0
  BY <1>1, NoTaskType DEF NoTask, TaskOK, TaskFits
<1>3. ChatTyped
  BY <1>1, <1>2, TelegramBindingAssumption
     DEF ChatInit, ChatTyped, ChatTypeOK, TaskOK
<1>4. IdsOK /\ PushOK /\ ListsOK
  BY <1>2 DEF ChatInit, IdsOK, IdFits, PushOK, NoStalePush, Silent, LeavingFits, ListsOK,
              PushedIsListed, SeenFits
<1> QED
  BY <1>3, <1>4 DEF ChatInv

LEMMA ChatInvStep == ChatInv /\ [ChatNext]_chatVars => ChatInv'
<1> SUFFICES ASSUME ChatInv, [ChatNext]_chatVars PROVE ChatInv'
  OBVIOUS
<1>1. CASE UNCHANGED chatVars
  <2>1. UNCHANGED <<address, nextId, list, entry, task, fails, upset>>
    BY <1>1 DEF chatVars
  <2>2. ChatTyped' /\ IdsOK'
    BY <2>1 DEF ChatInv, ChatTyped, ChatTypeOK, IdsOK, IdFits
  <2>3. PushOK'
    BY <2>1 DEF ChatInv, PushOK, NoStalePush, Taken, Silent, LeavingFits
  <2>4. ListsOK'
    BY <2>1 DEF ChatInv, ListsOK, PushedIsListed, Listed, SeenFits
  <2> QED
    BY <2>2, <2>3, <2>4 DEF ChatInv
<1>2. ASSUME NEW t \in Task, TaskStep(t) PROVE ChatInv'
  BY <1>2, ReadStep, BindCheckStep, NewReadStep, NewAddressStep, PutListStep, PutEntryStep,
     UnbindCheckStep, FindChatStep, FilterListStep, ReadOwnerStep, DropEntryStep, DeleteStep,
     CleanPutStep
     DEF TaskStep
<1>3. ASSUME NEW t \in Task, Start(t) \/ CancelTask(t) PROVE ChatInv'
  BY <1>3, StartStep, CancelTaskStep
<1>4. ASSUME NEW n \in Name, CreateElsewhere(n) PROVE ChatInv'
  BY <1>4, CreateElsewhereStep
<1>5. ASSUME NEW a \in address, BatchCleanup(a) PROVE ChatInv'
  BY <1>5, BatchCleanupStep
<1> QED
  BY <1>1, <1>2, <1>3, <1>4, <1>5 DEF ChatNext

(* Only who unbinds the mailbox silences it. *)
LEMMA DropsOnly ==
    ASSUME ChatInv, [ChatNext]_chatVars, NEW n \in Name, entry[n] # Nothing, entry'[n] = Nothing
    PROVE  \E t \in Task : DropEntry(t) /\ task[t].name = n
<1>1. entry \in [Name -> Entry \cup {Nothing}] /\ address \subseteq Address /\ entry' # entry
  BY DEF ChatInv, ChatTyped, ChatTypeOK
<1>2. ASSUME NEW t \in Task, PutEntry(t) PROVE FALSE
  <2>1. PICK o \in TaskType : o = task[t]
    BY Mine
  <2>2. o.name \in Name /\ o.chat \in Chat /\ o.id \in AddressId
    BY <1>2, <2>1, Mine DEF PutEntry, TaskOK, TaskFits
  <2>3. PICK x \in BOOLEAN :
          x = ([id |-> o.id, name |-> o.name] \notin address \/ Leaving(o.name))
    OBVIOUS
  <2>4. PICK e : e = [chat |-> o.chat, id |-> o.id, excused |-> x]
    OBVIOUS
  <2>5. e \in Entry
    BY <2>2, <2>4 DEF Entry
  <2>6. entry' = [entry EXCEPT ![o.name] = e]
    <3>1. entry' = [entry EXCEPT ![o.name] =
             [chat |-> o.chat, id |-> o.id,
              excused |-> [id |-> o.id, name |-> o.name] \notin address \/ Leaving(o.name)]]
      BY <1>2, <2>1 DEF PutEntry
    <3> QED
      BY <2>3, <2>4, <3>1
  <2> QED
    BY <1>1, <2>5, <2>6, TelegramBindingAssumption
<1>3. ASSUME NEW a \in address, BatchCleanup(a) PROVE FALSE
  <2>1. a.name \in Name /\ entry[a.name] # Nothing
    BY <1>1, <1>3 DEF BatchCleanup, Address
  <2>2. PICK o \in Entry : o = entry[a.name]
    BY <1>1, <2>1
  <2>3. PICK e : e = [o EXCEPT !.excused = TRUE]
    OBVIOUS
  <2>4. e \in Entry
    BY <2>3 DEF Entry
  <2>5. entry' = [entry EXCEPT ![a.name] = e]
    BY <1>3, <2>1, <2>2, <2>3 DEF BatchCleanup
  <2> QED
    BY <1>1, <2>4, <2>5, TelegramBindingAssumption
<1>4. ASSUME NEW t \in Task, TaskStep(t) PROVE DropEntry(t)
  BY <1>1, <1>2, <1>4
     DEF TaskStep, BindRead, BindCheck, NewRead, NewAddress, PutList, UnbindRead, UnbindCheck,
         FindChat, ReadTokens, FilterList, ReadOwner, Delete, CleanRead, CleanPut, Read
<1>5. ASSUME NEW t \in Task, Start(t) \/ CancelTask(t) PROVE FALSE
  BY <1>1, <1>5 DEF Start, StartDelete, StartClean, StartBind, StartNew, StartUnbind, CancelTask
<1>6. ASSUME NEW m \in Name, CreateElsewhere(m) PROVE FALSE
  BY <1>1, <1>6 DEF CreateElsewhere
<1>7. PICK t \in Task : DropEntry(t)
  BY <1>1, <1>3, <1>4, <1>5, <1>6 DEF ChatNext, chatVars
<1>8. n = task[t].name
  BY <1>1, <1>7 DEF DropEntry
<1> QED
  BY <1>7, <1>8

-----------------------------------------------------------------------------
(* Types, and the quota: concurrent binds of a chat never make its list    *)
(* longer than the maximum (common.ts:101-116).                            *)
THEOREM ChatTypes == ChatSpec => []ChatTypeOK
<1>1. ChatInv => ChatTypeOK
  BY DEF ChatInv, ChatTyped
<1> QED
  BY <1>1, ChatInvInit, ChatInvStep, PTL DEF ChatSpec

(* The mails of a name that is taken again are not pushed to a chat that   *)
(* was bound to an earlier mailbox of the name (common.ts:157-166), with   *)
(* the exceptions of NoStalePush.                                          *)
THEOREM NothingStale == ChatSpec => []NoStalePush
<1>1. ChatInv => NoStalePush
  BY DEF ChatInv, PushOK
<1> QED
  BY <1>1, ChatInvInit, ChatInvStep, PTL DEF ChatSpec

(* Who gets the pushes of a mailbox can unbind it (common.ts:86-155), with *)
(* the exceptions of PushedIsListed.                                       *)
THEOREM PushedListed == ChatSpec => []PushedIsListed
<1>1. ChatInv => PushedIsListed
  BY DEF ChatInv, ListsOK
<1> QED
  BY <1>1, ChatInvInit, ChatInvStep, PTL DEF ChatSpec

(* Unbinding one chat silences no other that has bound the mailbox since,  *)
(* unless while the unbinding was under way (common.ts:129-139).           *)
THEOREM OwnersKept == ChatSpec => OwnerKept
<1>1. ASSUME ChatInv, [ChatNext]_chatVars, NEW n \in Name, entry[n] # Nothing, entry'[n] = Nothing
      PROVE  \/ entry[n].excused
             \/ \E t \in Task : /\ task[t].pc = "drop" /\ task'[t].pc # "drop"
                                /\ task[t].chat = entry[n].chat /\ task[t].name = n
  <2>1. PICK t \in Task : DropEntry(t) /\ task[t].name = n
    BY <1>1, DropsOnly
  <2>2. task[t].pc = "drop" /\ Proceed(t)
    BY <2>1 DEF DropEntry
  <2>3. Silent(n) \/ entry[n].chat = task[t].chat
    BY <1>1, <2>1, <2>2, Mine DEF LeavingFits
  <2>4. task'[t].pc # "drop"
    <3>1. CASE task[t].then = "idle"
      BY <1>1, <2>2, <3>1, Mine, Stops DEF Proceed, Now
    <3>2. CASE task[t].then # "idle"
      <4>1. PICK pc \in {"deleteName", "deleteId"} : pc = task[t].then
        BY <1>1, <3>2, Mine DEF TaskOK, TaskType
      <4> QED
        BY <1>1, <2>2, <3>2, <4>1, Mine, Goes DEF Proceed, Now, PCs
    <3> QED
      BY <3>1, <3>2
  <2> QED
    BY <1>1, <2>1, <2>2, <2>3, <2>4 DEF Silent
<1>2. ChatInv /\ [ChatNext]_chatVars =>
        [\A n \in Name :
            entry[n] # Nothing /\ entry'[n] = Nothing =>
                entry[n].excused
                \/ \E t \in Task : /\ task[t].pc = "drop" /\ task'[t].pc # "drop"
                                   /\ task[t].chat = entry[n].chat /\ task[t].name = n]_chatVars
  BY <1>1
<1> QED
  BY <1>2, ChatInvInit, ChatInvStep, PTL DEF ChatSpec, OwnerKept
=============================================================================
