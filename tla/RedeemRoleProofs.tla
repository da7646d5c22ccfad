--------------------------- MODULE RedeemRoleProofs ---------------------------
(***************************************************************************)
(* RedeemRole for every set of requests, codes, users and addresses: the   *)
(* inductive invariant, the safety properties and the refinement.          *)
(***************************************************************************)
EXTENDS RedeemRole, RedeemCodeTableProofs

(* What a request's local state r holds at its position. *)
WellFormed(r) ==
    /\ r.pc \in {"find", "role", "redeem", "ok"} => r.code \in CodeId
    /\ r.pc \in {"find", "role", "redeem"} => r.value \in Value /\ r.email \in Email
    /\ r.pc \in {"role", "redeem"} => r.user \in UserId

(* A request that reports success is the one the code recorded. *)
Recorded(q) ==
    req[q].pc = "ok" => codes[req[q].code].redeemed /\ codes[req[q].code].result.by = q

(* No reservation outlives its transaction, and a result names the role    *)
(* that was on offer.                                                      *)
ResultOK ==
    \A c \in CodeId :
        /\ codes[c].result # None <=> codes[c].redeemed
        /\ codes[c].redeemed => codes[c].result.role = codes[c].value

IInv ==
    /\ TypeOK /\ TableOK /\ ResultOK
    /\ \A q \in Req : WellFormed(req[q]) /\ Recorded(q)
    /\ RedeemedRoleStands

-----------------------------------------------------------------------------
LEMMA IdleType == Idle \in ReqType /\ Idle.pc = "idle"
  BY RedeemRoleAssumption DEF Idle, ReqType

LEMMA InvInit == Init => IInv
<1> SUFFICES ASSUME Init PROVE IInv
  OBVIOUS
<1>1. codes \in [CodeId -> RowType(Result)] /\ TableOK
      /\ \A c \in CodeId : ~codes[c].redeemed
  BY TableInitOK DEF Init
<1>2. \A c \in CodeId : codes[c].result = None
  BY DEF Init, TableInit, Unissued
<1>3. TypeOK
  BY <1>1, IdleType DEF Init, TypeOK
<1>4. \A q \in Req : WellFormed(req[q]) /\ Recorded(q)
  BY IdleType DEF Init, WellFormed, Recorded
<1> QED
  BY <1>1, <1>2, <1>3, <1>4 DEF IInv, ResultOK, RedeemedRoleStands

(* The four statements, run on a row, a role and a result to be written. *)
Run(row, role, r, v) ==
    Mark(WriteRole(Reserve([row |-> row, role |-> role, changes |-> 0], r, v), v), r)

(* The transaction as a whole: it succeeds exactly if the code may still   *)
(* be claimed and the role may still be replaced; then it does both, and   *)
(* else nothing.                                                           *)
LEMMA Statements ==
    ASSUME NEW row \in RowType(Result), NEW role \in Value \cup {None},
           NEW r \in Result, NEW v \in Value,
           row.result # None <=> row.redeemed
    PROVE  /\ Claimable(row, v) /\ Replaceable(role, v) =>
                /\ Run(row, role, r, v).changes = 1
                /\ Release(Run(row, role, r, v), r).row = Redeemed(row, r)
                /\ Release(Run(row, role, r, v), r).role = v
           /\ ~(Claimable(row, v) /\ Replaceable(role, v)) =>
                /\ Run(row, role, r, v).changes # 1
                /\ Release(Run(row, role, r, v), r).row = row
                /\ Release(Run(row, role, r, v), r).role = role
<1> DEFINE State == [row: RowType(Result), role: Value \cup {None}, changes: {0, 1}]
<1>0. r # None
  BY RedeemRoleAssumption
<1>1. PICK s0 : s0 = [row |-> row, role |-> role, changes |-> 0]
  OBVIOUS
<1>2. s0 \in State /\ s0.row = row /\ s0.role = role /\ s0.changes = 0
  BY <1>1
<1>3. PICK reserved : reserved = [row EXCEPT !.result = r]
  OBVIOUS
<1>4. /\ reserved \in RowType(Result) /\ reserved.result = r
      /\ reserved.redeemed = row.redeemed
      /\ row.result = None => [reserved EXCEPT !.result = None] = row
      /\ Redeemed(reserved, r) = Redeemed(row, r)
      /\ Redeemed(row, r).redeemed
      /\ Redeemed(row, r) \in RowType(Result)
  BY <1>3 DEF RowType, Redeemed
<1>5. PICK s1 : s1 = Reserve(s0, r, v)
  OBVIOUS
<1>6. PICK s2 : s2 = WriteRole(s1, v)
  OBVIOUS
<1>7. PICK s3 : s3 = Mark(s2, r)
  OBVIOUS
<1>8. Run(row, role, r, v) = s3
  BY <1>1, <1>5, <1>6, <1>7 DEF Run
<1>9. CASE ~Claimable(row, v)
  <2>1. s1 \in State /\ s1.row = row /\ s1.role = role /\ s1.changes = 0
    BY <1>2, <1>5, <1>9 DEF Reserve
  <2>2. s2 \in State /\ s2.row = row /\ s2.role = role /\ s2.changes = 0
    BY <1>6, <2>1 DEF WriteRole
  <2>3. s3 \in State /\ s3.row = row /\ s3.role = role /\ s3.changes = 0
    BY <1>7, <2>2 DEF Mark
  <2>4. Release(s3, r) = s3
    BY <1>0, <2>3 DEF Release
  <2> QED
    BY <1>8, <1>9, <2>3, <2>4
<1>10. CASE Claimable(row, v)
  <2>1. ~row.redeemed /\ row.result = None
    BY <1>10 DEF Claimable
  <2>2. s1 = [s0 EXCEPT !.row.result = r, !.changes = 1]
    BY <1>2, <1>5, <1>10 DEF Reserve
  <2>3. s1 \in State /\ s1.row = reserved /\ s1.role = role /\ s1.changes = 1
    BY <1>2, <1>3, <1>4, <2>2
  <2>4. CASE Replaceable(role, v)
    <3>1. s2 \in State /\ s2.row = reserved /\ s2.role = v /\ s2.changes = 1
      BY <1>6, <2>3, <2>4 DEF WriteRole
    <3>2. s3 = [s2 EXCEPT !.row = Redeemed(@, r)]
      BY <1>4, <1>7, <2>1, <3>1 DEF Mark
    <3>3. s3 \in State /\ s3.row = Redeemed(row, r) /\ s3.role = v /\ s3.changes = 1
      BY <1>4, <3>1, <3>2
    <3>4. Release(s3, r) = s3
      BY <1>4, <3>3 DEF Release
    <3> QED
      BY <1>8, <1>10, <2>4, <3>3, <3>4
  <2>5. CASE ~Replaceable(role, v)
    <3>1. s2 \in State /\ s2.row = reserved /\ s2.role = role /\ s2.changes = 0
      BY <1>6, <2>3, <2>5 DEF WriteRole
    <3>2. s3 \in State /\ s3.row = reserved /\ s3.role = role /\ s3.changes = 0
      BY <1>7, <3>1 DEF Mark
    <3>3. Release(s3, r) = [s3 EXCEPT !.row.result = None]
      BY <1>4, <2>1, <3>2 DEF Release
    <3>4. Release(s3, r).row = [reserved EXCEPT !.result = None] /\ Release(s3, r).role = role
      BY <3>2, <3>3
    <3> QED
      BY <1>4, <1>8, <2>1, <2>5, <3>2, <3>4
  <2> QED
    BY <2>4, <2>5
<1> QED
  BY <1>9, <1>10

(* The result the transaction of q writes. *)
ResultOf(q) == [by |-> q, user |-> req[q].user, email |-> req[q].email, role |-> req[q].value]

MayRedeem(q) ==
    /\ Claimable(codes[req[q].code], req[q].value)
    /\ Replaceable(roles[req[q].user], req[q].value)

LEMMA Transaction ==
    ASSUME IInv, NEW q \in Req, req[q].pc = "redeem"
    PROVE  /\ MayRedeem(q) =>
                /\ Marked(q).changes = 1
                /\ Committed(q).row = Redeemed(codes[req[q].code], ResultOf(q))
                /\ Committed(q).role = req[q].value
           /\ ~MayRedeem(q) =>
                /\ Marked(q).changes # 1
                /\ Committed(q).row = codes[req[q].code]
                /\ Committed(q).role = roles[req[q].user]
<1>1. PICK row, role, r, v :
        row = codes[req[q].code] /\ role = roles[req[q].user] /\ r = ResultOf(q) /\ v = req[q].value
  OBVIOUS
<1>2. req[q].code \in CodeId /\ req[q].user \in UserId /\ v \in Value /\ req[q].email \in Email
  BY <1>1 DEF IInv, WellFormed
<1>3. r \in Result
  BY <1>1, <1>2 DEF ResultOf, Result
<1>4. row \in RowType(Result) /\ role \in Value \cup {None}
  BY <1>1, <1>2 DEF IInv, TypeOK
<1>5. row.result # None <=> row.redeemed
  BY <1>1, <1>2 DEF IInv, ResultOK
<1>6. Marked(q) = Run(row, role, r, v) /\ Committed(q) = Release(Run(row, role, r, v), r)
  BY <1>1 DEF Marked, Committed, ResultOf, Run
<1>7. MayRedeem(q) <=> Claimable(row, v) /\ Replaceable(role, v)
  BY <1>1 DEF MayRedeem
<1> QED
  BY <1>1, <1>2, <1>3, <1>4, <1>5, <1>6, <1>7, Statements

(* What the tables are after a transaction that succeeds. *)
LEMMA CommitSucceeds ==
    ASSUME IInv, NEW q \in Req, req[q].pc = "redeem", Commit(q), MayRedeem(q)
    PROVE  /\ codes' = [codes EXCEPT ![req[q].code] = Redeemed(@, ResultOf(q))]
           /\ roles' = [roles EXCEPT ![req[q].user] = req[q].value]
  BY Transaction DEF Commit

LEMMA CommitFails ==
    ASSUME IInv, NEW q \in Req, req[q].pc = "redeem", Commit(q), ~MayRedeem(q)
    PROVE  UNCHANGED <<codes, roles>>
<1>1. /\ codes' = [codes EXCEPT ![req[q].code] = codes[req[q].code]]
      /\ roles' = [roles EXCEPT ![req[q].user] = roles[req[q].user]]
  BY Transaction DEF Commit
<1>2. codes \in [CodeId -> RowType(Result)] /\ roles \in [UserId -> Value \cup {None}]
  BY DEF IInv, TypeOK
<1> QED
  BY <1>1, <1>2

-----------------------------------------------------------------------------
(* Requests move, the tables stay. *)
LEMMA QuietMove ==
    ASSUME IInv, UNCHANGED <<codes, users, roles, touched>>,
           NEW q \in Req, NEW r \in ReqType,
           req' = [req EXCEPT ![q] = r],
           WellFormed(r), r.pc # "ok"
    PROVE  IInv'
<1>1. \A p \in Req : req'[p] = IF p = q THEN r ELSE req[p]
  BY DEF IInv, TypeOK
<1>2. TypeOK'
  BY DEF IInv, TypeOK
<1>3. \A p \in Req : WellFormed(req[p])' /\ Recorded(p)'
  BY <1>1 DEF IInv, WellFormed, Recorded
<1>4. TableOK' /\ ResultOK' /\ RedeemedRoleStands'
  BY DEF IInv, TableOK, ResultOK, RedeemedRoleStands
<1> QED
  BY <1>2, <1>3, <1>4 DEF IInv

(* A request that ends without success. *)
LEMMA StopKeeps ==
    ASSUME IInv, NEW q \in Req, NEW pc \in {"refused", "gone"},
           Stop(q, pc), UNCHANGED <<codes, users, roles, touched>>
    PROVE  IInv'
<1>1. PICK r : r = [Idle EXCEPT !.pc = pc, !.code = req[q].code]
  OBVIOUS
<1>2. req[q] \in ReqType
  BY DEF IInv, TypeOK
<1>3. r \in ReqType /\ r.pc = pc
  BY <1>1, <1>2, IdleType DEF ReqType
<1>4. WellFormed(r)
  BY <1>3 DEF WellFormed
<1>5. req' = [req EXCEPT ![q] = r]
  BY <1>1 DEF Stop
<1> QED
  BY <1>3, <1>4, <1>5, QuietMove

LEMMA LookupKeeps ==
    ASSUME IInv, NEW q \in Req, NEW c \in CodeId, NEW e \in Email, Lookup(q, c, e)
    PROVE  IInv'
<1>1. req[q] \in ReqType /\ codes[c] \in RowType(Result) /\ req[q].pc = "idle"
      /\ UNCHANGED <<codes, users, roles, touched>>
  BY DEF IInv, TypeOK, Lookup
<1>2. CASE req' = [req EXCEPT ![q] = [@ EXCEPT !.pc = "find", !.code = c, !.email = e,
                                               !.value = codes[c].value]]
  <2>1. PICK r : r = [req[q] EXCEPT !.pc = "find", !.code = c, !.email = e, !.value = codes[c].value]
    OBVIOUS
  <2>2. r \in ReqType /\ WellFormed(r) /\ r.pc = "find"
    BY <1>1, <2>1 DEF ReqType, RowType, WellFormed
  <2> QED
    BY <1>1, <1>2, <2>1, <2>2, QuietMove
<1> QED
  BY <1>1, <1>2, StopKeeps DEF Lookup

LEMMA FindKeeps ==
    ASSUME IInv, NEW q \in Req, FindUser(q)
    PROVE  IInv'
<1>1. /\ req[q] \in ReqType /\ req[q].pc = "find" /\ WellFormed(req[q])
      /\ UNCHANGED <<codes, users, roles, touched>>
  BY DEF IInv, TypeOK, FindUser
<1>2. ASSUME NEW i \in UserId, users[i] # None,
             req' = [req EXCEPT ![q] = [@ EXCEPT !.pc = "role", !.user = i, !.email = users[i]]]
      PROVE  IInv'
  <2>1. PICK r : r = [req[q] EXCEPT !.pc = "role", !.user = i, !.email = users[i]]
    OBVIOUS
  <2>2. users[i] \in Email /\ i \in 0..MaxUserId
    BY <1>2, RedeemRoleAssumption DEF IInv, TypeOK, UserId
  <2>3. r \in ReqType /\ r.pc = "role" /\ r.code = req[q].code /\ r.value = req[q].value
        /\ r.user = i /\ r.email = users[i]
    BY <1>1, <2>1, <2>2 DEF ReqType
  <2>4. WellFormed(r)
    BY <1>1, <2>2, <2>3 DEF WellFormed
  <2> QED
    BY <1>1, <1>2, <2>1, <2>3, <2>4, QuietMove
<1> QED
  BY <1>1, <1>2, StopKeeps DEF FindUser

LEMMA ReadKeeps ==
    ASSUME IInv, NEW q \in Req, ReadRole(q)
    PROVE  IInv'
<1>1. /\ req[q] \in ReqType /\ req[q].pc = "role" /\ WellFormed(req[q])
      /\ UNCHANGED <<codes, users, roles, touched>>
  BY DEF IInv, TypeOK, ReadRole
<1>2. CASE Goto(q, "redeem")
  <2>1. PICK r : r = [req[q] EXCEPT !.pc = "redeem"]
    OBVIOUS
  <2>2. r \in ReqType /\ WellFormed(r) /\ r.pc = "redeem"
    BY <1>1, <2>1 DEF ReqType, WellFormed
  <2> QED
    BY <1>1, <1>2, <2>1, <2>2, QuietMove DEF Goto
<1> QED
  BY <1>1, <1>2, StopKeeps DEF ReadRole

(* The transaction succeeds; the request is told, or cut short. *)
LEMMA SuccessKeeps ==
    ASSUME IInv, NEW q \in Req, req[q].pc = "redeem", Commit(q), MayRedeem(q),
           NEW pc \in {"ok", "gone"}, Stop(q, pc), UNCHANGED <<users, touched>>
    PROVE  IInv'
<1>1. PICK c, u, v, r :
        c = req[q].code /\ u = req[q].user /\ v = req[q].value /\ r = ResultOf(q)
  OBVIOUS
<1>2. c \in CodeId /\ u \in UserId /\ v \in Value /\ req[q].email \in Email /\ req[q] \in ReqType
  BY <1>1 DEF IInv, WellFormed, TypeOK
<1>3. r \in Result /\ r.by = q /\ r.user = u /\ r.role = v /\ r # None
  BY <1>1, <1>2, RedeemRoleAssumption DEF ResultOf, Result
<1>4. codes' = [codes EXCEPT ![c] = Redeemed(@, r)] /\ roles' = [roles EXCEPT ![u] = v]
  BY <1>1, CommitSucceeds
<1>5. Claimable(codes[c], v) /\ Replaceable(roles[u], v)
  BY <1>1 DEF MayRedeem
<1>6. codes \in [CodeId -> RowType(Result)] /\ TableOK /\ None \notin Result
  BY RedeemRoleAssumption DEF IInv, TypeOK
<1>7. /\ codes' \in [CodeId -> RowType(Result)] /\ TableOK' /\ KeepsRedeemed
      /\ codes'[c].redeemed /\ codes'[c].result = r /\ codes'[c].value = v
      /\ ~codes[c].redeemed
      /\ \A d \in CodeId \ {c} : codes'[d] = codes[d]
  BY <1>2, <1>3, <1>4, <1>5, <1>6, RedeemStep
<1>8. PICK s : s = [Idle EXCEPT !.pc = pc, !.code = c]
  OBVIOUS
<1>9. s \in ReqType /\ s.pc = pc /\ s.code = c
  BY <1>2, <1>8, IdleType DEF ReqType
<1>10. \A p \in Req : req'[p] = IF p = q THEN s ELSE req[p]
  BY <1>1, <1>8 DEF Stop, IInv, TypeOK
<1>11. TypeOK'
  BY <1>1, <1>2, <1>4, <1>7, <1>8, <1>9 DEF Stop, IInv, TypeOK
<1>12. ResultOK'
  BY <1>3, <1>7 DEF IInv, ResultOK
<1>13. ASSUME NEW p \in Req PROVE WellFormed(req[p])' /\ Recorded(p)'
  <2>1. CASE p = q
    BY <1>2, <1>3, <1>7, <1>9, <1>10, <2>1 DEF WellFormed, Recorded
  <2>2. CASE p # q
    BY <1>7, <1>10, <2>2 DEF IInv, WellFormed, Recorded, KeepsRedeemed
  <2> QED
    BY <2>1, <2>2
<1>14. RedeemedRoleStands'
  <2> SUFFICES ASSUME NEW d \in CodeId, codes'[d].redeemed, codes'[d].value # DefaultRole,
                      codes'[d].result.user \notin touched
               PROVE  roles'[codes'[d].result.user] = codes'[d].value
    BY DEF RedeemedRoleStands
  <2>1. roles \in [UserId -> Value \cup {None}]
    BY DEF IInv, TypeOK
  <2>2. CASE d = c
    BY <1>2, <1>3, <1>4, <1>7, <2>1, <2>2
  <2>3. CASE d # c
    <3>1. codes'[d] = codes[d]
      BY <1>7, <2>3
    <3>2. roles[codes[d].result.user] = codes[d].value /\ codes[d].value \in Value
      BY <1>6, <3>1 DEF IInv, RedeemedRoleStands, RowType
    <3>3. codes[d].result.user = u => codes[d].value = v
      BY <1>5, <3>1, <3>2, ValueAssumption DEF Replaceable
    <3>4. codes[d].result \in Result
      BY <1>6, <3>1 DEF TableOK, RowType
    <3>5. codes[d].result.user \in UserId
      BY <3>4 DEF Result
    <3> QED
      BY <1>2, <1>4, <2>1, <3>1, <3>2, <3>3, <3>5
  <2> QED
    BY <2>2, <2>3
<1> QED
  BY <1>7, <1>11, <1>12, <1>13, <1>14 DEF IInv

LEMMA CommitKeeps ==
    ASSUME IInv, NEW q \in Req,
           Redeem(q) \/ (Cancel(q) /\ ~UNCHANGED <<codes, roles>>)
    PROVE  IInv'
<1>1. req[q].pc = "redeem" /\ Commit(q) /\ UNCHANGED <<users, touched>>
  BY DEF Redeem, Cancel
<1>2. CASE MayRedeem(q)
  BY <1>1, <1>2, Transaction, SuccessKeeps DEF Redeem, Cancel
<1>3. CASE ~MayRedeem(q)
  <2>1. UNCHANGED <<codes, roles>>
    BY <1>1, <1>3, CommitFails
  <2>2. Stop(q, "refused") \/ Stop(q, "gone")
    BY <1>1, <1>3, Transaction DEF Redeem, Cancel
  <2> QED
    BY <1>1, <2>1, <2>2, StopKeeps
<1> QED
  BY <1>2, <1>3

-----------------------------------------------------------------------------
(* Handlers outside the flow leave the requests and the codes alone. *)
LEMMA OutsideKeeps ==
    ASSUME IInv, TypeOK', UNCHANGED <<codes, req>>, RedeemedRoleStands'
    PROVE  IInv'
  BY DEF IInv, TableOK, ResultOK, WellFormed, Recorded

LEMMA UsersKeep ==
    ASSUME IInv,
           \/ \E i \in UserId, e \in Email : CreateUser(i, e)
           \/ \E i \in UserId : GiveDefaultRole(i) \/ DeleteUser(i)
           \/ \E i \in UserId, r \in Value \cup {None} : UpdateUserRoles(i, r)
    PROVE  IInv'
<1>1. ASSUME NEW i \in UserId, NEW e \in Email, CreateUser(i, e) PROVE IInv'
  BY <1>1, OutsideKeeps DEF CreateUser, IInv, TypeOK, RedeemedRoleStands
<1>2. ASSUME NEW i \in UserId, GiveDefaultRole(i) PROVE IInv'
  <2>1. TypeOK'
    BY <1>2, RedeemRoleAssumption DEF GiveDefaultRole, IInv, TypeOK
  <2>2. \A u : roles[u] # None => roles'[u] = roles[u]
    BY <1>2 DEF GiveDefaultRole, IInv, TypeOK
  <2>3. RedeemedRoleStands'
    <3>1. \A c \in CodeId : codes[c].value # None
      BY ValueAssumption DEF IInv, TypeOK, RowType
    <3> QED
      BY <1>2, <2>2, <3>1 DEF GiveDefaultRole, IInv, RedeemedRoleStands
  <2> QED
    BY <1>2, <2>1, <2>3, OutsideKeeps DEF GiveDefaultRole
<1>3. ASSUME NEW i \in UserId, DeleteUser(i) PROVE IInv'
  BY <1>3, OutsideKeeps DEF DeleteUser, IInv, TypeOK, RedeemedRoleStands
<1>4. ASSUME NEW i \in UserId, NEW r \in Value \cup {None}, UpdateUserRoles(i, r) PROVE IInv'
  <2>1. TypeOK'
    BY <1>4 DEF UpdateUserRoles, IInv, TypeOK
  <2>2. \A u : u # i => roles'[u] = roles[u]
    BY <1>4 DEF UpdateUserRoles, IInv, TypeOK
  <2>3. RedeemedRoleStands'
    BY <1>4, <2>2 DEF UpdateUserRoles, IInv, RedeemedRoleStands
  <2> QED
    BY <1>4, <2>1, <2>3, OutsideKeeps DEF UpdateUserRoles
<1> QED
  BY <1>1, <1>2, <1>3, <1>4

LEMMA AdminKeeps == ASSUME IInv, Admin PROVE IInv'
<1>1. /\ codes' \in [CodeId -> RowType(Result)] /\ TableOK' /\ KeepsRedeemed /\ RedeemsNothing
      /\ UNCHANGED <<users, roles, req, touched>>
  BY TableStep DEF Admin, IInv, TypeOK
<1>2. TypeOK'
  BY <1>1 DEF IInv, TypeOK
<1>3. \A c \in CodeId : codes[c].result = None => codes'[c].result = None
  <2>1. Unissued \in RowType(Result) /\ Unissued.result = None
    BY UnissuedType DEF Unissued
  <2>2. codes \in [CodeId -> RowType(Result)]
    BY DEF IInv, TypeOK
  <2>3. ASSUME NEW S \in SUBSET CodeId, NEW v \in Value, NEW on \in BOOLEAN, CreateCodes(S, v, on)
        PROVE  \A c \in CodeId : codes[c].result = None => codes'[c].result = None
    <3>1. [Unissued EXCEPT !.state = "issued", !.value = v, !.enabled = on].result = None
      BY <2>1 DEF RowType
    <3> QED
      BY <2>3, <3>1 DEF CreateCodes
  <2>4. ASSUME NEW d \in CodeId, NEW v \in Value, NEW on \in BOOLEAN, UpdateCode(d, v, on)
        PROVE  \A c \in CodeId : codes[c].result = None => codes'[c].result = None
    BY <2>2, <2>4 DEF UpdateCode, RowType
  <2>5. ASSUME NEW d \in CodeId, DeleteCode(d) \/ ExpireCode(d)
        PROVE  \A c \in CodeId : codes[c].result = None => codes'[c].result = None
    BY <2>2, <2>5 DEF DeleteCode, ExpireCode, RowType
  <2> QED
    BY <2>3, <2>4, <2>5 DEF Admin, TableNext
<1>4. ResultOK'
  BY <1>1, <1>3 DEF IInv, ResultOK, KeepsRedeemed, RedeemsNothing
<1>5. \A q \in Req : WellFormed(req[q])' /\ Recorded(q)'
  BY <1>1 DEF IInv, WellFormed, Recorded, KeepsRedeemed
<1>6. RedeemedRoleStands'
  BY <1>1 DEF IInv, RedeemedRoleStands, KeepsRedeemed, RedeemsNothing
<1> QED
  BY <1>1, <1>2, <1>4, <1>5, <1>6 DEF IInv

LEMMA InvStep == IInv /\ [Next]_vars => IInv'
<1> SUFFICES ASSUME IInv, [Next]_vars PROVE IInv'
  OBVIOUS
<1>1. ASSUME NEW q \in Req, Cancel(q), UNCHANGED <<codes, roles>> PROVE IInv'
  BY <1>1, StopKeeps DEF Cancel
<1>2. CASE UNCHANGED vars
  BY <1>2 DEF vars, IInv, TypeOK, TableOK, ResultOK, WellFormed, Recorded, RedeemedRoleStands
<1> QED
  BY <1>1, <1>2, LookupKeeps, FindKeeps, ReadKeeps, CommitKeeps, UsersKeep, AdminKeeps DEF Next

(* Type correctness of the role redemption for all parameters. *)
THEOREM TypeCorrect == Spec => []TypeOK
<1>1. IInv => TypeOK
  BY DEF IInv
<1> QED
  BY <1>1, InvInit, InvStep, PTL DEF Spec

(* A request that reports success is the one whose result the code keeps,  *)
(* and no reservation outlives its transaction (redeem_code.ts:236-265),   *)
(* however many requests redeem at once.                                   *)
THEOREM AnswersAgree == Spec => []AnswerIsRecorded
<1>1. IInv => AnswerIsRecorded
  BY DEF IInv, AnswerIsRecorded, Recorded, ResultOK
<1> QED
  BY <1>1, InvInit, InvStep, PTL DEF Spec

(* The role of a redeemed code stands until an admin changes it or the     *)
(* user is deleted, whatever other redemptions do.                         *)
THEOREM RolesStand == Spec => []RedeemedRoleStands
<1>1. IInv => RedeemedRoleStands
  BY DEF IInv
<1> QED
  BY <1>1, InvInit, InvStep, PTL DEF Spec

-----------------------------------------------------------------------------
(* Only a transaction that succeeds redeems a code. *)
LEMMA RedeemedBy ==
    ASSUME IInv, [Next]_vars, NEW c \in CodeId, ~codes[c].redeemed, codes'[c].redeemed
    PROVE  \E q \in Req : /\ req[q].pc = "redeem" /\ MayRedeem(q) /\ Commit(q)
                          /\ req[q].code = c
<1>1. ~UNCHANGED codes /\ ~Admin
  BY TableStep DEF Admin, IInv, TypeOK, RedeemsNothing
<1>2. PICK q \in Req : req[q].pc = "redeem" /\ Commit(q)
  BY <1>1 DEF Next, vars, Lookup, FindUser, ReadRole, Redeem, Cancel, CreateUser,
     GiveDefaultRole, DeleteUser, UpdateUserRoles
<1>3. MayRedeem(q)
  BY <1>1, <1>2, CommitFails
<1>4. codes' = [codes EXCEPT ![req[q].code] = Redeemed(@, ResultOf(q))]
  BY <1>2, <1>3, CommitSucceeds
<1>5. req[q].code = c
  BY <1>4 DEF IInv, TypeOK
<1> QED
  BY <1>2, <1>3, <1>5

(* The transaction that redeems a code, seen from the code. *)
LEMMA SuccessEffect ==
    ASSUME IInv, NEW q \in Req, req[q].pc = "redeem", Commit(q), MayRedeem(q)
    PROVE  LET c == req[q].code  u == req[q].user  v == req[q].value IN
           /\ c \in CodeId /\ u \in UserId /\ v \in Value
           /\ ResultOf(q) \in Result /\ ResultOf(q).user = u /\ ResultOf(q).role = v
           /\ codes[c].value = v /\ ~codes[c].redeemed
           /\ codes'[c].redeemed /\ codes'[c].result = ResultOf(q)
           /\ \A d \in CodeId \ {c} : codes'[d] = codes[d]
           /\ \A d \in CodeId : OfferOf(d)' = OfferOf(d)
           /\ OfferOf(c) = v
           /\ Replaceable(roles[u], v) /\ roles'[u] = v
<1>1. PICK c, u, v, r :
        c = req[q].code /\ u = req[q].user /\ v = req[q].value /\ r = ResultOf(q)
  OBVIOUS
<1>2. c \in CodeId /\ u \in UserId /\ v \in Value /\ req[q].email \in Email
  BY <1>1 DEF IInv, WellFormed
<1>3. r \in Result /\ r.user = u /\ r.role = v
  BY <1>1, <1>2 DEF ResultOf, Result
<1>4. codes' = [codes EXCEPT ![c] = Redeemed(@, r)] /\ roles' = [roles EXCEPT ![u] = v]
  BY <1>1, CommitSucceeds
<1>5. Claimable(codes[c], v) /\ Replaceable(roles[u], v)
  BY <1>1 DEF MayRedeem
<1>6. codes \in [CodeId -> RowType(Result)] /\ TableOK /\ None \notin Result
      /\ roles \in [UserId -> Value \cup {None}]
  BY RedeemRoleAssumption DEF IInv, TypeOK
<1>7. /\ codes'[c].redeemed /\ codes'[c].result = r
      /\ ~codes[c].redeemed
      /\ \A d \in CodeId \ {c} : codes'[d] = codes[d]
      /\ \A d \in CodeId : OfferOf(d)' = OfferOf(d)
      /\ OfferOf(c) = v
  BY <1>2, <1>3, <1>4, <1>5, <1>6, RedeemStep
<1>8. codes[c].value = v /\ roles'[u] = v
  BY <1>2, <1>4, <1>5, <1>6 DEF Claimable
<1> QED
  BY <1>1, <1>2, <1>3, <1>5, <1>7, <1>8

(* A code is used up exactly when it gives its role, to a user whose role  *)
(* it may replace; a refusal changes neither table.                        *)
THEOREM UsedForRole == Spec => UsedUpForRole
<1>1. ASSUME IInv, [Next]_vars
      PROVE  /\ \A c \in CodeId : ~codes[c].redeemed /\ codes'[c].redeemed =>
                   LET u == codes'[c].result.user IN
                   Replaceable(roles[u], codes[c].value) /\ roles'[u] = codes[c].value
             /\ \A q \in Req : req[q].pc = "redeem" /\ req'[q].pc = "refused" =>
                   UNCHANGED <<codes, roles>>
  <2>1. ASSUME NEW c \in CodeId, ~codes[c].redeemed, codes'[c].redeemed
        PROVE  /\ Replaceable(roles[codes'[c].result.user], codes[c].value)
               /\ roles'[codes'[c].result.user] = codes[c].value
    BY <1>1, <2>1, RedeemedBy, SuccessEffect
  <2>2. ASSUME NEW q \in Req, req[q].pc = "redeem", req'[q].pc = "refused"
        PROVE  UNCHANGED <<codes, roles>>
    <3>1. req' # req /\ req \in [Req -> ReqType]
      BY <1>1, <2>2 DEF IInv, TypeOK
    <3>2. \/ \E p \in Req, c \in CodeId, e \in Email : Lookup(p, c, e)
          \/ \E p \in Req : FindUser(p) \/ ReadRole(p) \/ Redeem(p) \/ Cancel(p)
      BY <1>1, <3>1 DEF Next, vars, CreateUser, GiveDefaultRole, DeleteUser, UpdateUserRoles, Admin
    <3>3. ASSUME NEW p \in Req, Redeem(p) PROVE UNCHANGED <<codes, roles>>
      <4>1. p = q
        BY <2>2, <3>1, <3>3 DEF Redeem, Stop
      <4>2. ~Stop(q, "ok")
        BY <2>2, <3>1, IdleType DEF Stop, Idle
      <4>3. ~MayRedeem(q)
        BY <1>1, <2>2, <3>3, <4>1, <4>2, Transaction DEF Redeem
      <4> QED
        BY <1>1, <2>2, <3>3, <4>1, <4>3, CommitFails DEF Redeem
    <3>4. ASSUME NEW p \in Req, Cancel(p) PROVE UNCHANGED <<codes, roles>>
      BY <2>2, <3>1, <3>4 DEF Cancel, Stop, Idle
    <3> QED
      BY <3>2, <3>3, <3>4 DEF Lookup, FindUser, ReadRole
  <2> QED
    BY <2>1, <2>2
<1> QED
  BY <1>1, InvInit, InvStep, PTL DEF Spec, UsedUpForRole

-----------------------------------------------------------------------------
(* Management of the codes table is management of offers. *)
LEMMA AdminRefines ==
    ASSUME IInv, IInv', Admin
    PROVE  Once!Manage
<1>1. KeepsRedeemed /\ RedeemsNothing
  BY TableStep DEF Admin, IInv, TypeOK
<1>2. \A c \in CodeId : OfferOf(c)' \in Value \cup {None}
  BY DEF IInv, TypeOK, RowType, OfferOf
<1>3. \A c \in CodeId : GrantOf(c)' = GrantOf(c)
  BY <1>1 DEF KeepsRedeemed, RedeemsNothing, GrantOf
<1>4. \A c \in CodeId : GrantOf(c) # None => OfferOf(c)' \in {OfferOf(c), None}
  BY <1>1 DEF KeepsRedeemed, GrantOf
<1> QED
  BY <1>2, <1>3, <1>4 DEF Once!Manage

(* A transaction that succeeds is the grant. *)
LEMMA CommitRefines ==
    ASSUME IInv, NEW q \in Req, req[q].pc = "redeem", Commit(q), MayRedeem(q)
    PROVE  Once!Grant(req[q].code, ResultOf(q))
<1>1. PICK c, v, r : c = req[q].code /\ v = req[q].value /\ r = ResultOf(q)
  OBVIOUS
<1>2. /\ c \in CodeId /\ v \in Value /\ r.role = v
      /\ codes'[c].redeemed /\ codes'[c].result = r
      /\ ~codes[c].redeemed
      /\ \A d \in CodeId \ {c} : codes'[d] = codes[d]
      /\ \A d \in CodeId : OfferOf(d)' = OfferOf(d)
      /\ OfferOf(c) = v
  BY <1>1, SuccessEffect
<1>3. v # None
  BY <1>2, ValueAssumption
<1>4. GrantOf(c) = None /\ GrantOf(c)' = [value |-> v, to |-> r]
  BY <1>2 DEF GrantOf
<1>5. \A d \in CodeId \ {c} : GrantOf(d)' = GrantOf(d)
  BY <1>2 DEF GrantOf
<1> QED
  BY <1>1, <1>2, <1>3, <1>4, <1>5 DEF Once!Grant

(* The role redemption implements the promise of a one-time code: see      *)
(* OneTimeGrant.                                                           *)
THEOREM Refines == Spec => ImplementsOneTimeGrant
<1>1. Init => Once!Init
  BY TableInitOK DEF Init, Once!Init, GrantOf
<1>2. ASSUME IInv, IInv', [Next]_vars
      PROVE  [Once!Next]_<<[c \in CodeId |-> OfferOf(c)], [c \in CodeId |-> GrantOf(c)]>>
  <2>1. CASE UNCHANGED codes
    BY <2>1 DEF OfferOf, GrantOf
  <2>2. CASE Admin
    BY <1>2, <2>2, AdminRefines DEF Once!Next
  <2>3. ASSUME NEW q \in Req, req[q].pc = "redeem", Commit(q), ~UNCHANGED codes
        PROVE  \E c \in CodeId, r \in Result : Once!Grant(c, r)
    <3>1. MayRedeem(q)
      BY <1>2, <2>3, CommitFails
    <3> QED
      BY <1>2, <2>3, <3>1, CommitRefines, SuccessEffect
  <2>4. UNCHANGED codes \/ Admin \/ \E q \in Req : req[q].pc = "redeem" /\ Commit(q)
    BY <1>2 DEF Next, vars, Lookup, FindUser, ReadRole, Redeem, Cancel, CreateUser,
       GiveDefaultRole, DeleteUser, UpdateUserRoles
  <2> QED
    BY <2>1, <2>2, <2>3, <2>4 DEF Once!Next
<1> QED
  BY <1>1, <1>2, InvInit, InvStep, PTL DEF Spec, Once!Spec, ImplementsOneTimeGrant
=============================================================================
