------------------------------ MODULE RedeemRole ------------------------------
(***************************************************************************)
(* Redeeming a role code (redeemRole in redeem_code.ts), together with the *)
(* other handlers that write user_roles.                                   *)
(*                                                                         *)
(* The redemption checks the user's role, then runs one transaction of     *)
(* four statements: reserve the code by writing its result, write the role *)
(* if it may still be written, mark the code redeemed if it was, and take  *)
(* the reservation back if it was not.  changes() carries the outcome of   *)
(* one statement to the next.  Between check and transaction anything may  *)
(* have happened.                                                          *)
(***************************************************************************)
EXTENDS RedeemCodeTable, Naturals

CONSTANTS
    Req,           \* the HTTP requests
    Email,         \* the email addresses people register, as they spell them
    Fold,          \* Fold[e]: e in lower case
    MaxUserId,     \* bound on users.id
    DefaultRole    \* USER_DEFAULT_ROLE, None if unset

UserId == 1..MaxUserId

(* RoleRedeemResult.  Encryption draws a fresh IV, so the ciphertexts of   *)
(* two requests differ: the request is part of the result.                 *)
Result == [by: Req, user: UserId, email: Email, role: Value]

ASSUME RedeemRoleAssumption ==
    /\ MaxUserId \in Nat
    /\ Fold \in [Email -> Email]
    /\ DefaultRole \in Value \cup {None}
    /\ None \notin CodeId \cup Email \cup Result

VARIABLES
    users,     \* table users: the email of every id in use
    roles,     \* table user_roles: no row, or a null or empty role, is None
    req,       \* the handlers' local state
    touched    \* history: users whose role an admin or deletion handled

vars == <<codes, users, roles, req, touched>>

Idle == [pc |-> "idle", code |-> None, value |-> None, email |-> None, user |-> 0]

ReqType ==
    [pc: {"idle", "find", "role", "redeem", "ok", "refused", "gone"},
     code: CodeId \cup {None}, value: Value \cup {None}, email: Email \cup {None},
     user: 0..MaxUserId]

Init ==
    /\ TableInit
    /\ users = [i \in UserId |-> None]
    /\ roles = [i \in UserId |-> None]
    /\ req = [q \in Req |-> Idle]
    /\ touched = {}

Goto(q, pc) == req' = [req EXCEPT ![q].pc = pc]

(* The answer; what the handler knew is gone with it. *)
Stop(q, pc) == req' = [req EXCEPT ![q] = [Idle EXCEPT !.pc = pc, !.code = req[q].code]]

-----------------------------------------------------------------------------
(* The roles a redemption may replace. *)
Replaceable(old, new) == old \in {None, DefaultRole, new}

(* The transaction works on the code's row, the user's role and changes(). *)
(* Each statement maps that state to the next.                             *)
Reserve(s, r, v) ==
    IF Claimable(s.row, v) THEN [s EXCEPT !.row.result = r, !.changes = 1]
                           ELSE [s EXCEPT !.changes = 0]

(* Mutant: the role is written whatever it was. *)
WriteRoleAlways(s, v) ==
    IF s.changes = 1 THEN [s EXCEPT !.role = v, !.changes = 1] ELSE [s EXCEPT !.changes = 0]

WriteRole(s, v) ==
    IF s.changes = 1 /\ Replaceable(s.role, v) THEN [s EXCEPT !.role = v, !.changes = 1]
                                               ELSE [s EXCEPT !.changes = 0]

(* Mutant: the reserved code is marked without asking for changes(). *)
MarkUnasked(s, r) ==
    IF s.row.result = r /\ ~s.row.redeemed
    THEN [s EXCEPT !.row = Redeemed(@, r), !.changes = 1]
    ELSE [s EXCEPT !.changes = 0]

Mark(s, r) ==
    IF s.changes = 1 /\ s.row.result = r /\ ~s.row.redeemed
    THEN [s EXCEPT !.row = Redeemed(@, r)]
    ELSE [s EXCEPT !.changes = 0]

(* Mutant: the reservation is not taken back. *)
ReleaseNothing(s, r) == s

Release(s, r) ==
    IF s.row.result = r /\ ~s.row.redeemed THEN [s EXCEPT !.row.result = None] ELSE s

(* The state after the third statement, whose change count decides the     *)
(* answer, and the state that is committed.                                *)
Marked(q) ==
    LET c == req[q].code
        u == req[q].user
        v == req[q].value
        r == [by |-> q, user |-> u, email |-> req[q].email, role |-> v]
        s == [row |-> codes[c], role |-> roles[u], changes |-> 0]
    IN  Mark(WriteRole(Reserve(s, r, v), v), r)

Committed(q) ==
    Release(Marked(q), [by |-> q, user |-> req[q].user, email |-> req[q].email,
                        role |-> req[q].value])

Commit(q) ==
    /\ codes' = [codes EXCEPT ![req[q].code] = Committed(q).row]
    /\ roles' = [roles EXCEPT ![req[q].user] = Committed(q).role]

-----------------------------------------------------------------------------
(* getRedeemCodeForRedemption; a redeemed role code is refused *)
Lookup(q, c, e) ==
    /\ req[q].pc = "idle"
    /\ \/ /\ Live(codes[c]) /\ ~codes[c].redeemed
          /\ req' = [req EXCEPT ![q] = [@ EXCEPT !.pc = "find", !.code = c, !.email = e,
                                                 !.value = codes[c].value]]
       \/ /\ ~(Live(codes[c]) /\ ~codes[c].redeemed)
          /\ Stop(q, "refused")
    /\ UNCHANGED <<codes, users, roles, touched>>

(* SELECT id, user_email FROM users WHERE user_email = ? COLLATE NOCASE:   *)
(* addresses that differ only in case are different users, and the query   *)
(* returns one of them.                                                    *)
FindUser(q) ==
    LET same == {i \in UserId : users[i] # None /\ Fold[users[i]] = Fold[req[q].email]} IN
    /\ req[q].pc = "find"
    /\ \/ \E i \in same :
            req' = [req EXCEPT ![q] = [@ EXCEPT !.pc = "role", !.user = i, !.email = users[i]]]
       \/ same = {} /\ Stop(q, "refused")
    /\ UNCHANGED <<codes, users, roles, touched>>

(* SELECT role_text FROM user_roles, and the conflict check *)
ReadRole(q) ==
    /\ req[q].pc = "role"
    /\ IF Replaceable(roles[req[q].user], req[q].value)
       THEN Goto(q, "redeem")
       ELSE Stop(q, "refused")
    /\ UNCHANGED <<codes, users, roles, touched>>

(* The transaction *)
Redeem(q) ==
    /\ req[q].pc = "redeem"
    /\ Commit(q)
    /\ IF Marked(q).changes = 1 THEN Stop(q, "ok") ELSE Stop(q, "refused")
    /\ UNCHANGED <<users, touched>>

(* The request is cancelled, or the transaction throws: rolled back, or    *)
(* committed without the request learning of it.                           *)
Cancel(q) ==
    /\ req[q].pc \in {"find", "role", "redeem"}
    /\ Stop(q, "gone")
    /\ \/ UNCHANGED <<codes, roles>>
       \/ req[q].pc = "redeem" /\ Commit(q)
    /\ UNCHANGED <<users, touched>>

-----------------------------------------------------------------------------
(* A new users row takes one more than the largest id in use (the id is    *)
(* not AUTOINCREMENT), so the id of a deleted user can come back.          *)
CreateUser(i, e) ==
    /\ users[i] = None
    /\ \A j \in UserId : users[j] # e /\ (j > i => users[j] = None)
    /\ i # 1 => users[i - 1] # None
    /\ users' = [users EXCEPT ![i] = e]
    /\ UNCHANGED <<codes, roles, req, touched>>

(* The INSERT ... DO NOTHING that ends register, for a user_id it read     *)
(* before; the user may have been deleted since.                           *)
GiveDefaultRole(i) ==
    /\ DefaultRole # None
    /\ roles[i] = None
    /\ users[i] # None \/ i \in touched
    /\ roles' = [roles EXCEPT ![i] = DefaultRole]
    /\ UNCHANGED <<codes, users, req, touched>>

(* admin deleteUser leaves the role behind. *)
DeleteUser(i) ==
    /\ users[i] # None
    /\ users' = [users EXCEPT ![i] = None]
    /\ touched' = touched \cup {i}
    /\ UNCHANGED <<codes, roles, req>>

(* admin updateUserRoles: any role, or none, whether or not the user exists *)
UpdateUserRoles(i, r) ==
    /\ users[i] # None \/ i \in touched
    /\ roles' = [roles EXCEPT ![i] = r]
    /\ touched' = touched \cup {i}
    /\ UNCHANGED <<codes, users, req>>

Admin == TableNext /\ UNCHANGED <<users, roles, req, touched>>

Next ==
    \/ \E q \in Req, c \in CodeId, e \in Email : Lookup(q, c, e)
    \/ \E q \in Req : FindUser(q) \/ ReadRole(q) \/ Redeem(q) \/ Cancel(q)
    \/ \E i \in UserId, e \in Email : CreateUser(i, e)
    \/ \E i \in UserId : GiveDefaultRole(i) \/ DeleteUser(i)
    \/ \E i \in UserId, r \in Value \cup {None} : UpdateUserRoles(i, r)
    \/ Admin

Spec == Init /\ [][Next]_vars

-----------------------------------------------------------------------------
TypeOK ==
    /\ codes \in [CodeId -> RowType(Result)]
    /\ users \in [UserId -> Email \cup {None}]
    /\ roles \in [UserId -> Value \cup {None}]
    /\ req \in [Req -> ReqType]
    /\ touched \subseteq UserId

(* A request that reports success is the one whose result the code keeps,  *)
(* and a code that keeps a result is redeemed: no reservation outlives its *)
(* transaction (redeem_code.ts:238-265).                                   *)
AnswerIsRecorded ==
    /\ \A q \in Req : req[q].pc = "ok" => codes[req[q].code].result.by = q
    /\ \A c \in CodeId : codes[c].result # None <=> codes[c].redeemed

(* However redemptions interleave, the role of a redeemed code is the      *)
(* user's role from then on, until an admin changes it or the user is      *)
(* deleted: no other code replaces it.  Only the default role may be       *)
(* replaced (redeem_code.ts:224-227, 246-253).                             *)
RedeemedRoleStands ==
    \A c \in CodeId :
        LET u == codes[c].result.user IN
        codes[c].redeemed /\ codes[c].value # DefaultRole /\ u \notin touched
            => roles[u] = codes[c].value

(* A code is used up exactly when it gives its role, and only to a user    *)
(* without a role of their own; a refusal uses up nothing.  The guide:     *)
(* redemption "refuses to overwrite an existing role that differs from     *)
(* both the default and target roles, leaving the code unused".            *)
UsedUpForRole ==
    [][/\ \A c \in CodeId : ~codes[c].redeemed /\ codes'[c].redeemed =>
            LET u == codes'[c].result.user IN
            Replaceable(roles[u], codes[c].value) /\ roles'[u] = codes[c].value
       /\ \A q \in Req : req[q].pc = "redeem" /\ req'[q].pc = "refused" =>
            UNCHANGED <<codes, roles>>]_vars

(* The flow gives the role that is on offer when the code is marked, once. *)
GrantOf(c) ==
    IF codes[c].redeemed
    THEN [value |-> codes[c].result.role, to |-> codes[c].result]
    ELSE None

Once == INSTANCE OneTimeGrant WITH
    Code <- CodeId, Holder <- Result, Nothing <- None,
    offer <- [c \in CodeId |-> OfferOf(c)], grant <- [c \in CodeId |-> GrantOf(c)]

ImplementsOneTimeGrant == Once!Spec
=============================================================================
