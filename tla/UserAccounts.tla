----------------------------- MODULE UserAccounts -----------------------------
(***************************************************************************)
(* Users, their passwords, and the codes that prove an email address       *)
(* (user.ts, oauth2.ts, admin_user_api.ts), behind AccessControl.  A code  *)
(* is looked up, mailed and stored in separate calls; a registration       *)
(* checks it and writes the account in separate calls, and leaves it in    *)
(* place until it expires.                                                 *)
(*                                                                         *)
(* A password is represented by who chose it: the owner of an email, or    *)
(* the admin.  Roles are in RedeemRole, ids and bindings in AddressBinding. *)
(***************************************************************************)
EXTENDS AccessControl

CONSTANTS
    Email,      \* email addresses, and the persons who read them
    Admin,      \* the admin
    NoUser,     \* no account, no email
    NoPassword, \* the empty password of an account that OAuth2 made
    MaxCode     \* bound on the codes ever mailed

ASSUME UserAccountsAssumption ==
    /\ MaxCode \in Nat
    /\ Cardinality({Admin, NoUser, NoPassword}) = 3
    /\ Email \cap {Admin, NoUser, NoPassword} = {}

VARIABLES
    verifying,   \* setting enableMailVerify
    users,       \* table users, by email: who chose the password
    code,        \* temp-mail:<email>, 0 for none
    mailed,      \* the codes in the mailbox of an email
    req          \* the handlers' local state

vars == <<visit, daily, admitted, verifying, users, code, mailed, req>>

(* by: who asks.  overtaken is history: another request stored a code of   *)
(* this email since this one looked.                                       *)
Idle == [pc |-> "idle", by |-> NoUser, email |-> NoUser, code |-> 0, overtaken |-> FALSE]

ReqType ==
    [pc: {"idle", "find", "send", "put", "check", "insert", "upsert"},
     by: Email \cup {NoUser}, email: Email \cup {NoUser}, code: 0..MaxCode, overtaken: BOOLEAN]

Init ==
    /\ AccessInit
    /\ verifying \in BOOLEAN
    /\ users = [e \in Email |-> NoUser]
    /\ code = [e \in Email |-> 0]
    /\ mailed = [e \in Email |-> {}]
    /\ req = [v \in Visit |-> Idle]

-----------------------------------------------------------------------------
Begin(v, r) == Inside(v) /\ req[v].pc = "idle" /\ req' = [req EXCEPT ![v] = r]
Goto(v, pc) == req' = [req EXCEPT ![v].pc = pc] /\ UNCHANGED visit
Answer(v) == req' = [req EXCEPT ![v] = Idle] /\ Leave(v)

Issued == UNION {mailed[e] : e \in Email}
NextCode == Cardinality(Issued) + 1

(* verifyCode *)
StartVerify(v, e) ==
    /\ Begin(v, [Idle EXCEPT !.pc = "find", !.by = e, !.email = e])
    /\ UNCHANGED <<visit, daily, admitted, verifying, users, code, mailed>>

(* Mutant: a code that exists does not stop the next. *)
FindCodeAlways(v) ==
    /\ req[v].pc = "find"
    /\ Goto(v, "send")
    /\ UNCHANGED <<daily, admitted, verifying, users, code, mailed>>

FindCode(v) ==
    /\ req[v].pc = "find"
    /\ IF code[req[v].email] # 0 THEN Answer(v) ELSE Goto(v, "send")
    /\ UNCHANGED <<daily, admitted, verifying, users, code, mailed>>

(* sendMail, which may fail *)
SendCode(v) ==
    /\ req[v].pc = "send"
    /\ \/ /\ NextCode <= MaxCode
          /\ mailed' = [mailed EXCEPT ![req[v].email] = @ \cup {NextCode}]
          /\ req' = [req EXCEPT ![v] = [@ EXCEPT !.pc = "put", !.code = NextCode]]
          /\ UNCHANGED visit
       \/ Answer(v) /\ UNCHANGED mailed
    /\ UNCHANGED <<daily, admitted, verifying, users, code>>

PutCode(v) ==
    LET e == req[v].email IN
    /\ req[v].pc = "put"
    /\ code' = [code EXCEPT ![e] = req[v].code]
    /\ req' = [w \in Visit |->
           IF w = v THEN Idle
           ELSE IF req[w].email = e /\ req[w].pc \in {"send", "put"}
           THEN [req[w] EXCEPT !.overtaken = TRUE] ELSE req[w]]
    /\ Leave(v)
    /\ UNCHANGED <<daily, admitted, verifying, users, mailed>>

(* expirationTtl *)
Expire(e) ==
    /\ code[e] # 0
    /\ code' = [code EXCEPT ![e] = 0]
    /\ UNCHANGED <<visit, daily, admitted, verifying, users, mailed, req>>

-----------------------------------------------------------------------------
(* Mutant: a registration without a code is not refused. *)
StartRegisterOpen(v, p, e, k) ==
    /\ Begin(v, [Idle EXCEPT !.pc = IF verifying THEN "check" ELSE "insert",
                             !.by = p, !.email = e, !.code = k])
    /\ UNCHANGED <<visit, daily, admitted, verifying, users, code, mailed>>

(* register, by p for e with a code p has read, or 0 for none *)
StartRegister(v, p, e, k) ==
    /\ verifying => k # 0
    /\ Begin(v, [Idle EXCEPT !.pc = IF verifying THEN "check" ELSE "insert",
                             !.by = p, !.email = e, !.code = k])
    /\ UNCHANGED <<visit, daily, admitted, verifying, users, code, mailed>>

CheckCode(v) ==
    /\ req[v].pc = "check"
    /\ IF code[req[v].email] # req[v].code THEN Answer(v) ELSE Goto(v, "upsert")
    /\ UNCHANGED <<daily, admitted, verifying, users, code, mailed>>

Created(e, p) == IF users[e] = NoUser THEN [users EXCEPT ![e] = p] ELSE users

(* Without verification an account that exists is left alone, ... *)
InsertUser(v) ==
    /\ req[v].pc = "insert"
    /\ users' = Created(req[v].email, req[v].by)
    /\ Answer(v)
    /\ UNCHANGED <<daily, admitted, verifying, code, mailed>>

(* ... with it its password is replaced. *)
UpsertUser(v) ==
    /\ req[v].pc = "upsert"
    /\ users' = [users EXCEPT ![req[v].email] = req[v].by]
    /\ Answer(v)
    /\ UNCHANGED <<daily, admitted, verifying, code, mailed>>

(* A request that is cancelled, or whose call throws, stops where it is. *)
Cancel(v) ==
    /\ Inside(v)
    /\ Answer(v)
    /\ UNCHANGED <<daily, admitted, verifying, users, code, mailed>>

-----------------------------------------------------------------------------
(* oauth2Login leaves the password of an account that exists alone. *)
OAuth2Login(e) ==
    /\ users' = Created(e, NoPassword)
    /\ UNCHANGED <<visit, daily, admitted, verifying, code, mailed, req>>

(* The admin's createUser, resetPassword and deleteUser *)
AdminUser(e) ==
    /\ \/ users' = Created(e, Admin)
       \/ users[e] # NoUser /\ users' = [users EXCEPT ![e] = Admin]
       \/ users' = [users EXCEPT ![e] = NoUser]
    /\ UNCHANGED <<visit, daily, admitted, verifying, code, mailed, req>>

ChangeSettings ==
    /\ verifying' = ~verifying
    /\ UNCHANGED <<visit, daily, admitted, users, code, mailed, req>>

Step(v) ==
    \/ FindCode(v) \/ SendCode(v) \/ PutCode(v)
    \/ CheckCode(v) \/ InsertUser(v) \/ UpsertUser(v)

Next ==
    \/ AccessNext /\ UNCHANGED <<verifying, users, code, mailed, req>>
    \/ \E v \in Visit :
          \/ Step(v) \/ Cancel(v)
          \/ \E e \in Email : StartVerify(v, e)
          \/ \E p, e \in Email : \E k \in mailed[p] \cup {0} : StartRegister(v, p, e, k)
    \/ \E e \in Email : Expire(e) \/ OAuth2Login(e) \/ AdminUser(e)
    \/ ChangeSettings

Spec == Init /\ [][Next]_vars

-----------------------------------------------------------------------------
TypeOK ==
    /\ AccessType
    /\ verifying \in BOOLEAN
    /\ users \in [Email -> Email \cup {Admin, NoUser, NoPassword}]
    /\ code \in [Email -> 0..MaxCode]
    /\ mailed \in [Email -> SUBSET (1..MaxCode)]
    /\ req \in [Visit -> ReqType]

(* Nobody but the reader of an email and the admin replaces the password of *)
(* its account, whether verification is on, off or being switched, although *)
(* a registration under a known email is an update (user.ts:118-158).       *)
NoTakeover ==
    [][\A e \in Email :
          users[e] # NoUser /\ users'[e] \notin {NoUser, users[e]} => users'[e] \in {e, Admin}]_vars

(* A code that was mailed is not replaced before it expires, except by a    *)
(* request that had found none before this one was stored (user.ts:47-70).  *)
CodeStays ==
    [][\A e \in Email :
          code[e] # 0 /\ code'[e] \notin {0, code[e]} =>
              \E v \in Visit : req[v].pc = "put" /\ req[v].email = e /\ req[v].overtaken]_vars

(* How many of p[1] requests at once pass a limit of p[2], at most: while   *)
(* one that has read the counter waits, the others use up the limit; then   *)
(* it writes, and all go on from one.  It is C(k+l, k)-1 for k and l.       *)
Passes[p \in Nat \X Nat] ==
    IF p[1] = 0 \/ p[2] = 0 THEN 0
    ELSE Passes[<<p[1] - 1, p[2]>>] + 1 + Passes[<<p[1], p[2] - 1>>]

(* The counter is no bound: of k requests at once, one that has read it     *)
(* early sets it back when it writes, and the others start again.  No more  *)
(* requests of a client are counted in a day than Passes says, which is the *)
(* limit if they come one by one (ip_blacklist.ts:232-247).                 *)
DailyLimitBounded ==
    DailyLimit > 0 =>
        \A i \in Client : admitted[i] <= Passes[<<Cardinality(Visit), DailyLimit>>]
=============================================================================
