---------------------------- MODULE RedeemAddress ----------------------------
(***************************************************************************)
(* Redeeming an address_prefix_once code (redeemAddress in redeem_code.ts) *)
(* and retrieving its result again (redeem_result_query.ts).               *)
(*                                                                         *)
(* A redemption creates the mailbox first and claims the code second, in   *)
(* separate database calls, and deletes the mailbox again when the claim   *)
(* is lost: a hand-written compensation between requests that run          *)
(* concurrently, may be cancelled at any await, and share the address      *)
(* table with every other handler.  Each action below is one database call *)
(* of the handler, up to the next await.                                   *)
(***************************************************************************)
EXTENDS RedeemCodeTable, Naturals

CONSTANTS
    Req,          \* the HTTP requests
    Local,        \* what a caller, or the name generator, puts after the prefix
    MaxAddress    \* bound on the address rows ever inserted

VARIABLES
    address,   \* table address: id (AUTOINCREMENT), name (UNIQUE), source_meta
    nextId,    \* the next id sqlite hands out
    req,       \* the handlers' local state
    leaked,    \* history: ids a cancelled or failing request left behind
    swept,     \* history: names whose mailbox some other handler deleted
    lost       \* history: codes whose claim was committed but reported as failed

vars == <<codes, address, nextId, req, leaked, swept, lost>>

(* redeemAddress: the code's prefix directly followed by the requested     *)
(* name.  That two of these can spell the same name only makes a conflict, *)
(* and so a CreateFails, more likely.                                      *)
Name == [prefix: Value, local: Local]

(* AddressRedeemResult: the stored and returned credential *)
Credential == [id: 1..MaxAddress, name: Name]

ASSUME RedeemAddressAssumption ==
    /\ MaxAddress \in Nat
    /\ None \notin CodeId \cup Credential

AddressRow == [id: 1..MaxAddress, name: Name, source: CodeId \cup {None}]

Working == {"create", "select", "claim", "undo", "undoThrow", "reread", "verify"}
Settled == {"ok", "refused", "failed", "gone"}

Idle == [pc |-> "idle", code |-> None, value |-> None, name |-> None, own |-> 0, id |-> 0]

ReqType ==
    [pc: {"idle"} \cup Working \cup Settled, code: CodeId \cup {None},
     value: Value \cup {None}, name: Name \cup {None}, own: Nat, id: Nat]

Init ==
    /\ TableInit
    /\ address = {}
    /\ nextId = 1
    /\ req = [q \in Req |-> Idle]
    /\ leaked = {}
    /\ swept = {}
    /\ lost = {}

-----------------------------------------------------------------------------
Goto(q, pc) == req' = [req EXCEPT ![q].pc = pc]

(* An answer without a credential; what the handler knew is gone with it. *)
Stop(q, pc) == req' = [req EXCEPT ![q] = [Idle EXCEPT !.pc = pc, !.code = req[q].code]]

(* SELECT ... FROM address WHERE id = ? AND name = ? *)
Exists(i, n) == \E a \in address : a.id = i /\ a.name = n

Taken(n) == \E a \in address : a.name = n

Without(i, n) == {a \in address : ~(a.id = i /\ a.name = n)}

(* The row read gives the request a stored result to verify and return. *)
FollowResult(q, c) ==
    req' = [req EXCEPT ![q] = [Idle EXCEPT !.pc = "verify", !.code = c,
                                           !.name = codes[c].result.name,
                                           !.id = codes[c].result.id]]

-----------------------------------------------------------------------------
(* getRedeemCodeForRedemption, then the branch on row.redeemed *)
Lookup(q, c) ==
    /\ req[q].pc = "idle"
    /\ \/ /\ ~Live(codes[c])
          /\ req' = [req EXCEPT ![q] = [@ EXCEPT !.pc = "refused", !.code = c]]
       \/ /\ Live(codes[c])
          /\ codes[c].redeemed
          /\ FollowResult(q, c)
       \/ /\ Live(codes[c])
          /\ ~codes[c].redeemed
          /\ req' = [req EXCEPT ![q] = [@ EXCEPT !.pc = "create", !.code = c,
                                                 !.value = codes[c].value]]
    /\ UNCHANGED <<codes, address, nextId, leaked, swept, lost>>

(* POST /redeem_api/result: only redeemed rows, nothing is written *)
QueryResult(q, c) ==
    /\ req[q].pc = "idle"
    /\ \/ /\ Live(codes[c])
          /\ codes[c].redeemed
          /\ FollowResult(q, c)
       \/ /\ ~(Live(codes[c]) /\ codes[c].redeemed)
          /\ req' = [req EXCEPT ![q] = [@ EXCEPT !.pc = "refused", !.code = c]]
    /\ UNCHANGED <<codes, address, nextId, leaked, swept, lost>>

(* newAddress up to the INSERT.  The attempts with a random subdomain that *)
(* hit a taken name before this one change nothing.                        *)
InsertAddress(q, l) ==
    LET n == [prefix |-> req[q].value, local |-> l] IN
    /\ req[q].pc = "create"
    /\ ~Taken(n)
    /\ nextId <= MaxAddress
    /\ address' = address \cup {[id |-> nextId, name |-> n, source |-> req[q].code]}
    /\ nextId' = nextId + 1
    /\ req' = [req EXCEPT ![q] = [@ EXCEPT !.pc = "select", !.name = n, !.own = nextId]]
    /\ UNCHANGED <<codes, leaked, swept, lost>>

(* newAddress throws before anything is written: a UNIQUE conflict, a      *)
(* blocked, short or long name, a domain that is not allowed.              *)
CreateFails(q) ==
    /\ req[q].pc = "create"
    /\ Goto(q, "reread")
    /\ UNCHANGED <<codes, address, nextId, leaked, swept, lost>>

(* newAddress reads the id back by name, which finds whichever row has the *)
(* name now, and throws when there is none.                                *)
SelectId(q) ==
    /\ req[q].pc = "select"
    /\ \/ \E a \in address :
            /\ a.name = req[q].name
            /\ req' = [req EXCEPT ![q] = [@ EXCEPT !.pc = "claim", !.id = a.id]]
       \/ /\ ~Taken(req[q].name)
          /\ Goto(q, "reread")
    /\ UNCHANGED <<codes, address, nextId, leaked, swept, lost>>

(* A call of newAddress after the INSERT throws (the SELECT, the password  *)
(* UPDATE): redeemAddress treats it like a name that was taken.            *)
CreateBreaks(q) ==
    /\ req[q].pc = "select"
    /\ leaked' = leaked \cup {req[q].own}
    /\ Goto(q, "reread")
    /\ UNCHANGED <<codes, address, nextId, swept, lost>>

(* claimRedeemedAddress *)
Claim(q) ==
    LET c == req[q].code IN
    /\ req[q].pc = "claim"
    /\ \/ /\ Claimable(codes[c], req[q].value)
          /\ codes' = [codes EXCEPT ![c] =
                         Redeemed(@, [id |-> req[q].id, name |-> req[q].name])]
          /\ Goto(q, "ok")
       \/ /\ ~Claimable(codes[c], req[q].value)
          /\ Goto(q, "undo")
          /\ UNCHANGED codes
    /\ UNCHANGED <<address, nextId, leaked, swept, lost>>

(* The claim's call throws; its UPDATE may have been committed. *)
ClaimThrows(q) ==
    LET c == req[q].code IN
    /\ req[q].pc = "claim"
    /\ Goto(q, "undoThrow")
    /\ \/ UNCHANGED <<codes, lost>>
       \/ /\ Claimable(codes[c], req[q].value)
          /\ codes' = [codes EXCEPT ![c] =
                         Redeemed(@, [id |-> req[q].id, name |-> req[q].name])]
          /\ lost' = lost \cup {c}
    /\ UNCHANGED <<address, nextId, leaked, swept>>

(* Mutant: the mailbox of a lost claim stays. *)
UndoNothing(q) ==
    /\ req[q].pc = "undo"
    /\ Goto(q, "reread")
    /\ UNCHANGED <<codes, address, nextId, leaked, swept, lost>>

(* Mutant: the DELETE finds the mailbox by its source_meta. *)
UndoBySource(q) ==
    /\ req[q].pc = "undo"
    /\ address' = {a \in address : a.source # req[q].code}
    /\ Goto(q, "reread")
    /\ UNCHANGED <<codes, nextId, leaked, swept, lost>>

(* Mutant: a lost claim is tried again. *)
UndoRetries(q) ==
    /\ req[q].pc = "undo"
    /\ Goto(q, "claim")
    /\ UNCHANGED <<codes, address, nextId, leaked, swept, lost>>

(* The compensating DELETE, after a lost claim ... *)
Undo(q) ==
    /\ req[q].pc = "undo"
    /\ address' = Without(req[q].id, req[q].name)
    /\ Goto(q, "reread")
    /\ UNCHANGED <<codes, nextId, leaked, swept, lost>>

(* ... and in the catch block, which rethrows. *)
UndoAndThrow(q) ==
    /\ req[q].pc = "undoThrow"
    /\ address' = Without(req[q].id, req[q].name)
    /\ Stop(q, "failed")
    /\ UNCHANGED <<codes, nextId, leaked, swept, lost>>

(* getRedeemCodeForRedemption again, to return what a concurrent winner got *)
Reread(q) ==
    LET c == req[q].code IN
    /\ req[q].pc = "reread"
    /\ \/ /\ Live(codes[c])
          /\ codes[c].redeemed
          /\ FollowResult(q, c)
       \/ /\ ~(Live(codes[c]) /\ codes[c].redeemed)
          /\ Stop(q, "refused")
    /\ UNCHANGED <<codes, address, nextId, leaked, swept, lost>>

(* getRedeemedAddress: the mailbox must still be the one that was created *)
Verify(q) ==
    /\ req[q].pc = "verify"
    /\ \/ /\ Exists(req[q].id, req[q].name)
          /\ Goto(q, "ok")
       \/ /\ ~Exists(req[q].id, req[q].name)
          /\ Stop(q, "refused")
    /\ UNCHANGED <<codes, address, nextId, leaked, swept, lost>>

(* The runtime cancels the request at an await (the client disconnected,   *)
(* the worker was evicted), or the compensating DELETE itself throws.      *)
Cancel(q) ==
    /\ req[q].pc \in Working
    /\ leaked' = IF req[q].own = 0 THEN leaked ELSE leaked \cup {req[q].own}
    /\ Stop(q, "gone")
    /\ UNCHANGED <<codes, address, nextId, swept, lost>>

-----------------------------------------------------------------------------
(* Every other handler that creates a mailbox *)
CreateElsewhere(n) ==
    /\ ~Taken(n)
    /\ nextId <= MaxAddress
    /\ address' = address \cup {[id |-> nextId, name |-> n, source |-> None]}
    /\ nextId' = nextId + 1
    /\ UNCHANGED <<codes, req, leaked, swept, lost>>

(* ... and every other handler that deletes one: admin, owner, cleanup *)
DeleteElsewhere(a) ==
    /\ a \in address
    /\ address' = address \ {a}
    /\ swept' = swept \cup {a.name}
    /\ UNCHANGED <<codes, nextId, req, leaked, lost>>

Admin == TableNext /\ UNCHANGED <<address, nextId, req, leaked, swept, lost>>

Step(q) ==
    \/ \E l \in Local : InsertAddress(q, l)
    \/ CreateFails(q) \/ SelectId(q) \/ CreateBreaks(q)
    \/ Claim(q) \/ ClaimThrows(q) \/ Undo(q) \/ UndoAndThrow(q)
    \/ Reread(q) \/ Verify(q)

Next ==
    \/ \E q \in Req : \E c \in CodeId : Lookup(q, c) \/ QueryResult(q, c)
    \/ \E q \in Req : Step(q) \/ Cancel(q)
    \/ \E n \in Name : CreateElsewhere(n)
    \/ \E a \in address : DeleteElsewhere(a)
    \/ Admin

(* The runtime runs a handler to its end unless it cancels it. *)
Fairness == \A q \in Req : WF_vars(Step(q))

Spec == Init /\ [][Next]_vars /\ Fairness

-----------------------------------------------------------------------------
TypeOK ==
    /\ codes \in [CodeId -> RowType(Credential)]
    /\ address \subseteq AddressRow
    /\ nextId \in Nat
    /\ req \in [Req -> ReqType]
    /\ leaked \subseteq Nat
    /\ swept \subseteq Name
    /\ lost \subseteq CodeId

(* Whoever is answered with a credential, the first redeemer, a concurrent *)
(* loser, a later retry or a result query, gets the one the code recorded. *)
(* So all of them get the same one (redeem_code.ts:362-421,                *)
(* redeem_result_query.ts:38-62).                                          *)
AnswerIsRecorded ==
    \A q \in Req : req[q].pc = "ok" =>
        /\ codes[req[q].code].redeemed
        /\ codes[req[q].code].result = [id |-> req[q].id, name |-> req[q].name]

(* The request that inserted row i still has to claim or delete it. *)
Pending(i) ==
    \E q \in Req : req[q].own = i /\ req[q].pc \in {"select", "claim", "undo", "undoThrow"}

Recorded(c, i) == codes[c].redeemed /\ codes[c].result.id = i

(* No redemption leaves a mailbox behind that no code points to: a mailbox *)
(* with source_meta redeem:c is c's result, is still being handled, or was *)
(* abandoned by a request that was cut short (redeem_code.ts:402-415).     *)
NoStrayMailbox ==
    \A a \in address : a.source # None =>
        Recorded(a.source, a.id) \/ Pending(a.id) \/ a.id \in leaked

(* The mailbox c recorded is there, unless a handler outside the           *)
(* redemption flow deleted a mailbox of that name.                         *)
StillThere(c) ==
    codes[c].result.name \notin swept =>
        Exists(codes[c].result.id, codes[c].result.name)

(* The mailbox a redeemed code points to is not deleted by the flow: no    *)
(* compensation of a losing request ever hits the winner's mailbox.  The   *)
(* exception is a claim that was committed although its call threw         *)
(* (redeem_code.ts:405-414).                                               *)
ResultRetrievable ==
    \A c \in CodeId : codes[c].redeemed /\ c \notin lost => StillThere(c)

(* A mailbox inserted by a redemption does not stay in limbo: it is        *)
(* eventually gone, claimed or abandoned for good.                         *)
LimboEnds ==
    \A i \in 1..MaxAddress : Pending(i) ~> ~Pending(i)

(* The flow turns a code into a mailbox at most once, only while the code  *)
(* is on offer, and with the prefix that is on offer at that instant.      *)
GrantOf(c) ==
    IF codes[c].redeemed
    THEN [value |-> codes[c].result.name.prefix, to |-> codes[c].result]
    ELSE None

Once == INSTANCE OneTimeGrant WITH
    Code <- CodeId, Holder <- Credential, Nothing <- None,
    offer <- [c \in CodeId |-> OfferOf(c)], grant <- [c \in CodeId |-> GrantOf(c)]

ImplementsOneTimeGrant == Once!Spec
=============================================================================
