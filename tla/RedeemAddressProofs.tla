------------------------- MODULE RedeemAddressProofs -------------------------
(***************************************************************************)
(* RedeemAddress for every set of requests, codes, names and any bound on  *)
(* the addresses: the inductive invariant and the theorems it yields.      *)
(***************************************************************************)
EXTENDS RedeemAddress, RedeemCodeTableProofs

(* A request between its INSERT and its claim or compensation ... *)
Holding == {"select", "claim", "undo", "undoThrow"}

(* ... that has read an id back. *)
Named == {"claim", "undo", "undoThrow"}

(* What a request's local state r promises at its position. *)
WellFormed(r) ==
    /\ r.pc # "idle" => r.code \in CodeId
    /\ r.own < nextId
    /\ r.pc = "create" => r.value \in Value
    /\ r.pc \in Holding =>
          r.name \in Name /\ r.name.prefix = r.value /\ r.own # 0
    /\ r.pc \in Named => r.id \in 1..MaxAddress /\ r.id < nextId

(* A request that follows a stored result, or answered with a credential,  *)
(* holds what the code recorded.                                           *)
FollowsRecord(r) ==
    r.pc \in {"verify", "ok"} =>
        /\ codes[r.code].redeemed
        /\ codes[r.code].result = [id |-> r.id, name |-> r.name]

(* The row a request inserted, if still there, is unchanged; and if it is  *)
(* there, the id the request read back is that row's.                      *)
OwnRow(r) ==
    \A a \in address : r.pc \in Holding /\ a.id = r.own =>
        /\ a.name = r.name
        /\ a.source = r.code
        /\ r.pc \in Named => r.id = r.own

GoodReq(r) == WellFormed(r) /\ FollowsRecord(r) /\ OwnRow(r)

(* No two requests inserted the same row. *)
OwnDistinct ==
    \A p, q \in Req : req[p].own = req[q].own /\ p # q => req[p].own = 0

(* The address table: ids were handed out before, ids and names are keys. *)
AddressOK ==
    /\ 0 < nextId
    /\ \A a \in address : a.id < nextId
    /\ \A a, b \in address : a.id = b.id \/ a.name = b.name => a = b

(* Recorded results carry the prefix that was on offer and a used id. *)
ResultOK ==
    \A c \in CodeId : codes[c].redeemed =>
        /\ codes[c].result.name.prefix = codes[c].value
        /\ codes[c].result.id < nextId

CoreInv ==
    /\ TypeOK /\ TableOK /\ AddressOK /\ ResultOK
    /\ OwnDistinct
    /\ \A q \in Req : GoodReq(req[q])

(* As long as no other handler deleted a mailbox of that name, a request   *)
(* still has the row it inserted and read back that row's id ...           *)
OwnKept ==
    \A q \in Req : req[q].pc \in Holding /\ req[q].name \notin swept =>
        /\ Exists(req[q].own, req[q].name)
        /\ req[q].pc \in Named => req[q].id = req[q].own

(* ... and no request is about to undo the row a code recorded, unless it  *)
(* was told that its claim failed.                                         *)
RecordKept ==
    \A c \in CodeId : codes[c].redeemed /\ codes[c].result.name \notin swept /\ c \notin lost =>
        /\ Exists(codes[c].result.id, codes[c].result.name)
        /\ \A q \in Req : req[q].pc \in Holding => req[q].own # codes[c].result.id

IInv == CoreInv /\ NoStrayMailbox

KeepInv == CoreInv /\ OwnKept /\ RecordKept

-----------------------------------------------------------------------------
LEMMA IdleType == Idle \in ReqType /\ Idle.pc = "idle" /\ Idle.own = 0
  BY DEF Idle, ReqType

LEMMA CoreInit == Init => CoreInv
<1> SUFFICES ASSUME Init PROVE CoreInv
  OBVIOUS
<1>1. codes \in [CodeId -> RowType(Credential)] /\ TableOK
      /\ \A c \in CodeId : ~codes[c].redeemed
  BY TableInitOK DEF Init
<1>2. TypeOK
  BY <1>1, IdleType DEF Init, TypeOK
<1>3. \A q \in Req : GoodReq(req[q])
  BY IdleType DEF Init, GoodReq, WellFormed, FollowsRecord, OwnRow, Holding, Named
<1> QED
  BY <1>1, <1>2, <1>3, IdleType DEF Init, CoreInv, OwnDistinct, AddressOK, ResultOK

(* What every step leaves to the other requests: recorded redemptions stay *)
(* and rows are only added under fresh ids.                                *)
Mild ==
    /\ KeepsRedeemed
    /\ \A a \in address' : a \in address \/ a.id >= nextId
    /\ nextId' >= nextId

LEMMA OthersKept ==
    ASSUME TypeOK, Mild, nextId' \in Nat, NEW r \in ReqType, GoodReq(r)
    PROVE  GoodReq(r)'
<1>1. WellFormed(r)'
  BY DEF GoodReq, WellFormed, TypeOK, Mild, ReqType
<1>2. FollowsRecord(r)'
  BY DEF GoodReq, WellFormed, FollowsRecord, Mild, KeepsRedeemed
<1>3. OwnRow(r)'
  BY DEF GoodReq, WellFormed, OwnRow, Mild, TypeOK, ReqType, AddressRow
<1> QED
  BY <1>1, <1>2, <1>3 DEF GoodReq

(* A mild step that moves request q to the state r. *)
LEMMA OneMoves ==
    ASSUME CoreInv, Mild, TypeOK', TableOK', AddressOK', ResultOK',
           NEW q \in Req, NEW r \in ReqType,
           req' = [req EXCEPT ![q] = r],
           GoodReq(r)',
           r.own = 0 \/ r.own = req[q].own \/ r.own = nextId
    PROVE  CoreInv'
<1>1. \A p \in Req : req'[p] = IF p = q THEN r ELSE req[p]
  BY DEF CoreInv, TypeOK
<1>2. OwnDistinct'
  BY <1>1 DEF CoreInv, OwnDistinct, TypeOK, ReqType, GoodReq, WellFormed
<1>3. ASSUME NEW p \in Req PROVE GoodReq(req[p])'
  <2>1. CASE p = q
    BY <1>1, <2>1 DEF GoodReq, WellFormed, FollowsRecord, OwnRow
  <2>2. CASE p # q
    <3>1. req[p] \in ReqType /\ GoodReq(req[p])
      BY DEF CoreInv, TypeOK
    <3> DEFINE s == req[p]
    <3>2. GoodReq(s)'
      BY <3>1, OthersKept DEF CoreInv, TypeOK
    <3> QED
      BY <1>1, <2>2, <3>2 DEF GoodReq, WellFormed, FollowsRecord, OwnRow
  <2> QED
    BY <2>1, <2>2
<1> QED
  BY <1>2, <1>3 DEF CoreInv

(* A move of one request that writes neither table. *)
LEMMA QuietMove ==
    ASSUME CoreInv, UNCHANGED <<codes, address, nextId, swept, lost>>, leaked' \subseteq Nat,
           NEW q \in Req, NEW r \in ReqType,
           req' = [req EXCEPT ![q] = r],
           GoodReq(r),
           r.own = 0 \/ r.own = req[q].own
    PROVE  CoreInv'
<1>1. Mild
  BY DEF CoreInv, TypeOK, Mild, KeepsRedeemed, OfferOf
<1>2. TypeOK'
  BY DEF CoreInv, TypeOK
<1>3. TableOK' /\ AddressOK' /\ ResultOK'
  BY DEF CoreInv, TableOK, AddressOK, ResultOK
<1>4. GoodReq(r)'
  BY DEF GoodReq, WellFormed, FollowsRecord, OwnRow
<1> QED
  BY <1>1, <1>2, <1>3, <1>4, OneMoves

(* A request that takes over the stored result of a redeemed code. *)
LEMMA FollowGood ==
    ASSUME CoreInv, NEW c \in CodeId, codes[c].redeemed
    PROVE  LET r == [Idle EXCEPT !.pc = "verify", !.code = c,
                                 !.name = codes[c].result.name,
                                 !.id = codes[c].result.id]
           IN  r \in ReqType /\ GoodReq(r) /\ r.own = 0
<1> DEFINE r == [Idle EXCEPT !.pc = "verify", !.code = c,
                             !.name = codes[c].result.name, !.id = codes[c].result.id]
<1>1. codes[c].result \in Credential
  BY DEF CoreInv, TypeOK, TableOK, RowType
<1>2. codes[c].result.id \in Nat /\ codes[c].result.name \in Name
  BY <1>1, RedeemAddressAssumption DEF Credential
<1>3. r \in ReqType /\ r.own = 0 /\ r.pc = "verify" /\ r.code = c
      /\ r.id = codes[c].result.id /\ r.name = codes[c].result.name
  BY <1>2 DEF Idle, ReqType, Working
<1>4. codes[c].result = [id |-> r.id, name |-> r.name]
  BY <1>1, <1>3 DEF Credential
<1> HIDE DEF r
<1>5. GoodReq(r)
  BY <1>3, <1>4 DEF GoodReq, WellFormed, FollowsRecord, OwnRow, Holding, Named, CoreInv, AddressOK
<1> QED
  BY <1>3, <1>5 DEF r

(* An answer without a credential is well formed. *)
LEMMA StopGood ==
    ASSUME CoreInv, NEW q \in Req, req[q].pc # "idle", NEW pc \in {"refused", "failed", "gone"}
    PROVE  LET r == [Idle EXCEPT !.pc = pc, !.code = req[q].code]
           IN  r \in ReqType /\ GoodReq(r) /\ r.own = 0
<1> DEFINE r == [Idle EXCEPT !.pc = pc, !.code = req[q].code]
<1>1. req[q] \in ReqType /\ WellFormed(req[q])
  BY DEF CoreInv, TypeOK, GoodReq
<1>2. r \in ReqType /\ r.own = 0 /\ r.pc = pc /\ r.code \in CodeId
  BY <1>1 DEF Idle, ReqType, Settled, WellFormed
<1> HIDE DEF r
<1>3. GoodReq(r)
  BY <1>2 DEF GoodReq, WellFormed, FollowsRecord, OwnRow, Holding, Named, CoreInv, AddressOK
<1> QED
  BY <1>2, <1>3 DEF r

LEMMA CoreLookup ==
    ASSUME CoreInv, NEW q \in Req, NEW c \in CodeId, Lookup(q, c) \/ QueryResult(q, c)
    PROVE  CoreInv'
<1>0. req[q] \in ReqType /\ GoodReq(req[q]) /\ codes[c] \in RowType(Credential)
  BY DEF CoreInv, TypeOK
<1>1. UNCHANGED <<codes, address, nextId, swept, lost>> /\ leaked' \subseteq Nat
  BY DEF Lookup, QueryResult, CoreInv, TypeOK
<1>2. CASE codes[c].redeemed /\ FollowResult(q, c)
  BY <1>1, <1>2, FollowGood, QuietMove DEF FollowResult
<1>3. CASE req[q].pc = "idle"
           /\ req' = [req EXCEPT ![q] = [@ EXCEPT !.pc = "refused", !.code = c]]
  <2> DEFINE r == [req[q] EXCEPT !.pc = "refused", !.code = c]
  <2>1. r \in ReqType /\ r.own = req[q].own /\ GoodReq(r)
    BY <1>0, <1>3 DEF ReqType, Settled, GoodReq, WellFormed, FollowsRecord, OwnRow, Holding, Named
  <2>2. req' = [req EXCEPT ![q] = r]
    BY <1>3
  <2> HIDE DEF r
  <2> QED
    BY <1>1, <2>1, <2>2, QuietMove
<1>4. CASE req[q].pc = "idle"
           /\ req' = [req EXCEPT ![q] = [@ EXCEPT !.pc = "create", !.code = c,
                                                  !.value = codes[c].value]]
  <2> DEFINE r == [req[q] EXCEPT !.pc = "create", !.code = c, !.value = codes[c].value]
  <2>1. r \in ReqType /\ r.own = req[q].own /\ GoodReq(r)
    BY <1>0, <1>4 DEF ReqType, Working, RowType, GoodReq, WellFormed, FollowsRecord, OwnRow,
       Holding, Named
  <2>2. req' = [req EXCEPT ![q] = r]
    BY <1>4
  <2> HIDE DEF r
  <2> QED
    BY <1>1, <2>1, <2>2, QuietMove
<1> QED
  BY <1>2, <1>3, <1>4 DEF Lookup, QueryResult

(* A request that only changes its position, to one that promises no more. *)
LEMMA CoreGoto ==
    ASSUME CoreInv, NEW q \in Req, NEW pc,
           UNCHANGED <<codes, address, nextId, swept, lost>>, leaked' \subseteq Nat,
           Goto(q, pc), req[q].pc # "idle",
           \/ pc = "reread"
           \/ pc \in {"undo", "undoThrow"} /\ req[q].pc = "claim"
           \/ pc = "ok" /\ req[q].pc = "verify"
    PROVE  CoreInv'
<1> DEFINE r == [req[q] EXCEPT !.pc = pc]
<1>1. req[q] \in ReqType /\ GoodReq(req[q])
  BY DEF CoreInv, TypeOK
<1>2. r \in ReqType /\ r.own = req[q].own /\ GoodReq(r)
  BY <1>1 DEF ReqType, Working, Settled, GoodReq, WellFormed, FollowsRecord, OwnRow, Holding, Named
<1>3. req' = [req EXCEPT ![q] = r]
  BY DEF Goto
<1> HIDE DEF r
<1> QED
  BY <1>2, <1>3, QuietMove

(* A mild step of another handler. *)
LEMMA NoneMoves ==
    ASSUME CoreInv, Mild, TypeOK', TableOK', AddressOK', ResultOK', UNCHANGED req
    PROVE  CoreInv'
<1>1. ASSUME NEW p \in Req PROVE GoodReq(req[p])'
  <2> DEFINE s == req[p]
  <2>1. GoodReq(s)'
    BY OthersKept DEF CoreInv, TypeOK
  <2> QED
    BY <2>1 DEF GoodReq, WellFormed, FollowsRecord, OwnRow
<1>2. OwnDistinct'
  BY DEF CoreInv, OwnDistinct
<1> QED
  BY <1>1, <1>2 DEF CoreInv

LEMMA CoreInsert ==
    ASSUME CoreInv, NEW q \in Req, NEW l \in Local, InsertAddress(q, l)
    PROVE  CoreInv'
<1> DEFINE n == [prefix |-> req[q].value, local |-> l]
           a == [id |-> nextId, name |-> n, source |-> req[q].code]
<1>0. PICK r : r = [req[q] EXCEPT !.pc = "select", !.name = n, !.own = nextId]
  OBVIOUS
<1>1. /\ req[q] \in ReqType /\ GoodReq(req[q]) /\ req[q].pc = "create"
      /\ nextId \in 1..MaxAddress /\ nextId \in Nat
  BY RedeemAddressAssumption DEF CoreInv, TypeOK, InsertAddress, AddressOK
<1>2. n \in Name /\ n.prefix = req[q].value /\ req[q].code \in CodeId
  BY <1>1 DEF Name, GoodReq, WellFormed
<1>3. a \in AddressRow /\ a.id = nextId /\ a.name = n /\ a.source = req[q].code
  BY <1>1, <1>2 DEF AddressRow
<1>4. /\ r \in ReqType /\ r.pc = "select" /\ r.name = n /\ r.own = nextId
      /\ r.code = req[q].code /\ r.value = req[q].value
  BY <1>0, <1>1, <1>2 DEF ReqType, Working
<1>5. /\ address' = address \cup {a} /\ nextId' = nextId + 1 /\ ~Taken(n)
      /\ req' = [req EXCEPT ![q] = r]
      /\ UNCHANGED <<codes, leaked, swept, lost>>
  BY <1>0 DEF InsertAddress
<1> HIDE DEF n, a
<1>6. TypeOK'
  BY <1>1, <1>3, <1>4, <1>5 DEF CoreInv, TypeOK
<1>7. Mild
  BY <1>1, <1>3, <1>5 DEF CoreInv, TypeOK, Mild, KeepsRedeemed, OfferOf
<1>8. TableOK' /\ ResultOK'
  BY <1>1, <1>5, RedeemAddressAssumption
     DEF CoreInv, TypeOK, TableOK, ResultOK, RowType, Credential
<1>9. AddressOK'
  BY <1>1, <1>3, <1>5 DEF CoreInv, TypeOK, AddressOK, AddressRow, Taken
<1>10. GoodReq(r)'
  <2>1. WellFormed(r)'
    BY <1>1, <1>2, <1>4, <1>5 DEF WellFormed, Holding, Named
  <2>2. OwnRow(r)'
    BY <1>1, <1>3, <1>4, <1>5 DEF OwnRow, CoreInv, AddressOK, Holding, Named
  <2> QED
    BY <1>4, <2>1, <2>2 DEF GoodReq, FollowsRecord
<1> QED
  BY <1>4, <1>5, <1>6, <1>7, <1>8, <1>9, <1>10, OneMoves

LEMMA CoreSelect ==
    ASSUME CoreInv, NEW q \in Req, SelectId(q)
    PROVE  CoreInv'
<1>1. UNCHANGED <<codes, address, nextId, leaked, swept, lost>> /\ req[q].pc = "select"
      /\ leaked' \subseteq Nat
  BY DEF SelectId, CoreInv, TypeOK
<1>2. ASSUME NEW a \in address, a.name = req[q].name,
             req' = [req EXCEPT ![q] = [@ EXCEPT !.pc = "claim", !.id = a.id]]
      PROVE  CoreInv'
  <2> DEFINE r == [req[q] EXCEPT !.pc = "claim", !.id = a.id]
  <2>1. req[q] \in ReqType /\ GoodReq(req[q]) /\ a \in AddressRow
    BY DEF CoreInv, TypeOK
  <2>2. a.id \in 1..MaxAddress /\ a.id \in Nat /\ a.id < nextId
    BY <2>1, RedeemAddressAssumption DEF CoreInv, AddressOK, AddressRow
  <2>3. /\ r \in ReqType /\ r.pc = "claim" /\ r.id = a.id /\ r.own = req[q].own
        /\ r.name = req[q].name /\ r.code = req[q].code /\ r.value = req[q].value
    BY <2>1, <2>2 DEF ReqType, Working
  <2>4. req' = [req EXCEPT ![q] = r]
    BY <1>2
  <2> HIDE DEF r
  <2>5. WellFormed(r) /\ FollowsRecord(r)
    BY <1>1, <2>1, <2>2, <2>3 DEF GoodReq, WellFormed, FollowsRecord, Holding, Named
  <2>6. OwnRow(r)
    BY <1>1, <1>2, <2>1, <2>3 DEF GoodReq, OwnRow, Holding, CoreInv, AddressOK
  <2> QED
    BY <1>1, <2>3, <2>4, <2>5, <2>6, QuietMove DEF GoodReq
<1>3. CASE Goto(q, "reread")
  BY <1>1, <1>3, CoreGoto
<1> QED
  BY <1>2, <1>3 DEF SelectId

(* The UPDATE that records the credential q holds as its code's result. *)
LEMMA CoreRecord ==
    ASSUME CoreInv, NEW q \in Req, req[q].pc = "claim",
           Claimable(codes[req[q].code], req[q].value),
           codes' = [codes EXCEPT ![req[q].code] =
                       Redeemed(@, [id |-> req[q].id, name |-> req[q].name])],
           UNCHANGED <<address, nextId, leaked, swept>>, lost' \subseteq CodeId,
           NEW pc \in {"ok", "undoThrow"}, Goto(q, pc)
    PROVE  CoreInv'
<1> DEFINE c == req[q].code
           h == [id |-> req[q].id, name |-> req[q].name]
<1>0. PICK r : r = [req[q] EXCEPT !.pc = pc]
  OBVIOUS
<1>1. req[q] \in ReqType /\ WellFormed(req[q]) /\ OwnRow(req[q])
  BY DEF CoreInv, TypeOK, GoodReq
<1>2. /\ c \in CodeId /\ h \in Credential /\ h.id = req[q].id /\ h.name = req[q].name
      /\ h.id < nextId /\ h.name.prefix = req[q].value
  BY <1>1 DEF WellFormed, Credential, Holding, Named
<1>3. /\ codes' \in [CodeId -> RowType(Credential)]
      /\ TableOK' /\ KeepsRedeemed
      /\ codes'[c].redeemed /\ codes'[c].result = h /\ codes'[c].value = req[q].value
      /\ \A d \in CodeId \ {c} : codes'[d] = codes[d]
  BY <1>2, RedeemStep, RedeemAddressAssumption DEF CoreInv, TypeOK
<1>4. /\ r \in ReqType /\ r.pc = pc /\ r.own = req[q].own /\ r.id = req[q].id
      /\ r.name = req[q].name /\ r.code = c /\ r.value = req[q].value
  BY <1>0, <1>1 DEF ReqType, Working, Settled
<1>5. req' = [req EXCEPT ![q] = r]
  BY <1>0 DEF Goto
<1> HIDE DEF c, h
<1>6. TypeOK' /\ Mild
  BY <1>3, <1>4, <1>5 DEF CoreInv, TypeOK, Mild
<1>7. AddressOK'
  BY DEF CoreInv, AddressOK
<1>8. ResultOK'
  BY <1>2, <1>3 DEF CoreInv, ResultOK
<1>9. GoodReq(r)'
  <2>1. WellFormed(r)'
    BY <1>1, <1>2, <1>4 DEF WellFormed, Holding, Named
  <2>2. FollowsRecord(r)'
    BY <1>2, <1>3, <1>4 DEF FollowsRecord, h
  <2>3. OwnRow(r)'
    BY <1>1, <1>4 DEF OwnRow, Holding, Named, c
  <2> QED
    BY <2>1, <2>2, <2>3 DEF GoodReq
<1> QED
  BY <1>3, <1>4, <1>5, <1>6, <1>7, <1>8, <1>9, OneMoves

(* Rows only disappear: a compensation, or another handler's deletion. *)
LEMMA Shrinks ==
    ASSUME CoreInv, address' \subseteq address, UNCHANGED <<codes, nextId>>
    PROVE  Mild /\ TableOK' /\ AddressOK' /\ ResultOK' /\ address' \subseteq AddressRow
  BY DEF CoreInv, TypeOK, Mild, KeepsRedeemed, OfferOf, TableOK, AddressOK, ResultOK

LEMMA CoreUndo ==
    ASSUME CoreInv, NEW q \in Req, Undo(q) \/ UndoAndThrow(q)
    PROVE  CoreInv'
<1>1. /\ address' \subseteq address /\ UNCHANGED <<codes, nextId, leaked, swept, lost>>
      /\ req[q].pc \in {"undo", "undoThrow"}
  BY DEF Undo, UndoAndThrow, Without
<1>2. /\ Mild /\ TableOK' /\ AddressOK' /\ ResultOK'
      /\ address' \subseteq AddressRow
  BY <1>1, Shrinks
<1>3. ASSUME NEW r \in ReqType, req' = [req EXCEPT ![q] = r], GoodReq(r),
             r.own = 0 \/ r.own = req[q].own
      PROVE  CoreInv'
  <2>1. TypeOK'
    BY <1>1, <1>2, <1>3 DEF CoreInv, TypeOK
  <2>2. GoodReq(r)'
    BY <1>2, <1>3, <2>1, OthersKept DEF CoreInv, TypeOK
  <2> QED
    BY <1>2, <1>3, <2>1, <2>2, OneMoves
<1>4. CASE Undo(q)
  <2> DEFINE r == [req[q] EXCEPT !.pc = "reread"]
  <2>1. req[q] \in ReqType /\ GoodReq(req[q])
    BY DEF CoreInv, TypeOK
  <2>2. r \in ReqType /\ r.own = req[q].own /\ GoodReq(r)
    BY <1>1, <2>1 DEF ReqType, Working, GoodReq, WellFormed, FollowsRecord, OwnRow, Holding, Named
  <2>3. req' = [req EXCEPT ![q] = r]
    BY <1>4 DEF Undo, Goto
  <2> HIDE DEF r
  <2> QED
    BY <1>3, <2>2, <2>3
<1>5. CASE UndoAndThrow(q)
  BY <1>1, <1>3, <1>5, StopGood DEF UndoAndThrow, Stop
<1> QED
  BY <1>4, <1>5 DEF Undo, UndoAndThrow

LEMMA CoreStop ==
    ASSUME CoreInv, NEW q \in Req, NEW pc \in {"refused", "gone"}, Stop(q, pc),
           req[q].pc # "idle",
           UNCHANGED <<codes, address, nextId, swept, lost>>, leaked' \subseteq Nat
    PROVE  CoreInv'
  BY StopGood, QuietMove DEF Stop

LEMMA CoreElsewhere ==
    ASSUME CoreInv,
           \/ \E n \in Name : CreateElsewhere(n)
           \/ \E a \in address : DeleteElsewhere(a)
           \/ Admin
    PROVE  CoreInv'
<1>1. ASSUME NEW n \in Name, CreateElsewhere(n) PROVE CoreInv'
  <2> DEFINE a == [id |-> nextId, name |-> n, source |-> None]
  <2>1. nextId \in 1..MaxAddress /\ nextId \in Nat
    BY <1>1, RedeemAddressAssumption DEF CoreInv, TypeOK, CreateElsewhere, AddressOK
  <2>2. a \in AddressRow /\ a.id = nextId /\ a.name = n
    BY <2>1 DEF AddressRow
  <2>3. /\ address' = address \cup {a} /\ nextId' = nextId + 1 /\ ~Taken(n)
        /\ UNCHANGED <<codes, req, leaked, swept, lost>>
    BY <1>1 DEF CreateElsewhere
  <2> HIDE DEF a
  <2>4. TypeOK'
    BY <2>1, <2>2, <2>3 DEF CoreInv, TypeOK
  <2>5. Mild
    BY <2>1, <2>2, <2>3 DEF CoreInv, TypeOK, Mild, KeepsRedeemed, OfferOf
  <2>6. TableOK' /\ ResultOK'
    BY <2>1, <2>3, RedeemAddressAssumption
       DEF CoreInv, TypeOK, TableOK, ResultOK, RowType, Credential
  <2>7. AddressOK'
    BY <2>1, <2>2, <2>3 DEF CoreInv, TypeOK, AddressOK, AddressRow, Taken
  <2> QED
    BY <2>3, <2>4, <2>5, <2>6, <2>7, NoneMoves
<1>2. ASSUME NEW a \in address, DeleteElsewhere(a) PROVE CoreInv'
  <2>1. address' \subseteq address /\ UNCHANGED <<codes, nextId, req, leaked, lost>>
    BY <1>2 DEF DeleteElsewhere
  <2>2. swept' \subseteq Name
    BY <1>2 DEF DeleteElsewhere, CoreInv, TypeOK, AddressRow
  <2>3. Mild /\ TableOK' /\ AddressOK' /\ ResultOK' /\ address' \subseteq AddressRow
    BY <2>1, Shrinks
  <2>4. TypeOK'
    BY <2>1, <2>2, <2>3 DEF CoreInv, TypeOK
  <2> QED
    BY <2>1, <2>3, <2>4, NoneMoves
<1>3. ASSUME Admin PROVE CoreInv'
  <2>1. /\ codes' \in [CodeId -> RowType(Credential)]
        /\ TableOK' /\ KeepsRedeemed /\ RedeemsNothing
        /\ UNCHANGED <<address, nextId, req, leaked, swept, lost>>
    BY <1>3, TableStep DEF Admin, CoreInv, TypeOK
  <2>2. TypeOK' /\ Mild
    BY <2>1 DEF CoreInv, TypeOK, Mild
  <2>3. AddressOK'
    BY <2>1 DEF CoreInv, AddressOK
  <2>4. ResultOK'
    BY <2>1 DEF CoreInv, ResultOK, KeepsRedeemed, RedeemsNothing
  <2> QED
    BY <2>1, <2>2, <2>3, <2>4, NoneMoves
<1> QED
  BY <1>1, <1>2, <1>3

LEMMA CoreStep == CoreInv /\ [Next]_vars => CoreInv'
<1> SUFFICES ASSUME CoreInv, [Next]_vars PROVE CoreInv'
  OBVIOUS
<1>1. ASSUME NEW q \in Req, NEW c \in CodeId, Lookup(q, c) \/ QueryResult(q, c)
      PROVE  CoreInv'
  BY <1>1, CoreLookup
<1>2. ASSUME NEW q \in Req, NEW l \in Local, InsertAddress(q, l) PROVE CoreInv'
  BY <1>2, CoreInsert
<1>3. ASSUME NEW q \in Req, CreateFails(q) \/ CreateBreaks(q) PROVE CoreInv'
  <2>1. req[q].own \in Nat
    BY DEF CoreInv, TypeOK, ReqType
  <2> QED
    BY <1>3, <2>1, CoreGoto DEF CreateFails, CreateBreaks, CoreInv, TypeOK
<1>4. ASSUME NEW q \in Req, SelectId(q) PROVE CoreInv'
  BY <1>4, CoreSelect
<1>5. ASSUME NEW q \in Req, Claim(q) PROVE CoreInv'
  <2>1. CASE Claimable(codes[req[q].code], req[q].value)
    BY <1>5, <2>1, CoreRecord DEF Claim, CoreInv, TypeOK
  <2>2. CASE ~Claimable(codes[req[q].code], req[q].value)
    BY <1>5, <2>2, CoreGoto DEF Claim, CoreInv, TypeOK
  <2> QED
    BY <2>1, <2>2
<1>6. ASSUME NEW q \in Req, ClaimThrows(q) PROVE CoreInv'
  <2>1. CASE UNCHANGED <<codes, lost>>
    BY <1>6, <2>1, CoreGoto DEF ClaimThrows, CoreInv, TypeOK
  <2>2. CASE ~UNCHANGED <<codes, lost>>
    <3>1. req[q].pc = "claim" /\ WellFormed(req[q])
      BY <1>6 DEF ClaimThrows, CoreInv, GoodReq
    <3>2. lost' \subseteq CodeId
      BY <1>6, <2>2, <3>1 DEF ClaimThrows, WellFormed, CoreInv, TypeOK
    <3> QED
      BY <1>6, <2>2, <3>2, CoreRecord DEF ClaimThrows
  <2> QED
    BY <2>1, <2>2
<1>7. ASSUME NEW q \in Req, Undo(q) \/ UndoAndThrow(q) PROVE CoreInv'
  BY <1>7, CoreUndo
<1>8. ASSUME NEW q \in Req, Reread(q) PROVE CoreInv'
  <2>1. /\ req[q].code \in CodeId /\ req[q].pc # "idle" /\ leaked' \subseteq Nat
        /\ UNCHANGED <<codes, address, nextId, swept, lost>>
    BY <1>8 DEF Reread, CoreInv, TypeOK, GoodReq, WellFormed
  <2>2. CASE codes[req[q].code].redeemed /\ FollowResult(q, req[q].code)
    BY <2>1, <2>2, FollowGood, QuietMove DEF FollowResult
  <2>3. CASE Stop(q, "refused")
    BY <2>1, <2>3, CoreStop
  <2> QED
    BY <1>8, <2>2, <2>3 DEF Reread
<1>9. ASSUME NEW q \in Req, Verify(q) PROVE CoreInv'
  BY <1>9, CoreGoto, CoreStop DEF Verify, CoreInv, TypeOK
<1>10. ASSUME NEW q \in Req, Cancel(q) PROVE CoreInv'
  <2>1. req[q].own \in Nat
    BY DEF CoreInv, TypeOK, ReqType
  <2> QED
    BY <1>10, <2>1, CoreStop DEF Cancel, CoreInv, TypeOK, Working
<1>11. CASE UNCHANGED vars
  BY <1>11 DEF vars, CoreInv, TypeOK, TableOK, AddressOK, ResultOK, OwnDistinct, GoodReq,
     WellFormed, FollowsRecord, OwnRow
<1> QED
  BY <1>1, <1>2, <1>3, <1>4, <1>5, <1>6, <1>7, <1>8, <1>9, <1>10, <1>11, CoreElsewhere
     DEF Next, Step

(* Every behaviour keeps the state well typed. *)
THEOREM TypeCorrect == Spec => []TypeOK
<1>1. CoreInv => TypeOK
  BY DEF CoreInv
<1> QED
  BY <1>1, CoreInit, CoreStep, PTL DEF Spec

(* Whoever gets a credential gets the one the code recorded, for any       *)
(* number of concurrent requests, cancelled or not, with or without lost   *)
(* replies, and whatever admins and other handlers do meanwhile.           *)
THEOREM AnswersAgree == Spec => []AnswerIsRecorded
<1>1. CoreInv => AnswerIsRecorded
  BY DEF CoreInv, GoodReq, FollowsRecord, AnswerIsRecorded
<1> QED
  BY <1>1, CoreInit, CoreStep, PTL DEF Spec

-----------------------------------------------------------------------------
(* What every step of the system does to recorded redemptions. *)
LEMMA RecordsKept == CoreInv /\ [Next]_vars => KeepsRedeemed
<1> SUFFICES ASSUME CoreInv, [Next]_vars PROVE KeepsRedeemed
  OBVIOUS
<1>1. CASE UNCHANGED codes
  BY <1>1 DEF KeepsRedeemed, OfferOf
<1>2. CASE Admin
  BY <1>2, TableStep DEF Admin, CoreInv, TypeOK
<1>3. ASSUME NEW q \in Req, Claim(q) \/ ClaimThrows(q), ~UNCHANGED codes
      PROVE  KeepsRedeemed
  <2> DEFINE c == req[q].code
             h == [id |-> req[q].id, name |-> req[q].name]
  <2>1. req[q].pc = "claim" /\ WellFormed(req[q])
    BY <1>3 DEF Claim, ClaimThrows, CoreInv, GoodReq
  <2>2. c \in CodeId /\ h \in Credential
    BY <2>1 DEF WellFormed, Credential, Holding, Named
  <2>3. Claimable(codes[c], req[q].value) /\ codes' = [codes EXCEPT ![c] = Redeemed(@, h)]
    BY <1>3 DEF Claim, ClaimThrows
  <2> QED
    BY <2>2, <2>3, RedeemStep, RedeemAddressAssumption DEF CoreInv, TypeOK
<1>4. UNCHANGED codes \/ Admin \/ \E q \in Req : Claim(q) \/ ClaimThrows(q)
  BY DEF Next, Step, vars, Lookup, QueryResult, InsertAddress, CreateFails, SelectId,
     CreateBreaks, Undo, UndoAndThrow, Reread, Verify, Cancel, CreateElsewhere, DeleteElsewhere
<1> QED
  BY <1>1, <1>2, <1>3, <1>4

(* A row stays accounted for while no request lets go of it. *)
LEMMA StillAccounted ==
    ASSUME IInv, KeepsRedeemed, leaked \subseteq leaked',
           NEW a \in address, a.source # None,
           \A p \in Req : req[p].pc \in Holding /\ req[p].own = a.id =>
               \/ req'[p].pc \in Holding /\ req'[p].own = a.id
               \/ Recorded(a.source, a.id)'
               \/ a.id \in leaked'
    PROVE  Recorded(a.source, a.id)' \/ Pending(a.id)' \/ a.id \in leaked'
<1>1. a.source \in CodeId
  BY DEF IInv, CoreInv, TypeOK, AddressRow
<1> QED
  BY <1>1 DEF IInv, NoStrayMailbox, Recorded, Pending, KeepsRedeemed, Holding

LEMMA StrayStep == IInv /\ [Next]_vars => NoStrayMailbox'
<1> SUFFICES ASSUME IInv, [Next]_vars PROVE NoStrayMailbox'
  OBVIOUS
<1> USE DEF Holding
<1>1. KeepsRedeemed /\ CoreInv /\ TypeOK /\ req \in [Req -> ReqType]
  BY RecordsKept DEF IInv, CoreInv, TypeOK
<1>2. ASSUME address' \subseteq address, leaked \subseteq leaked',
             \A a \in address' : a.source # None =>
                \A p \in Req : req[p].pc \in Holding /\ req[p].own = a.id =>
                    \/ req'[p].pc \in Holding /\ req'[p].own = a.id
                    \/ Recorded(a.source, a.id)'
                    \/ a.id \in leaked'
      PROVE  NoStrayMailbox'
  BY <1>1, <1>2, StillAccounted DEF NoStrayMailbox
<1>3. ASSUME NEW q \in Req, NEW c \in CodeId, Lookup(q, c) \/ QueryResult(q, c)
      PROVE  NoStrayMailbox'
  BY <1>1, <1>2, <1>3 DEF Lookup, QueryResult, FollowResult
<1>4. ASSUME NEW q \in Req, NEW l \in Local, InsertAddress(q, l)
      PROVE  NoStrayMailbox'
  <2>1. ASSUME NEW a \in address', a.source # None, a \in address
        PROVE  Recorded(a.source, a.id)' \/ Pending(a.id)' \/ a.id \in leaked'
    BY <1>1, <1>4, <2>1, StillAccounted DEF InsertAddress
  <2>2. ASSUME NEW a \in address', a \notin address
        PROVE  Pending(a.id)'
    BY <1>1, <1>4, <2>2 DEF InsertAddress, Pending
  <2> QED
    BY <2>1, <2>2 DEF NoStrayMailbox
<1>5. ASSUME NEW q \in Req, CreateFails(q) PROVE NoStrayMailbox'
  BY <1>1, <1>2, <1>5 DEF CreateFails, Goto
<1>6. ASSUME NEW q \in Req, CreateBreaks(q) PROVE NoStrayMailbox'
  BY <1>1, <1>2, <1>6 DEF CreateBreaks, Goto
<1>7. ASSUME NEW q \in Req, SelectId(q) PROVE NoStrayMailbox'
  <2>1. /\ OwnRow(req[q])
        /\ req[q].pc = "select"
        /\ UNCHANGED <<address, leaked>>
        /\ \A p \in Req \ {q} : req'[p] = req[p]
    BY <1>1, <1>7 DEF CoreInv, GoodReq, SelectId, Goto
  <2>2. CASE ~Taken(req[q].name)
    <3>1. \A a \in address : a.id # req[q].own
      BY <2>1, <2>2 DEF OwnRow, Taken
    <3> QED
      BY <1>2, <2>1, <3>1
  <2>3. CASE \E i : req' = [req EXCEPT ![q] = [@ EXCEPT !.pc = "claim", !.id = i]]
    <3>1. PICK i : req' = [req EXCEPT ![q] = [@ EXCEPT !.pc = "claim", !.id = i]]
      BY <2>3
    <3>2. req[q] \in ReqType
      BY <1>1
    <3>3. req'[q].pc = "claim" /\ req'[q].own = req[q].own
      BY <1>1, <3>1, <3>2 DEF ReqType
    <3> QED
      BY <1>2, <2>1, <3>3
  <2> QED
    BY <1>7, <2>2, <2>3 DEF SelectId
<1>8. ASSUME NEW q \in Req, Claim(q) \/ ClaimThrows(q) PROVE NoStrayMailbox'
  <2>1. OwnRow(req[q]) /\ WellFormed(req[q]) /\ req[q].pc = "claim"
    BY <1>1, <1>8 DEF CoreInv, GoodReq, Claim, ClaimThrows
  <2>2. UNCHANGED <<address, leaked>>
    BY <1>8 DEF Claim, ClaimThrows
  <2>3. CASE \E pc \in {"undo", "undoThrow"} : Goto(q, pc)
    BY <1>1, <1>2, <2>2, <2>3 DEF Goto
  <2>4. CASE Claimable(codes[req[q].code], req[q].value) /\ Goto(q, "ok") /\ Claim(q)
    <3>1. ASSUME NEW a \in address, a.id = req[q].own
          PROVE  Recorded(a.source, a.id)'
      <4>1. a.source = req[q].code /\ req[q].id = a.id /\ req[q].code \in CodeId
        BY <2>1, <3>1 DEF OwnRow, Named, WellFormed
      <4>2. codes[req[q].code] \in RowType(Credential)
        BY <1>1, <4>1 DEF TypeOK
      <4>3. codes' = [codes EXCEPT ![req[q].code] =
                        Redeemed(@, [id |-> req[q].id, name |-> req[q].name])]
        BY <2>4 DEF Claim
      <4> QED
        BY <1>1, <4>1, <4>2, <4>3 DEF Recorded, Redeemed, RowType, TypeOK
    <3>2. \A p \in Req \ {q} : req'[p] = req[p]
      BY <1>1, <2>4 DEF Goto
    <3> QED
      BY <1>2, <2>2, <3>1, <3>2
  <2> QED
    BY <1>8, <2>3, <2>4 DEF Claim, ClaimThrows
<1>9. ASSUME NEW q \in Req, Undo(q) \/ UndoAndThrow(q) PROVE NoStrayMailbox'
  <2>1. /\ OwnRow(req[q])
        /\ req[q].pc \in {"undo", "undoThrow"}
        /\ address' = Without(req[q].id, req[q].name)
        /\ UNCHANGED leaked
        /\ \A p \in Req \ {q} : req'[p] = req[p]
    BY <1>1, <1>9 DEF CoreInv, GoodReq, Undo, UndoAndThrow, Goto, Stop
  <2>2. \A a \in address' : a.id # req[q].own
    BY <2>1 DEF Without, OwnRow, Named
  <2> QED
    BY <1>2, <2>1, <2>2 DEF Without
<1>10. ASSUME NEW q \in Req, Reread(q) \/ Verify(q) PROVE NoStrayMailbox'
  BY <1>1, <1>2, <1>10 DEF Reread, Verify, Goto, Stop, FollowResult
<1>11. ASSUME NEW q \in Req, Cancel(q) PROVE NoStrayMailbox'
  <2>1. WellFormed(req[q])
    BY <1>1 DEF CoreInv, GoodReq
  <2> QED
    BY <1>1, <1>2, <1>11, <2>1 DEF Cancel, Stop, WellFormed
<1>12. ASSUME NEW n \in Name, CreateElsewhere(n) PROVE NoStrayMailbox'
  <2>1. ASSUME NEW a \in address', a.source # None
        PROVE  Recorded(a.source, a.id)' \/ Pending(a.id)' \/ a.id \in leaked'
    <3>1. a \in address
      BY <1>12, <2>1 DEF CreateElsewhere
    <3> QED
      BY <1>1, <1>12, <2>1, <3>1, StillAccounted DEF CreateElsewhere
  <2> QED
    BY <2>1 DEF NoStrayMailbox
<1>13. ASSUME NEW a \in address, DeleteElsewhere(a) PROVE NoStrayMailbox'
  BY <1>2, <1>13 DEF DeleteElsewhere
<1>14. CASE Admin \/ UNCHANGED vars
  BY <1>2, <1>14 DEF Admin, vars
<1> QED
  BY <1>3, <1>4, <1>5, <1>6, <1>7, <1>8, <1>9, <1>10, <1>11, <1>12, <1>13, <1>14
     DEF Next, Step

(* A mailbox created by a redemption is its code's result, is still being  *)
(* handled, or was left by a request that was cut short.                   *)
THEOREM NoStrays == Spec => []NoStrayMailbox
<1>1. Init => IInv
  BY CoreInit DEF IInv, NoStrayMailbox, Init
<1>2. IInv /\ [Next]_vars => IInv'
  BY CoreStep, StrayStep DEF IInv
<1>3. IInv => NoStrayMailbox
  BY DEF IInv
<1> QED
  BY <1>1, <1>2, <1>3, PTL DEF Spec

-----------------------------------------------------------------------------
(* The requests other than q, and rows other than the one q inserted, keep *)
(* their place.                                                            *)
LEMMA KeepOthers ==
    ASSUME KeepInv, UNCHANGED <<codes, swept, lost>>, address \subseteq address',
           \A p \in Req : req'[p].pc \in Holding =>
               /\ req[p].pc \in Holding
               /\ req'[p].own = req[p].own
               /\ req'[p].name = req[p].name
               /\ req'[p].pc \in Named =>
                     \/ req'[p].id = req[p].own
                     \/ req[p].pc \in Named /\ req'[p].id = req[p].id
                     \/ req[p].name \in swept
    PROVE  OwnKept' /\ RecordKept'
<1>1. \A i, n : Exists(i, n) => Exists(i, n)'
  BY DEF Exists
<1>2. OwnKept'
  BY <1>1 DEF KeepInv, OwnKept
<1>3. RecordKept'
  BY <1>1 DEF KeepInv, RecordKept
<1> QED
  BY <1>2, <1>3

LEMMA KeepSelect ==
    ASSUME KeepInv, NEW q \in Req, SelectId(q)
    PROVE  OwnKept' /\ RecordKept'
<1>1. /\ TypeOK /\ AddressOK
      /\ UNCHANGED <<codes, address, swept, lost>>
      /\ req[q].pc = "select" /\ req[q] \in ReqType
      /\ \A p \in Req \ {q} : req'[p] = req[p]
  BY DEF KeepInv, CoreInv, TypeOK, SelectId, Goto
<1>2. CASE \E i : /\ \E a \in address : a.name = req[q].name /\ a.id = i
                  /\ req' = [req EXCEPT ![q] = [@ EXCEPT !.pc = "claim", !.id = i]]
  <2>1. PICK a \in address : /\ a.name = req[q].name
                             /\ req' = [req EXCEPT ![q] = [@ EXCEPT !.pc = "claim", !.id = a.id]]
    BY <1>2
  <2> DEFINE i == a.id
  <2>2. req' = [req EXCEPT ![q] = [@ EXCEPT !.pc = "claim", !.id = i]]
    BY <2>1
  <2>3. req[q].name \notin swept => i = req[q].own
    BY <1>1, <2>1 DEF KeepInv, OwnKept, Exists, AddressOK, Holding
  <2> HIDE DEF i
  <2>4. /\ req'[q].pc = "claim" /\ req'[q].id = i
        /\ req'[q].own = req[q].own /\ req'[q].name = req[q].name
    BY <1>1, <2>2 DEF ReqType, TypeOK
  <2> QED
    BY <1>1, <2>3, <2>4, KeepOthers DEF Holding, Named
<1>3. CASE Goto(q, "reread")
  BY <1>1, <1>3, KeepOthers DEF Goto, TypeOK, Holding, Named
<1> QED
  BY <1>2, <1>3 DEF SelectId

LEMMA KeepInsert ==
    ASSUME KeepInv, NEW q \in Req, NEW l \in Local, InsertAddress(q, l)
    PROVE  OwnKept' /\ RecordKept'
<1>1. UNCHANGED <<codes, swept, lost>>
  BY DEF InsertAddress
<1>2. PICK i, n, s :
        /\ i = nextId
        /\ address' = address \cup {[id |-> i, name |-> n, source |-> s]}
        /\ req' = [req EXCEPT ![q] = [@ EXCEPT !.pc = "select", !.name = n, !.own = i]]
  BY DEF InsertAddress
<1>3. /\ req'[q].pc = "select" /\ req'[q].name = n /\ req'[q].own = i
      /\ \A p \in Req \ {q} : req'[p] = req[p]
  <2>1. req[q] \in ReqType /\ req \in [Req -> ReqType]
    BY DEF KeepInv, CoreInv, TypeOK
  <2> QED
    BY <1>2, <2>1 DEF ReqType
<1>4. Exists(i, n)' /\ \A k, m : Exists(k, m) => Exists(k, m)'
  <2>1. [id |-> i, name |-> n, source |-> s] \in address'
    BY <1>2
  <2> QED
    BY <1>2, <2>1 DEF Exists
<1>5. \A c \in CodeId : codes[c].redeemed => codes[c].result.id # i
  <2>1. \A c \in CodeId : codes[c].redeemed => codes[c].result.id < nextId
    BY DEF KeepInv, CoreInv, ResultOK
  <2>2. \A c \in CodeId : codes[c].redeemed => codes[c].result.id \in Nat
    <3>1. \A c \in CodeId : codes[c].redeemed => codes[c].result \in Credential
      BY DEF KeepInv, CoreInv, TypeOK, TableOK, RowType
    <3> QED
      BY <3>1, RedeemAddressAssumption DEF Credential
  <2>3. nextId \in Nat
    BY DEF KeepInv, CoreInv, TypeOK
  <2> QED
    BY <1>2, <2>1, <2>2, <2>3
<1>6. OwnKept'
  BY <1>1, <1>3, <1>4 DEF KeepInv, OwnKept, Named
<1>7. RecordKept'
  BY <1>1, <1>3, <1>4, <1>5 DEF KeepInv, RecordKept
<1> QED
  BY <1>6, <1>7

(* The claim is recorded; the caller learns it, or it is noted as lost. *)
LEMMA KeepRecord ==
    ASSUME KeepInv, NEW q \in Req, req[q].pc = "claim",
           codes' = [codes EXCEPT ![req[q].code] =
                       Redeemed(@, [id |-> req[q].id, name |-> req[q].name])],
           UNCHANGED <<address, swept>>,
           \/ Goto(q, "ok") /\ UNCHANGED lost
           \/ Goto(q, "undoThrow") /\ lost' = lost \cup {req[q].code}
    PROVE  OwnKept' /\ RecordKept'
<1> DEFINE c == req[q].code
           h == [id |-> req[q].id, name |-> req[q].name]
<1>1. /\ c \in CodeId /\ req[q].own # 0
      /\ codes \in [CodeId -> RowType(Credential)] /\ req \in [Req -> ReqType]
      /\ OwnDistinct
  BY DEF KeepInv, CoreInv, GoodReq, WellFormed, TypeOK, Holding
<1>2. /\ codes'[c].result = h
      /\ \A d \in CodeId \ {c} : codes'[d] = codes[d]
  BY <1>1 DEF Redeemed, RowType
<1>3. /\ \/ req'[q].pc = "ok" /\ UNCHANGED lost
         \/ req'[q].pc = "undoThrow" /\ lost' = lost \cup {c}
      /\ req'[q].own = req[q].own /\ req'[q].id = req[q].id /\ req'[q].name = req[q].name
      /\ \A p \in Req \ {q} : req'[p] = req[p]
  BY <1>1 DEF Goto, ReqType
<1>4. \A i, n : Exists(i, n)' = Exists(i, n)
  BY DEF Exists
<1>5. OwnKept'
  BY <1>3, <1>4 DEF KeepInv, OwnKept, Holding, Named
<1>6. h.name \notin swept =>
          /\ Exists(h.id, h.name)
          /\ req[q].own = h.id
          /\ \A p \in Req \ {q} : req[p].pc \in Holding => req[p].own # h.id
  BY <1>1 DEF KeepInv, OwnKept, OwnDistinct, Holding, Named
<1>7. RecordKept'
  <2> HIDE DEF c, h
  <2>1. ASSUME NEW d \in CodeId, (codes[d].redeemed /\ codes[d].result.name \notin swept
                                    /\ d \notin lost)', d = c
        PROVE  /\ Exists(codes[d].result.id, codes[d].result.name)'
               /\ \A p \in Req : req'[p].pc \in Holding => req'[p].own # codes'[d].result.id
    BY <1>2, <1>3, <1>4, <1>6, <2>1 DEF Holding
  <2>2. ASSUME NEW d \in CodeId, (codes[d].redeemed /\ codes[d].result.name \notin swept
                                    /\ d \notin lost)', d # c
        PROVE  /\ Exists(codes[d].result.id, codes[d].result.name)'
               /\ \A p \in Req : req'[p].pc \in Holding => req'[p].own # codes'[d].result.id
    BY <1>2, <1>3, <1>4, <2>2 DEF Holding, KeepInv, RecordKept
  <2> QED
    BY <2>1, <2>2 DEF RecordKept
<1> QED
  BY <1>5, <1>7

LEMMA KeepUndo ==
    ASSUME KeepInv, NEW q \in Req, Undo(q) \/ UndoAndThrow(q)
    PROVE  OwnKept' /\ RecordKept'
<1>1. /\ UNCHANGED <<codes, swept, lost>>
      /\ req[q].pc \in {"undo", "undoThrow"}
      /\ address' = Without(req[q].id, req[q].name)
  BY DEF Undo, UndoAndThrow
<1>2. /\ req \in [Req -> ReqType] /\ OwnDistinct /\ req[q].own # 0
  BY <1>1 DEF KeepInv, CoreInv, GoodReq, WellFormed, TypeOK, Holding
<1>3. /\ req'[q].pc \notin Holding
      /\ \A p \in Req \ {q} : req'[p] = req[p]
  BY <1>2 DEF Undo, UndoAndThrow, Goto, Stop, Holding, ReqType, Idle
<1>4. ASSUME NEW i, NEW n, n \notin swept, Exists(i, n), i # req[q].own
      PROVE  Exists(i, n)'
  <2>1. n = req[q].name => i # req[q].id
    BY <1>1, <1>4 DEF KeepInv, OwnKept, Holding, Named
  <2> QED
    BY <1>1, <1>4, <2>1 DEF Exists, Without
<1>5. OwnKept'
  BY <1>1, <1>2, <1>3, <1>4 DEF KeepInv, OwnKept, OwnDistinct
<1>6. RecordKept'
  BY <1>1, <1>3, <1>4 DEF KeepInv, RecordKept, Holding
<1> QED
  BY <1>5, <1>6

LEMMA KeepStep == KeepInv /\ [Next]_vars => OwnKept' /\ RecordKept'
<1> SUFFICES ASSUME KeepInv, [Next]_vars PROVE OwnKept' /\ RecordKept'
  OBVIOUS
<1>0. CoreInv /\ TypeOK /\ req \in [Req -> ReqType]
  BY DEF KeepInv, CoreInv, TypeOK
<1>1. ASSUME NEW q \in Req, NEW c \in CodeId, Lookup(q, c) \/ QueryResult(q, c)
      PROVE  OwnKept' /\ RecordKept'
  <2>1. UNCHANGED <<codes, address, swept, lost>>
    BY <1>1 DEF Lookup, QueryResult
  <2>2. req'[q].pc \notin Holding /\ \A p \in Req \ {q} : req'[p] = req[p]
    <3>1. CASE FollowResult(q, c)
      BY <1>0, <3>1 DEF FollowResult, Idle, Holding
    <3>2. CASE req' = [req EXCEPT ![q] = [@ EXCEPT !.pc = "create", !.code = c,
                                                   !.value = codes[c].value]]
      BY <1>0, <3>2 DEF Holding, ReqType
    <3>3. CASE req' = [req EXCEPT ![q] = [@ EXCEPT !.pc = "refused", !.code = c]]
      BY <1>0, <3>3 DEF Holding, ReqType
    <3> QED
      BY <1>1, <3>1, <3>2, <3>3 DEF Lookup, QueryResult
  <2> QED
    BY <2>1, <2>2, KeepOthers
<1>2. ASSUME NEW q \in Req, NEW pc,
             UNCHANGED <<codes, address, swept, lost>>, Goto(q, pc),
             pc \in Holding => req[q].pc = "claim"
      PROVE  OwnKept' /\ RecordKept'
  BY <1>0, <1>2, KeepOthers DEF Goto, Holding, Named, ReqType
<1>3. ASSUME NEW q \in Req, NEW pc \in {"refused", "failed", "gone"},
             UNCHANGED <<codes, address, swept, lost>>, Stop(q, pc)
      PROVE  OwnKept' /\ RecordKept'
  BY <1>0, <1>3, KeepOthers DEF Stop, Holding, Named, ReqType, Idle
<1>4. ASSUME NEW q \in Req, CreateFails(q) \/ CreateBreaks(q) PROVE OwnKept' /\ RecordKept'
  BY <1>2, <1>4 DEF CreateFails, CreateBreaks, Holding
<1>5. ASSUME NEW q \in Req, Claim(q) \/ ClaimThrows(q) PROVE OwnKept' /\ RecordKept'
  BY <1>2, <1>5, KeepRecord DEF Claim, ClaimThrows
<1>6. ASSUME NEW q \in Req, Reread(q) \/ Verify(q) PROVE OwnKept' /\ RecordKept'
  <2>1. UNCHANGED <<codes, address, swept, lost>>
    BY <1>6 DEF Reread, Verify
  <2>2. CASE \E c : FollowResult(q, c)
    BY <1>0, <2>1, <2>2, KeepOthers DEF FollowResult, Idle, Holding, Named, ReqType
  <2>3. CASE Stop(q, "refused")
    BY <1>3, <2>1, <2>3
  <2>4. CASE Goto(q, "ok")
    BY <1>2, <2>1, <2>4 DEF Holding
  <2> QED
    BY <1>6, <2>2, <2>3, <2>4 DEF Reread, Verify
<1>7. ASSUME NEW q \in Req, Cancel(q) PROVE OwnKept' /\ RecordKept'
  BY <1>3, <1>7 DEF Cancel
<1>8. ASSUME NEW n \in Name, CreateElsewhere(n) PROVE OwnKept' /\ RecordKept'
  BY <1>8, KeepOthers DEF CreateElsewhere
<1>9. ASSUME NEW a \in address, DeleteElsewhere(a) PROVE OwnKept' /\ RecordKept'
  <2>1. UNCHANGED <<codes, req, lost>> /\ address' = address \ {a} /\ swept' = swept \cup {a.name}
    BY <1>9 DEF DeleteElsewhere
  <2>2. \A i, n : n \notin swept' /\ Exists(i, n) => Exists(i, n)'
    BY <2>1 DEF Exists
  <2> QED
    BY <2>1, <2>2 DEF KeepInv, OwnKept, RecordKept
<1>10. CASE Admin
  <2>1. UNCHANGED <<address, req, swept, lost>> /\ KeepsRedeemed /\ RedeemsNothing
    BY <1>0, <1>10, TableStep DEF Admin, TypeOK, CoreInv
  <2>2. \A i, n : Exists(i, n)' = Exists(i, n)
    BY <2>1 DEF Exists
  <2>3. OwnKept'
    BY <2>1, <2>2 DEF KeepInv, OwnKept
  <2>4. RecordKept'
    BY <2>1, <2>2 DEF KeepInv, RecordKept, KeepsRedeemed, RedeemsNothing
  <2> QED
    BY <2>3, <2>4
<1>11. CASE UNCHANGED vars
  BY <1>11, KeepOthers DEF vars
<1> QED
  BY <1>1, <1>4, <1>5, <1>6, <1>7, <1>8, <1>9, <1>10, <1>11,
     KeepInsert, KeepSelect, KeepUndo DEF Next, Step

(* The mailbox a redeemed code recorded is there until a handler outside   *)
(* the flow deletes it, unless the reply to its claim was lost: the        *)
(* compensations of losing requests never hit it.                          *)
THEOREM ResultsStay == Spec => []ResultRetrievable
<1>1. Init => KeepInv
  <2> SUFFICES ASSUME Init PROVE KeepInv
    OBVIOUS
  <2>1. \A c \in CodeId : ~codes[c].redeemed
    BY TableInitOK DEF Init
  <2> QED
    BY <2>1, CoreInit DEF KeepInv, OwnKept, RecordKept, Init, Idle, Holding
<1>2. KeepInv /\ [Next]_vars => KeepInv'
  BY CoreStep, KeepStep DEF KeepInv
<1>3. KeepInv => ResultRetrievable
  BY DEF KeepInv, RecordKept, ResultRetrievable, StillThere
<1> QED
  BY <1>1, <1>2, <1>3, PTL DEF Spec

-----------------------------------------------------------------------------
(* A step of the flow is, on the abstract level, a step of OneTimeGrant or *)
(* no step at all.                                                         *)
LEMMA GrantsStayPut ==
    ASSUME CoreInv, UNCHANGED codes
    PROVE  UNCHANGED <<[c \in CodeId |-> OfferOf(c)], [c \in CodeId |-> GrantOf(c)]>>
  BY DEF OfferOf, GrantOf

(* Management of the codes table is management of offers. *)
LEMMA AdminRefines ==
    ASSUME CoreInv, CoreInv', TableNext
    PROVE  Once!Manage
<1>1. KeepsRedeemed /\ RedeemsNothing
  BY TableStep DEF CoreInv, TypeOK
<1>2. \A c \in CodeId : OfferOf(c)' \in Value \cup {None}
  BY DEF CoreInv, TypeOK, RowType, OfferOf
<1>3. \A c \in CodeId : GrantOf(c)' = GrantOf(c)
  BY <1>1 DEF KeepsRedeemed, RedeemsNothing, GrantOf
<1>4. \A c \in CodeId : GrantOf(c) # None => OfferOf(c)' \in {OfferOf(c), None}
  BY <1>1 DEF KeepsRedeemed, GrantOf
<1> QED
  BY <1>2, <1>3, <1>4 DEF Once!Manage

(* A claim that is recorded is the grant. *)
LEMMA ClaimRefines ==
    ASSUME CoreInv, NEW q \in Req, Claim(q) \/ ClaimThrows(q), ~UNCHANGED codes
    PROVE  \E c \in CodeId, h \in Credential : Once!Grant(c, h)
<1>1. PICK c, v, h :
        /\ c = req[q].code /\ v = req[q].value
        /\ h = [id |-> req[q].id, name |-> req[q].name]
        /\ Claimable(codes[c], v)
        /\ codes' = [codes EXCEPT ![c] = Redeemed(@, h)]
        /\ req[q].pc = "claim"
  BY DEF Claim, ClaimThrows
<1>2. c \in CodeId /\ h \in Credential /\ h.name.prefix = v
  BY <1>1 DEF CoreInv, GoodReq, WellFormed, Holding, Named, Credential
<1>3. /\ codes'[c].redeemed /\ codes'[c].result = h
      /\ ~codes[c].redeemed
      /\ \A d \in CodeId \ {c} : codes'[d] = codes[d]
      /\ \A d \in CodeId : OfferOf(d)' = OfferOf(d)
      /\ OfferOf(c) = v
  <2>1. codes \in [CodeId -> RowType(Credential)] /\ TableOK /\ None \notin Credential
    BY RedeemAddressAssumption DEF CoreInv, TypeOK
  <2>2. Claimable(codes[c], v) /\ codes' = [codes EXCEPT ![c] = Redeemed(@, h)]
    BY <1>1
  <2> QED
    BY <1>2, <2>1, <2>2, RedeemStep
<1>4. v # None
  <2>1. codes[c].value = v /\ codes[c] \in RowType(Credential)
    BY <1>1, <1>2 DEF Claimable, CoreInv, TypeOK
  <2> QED
    BY <2>1, ValueAssumption DEF RowType
<1>5. GrantOf(c) = None /\ GrantOf(c)' = [value |-> v, to |-> h]
  <2>1. GrantOf(c)' = [value |-> h.name.prefix, to |-> h]
    BY <1>3 DEF GrantOf
  <2> QED
    BY <1>2, <1>3, <2>1 DEF GrantOf
<1>6. \A d \in CodeId \ {c} : GrantOf(d)' = GrantOf(d)
  BY <1>3 DEF GrantOf
<1>7. Once!Grant(c, h)
  BY <1>2, <1>3, <1>4, <1>5, <1>6 DEF Once!Grant
<1> QED
  BY <1>2, <1>7

(* The redemption flow implements the promise of a one-time code: see      *)
(* OneTimeGrant.  Its steps are the admin's management of offers, the      *)
(* grant by a recorded claim, and nothing else.                            *)
THEOREM Refines == Spec => ImplementsOneTimeGrant
<1>1. Init => Once!Init
  BY TableInitOK DEF Init, Once!Init, GrantOf
<1>2. CoreInv /\ CoreInv' /\ [Next]_vars =>
        [Once!Next]_<<[c \in CodeId |-> OfferOf(c)], [c \in CodeId |-> GrantOf(c)]>>
  <2> SUFFICES ASSUME CoreInv, CoreInv', [Next]_vars
               PROVE  [Once!Next]_<<[c \in CodeId |-> OfferOf(c)],
                                    [c \in CodeId |-> GrantOf(c)]>>
    OBVIOUS
  <2>1. CASE UNCHANGED codes
    BY <2>1, GrantsStayPut
  <2>2. CASE Admin
    BY <2>2, AdminRefines DEF Admin, Once!Next
  <2>3. CASE ~UNCHANGED codes /\ \E q \in Req : Claim(q) \/ ClaimThrows(q)
    BY <2>3, ClaimRefines DEF Once!Next
  <2>4. UNCHANGED codes \/ Admin \/ \E q \in Req : Claim(q) \/ ClaimThrows(q)
    BY DEF Next, Step, vars, Lookup, QueryResult, InsertAddress, CreateFails, SelectId,
       CreateBreaks, Undo, UndoAndThrow, Reread, Verify, Cancel, CreateElsewhere, DeleteElsewhere
  <2> QED
    BY <2>1, <2>2, <2>3, <2>4
<1> QED
  BY <1>1, <1>2, CoreInit, CoreStep, PTL DEF Spec, Once!Spec, ImplementsOneTimeGrant
=============================================================================
