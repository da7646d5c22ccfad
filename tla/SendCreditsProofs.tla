-------------------------- MODULE SendCreditsProofs --------------------------
(***************************************************************************)
(* SendCredits for any number of requests, mails, codes and mailboxes: the *)
(* redemption of a balance code implements OneTimeGrant and never enables  *)
(* a mailbox, and balances add up exactly.  SendMail, alone and composed:  *)
(* the cleanup never removes the counter that is on, every mail is counted *)
(* or known not to be, and limits and balances are exceeded by no more     *)
(* than the runs that can be past their check.                             *)
(***************************************************************************)
EXTENDS SendCredits, RedeemCodeTableProofs, FiniteSetTheorems, WellFoundedInduction

(* A run that is under way has a mailbox. *)
JobOK(r) == r.pc # "idle" => r.address \in Addr

(* A key is never of a period to come, and what no mail has a reason to    *)
(* clean up is still there.                                                *)
CountOK ==
    /\ clock["monthly"] <= clock["daily"]
    /\ \A p \in Period :
          /\ \A j \in Job : job[j].key[p] <= clock[p]
          /\ \A t \in Time : clock[p] <= t => count[p][t] = counted[p][t]

SendInv == SenderTypeOK /\ SendTypeOK /\ (\A j \in Job : JobOK(job[j])) /\ CountOK

(* What a redemption holds at its position. *)
ReqOK(r) ==
    r.pc \in {"check", "ensure", "redeem"} =>
        r.code \in CodeId /\ r.value \in Value /\ r.address \in Addr

RedeemInv == RedeemTypeOK /\ TableOK /\ \A q \in Req : ReqOK(req[q])

IInv == SendInv /\ RedeemInv

-----------------------------------------------------------------------------
(* Sums: induction on the number of summands *)
(* A set of naturals with 0 and every successor is all of them.            *)
LEMMA Induction ==
    ASSUME NEW S, S \subseteq Nat, 0 \in S, \A n \in S : n + 1 \in S
    PROVE  S = Nat
<1> DEFINE R == OpToRel(<, Nat)
           T == Nat \ S
<1> SUFFICES ASSUME T # {} PROVE FALSE
  OBVIOUS
<1>1. IsWellFoundedOn(R, Nat)
  BY NatLessThanWellFounded
<1>2. \A x, y \in Nat : y < x => <<y, x>> \in R
  BY DEF OpToRel
<1> HIDE DEF R
<1>3. PICK n \in T : \A m \in T : <<m, n>> \notin R
  <2>1. T \subseteq Nat
    OBVIOUS
  <2> QED
    BY <1>1, <2>1, WFMin
<1>4. n # 0 /\ n \in Nat /\ n - 1 \in Nat /\ n - 1 < n
  OBVIOUS
<1>5. n - 1 \in S
  BY <1>2, <1>3, <1>4
<1> QED
  BY <1>4, <1>5

(* What the sums of FiniteSetsExt add next *)
Chosen(s) == CHOOSE x \in s : TRUE

(* The sum of f over S, and the recursion that FiniteSetsExt defines it by *)
SumOf(f, S) == MapThenSumSet(LAMBDA t : f[t], S)

IsSum(g, f, S) ==
    g = [s \in SUBSET S |-> IF s = {} THEN 0 ELSE f[Chosen(s)] + g[s \ {Chosen(s)}]]

LEMMA Without ==
    ASSUME NEW s, IsFiniteSet(s), s # {}
    PROVE  /\ Chosen(s) \in s
           /\ IsFiniteSet(s \ {Chosen(s)})
           /\ Cardinality(s) \in Nat
           /\ Cardinality(s \ {Chosen(s)}) = Cardinality(s) - 1
           /\ Cardinality(s) > 0
<1>1. Chosen(s) \in s
  BY DEF Chosen
<1> QED
  BY <1>1, FS_RemoveElement, FS_CardinalityType, FS_EmptySet

LEMMA SumDef ==
    ASSUME NEW f, NEW S
    PROVE  SumOf(f, S) = (CHOOSE g : IsSum(g, f, S))[S]
  BY DEF SumOf, MapThenSumSet, MapThenFoldSet, IsSum, Chosen

LEMMA SumExists ==
    ASSUME NEW f, NEW S, IsFiniteSet(S)
    PROVE  \E g : IsSum(g, f, S)
<1> DEFINE Body(g, s) == IF s = {} THEN 0 ELSE f[Chosen(s)] + g[s \ {Chosen(s)}]
           Fits(g, n) == \A s \in SUBSET S : Cardinality(s) <= n => g[s] = Body(g, s)
           N == {n \in Nat : \E g : Fits(g, n)}
<1>1. \A s \in SUBSET S : IsFiniteSet(s) /\ Cardinality(s) \in Nat
  BY FS_Subset, FS_CardinalityType
<1>2. 0 \in N
  <2>1. \A s \in SUBSET S : Cardinality(s) <= 0 => s = {}
    BY <1>1, FS_EmptySet
  <2>2. Fits([s \in SUBSET S |-> 0], 0)
    BY <2>1
  <2> QED
    BY <2>2
<1>3. ASSUME NEW n \in N PROVE n + 1 \in N
  <2>1. PICK g : Fits(g, n)
    OBVIOUS
  <2> DEFINE h == [s \in SUBSET S |-> IF Cardinality(s) <= n THEN g[s] ELSE Body(g, s)]
  <2>2. ASSUME NEW s \in SUBSET S, Cardinality(s) <= n + 1
        PROVE  h[s] = Body(h, s)
    <3>1. CASE s = {}
      <4>1. Cardinality(s) = 0
        BY <3>1, FS_EmptySet
      <4> QED
        BY <3>1, <4>1, <2>1
    <3>2. CASE s # {}
      <4>1. /\ s \ {Chosen(s)} \in SUBSET S
            /\ Cardinality(s \ {Chosen(s)}) = Cardinality(s) - 1
            /\ Cardinality(s) \in Nat
        BY <1>1, <3>2, Without
      <4>2. Cardinality(s \ {Chosen(s)}) <= n
        BY <4>1, <2>2
      <4>3. h[s \ {Chosen(s)}] = g[s \ {Chosen(s)}]
        BY <4>1, <4>2
      <4> QED
        BY <3>2, <4>3, <2>1
    <3> QED
      BY <3>1, <3>2
  <2> HIDE DEF h
  <2>3. Fits(h, n + 1)
    BY <2>2
  <2>4. n + 1 \in Nat
    OBVIOUS
  <2> HIDE DEF Fits
  <2> QED
    BY <2>3, <2>4
<1>4. Cardinality(S) \in N
  <2> HIDE DEF N
  <2>1. N = Nat
    <3>1. N \subseteq Nat
      BY DEF N
    <3> QED
      BY <1>2, <1>3, <3>1, Induction
  <2> QED
    BY <2>1, FS_CardinalityType
<1>5. PICK g : Fits(g, Cardinality(S))
  BY <1>4
<1>6. \A s \in SUBSET S : g[s] = Body(g, s)
  BY <1>5, <1>1, FS_Subset, FS_CardinalityType
<1> DEFINE h == [s \in SUBSET S |-> g[s]]
<1>7. ASSUME NEW s \in SUBSET S PROVE h[s] = Body(h, s)
  BY <1>6, s \ {Chosen(s)} \in SUBSET S
<1>8. h = [s \in SUBSET S |-> Body(h, s)]
  BY <1>7
<1> QED
  BY <1>8 DEF IsSum

(* Two solutions of the recursion agree wherever the functions do.         *)
LEMMA SumUnique ==
    ASSUME NEW f, NEW e, NEW g, NEW h, NEW S, NEW T,
           IsSum(g, f, S), IsSum(h, e, T),
           NEW D \in SUBSET (S \cap T), IsFiniteSet(D), \A x \in D : f[x] = e[x]
    PROVE  g[D] = h[D]
<1> DEFINE N == {n \in Nat : \A s \in SUBSET D : Cardinality(s) = n => g[s] = h[s]}
<1>1. \A s \in SUBSET D : IsFiniteSet(s) /\ Cardinality(s) \in Nat
  BY FS_Subset, FS_CardinalityType
<1>2. ASSUME NEW s \in SUBSET D
      PROVE  /\ g[s] = IF s = {} THEN 0 ELSE f[Chosen(s)] + g[s \ {Chosen(s)}]
             /\ h[s] = IF s = {} THEN 0 ELSE e[Chosen(s)] + h[s \ {Chosen(s)}]
  <2>1. s \in SUBSET S /\ s \in SUBSET T
    OBVIOUS
  <2> QED
    BY <2>1 DEF IsSum
<1>3. 0 \in N
  BY <1>1, <1>2, FS_EmptySet
<1>4. ASSUME NEW n \in N PROVE n + 1 \in N
  <2>1. ASSUME NEW s \in SUBSET D, Cardinality(s) = n + 1 PROVE g[s] = h[s]
    <3> n \in Nat
      OBVIOUS
    <3>1. s # {}
      BY <1>1, <2>1, FS_EmptySet
    <3>2. /\ Chosen(s) \in s
          /\ Cardinality(s \ {Chosen(s)}) = n
          /\ s \ {Chosen(s)} \in SUBSET D
      BY <1>1, <2>1, <3>1, Without
    <3> QED
      BY <1>2, <3>1, <3>2
  <2> QED
    BY <2>1
<1>5. Cardinality(D) \in N
  <2> HIDE DEF N
  <2>1. N \subseteq Nat
    BY DEF N
  <2> QED
    BY <1>3, <1>4, <2>1, Induction, FS_CardinalityType
<1> QED
  BY <1>5

LEMMA SumStep ==
    ASSUME NEW f, NEW S, IsFiniteSet(S)
    PROVE  SumOf(f, S) = IF S = {} THEN 0 ELSE f[Chosen(S)] + SumOf(f, S \ {Chosen(S)})
<1> DEFINE g == CHOOSE g : IsSum(g, f, S)
           D == S \ {Chosen(S)}
           h == CHOOSE h : IsSum(h, f, D)
<1>1. IsFiniteSet(D) /\ D \in SUBSET S
  BY FS_Subset
<1>2. IsSum(g, f, S)
  BY SumExists
<1>3. IsSum(h, f, D)
  <2> HIDE DEF D
  <2> QED
    BY <1>1, SumExists
<1>4. SumOf(f, S) = g[S] /\ SumOf(f, D) = h[D]
  BY SumDef
<1> HIDE DEF g, h
<1>5. g[S] = IF S = {} THEN 0 ELSE f[Chosen(S)] + g[D]
  BY <1>2 DEF IsSum
<1>6. g[D] = h[D]
  BY <1>1, <1>2, <1>3, SumUnique
<1> QED
  BY <1>4, <1>5, <1>6

(* A sum depends on what it adds and on nothing else.                      *)
LEMMA SumAgrees ==
    ASSUME NEW f, NEW e, NEW S, IsFiniteSet(S), \A x \in S : f[x] = e[x]
    PROVE  SumOf(f, S) = SumOf(e, S)
<1> DEFINE g == CHOOSE g : IsSum(g, f, S)
           h == CHOOSE h : IsSum(h, e, S)
<1>1. IsSum(g, f, S) /\ IsSum(h, e, S)
  BY SumExists
<1>2. SumOf(f, S) = g[S] /\ SumOf(e, S) = h[S]
  BY SumDef
<1> HIDE DEF g, h
<1> QED
  BY <1>1, <1>2, SumUnique

LEMMA SumType ==
    ASSUME NEW f, NEW S, IsFiniteSet(S), \A x \in S : f[x] \in Int
    PROVE  SumOf(f, S) \in Int
<1> DEFINE N == {n \in Nat : \A s \in SUBSET S : Cardinality(s) = n => SumOf(f, s) \in Int}
<1>1. \A s \in SUBSET S : IsFiniteSet(s) /\ Cardinality(s) \in Nat
  BY FS_Subset, FS_CardinalityType
<1>2. 0 \in N
  <2>1. SumOf(f, {}) = 0
    BY SumStep, FS_EmptySet
  <2> QED
    BY <1>1, <2>1, FS_EmptySet
<1>3. ASSUME NEW n \in N PROVE n + 1 \in N
  <2>1. ASSUME NEW s \in SUBSET S, Cardinality(s) = n + 1 PROVE SumOf(f, s) \in Int
    <3> n \in Nat
      OBVIOUS
    <3>1. s # {}
      BY <2>1, FS_EmptySet
    <3>2. SumOf(f, s) = f[Chosen(s)] + SumOf(f, s \ {Chosen(s)})
      BY <1>1, <3>1, SumStep
    <3>3. /\ Chosen(s) \in s
          /\ Cardinality(s \ {Chosen(s)}) = n
          /\ s \ {Chosen(s)} \in SUBSET S
      BY <1>1, <2>1, <3>1, Without
    <3> QED
      BY <3>2, <3>3
  <2> QED
    BY <2>1
<1>4. Cardinality(S) \in N
  <2> HIDE DEF N
  <2>1. N \subseteq Nat
    BY DEF N
  <2> QED
    BY <1>2, <1>3, <2>1, Induction, FS_CardinalityType
<1> QED
  BY <1>4

(* The order of adding does not matter: any element can be the last.       *)
LEMMA SumWithout ==
    ASSUME NEW f, NEW S, IsFiniteSet(S), \A x \in S : f[x] \in Int
    PROVE  \A x \in S : SumOf(f, S) = f[x] + SumOf(f, S \ {x})
<1> DEFINE Good(s) == \A x \in s : SumOf(f, s) = f[x] + SumOf(f, s \ {x})
           N == {n \in Nat : \A s \in SUBSET S : Cardinality(s) = n => Good(s)}
<1>1. \A s \in SUBSET S : IsFiniteSet(s) /\ Cardinality(s) \in Nat /\ SumOf(f, s) \in Int
  BY FS_Subset, FS_CardinalityType, SumType
<1>2. 0 \in N
  BY <1>1, FS_EmptySet
<1>3. ASSUME NEW n \in N PROVE n + 1 \in N
  <2>1. ASSUME NEW s \in SUBSET S, Cardinality(s) = n + 1, NEW x \in s
        PROVE  SumOf(f, s) = f[x] + SumOf(f, s \ {x})
    <3> DEFINE c == Chosen(s)
    <3>1. s # {} /\ IsFiniteSet(s) /\ n \in Nat
      BY <1>1
    <3>2. SumOf(f, s) = f[c] + SumOf(f, s \ {c})
      BY <3>1, SumStep
    <3>3. c \in s /\ f[c] \in Int
      BY <3>1, Without
    <3> HIDE DEF c
    <3>4. ASSUME NEW y \in s PROVE s \ {y} \in SUBSET S /\ Cardinality(s \ {y}) = n
      <4>1. Cardinality(s \ {y}) = Cardinality(s) - 1
        BY <3>1, FS_RemoveElement
      <4> QED
        BY <2>1, <3>1, <4>1
    <3>5. CASE x = c
      BY <3>5, <3>2
    <3>6. CASE x # c
      <4> DEFINE d == SumOf(f, (s \ {c}) \ {x})
      <4>1. SumOf(f, s \ {c}) = f[x] + d
        BY <3>3, <3>4, <3>6
      <4>2. SumOf(f, s \ {x}) = f[c] + d
        <5>1. (s \ {c}) \ {x} = (s \ {x}) \ {c}
          OBVIOUS
        <5> QED
          BY <3>3, <3>4, <3>6, <5>1
      <4>3. d \in Int /\ f[x] \in Int
        <5>1. (s \ {c}) \ {x} \in SUBSET S
          OBVIOUS
        <5> QED
          BY <1>1, <5>1
      <4> HIDE DEF d
      <4> QED
        BY <3>2, <3>3, <4>1, <4>2, <4>3
    <3> QED
      BY <3>5, <3>6
  <2> QED
    BY <2>1
<1>4. Cardinality(S) \in N
  <2> HIDE DEF N
  <2>1. N \subseteq Nat
    BY DEF N
  <2> QED
    BY <1>2, <1>3, <2>1, Induction, FS_CardinalityType
<1> QED
  BY <1>4
LEMMA SumEmpty == ASSUME NEW f PROVE SumOf(f, {}) = 0
  BY SumStep, FS_EmptySet

LEMMA SumAdds ==
    ASSUME NEW f, NEW S, IsFiniteSet(S), NEW x, x \notin S, \A y \in S \cup {x} : f[y] \in Int
    PROVE  SumOf(f, S \cup {x}) = f[x] + SumOf(f, S)
<1>1. IsFiniteSet(S \cup {x})
  BY FS_AddElement
<1>2. (S \cup {x}) \ {x} = S
  OBVIOUS
<1> QED
  BY <1>1, <1>2, SumWithout

(* One of the summands grows by n, and so does the sum.                    *)
LEMMA SumGrows ==
    ASSUME NEW S, IsFiniteSet(S), NEW f \in [S -> Int], NEW x \in S, NEW n \in Int,
           NEW e \in [S -> Int], e[x] = f[x] + n, \A y \in S \ {x} : e[y] = f[y]
    PROVE  SumOf(e, S) = SumOf(f, S) + n
<1>1. IsFiniteSet(S \ {x})
  BY FS_RemoveElement
<1>2. SumOf(e, S \ {x}) = SumOf(f, S \ {x})
  BY <1>1, SumAgrees
<1>3. SumOf(f, S) = f[x] + SumOf(f, S \ {x}) /\ SumOf(e, S) = e[x] + SumOf(e, S \ {x})
  BY SumWithout
<1>4. SumOf(f, S \ {x}) \in Int /\ f[x] \in Int
  BY <1>1, SumType
<1> QED
  BY <1>2, <1>3, <1>4

LEMMA SumZero ==
    ASSUME NEW f, NEW S, IsFiniteSet(S), \A x \in S : f[x] = 0
    PROVE  SumOf(f, S) = 0
<1> DEFINE N == {n \in Nat : \A s \in SUBSET S : Cardinality(s) = n => SumOf(f, s) = 0}
<1>1. \A s \in SUBSET S : IsFiniteSet(s) /\ Cardinality(s) \in Nat
  BY FS_Subset, FS_CardinalityType
<1>2. 0 \in N
  BY <1>1, SumEmpty, FS_EmptySet
<1>3. ASSUME NEW n \in N PROVE n + 1 \in N
  <2>1. ASSUME NEW s \in SUBSET S, Cardinality(s) = n + 1 PROVE SumOf(f, s) = 0
    <3> n \in Nat
      OBVIOUS
    <3>1. s # {}
      BY <2>1, FS_EmptySet
    <3>2. SumOf(f, s) = f[Chosen(s)] + SumOf(f, s \ {Chosen(s)})
      BY <1>1, <3>1, SumStep
    <3>3. /\ Chosen(s) \in s
          /\ Cardinality(s \ {Chosen(s)}) = n
          /\ s \ {Chosen(s)} \in SUBSET S
      BY <1>1, <2>1, <3>1, Without
    <3> QED
      BY <3>2, <3>3
  <2> QED
    BY <2>1
<1>4. Cardinality(S) \in N
  <2> HIDE DEF N
  <2>1. N \subseteq Nat
    BY DEF N
  <2> QED
    BY <1>2, <1>3, <2>1, Induction, FS_CardinalityType
<1> QED
  BY <1>4

-----------------------------------------------------------------------------
(* The sender table *)
LEMMA DefaultType ==
    ASSUME SenderTypeOK, NEW a
    PROVE  /\ WithDefault(a) \in [Addr -> SenderRow \cup {NoRow}]
           /\ \A b \in Addr : sender[b] # NoRow => WithDefault(a)[b] = sender[b]
<1>1. [balance |-> DefaultBalance, enabled |-> TRUE] \in SenderRow
  BY SenderAssumption DEF SenderRow
<1> QED
  BY <1>1 DEF WithDefault, Inserted, SenderTypeOK

LEMMA SenderKeepsType == SenderTypeOK /\ SenderNext => SenderTypeOK'
<1> SUFFICES ASSUME SenderTypeOK, NEW a \in Addr,
                    \/ CreateMailbox(a) \/ DeleteMailbox(a)
                    \/ OpenSettings(a) \/ RequestAccess(a)
                    \/ \E b \in AdminBalance, on \in BOOLEAN : UpdateSender(a, b, on)
                    \/ RemoveSender(a)
             PROVE  SenderTypeOK'
  BY DEF SenderNext
<1>1. CASE CreateMailbox(a)
  BY <1>1 DEF CreateMailbox, SenderTypeOK
<1>2. CASE DeleteMailbox(a) \/ RemoveSender(a)
  BY <1>2 DEF DeleteMailbox, RemoveSender, SenderTypeOK
<1>3. CASE OpenSettings(a)
  BY <1>3, DefaultType DEF OpenSettings, SenderTypeOK
<1>4. CASE RequestAccess(a)
  <2>1. [balance |-> DefaultBalance, enabled |-> FALSE] \in SenderRow
    BY SenderAssumption DEF SenderRow
  <2> QED
    BY <1>4, <2>1, DefaultType DEF RequestAccess, Inserted, SenderTypeOK
<1>5. ASSUME NEW b \in AdminBalance, NEW on \in BOOLEAN, UpdateSender(a, b, on)
      PROVE  SenderTypeOK'
  <2>1. [balance |-> b, enabled |-> on] \in SenderRow
    BY SenderAssumption DEF SenderRow
  <2> QED
    BY <1>5, <2>1 DEF UpdateSender, SenderTypeOK
<1> QED
  BY <1>1, <1>2, <1>3, <1>4, <1>5

LEMMA SendKept ==
    ASSUME SendInv, SenderTypeOK', UNCHANGED sendVars
    PROVE  SendInv'
  BY DEF SendInv, sendVars, history, SendTypeOK, JobOK, CountOK

-----------------------------------------------------------------------------
(* Sending *)
LEMMA RestingType ==
    /\ Resting \in JobType /\ Resting.pc = "idle"
    /\ \A p \in Period : Resting.key[p] = 0
<1>1. NotYet \in [Period -> Time] /\ \A p \in Period : NotYet[p] = 0
  BY SendMailAssumption DEF NotYet, Time
<1> QED
  BY <1>1 DEF Resting, JobType

LEMMA SendStart == AllInit => SendInv
<1> SUFFICES ASSUME AllInit PROVE SendInv
  OBVIOUS
<1>1. NotYet \in [Period -> Time] /\ \A p \in Period : NotYet[p] = 0
  BY SendMailAssumption DEF NotYet, Time
<1>2. SendTypeOK
  BY <1>1, RestingType DEF AllInit, SendInit, SendTypeOK
<1>3. SenderTypeOK
  BY DEF AllInit, SenderInit, SenderTypeOK
<1>4. CountOK
  BY <1>1, RestingType DEF AllInit, SendInit, CountOK, Period
<1> QED
  BY <1>2, <1>3, <1>4, RestingType DEF SendInv, AllInit, SendInit, JobOK

(* A run goes on with r; the counters stay. *)
LEMMA JobMoves ==
    ASSUME SendInv, NEW j \in Job, NEW r \in JobType, job' = [job EXCEPT ![j] = r],
           JobOK(r), \A p \in Period : r.key[p] <= clock[p],
           SenderTypeOK', UNCHANGED <<clock, count, counted>>,
           passed' \in Nat, sent' \in Nat, missed' \in Nat,
           mailed' \in [Addr -> Nat], unpaid' \in [Addr -> Nat]
    PROVE  SendInv'
<1>1. \A k \in Job : job'[k] = IF k = j THEN r ELSE job[k]
  BY DEF SendInv, SendTypeOK
<1>2. SendTypeOK'
  BY DEF SendInv, SendTypeOK
<1>3. CountOK'
  BY <1>1 DEF SendInv, CountOK
<1> QED
  BY <1>1, <1>2, <1>3 DEF SendInv, JobOK

(* The next position of a run. *)
LEMMA Onward ==
    ASSUME SendInv, NEW j \in Job, job[j].pc # "idle",
           NEW pc \in {"balance", "checkDaily", "checkMonthly", "transport", "countMonthly",
                       "cleanup", "charge"},
           NEW r, r = [job[j] EXCEPT !.pc = pc]
    PROVE  r \in JobType /\ JobOK(r) /\ \A p \in Period : r.key[p] <= clock[p]
<1>1. PICK s \in JobType : s = job[j]
  BY DEF SendInv, SendTypeOK
<1>2. r \in JobType /\ r.pc = pc /\ r.address = s.address /\ r.key = s.key
  BY <1>1 DEF JobType
<1> QED
  BY <1>1, <1>2 DEF SendInv, CountOK, JobOK

(* A run goes on, or ends, and changes no more than the sender table. *)
LEMMA Goes ==
    ASSUME SendInv, NEW j \in Job, job[j].pc # "idle",
           \/ \E pc \in {"balance", "checkDaily", "checkMonthly", "transport", "countMonthly",
                         "cleanup", "charge"} : Proceed(j, pc)
           \/ Finish(j),
           SenderTypeOK', UNCHANGED <<clock, count, counted>>,
           passed' \in Nat, sent' \in Nat, missed' \in Nat,
           mailed' \in [Addr -> Nat], unpaid' \in [Addr -> Nat]
    PROVE  SendInv'
<1>1. CASE Finish(j)
  <2>1. \A p \in Period : Resting.key[p] <= clock[p]
    BY RestingType DEF SendInv, SendTypeOK, Time
  <2> QED
    BY <1>1, <2>1, RestingType, JobMoves DEF Finish, JobOK
<1>2. ASSUME NEW pc \in {"balance", "checkDaily", "checkMonthly", "transport", "countMonthly",
                         "cleanup", "charge"}, Proceed(j, pc)
      PROVE  SendInv'
  <2>1. PICK r : r = [job[j] EXCEPT !.pc = pc]
    OBVIOUS
  <2>2. job' = [job EXCEPT ![j] = r]
    BY <1>2, <2>1 DEF Proceed
  <2> QED
    BY <2>1, <2>2, Onward, JobMoves
<1> QED
  BY <1>1, <1>2

LEMMA StartKeeps ==
    ASSUME SendInv, NEW j \in Job, NEW a \in Addr, NEW pays \in BOOLEAN, Start(j, a, pays)
    PROVE  SendInv'
<1>1. PICK s \in JobType : s = job[j]
  BY DEF SendInv, SendTypeOK
<1>2. PICK pc \in {"default", "checkDaily"} : pc = IF pays THEN "default" ELSE "checkDaily"
  OBVIOUS
<1>3. PICK r : r = [job[j] EXCEPT !.address = a, !.pays = pays, !.pc = pc]
  OBVIOUS
<1>4. r \in JobType /\ r.address = a /\ r.key = s.key
  BY <1>1, <1>3 DEF JobType
<1>5. JobOK(r) /\ \A p \in Period : r.key[p] <= clock[p]
  BY <1>1, <1>4 DEF SendInv, CountOK, JobOK
<1>6. job' = [job EXCEPT ![j] = r]
  BY <1>2, <1>3 DEF Start
<1> QED
  BY <1>4, <1>5, <1>6, JobMoves
  DEF Start, senderVars, history, SendInv, SenderTypeOK, SendTypeOK

LEMMA TransportKeeps ==
    ASSUME SendInv, NEW j \in Job, NEW verified \in BOOLEAN, Transport(j, verified)
    PROVE  SendInv'
<1>1. PICK s \in JobType : s = job[j]
  BY DEF SendInv, SendTypeOK
<1>2. PICK r : r = [job[j] EXCEPT !.pc = "keys", !.verified = verified]
  OBVIOUS
<1>3. r \in JobType /\ r.address = s.address /\ r.key = s.key
  BY <1>1, <1>2 DEF JobType
<1>4. JobOK(r) /\ \A p \in Period : r.key[p] <= clock[p]
  BY <1>1, <1>3 DEF SendInv, CountOK, JobOK, Transport
<1>5. job' = [job EXCEPT ![j] = r]
  BY <1>2 DEF Transport
<1>6. sent' \in Nat /\ mailed' \in [Addr -> Nat]
  <2>1. PICK a \in Addr : a = job[j].address
    BY DEF Transport, SendInv, JobOK
  <2>2. mailed \in [Addr -> Nat] /\ sent \in Nat
    BY DEF SendInv, SendTypeOK
  <2>3. sent' = sent + 1 /\ (mailed' = mailed \/ mailed' = [mailed EXCEPT ![a] = mailed[a] + 1])
    BY <2>1 DEF Transport
  <2>4. mailed[a] + 1 \in Nat
    BY <2>2
  <2> QED
    BY <2>2, <2>3, <2>4
<1> QED
  BY <1>3, <1>4, <1>5, <1>6, JobMoves
  DEF Transport, senderVars, SendInv, SenderTypeOK, SendTypeOK

LEMMA TakeKeysKeeps ==
    ASSUME SendInv, NEW j \in Job, TakeKeys(j)
    PROVE  SendInv'
<1>1. /\ job[j].pc = "keys" /\ UNCHANGED <<senderVars, clock, count, history>>
      /\ SenderTypeOK'
  BY DEF TakeKeys, senderVars, SendInv, SenderTypeOK
<1>2. CASE AfterCount(j)
  BY <1>1, <1>2, Goes DEF AfterCount, history, SendInv, SendTypeOK
<1>3. CASE job' = [job EXCEPT ![j] = [@ EXCEPT !.pc = "countDaily", !.key = clock]]
  <2>1. PICK s \in JobType : s = job[j]
    BY DEF SendInv, SendTypeOK
  <2>2. PICK r : r = [job[j] EXCEPT !.pc = "countDaily", !.key = clock]
    OBVIOUS
  <2>3. r \in JobType /\ r.address = s.address /\ r.key = clock
    BY <2>1, <2>2 DEF JobType, SendInv, SendTypeOK
  <2>4. JobOK(r) /\ \A p \in Period : r.key[p] <= clock[p]
    BY <1>1, <2>1, <2>3 DEF SendInv, SendTypeOK, JobOK, Time
  <2> QED
    BY <1>1, <1>3, <2>2, <2>3, <2>4, JobMoves DEF history, SendInv, SendTypeOK
<1> QED
  BY <1>2, <1>3 DEF TakeKeys

(* An increment counts in the counter and in its history alike. *)
LEMMA IncreaseKeeps ==
    ASSUME SendInv, NEW j \in Job, NEW p \in Period, Increase(j, p)
    PROVE  SendInv'
<1>1. PICK pc \in {"countMonthly", "cleanup"} : Proceed(j, pc)
  BY DEF Increase
<1>2. PICK r : r = [job[j] EXCEPT !.pc = pc]
  OBVIOUS
<1>3. job[j].pc # "idle"
  BY DEF Increase
<1>4. r \in JobType /\ JobOK(r) /\ \A q \in Period : r.key[q] <= clock[q]
  BY <1>2, <1>3, Onward
<1>5. job' = [job EXCEPT ![j] = r]
  BY <1>1, <1>2 DEF Proceed
<1>6. /\ SenderTypeOK' /\ UNCHANGED <<clock, passed, sent, missed, mailed, unpaid>>
  BY DEF Increase, senderVars, SendInv, SenderTypeOK
<1>7. PICK k \in Time : k = job[j].key[p]
  BY DEF SendInv, SendTypeOK, JobType
<1>8. /\ count \in [Period -> [Time -> Nat]] /\ counted \in [Period -> [Time -> Nat]]
      /\ \/ UNCHANGED <<count, counted>>
         \/ /\ count' = [count EXCEPT ![p][k] = @ + 1]
            /\ counted' = [counted EXCEPT ![p][k] = @ + 1]
  BY <1>7 DEF SendInv, SendTypeOK, Increase
<1>9. /\ count' \in [Period -> [Time -> Nat]] /\ counted' \in [Period -> [Time -> Nat]]
      /\ \A q \in Period, t \in Time :
            count[q][t] = counted[q][t] => count'[q][t] = counted'[q][t]
  <2>1. CASE UNCHANGED <<count, counted>>
    BY <1>8, <2>1
  <2>2. CASE /\ count' = [count EXCEPT ![p][k] = @ + 1]
             /\ counted' = [counted EXCEPT ![p][k] = @ + 1]
    <3>1. count[p] \in [Time -> Nat] /\ counted[p] \in [Time -> Nat]
      BY <1>8
    <3>2. PICK f, g : f = [count[p] EXCEPT ![k] = @ + 1] /\ g = [counted[p] EXCEPT ![k] = @ + 1]
      OBVIOUS
    <3>3. f \in [Time -> Nat] /\ g \in [Time -> Nat]
      BY <3>1, <3>2
    <3>4. \A t \in Time : count[p][t] = counted[p][t] => f[t] = g[t]
      BY <3>1, <3>2
    <3>5. count' = [count EXCEPT ![p] = f] /\ counted' = [counted EXCEPT ![p] = g]
      BY <2>2, <3>2
    <3> QED
      BY <1>8, <3>3, <3>4, <3>5
  <2> QED
    BY <1>8, <2>1, <2>2
<1>10. \A k1 \in Job : job'[k1] = IF k1 = j THEN r ELSE job[k1]
  BY <1>5 DEF SendInv, SendTypeOK
<1>11. SendTypeOK'
  BY <1>4, <1>5, <1>6, <1>9 DEF SendInv, SendTypeOK
<1>12. CountOK'
  BY <1>4, <1>6, <1>9, <1>10 DEF SendInv, CountOK
<1> QED
  BY <1>4, <1>6, <1>10, <1>11, <1>12 DEF SendInv, JobOK

(* The cleanup removes only counters before the run's key, which is not    *)
(* later than the clock.                                                   *)
LEMMA CleanupKeeps ==
    ASSUME SendInv, NEW j \in Job, Cleanup(j)
    PROVE  SendInv'
<1>0. job[j].pc = "cleanup" /\ UNCHANGED <<senderVars, clock, history>>
  BY DEF Cleanup
<1>1. PICK r \in JobType : /\ job' = [job EXCEPT ![j] = r] /\ JobOK(r)
                          /\ \A p \in Period : r.key[p] <= clock[p]
  <2>1. CASE Finish(j)
    <3>1. \A p \in Period : Resting.key[p] <= clock[p]
      BY RestingType DEF SendInv, SendTypeOK, Time
    <3> QED
      BY <2>1, <3>1, RestingType DEF Finish, JobOK
  <2>2. CASE Proceed(j, "charge")
    <3>1. PICK r : r = [job[j] EXCEPT !.pc = "charge"]
      OBVIOUS
    <3>2. r \in JobType /\ JobOK(r) /\ \A p \in Period : r.key[p] <= clock[p]
      BY <1>0, <3>1, Onward
    <3> QED
      BY <2>2, <3>1, <3>2 DEF Proceed
  <2> QED
    BY <2>1, <2>2 DEF Cleanup, AfterCount
<1>2. \A k \in Job : job'[k] = IF k = j THEN r ELSE job[k]
  BY <1>1 DEF SendInv, SendTypeOK
<1>3. /\ count \in [Period -> [Time -> Nat]]
      /\ job[j].key \in [Period -> Time] /\ clock \in [Period -> Time]
      /\ \A p \in Period : job[j].key[p] <= clock[p]
  BY DEF SendInv, SendTypeOK, JobType, CountOK
<1>4. \A p \in Period, t \in Time :
        count'[p][t] = IF t < job[j].key[p] THEN 0 ELSE count[p][t]
  BY DEF Cleanup
<1>5. count' \in [Period -> [Time -> Nat]]
  BY <1>3 DEF Cleanup
<1>6. \A p \in Period, t \in Time : clock[p] <= t => count'[p][t] = count[p][t]
  BY <1>3, <1>4 DEF Time
<1>7. SendTypeOK'
  BY <1>0, <1>1, <1>5 DEF SendInv, SendTypeOK, history
<1>8. CountOK'
  BY <1>0, <1>1, <1>2, <1>6 DEF SendInv, CountOK, history
<1>9. SenderTypeOK'
  BY <1>0 DEF SendInv, SenderTypeOK, senderVars
<1> QED
  BY <1>1, <1>2, <1>7, <1>8, <1>9 DEF SendInv, JobOK

LEMMA TickKeeps == SendInv /\ Tick => SendInv'
<1> SUFFICES ASSUME SendInv, Tick PROVE SendInv'
  OBVIOUS
<1>1. PICK month \in {clock["monthly"], clock["monthly"] + 1} :
        clock' = [daily |-> clock["daily"] + 1, monthly |-> month]
  BY DEF Tick
<1>2. /\ clock["daily"] \in Time /\ clock["monthly"] \in Time /\ MaxDay \in Nat
      /\ clock["monthly"] <= clock["daily"] /\ clock["daily"] < MaxDay
  BY SendMailAssumption DEF SendInv, SendTypeOK, CountOK, Period, Tick
<1>3. /\ clock'["daily"] = clock["daily"] + 1 /\ clock'["monthly"] = month
      /\ DOMAIN clock' = Period
  BY <1>1 DEF Period
<1>4. clock' \in [Period -> Time]
  <2>1. clock' = [p \in Period |-> IF p = "daily" THEN clock["daily"] + 1 ELSE month]
    BY <1>1 DEF Period
  <2>2. clock["daily"] + 1 \in Time /\ month \in Time
    BY <1>2 DEF Time
  <2> QED
    BY <2>1, <2>2
<1>5. \A p \in Period : clock[p] <= clock'[p] /\ clock[p] \in Time /\ clock'[p] \in Time
  BY <1>2, <1>3, <1>4 DEF Period, Time
<1>6. UNCHANGED <<senderVars, job, count, history>>
  BY DEF Tick
<1>7. SendTypeOK' /\ SenderTypeOK'
  BY <1>4, <1>6 DEF SendInv, SendTypeOK, SenderTypeOK, senderVars, history
<1>8. \A j \in Job, p \in Period : job[j].key[p] \in Time
  BY DEF SendInv, SendTypeOK, JobType
<1>9. CountOK'
  <2>1. clock'["monthly"] <= clock'["daily"]
    BY <1>2, <1>3 DEF Time
  <2>2. ASSUME NEW p \in Period
        PROVE  /\ \A j \in Job : job'[j].key[p] <= clock'[p]
               /\ \A t \in Time : clock'[p] <= t => count'[p][t] = counted'[p][t]
    BY <1>5, <1>6, <1>8 DEF SendInv, CountOK, history, Time
  <2> QED
    BY <2>1, <2>2 DEF CountOK
<1> QED
  BY <1>6, <1>7, <1>9 DEF SendInv, JobOK

LEMMA SendKeeps == SendInv /\ SendNext => SendInv'
<1> SUFFICES ASSUME SendInv, SendNext PROVE SendInv'
  OBVIOUS
<1>0. /\ SenderTypeOK /\ passed \in Nat /\ sent \in Nat /\ missed \in Nat
      /\ mailed \in [Addr -> Nat] /\ unpaid \in [Addr -> Nat]
  BY DEF SendInv, SendTypeOK
<1>1. UNCHANGED senderVars => SenderTypeOK'
  BY <1>0 DEF senderVars, SenderTypeOK
<1>2. ASSUME NEW j \in Job, EnsureDefault(j) PROVE SendInv'
  <2>1. SenderTypeOK'
    BY <1>0, <1>2, DefaultType DEF EnsureDefault, SenderTypeOK
  <2> QED
    BY <1>0, <1>2, <2>1, Goes DEF EnsureDefault, history
<1>3. ASSUME NEW j \in Job, CheckBalance(j) PROVE SendInv'
  BY <1>0, <1>1, <1>3, Goes DEF CheckBalance, history
<1>4. ASSUME NEW j \in Job, NEW p \in Period, CheckLimit(j, p) PROVE SendInv'
  BY <1>0, <1>1, <1>4, Goes DEF CheckLimit, history
<1>5. ASSUME NEW j \in Job, CheckFails(j) PROVE SendInv'
  BY <1>0, <1>1, <1>5, Goes DEF CheckFails
<1>6. ASSUME NEW j \in Job, Refuse(j) PROVE SendInv'
  BY <1>0, <1>1, <1>6, Goes DEF Refuse, history
<1>7. ASSUME NEW j \in Job, CountFails(j) PROVE SendInv'
  <2>1. missed' \in Nat
    BY <1>0, <1>7 DEF CountFails
  <2> QED
    BY <1>0, <1>1, <1>7, <2>1, Goes DEF CountFails, AfterCount
<1>8. ASSUME NEW j \in Job, Charge(j) PROVE SendInv'
  <2>1. job[j].address \in Addr
    BY <1>8 DEF Charge, SendInv, JobOK
  <2>2. SenderTypeOK'
    BY <1>0, <1>8, <2>1 DEF Charge, SenderTypeOK, SenderRow
  <2> QED
    BY <1>0, <1>8, <2>2, Goes DEF Charge, history
<1>9. ASSUME NEW j \in Job, Abandon(j) PROVE SendInv'
  <2>1. missed' \in Nat /\ unpaid' \in [Addr -> Nat]
    <3>1. PICK a \in Addr : a = job[j].address
      BY <1>9 DEF Abandon, SendInv, JobOK
    <3>2. unpaid' = unpaid \/ unpaid' = [unpaid EXCEPT ![a] = unpaid[a] + 1]
      BY <1>9, <3>1 DEF Abandon
    <3>3. unpaid[a] + 1 \in Nat /\ missed' \in {missed, missed + 1}
      BY <1>0, <1>9 DEF Abandon
    <3> QED
      BY <1>0, <3>2, <3>3
  <2> QED
    BY <1>0, <1>1, <1>9, <2>1, Goes DEF Abandon
<1> QED
  BY <1>2, <1>3, <1>4, <1>5, <1>6, <1>7, <1>8, <1>9, StartKeeps, TransportKeeps,
     TakeKeysKeeps, IncreaseKeeps, CleanupKeeps, TickKeeps DEF SendNext

-----------------------------------------------------------------------------
(* What the limits and the balances allow at most: how many runs may still *)
(* count, or charge, because they are past the check.                      *)
IsPending(r, p) ==
    \/ r.pc \in {"transport", "keys"}
    \/ p = "daily" /\ r.pc = "checkMonthly"
    \/ /\ r.pc = "countDaily" \/ (p = "monthly" /\ r.pc = "countMonthly")
       /\ r.key[p] = clock[p]

Pending(p) == {j \in Job : IsPending(job[j], p)}

(* Counters of periods to come are empty, and what is counted and may      *)
(* still be exceeds the limit by no more than the other runs and the       *)
(* checks that failed; a limit of zero is passed only by those.            *)
LimitOK(p) ==
    /\ \A t \in Time : clock[p] < t => count[p][t] = 0
    /\ Limit[p] \in Nat =>
          /\ count[p][clock[p]] + Cardinality(Pending(p))
                <= Limit[p] + (Cardinality(Job) - 1) + passed
          /\ Limit[p] = 0 => count[p][clock[p]] + Cardinality(Pending(p)) <= passed

IsDue(r, a) ==
    r.pc \notin {"idle", "default", "balance"} /\ r.pays /\ r.address = a

Due(a) == {j \in Job : IsDue(job[j], a)}

(* Even if all that may still be charged is, no more is overdrawn than the *)
(* runs beyond the first.                                                  *)
DuesOK ==
    /\ \A j \in Job : job[j].pc = "charge" => job[j].pays
    /\ \A a \in Addr \ managed :
          IF sender[a] = NoRow THEN Due(a) = {}
          ELSE sender[a].balance - Cardinality(Due(a)) > -Cardinality(Job)

LEMMA Sizes ==
    ASSUME NEW S \in SUBSET Job, NEW T \in SUBSET Job, NEW j
    PROVE  /\ Cardinality(Job) \in Nat /\ Cardinality(Job) >= 1
           /\ Cardinality(S) \in Nat /\ Cardinality(S) <= Cardinality(Job)
           /\ Cardinality(T) \in Nat
           /\ S = {} => Cardinality(S) = 0
           /\ T \subseteq S => Cardinality(T) <= Cardinality(S)
           /\ T \subseteq S \cup {j} => Cardinality(T) <= Cardinality(S) + 1
           /\ j \in S /\ T \subseteq S \ {j} => Cardinality(T) <= Cardinality(S) - 1
<1>1. IsFiniteSet(Job) /\ Job # {} /\ IsFiniteSet(S) /\ IsFiniteSet(T)
  BY SendMailAssumption, FS_Subset
<1>2. Cardinality(Job) \in Nat /\ Cardinality(S) \in Nat /\ Cardinality(T) \in Nat
  BY <1>1, FS_CardinalityType
<1>3. Cardinality(Job) # 0 /\ (S = {} => Cardinality(S) = 0)
  BY <1>1, FS_EmptySet
<1>4. Cardinality(S) <= Cardinality(Job) /\ (T \subseteq S => Cardinality(T) <= Cardinality(S))
  BY <1>1, FS_Subset
<1>5. ASSUME T \subseteq S \cup {j} PROVE Cardinality(T) <= Cardinality(S) + 1
  <2>1. IsFiniteSet(S \cup {j}) /\ Cardinality(S \cup {j}) <= Cardinality(S) + 1
    <3>1. CASE j \in S
      <4>1. S \cup {j} = S
        BY <3>1
      <4> QED
        BY <1>1, <1>2, <4>1
    <3>2. CASE j \notin S
      <4>1. IsFiniteSet(S \cup {j}) /\ Cardinality(S \cup {j}) = Cardinality(S) + 1
        BY <1>1, <3>2, FS_AddElement, Zenon
      <4> QED
        BY <1>2, <4>1
    <3> QED
      BY <3>1, <3>2
  <2>2. Cardinality(S \cup {j}) \in Nat /\ Cardinality(T) <= Cardinality(S \cup {j})
    BY <1>5, <2>1, FS_Subset, FS_CardinalityType
  <2> QED
    BY <1>2, <2>1, <2>2
<1>6. ASSUME j \in S, T \subseteq S \ {j} PROVE Cardinality(T) <= Cardinality(S) - 1
  <2>1. IsFiniteSet(S \ {j}) /\ Cardinality(S \ {j}) = Cardinality(S) - 1
    BY <1>1, <1>6, FS_RemoveElement
  <2> QED
    BY <1>6, <2>1, FS_Subset
<1> QED
  BY <1>2, <1>3, <1>4, <1>5, <1>6

LEMMA ProceedEffect ==
    ASSUME SendInv, NEW j \in Job, NEW pc, Proceed(j, pc)
    PROVE  /\ job'[j].pc = pc /\ job'[j].key = job[j].key /\ job'[j].verified = job[j].verified
           /\ job'[j].address = job[j].address /\ job'[j].pays = job[j].pays
           /\ \A k \in Job \ {j} : job'[k] = job[k]
<1>1. PICK r : r = [job[j] EXCEPT !.pc = pc]
  OBVIOUS
<1>2. PICK s \in JobType : s = job[j]
  BY DEF SendInv, SendTypeOK
<1>3. /\ r.pc = pc /\ r.key = s.key /\ r.address = s.address /\ r.pays = s.pays
      /\ r.verified = s.verified
  BY <1>1, <1>2 DEF JobType
<1>4. job' = [job EXCEPT ![j] = r]
  BY <1>1 DEF Proceed
<1> QED
  BY <1>2, <1>3, <1>4 DEF SendInv, SendTypeOK

LEMMA FinishEffect ==
    ASSUME SendInv, NEW j \in Job, Finish(j)
    PROVE  job'[j] = Resting /\ job'[j].pc = "idle" /\ \A k \in Job \ {j} : job'[k] = job[k]
  BY RestingType DEF Finish, SendInv, SendTypeOK

(* No run gets past the check of p. *)
LEMMA LimitKept ==
    ASSUME SendInv, SendInv', NEW p \in Period, LimitOK(p), NEW j \in Job,
           \A k \in Job \ {j} : job'[k] = job[k], clock' = clock,
           \A t \in Time : clock[p] <= t => count'[p][t] = count[p][t],
           passed' \in {passed, passed + 1},
           IsPending(job[j], p)' => IsPending(job[j], p)
    PROVE  LimitOK(p)'
<1>1. /\ clock[p] \in Time /\ count[p][clock[p]] \in Nat /\ passed \in Nat
      /\ count'[p][clock[p]] = count[p][clock[p]]
  <2>1. clock[p] \in Time /\ count[p][clock[p]] \in Nat /\ passed \in Nat
    BY DEF SendInv, SendTypeOK
  <2>2. clock[p] <= clock[p]
    BY <2>1, SendMailAssumption DEF Time
  <2> QED
    BY <2>1, <2>2
<1>2. Pending(p)' \subseteq Pending(p)
  BY DEF Pending, IsPending
<1>3. /\ Cardinality(Pending(p)') <= Cardinality(Pending(p)) /\ Cardinality(Job) \in Nat
      /\ Cardinality(Pending(p)') \in Nat /\ Cardinality(Pending(p)) \in Nat
  <2>1. Pending(p)' \in SUBSET Job /\ Pending(p) \in SUBSET Job
    BY DEF Pending
  <2> QED
    BY <1>2, <2>1, Sizes
<1>4. \A t \in Time : clock[p] < t => count'[p][t] = 0
  BY <1>1 DEF LimitOK, Time
<1>5. Limit[p] \in Nat =>
         /\ count[p][clock[p]] + Cardinality(Pending(p))'
                <= Limit[p] + (Cardinality(Job) - 1) + passed'
         /\ Limit[p] = 0 => count[p][clock[p]] + Cardinality(Pending(p))' <= passed'
  BY <1>1, <1>3 DEF LimitOK
<1> QED
  BY <1>1, <1>4, <1>5 DEF LimitOK

(* A run gets past the check of p, because the limit is not reached or     *)
(* because the check failed.                                               *)
LEMMA LimitGrows ==
    ASSUME SendInv, SendInv', NEW p \in Period, LimitOK(p), NEW j \in Job,
           \A k \in Job \ {j} : job'[k] = job[k], clock' = clock, count' = count,
           \/ ~Reached(p) /\ passed' = passed
           \/ passed' = passed + 1
    PROVE  LimitOK(p)'
<1>1. clock[p] \in Time /\ count[p][clock[p]] \in Nat /\ passed \in Nat
  BY DEF SendInv, SendTypeOK
<1>2. Pending(p)' \subseteq Pending(p) \cup {j}
  BY DEF Pending, IsPending
<1>3. /\ Cardinality(Pending(p)') <= Cardinality(Pending(p)) + 1
      /\ Cardinality(Job) \in Nat /\ Cardinality(Pending(p)') <= Cardinality(Job)
      /\ Cardinality(Pending(p)') \in Nat /\ Cardinality(Pending(p)) \in Nat
  <2>1. Pending(p)' \in SUBSET Job /\ Pending(p) \in SUBSET Job
    BY DEF Pending
  <2> QED
    BY <1>2, <2>1, Sizes
<1>4. \A t \in Time : clock[p] < t => count'[p][t] = 0
  BY DEF LimitOK
<1>5. ASSUME Limit[p] \in Nat
      PROVE  /\ count[p][clock[p]] + Cardinality(Pending(p))'
                   <= Limit[p] + (Cardinality(Job) - 1) + passed'
             /\ Limit[p] = 0 => count[p][clock[p]] + Cardinality(Pending(p))' <= passed'
  <2>1. CASE passed' = passed + 1
    BY <1>1, <1>3, <1>5, <2>1 DEF LimitOK
  <2>2. CASE ~Reached(p) /\ passed' = passed
    <3>1. count[p][clock[p]] < Limit[p]
      BY <1>1, <1>5, <2>2 DEF Reached
    <3> QED
      BY <1>1, <1>3, <1>5, <2>2, <3>1
  <2> QED
    BY <2>1, <2>2
<1> QED
  BY <1>4, <1>5 DEF LimitOK

(* A run counts itself, in the period that is on or in an earlier one. *)
LEMMA LimitCounts ==
    ASSUME SendInv, SendInv', NEW p \in Period, LimitOK(p), NEW j \in Job, Increase(j, p)
    PROVE  LimitOK(p)'
<1>1. /\ clock[p] \in Time /\ job[j].key[p] \in Time /\ job[j].key[p] <= clock[p]
      /\ count \in [Period -> [Time -> Nat]] /\ passed \in Nat
      /\ clock' = clock /\ passed' = passed
  BY DEF SendInv, SendTypeOK, CountOK, JobType, Increase
<1>2. PICK pc \in {"countMonthly", "cleanup"} :
        /\ Proceed(j, pc)
        /\ pc = "countMonthly" => p = "daily"
  BY DEF Increase, Period
<1>3. job'[j].pc = pc /\ \A k \in Job \ {j} : job'[k] = job[k]
  BY <1>2, ProceedEffect
<1>4. ~IsPending(job[j], p)'
  BY <1>2, <1>3 DEF IsPending
<1>5. CASE UNCHANGED count
  BY <1>1, <1>3, <1>4, <1>5, LimitKept
<1>6. CASE /\ job[j].key[p] < clock[p]
           /\ count' = [count EXCEPT ![p][job[j].key[p]] = @ + 1]
  <2>1. PICK k \in Time : k = job[j].key[p] /\ k < clock[p]
    BY <1>1, <1>6
  <2>2. count' = [count EXCEPT ![p][k] = @ + 1]
    BY <1>6, <2>1
  <2>3. \A t \in Time : t # k => count'[p][t] = count[p][t]
    BY <1>1, <2>2
  <2>4. \A t \in Time : clock[p] <= t => count'[p][t] = count[p][t]
    BY <1>1, <2>1, <2>3 DEF Time
  <2> QED
    BY <1>1, <1>3, <1>4, <2>4, LimitKept
<1>7. CASE /\ job[j].key[p] = clock[p]
           /\ count' = [count EXCEPT ![p][job[j].key[p]] = @ + 1]
  <2>1. PICK k \in Time : k = clock[p] /\ count' = [count EXCEPT ![p][k] = @ + 1]
    BY <1>1, <1>7
  <2>2. /\ count'[p][k] = count[p][k] + 1 /\ count[p][k] \in Nat
        /\ \A t \in Time : t # k => count'[p][t] = count[p][t]
    BY <1>1, <2>1
  <2>3. j \in Pending(p)
    BY <1>7 DEF Pending, IsPending, Increase, Period
  <2>4. Pending(p)' \subseteq Pending(p) \ {j}
    BY <1>1, <1>3, <1>4 DEF Pending, IsPending
  <2>5. /\ Cardinality(Pending(p)') <= Cardinality(Pending(p)) - 1
        /\ Cardinality(Job) \in Nat
        /\ Cardinality(Pending(p)') \in Nat /\ Cardinality(Pending(p)) \in Nat
    <3>1. Pending(p)' \in SUBSET Job /\ Pending(p) \in SUBSET Job
      BY DEF Pending
    <3> QED
      BY <2>3, <2>4, <3>1, Sizes
  <2>6. \A t \in Time : clock[p] < t => count'[p][t] = 0
    BY <1>1, <2>1, <2>2 DEF LimitOK, Time
  <2>7. Limit[p] \in Nat =>
           /\ count'[p][k] + Cardinality(Pending(p))'
                  <= Limit[p] + (Cardinality(Job) - 1) + passed
           /\ Limit[p] = 0 => count'[p][k] + Cardinality(Pending(p))' <= passed
    BY <1>1, <2>1, <2>2, <2>5 DEF LimitOK
  <2> QED
    BY <1>1, <2>1, <2>6, <2>7 DEF LimitOK
<1>8. job[j].key[p] < clock[p] \/ job[j].key[p] = clock[p]
  BY <1>1 DEF Time
<1> QED
  BY <1>5, <1>6, <1>7, <1>8 DEF Increase

(* A new period begins with an empty counter; what was pending still is. *)
LEMMA LimitTicks ==
    ASSUME SendInv, SendInv', NEW p \in Period, LimitOK(p), Tick
    PROVE  LimitOK(p)'
<1>1. /\ clock[p] \in Time /\ clock'[p] \in Time /\ passed \in Nat
      /\ count[p][clock[p]] \in Nat /\ count' = count /\ job' = job /\ passed' = passed
      /\ \A j \in Job : job[j].key[p] \in Time /\ job[j].key[p] <= clock[p]
  BY DEF SendInv, SendTypeOK, CountOK, JobType, Tick, history
<1>2. clock'[p] = clock[p] \/ clock[p] < clock'[p]
  BY <1>1 DEF Tick, Period, Time
<1>3. /\ Cardinality(Job) \in Nat /\ Cardinality(Job) >= 1
      /\ Cardinality(Pending(p)') <= Cardinality(Job)
      /\ Cardinality(Pending(p)') \in Nat /\ Cardinality(Pending(p)) \in Nat
      /\ Pending(p)' \subseteq Pending(p) => Cardinality(Pending(p)') <= Cardinality(Pending(p))
  <2>1. Pending(p)' \in SUBSET Job /\ Pending(p) \in SUBSET Job
    BY DEF Pending
  <2> QED
    BY <2>1, Sizes
<1>4. CASE clock'[p] = clock[p]
  BY <1>1, <1>4 DEF LimitOK, Pending, IsPending
<1>5. CASE clock[p] < clock'[p]
  <2>1. Pending(p)' \subseteq Pending(p)
    BY <1>1, <1>5 DEF Pending, IsPending, Time
  <2>2. count[p][clock'[p]] = 0 /\ \A t \in Time : clock'[p] < t => count[p][t] = 0
    BY <1>1, <1>5 DEF LimitOK, Time
  <2>3. Limit[p] \in Nat =>
           /\ 0 + Cardinality(Pending(p))' <= Limit[p] + (Cardinality(Job) - 1) + passed
           /\ Limit[p] = 0 => 0 + Cardinality(Pending(p))' <= passed
    BY <1>1, <1>3, <2>1 DEF LimitOK
  <2> QED
    BY <1>1, <2>2, <2>3 DEF LimitOK
<1> QED
  BY <1>2, <1>4, <1>5

(* A run that comes to a position where it does not count for p any more,  *)
(* or not yet.                                                             *)
LEMMA LimitLeaves ==
    ASSUME SendInv, SendInv', NEW p \in Period, LimitOK(p), NEW j \in Job,
           \/ Finish(j)
           \/ \E pc \in {"balance", "checkDaily", "cleanup", "charge"} : Proceed(j, pc),
           clock' = clock, passed' = passed,
           \A t \in Time : clock[p] <= t => count'[p][t] = count[p][t]
    PROVE  LimitOK(p)'
<1>1. ~IsPending(job[j], p)' /\ \A k \in Job \ {j} : job'[k] = job[k]
  <2>1. CASE Finish(j)
    BY <2>1, FinishEffect DEF IsPending
  <2>2. ASSUME NEW pc \in {"balance", "checkDaily", "cleanup", "charge"}, Proceed(j, pc)
        PROVE  ~IsPending(job[j], p)' /\ \A k \in Job \ {j} : job'[k] = job[k]
    BY <2>2, ProceedEffect DEF IsPending
  <2> QED
    BY <2>1, <2>2
<1> QED
  BY <1>1, LimitKept

LEMMA LimitStarts ==
    ASSUME SendInv, SendInv', NEW p \in Period, LimitOK(p),
           NEW j \in Job, NEW a \in Addr, NEW pays \in BOOLEAN, Start(j, a, pays)
    PROVE  LimitOK(p)'
<1>1. PICK s \in JobType : s = job[j]
  BY DEF SendInv, SendTypeOK
<1>2. PICK pc \in {"default", "checkDaily"} : pc = IF pays THEN "default" ELSE "checkDaily"
  OBVIOUS
<1>3. PICK r : r = [job[j] EXCEPT !.address = a, !.pays = pays, !.pc = pc]
  OBVIOUS
<1>4. r.pc = pc /\ job' = [job EXCEPT ![j] = r]
  BY <1>1, <1>2, <1>3 DEF JobType, Start
<1>5. ~IsPending(job[j], p)' /\ \A k \in Job \ {j} : job'[k] = job[k]
  BY <1>4 DEF SendInv, SendTypeOK, IsPending
<1> QED
  BY <1>5, LimitKept DEF Start, history

(* Past both checks, until the run counts, nothing is new. *)
LEMMA LimitSends ==
    ASSUME SendInv, SendInv', NEW p \in Period, LimitOK(p), NEW j \in Job,
           \/ \E verified \in BOOLEAN : Transport(j, verified)
           \/ TakeKeys(j)
    PROVE  LimitOK(p)'
<1>1. PICK s \in JobType : s = job[j]
  BY DEF SendInv, SendTypeOK
<1>2. ASSUME NEW verified \in BOOLEAN, Transport(j, verified) PROVE LimitOK(p)'
  <2>1. PICK r : r = [job[j] EXCEPT !.pc = "keys", !.verified = verified]
    OBVIOUS
  <2>2. r.pc = "keys" /\ job' = [job EXCEPT ![j] = r]
    BY <1>1, <1>2, <2>1 DEF JobType, Transport
  <2>3. \A k \in Job \ {j} : job'[k] = job[k]
    BY <2>2 DEF SendInv, SendTypeOK
  <2>4. IsPending(job[j], p)
    BY <1>2 DEF Transport, IsPending
  <2> QED
    BY <1>2, <2>3, <2>4, LimitKept DEF Transport
<1>3. CASE TakeKeys(j) /\ AfterCount(j)
  BY <1>3, LimitLeaves DEF TakeKeys, AfterCount, history
<1>4. CASE TakeKeys(j) /\ job' = [job EXCEPT ![j] = [@ EXCEPT !.pc = "countDaily", !.key = clock]]
  <2>1. \A k \in Job \ {j} : job'[k] = job[k]
    BY <1>4 DEF SendInv, SendTypeOK
  <2>2. IsPending(job[j], p)
    BY <1>4 DEF TakeKeys, IsPending
  <2> QED
    BY <1>4, <2>1, <2>2, LimitKept DEF TakeKeys, history
<1> QED
  BY <1>2, <1>3, <1>4 DEF TakeKeys

LEMMA LimitChecks ==
    ASSUME SendInv, SendInv', NEW p \in Period, LimitOK(p),
           NEW j \in Job, NEW q \in Period, CheckLimit(j, q)
    PROVE  LimitOK(p)'
<1>1. clock' = clock /\ count' = count /\ passed' = passed
  BY DEF CheckLimit, history
<1>2. CASE Reached(q)
  BY <1>1, <1>2, LimitLeaves DEF CheckLimit
<1>3. ASSUME ~Reached(q), NEW pc, Proceed(j, pc), p = q PROVE LimitOK(p)'
  BY <1>1, <1>3, ProceedEffect, LimitGrows
<1>4. ASSUME ~Reached(q), q = "daily", p = "monthly", Proceed(j, "checkMonthly")
      PROVE  LimitOK(p)'
  <2>1. ~IsPending(job[j], p)' /\ \A k \in Job \ {j} : job'[k] = job[k]
    BY <1>4, ProceedEffect DEF IsPending
  <2> QED
    BY <1>1, <2>1, LimitKept
<1>5. ASSUME ~Reached(q), q = "monthly", p = "daily", Proceed(j, "transport")
      PROVE  LimitOK(p)'
  <2>1. IsPending(job[j], p) /\ \A k \in Job \ {j} : job'[k] = job[k]
    BY <1>5, ProceedEffect DEF IsPending, CheckLimit
  <2> QED
    BY <1>1, <2>1, LimitKept
<1> QED
  BY <1>2, <1>3, <1>4, <1>5 DEF CheckLimit, Period

(* The counter of the other period *)
LEMMA LimitCountsOther ==
    ASSUME SendInv, SendInv', NEW p \in Period, LimitOK(p),
           NEW j \in Job, NEW q \in Period \ {p}, Increase(j, q)
    PROVE  LimitOK(p)'
<1>1. clock' = clock /\ passed' = passed /\ count'[p] = count[p]
  BY DEF Increase, SendInv, SendTypeOK
<1>2. CASE q = "monthly"
  <2>1. Proceed(j, "cleanup")
    BY <1>2 DEF Increase
  <2> QED
    BY <1>1, <2>1, LimitLeaves
<1>3. CASE q = "daily"
  <2>1. Proceed(j, "countMonthly") /\ job[j].pc = "countDaily" /\ p = "monthly"
    BY <1>3 DEF Increase, Period
  <2>2. /\ job'[j].pc = "countMonthly" /\ job'[j].key = job[j].key
        /\ \A k \in Job \ {j} : job'[k] = job[k]
    BY <2>1, ProceedEffect
  <2>3. IsPending(job[j], p)' => IsPending(job[j], p)
    BY <1>1, <2>1, <2>2 DEF IsPending
  <2> QED
    BY <1>1, <2>2, <2>3, LimitKept
<1> QED
  BY <1>2, <1>3 DEF Period

LEMMA LimitStep ==
    ASSUME SendInv, SendInv', NEW p \in Period, LimitOK(p), SendNext
    PROVE  LimitOK(p)'
<1>1. ASSUME NEW j \in Job, EnsureDefault(j) \/ CheckBalance(j) \/ Refuse(j) \/ Charge(j)
      PROVE  LimitOK(p)'
  <2>1. Finish(j) \/ Proceed(j, "balance") \/ Proceed(j, "checkDaily")
    BY <1>1 DEF EnsureDefault, CheckBalance, Refuse, Charge
  <2>2. clock' = clock /\ count' = count /\ passed' = passed
    BY <1>1 DEF EnsureDefault, CheckBalance, Refuse, Charge, history
  <2> QED
    BY <2>1, <2>2, LimitLeaves
<1>2. ASSUME NEW j \in Job, CheckFails(j) PROVE LimitOK(p)'
  BY <1>2, ProceedEffect, LimitGrows DEF CheckFails
<1>3. ASSUME NEW j \in Job, CountFails(j) \/ Abandon(j) PROVE LimitOK(p)'
  <2>1. Finish(j) \/ Proceed(j, "charge")
    BY <1>3 DEF CountFails, AfterCount, Abandon
  <2>2. clock' = clock /\ count' = count /\ passed' = passed
    BY <1>3 DEF CountFails, Abandon
  <2> QED
    BY <2>1, <2>2, LimitLeaves
<1>4. ASSUME NEW j \in Job, Cleanup(j) PROVE LimitOK(p)'
  <2>1. Finish(j) \/ Proceed(j, "charge")
    BY <1>4 DEF Cleanup, AfterCount
  <2>2. /\ job[j].key[p] \in Time /\ job[j].key[p] <= clock[p] /\ clock[p] \in Time
        /\ clock' = clock /\ passed' = passed
    BY <1>4 DEF SendInv, SendTypeOK, JobType, CountOK, Cleanup, history
  <2>3. \A t \in Time : count'[p][t] = IF t < job[j].key[p] THEN 0 ELSE count[p][t]
    BY <1>4 DEF Cleanup
  <2>4. \A t \in Time : clock[p] <= t => count'[p][t] = count[p][t]
    BY <2>2, <2>3 DEF Time
  <2> QED
    BY <2>1, <2>2, <2>4, LimitLeaves
<1>5. ASSUME NEW j \in Job, NEW q \in Period, CheckLimit(j, q) \/ Increase(j, q)
      PROVE  LimitOK(p)'
  BY <1>5, LimitChecks, LimitCounts, LimitCountsOther
<1> QED
  BY <1>1, <1>2, <1>3, <1>4, <1>5, LimitStarts, LimitSends, LimitTicks DEF SendNext

-----------------------------------------------------------------------------
(* The balances *)

(* No run is newly past the balance check, and a row that an admin did not *)
(* handle stays or appears with the default balance.                       *)
LEMMA DuesKept ==
    ASSUME SendInv, SendInv', DuesOK, managed \subseteq managed',
           \A a \in Addr \ managed' :
               \/ sender'[a] = sender[a]
               \/ sender[a] = NoRow /\ sender'[a] # NoRow /\ sender'[a].balance = DefaultBalance,
           \A j \in Job : job'[j].pc = "charge" => job'[j].pays,
           \A j \in Job, a \in Addr : IsDue(job'[j], a) => IsDue(job[j], a)
    PROVE  DuesOK'
<1> SUFFICES ASSUME NEW a \in Addr \ managed'
             PROVE  IF sender'[a] = NoRow THEN Due(a)' = {}
                    ELSE sender'[a].balance - Cardinality(Due(a)') > -Cardinality(Job)
  BY DEF DuesOK
<1>1. Due(a)' \subseteq Due(a)
  BY DEF Due
<1>2. /\ Cardinality(Due(a)') <= Cardinality(Due(a))
      /\ Cardinality(Due(a)') \in Nat /\ Cardinality(Due(a)) \in Nat
      /\ Cardinality(Job) \in Nat /\ Cardinality(Job) >= 1
      /\ Due(a)' = {} => Cardinality(Due(a)') = 0
  <2>1. Due(a)' \in SUBSET Job /\ Due(a) \in SUBSET Job
    BY DEF Due
  <2> QED
    BY <1>1, <2>1, Sizes
<1>3. CASE sender'[a] = sender[a]
  <2>1. sender[a] # NoRow => sender[a].balance \in Int
    BY DEF SendInv, SenderTypeOK, SenderRow
  <2> QED
    BY <1>1, <1>2, <1>3, <2>1 DEF DuesOK
<1>4. CASE sender[a] = NoRow /\ sender'[a] # NoRow /\ sender'[a].balance = DefaultBalance
  <2>1. Due(a)' = {}
    BY <1>1, <1>4 DEF DuesOK
  <2> QED
    BY <1>2, <1>4, <2>1, SenderAssumption
<1> QED
  BY <1>3, <1>4

LEMMA DuesMove ==
    ASSUME SendInv, SendInv', DuesOK, managed' = managed, NEW j \in Job,
           \A a \in Addr \ managed :
               \/ sender'[a] = sender[a]
               \/ sender[a] = NoRow /\ sender'[a] # NoRow /\ sender'[a].balance = DefaultBalance,
           \/ Finish(j)
           \/ \E pc : /\ Proceed(j, pc)
                      /\ pc = "charge" => job[j].pays
                      /\ job[j].pc \in {"idle", "default", "balance"} => pc = "balance"
    PROVE  DuesOK'
<1>1. /\ \A k \in Job : job'[k].pc = "charge" => job'[k].pays
      /\ \A k \in Job, a \in Addr : IsDue(job'[k], a) => IsDue(job[k], a)
  <2>1. CASE Finish(j)
    BY <2>1, FinishEffect DEF DuesOK, IsDue
  <2>2. ASSUME NEW pc, Proceed(j, pc), pc = "charge" => job[j].pays,
               job[j].pc \in {"idle", "default", "balance"} => pc = "balance"
        PROVE  /\ \A k \in Job : job'[k].pc = "charge" => job'[k].pays
               /\ \A k \in Job, a \in Addr : IsDue(job'[k], a) => IsDue(job[k], a)
    BY <2>2, ProceedEffect DEF DuesOK, IsDue
  <2> QED
    BY <2>1, <2>2
<1> QED
  BY <1>1, DuesKept

LEMMA DefaultRow ==
    ASSUME SenderTypeOK, NEW a, NEW b \in Addr
    PROVE  \/ WithDefault(a)[b] = sender[b]
           \/ /\ sender[b] = NoRow /\ WithDefault(a)[b] # NoRow
              /\ WithDefault(a)[b].balance = DefaultBalance
<1>1. [balance |-> DefaultBalance, enabled |-> TRUE] \in SenderRow
  BY SenderAssumption DEF SenderRow
<1>2. [balance |-> DefaultBalance, enabled |-> TRUE] # NoRow
  BY <1>1, SenderAssumption DEF SenderRow
<1> QED
  BY <1>2 DEF WithDefault, Inserted, SenderTypeOK

(* A run passes the balance check: the balance is positive, and no more    *)
(* than all runs may be due.                                               *)
LEMMA DuesChecked ==
    ASSUME SendInv, SendInv', DuesOK, NEW j \in Job, CheckBalance(j)
    PROVE  DuesOK'
<1>1. job[j].pc = "balance" /\ sender' = sender /\ managed' = managed
  BY DEF CheckBalance, senderVars
<1>2. CASE Finish(j)
  BY <1>1, <1>2, DuesMove
<1>3. CASE MayPay(job[j].address) /\ Proceed(j, "checkDaily")
  <2>1. /\ job'[j].pc = "checkDaily" /\ job'[j].address = job[j].address
        /\ \A k \in Job \ {j} : job'[k] = job[k]
    BY <1>3, ProceedEffect
  <2>2. \A k \in Job : job'[k].pc = "charge" => job'[k].pays
    BY <2>1 DEF DuesOK
  <2>3. ASSUME NEW a \in Addr \ managed
        PROVE  IF sender[a] = NoRow THEN Due(a)' = {}
               ELSE sender[a].balance - Cardinality(Due(a)') > -Cardinality(Job)
    <3>1. /\ Cardinality(Due(a)') <= Cardinality(Job) /\ Cardinality(Due(a)') \in Nat
          /\ Cardinality(Job) \in Nat /\ Cardinality(Due(a)) \in Nat
          /\ Due(a)' \subseteq Due(a) => Cardinality(Due(a)') <= Cardinality(Due(a))
      <4>1. Due(a)' \in SUBSET Job /\ Due(a) \in SUBSET Job
        BY DEF Due
      <4> QED
        BY <4>1, Sizes
    <3>2. sender[a] # NoRow => sender[a].balance \in Int
      BY DEF SendInv, SenderTypeOK, SenderRow
    <3>3. CASE a = job[j].address
      <4>1. sender[a] # NoRow /\ sender[a].balance > 0
        BY <1>3, <3>3 DEF MayPay
      <4> QED
        BY <3>1, <3>2, <4>1
    <3>4. CASE a # job[j].address
      <4>1. Due(a)' \subseteq Due(a)
        BY <2>1, <3>4 DEF Due, IsDue
      <4> QED
        BY <3>1, <3>2, <4>1 DEF DuesOK
    <3> QED
      BY <3>3, <3>4
  <2> QED
    BY <1>1, <2>2, <2>3 DEF DuesOK
<1> QED
  BY <1>2, <1>3 DEF CheckBalance

(* A charge: one is due less, and one is paid. *)
LEMMA DuesCharged ==
    ASSUME SendInv, SendInv', DuesOK, NEW j \in Job, Charge(j)
    PROVE  DuesOK'
<1>1. PICK a0 \in Addr : a0 = job[j].address
  BY DEF Charge, SendInv, JobOK
<1>2. /\ job[j].pc = "charge" /\ job[j].pays /\ managed' = managed
      /\ sender \in [Addr -> SenderRow \cup {NoRow}]
      /\ sender' = IF sender[a0] = NoRow THEN sender
                   ELSE [sender EXCEPT ![a0].balance = sender[a0].balance - 1]
  BY <1>1 DEF Charge, DuesOK, SendInv, SenderTypeOK
<1>3. job'[j].pc = "idle" /\ \A k \in Job \ {j} : job'[k] = job[k]
  BY FinishEffect DEF Charge
<1>4. \A k \in Job : job'[k].pc = "charge" => job'[k].pays
  BY <1>3 DEF DuesOK
<1>5. ASSUME NEW a \in Addr \ managed
      PROVE  IF sender'[a] = NoRow THEN Due(a)' = {}
             ELSE sender'[a].balance - Cardinality(Due(a)') > -Cardinality(Job)
  <2>1. Due(a)' \subseteq Due(a) /\ (a = a0 => j \in Due(a) /\ Due(a)' \subseteq Due(a) \ {j})
    BY <1>1, <1>2, <1>3 DEF Due, IsDue
  <2>2. /\ Cardinality(Due(a)') <= Cardinality(Due(a))
        /\ Cardinality(Due(a)') \in Nat /\ Cardinality(Due(a)) \in Nat
        /\ Cardinality(Job) \in Nat
        /\ a = a0 => Cardinality(Due(a)') <= Cardinality(Due(a)) - 1
    <3>1. Due(a)' \in SUBSET Job /\ Due(a) \in SUBSET Job
      BY DEF Due
    <3> QED
      BY <2>1, <3>1, Sizes
  <2>3. CASE sender'[a] = sender[a] /\ (a # a0 \/ sender[a] = NoRow)
    <3>1. sender[a] # NoRow => sender[a].balance \in Int
      BY <1>2 DEF SenderRow
    <3> QED
      BY <2>1, <2>2, <2>3, <3>1 DEF DuesOK
  <2>4. CASE a = a0 /\ sender[a] # NoRow
    <3>1. PICK row \in SenderRow : row = sender[a]
      BY <1>2, <2>4
    <3>2. sender' = [sender EXCEPT ![a] = [row EXCEPT !.balance = row.balance - 1]]
      BY <1>2, <2>4, <3>1, Zenon
    <3>3. /\ [row EXCEPT !.balance = row.balance - 1].balance = row.balance - 1
          /\ row.balance \in Int
      BY <3>1 DEF SenderRow
    <3>4. [row EXCEPT !.balance = row.balance - 1] \in SenderRow
      BY <3>1, <3>3 DEF SenderRow
    <3>5. sender'[a] # NoRow /\ sender'[a].balance = row.balance - 1
      BY <1>2, <3>2, <3>3, <3>4, SenderAssumption DEF SenderRow
    <3> QED
      BY <2>2, <2>4, <3>1, <3>3, <3>5 DEF DuesOK
  <2> QED
    BY <1>2, <2>3, <2>4
<1> QED
  BY <1>2, <1>4, <1>5 DEF DuesOK

LEMMA DuesStart ==
    ASSUME SendInv, SendInv', DuesOK, NEW j \in Job, NEW a \in Addr, NEW pays \in BOOLEAN,
           Start(j, a, pays)
    PROVE  DuesOK'
<1>1. PICK s \in JobType : s = job[j]
  BY DEF SendInv, SendTypeOK
<1>2. PICK pc \in {"default", "checkDaily"} : pc = IF pays THEN "default" ELSE "checkDaily"
  OBVIOUS
<1>3. PICK r : r = [job[j] EXCEPT !.address = a, !.pays = pays, !.pc = pc]
  OBVIOUS
<1>4. r.pc = pc /\ r.pays = pays /\ job' = [job EXCEPT ![j] = r]
  BY <1>1, <1>2, <1>3 DEF JobType, Start
<1>5. /\ \A k \in Job : job'[k].pc = "charge" => job'[k].pays
      /\ \A k \in Job, b \in Addr : IsDue(job'[k], b) => IsDue(job[k], b)
  BY <1>2, <1>4 DEF SendInv, SendTypeOK, DuesOK, IsDue
<1> QED
  BY <1>5, DuesKept DEF Start, senderVars

(* Two moves that write more than the position. *)
LEMMA DuesSend ==
    ASSUME SendInv, SendInv', DuesOK, NEW j \in Job,
           \/ \E verified \in BOOLEAN : Transport(j, verified)
           \/ TakeKeys(j)
    PROVE  DuesOK'
<1>1. PICK s \in JobType : s = job[j]
  BY DEF SendInv, SendTypeOK
<1>2. /\ job[j].pc \in {"transport", "keys"} /\ sender' = sender /\ managed' = managed
  BY DEF Transport, TakeKeys, senderVars
<1>3. ASSUME NEW r, job' = [job EXCEPT ![j] = r], r.pc \in {"keys", "countDaily"},
             r.pays = s.pays, r.address = s.address
      PROVE  DuesOK'
  <2>1. /\ \A k \in Job : job'[k].pc = "charge" => job'[k].pays
        /\ \A k \in Job, b \in Addr : IsDue(job'[k], b) => IsDue(job[k], b)
    BY <1>1, <1>2, <1>3 DEF SendInv, SendTypeOK, DuesOK, IsDue
  <2> QED
    BY <1>2, <2>1, DuesKept
<1>4. ASSUME NEW verified \in BOOLEAN, Transport(j, verified) PROVE DuesOK'
  <2>1. PICK r : r = [job[j] EXCEPT !.pc = "keys", !.verified = verified]
    OBVIOUS
  <2>2. r.pc = "keys" /\ r.pays = s.pays /\ r.address = s.address
    BY <1>1, <2>1 DEF JobType
  <2>3. job' = [job EXCEPT ![j] = r]
    BY <1>4, <2>1 DEF Transport
  <2> QED
    BY <1>3, <2>2, <2>3
<1>5. CASE TakeKeys(j) /\ AfterCount(j)
  BY <1>2, <1>5, DuesMove DEF AfterCount
<1>6. CASE TakeKeys(j) /\ job' = [job EXCEPT ![j] = [@ EXCEPT !.pc = "countDaily", !.key = clock]]
  <2>1. PICK r : r = [job[j] EXCEPT !.pc = "countDaily", !.key = clock]
    OBVIOUS
  <2>2. r.pc = "countDaily" /\ r.pays = s.pays /\ r.address = s.address
    BY <1>1, <2>1 DEF JobType
  <2>3. job' = [job EXCEPT ![j] = r]
    BY <1>6, <2>1
  <2> QED
    BY <1>3, <2>2, <2>3
<1> QED
  BY <1>4, <1>5, <1>6 DEF TakeKeys

LEMMA DuesStep ==
    ASSUME SendInv, SendInv', DuesOK, SendNext
    PROVE  DuesOK'
<1>1. ASSUME NEW j \in Job, EnsureDefault(j) PROVE DuesOK'
  BY <1>1, DefaultRow, DuesMove DEF EnsureDefault, SendInv
<1>2. ASSUME NEW j \in Job, NEW p \in Period, CheckLimit(j, p) \/ Increase(j, p) PROVE DuesOK'
  <2>1. /\ sender' = sender /\ managed' = managed
        /\ job[j].pc \notin {"idle", "default", "balance"}
        /\ \/ Finish(j) \/ Proceed(j, "checkMonthly") \/ Proceed(j, "transport")
           \/ Proceed(j, "countMonthly") \/ Proceed(j, "cleanup")
    BY <1>2 DEF CheckLimit, Increase, senderVars
  <2> QED
    BY <2>1, DuesMove
<1>3. ASSUME NEW j \in Job,
             CheckFails(j) \/ Refuse(j) \/ Cleanup(j) \/ CountFails(j) \/ Abandon(j)
      PROVE  DuesOK'
  <2>1. /\ sender' = sender /\ managed' = managed
        /\ \/ Finish(j)
           \/ /\ job[j].pc \notin {"idle", "default", "balance"}
              /\ Proceed(j, "transport") \/ (job[j].pays /\ Proceed(j, "charge"))
    BY <1>3 DEF CheckFails, Refuse, Cleanup, CountFails, Abandon, AfterCount, senderVars
  <2> QED
    BY <2>1, DuesMove
<1>4. CASE Tick
  BY <1>4, DuesKept DEF Tick, senderVars, DuesOK
<1> QED
  BY <1>1, <1>2, <1>3, <1>4, DuesStart, DuesSend, DuesChecked, DuesCharged DEF SendNext

(* The handlers of the sender table leave a row alone that no admin        *)
(* handled, but for giving the default balance.                            *)
LEMMA SenderRows ==
    ASSUME SenderTypeOK, SenderNext
    PROVE  /\ managed \subseteq managed'
           /\ \A b \in Addr \ managed' :
                  \/ sender'[b] = sender[b]
                  \/ sender[b] = NoRow /\ sender'[b] # NoRow /\ sender'[b].balance = DefaultBalance
<1>0. sender \in [Addr -> SenderRow \cup {NoRow}]
  BY DEF SenderTypeOK
<1>1. PICK a \in Addr :
        \/ CreateMailbox(a) \/ DeleteMailbox(a) \/ OpenSettings(a) \/ RequestAccess(a)
        \/ \E b \in AdminBalance, on \in BOOLEAN : UpdateSender(a, b, on)
        \/ RemoveSender(a)
  BY DEF SenderNext
<1>2. CASE CreateMailbox(a)
  BY <1>2 DEF CreateMailbox
<1>3. CASE DeleteMailbox(a) \/ RemoveSender(a)
  BY <1>0, <1>3 DEF DeleteMailbox, RemoveSender
<1>4. CASE OpenSettings(a)
  BY <1>4, DefaultRow DEF OpenSettings
<1>5. CASE RequestAccess(a)
  <2>1. [balance |-> DefaultBalance, enabled |-> FALSE] \in [balance: Int, enabled: BOOLEAN]
    BY SenderAssumption
  <2>2. [balance |-> DefaultBalance, enabled |-> FALSE] # NoRow
    BY <2>1, SenderAssumption
  <2> QED
    BY <1>0, <1>5, <2>2, DefaultRow DEF RequestAccess, Inserted
<1>6. ASSUME NEW b \in AdminBalance, NEW on \in BOOLEAN, UpdateSender(a, b, on)
      PROVE  managed' = managed \cup {a} /\ \A c \in Addr \ {a} : sender'[c] = sender[c]
  BY <1>0, <1>6 DEF UpdateSender
<1> QED
  BY <1>1, <1>2, <1>3, <1>4, <1>5, <1>6

LEMMA DuesSender ==
    ASSUME SendInv, SendInv', DuesOK, SenderNext, UNCHANGED sendVars
    PROVE  DuesOK'
<1>1. /\ job' = job /\ SenderTypeOK
      /\ \A j \in Job : job[j].pc = "charge" => job[j].pays
  BY DEF sendVars, SendInv, DuesOK
<1> QED
  BY <1>1, SenderRows, DuesKept

-----------------------------------------------------------------------------
(* Every mail counts *)
Late == {j \in Job : Uncounted(j)}

DailyCount == SumOf(counted["daily"], Time)

MailsOK == Enabled("daily") => sent = DailyCount + missed + Cardinality(Late)

LEMMA CountTypes ==
    ASSUME SendInv
    PROVE  /\ IsFiniteSet(Time) /\ counted["daily"] \in [Time -> Int]
           /\ DailyCount \in Int /\ sent \in Int /\ missed \in Int
           /\ IsFiniteSet(Late) /\ Cardinality(Late) \in Int
<1>1. IsFiniteSet(Time)
  BY SendMailAssumption, FS_Interval DEF Time
<1>2. counted["daily"] \in [Time -> Nat] /\ sent \in Nat /\ missed \in Nat
  BY DEF SendInv, SendTypeOK, Period
<1>3. counted["daily"] \in [Time -> Int]
  BY <1>2
<1>4. DailyCount \in Int
  BY <1>1, <1>3, SumType DEF DailyCount
<1>5. Late \subseteq Job
  BY DEF Late
<1>6. IsFiniteSet(Late) /\ Cardinality(Late) \in Nat
  BY <1>5, SendMailAssumption, FS_Subset, FS_CardinalityType
<1> QED
  BY <1>1, <1>2, <1>3, <1>4, <1>6

(* Run j gets no nearer to being counted, or goes without having been; the *)
(* others stay.                                                            *)
LEMMA MailsMove ==
    ASSUME SendInv, SendInv', MailsOK, NEW j \in Job, \A k \in Job \ {j} : job'[k] = job[k],
           counted'["daily"] = counted["daily"],
           \/ (Uncounted(j)' <=> Uncounted(j)) /\ sent' = sent /\ missed' = missed
           \/ Uncounted(j) /\ ~Uncounted(j)' /\ sent' = sent /\ missed' = missed + 1
           \/ ~Uncounted(j) /\ Uncounted(j)' /\ sent' = sent + 1 /\ missed' = missed
    PROVE  MailsOK'
<1>1. DailyCount' = DailyCount
  BY DEF DailyCount
<1>2. \A k \in Job \ {j} : Uncounted(k)' <=> Uncounted(k)
  BY DEF Uncounted
<1>3. IsFiniteSet(Late) /\ Cardinality(Late) \in Int
  BY CountTypes
<1>4. CASE (Uncounted(j)' <=> Uncounted(j)) /\ sent' = sent /\ missed' = missed
  <2>1. Late' = Late
    BY <1>2, <1>4 DEF Late
  <2> QED
    BY <1>1, <1>4, <2>1 DEF MailsOK, Enabled
<1>5. CASE Uncounted(j) /\ ~Uncounted(j)' /\ sent' = sent /\ missed' = missed + 1
  <2>1. Late' = Late \ {j} /\ j \in Late
    BY <1>2, <1>5 DEF Late
  <2>2. Cardinality(Late') = Cardinality(Late) - 1
    BY <1>3, <2>1, FS_RemoveElement
  <2> QED
    BY <1>1, <1>3, <1>5, <2>2, CountTypes DEF MailsOK, Enabled
<1>6. CASE ~Uncounted(j) /\ Uncounted(j)' /\ sent' = sent + 1 /\ missed' = missed
  <2>1. Late' = Late \cup {j} /\ j \notin Late
    BY <1>2, <1>6 DEF Late
  <2>2. Cardinality(Late') = Cardinality(Late) + 1
    BY <1>3, <2>1, FS_AddElement
  <2> QED
    BY <1>1, <1>3, <1>6, <2>2, CountTypes DEF MailsOK, Enabled
<1> QED
  BY <1>4, <1>5, <1>6

(* The write to the daily counter: the run is counted now. *)
LEMMA MailsCount ==
    ASSUME SendInv, SendInv', MailsOK, NEW j \in Job, Increase(j, "daily")
    PROVE  MailsOK'
<1> SUFFICES ASSUME Enabled("daily") PROVE sent' = DailyCount' + missed' + Cardinality(Late')
  BY DEF MailsOK, Enabled
<1>1. /\ sent' = sent /\ missed' = missed /\ Uncounted(j) /\ ~Uncounted(j)'
      /\ \A k \in Job \ {j} : job'[k] = job[k]
  BY ProceedEffect DEF Increase, Uncounted
<1>2. Late' = Late \ {j} /\ j \in Late
  BY <1>1 DEF Late, Uncounted
<1>3. Cardinality(Late') = Cardinality(Late) - 1
  BY <1>2, CountTypes, FS_RemoveElement
<1>4. PICK k \in Time : k = job[j].key["daily"]
  BY DEF SendInv, SendTypeOK, JobType, Period
<1>5. counted' = [counted EXCEPT !["daily"][k] = @ + 1]
  BY <1>4 DEF Increase
<1>6. PICK f \in [Time -> Int] : f = counted["daily"]
  BY CountTypes
<1>7. PICK e : e = [f EXCEPT ![k] = @ + 1]
  OBVIOUS
<1>8. counted'["daily"] = e
  BY <1>5, <1>6, <1>7 DEF SendInv, SendTypeOK, Period
<1>9. e \in [Time -> Int] /\ e[k] = f[k] + 1 /\ \A t \in Time \ {k} : e[t] = f[t]
  BY <1>4, <1>6, <1>7
<1>10. SumOf(e, Time) = SumOf(f, Time) + 1
  BY <1>9, CountTypes, SumGrows
<1>11. DailyCount' = DailyCount + 1
  BY <1>6, <1>8, <1>10 DEF DailyCount
<1> QED
  BY <1>1, <1>3, <1>11, CountTypes DEF MailsOK

LEMMA MailsStep ==
    ASSUME SendInv, SendInv', MailsOK, SendNext
    PROVE  MailsOK'
<1>1. ASSUME NEW j \in Job, NEW a \in Addr, NEW pays \in BOOLEAN, Start(j, a, pays)
      PROVE  MailsOK'
  <2>1. PICK s \in JobType : s = job[j]
    BY DEF SendInv, SendTypeOK
  <2>2. PICK pc \in {"default", "checkDaily"} : pc = IF pays THEN "default" ELSE "checkDaily"
    OBVIOUS
  <2>3. PICK r : r = [job[j] EXCEPT !.address = a, !.pays = pays, !.pc = pc]
    OBVIOUS
  <2>4. r.pc = pc
    BY <2>1, <2>3 DEF JobType
  <2>5. job' = [job EXCEPT ![j] = r]
    BY <1>1, <2>2, <2>3 DEF Start
  <2>6. job'[j] = r /\ (\A k \in Job \ {j} : job'[k] = job[k]) /\ job[j].pc = "idle"
    BY <1>1, <2>5 DEF SendInv, SendTypeOK, Start
  <2> QED
    BY <1>1, <2>4, <2>6, MailsMove DEF Start, history, Uncounted
<1>2. ASSUME NEW j \in Job,
             \/ \E p \in Period : CheckLimit(j, p)
             \/ EnsureDefault(j) \/ CheckBalance(j) \/ CheckFails(j) \/ Refuse(j)
             \/ Cleanup(j) \/ Charge(j)
      PROVE  MailsOK'
  <2>1. /\ counted' = counted /\ sent' = sent /\ missed' = missed
        /\ job[j].pc \notin {"keys", "countDaily"}
    BY <1>2 DEF CheckLimit, EnsureDefault, CheckBalance, CheckFails, Refuse, Cleanup,
       Charge, history, Period
  <2>2. \/ Finish(j)
        \/ \E pc \in {"balance", "checkDaily", "checkMonthly", "transport", "charge"} :
              Proceed(j, pc)
    BY <1>2 DEF CheckLimit, EnsureDefault, CheckBalance, CheckFails, Refuse, Cleanup,
       Charge, AfterCount
  <2>3. job'[j].pc \notin {"keys", "countDaily"} /\ \A k \in Job \ {j} : job'[k] = job[k]
    BY <2>2, ProceedEffect, FinishEffect
  <2> QED
    BY <2>1, <2>3, MailsMove DEF Uncounted
<1>3. ASSUME NEW j \in Job, NEW verified \in BOOLEAN, Transport(j, verified) PROVE MailsOK'
  <2>1. PICK s \in JobType : s = job[j]
    BY DEF SendInv, SendTypeOK
  <2>2. PICK r : r = [job[j] EXCEPT !.pc = "keys", !.verified = verified]
    OBVIOUS
  <2>3. r.pc = "keys"
    BY <2>1, <2>2 DEF JobType
  <2>4. job' = [job EXCEPT ![j] = r]
    BY <1>3, <2>2 DEF Transport
  <2>5. job'[j] = r /\ (\A k \in Job \ {j} : job'[k] = job[k]) /\ job[j].pc = "transport"
    BY <1>3, <2>4 DEF SendInv, SendTypeOK, Transport
  <2> QED
    BY <1>3, <2>3, <2>5, MailsMove DEF Transport, Uncounted
<1>4. ASSUME NEW j \in Job, TakeKeys(j) PROVE MailsOK'
  <2> SUFFICES ASSUME Enabled("daily") PROVE MailsOK'
    BY DEF MailsOK, Enabled
  <2>1. PICK s \in JobType : s = job[j]
    BY DEF SendInv, SendTypeOK
  <2>2. PICK r : r = [job[j] EXCEPT !.pc = "countDaily", !.key = clock]
    OBVIOUS
  <2>3. r.pc = "countDaily"
    BY <2>1, <2>2 DEF JobType
  <2>4. job' = [job EXCEPT ![j] = r]
    BY <1>4, <2>2 DEF TakeKeys, Period
  <2>5. job'[j] = r /\ (\A k \in Job \ {j} : job'[k] = job[k]) /\ job[j].pc = "keys"
    BY <1>4, <2>4 DEF SendInv, SendTypeOK, TakeKeys
  <2> QED
    BY <1>4, <2>3, <2>5, MailsMove DEF TakeKeys, history, Uncounted
<1>5. ASSUME NEW j \in Job, Increase(j, "monthly") PROVE MailsOK'
  <2>1. counted'["daily"] = counted["daily"]
    BY <1>5 DEF Increase, SendInv, SendTypeOK, Period
  <2>2. /\ job[j].pc = "countMonthly" /\ job'[j].pc = "cleanup"
        /\ \A k \in Job \ {j} : job'[k] = job[k]
    BY <1>5, ProceedEffect DEF Increase
  <2> QED
    BY <1>5, <2>1, <2>2, MailsMove DEF Increase, Uncounted
<1>6. ASSUME NEW j \in Job, CountFails(j) \/ Abandon(j) PROVE MailsOK'
  <2>1. Finish(j) \/ Proceed(j, "charge")
    BY <1>6 DEF CountFails, AfterCount, Abandon
  <2>2. job'[j].pc \notin {"keys", "countDaily"} /\ \A k \in Job \ {j} : job'[k] = job[k]
    BY <2>1, ProceedEffect, FinishEffect
  <2>3. /\ counted' = counted /\ sent' = sent
        /\ missed' = IF job[j].pc \in {"keys", "countDaily"} THEN missed + 1 ELSE missed
    BY <1>6 DEF CountFails, Abandon, Uncounted
  <2> QED
    BY <2>2, <2>3, MailsMove DEF Uncounted
<1>7. ASSUME Tick PROVE MailsOK'
  BY <1>7 DEF Tick, history, MailsOK, Enabled, DailyCount, Late, Uncounted
<1> QED
  BY <1>1, <1>2, <1>3, <1>4, <1>5, <1>6, <1>7, MailsCount DEF SendNext, Period

-----------------------------------------------------------------------------
(* Redeeming *)
LEMMA IdleType == Idle \in ReqType /\ Idle.pc = "idle"
  BY DEF Idle, ReqType

LEMMA RaisedType ==
    ASSUME NEW row \in SenderRow \cup {NoRow}, NEW v \in Value
    PROVE  /\ Raised(row, v) \in SenderRow
           /\ row # NoRow => Raised(row, v).enabled = row.enabled
<1>1. v \in Int
  BY RedeemBalanceAssumption
<1>2. CASE row = NoRow
  BY <1>1, <1>2 DEF Raised, SenderRow
<1>3. CASE row # NoRow
  <2>1. row \in SenderRow /\ Raised(row, v) = [row EXCEPT !.balance = row.balance + v]
    BY <1>3 DEF Raised
  <2> QED
    BY <1>1, <2>1 DEF SenderRow
<1> QED
  BY <1>2, <1>3

(* The two statements as a whole: the code is marked and the amount added  *)
(* if the code may still be claimed, and else nothing happens.             *)
LEMMA Statements ==
    ASSUME NEW row, NEW snd, NEW r, NEW s, s = [row |-> row, sender |-> snd, changes |-> 0]
    PROVE  /\ Claimable(row, r.amount) =>
                /\ Credit(Mark(s, r), r.amount).row = Redeemed(row, r)
                /\ Credit(Mark(s, r), r.amount).sender = Raised(snd, r.amount)
                /\ Credit(Mark(s, r), r.amount).changes = 1
           /\ ~Claimable(row, r.amount) =>
                /\ Credit(Mark(s, r), r.amount).row = row
                /\ Credit(Mark(s, r), r.amount).sender = snd
                /\ Credit(Mark(s, r), r.amount).changes = 0
<1>1. CASE Claimable(row, r.amount)
  <2>1. PICK new : new = Redeemed(row, r)
    OBVIOUS
  <2>2. PICK up : up = Raised(snd, r.amount)
    OBVIOUS
  <2>3. Mark(s, r) = [row |-> new, sender |-> snd, changes |-> 1]
    BY <1>1, <2>1 DEF Mark
  <2>4. Credit(Mark(s, r), r.amount) = [row |-> new, sender |-> up, changes |-> 1]
    BY <2>2, <2>3 DEF Credit
  <2> QED
    BY <1>1, <2>1, <2>2, <2>4
<1>2. CASE ~Claimable(row, r.amount)
  <2>1. Mark(s, r) = [row |-> row, sender |-> snd, changes |-> 0]
    BY <1>2 DEF Mark
  <2>2. Credit(Mark(s, r), r.amount) = [row |-> row, sender |-> snd, changes |-> 0]
    BY <2>1 DEF Credit
  <2> QED
    BY <1>2, <2>2
<1> QED
  BY <1>1, <1>2

(* The result that the transaction of q writes. *)
ResultOf(q) == [address |-> req[q].address, amount |-> req[q].value]

MayRedeem(q) == Claimable(codes[req[q].code], req[q].value)

LEMMA Transaction ==
    ASSUME IInv, NEW q \in Req, req[q].pc = "redeem"
    PROVE  /\ MayRedeem(q) =>
                /\ Committed(q).row = Redeemed(codes[req[q].code], ResultOf(q))
                /\ Committed(q).sender = Raised(sender[req[q].address], req[q].value)
                /\ Committed(q).changes = 1
           /\ ~MayRedeem(q) =>
                /\ Committed(q).row = codes[req[q].code]
                /\ Committed(q).sender = sender[req[q].address]
                /\ Committed(q).changes = 0
<1>1. PICK row, snd, r, s :
        /\ row = codes[req[q].code] /\ snd = sender[req[q].address] /\ r = ResultOf(q)
        /\ s = [row |-> row, sender |-> snd, changes |-> 0]
  OBVIOUS
<1>2. r.amount = req[q].value
  BY <1>1 DEF ResultOf
<1>3. Committed(q) = Credit(Mark(s, r), r.amount)
  BY <1>1, <1>2 DEF Committed, ResultOf
<1> QED
  BY <1>1, <1>2, <1>3, Statements DEF MayRedeem

(* What the transaction does to the two tables. *)
LEMMA CommitEffect ==
    ASSUME IInv, NEW q \in Req, req[q].pc = "redeem", Commit(q)
    PROVE  /\ MayRedeem(q) =>
                /\ codes' = [codes EXCEPT ![req[q].code] = Redeemed(@, ResultOf(q))]
                /\ sender' = [sender EXCEPT ![req[q].address] = Raised(@, req[q].value)]
           /\ ~MayRedeem(q) => UNCHANGED <<codes, sender>>
<1>1. codes \in [CodeId -> RowType(Result)] /\ sender \in [Addr -> SenderRow \cup {NoRow}]
  BY DEF IInv, RedeemInv, RedeemTypeOK, SendInv, SenderTypeOK
<1>2. CASE MayRedeem(q)
  BY <1>2, Transaction DEF Commit
<1>3. CASE ~MayRedeem(q)
  <2>1. /\ codes' = [codes EXCEPT ![req[q].code] = codes[req[q].code]]
        /\ sender' = [sender EXCEPT ![req[q].address] = sender[req[q].address]]
    BY <1>3, Transaction DEF Commit
  <2> QED
    BY <1>1, <1>3, <2>1
<1> QED
  BY <1>2, <1>3

(* The transaction that redeems a code, seen from the tables. *)
LEMMA SuccessEffect ==
    ASSUME IInv, NEW q \in Req, req[q].pc = "redeem", Commit(q), MayRedeem(q)
    PROVE  LET c == req[q].code  a == req[q].address  v == req[q].value  r == ResultOf(q) IN
           /\ c \in CodeId /\ a \in Addr /\ v \in Value /\ r.amount = v /\ r.address = a
           /\ codes' \in [CodeId -> RowType(Result)] /\ TableOK'
           /\ codes'[c].redeemed /\ codes'[c].result = r /\ ~codes[c].redeemed
           /\ \A d \in CodeId \ {c} : codes'[d] = codes[d]
           /\ \A d \in CodeId : OfferOf(d)' = OfferOf(d)
           /\ OfferOf(c) = v
           /\ sender' \in [Addr -> SenderRow \cup {NoRow}]
           /\ \A b \in Addr : sender[b] # NoRow /\ sender'[b] # NoRow =>
                                   sender'[b].enabled = sender[b].enabled
<1>1. PICK c, a, v, r :
        c = req[q].code /\ a = req[q].address /\ v = req[q].value /\ r = ResultOf(q)
  OBVIOUS
<1>2. c \in CodeId /\ a \in Addr /\ v \in Value
  BY <1>1 DEF IInv, RedeemInv, ReqOK
<1>3. r \in Result /\ r.amount = v /\ r.address = a
  BY <1>1, <1>2 DEF ResultOf, Result
<1>4. /\ codes' = [codes EXCEPT ![c] = Redeemed(@, r)]
      /\ sender' = [sender EXCEPT ![a] = Raised(@, v)]
  BY <1>1, CommitEffect
<1>5. Claimable(codes[c], v)
  BY <1>1 DEF MayRedeem
<1>6. /\ codes \in [CodeId -> RowType(Result)] /\ TableOK /\ None \notin Result
      /\ sender \in [Addr -> SenderRow \cup {NoRow}]
  BY RedeemBalanceAssumption DEF IInv, RedeemInv, RedeemTypeOK, SendInv, SenderTypeOK
<1>7. /\ codes' \in [CodeId -> RowType(Result)] /\ TableOK'
      /\ codes'[c].redeemed /\ codes'[c].result = r /\ ~codes[c].redeemed
      /\ \A d \in CodeId \ {c} : codes'[d] = codes[d]
      /\ \A d \in CodeId : OfferOf(d)' = OfferOf(d)
      /\ OfferOf(c) = v
  BY <1>2, <1>3, <1>4, <1>5, <1>6, RedeemStep
<1>8. PICK new : new = Raised(sender[a], v)
  OBVIOUS
<1>9. new \in SenderRow /\ (sender[a] # NoRow => new.enabled = sender[a].enabled)
  BY <1>2, <1>6, <1>8, RaisedType
<1>10. sender' = [sender EXCEPT ![a] = new]
  BY <1>4, <1>8
<1>11. /\ sender' \in [Addr -> SenderRow \cup {NoRow}]
       /\ \A b \in Addr : sender[b] # NoRow /\ sender'[b] # NoRow =>
                               sender'[b].enabled = sender[b].enabled
  BY <1>2, <1>6, <1>9, <1>10
<1> QED
  BY <1>1, <1>2, <1>3, <1>7, <1>11

-----------------------------------------------------------------------------
(* A request moves; the codes stay. *)
LEMMA RequestMoves ==
    ASSUME RedeemInv, codes' \in [CodeId -> RowType(Result)], TableOK',
           NEW q \in Req, NEW r \in ReqType, ReqOK(r), req' = [req EXCEPT ![q] = r]
    PROVE  RedeemInv'
<1>1. \A p \in Req : req'[p] = IF p = q THEN r ELSE req[p]
  BY DEF RedeemInv, RedeemTypeOK
<1>2. RedeemTypeOK'
  BY DEF RedeemInv, RedeemTypeOK
<1> QED
  BY <1>1, <1>2 DEF RedeemInv, ReqOK

LEMMA StopKeeps ==
    ASSUME RedeemInv, codes' \in [CodeId -> RowType(Result)], TableOK',
           NEW q \in Req, NEW pc \in {"idle", "ok", "refused"}, Stop(q, pc)
    PROVE  RedeemInv'
<1>1. PICK r : r = [Idle EXCEPT !.pc = pc]
  OBVIOUS
<1>2. r \in ReqType /\ r.pc = pc
  BY <1>1, IdleType DEF ReqType
<1>3. ReqOK(r)
  BY <1>2 DEF ReqOK
<1>4. req' = [req EXCEPT ![q] = r]
  BY <1>1 DEF Stop
<1> QED
  BY <1>2, <1>3, <1>4, RequestMoves

LEMMA GotoKeeps ==
    ASSUME RedeemInv, codes' \in [CodeId -> RowType(Result)], TableOK',
           NEW q \in Req, req[q].pc \in {"check", "ensure"}, NEW pc \in {"ensure", "redeem"},
           Goto(q, pc)
    PROVE  RedeemInv'
<1>1. PICK r : r = [req[q] EXCEPT !.pc = pc]
  OBVIOUS
<1>2. req[q] \in ReqType /\ ReqOK(req[q])
  BY DEF RedeemInv, RedeemTypeOK
<1>3. r \in ReqType /\ ReqOK(r)
  BY <1>1, <1>2 DEF ReqType, ReqOK
<1>4. req' = [req EXCEPT ![q] = r]
  BY <1>1 DEF Goto
<1> QED
  BY <1>3, <1>4, RequestMoves

LEMMA LookupKeeps ==
    ASSUME RedeemInv, NEW q \in Req, NEW c \in CodeId, NEW a \in Addr, Lookup(q, c, a)
    PROVE  RedeemInv'
<1>1. /\ req[q] \in ReqType /\ codes[c] \in RowType(Result)
      /\ codes' \in [CodeId -> RowType(Result)] /\ TableOK'
  BY DEF RedeemInv, RedeemTypeOK, Lookup, TableOK
<1>2. CASE req' = [req EXCEPT ![q] = [@ EXCEPT !.pc = "check", !.code = c, !.address = a,
                                               !.value = codes[c].value]]
  <2>1. PICK r : r = [req[q] EXCEPT !.pc = "check", !.code = c, !.address = a,
                                    !.value = codes[c].value]
    OBVIOUS
  <2>2. r \in ReqType /\ ReqOK(r)
    BY <1>1, <2>1 DEF ReqType, RowType, ReqOK
  <2> QED
    BY <1>1, <1>2, <2>1, <2>2, RequestMoves
<1> QED
  BY <1>1, <1>2, StopKeeps DEF Lookup

(* Redemption keeps the invariant of both parts. *)
LEMMA RedeemKeeps == IInv /\ RedeemNext /\ UNCHANGED sendVars => IInv'
<1> SUFFICES ASSUME IInv, RedeemNext, UNCHANGED sendVars PROVE IInv'
  OBVIOUS
<1>1. /\ RedeemInv /\ SenderTypeOK
      /\ codes \in [CodeId -> RowType(Result)] /\ TableOK
  BY DEF IInv, SendInv, RedeemInv, RedeemTypeOK
<1>2. UNCHANGED senderVars => SenderTypeOK'
  BY <1>1 DEF senderVars, SenderTypeOK
<1>3. UNCHANGED codes => codes' \in [CodeId -> RowType(Result)] /\ TableOK'
  BY <1>1 DEF TableOK
<1>4. ASSUME NEW q \in Req, NEW c \in CodeId, NEW a \in Addr, Lookup(q, c, a)
      PROVE  RedeemInv' /\ SenderTypeOK'
  BY <1>1, <1>2, <1>4, LookupKeeps DEF Lookup
<1>5. ASSUME NEW q \in Req, CheckAddress(q) PROVE RedeemInv' /\ SenderTypeOK'
  BY <1>1, <1>2, <1>3, <1>5, GotoKeeps, StopKeeps DEF CheckAddress
<1>6. ASSUME NEW q \in Req, Ensure(q) PROVE RedeemInv' /\ SenderTypeOK'
  <2>1. SenderTypeOK'
    BY <1>1, <1>6, DefaultType DEF Ensure, SenderTypeOK
  <2> QED
    BY <1>1, <1>3, <1>6, <2>1, GotoKeeps DEF Ensure
<1>7. ASSUME NEW q \in Req, Redeem(q) \/ Cancel(q) PROVE RedeemInv' /\ SenderTypeOK'
  <2>1. /\ Stop(q, "ok") \/ Stop(q, "refused") \/ Stop(q, "idle")
        /\ UNCHANGED <<mailbox, managed>>
        /\ UNCHANGED <<codes, sender>> \/ (req[q].pc = "redeem" /\ Commit(q))
    BY <1>7 DEF Redeem, Cancel
  <2>2. /\ codes' \in [CodeId -> RowType(Result)] /\ TableOK'
        /\ sender' \in [Addr -> SenderRow \cup {NoRow}]
    <3>1. CASE UNCHANGED <<codes, sender>>
      BY <1>1, <1>3, <3>1 DEF SenderTypeOK
    <3>2. CASE req[q].pc = "redeem" /\ Commit(q) /\ MayRedeem(q)
      BY <3>2, SuccessEffect
    <3>3. CASE req[q].pc = "redeem" /\ Commit(q) /\ ~MayRedeem(q)
      BY <1>1, <1>3, <3>3, CommitEffect DEF SenderTypeOK
    <3> QED
      BY <2>1, <3>1, <3>2, <3>3
  <2> QED
    BY <1>1, <2>1, <2>2, StopKeeps DEF SenderTypeOK
<1>8. RedeemInv' /\ SenderTypeOK'
  BY <1>4, <1>5, <1>6, <1>7 DEF RedeemNext
<1> QED
  BY <1>8, SendKept DEF IInv

-----------------------------------------------------------------------------
LEMMA InvInit == Init => IInv
<1> SUFFICES ASSUME Init PROVE IInv
  OBVIOUS
<1>1. SendInv
  BY SendStart DEF Init, AllInit
<1>2. RedeemInv
  BY TableInitOK, IdleType DEF Init, RedeemInit, RedeemInv, RedeemTypeOK, ReqOK
<1> QED
  BY <1>1, <1>2 DEF IInv

LEMMA InvStep == IInv /\ [Next]_vars => IInv'
<1> SUFFICES ASSUME IInv, [Next]_vars PROVE IInv'
  OBVIOUS
<1>1. ASSUME UNCHANGED redeemVars PROVE RedeemInv'
  BY <1>1 DEF redeemVars, IInv, RedeemInv, RedeemTypeOK, TableOK, ReqOK
<1>2. CASE RedeemNext /\ UNCHANGED sendVars
  BY <1>2, RedeemKeeps
<1>3. CASE AdminNext /\ UNCHANGED sendVars
  <2>1. codes' \in [CodeId -> RowType(Result)] /\ TableOK' /\ UNCHANGED <<req, senderVars>>
    BY <1>3, TableStep DEF AdminNext, IInv, RedeemInv, RedeemTypeOK
  <2>2. RedeemInv'
    BY <2>1 DEF IInv, RedeemInv, RedeemTypeOK, ReqOK
  <2>3. SendInv'
    BY <1>3, <2>1, SendKept DEF IInv, SendInv, SenderTypeOK, senderVars
  <2> QED
    BY <2>2, <2>3 DEF IInv
<1>4. CASE SendNext /\ UNCHANGED redeemVars
  BY <1>1, <1>4, SendKeeps DEF IInv
<1>5. CASE SenderNext /\ UNCHANGED <<redeemVars, sendVars>>
  BY <1>1, <1>5, SenderKeepsType, SendKept DEF IInv, SendInv
<1>6. CASE UNCHANGED vars
  BY <1>1, <1>6, SendKept DEF vars, IInv, SendInv, SenderTypeOK, senderVars
<1> QED
  BY <1>2, <1>3, <1>4, <1>5, <1>6 DEF Next

(* Redemptions, mails and the admin keep every variable's type. *)
THEOREM TypeCorrect == Spec => []CreditsTypeOK
<1>1. IInv => CreditsTypeOK
  BY DEF IInv, SendInv, RedeemInv, CreditsTypeOK, TypeOK
<1> QED
  BY <1>1, InvInit, InvStep, PTL DEF Spec

LEMMA SendAlone ==
    SendInv /\ [SendNext \/ (SenderNext /\ UNCHANGED sendVars)]_AllVars => SendInv'
<1> SUFFICES ASSUME SendInv, [SendNext \/ (SenderNext /\ UNCHANGED sendVars)]_AllVars
             PROVE  SendInv'
  OBVIOUS
<1>1. CASE SenderNext /\ UNCHANGED sendVars
  BY <1>1, SenderKeepsType, SendKept DEF SendInv
<1>2. CASE UNCHANGED AllVars
  BY <1>2, SendKept DEF AllVars, SendInv, SenderTypeOK, senderVars
<1> QED
  BY <1>1, <1>2, SendKeeps

(* Whatever mail runs its cleanup, and however late, the counter of the    *)
(* period that is on counts every increment                                *)
(* (send_mail_limit_utils.ts:109-126).                                     *)
THEOREM CurrentKept == SendSpec => []CurrentCountKept
<1>1. SendInv => CurrentCountKept
  <2> SUFFICES ASSUME SendInv, NEW p \in Period
               PROVE  count[p][clock[p]] = counted[p][clock[p]]
    BY DEF CurrentCountKept
  <2>1. clock[p] \in Time /\ clock[p] <= clock[p]
    BY SendMailAssumption DEF SendInv, SendTypeOK, Time
  <2> QED
    BY <2>1 DEF SendInv, CountOK
<1> QED
  BY <1>1, SendAlone, SendStart, PTL DEF SendSpec

(* However the checks and the counts of concurrent mails interleave, and    *)
(* however late a mail counts, a limit is exceeded by no more than the     *)
(* other runs and the checks that failed (send_mail_limit_utils.ts:128).   *)
THEOREM LimitHolds == SendSpec => []OvershootBounded
<1> DEFINE Inv == SendInv /\ \A p \in Period : LimitOK(p)
<1>1. AllInit => Inv
  <2> SUFFICES ASSUME AllInit, NEW p \in Period PROVE LimitOK(p)
    BY SendStart
  <2>1. /\ clock[p] \in Time /\ count[p][clock[p]] = 0 /\ passed = 0
        /\ \A t \in Time : count[p][t] = 0
    BY SendStart DEF SendInv, SendTypeOK, AllInit, SendInit
  <2>2. Pending(p) = {}
    BY RestingType DEF Pending, IsPending, AllInit, SendInit
  <2>3. Cardinality(Pending(p)) = 0 /\ Cardinality(Job) \in Nat /\ Cardinality(Job) >= 1
    BY <2>2, Sizes
  <2> QED
    BY <2>1, <2>3 DEF LimitOK
<1>2. Inv /\ [SendNext \/ (SenderNext /\ UNCHANGED sendVars)]_AllVars => Inv'
  <2> SUFFICES ASSUME Inv, [SendNext \/ (SenderNext /\ UNCHANGED sendVars)]_AllVars
               PROVE  Inv'
    OBVIOUS
  <2>1. SendInv'
    BY SendAlone
  <2>2. ASSUME NEW p \in Period PROVE LimitOK(p)'
    <3>1. CASE SendNext
      BY <2>1, <3>1, LimitStep
    <3>2. CASE UNCHANGED sendVars
      BY <3>2 DEF LimitOK, Pending, IsPending, sendVars, history
    <3> QED
      BY <3>1, <3>2 DEF AllVars
  <2> QED
    BY <2>1, <2>2
<1>3. Inv => OvershootBounded
  <2> SUFFICES ASSUME Inv, NEW p \in Period, Limit[p] \in Nat
               PROVE  count[p][clock[p]] <= Limit[p] + (Cardinality(Job) - 1) + passed
    BY DEF OvershootBounded
  <2>1. count[p][clock[p]] \in Nat /\ passed \in Nat
    BY DEF SendInv, SendTypeOK
  <2>2. Cardinality(Pending(p)) \in Nat /\ Cardinality(Job) \in Nat
    <3>1. Pending(p) \in SUBSET Job
      BY DEF Pending
    <3> QED
      BY <3>1, Sizes
  <2> QED
    BY <2>1, <2>2 DEF LimitOK
<1> QED
  BY <1>1, <1>2, <1>3, PTL DEF SendSpec

(* However many runs pass the balance check together, the balance of a     *)
(* mailbox that no admin handled goes below zero by no more than the runs  *)
(* beyond the first (send_mail_api.ts:151-158, 216-228).                   *)
THEOREM OverdraftHolds == SendSpec => []OverdraftBounded
<1> DEFINE Inv == SendInv /\ DuesOK
<1>1. AllInit => Inv
  BY SendStart, RestingType DEF AllInit, SendInit, SenderInit, DuesOK, Due, IsDue
<1>2. Inv /\ [SendNext \/ (SenderNext /\ UNCHANGED sendVars)]_AllVars => Inv'
  <2> SUFFICES ASSUME Inv, [SendNext \/ (SenderNext /\ UNCHANGED sendVars)]_AllVars
               PROVE  Inv'
    OBVIOUS
  <2>1. SendInv'
    BY SendAlone
  <2>2. CASE UNCHANGED AllVars
    BY <2>1, <2>2 DEF AllVars, senderVars, sendVars, DuesOK, Due
  <2> QED
    BY <2>1, <2>2, DuesStep, DuesSender
<1>3. Inv => OverdraftBounded
  <2> SUFFICES ASSUME Inv, NEW a \in Addr, sender[a] # NoRow, a \notin managed
               PROVE  sender[a].balance > -Cardinality(Job)
    BY DEF OverdraftBounded
  <2>1. sender[a].balance \in Int
    BY DEF SendInv, SenderTypeOK, SenderRow
  <2>2. Cardinality(Due(a)) \in Nat /\ Cardinality(Job) \in Nat
    <3>1. Due(a) \in SUBSET Job
      BY DEF Due
    <3> QED
      BY <3>1, Sizes
  <2> QED
    BY <2>1, <2>2 DEF DuesOK
<1> QED
  BY <1>1, <1>2, <1>3, PTL DEF SendSpec

(* Every mail that leaves is in the daily counter, or about to be, or one  *)
(* of those whose counting failed: nothing counts twice and nothing slips  *)
(* by (send_mail_limit_utils.ts:128-155, send_mail_api.ts:216-228).        *)
THEOREM EveryMail == SendSpec => []EveryMailCounts
<1> DEFINE Inv == SendInv /\ MailsOK
<1>1. AllInit => Inv
  <2> SUFFICES ASSUME AllInit PROVE MailsOK
    BY SendStart
  <2>1. SendInv
    BY SendStart
  <2>2. Late = {}
    BY RestingType DEF AllInit, SendInit, Late, Uncounted
  <2>3. sent = 0 /\ missed = 0 /\ Cardinality(Late) = 0
    BY <2>2, FS_EmptySet DEF AllInit, SendInit
  <2>4. \A t \in Time : counted["daily"][t] = 0
    BY DEF AllInit, SendInit, Period
  <2>5. DailyCount = 0
    BY <2>1, <2>4, CountTypes, SumZero DEF DailyCount
  <2> QED
    BY <2>3, <2>5 DEF MailsOK
<1>2. Inv /\ [SendNext \/ (SenderNext /\ UNCHANGED sendVars)]_AllVars => Inv'
  <2> SUFFICES ASSUME Inv, [SendNext \/ (SenderNext /\ UNCHANGED sendVars)]_AllVars
               PROVE  Inv'
    OBVIOUS
  <2>1. SendInv'
    BY SendAlone
  <2>2. CASE UNCHANGED sendVars
    BY <2>1, <2>2 DEF sendVars, history, MailsOK, Enabled, DailyCount, Late, Uncounted
  <2> QED
    BY <2>1, <2>2, MailsStep DEF AllVars
<1>3. Inv => EveryMailCounts
  BY DEF EveryMailCounts, MailsOK, DailyCount, SumOf, Late
<1> QED
  BY <1>1, <1>2, <1>3, PTL DEF SendSpec

(* Neither a redemption nor a mail nor the owner enables a mailbox that an *)
(* admin has disabled (redeem_code.ts:305-310, send_balance.ts:17-22).     *)
THEOREM OnlyAdmin == Spec => OnlyAdminEnables
<1> DEFINE Enables ==
        \A a \in Addr :
            sender[a] # NoRow /\ sender'[a] # NoRow /\ ~sender[a].enabled /\ sender'[a].enabled
                => \E b \in AdminBalance : UpdateSender(a, b, TRUE)
<1>1. IInv /\ [Next]_vars => Enables
  <2> SUFFICES ASSUME IInv, [Next]_vars, NEW a \in Addr, sender[a] # NoRow, sender'[a] # NoRow,
                      ~sender[a].enabled, sender'[a].enabled
               PROVE  \E b \in AdminBalance : UpdateSender(a, b, TRUE)
    OBVIOUS
  <2>0. SenderTypeOK /\ sender \in [Addr -> SenderRow \cup {NoRow}] /\ sender[a] \in SenderRow
    BY DEF IInv, SendInv, SenderTypeOK
  <2>1. sender'[a].enabled # sender[a].enabled
    OBVIOUS
  <2>2. \A b : sender' # WithDefault(b)
    BY <2>0, <2>1, DefaultType
  <2>3. ASSUME NEW q \in Req, req[q].pc = "redeem", Commit(q) PROVE FALSE
    BY <2>1, <2>3, SuccessEffect, CommitEffect
  <2>4. ~RedeemNext
    BY <2>1, <2>2, <2>3 DEF RedeemNext, Lookup, CheckAddress, Ensure, Redeem, Cancel, senderVars
  <2>5. ASSUME NEW j \in Job, Charge(j) PROVE FALSE
    <3>1. PICK b \in Addr : b = job[j].address
      BY <2>5 DEF Charge, IInv, SendInv, JobOK
    <3>2. PICK n : sender' = sender \/ sender' = [sender EXCEPT ![b].balance = n]
      BY <2>5, <3>1 DEF Charge
    <3> QED
      BY <2>0, <2>1, <3>1, <3>2 DEF SenderRow
  <2>6. ~SendNext
    BY <2>1, <2>2, <2>5 DEF SendNext, Start, CheckLimit, Increase, Transport, EnsureDefault,
       CheckBalance, CheckFails, Refuse, TakeKeys, Cleanup, CountFails, Abandon, Tick, senderVars
  <2>7. ~AdminNext /\ ~UNCHANGED vars
    BY <2>1 DEF AdminNext, vars, senderVars
  <2>8. PICK d \in Addr :
             \/ CreateMailbox(d) \/ DeleteMailbox(d) \/ OpenSettings(d) \/ RequestAccess(d)
             \/ \E b \in AdminBalance, on \in BOOLEAN : UpdateSender(d, b, on)
             \/ RemoveSender(d)
    BY <2>4, <2>6, <2>7 DEF Next, SenderNext
  <2>9. ~(CreateMailbox(d) \/ DeleteMailbox(d) \/ RemoveSender(d))
    BY <2>0, <2>1 DEF CreateMailbox, DeleteMailbox, RemoveSender
  <2>10. ~(OpenSettings(d) \/ RequestAccess(d))
    BY <2>0, <2>1, <2>2 DEF OpenSettings, RequestAccess, Inserted
  <2>11. PICK b \in AdminBalance, on \in BOOLEAN : UpdateSender(d, b, on)
    BY <2>8, <2>9, <2>10
  <2>12. d = a /\ on = TRUE
    BY <2>0, <2>1, <2>11 DEF UpdateSender
  <2> QED
    BY <2>11, <2>12
<1>2. IInv /\ [Next]_vars => [Enables]_vars
  BY <1>1
<1> QED
  BY <1>2, InvInit, InvStep, PTL DEF Spec, OnlyAdminEnables

-----------------------------------------------------------------------------
(* The balance adds up *)

(* Who pays has a row, unless an admin took it away; so has the mailbox a  *)
(* code is about to be redeemed to, if there is a default balance.         *)
PayerOK(r) ==
    /\ r.pc = "charge" => r.pays /\ ~r.verified
    /\ r.pays /\ r.pc \notin {"idle", "default", "balance"} /\ r.address \notin managed =>
            sender[r.address] # NoRow

RowsOK ==
    /\ \A j \in Job : PayerOK(job[j])
    /\ \A q \in Req : req[q].pc = "redeem" /\ req[q].address \notin managed /\ DefaultBalance > 0
            => sender[req[q].address] # NoRow

Amount == [c \in CodeId |-> codes[c].result.amount]

AddsUp(a) ==
    /\ IsFiniteSet(RedeemedTo(a))
    /\ IF sender[a] = NoRow
       THEN RedeemedTo(a) = {} /\ Charged(a) = 0
       ELSE sender[a].balance = DefaultBalance + SumOf(Amount, RedeemedTo(a)) - Charged(a)

BalanceInv == IInv /\ RowsOK /\ \A a \in Addr \ managed : AddsUp(a)

(* The sum in BalanceAddsUp adds the same amounts.                         *)
LEMMA CreditsSum ==
    ASSUME NEW a, IsFiniteSet(RedeemedTo(a))
    PROVE  MapThenSumSet(LAMBDA c : codes[c].result.amount, RedeemedTo(a))
                = SumOf(Amount, RedeemedTo(a))
<1> DEFINE S == RedeemedTo(a)
           Fits(g) == g = [s \in SUBSET S |->
                             IF s = {} THEN 0
                             ELSE codes[Chosen(s)].result.amount + g[s \ {Chosen(s)}]]
<1>1. MapThenSumSet(LAMBDA c : codes[c].result.amount, S) = (CHOOSE g : Fits(g))[S]
  BY DEF MapThenSumSet, MapThenFoldSet, Chosen
<1>2. \A s \in SUBSET S : s # {} => Amount[Chosen(s)] = codes[Chosen(s)].result.amount
  BY DEF Amount, RedeemedTo, Chosen
<1> HIDE DEF S
<1>3. \A g : Fits(g) <=> IsSum(g, Amount, S)
  BY <1>2 DEF IsSum
<1> HIDE DEF Fits
<1>4. PICK g : IsSum(g, Amount, S)
  BY SumExists DEF S
<1>5. PICK h : h = CHOOSE e : Fits(e)
  OBVIOUS
<1>6. IsSum(h, Amount, S)
  BY <1>3, <1>4, <1>5
<1>7. PICK k : k = (CHOOSE e : IsSum(e, Amount, S))
  OBVIOUS
<1>8. IsSum(k, Amount, S)
  BY <1>4, <1>7
<1>9. h[S] = k[S]
  BY <1>6, <1>8, SumUnique DEF S
<1> QED
  BY <1>1, <1>5, <1>7, <1>9, SumDef DEF S

(* No step but the admin's takes a row away. *)
LEMMA RowsStay ==
    ASSUME IInv, IInv', [Next]_vars
    PROVE  /\ managed \subseteq managed'
           /\ \A a \in Addr \ managed' : sender[a] # NoRow => sender'[a] # NoRow
<1>0. /\ SenderTypeOK /\ sender \in [Addr -> SenderRow \cup {NoRow}]
      /\ NoRow \notin SenderRow
  BY SenderAssumption DEF IInv, SendInv, SenderTypeOK, SenderRow
<1>1. CASE SenderNext
  BY <1>0, <1>1, SenderRows
<1>2. CASE SendNext
  <2>1. managed' = managed
    BY <1>2 DEF SendNext, Start, CheckLimit, Increase, Transport, EnsureDefault, CheckBalance,
       CheckFails, Refuse, TakeKeys, Cleanup, CountFails, Charge, Abandon, Tick, senderVars
  <2>2. CASE \E j \in Job : EnsureDefault(j)
    BY <1>0, <2>1, <2>2, DefaultType DEF EnsureDefault
  <2>3. ASSUME NEW j \in Job, Charge(j) PROVE \A a \in Addr : sender[a] # NoRow => sender'[a] # NoRow
    <3>1. PICK b \in Addr : b = job[j].address
      BY <2>3 DEF Charge, IInv, SendInv, JobOK
    <3>2. CASE sender' = sender
      BY <3>2
    <3>3. CASE sender[b] # NoRow /\ sender' = [sender EXCEPT ![b].balance = @ - 1]
      <4>1. PICK row \in SenderRow : row = sender[b]
        BY <1>0, <3>3
      <4>2. PICK new : new = [row EXCEPT !.balance = row.balance - 1]
        OBVIOUS
      <4>3. new \in SenderRow
        BY <4>1, <4>2 DEF SenderRow
      <4>4. sender' = [sender EXCEPT ![b] = new]
        BY <3>3, <4>1, <4>2
      <4> QED
        BY <1>0, <4>3, <4>4
    <3> QED
      BY <2>3, <3>1, <3>2, <3>3 DEF Charge
  <2>4. sender' = sender \/ (\E j \in Job : EnsureDefault(j) \/ Charge(j))
    BY <1>2 DEF SendNext, Start, CheckLimit, Increase, Transport, CheckBalance,
       CheckFails, Refuse, TakeKeys, Cleanup, CountFails, Abandon, Tick, senderVars
  <2> QED
    BY <2>1, <2>2, <2>3, <2>4
<1>3. CASE RedeemNext
  <2>1. managed' = managed
    BY <1>3 DEF RedeemNext, Lookup, CheckAddress, Ensure, Redeem, Cancel, senderVars
  <2>2. CASE \E q \in Req : Ensure(q)
    BY <1>0, <2>1, <2>2, DefaultType DEF Ensure
  <2>3. ASSUME NEW q \in Req, req[q].pc = "redeem", Commit(q)
        PROVE  \A a \in Addr : sender[a] # NoRow => sender'[a] # NoRow
    <3>1. CASE ~MayRedeem(q)
      BY <2>3, <3>1, CommitEffect
    <3>2. CASE MayRedeem(q)
      <4>1. PICK a \in Addr, v \in Value : a = req[q].address /\ v = req[q].value
        BY <2>3, <3>2, SuccessEffect
      <4>2. PICK new \in SenderRow : new = Raised(sender[a], v)
        BY <1>0, <4>1, RaisedType
      <4>3. sender' = [sender EXCEPT ![a] = new]
        BY <2>3, <3>2, <4>1, <4>2, CommitEffect
      <4> QED
        BY <1>0, <4>3
    <3> QED
      BY <3>1, <3>2
  <2>4. sender' = sender \/ (\E q \in Req : Ensure(q) \/ (req[q].pc = "redeem" /\ Commit(q)))
    BY <1>3 DEF RedeemNext, Lookup, CheckAddress, Redeem, Cancel, senderVars
  <2> QED
    BY <2>1, <2>2, <2>3, <2>4
<1>4. CASE AdminNext \/ UNCHANGED vars
  BY <1>4 DEF AdminNext, vars, senderVars
<1> QED
  BY <1>1, <1>2, <1>3, <1>4 DEF Next

(* Run j moves to r, and r may be charged if it comes to that.             *)
LEMMA PayersMove ==
    ASSUME IInv, IInv', [Next]_vars, \A k \in Job : PayerOK(job[k]),
           NEW j \in Job, \A k \in Job \ {j} : job'[k] = job[k],
           PayerOK(job[j])'
    PROVE  \A k \in Job : PayerOK(job[k])'
<1>1. /\ managed \subseteq managed'
      /\ \A a \in Addr \ managed' : sender[a] # NoRow => sender'[a] # NoRow
  BY RowsStay
<1>2. ASSUME NEW k \in Job \ {j} PROVE PayerOK(job[k])'
  <2>1. job[k].pc # "idle" => job[k].address \in Addr
    BY DEF IInv, SendInv, JobOK
  <2> QED
    BY <1>1, <2>1 DEF PayerOK
<1> QED
  BY <1>2

(* A run past the balance check goes on or ends. *)
LEMMA PayersGo ==
    ASSUME IInv, IInv', [Next]_vars, \A k \in Job : PayerOK(job[k]), NEW j \in Job,
           \/ Finish(j)
           \/ \E pc : /\ Proceed(j, pc)
                      /\ pc = "charge" => job[j].pays /\ ~job[j].verified
                      /\ job[j].pc \in {"idle", "default", "balance"} => pc = "balance"
    PROVE  \A k \in Job : PayerOK(job[k])'
<1>0. SendInv
  BY DEF IInv
<1>1. CASE Finish(j)
  <2>1. job'[j].pc = "idle" /\ \A k \in Job \ {j} : job'[k] = job[k]
    BY <1>0, <1>1, FinishEffect
  <2> QED
    BY <2>1, PayersMove DEF PayerOK
<1>2. ASSUME NEW pc, Proceed(j, pc), pc = "charge" => job[j].pays /\ ~job[j].verified,
             job[j].pc \in {"idle", "default", "balance"} => pc = "balance"
      PROVE  \A k \in Job : PayerOK(job[k])'
  <2>1. /\ job'[j].pc = pc /\ job'[j].address = job[j].address /\ job'[j].pays = job[j].pays
        /\ job'[j].verified = job[j].verified /\ \A k \in Job \ {j} : job'[k] = job[k]
    BY <1>0, <1>2, ProceedEffect
  <2>2. /\ managed \subseteq managed'
        /\ \A a \in Addr \ managed' : sender[a] # NoRow => sender'[a] # NoRow
    BY RowsStay
  <2>3. job[j].pc # "idle" => job[j].address \in Addr
    BY <1>0 DEF SendInv, JobOK
  <2>4. PayerOK(job[j])'
    BY <1>2, <2>1, <2>2, <2>3 DEF PayerOK
  <2> QED
    BY <2>1, <2>4, PayersMove
<1> QED
  BY <1>1, <1>2

LEMMA PayersStep ==
    ASSUME IInv, IInv', [Next]_vars, \A k \in Job : PayerOK(job[k]), SendNext
    PROVE  \A k \in Job : PayerOK(job[k])'
<1>0. SendInv
  BY DEF IInv
<1>1. ASSUME NEW j \in Job, NEW a \in Addr, NEW pays \in BOOLEAN, Start(j, a, pays)
      PROVE  \A k \in Job : PayerOK(job[k])'
  <2>1. PICK s \in JobType : s = job[j]
    BY <1>0 DEF SendInv, SendTypeOK
  <2>2. PICK pc : pc = IF pays THEN "default" ELSE "checkDaily"
    OBVIOUS
  <2>3. PICK r : r = [job[j] EXCEPT !.address = a, !.pays = pays, !.pc = pc]
    OBVIOUS
  <2>4. r.pc = pc /\ r.pays = pays
    BY <2>1, <2>3 DEF JobType
  <2>5. job' = [job EXCEPT ![j] = r]
    BY <1>1, <2>2, <2>3 DEF Start
  <2>6. job'[j] = r /\ \A k \in Job \ {j} : job'[k] = job[k]
    BY <1>0, <2>5 DEF SendInv, SendTypeOK
  <2> QED
    BY <2>2, <2>4, <2>6, PayersMove DEF PayerOK
<1>2. ASSUME NEW j \in Job, CheckBalance(j) PROVE \A k \in Job : PayerOK(job[k])'
  <2>1. CASE Finish(j)
    BY <2>1, PayersGo
  <2>2. CASE Proceed(j, "checkDaily") /\ MayPay(job[j].address)
    <3>1. /\ job'[j].pc = "checkDaily" /\ job'[j].address = job[j].address
          /\ \A k \in Job \ {j} : job'[k] = job[k]
      BY <1>0, <2>2, ProceedEffect
    <3>2. sender' = sender /\ sender[job[j].address] # NoRow
      BY <1>2, <2>2 DEF CheckBalance, senderVars, MayPay
    <3> QED
      BY <3>1, <3>2, PayersMove DEF PayerOK
  <2> QED
    BY <1>2, <2>1, <2>2 DEF CheckBalance
<1>3. ASSUME NEW j \in Job, NEW verified \in BOOLEAN, Transport(j, verified)
      PROVE  \A k \in Job : PayerOK(job[k])'
  <2>1. PICK s \in JobType : s = job[j]
    BY <1>0 DEF SendInv, SendTypeOK
  <2>2. PICK r : r = [job[j] EXCEPT !.pc = "keys", !.verified = verified]
    OBVIOUS
  <2>3. r.pc = "keys" /\ r.pays = job[j].pays /\ r.address = job[j].address
    BY <2>1, <2>2 DEF JobType
  <2>4. job' = [job EXCEPT ![j] = r]
    BY <1>3, <2>2 DEF Transport
  <2>5. job'[j] = r /\ \A k \in Job \ {j} : job'[k] = job[k]
    BY <1>0, <2>4 DEF SendInv, SendTypeOK
  <2>6. job[j].pc = "transport" /\ sender' = sender /\ managed' = managed
    BY <1>3 DEF Transport, senderVars
  <2> QED
    BY <2>3, <2>5, <2>6, PayersMove DEF PayerOK
<1>4. ASSUME NEW j \in Job, TakeKeys(j) PROVE \A k \in Job : PayerOK(job[k])'
  <2>1. CASE AfterCount(j)
    BY <1>4, <2>1, PayersGo DEF AfterCount, TakeKeys
  <2>2. CASE job' = [job EXCEPT ![j] = [@ EXCEPT !.pc = "countDaily", !.key = clock]]
    <3>1. PICK s \in JobType : s = job[j]
      BY <1>0 DEF SendInv, SendTypeOK
    <3>2. PICK r : r = [job[j] EXCEPT !.pc = "countDaily", !.key = clock]
      OBVIOUS
    <3>3. r.pc = "countDaily" /\ r.pays = job[j].pays /\ r.address = job[j].address
      BY <3>1, <3>2 DEF JobType
    <3>4. job'[j] = r /\ \A k \in Job \ {j} : job'[k] = job[k]
      BY <1>0, <2>2, <3>2 DEF SendInv, SendTypeOK
    <3>5. job[j].pc = "keys" /\ sender' = sender /\ managed' = managed
      BY <1>4 DEF TakeKeys, senderVars
    <3> QED
      BY <3>3, <3>4, <3>5, PayersMove DEF PayerOK
  <2> QED
    BY <1>4, <2>1, <2>2 DEF TakeKeys
<1>5. ASSUME NEW j \in Job,
             \/ \E p \in Period : CheckLimit(j, p) \/ Increase(j, p)
             \/ EnsureDefault(j) \/ CheckFails(j) \/ Refuse(j)
             \/ Cleanup(j) \/ CountFails(j) \/ Charge(j) \/ Abandon(j)
      PROVE  \A k \in Job : PayerOK(job[k])'
  <2>1. \/ Finish(j)
        \/ \E pc : /\ Proceed(j, pc)
                   /\ pc = "charge" => job[j].pays /\ ~job[j].verified
                   /\ job[j].pc \in {"idle", "default", "balance"} => pc = "balance"
    BY <1>5 DEF CheckLimit, Increase, EnsureDefault, CheckFails, Refuse, Cleanup, CountFails,
       Charge, Abandon, AfterCount, Period
  <2> QED
    BY <2>1, PayersGo
<1>6. CASE Tick
  BY <1>6 DEF Tick, senderVars, PayerOK
<1> QED
  BY <1>1, <1>2, <1>3, <1>4, <1>5, <1>6 DEF SendNext

LEMMA RowsStep ==
    ASSUME IInv, IInv', [Next]_vars, RowsOK
    PROVE  RowsOK'
<1>1. /\ managed \subseteq managed'
      /\ \A a \in Addr \ managed' : sender[a] # NoRow => sender'[a] # NoRow
  BY RowsStay
<1>2. \A k \in Job : PayerOK(job[k])'
  <2>1. CASE job' = job
    <3>1. \A k \in Job : job[k].pc # "idle" => job[k].address \in Addr
      BY DEF IInv, SendInv, JobOK
    <3> QED
      BY <1>1, <2>1, <3>1 DEF RowsOK, PayerOK
  <2>2. job' = job \/ SendNext
    BY DEF Next, vars, sendVars
  <2> QED
    BY <2>1, <2>2, PayersStep DEF RowsOK
<1>3. ASSUME NEW q \in Req, req'[q].pc = "redeem", req'[q].address \notin managed',
             DefaultBalance > 0
      PROVE  sender'[req'[q].address] # NoRow
  <2>1. req'[q].address \in Addr
    BY <1>3 DEF IInv, RedeemInv, ReqOK
  <2>2. CASE req'[q] = req[q]
    BY <1>1, <1>3, <2>1, <2>2 DEF RowsOK
  <2>3. CASE Ensure(q)
    <3>1. req'[q].address = req[q].address
      BY <2>3 DEF Ensure, Goto, IInv, RedeemInv, RedeemTypeOK, ReqType
    <3>2. [balance |-> DefaultBalance, enabled |-> TRUE] # NoRow
      <4>1. [balance |-> DefaultBalance, enabled |-> TRUE] \in [balance: Int, enabled: BOOLEAN]
        BY SenderAssumption
      <4> QED
        BY <4>1, SenderAssumption
    <3>3. sender \in [Addr -> SenderRow \cup {NoRow}]
      BY DEF IInv, SendInv, SenderTypeOK
    <3> QED
      BY <1>3, <2>1, <2>3, <3>1, <3>2, <3>3 DEF Ensure, WithDefault, Inserted
  <2>4. \/ req'[q] = req[q] \/ Ensure(q)
        \/ Stop(q, "ok") \/ Stop(q, "refused") \/ Stop(q, "idle")
        \/ Goto(q, "ensure") \/ req'[q].pc = "check"
    <3>1. req' = req \/ RedeemNext
      BY DEF Next, AdminNext, vars, redeemVars
    <3>2. req \in [Req -> ReqType]
      BY DEF IInv, RedeemInv, RedeemTypeOK
    <3>3. ASSUME NEW p \in Req, NEW c \in CodeId, NEW a \in Addr, Lookup(p, c, a)
          PROVE  \/ req'[q] = req[q] \/ Stop(q, "refused") \/ req'[q].pc = "check"
      BY <3>2, <3>3 DEF Lookup, Stop, ReqType
    <3>4. ASSUME NEW p \in Req, CheckAddress(p) \/ Redeem(p) \/ Cancel(p) \/ Ensure(p)
          PROVE  \/ req'[q] = req[q] \/ Ensure(q)
                 \/ Stop(q, "ok") \/ Stop(q, "refused") \/ Stop(q, "idle")
                 \/ Goto(q, "ensure")
      <4>1. p = q \/ req'[q] = req[q]
        BY <3>2, <3>4 DEF CheckAddress, Redeem, Cancel, Ensure, Stop, Goto
      <4> QED
        BY <3>4, <4>1 DEF CheckAddress, Redeem, Cancel
    <3> QED
      BY <3>1, <3>3, <3>4 DEF RedeemNext
  <2>5. ~(Stop(q, "ok") \/ Stop(q, "refused") \/ Stop(q, "idle") \/ Goto(q, "ensure"))
    BY <1>3, IdleType DEF Stop, Goto, IInv, RedeemInv, RedeemTypeOK, ReqType, Idle
  <2> QED
    BY <1>3, <2>2, <2>3, <2>4, <2>5
<1> QED
  BY <1>2, <1>3 DEF RowsOK

Owes(j, a) == Owing(j) /\ job[j].address = a

Owed(a) == {j \in Job : Owes(j, a)}

LEMMA ChargedTypes ==
    ASSUME IInv, NEW a \in Addr
    PROVE  /\ IsFiniteSet(Owed(a)) /\ Cardinality(Owed(a)) \in Int
           /\ mailed[a] \in Int /\ unpaid[a] \in Int /\ Charged(a) \in Int
           /\ Charged(a) = mailed[a] - unpaid[a] - Cardinality(Owed(a))
<1>1. Owed(a) \subseteq Job
  BY DEF Owed
<1>2. IsFiniteSet(Owed(a)) /\ Cardinality(Owed(a)) \in Nat
  BY <1>1, SendMailAssumption, FS_Subset, FS_CardinalityType
<1>3. mailed[a] \in Nat /\ unpaid[a] \in Nat
  BY DEF IInv, SendInv, SendTypeOK
<1>4. Charged(a) = mailed[a] - unpaid[a] - Cardinality(Owed(a))
  BY DEF Charged, Owed, Owes
<1> QED
  BY <1>2, <1>3, <1>4

(* Only run j moves.  A mail that leaves is owed, one that is given up is  *)
(* unpaid: what is charged stays, unless the charge is what happens.       *)
LEMMA ChargedMoves ==
    ASSUME IInv, IInv', NEW a \in Addr, NEW j \in Job, \A k \in Job \ {j} : job'[k] = job[k]
    PROVE  /\ (Owes(j, a)' <=> Owes(j, a)) /\ mailed'[a] = mailed[a] /\ unpaid'[a] = unpaid[a]
                => Charged(a)' = Charged(a)
           /\ ~Owes(j, a) /\ Owes(j, a)' /\ mailed'[a] = mailed[a] + 1 /\ unpaid'[a] = unpaid[a]
                => Charged(a)' = Charged(a)
           /\ Owes(j, a) /\ ~Owes(j, a)' /\ mailed'[a] = mailed[a] /\ unpaid'[a] = unpaid[a] + 1
                => Charged(a)' = Charged(a)
           /\ Owes(j, a) /\ ~Owes(j, a)' /\ mailed'[a] = mailed[a] /\ unpaid'[a] = unpaid[a]
                => Charged(a)' = Charged(a) + 1
<1>1. \A k \in Job \ {j} : Owes(k, a)' <=> Owes(k, a)
  BY DEF Owes, Owing
<1>2. /\ IsFiniteSet(Owed(a)) /\ Cardinality(Owed(a)) \in Int
      /\ mailed[a] \in Int /\ unpaid[a] \in Int
      /\ Charged(a) = mailed[a] - unpaid[a] - Cardinality(Owed(a))
  BY ChargedTypes
<1>3. Charged(a)' = mailed'[a] - unpaid'[a] - Cardinality(Owed(a)')
  BY DEF Charged, Owed, Owes
<1>4. (Owes(j, a)' <=> Owes(j, a)) => Cardinality(Owed(a)') = Cardinality(Owed(a))
  <2>1. (Owes(j, a)' <=> Owes(j, a)) => Owed(a)' = Owed(a)
    BY <1>1 DEF Owed
  <2> QED
    BY <2>1
<1>5. ~Owes(j, a) /\ Owes(j, a)' => Cardinality(Owed(a)') = Cardinality(Owed(a)) + 1
  <2>1. ~Owes(j, a) /\ Owes(j, a)' => Owed(a)' = Owed(a) \cup {j} /\ j \notin Owed(a)
    BY <1>1 DEF Owed
  <2> QED
    BY <1>2, <2>1, FS_AddElement
<1>6. Owes(j, a) /\ ~Owes(j, a)' => Cardinality(Owed(a)') = Cardinality(Owed(a)) - 1
  <2>1. Owes(j, a) /\ ~Owes(j, a)' => Owed(a)' = Owed(a) \ {j} /\ j \in Owed(a)
    BY <1>1 DEF Owed
  <2> QED
    BY <1>2, <2>1, FS_RemoveElement
<1>7. ASSUME Owes(j, a)' <=> Owes(j, a), mailed'[a] = mailed[a], unpaid'[a] = unpaid[a]
      PROVE  Charged(a)' = Charged(a)
  BY <1>2, <1>3, <1>4, <1>7
<1>8. ASSUME ~Owes(j, a), Owes(j, a)', mailed'[a] = mailed[a] + 1, unpaid'[a] = unpaid[a]
      PROVE  Charged(a)' = Charged(a)
  BY <1>2, <1>3, <1>5, <1>8
<1>9. ASSUME Owes(j, a), ~Owes(j, a)', mailed'[a] = mailed[a]
      PROVE  /\ unpaid'[a] = unpaid[a] + 1 => Charged(a)' = Charged(a)
             /\ unpaid'[a] = unpaid[a] => Charged(a)' = Charged(a) + 1
  BY <1>2, <1>3, <1>6, <1>9
<1> QED
  BY <1>7, <1>8, <1>9

LEMMA ChargedMail ==
    ASSUME IInv, IInv', NEW a \in Addr, NEW j \in Job, NEW verified \in BOOLEAN,
           Transport(j, verified)
    PROVE  Charged(a)' = Charged(a)
<1>0. SendInv /\ job[j].pc = "transport" /\ unpaid' = unpaid
  BY DEF IInv, Transport
<1>1. PICK s \in JobType : s = job[j]
  BY <1>0 DEF SendInv, SendTypeOK
<1>2. PICK r : r = [job[j] EXCEPT !.pc = "keys", !.verified = verified]
  OBVIOUS
<1>3. r.pc = "keys" /\ r.pays = s.pays /\ r.address = s.address /\ r.verified = verified
  BY <1>1, <1>2 DEF JobType
<1>4. job' = [job EXCEPT ![j] = r]
  BY <1>2 DEF Transport
<1>5. job'[j] = r /\ \A k \in Job \ {j} : job'[k] = job[k]
  BY <1>0, <1>4 DEF SendInv, SendTypeOK
<1>6. PICK b \in Addr : b = s.address
  BY <1>0, <1>1 DEF SendInv, JobOK
<1>7. mailed' = IF s.pays /\ ~verified THEN [mailed EXCEPT ![b] = @ + 1] ELSE mailed
  BY <1>1, <1>6 DEF Transport
<1>8. mailed'[a] = IF s.pays /\ ~verified /\ b = a THEN mailed[a] + 1 ELSE mailed[a]
  BY <1>0, <1>6, <1>7 DEF SendInv, SendTypeOK
<1>9. ~Owes(j, a) /\ (Owes(j, a)' <=> s.pays /\ ~verified /\ b = a)
  BY <1>0, <1>3, <1>5, <1>6 DEF Owes, Owing
<1> QED
  BY <1>0, <1>5, <1>8, <1>9, ChargedMoves

LEMMA ChargedGivenUp ==
    ASSUME IInv, IInv', NEW a \in Addr, NEW j \in Job, Abandon(j)
    PROVE  Charged(a)' = Charged(a)
<1>0. SendInv /\ mailed' = mailed /\ Finish(j)
  BY DEF IInv, Abandon
<1>1. job'[j].pc = "idle" /\ \A k \in Job \ {j} : job'[k] = job[k]
  BY <1>0, FinishEffect
<1>2. PICK b \in Addr : b = job[j].address
  BY <1>0 DEF Abandon, SendInv, JobOK
<1>3. unpaid'[a] = IF Owes(j, a) THEN unpaid[a] + 1 ELSE unpaid[a]
  BY <1>0, <1>2 DEF Abandon, Owes, SendInv, SendTypeOK
<1>4. ~Owes(j, a)'
  BY <1>1 DEF Owes, Owing
<1> QED
  BY <1>0, <1>1, <1>3, <1>4, ChargedMoves

(* A run starts, or goes on between the transport and the charge, or ends  *)
(* without owing.                                                          *)
LEMMA ChargedStays ==
    ASSUME IInv, IInv', NEW a \in Addr, NEW j \in Job,
           \/ \E b \in Addr, pays \in BOOLEAN : Start(j, b, pays)
           \/ \E p \in Period : CheckLimit(j, p) \/ Increase(j, p)
           \/ EnsureDefault(j) \/ CheckBalance(j) \/ CheckFails(j) \/ Refuse(j)
           \/ TakeKeys(j) \/ Cleanup(j) \/ CountFails(j)
    PROVE  Charged(a)' = Charged(a)
<1>0. SendInv
  BY DEF IInv
<1>1. mailed' = mailed /\ unpaid' = unpaid
  BY DEF Start, CheckLimit, Increase, EnsureDefault, CheckBalance, CheckFails, Refuse,
     TakeKeys, Cleanup, CountFails, history
<1>2. PICK s \in JobType : s = job[j]
  BY <1>0 DEF SendInv, SendTypeOK
<1>3. ASSUME NEW b \in Addr, NEW pays \in BOOLEAN, Start(j, b, pays)
      PROVE  ~Owes(j, a) /\ ~Owes(j, a)' /\ \A k \in Job \ {j} : job'[k] = job[k]
  <2>1. PICK pc \in {"default", "checkDaily"} : pc = IF pays THEN "default" ELSE "checkDaily"
    OBVIOUS
  <2>2. PICK r : r = [job[j] EXCEPT !.address = b, !.pays = pays, !.pc = pc]
    OBVIOUS
  <2>3. r.pc = pc
    BY <1>2, <2>2 DEF JobType
  <2>4. job' = [job EXCEPT ![j] = r]
    BY <1>3, <2>1, <2>2 DEF Start
  <2>5. job'[j] = r /\ \A k \in Job \ {j} : job'[k] = job[k]
    BY <1>0, <2>4 DEF SendInv, SendTypeOK
  <2>6. job[j].pc = "idle"
    BY <1>3 DEF Start
  <2> QED
    BY <2>3, <2>5, <2>6 DEF Owes, Owing
<1>4. ASSUME TakeKeys(j), job' = [job EXCEPT ![j] = [@ EXCEPT !.pc = "countDaily", !.key = clock]]
      PROVE  (Owes(j, a)' <=> Owes(j, a)) /\ \A k \in Job \ {j} : job'[k] = job[k]
  <2>1. PICK r : r = [job[j] EXCEPT !.pc = "countDaily", !.key = clock]
    OBVIOUS
  <2>2. /\ r.pc = "countDaily" /\ r.pays = s.pays /\ r.address = s.address
        /\ r.verified = s.verified
    BY <1>2, <2>1 DEF JobType
  <2>3. job'[j] = r /\ \A k \in Job \ {j} : job'[k] = job[k]
    BY <1>0, <1>4, <2>1 DEF SendInv, SendTypeOK
  <2>4. job[j].pc = "keys"
    BY <1>4 DEF TakeKeys
  <2> QED
    BY <1>2, <2>2, <2>3, <2>4 DEF Owes, Owing
<1>5. ASSUME Finish(j), ~Owing(j)
      PROVE  ~Owes(j, a) /\ ~Owes(j, a)' /\ \A k \in Job \ {j} : job'[k] = job[k]
  <2>1. job'[j].pc = "idle" /\ \A k \in Job \ {j} : job'[k] = job[k]
    BY <1>0, <1>5, FinishEffect
  <2> QED
    BY <1>5, <2>1 DEF Owes, Owing
<1>6. ASSUME NEW pc, Proceed(j, pc),
             (pc \in {"keys", "countDaily", "countMonthly", "cleanup", "charge"})
                <=> (job[j].pc \in {"keys", "countDaily", "countMonthly", "cleanup", "charge"})
      PROVE  (Owes(j, a)' <=> Owes(j, a)) /\ \A k \in Job \ {j} : job'[k] = job[k]
  BY <1>0, <1>6, ProceedEffect DEF Owes, Owing
<1>7. \/ \E b \in Addr, pays \in BOOLEAN : Start(j, b, pays)
      \/ TakeKeys(j) /\ job' = [job EXCEPT ![j] = [@ EXCEPT !.pc = "countDaily", !.key = clock]]
      \/ Finish(j) /\ ~Owing(j)
      \/ \E pc : /\ Proceed(j, pc)
                 /\ (pc \in {"keys", "countDaily", "countMonthly", "cleanup", "charge"})
                       <=> (job[j].pc \in {"keys", "countDaily", "countMonthly", "cleanup", "charge"})
  BY DEF CheckLimit, Increase, EnsureDefault, CheckBalance, CheckFails, Refuse,
     TakeKeys, Cleanup, CountFails, AfterCount, Owing, Period
<1> QED
  BY <1>1, <1>3, <1>4, <1>5, <1>6, <1>7, ChargedMoves

LEMMA AmountType ==
    ASSUME IInv, NEW a
    PROVE  \A c \in RedeemedTo(a) : Amount[c] \in Int
<1> SUFFICES ASSUME NEW c \in RedeemedTo(a) PROVE Amount[c] \in Int
  OBVIOUS
<1>1. codes[c].result \in Result
  BY DEF RedeemedTo, IInv, RedeemInv, RedeemTypeOK, RowType, TableOK
<1>2. PICK r \in Result : r = codes[c].result
  BY <1>1
<1>3. PICK v \in Value : v = r.amount
  BY DEF Result
<1>4. Amount[c] = v
  BY <1>2, <1>3 DEF Amount, RedeemedTo
<1>5. v \in Int
  BY RedeemBalanceAssumption
<1> QED
  BY <1>4, <1>5

LEMMA CreditsType ==
    ASSUME IInv, NEW a, IsFiniteSet(RedeemedTo(a))
    PROVE  SumOf(Amount, RedeemedTo(a)) \in Int
  BY AmountType, SumType

(* What is redeemed to a stays, and what is charged; the row stays too, or *)
(* appears with the default balance.                                       *)
LEMMA AddsUpKept ==
    ASSUME IInv, IInv', NEW a \in Addr, AddsUp(a), Charged(a)' = Charged(a),
           RedeemedTo(a)' = RedeemedTo(a),
           \A c \in RedeemedTo(a) : codes'[c].result = codes[c].result,
           \/ sender'[a] = sender[a]
           \/ sender[a] = NoRow /\ sender'[a] # NoRow /\ sender'[a].balance = DefaultBalance
    PROVE  AddsUp(a)'
<1>1. SumOf(Amount', RedeemedTo(a)) = SumOf(Amount, RedeemedTo(a))
  <2>1. \A c \in RedeemedTo(a) : Amount'[c] = Amount[c]
    BY DEF Amount, RedeemedTo
  <2> QED
    BY <2>1, SumAgrees DEF AddsUp
<1>2. CASE sender'[a] = sender[a]
  BY <1>1, <1>2 DEF AddsUp
<1>3. CASE sender[a] = NoRow /\ sender'[a] # NoRow /\ sender'[a].balance = DefaultBalance
  <2>1. RedeemedTo(a) = {} /\ Charged(a) = 0
    BY <1>3 DEF AddsUp
  <2>2. SumOf(Amount', RedeemedTo(a)) = 0
    BY <2>1, SumEmpty
  <2> QED
    BY <1>3, <2>1, <2>2, SenderAssumption DEF AddsUp
<1> QED
  BY <1>2, <1>3

(* The charge: one less in the balance, one more charged. *)
LEMMA AddsUpCharge ==
    ASSUME IInv, IInv', RowsOK, NEW a \in Addr \ managed, AddsUp(a), NEW j \in Job, Charge(j),
           codes' = codes
    PROVE  AddsUp(a)'
<1>0. /\ SendInv /\ Finish(j) /\ job[j].pc = "charge" /\ mailed' = mailed /\ unpaid' = unpaid
      /\ sender \in [Addr -> SenderRow \cup {NoRow}]
  BY DEF IInv, SendInv, SenderTypeOK, Charge, history
<1>1. job'[j].pc = "idle" /\ \A k \in Job \ {j} : job'[k] = job[k]
  BY <1>0, FinishEffect
<1>2. PICK b \in Addr : b = job[j].address
  BY <1>0 DEF SendInv, JobOK
<1>3. job[j].pays /\ ~job[j].verified /\ (b \notin managed => sender[b] # NoRow)
  BY <1>0, <1>2 DEF RowsOK, PayerOK
<1>4. RedeemedTo(a)' = RedeemedTo(a) /\ Amount' = Amount
  BY DEF RedeemedTo, Amount
<1>5. ~Owes(j, a)'
  BY <1>1 DEF Owes, Owing
<1>6. CASE b # a
  <2>1. ~Owes(j, a)
    BY <1>2, <1>6 DEF Owes
  <2>2. Charged(a)' = Charged(a)
    BY <1>0, <1>1, <1>5, <2>1, ChargedMoves
  <2>3. sender'[a] = sender[a]
    BY <1>0, <1>2, <1>6 DEF Charge
  <2> QED
    BY <1>4, <2>2, <2>3, AddsUpKept
<1>7. CASE b = a
  <2>1. Owes(j, a)
    BY <1>0, <1>2, <1>3, <1>7 DEF Owes, Owing
  <2>2. Charged(a)' = Charged(a) + 1
    BY <1>0, <1>1, <1>5, <2>1, ChargedMoves
  <2>3. PICK row \in SenderRow : row = sender[a]
    BY <1>0, <1>3, <1>7
  <2>4. PICK new : new = [row EXCEPT !.balance = row.balance - 1]
    OBVIOUS
  <2>5. new \in SenderRow /\ new.balance = row.balance - 1 /\ row.balance \in Int
    BY <2>3, <2>4 DEF SenderRow
  <2>6. sender'[a] = new
    BY <1>0, <1>2, <1>3, <1>7, <2>3, <2>4 DEF Charge
  <2>7. new # NoRow
    BY <2>5, SenderAssumption DEF SenderRow
  <2>8. row.balance = DefaultBalance + SumOf(Amount, RedeemedTo(a)) - Charged(a)
    BY <1>3, <1>7, <2>3 DEF AddsUp
  <2>9. SumOf(Amount, RedeemedTo(a)) \in Int /\ Charged(a) \in Int
    BY CreditsType, ChargedTypes DEF AddsUp
  <2>10. new.balance = DefaultBalance + SumOf(Amount, RedeemedTo(a)) - Charged(a)'
    BY <2>2, <2>5, <2>8, <2>9, SenderAssumption
  <2> QED
    BY <1>4, <2>6, <2>7, <2>10 DEF AddsUp
<1> QED
  BY <1>6, <1>7

(* The redemption: the code joins those redeemed to its mailbox, and the   *)
(* balance grows by its amount.                                            *)
LEMMA AddsUpRedeem ==
    ASSUME IInv, IInv', RowsOK, NEW a \in Addr \ managed, AddsUp(a), UNCHANGED sendVars,
           NEW q \in Req, req[q].pc = "redeem", Commit(q), MayRedeem(q)
    PROVE  AddsUp(a)'
<1>1. PICK c \in CodeId, b \in Addr, v \in Value :
        c = req[q].code /\ b = req[q].address /\ v = req[q].value
  BY SuccessEffect
<1>2. PICK r : r = ResultOf(q) /\ r.amount = v /\ r.address = b
  BY <1>1, SuccessEffect
<1>3. /\ codes'[c].redeemed /\ codes'[c].result = r /\ ~codes[c].redeemed
      /\ \A d \in CodeId \ {c} : codes'[d] = codes[d]
  BY <1>1, <1>2, SuccessEffect
<1>4. sender \in [Addr -> SenderRow \cup {NoRow}]
  BY DEF IInv, SendInv, SenderTypeOK
<1>5. PICK new \in SenderRow : new = Raised(sender[b], v)
  BY <1>4, RaisedType
<1>6. sender' = [sender EXCEPT ![b] = new]
  BY <1>1, <1>5, CommitEffect
<1>7. Charged(a)' = Charged(a)
  BY DEF sendVars, history, Charged, Owing
<1>8. CASE b # a
  <2>1. RedeemedTo(a)' = RedeemedTo(a)
    BY <1>2, <1>3, <1>8 DEF RedeemedTo
  <2>2. \A d \in RedeemedTo(a) : codes'[d].result = codes[d].result
    BY <1>3 DEF RedeemedTo
  <2> QED
    BY <1>4, <1>6, <1>7, <1>8, <2>1, <2>2, AddsUpKept
<1>9. CASE b = a
  <2>1. RedeemedTo(a)' = RedeemedTo(a) \cup {c} /\ c \notin RedeemedTo(a)
    BY <1>2, <1>3, <1>9 DEF RedeemedTo
  <2>2. IsFiniteSet(RedeemedTo(a)) /\ IsFiniteSet(RedeemedTo(a)')
    BY <2>1, FS_AddElement DEF AddsUp
  <2>3. v \in Int /\ Amount'[c] = v
    BY <1>2, <1>3, RedeemBalanceAssumption DEF Amount
  <2>4. \A d \in RedeemedTo(a) : Amount'[d] = Amount[d]
    BY <1>3 DEF Amount, RedeemedTo
  <2>5. \A d \in RedeemedTo(a) : Amount[d] \in Int
    BY AmountType
  <2>6. SumOf(Amount', RedeemedTo(a)') = v + SumOf(Amount', RedeemedTo(a))
    BY <2>1, <2>2, <2>3, <2>4, <2>5, SumAdds
  <2>7. SumOf(Amount', RedeemedTo(a)) = SumOf(Amount, RedeemedTo(a))
    BY <2>2, <2>4, SumAgrees
  <2>8. SumOf(Amount, RedeemedTo(a)) \in Int /\ Charged(a) \in Int
    BY <2>2, CreditsType, ChargedTypes
  <2>9. sender'[a] = new /\ new # NoRow
    BY <1>4, <1>5, <1>6, <1>9, SenderAssumption DEF SenderRow
  <2>10. new.balance = DefaultBalance + SumOf(Amount, RedeemedTo(a)) + v - Charged(a)
    <3>1. CASE sender[a] = NoRow
      <4>1. DefaultBalance = 0
        <5>1. req[q].address = a /\ a \notin managed
          BY <1>1, <1>9
        <5>2. ~(DefaultBalance > 0)
          BY <3>1, <5>1 DEF RowsOK
        <5> QED
          BY <5>2, SenderAssumption
      <4>2. SumOf(Amount, RedeemedTo(a)) = 0 /\ Charged(a) = 0
        BY <3>1, SumEmpty DEF AddsUp
      <4>3. new.balance = v
        BY <1>5, <1>9, <3>1 DEF Raised
      <4> QED
        BY <2>3, <4>1, <4>2, <4>3
    <3>2. CASE sender[a] # NoRow
      <4>1. PICK row \in SenderRow : row = sender[a]
        BY <1>4, <3>2
      <4>2. new = [row EXCEPT !.balance = row.balance + v]
        BY <1>5, <1>9, <3>2, <4>1 DEF Raised
      <4>3. new.balance = row.balance + v /\ row.balance \in Int
        BY <4>1, <4>2 DEF SenderRow
      <4>4. row.balance = DefaultBalance + SumOf(Amount, RedeemedTo(a)) - Charged(a)
        BY <3>2, <4>1 DEF AddsUp
      <4> QED
        BY <2>3, <2>8, <4>3, <4>4, SenderAssumption
    <3> QED
      BY <3>1, <3>2
  <2>11. new.balance = DefaultBalance + SumOf(Amount', RedeemedTo(a)') - Charged(a)'
    BY <1>7, <2>3, <2>6, <2>7, <2>8, <2>10, SenderAssumption
  <2> QED
    BY <2>2, <2>9, <2>11 DEF AddsUp
<1> QED
  BY <1>8, <1>9

LEMMA AddsUpStep ==
    ASSUME IInv, IInv', RowsOK, [Next]_vars, NEW a \in Addr \ managed', a \notin managed, AddsUp(a)
    PROVE  AddsUp(a)'
<1>0. SenderTypeOK /\ sender \in [Addr -> SenderRow \cup {NoRow}]
  BY DEF IInv, SendInv, SenderTypeOK
<1>1. ASSUME UNCHANGED sendVars PROVE Charged(a)' = Charged(a)
  BY <1>1 DEF sendVars, history, Charged, Owing
<1>2. ASSUME UNCHANGED codes
      PROVE  /\ RedeemedTo(a)' = RedeemedTo(a)
             /\ \A c \in RedeemedTo(a) : codes'[c].result = codes[c].result
  BY <1>2 DEF RedeemedTo
<1>3. CASE RedeemNext /\ UNCHANGED sendVars
  <2>1. ASSUME NEW q \in Req, req[q].pc = "redeem", Commit(q) PROVE AddsUp(a)'
    <3>1. CASE MayRedeem(q)
      BY <1>3, <2>1, <3>1, AddsUpRedeem
    <3>2. CASE ~MayRedeem(q)
      BY <1>1, <1>2, <1>3, <2>1, <3>2, CommitEffect, AddsUpKept
    <3> QED
      BY <3>1, <3>2
  <2>2. ASSUME NEW q \in Req, Ensure(q) PROVE AddsUp(a)'
    <3>1. codes' = codes /\ sender' = WithDefault(req[q].address)
      BY <2>2 DEF Ensure
    <3> QED
      BY <1>0, <1>1, <1>2, <1>3, <3>1, DefaultRow, AddsUpKept
  <2>3. UNCHANGED <<codes, sender>> \/ \E q \in Req : Ensure(q) \/ (req[q].pc = "redeem" /\ Commit(q))
    BY <1>3 DEF RedeemNext, Lookup, CheckAddress, Redeem, Cancel, senderVars
  <2> QED
    BY <1>1, <1>2, <1>3, <2>1, <2>2, <2>3, AddsUpKept
<1>4. CASE AdminNext /\ UNCHANGED sendVars
  <2>1. KeepsRedeemed /\ RedeemsNothing
    BY <1>4, TableStep DEF AdminNext, IInv, RedeemInv, RedeemTypeOK
  <2>2. /\ RedeemedTo(a)' = RedeemedTo(a)
        /\ \A c \in RedeemedTo(a) : codes'[c].result = codes[c].result
    BY <2>1 DEF KeepsRedeemed, RedeemsNothing, RedeemedTo
  <2> QED
    BY <1>1, <1>4, <2>2, AddsUpKept DEF AdminNext, senderVars
<1>5. CASE SendNext /\ UNCHANGED redeemVars
  <2>0. codes' = codes
    BY <1>5 DEF redeemVars
  <2>1. ASSUME NEW j \in Job, Charge(j) PROVE AddsUp(a)'
    BY <2>0, <2>1, AddsUpCharge
  <2>2. ASSUME NEW j \in Job,
               \/ \E b \in Addr, pays \in BOOLEAN : Start(j, b, pays)
               \/ \E p \in Period : CheckLimit(j, p) \/ Increase(j, p)
               \/ EnsureDefault(j) \/ CheckBalance(j) \/ CheckFails(j) \/ Refuse(j)
               \/ TakeKeys(j) \/ Cleanup(j) \/ CountFails(j)
        PROVE  AddsUp(a)'
    <3>1. Charged(a)' = Charged(a)
      BY <2>2, ChargedStays
    <3>2. sender' = sender \/ sender' = WithDefault(job[j].address)
      BY <2>2 DEF Start, CheckLimit, Increase, EnsureDefault, CheckBalance, CheckFails, Refuse,
         TakeKeys, Cleanup, CountFails, senderVars
    <3> QED
      BY <1>0, <1>2, <2>0, <3>1, <3>2, DefaultRow, AddsUpKept
  <2>3. ASSUME NEW j \in Job, NEW verified \in BOOLEAN, Transport(j, verified) PROVE AddsUp(a)'
    BY <1>2, <2>0, <2>3, ChargedMail, AddsUpKept DEF Transport, senderVars
  <2>4. ASSUME NEW j \in Job, Abandon(j) PROVE AddsUp(a)'
    BY <1>2, <2>0, <2>4, ChargedGivenUp, AddsUpKept DEF Abandon, senderVars
  <2>5. ASSUME Tick PROVE AddsUp(a)'
    <3>1. Charged(a)' = Charged(a) /\ sender' = sender
      BY <2>5 DEF Tick, history, senderVars, Charged, Owing
    <3> QED
      BY <1>2, <2>0, <3>1, AddsUpKept
  <2> QED
    BY <1>5, <2>1, <2>2, <2>3, <2>4, <2>5 DEF SendNext
<1>6. CASE SenderNext /\ UNCHANGED <<redeemVars, sendVars>>
  <2>0. codes' = codes
    BY <1>6 DEF redeemVars
  <2>1. \/ sender'[a] = sender[a]
        \/ sender[a] = NoRow /\ sender'[a] # NoRow /\ sender'[a].balance = DefaultBalance
    BY <1>0, <1>6, SenderRows
  <2> QED
    BY <1>1, <1>2, <1>6, <2>0, <2>1, AddsUpKept
<1>7. CASE UNCHANGED vars
  BY <1>1, <1>2, <1>7, AddsUpKept DEF vars, redeemVars, senderVars
<1> QED
  BY <1>3, <1>4, <1>5, <1>6, <1>7 DEF Next

(* Whatever requests, mails and codes run at the same time, a balance that *)
(* no admin handled is the default balance plus every redeemed amount once *)
(* minus every paid mail once (redeem_code.ts:284-320,                     *)
(* send_balance.ts:6-23, send_mail_api.ts:216-228).                        *)
THEOREM BalanceExact == Spec => []BalanceAddsUp
<1>1. Init => BalanceInv
  <2> SUFFICES ASSUME Init PROVE BalanceInv
    OBVIOUS
  <2>1. IInv
    BY InvInit
  <2>2. RowsOK
    BY RestingType, IdleType DEF Init, SendInit, RedeemInit, RowsOK, PayerOK
  <2>3. ASSUME NEW a \in Addr \ managed PROVE AddsUp(a)
    <3>1. RedeemedTo(a) = {}
      BY TableInitOK DEF Init, RedeemInit, RedeemedTo
    <3>2. mailed[a] = 0 /\ unpaid[a] = 0 /\ Owed(a) = {}
      BY RestingType DEF Init, SendInit, Owed, Owes, Owing
    <3>3. Charged(a) = 0
      BY <2>1, <3>2, ChargedTypes, FS_EmptySet
    <3>4. sender[a] = NoRow
      BY DEF Init, SenderInit
    <3> QED
      BY <3>1, <3>3, <3>4, FS_EmptySet DEF AddsUp
  <2> QED
    BY <2>1, <2>2, <2>3 DEF BalanceInv
<1>2. BalanceInv /\ [Next]_vars => BalanceInv'
  <2> SUFFICES ASSUME BalanceInv, [Next]_vars PROVE BalanceInv'
    OBVIOUS
  <2>1. IInv /\ IInv' /\ RowsOK
    BY InvStep DEF BalanceInv
  <2>2. RowsOK'
    BY <2>1, RowsStep
  <2>3. managed \subseteq managed'
    BY <2>1, RowsStay
  <2> QED
    BY <2>1, <2>2, <2>3, AddsUpStep DEF BalanceInv
<1>3. BalanceInv => BalanceAddsUp
  BY CreditsSum DEF BalanceInv, BalanceAddsUp, AddsUp
<1> QED
  BY <1>1, <1>2, <1>3, PTL DEF Spec

-----------------------------------------------------------------------------
(* Management of the codes table is management of offers. *)
LEMMA AdminRefines ==
    ASSUME IInv, IInv', AdminNext
    PROVE  Once!Manage
<1>1. KeepsRedeemed /\ RedeemsNothing
  BY TableStep DEF AdminNext, IInv, RedeemInv, RedeemTypeOK
<1>2. \A c \in CodeId : OfferOf(c)' \in Value \cup {None}
  BY DEF IInv, RedeemInv, RedeemTypeOK, RowType, OfferOf
<1>3. \A c \in CodeId : GrantOf(c)' = GrantOf(c)
  BY <1>1 DEF KeepsRedeemed, RedeemsNothing, GrantOf
<1>4. \A c \in CodeId : GrantOf(c) # None => OfferOf(c)' \in {OfferOf(c), None}
  BY <1>1 DEF KeepsRedeemed, GrantOf
<1> QED
  BY <1>2, <1>3, <1>4 DEF Once!Manage

(* A transaction that succeeds is the grant. *)
LEMMA CommitRefines ==
    ASSUME IInv, NEW q \in Req, req[q].pc = "redeem", Commit(q), MayRedeem(q)
    PROVE  \E c \in CodeId, a \in Addr : Once!Grant(c, a)
<1>1. PICK c, a, v, r :
        c = req[q].code /\ a = req[q].address /\ v = req[q].value /\ r = ResultOf(q)
  OBVIOUS
<1>2. /\ c \in CodeId /\ a \in Addr /\ v \in Value /\ r.amount = v /\ r.address = a
      /\ codes'[c].redeemed /\ codes'[c].result = r /\ ~codes[c].redeemed
      /\ \A d \in CodeId \ {c} : codes'[d] = codes[d]
      /\ \A d \in CodeId : OfferOf(d)' = OfferOf(d)
      /\ OfferOf(c) = v
  BY <1>1, SuccessEffect
<1>3. v # None
  BY <1>2, ValueAssumption
<1>4. GrantOf(c) = None /\ GrantOf(c)' = [value |-> v, to |-> a]
  BY <1>2 DEF GrantOf
<1>5. \A d \in CodeId \ {c} : GrantOf(d)' = GrantOf(d)
  BY <1>2 DEF GrantOf
<1>6. Once!Grant(c, a)
  BY <1>2, <1>3, <1>4, <1>5 DEF Once!Grant
<1> QED
  BY <1>2, <1>6

(* Redeeming credits implements the promise of a one-time code, whatever   *)
(* mails and the admin do to the balance meanwhile: see OneTimeGrant.      *)
THEOREM Refines == Spec => ImplementsOneTimeGrant
<1>1. Init => Once!Init
  BY TableInitOK DEF Init, RedeemInit, Once!Init, GrantOf
<1>2. ASSUME IInv, IInv', [Next]_vars
      PROVE  [Once!Next]_<<[c \in CodeId |-> OfferOf(c)], [c \in CodeId |-> GrantOf(c)]>>
  <2>1. CASE UNCHANGED codes
    BY <2>1 DEF OfferOf, GrantOf
  <2>2. CASE AdminNext
    BY <1>2, <2>2, AdminRefines DEF Once!Next
  <2>3. ASSUME NEW q \in Req, req[q].pc = "redeem", Commit(q), ~UNCHANGED codes
        PROVE  \E c \in CodeId, a \in Addr : Once!Grant(c, a)
    BY <1>2, <2>3, CommitEffect, CommitRefines
  <2>4. UNCHANGED codes \/ AdminNext \/ \E q \in Req : req[q].pc = "redeem" /\ Commit(q)
    BY <1>2 DEF Next, vars, redeemVars, RedeemNext, Lookup, CheckAddress, Ensure, Redeem, Cancel
  <2> QED
    BY <2>1, <2>2, <2>3, <2>4 DEF Once!Next
<1> QED
  BY <1>1, <1>2, InvInit, InvStep, PTL DEF Spec, Once!Spec, ImplementsOneTimeGrant
=============================================================================
