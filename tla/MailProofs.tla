------------------------------ MODULE MailProofs ------------------------------
(***************************************************************************)
(* Theorems about received mails, for any number of mailboxes, messages,   *)
(* mails and forwarding rules.  MailReceive: what a handler deletes and    *)
(* where it shows what it extracted, although ids of mails come back.      *)
(* ImapMailbox: what a session of the IMAP proxy knows of the mailbox and  *)
(* of its flags, while mails come and go and other sessions store flags.   *)
(***************************************************************************)
EXTENDS MailReceive, ImapMailbox, FiniteSetTheorems, SequenceTheorems, WellFoundedInduction, TLAPS

-----------------------------------------------------------------------------
(* RawMails                                                                *)

Mail == [id: Serial, serial: Serial, address: Name, msg: Msg \cup {None}, meta: 0..MaxMail]

(* A mail has its id and its serial for itself.  A new one gets a serial   *)
(* nobody ever had, and an id no row has.                                  *)
RawOK ==
    /\ stored \in 0..MaxMail
    /\ mails \subseteq Mail
    /\ IsFiniteSet(mails)
    /\ \A x \in mails : x.serial <= stored /\ x.id <= stored /\ x.meta <= stored
    /\ \A x, y \in mails : (x.id = y.id \/ x.serial = y.serial) => x = y

(* The same row, whatever was extracted meanwhile *)
SameRow(x, y) == x.id = y.id /\ x.serial = y.serial /\ x.address = y.address /\ x.msg = y.msg

(* A step that stores no mail of a message in S *)
TableKept(S) ==
    /\ stored' \in Nat /\ stored <= stored'
    /\ \A x \in mails' :
          \/ \E y \in mails : SameRow(x, y)
          \/ x.serial \in Nat /\ x.serial > stored /\ x.msg \notin S

-----------------------------------------------------------------------------
(* A bounded set of naturals has a largest element. *)
LEMMA Largest ==
    ASSUME NEW S, S \subseteq Nat, S # {}, NEW n \in Nat, \A i \in S : i <= n
    PROVE  \E t \in S : \A i \in S : i <= t
<1> DEFINE R == OpToRel(<, Nat)
           T == {k \in Nat : \A i \in S : i <= k}
<1>1. IsWellFoundedOn(R, Nat)
  BY NatLessThanWellFounded
<1>2. \A x, y \in Nat : y < x => <<y, x>> \in R
  BY DEF OpToRel
<1> HIDE DEF R
<1>3. PICK k \in T : \A j \in T : <<j, k>> \notin R
  <2>1. T \subseteq Nat /\ n \in T
    OBVIOUS
  <2> QED
    BY <1>1, <2>1, WFMin
<1>4. SUFFICES ASSUME k \notin S PROVE FALSE
  BY <1>3
<1>5. k # 0
  <2>1. PICK i \in S : i \in Nat /\ i # k
    BY <1>4
  <2> QED
    BY <1>3, <2>1
<1>6. k - 1 \in Nat /\ k - 1 < k
  BY <1>3, <1>5
<1>7. k - 1 \in T
  BY <1>3, <1>4, <1>6
<1> QED
  BY <1>2, <1>3, <1>6, <1>7

(* The id of a new mail is larger than all there are. *)
LEMMA NextIdFresh ==
    ASSUME RawOK, stored < MaxMail
    PROVE  NextId \in Serial /\ NextId <= stored + 1 /\ \A x \in mails : x.id < NextId
<1> USE RawMailsAssumption
<1>1. CASE mails = {}
  BY <1>1 DEF RawOK, NextId, Serial
<1>2. CASE mails # {}
  <2> DEFINE S == {x.id : x \in mails}
             P(i) == (\E x \in mails : x.id = i) /\ \A x \in mails : x.id <= i
  <2>1. \A x \in mails : x.id \in Nat /\ x.id \in Serial /\ x.id <= stored
    BY DEF RawOK, Mail, Serial
  <2>2. S \subseteq Nat /\ S # {} /\ stored \in Nat /\ \A i \in S : i <= stored
    BY <1>2, <2>1 DEF RawOK
  <2>3. \E t \in S : \A i \in S : i <= t
    BY <2>2, Largest
  <2>4. \E t \in Serial : P(t)
    BY <2>1, <2>3
  <2>5. PICK t : t = CHOOSE i \in Serial : P(i)
    OBVIOUS
  <2>6. t \in Serial /\ P(t)
    BY <2>4, <2>5
  <2>7. NextId = 1 + t
    BY <1>2, <2>5 DEF NextId
  <2> QED
    BY <2>1, <2>6, <2>7 DEF Serial, RawOK
<1> QED
  BY <1>1, <1>2

LEMMA InsertStep ==
    ASSUME RawOK, NEW n \in Name, NEW msg \in Msg \cup {None}, Insert(n, msg)
    PROVE  /\ RawOK'
           /\ stored' = stored + 1
           /\ \E r \in Mail :
                 /\ mails' = mails \cup {r} /\ \A x \in mails : x.id < r.id
                 /\ r.id = NextId /\ r.serial = stored + 1 /\ r.address = n
                 /\ r.msg = msg /\ r.meta = 0
<1>1. stored < MaxMail /\ stored' = stored + 1
  BY DEF Insert
<1>2. PICK r : r = [id |-> NextId, serial |-> stored + 1, address |-> n, msg |-> msg, meta |-> 0]
  OBVIOUS
<1>3. NextId \in Serial /\ NextId <= stored + 1 /\ \A x \in mails : x.id < NextId
  BY <1>1, NextIdFresh
<1>4. stored + 1 \in Serial /\ 0 \in 0..MaxMail /\ stored \in Nat
  BY <1>1, RawMailsAssumption DEF RawOK, Serial
<1>5. r \in Mail /\ r.id = NextId /\ r.serial = stored + 1 /\ r.address = n /\ r.msg = msg /\ r.meta = 0
  BY <1>2, <1>3, <1>4 DEF Mail
<1>6. mails' = mails \cup {r}
  BY <1>2 DEF Insert
<1>7. RawOK'
  <2>1. stored' \in 0..MaxMail /\ mails' \subseteq Mail
    BY <1>1, <1>4, <1>5, <1>6, RawMailsAssumption DEF RawOK
  <2>2. IsFiniteSet(mails')
    BY <1>6, FS_AddElement DEF RawOK
  <2>3. \A x \in mails : x.serial <= stored /\ x.id <= stored /\ x.meta <= stored
                         /\ x.id \in Nat /\ x.serial \in Nat /\ x.meta \in Nat
    BY DEF RawOK, Mail, Serial
  <2>4. \A x \in mails' : x.serial <= stored' /\ x.id <= stored' /\ x.meta <= stored'
    BY <1>1, <1>3, <1>4, <1>5, <1>6, <2>3 DEF Serial
  <2>5. \A x \in mails : x.id # r.id /\ x.serial # r.serial
    BY <1>3, <1>4, <1>5, <2>3 DEF Serial
  <2>6. \A x, y \in mails' : (x.id = y.id \/ x.serial = y.serial) => x = y
    BY <1>6, <2>5 DEF RawOK
  <2> QED
    BY <2>1, <2>2, <2>4, <2>6 DEF RawOK
<1> QED
  BY <1>1, <1>3, <1>5, <1>6, <1>7

LEMMA DiscardStep ==
    ASSUME RawOK, mails' \subseteq mails, stored' = stored
    PROVE  RawOK' /\ \A S : TableKept(S)
<1>1. IsFiniteSet(mails')
  BY FS_Subset DEF RawOK
<1> QED
  BY <1>1 DEF RawOK, TableKept, SameRow

LEMMA HouseStep ==
    ASSUME Housekeeping
    PROVE  (\E n \in Name : Insert(n, None)) \/ (mails' \subseteq mails /\ stored' = stored)
  BY DEF Housekeeping, SendAdminInternalMail, DeleteMail, ClearInbox, CleanMails, CleanUnknown,
         Discard

(* saveExtractMetadata touches nothing but what a row shows. *)
LEMMA ShowStep ==
    ASSUME RawOK, NEW i, NEW s \in 0..MaxMail, s <= stored, stored' = stored,
           mails' = {IF x.id = i THEN [x EXCEPT !.meta = s] ELSE x : x \in mails}
    PROVE  /\ RawOK'
           /\ \A S : TableKept(S)
           /\ Serials(mails') = Serials(mails)
           /\ \A x \in mails' : \E y \in mails :
                 SameRow(x, y) /\ x.meta = IF y.id = i THEN s ELSE y.meta
<1> DEFINE F(x) == IF x.id = i THEN [x EXCEPT !.meta = s] ELSE x
<1>1. \A x \in mails : F(x) \in Mail /\ SameRow(F(x), x) /\ F(x).meta = IF x.id = i THEN s ELSE x.meta
  BY DEF RawOK, Mail, SameRow
<1>2. mails' = {F(x) : x \in mails}
  OBVIOUS
<1> HIDE DEF F
<1>3. mails' \subseteq Mail
        /\ \A x \in mails' : \E y \in mails :
                 SameRow(x, y) /\ x.meta = IF y.id = i THEN s ELSE y.meta
  BY <1>1, <1>2
<1>4. IsFiniteSet(mails')
  <2> DEFINE G == [x \in mails |-> F(x)]
  <2>1. G \in Surjection(mails, mails')
    BY <1>2 DEF Surjection
  <2> QED
    BY <2>1, FS_Surjection DEF RawOK
<1>5. \A x \in mails' : x.serial <= stored' /\ x.id <= stored' /\ x.meta <= stored'
  BY <1>3 DEF RawOK, SameRow
<1>6. ASSUME NEW x \in mails', NEW y \in mails', x.id = y.id \/ x.serial = y.serial PROVE x = y
  <2>1. PICK u \in mails : x = F(u)
    BY <1>2
  <2>2. PICK v \in mails : y = F(v)
    BY <1>2
  <2>3. u.id = v.id \/ u.serial = v.serial
    BY <1>1, <1>6, <2>1, <2>2 DEF SameRow
  <2> QED
    BY <2>1, <2>2, <2>3 DEF RawOK
<1>7. Serials(mails') = Serials(mails)
  BY <1>1, <1>2 DEF Serials, SameRow
<1>8. \A S : TableKept(S)
  BY <1>3 DEF TableKept, RawOK
<1> QED
  BY <1>3, <1>4, <1>5, <1>6, <1>7, <1>8 DEF RawOK

-----------------------------------------------------------------------------
(* MailReceive                                                             *)

Frame == [pc: {"store", "rules", "next", "extract", "delete"},
          to: Name, id: 0..MaxMail, own: 0..MaxMail, rejected: BOOLEAN]

(* What a frame knows of the row it inserted is true while the row exists, *)
(* and a row that has its id now is no older one.                          *)
FrameOK(f) ==
    /\ f.own <= stored
    /\ f.id # 0 => f.own # 0
    /\ f.id # 0 => \A x \in mails :
          /\ x.serial = f.own => x.id = f.id
          /\ x.id = f.id => f.own <= x.serial

JobType == [state: {"new", "running", "done"}, recipient: Name \cup {None}, delivered: BOOLEAN,
            stack: Seq(Frame), rules: Seq(Rule), deleteOriginal: BOOLEAN]

(* The handling of a message that is under way: the frame of the message,  *)
(* and on top of it the frame of a copy for another mailbox.               *)
StackOK(j) ==
    /\ j.stack[1].to = j.recipient
    /\ \/ /\ Len(j.stack) = 1
          /\ j.stack[1].pc \in {"store", "rules", "next", "delete"}
       \/ /\ Len(j.stack) = 2
          /\ j.stack[1].pc = "next" /\ j.rules # <<>>
          /\ j.stack[2].pc \in {"store", "extract"}
          /\ j.stack[2].to # j.recipient

(* The message of a job was not stored yet. *)
Pending(j) == j.state = "new" \/ (j.state = "running" /\ j.stack[1].pc = "store")

JobOK(j) ==
    /\ j.state = "running" => StackOK(j) /\ \A k \in 1..Len(j.stack) : FrameOK(j.stack[k])
    /\ j.deleteOriginal => j.delivered

(* A message is in its mailbox once, and nowhere before it is stored. *)
CopiesOK(m, j) ==
    /\ Pending(j) => \A x \in mails : x.msg # m
    /\ \A x, y \in Inbox(j.recipient) : x.msg = m /\ y.msg = m => x = y

IInv ==
    /\ RawOK
    /\ job \in [Msg -> JobType]
    /\ \A m \in Msg : JobOK(job[m]) /\ CopiesOK(m, job[m])
    /\ ExtractIsOwn

-----------------------------------------------------------------------------
LEMMA EntryOK ==
    ASSUME RawOK, NEW n \in Name
    PROVE  /\ Entry(n) \in Frame /\ FrameOK(Entry(n))
           /\ Entry(n).pc = "store" /\ Entry(n).to = n /\ Entry(n).id = 0
  BY RawMailsAssumption DEF RawOK, Entry, Frame, FrameOK

LEMMA NewJobType ==
    /\ NewJob \in JobType /\ NewJob.state = "new" /\ NewJob.stack = <<>>
    /\ ~NewJob.deleteOriginal /\ NewJob.recipient = None
  BY DEF NewJob, JobType

LEMMA InvInit == Init => IInv
<1> SUFFICES ASSUME Init PROVE IInv
  OBVIOUS
<1>1. RawOK
  BY RawMailsAssumption, FS_EmptySet DEF Init, TableInit, RawOK
<1>2. ExtractIsOwn
  BY DEF Init, TableInit, ExtractIsOwn
<1>3. \A m \in Msg : JobOK(job[m]) /\ CopiesOK(m, job[m])
  BY NewJobType DEF Init, TableInit, JobOK, CopiesOK, Inbox
<1> QED
  BY <1>1, <1>2, <1>3, NewJobType DEF IInv, Init

(* What the frames know stays true. *)
LEMMA FrameKept ==
    ASSUME RawOK, NEW S, TableKept(S), NEW f \in Frame, FrameOK(f)
    PROVE  FrameOK(f)'
<1>1. f.own <= stored /\ f.own \in Nat /\ {stored, stored'} \subseteq Nat /\ stored <= stored'
  BY DEF RawOK, Frame, FrameOK, TableKept
<1>2. f.own <= stored' /\ (f.id # 0 => f.own # 0)
  BY <1>1 DEF FrameOK
<1>3. ASSUME NEW x \in mails', f.id # 0
      PROVE  (x.serial = f.own => x.id = f.id) /\ (x.id = f.id => f.own <= x.serial)
  <2>1. CASE \E y \in mails : SameRow(x, y)
    BY <1>3, <2>1 DEF FrameOK, SameRow
  <2>2. CASE x.serial \in Nat /\ x.serial > stored
    BY <1>1, <2>2
  <2> QED
    BY <2>1, <2>2 DEF TableKept
<1> QED
  BY <1>2, <1>3 DEF FrameOK

LEMMA JobKept ==
    ASSUME RawOK, NEW S, TableKept(S), NEW j \in JobType, JobOK(j)
    PROVE  JobOK(j)'
<1>1. ASSUME NEW k \in 1..Len(j.stack), FrameOK(j.stack[k]) PROVE FrameOK(j.stack[k])'
  BY <1>1, FrameKept DEF JobType
<1> QED
  BY <1>1 DEF JobOK, StackOK

(* A job that has gone on has its message once in the mailbox if it had,   *)
(* unless the step stored one.                                             *)
LEMMA CopiesKept ==
    ASSUME RawOK, RawOK', NEW m \in Msg, TableKept({m}),
           NEW old \in JobType, CopiesOK(m, old),
           NEW j \in JobType, Pending(j) => Pending(old),
           j.recipient = old.recipient \/ Pending(old)
    PROVE  CopiesOK(m, j)'
<1>1. \A x \in mails' : x.msg = m => \E y \in mails : SameRow(x, y)
  BY DEF TableKept
<1>2. CASE Pending(old)
  <2>1. \A x \in mails' : x.msg # m
    BY <1>1, <1>2 DEF CopiesOK, SameRow
  <2> QED
    BY <2>1 DEF CopiesOK, Inbox
<1>3. CASE ~Pending(old)
  <2>1. j.recipient = old.recipient /\ ~Pending(j)
    BY <1>3
  <2>2. ASSUME NEW x \in mails', NEW y \in mails', x.address = j.recipient, y.address = j.recipient,
               x.msg = m, y.msg = m
        PROVE  x = y
    <3>1. PICK u \in mails : SameRow(x, u)
      BY <1>1, <2>2
    <3>2. PICK v \in mails : SameRow(y, v)
      BY <1>1, <2>2
    <3>3. u = v
      BY <2>1, <2>2, <3>1, <3>2 DEF CopiesOK, SameRow, Inbox
    <3> QED
      BY <3>1, <3>2, <3>3 DEF RawOK, SameRow
  <2> QED
    BY <2>1, <2>2 DEF CopiesOK, Inbox, Pending
<1> QED
  BY <1>2, <1>3

(* The handler of m goes on with j. *)
LEMMA Moves ==
    ASSUME IInv, NEW m \in Msg, NEW j \in JobType, job' = [job EXCEPT ![m] = j],
           RawOK', ExtractIsOwn', TableKept(Msg \ {m}), JobOK(j)', CopiesOK(m, j)'
    PROVE  IInv'
<1>1. \A k \in Msg : job'[k] = IF k = m THEN j ELSE job[k]
  BY DEF IInv
<1>2. ASSUME NEW k \in Msg PROVE (JobOK(job[k]) /\ CopiesOK(k, job[k]))'
  <2>1. CASE k = m
    BY <1>1, <2>1 DEF JobOK, StackOK, FrameOK, CopiesOK, Pending, Inbox
  <2>2. CASE k # m
    <3>1. PICK o \in JobType : o = job[k] /\ JobOK(o) /\ CopiesOK(k, o)
      BY DEF IInv
    <3>2. TableKept({k})
      BY <2>2 DEF TableKept
    <3>3. JobOK(o)' /\ CopiesOK(k, o)'
      BY <3>1, <3>2, JobKept, CopiesKept DEF IInv
    <3>4. job'[k] = o
      BY <1>1, <2>2, <3>1
    <3> QED
      BY <3>3, <3>4 DEF JobOK, StackOK, FrameOK, CopiesOK, Pending, Inbox
  <2> QED
    BY <2>1, <2>2
<1>3. job' \in [Msg -> JobType]
  BY DEF IInv
<1> QED
  BY <1>2, <1>3 DEF IInv

(* What the handler of m can go on with without storing a mail *)
Successor(m, j) ==
    /\ j \in JobType /\ JobOK(j)
    /\ Pending(j) => Pending(job[m])
    /\ j.recipient = job[m].recipient \/ Pending(job[m])

LEMMA Goes ==
    ASSUME IInv, NEW m \in Msg, NEW j, Successor(m, j), job' = [job EXCEPT ![m] = j],
           RawOK', ExtractIsOwn', TableKept(Msg)
    PROVE  IInv'
<1>1. PICK old \in JobType : old = job[m] /\ CopiesOK(m, old)
  BY DEF IInv
<1>2. TableKept({m}) /\ TableKept(Msg \ {m})
  BY DEF TableKept
<1>3. j \in JobType /\ JobOK(j) /\ (Pending(j) => Pending(old))
        /\ (j.recipient = old.recipient \/ Pending(old))
  BY <1>1 DEF Successor
<1>4. RawOK
  BY DEF IInv
<1>5. CopiesOK(m, j)'
  BY <1>1, <1>2, <1>3, <1>4, CopiesKept
<1>6. JobOK(j)'
  BY <1>3, <1>4, JobKept
<1> QED
  BY <1>2, <1>3, <1>5, <1>6, Moves

LEMMA Quiet ==
    ASSUME IInv, UNCHANGED tableVars
    PROVE  RawOK' /\ ExtractIsOwn' /\ \A S : TableKept(S)
<1>1. mails' = mails /\ stored' = stored
  BY DEF tableVars
<1> QED
  BY <1>1 DEF IInv, RawOK, ExtractIsOwn, TableKept, SameRow

LEMMA StackEnds ==
    ASSUME NEW s \in Seq(Frame), Len(s) = 1 \/ Len(s) = 2
    PROVE  Len(s) \in {1, 2} /\ 1 \in 1..Len(s) /\ Len(s) \in 1..Len(s)
  OBVIOUS

(* The stack of a handling that is under way *)
LEMMA Running ==
    ASSUME IInv, NEW m \in Msg, job[m].state = "running"
    PROVE  /\ job[m] \in JobType /\ JobOK(job[m]) /\ job[m].recipient \in Name
           /\ Outer(m) \in Frame /\ Top(m) \in Frame /\ FrameOK(Outer(m)) /\ FrameOK(Top(m))
           /\ Outer(m).to = job[m].recipient
           /\ \/ /\ Depth(m) = 1 /\ Top(m) = Outer(m)
                 /\ Top(m).pc \in {"store", "rules", "next", "delete"}
              \/ /\ Depth(m) = 2 /\ Outer(m).pc = "next" /\ job[m].rules # <<>>
                 /\ Top(m).pc \in {"store", "extract"} /\ Top(m).to # job[m].recipient
<1>1. PICK j \in JobType : j = job[m] /\ JobOK(j)
  BY DEF IInv
<1>2. StackOK(j) /\ Len(j.stack) \in {1, 2} /\ j.stack \in Seq(Frame)
  BY <1>1 DEF JobOK, StackOK, JobType
<1>3. PICK s \in Seq(Frame) : s = j.stack
  BY <1>2
<1>4. PICK n : n = Len(s) /\ n \in {1, 2} /\ 1 \in 1..Len(s) /\ n \in 1..Len(s)
  <2>1. Len(s) = 1 \/ Len(s) = 2
    BY <1>2, <1>3
  <2>2. Len(s) \in {1, 2} /\ 1 \in 1..Len(s) /\ Len(s) \in 1..Len(s)
    BY <2>1, StackEnds
  <2> QED
    BY <2>2
<1>5. s[1] \in Frame /\ s[n] \in Frame /\ FrameOK(s[1]) /\ FrameOK(s[n])
  BY <1>1, <1>3, <1>4 DEF JobOK
<1>6. Outer(m) = s[1] /\ Top(m) = s[n] /\ Depth(m) = n
  BY <1>1, <1>3, <1>4 DEF Outer, Top, Depth
<1>7. s[1].to = j.recipient /\ j.recipient \in Name
  BY <1>2, <1>3, <1>5 DEF StackOK, Frame
<1>8. \/ n = 1 /\ s[1].pc \in {"store", "rules", "next", "delete"}
      \/ /\ n = 2 /\ s[1].pc = "next" /\ j.rules # <<>>
         /\ s[2].pc \in {"store", "extract"} /\ s[2].to # j.recipient
  BY <1>2, <1>3, <1>4 DEF StackOK
<1> QED
  BY <1>1, <1>5, <1>6, <1>7, <1>8

-----------------------------------------------------------------------------
LEMMA EndJob ==
    ASSUME IInv, NEW m \in Msg, End(m)
    PROVE  \E j : Successor(m, j) /\ job' = [job EXCEPT ![m] = j]
<1>1. job[m] \in JobType
  BY DEF IInv
<1>2. PICK j : j = [NewJob EXCEPT !.state = "done", !.recipient = job[m].recipient]
  OBVIOUS
<1>3. j \in JobType /\ j.state = "done" /\ ~j.deleteOriginal /\ j.recipient = job[m].recipient
  BY <1>1, <1>2, NewJobType DEF JobType
<1>4. Successor(m, j)
  BY <1>3 DEF Successor, JobOK, Pending
<1> QED
  BY <1>2, <1>4 DEF End

(* The next rule is up. *)
LEMMA FollowedJob ==
    ASSUME IInv, NEW m \in Msg, job[m].state = "running", job[m].rules # <<>>,
           NEW success \in BOOLEAN, NEW delivered \in BOOLEAN, success => delivered,
           Followed(m, success, delivered)
    PROVE  \E j : Successor(m, j) /\ job' = [job EXCEPT ![m] = j]
<1>1. PICK o \in JobType : o = job[m] /\ JobOK(o)
  BY DEF IInv
<1>2. Outer(m) \in Frame /\ FrameOK(Outer(m)) /\ Outer(m).to = o.recipient
  BY <1>1, Running
<1>3. PICK g : g = [Outer(m) EXCEPT !.pc = "next"]
  OBVIOUS
<1>4. g \in Frame /\ FrameOK(g) /\ g.pc = "next" /\ g.to = o.recipient
  BY <1>2, <1>3 DEF Frame, FrameOK
<1>5. o.rules \in Seq(Rule) /\ o.rules # <<>>
  BY <1>1 DEF JobType
<1>6. Tail(o.rules) \in Seq(Rule) /\ Head(o.rules) \in Rule
  BY <1>5, HeadTailProperties
<1>7. PICK d \in BOOLEAN : d = (o.deleteOriginal \/ (success /\ Head(o.rules).deleteOriginal))
  OBVIOUS
<1>8. PICK e \in BOOLEAN : e = (o.delivered \/ delivered)
  OBVIOUS
<1>9. d => e
  BY <1>1, <1>7, <1>8 DEF JobOK
<1>10. PICK s \in Seq(Frame) : s = <<g>> /\ Len(s) = 1 /\ s[1] = g
  <2>1. <<g>> \in Seq(Frame) /\ Len(<<g>>) = 1 /\ <<g>>[1] = g
    BY <1>4
  <2> QED
    BY <2>1
<1>11. PICK j : j = [o EXCEPT !.stack = s, !.rules = Tail(o.rules), !.deleteOriginal = d,
                              !.delivered = e]
  OBVIOUS
<1>12. j \in JobType /\ j.stack = s /\ j.deleteOriginal = d /\ j.delivered = e
       /\ j.recipient = o.recipient /\ j.state = o.state
  BY <1>6, <1>11 DEF JobType
<1>13. StackOK(j) /\ \A k \in 1..Len(j.stack) : FrameOK(j.stack[k])
  BY <1>4, <1>10, <1>12 DEF StackOK
<1>14. Successor(m, j)
  BY <1>1, <1>4, <1>9, <1>10, <1>12, <1>13 DEF Successor, JobOK, Pending
<1>15. job' = [job EXCEPT ![m] = j]
  BY <1>1, <1>3, <1>7, <1>8, <1>10, <1>11 DEF Followed
<1> QED
  BY <1>14, <1>15

(* The frame on top has moved on to f, and with it the job to j. *)
Topped(m, f, j) ==
    /\ j = WithTop(m, f)
    /\ j \in JobType /\ StackOK(j) /\ ~Pending(j) /\ j.recipient = job[m].recipient
    /\ j.state = "running" /\ j.deleteOriginal = job[m].deleteOriginal
    /\ j.delivered = job[m].delivered
    /\ Len(j.stack) = Depth(m)
    /\ \A k \in 1..Len(j.stack) : j.stack[k] = IF k = Depth(m) THEN f ELSE job[m].stack[k]

LEMMA TopJob ==
    ASSUME IInv, NEW m \in Msg, job[m].state = "running", NEW f \in Frame, f.to = Top(m).to,
           Depth(m) = 1 => f.pc \in {"rules", "next", "delete"},
           Depth(m) = 2 => f.pc = "extract"
    PROVE  \E j : Topped(m, f, j)
<1>1. PICK o \in JobType : o = job[m]
  BY DEF IInv
<1>2. PICK r \in Seq(Frame) : r = o.stack
  BY DEF JobType
<1>3. PICK n : n = Depth(m) /\ n = Len(r) /\ n \in {1, 2} /\ n \in 1..Len(r)
  <2>1. Depth(m) = 1 \/ Depth(m) = 2
    BY Running
  <2>2. Depth(m) = Len(r)
    BY <1>1, <1>2 DEF Depth
  <2> QED
    BY <2>1, <2>2
<1>4. PICK s : s = [r EXCEPT ![n] = f]
  OBVIOUS
<1>5. s \in Seq(Frame) /\ Len(s) = n /\ \A k \in 1..n : s[k] = IF k = n THEN f ELSE r[k]
  BY <1>3, <1>4, ExceptSeq
<1>6. PICK j : j = [o EXCEPT !.stack = s]
  OBVIOUS
<1>7. j = WithTop(m, f)
  BY <1>1, <1>2, <1>3, <1>4, <1>6 DEF WithTop, JobType
<1>8. j \in JobType /\ j.stack = s /\ j.recipient = o.recipient /\ j.state = o.state
      /\ j.deleteOriginal = o.deleteOriginal /\ j.delivered = o.delivered /\ j.rules = o.rules
  BY <1>5, <1>6 DEF JobType
<1>9. StackOK(j) /\ ~Pending(j)
  <2>1. CASE n = 1
    <3>1. Depth(m) = 1 /\ Top(m).to = o.recipient
      BY <1>1, <1>3, <2>1, Running
    <3>2. s[1] = f /\ Len(s) = 1
      BY <1>5, <2>1
    <3>3. j.stack[1] = f /\ Len(j.stack) = 1
      BY <1>8, <3>2
    <3>4. f.to = j.recipient /\ f.pc \in {"rules", "next", "delete"} /\ j.state = "running"
      BY <1>1, <1>8, <3>1
    <3> QED
      BY <3>3, <3>4 DEF StackOK, Pending
  <2>2. CASE n = 2
    <3>1. Depth(m) = 2 /\ Top(m).to # o.recipient /\ o.rules # <<>>
          /\ r[1].to = o.recipient /\ r[1].pc = "next"
      BY <1>1, <1>2, <1>3, <2>2, Running DEF Outer
    <3>2. s[1] = r[1] /\ s[2] = f /\ Len(s) = 2
      BY <1>5, <2>2
    <3>3. j.stack[1] = r[1] /\ j.stack[2] = f /\ Len(j.stack) = 2
      BY <1>8, <3>2
    <3>4. f.to # j.recipient /\ f.pc = "extract" /\ r[1].to = j.recipient /\ r[1].pc = "next"
          /\ j.rules # <<>> /\ j.state = "running"
      BY <1>1, <1>8, <3>1
    <3> QED
      BY <3>3, <3>4 DEF StackOK, Pending
  <2> QED
    BY <1>3, <2>1, <2>2
<1> QED
  BY <1>1, <1>2, <1>3, <1>5, <1>7, <1>8, <1>9 DEF Topped

LEMMA TopGoes ==
    ASSUME IInv, NEW m \in Msg, job[m].state = "running", NEW f \in Frame, f.to = Top(m).to,
           Depth(m) = 1 => f.pc \in {"rules", "next", "delete"},
           Depth(m) = 2 => f.pc = "extract", FrameOK(f)
    PROVE  Successor(m, WithTop(m, f))
<1>1. PICK j : Topped(m, f, j)
  BY TopJob
<1>2. PICK o \in JobType : o = job[m] /\ JobOK(o) /\ Len(o.stack) = Depth(m)
  BY DEF IInv, Depth
<1>3. ASSUME NEW k \in 1..Len(j.stack) PROVE FrameOK(j.stack[k])
  <2>1. CASE k = Depth(m)
    BY <1>1, <2>1 DEF Topped
  <2>2. CASE k # Depth(m)
    <3>1. j.stack[k] = o.stack[k] /\ k \in 1..Len(o.stack)
      BY <1>1, <1>2, <2>2 DEF Topped
    <3>2. FrameOK(o.stack[k])
      BY <1>2, <3>1 DEF JobOK
    <3> QED
      BY <3>1, <3>2
  <2> QED
    BY <2>1, <2>2
<1> QED
  BY <1>1, <1>2, <1>3 DEF Successor, JobOK, Topped

LEMMA ReturnJob ==
    ASSUME IInv, NEW m \in Msg, job[m].state = "running", Depth(m) = 2,
           NEW f \in Frame, f.id # 0 => f.own # 0, Return(m, f)
    PROVE  \E j : Successor(m, j) /\ job' = [job EXCEPT ![m] = j]
<1>1. job[m].rules # <<>>
  BY Running
<1>2. PICK success \in BOOLEAN : success = Delivered(f)
  BY DEF Delivered, Frame
<1>3. PICK delivered \in BOOLEAN : delivered = (f.own # 0)
  OBVIOUS
<1>4. success => delivered
  BY <1>2, <1>3 DEF Delivered
<1>5. Followed(m, success, delivered)
  BY <1>2, <1>3 DEF Return
<1> QED
  BY <1>1, <1>4, <1>5, FollowedJob

LEMMA ArriveStep ==
    ASSUME IInv, NEW m \in Msg, NEW n \in Name, Arrive(m, n)
    PROVE  IInv'
<1>1. PICK o \in JobType : o = job[m] /\ o.state = "new" /\ JobOK(o)
  BY DEF IInv, Arrive
<1>2. PICK e : e \in Frame /\ e = Entry(n) /\ FrameOK(e) /\ e.pc = "store" /\ e.to = n
  BY EntryOK DEF IInv
<1>3. PICK s \in Seq(Frame) : s = <<e>> /\ Len(s) = 1 /\ s[1] = e
  <2>1. <<e>> \in Seq(Frame) /\ Len(<<e>>) = 1 /\ <<e>>[1] = e
    BY <1>2
  <2> QED
    BY <2>1
<1>4. PICK j : j = [o EXCEPT !.state = "running", !.recipient = n, !.stack = s]
  OBVIOUS
<1>5. j \in JobType /\ j.state = "running" /\ j.recipient = n /\ j.stack = s
      /\ j.deleteOriginal = o.deleteOriginal /\ j.delivered = o.delivered
  BY <1>3, <1>4 DEF JobType
<1>6. StackOK(j) /\ \A k \in 1..Len(j.stack) : FrameOK(j.stack[k])
  BY <1>2, <1>3, <1>5 DEF StackOK
<1>7. Pending(job[m])
  BY <1>1 DEF Pending
<1>8. Successor(m, j)
  BY <1>1, <1>5, <1>6, <1>7 DEF Successor, JobOK
<1>9. job' = [job EXCEPT ![m] = j] /\ UNCHANGED tableVars
  BY <1>1, <1>2, <1>3, <1>4 DEF Arrive
<1> QED
  BY <1>8, <1>9, Quiet, Goes

LEMMA FilterStep ==
    ASSUME IInv, NEW m \in Msg, Filter(m)
    PROVE  IInv'
<1>1. job[m].state = "running" /\ UNCHANGED tableVars
  BY DEF Filter, At
<1>2. Top(m) \in Frame /\ (Top(m).id # 0 => Top(m).own # 0)
      /\ (Depth(m) = 2 \/ Depth(m) = 1)
  BY <1>1, Running DEF FrameOK
<1>3. PICK f : f = [Top(m) EXCEPT !.rejected = TRUE]
  OBVIOUS
<1>4. f \in Frame /\ f.id = Top(m).id /\ f.own = Top(m).own
  BY <1>2, <1>3 DEF Frame
<1>5. End(m) \/ (Depth(m) = 2 /\ (Return(m, f) \/ Return(m, Top(m))))
  BY <1>2, <1>3 DEF Filter, Reject, MayForward
<1>6. \E j : Successor(m, j) /\ job' = [job EXCEPT ![m] = j]
  BY <1>1, <1>2, <1>4, <1>5, EndJob, ReturnJob
<1> QED
  BY <1>1, <1>6, Quiet, Goes

(* The row is inserted, whether or not the handler learns its id. *)
LEMMA InsertedStep ==
    ASSUME IInv, NEW m \in Msg, At(m, "store"), Insert(Top(m).to, m),
           NEW id \in {NextId, 0}, NEW f,
           f = [Top(m) EXCEPT !.pc = IF MayForward(m) THEN "rules" ELSE "extract",
                              !.id = id, !.own = stored + 1, !.rejected = FALSE],
           job' = [job EXCEPT ![m] = WithTop(m, f)]
    PROVE  IInv'
<1>1. job[m].state = "running" /\ Top(m).pc = "store" /\ Top(m) \in Frame /\ RawOK
  BY Running DEF At, IInv
<1>2. PICK n \in Name : n = Top(m).to
  BY <1>1 DEF Frame
<1>3. Insert(n, m) /\ m \in Msg \cup {None}
  BY <1>2
<1>4. RawOK' /\ stored' = stored + 1 /\ stored < MaxMail /\ stored \in Nat
  <2>1. RawOK' /\ stored' = stored + 1
    BY <1>1, <1>3, InsertStep
  <2> QED
    BY <1>1, <1>3, <2>1 DEF Insert, RawOK
<1>5. PICK r \in Mail : mails' = mails \cup {r} /\ r.id = NextId /\ r.serial = stored + 1
                        /\ r.address = n /\ r.msg = m /\ r.meta = 0
  BY <1>1, <1>3, InsertStep
<1>6. stored + 1 \in 1..MaxMail /\ id \in 0..MaxMail
  BY <1>1, <1>4, NextIdFresh, RawMailsAssumption DEF Serial
<1>7. f \in Frame /\ f.to = Top(m).to /\ f.id = id /\ f.own = stored + 1
      /\ (Depth(m) = 1 => f.pc \in {"rules", "next", "delete"}) /\ (Depth(m) = 2 => f.pc = "extract")
  <2>1. PICK pc \in {"rules", "extract"} : pc = IF Depth(m) = 1 THEN "rules" ELSE "extract"
    OBVIOUS
  <2>2. f = [Top(m) EXCEPT !.pc = pc, !.id = id, !.own = stored + 1, !.rejected = FALSE]
    BY <2>1 DEF MayForward
  <2>3. PICK u \in Frame : u = Top(m)
    BY <1>1
  <2>4. PICK own \in 0..MaxMail : own = stored + 1
    BY <1>6, RawMailsAssumption
  <2>5. f = [u EXCEPT !.pc = pc, !.id = id, !.own = own, !.rejected = FALSE]
    BY <2>2, <2>3, <2>4
  <2>6. f \in Frame /\ f.to = u.to /\ f.id = id /\ f.own = own /\ f.pc = pc
    BY <1>6, <2>5 DEF Frame
  <2> QED
    BY <2>1, <2>3, <2>4, <2>6
<1>8. \A x \in mails : x.serial <= stored /\ x.serial \in Nat /\ x.meta <= stored /\ x.meta \in Nat
  BY <1>1 DEF RawOK, Mail, Serial
<1>9. FrameOK(f)'
  <2>1. f.own <= stored' /\ f.own # 0
    BY <1>4, <1>7
  <2>2. ASSUME NEW x \in mails', f.id # 0, x.serial = f.own PROVE x.id = f.id
    BY <1>4, <1>5, <1>7, <1>8, <2>2
  <2>3. ASSUME NEW x \in mails', f.id # 0, x.id = f.id PROVE f.own <= x.serial
    <3>1. \A y \in mails : y.id # NextId
      <4>1. \A y \in mails : y.id \in Nat /\ y.id < NextId
        BY <1>1, <1>4, NextIdFresh DEF RawOK, Mail, Serial
      <4> QED
        BY <4>1
    <3>2. x = r
      BY <1>1, <1>5, <1>7, <2>3, <3>1
    <3> QED
      BY <1>4, <1>5, <1>7, <3>2
  <2> QED
    BY <2>1, <2>2, <2>3 DEF FrameOK
<1>10. PICK j : Topped(m, f, j)
  BY <1>1, <1>7, TopJob
<1>11. TableKept(Msg \ {m})
  BY <1>4, <1>5 DEF TableKept, SameRow
<1>12. PICK o \in JobType : o = job[m] /\ JobOK(o) /\ CopiesOK(m, o) /\ Len(o.stack) = Depth(m)
  BY DEF IInv, Depth
<1>13. JobOK(j)'
  <2>1. ASSUME NEW k \in 1..Len(j.stack) PROVE FrameOK(j.stack[k])'
    <3>1. CASE k = Depth(m)
      <4>1. j.stack[k] = f
        BY <1>10, <3>1 DEF Topped
      <4> QED
        BY <1>9, <4>1
    <3>2. CASE k # Depth(m)
      <4>1. PICK g : g = o.stack[k] /\ g = j.stack[k] /\ g \in Frame /\ FrameOK(g)
        BY <1>1, <1>10, <1>12, <3>2 DEF JobOK, JobType, Topped
      <4>2. FrameOK(g)'
        BY <1>1, <1>11, <4>1, FrameKept
      <4> QED
        BY <4>1, <4>2
    <3> QED
      BY <3>1, <3>2
  <2> QED
    BY <1>10, <1>12, <2>1 DEF JobOK, StackOK, Topped
<1>14. CopiesOK(m, j)'
  <2>1. ASSUME NEW x \in mails', NEW y \in mails', x.address = j.recipient, y.address = j.recipient,
               x.msg = m, y.msg = m
        PROVE  x = y
    <3>1. CASE Depth(m) = 1
      <4>1. Pending(o)
        BY <1>1, <1>12, <3>1, Running DEF Pending, Outer
      <4>2. x = r /\ y = r
        BY <1>5, <1>12, <2>1, <4>1 DEF CopiesOK
      <4> QED
        BY <4>2
    <3>2. CASE Depth(m) = 2
      <4>1. r.address # j.recipient
        BY <1>1, <1>2, <1>5, <1>10, <3>2, Running DEF Topped
      <4>2. x \in Inbox(o.recipient) /\ y \in Inbox(o.recipient)
        BY <1>5, <1>10, <1>12, <2>1, <4>1 DEF Inbox, Topped
      <4> QED
        BY <1>12, <2>1, <4>2 DEF CopiesOK
    <3> QED
      BY <1>1, <3>1, <3>2, Running
  <2> QED
    BY <1>10, <2>1 DEF CopiesOK, Inbox, Topped
<1>15. ExtractIsOwn'
  <2>1. \A x \in mails : x.meta # r.serial
    BY <1>4, <1>5, <1>8
  <2>2. Serials(mails') = Serials(mails) \cup {r.serial}
    BY <1>5 DEF Serials
  <2> QED
    BY <1>5, <2>1, <2>2 DEF IInv, ExtractIsOwn
<1>16. job' = [job EXCEPT ![m] = j] /\ j \in JobType
  BY <1>10 DEF Topped
<1> QED
  BY <1>4, <1>11, <1>13, <1>14, <1>15, <1>16, Moves

LEMMA StoreStep ==
    ASSUME IInv, NEW m \in Msg, Store(m)
    PROVE  IInv'
<1> DEFINE F(id, own, rejected) ==
             [Top(m) EXCEPT !.pc = IF MayForward(m) THEN "rules" ELSE "extract",
                            !.id = id, !.own = own, !.rejected = rejected]
<1>1. At(m, "store") /\ job[m].state = "running"
  BY DEF Store, At
<1>2. CASE /\ Insert(Top(m).to, m)
           /\ \/ job' = [job EXCEPT ![m] = WithTop(m, F(NextId, stored + 1, FALSE))]
              \/ job' = [job EXCEPT ![m] = WithTop(m, F(0, stored + 1, FALSE))]
  BY <1>1, <1>2, InsertedStep
<1>3. ASSUME NEW rejected \in BOOLEAN, UNCHANGED <<mails, stored>>,
             job' = [job EXCEPT ![m] = WithTop(m, F(0, 0, rejected))]
      PROVE  IInv'
  <2>1. Top(m) \in Frame /\ stored \in Nat
    BY <1>1, Running DEF IInv, RawOK
  <2>2. PICK f : f = F(0, 0, rejected)
    OBVIOUS
  <2>3. f \in Frame /\ f.to = Top(m).to /\ f.id = 0 /\ f.own = 0
        /\ (Depth(m) = 1 => f.pc \in {"rules", "next", "delete"})
        /\ (Depth(m) = 2 => f.pc = "extract")
    <3>1. PICK pc \in {"rules", "extract"} : pc = IF Depth(m) = 1 THEN "rules" ELSE "extract"
      OBVIOUS
    <3>2. f = [Top(m) EXCEPT !.pc = pc, !.id = 0, !.own = 0, !.rejected = rejected]
      BY <2>2, <3>1 DEF MayForward
    <3>3. PICK u \in Frame : u = Top(m)
      BY <2>1
    <3>4. PICK z \in 0..MaxMail : z = 0
      BY RawMailsAssumption
    <3>5. f = [u EXCEPT !.pc = pc, !.id = z, !.own = z, !.rejected = rejected]
      BY <3>2, <3>3, <3>4
    <3>6. f \in Frame /\ f.to = u.to /\ f.id = z /\ f.own = z /\ f.pc = pc
      BY <3>5 DEF Frame
    <3> QED
      BY <3>1, <3>3, <3>4, <3>6
  <2>4. FrameOK(f)
    BY <2>1, <2>3 DEF FrameOK
  <2>5. Successor(m, WithTop(m, f))
    BY <1>1, <2>3, <2>4, TopGoes
  <2>6. job' = [job EXCEPT ![m] = WithTop(m, f)] /\ UNCHANGED tableVars
    BY <1>3, <2>2 DEF tableVars
  <2> QED
    BY <2>5, <2>6, Quiet, Goes
<1>4. \/ /\ Insert(Top(m).to, m)
         /\ \/ job' = [job EXCEPT ![m] = WithTop(m, F(NextId, stored + 1, FALSE))]
            \/ job' = [job EXCEPT ![m] = WithTop(m, F(0, stored + 1, FALSE))]
      \/ /\ UNCHANGED <<mails, stored>>
         /\ \E rejected \in BOOLEAN : job' = [job EXCEPT ![m] = WithTop(m, F(0, 0, rejected))]
  BY DEF Store
<1> QED
  BY <1>2, <1>3, <1>4

LEMMA ReadRulesStep ==
    ASSUME IInv, NEW m \in Msg, ReadRules(m)
    PROVE  IInv'
<1>1. job[m].state = "running" /\ Top(m).pc = "rules" /\ UNCHANGED tableVars
  BY DEF ReadRules, At
<1>2. Top(m) \in Frame /\ FrameOK(Top(m)) /\ Depth(m) = 1
  BY <1>1, Running
<1>3. PICK f : f = [Top(m) EXCEPT !.pc = "next"]
  OBVIOUS
<1>4. f \in Frame /\ f.to = Top(m).to /\ f.pc = "next" /\ FrameOK(f)
  BY <1>2, <1>3 DEF Frame, FrameOK
<1>5. PICK j \in JobType : j = WithTop(m, f) /\ Successor(m, j) /\ j.state = "running"
                           /\ StackOK(j) /\ ~Pending(j) /\ Len(j.stack) = 1
  <2>1. (Depth(m) = 1 => f.pc \in {"rules", "next", "delete"}) /\ (Depth(m) = 2 => f.pc = "extract")
    BY <1>2, <1>4
  <2>2. Successor(m, WithTop(m, f))
    BY <1>1, <1>4, <2>1, TopGoes
  <2>3. PICK j : Topped(m, f, j)
    BY <1>1, <1>4, <2>1, TopJob
  <2> QED
    BY <1>2, <2>2, <2>3 DEF Topped
<1>6. PICK rules \in RuleLists \cup {<<>>} : job' = [job EXCEPT ![m] = [j EXCEPT !.rules = rules]]
  BY <1>3, <1>5 DEF ReadRules
<1>7. rules \in Seq(Rule)
  <2>1. <<>> \in Seq(Rule)
    OBVIOUS
  <2> QED
    BY <1>6, <2>1, MailReceiveAssumption
<1>8. PICK k : k = [j EXCEPT !.rules = rules]
  OBVIOUS
<1>9. k \in JobType /\ k.state = j.state /\ k.stack = j.stack /\ k.recipient = j.recipient
      /\ k.deleteOriginal = j.deleteOriginal /\ k.delivered = j.delivered
  BY <1>7, <1>8 DEF JobType
<1>10. StackOK(k) /\ ~Pending(k)
  BY <1>5, <1>9 DEF StackOK, Pending
<1>11. Successor(m, k)
  BY <1>5, <1>9, <1>10 DEF Successor, JobOK
<1> QED
  BY <1>1, <1>6, <1>8, <1>11, Quiet, Goes

(* The nested call begins. *)
LEMMA NestedJob ==
    ASSUME IInv, NEW m \in Msg, job[m].state = "running", Top(m).pc = "next",
           job[m].rules # <<>>, NEW n \in Name \ {Outer(m).to},
           job' = [job EXCEPT ![m].stack = Append(@, Entry(n))]
    PROVE  \E j : Successor(m, j) /\ job' = [job EXCEPT ![m] = j]
<1>1. PICK o \in JobType : o = job[m] /\ JobOK(o)
  BY DEF IInv
<1>2. PICK r \in Seq(Frame) : r = o.stack
  BY DEF JobType
<1>3. Depth(m) = 1 /\ Top(m) = Outer(m) /\ Outer(m) \in Frame /\ FrameOK(Outer(m))
      /\ Outer(m).to = o.recipient
  BY <1>1, Running
<1>4. Len(r) = 1 /\ r[1] = Outer(m)
  BY <1>1, <1>2, <1>3 DEF Depth, Outer
<1>5. PICK e : e \in Frame /\ e = Entry(n) /\ FrameOK(e) /\ e.pc = "store" /\ e.to = n
  BY EntryOK DEF IInv
<1>6. PICK s : s = Append(r, e)
  OBVIOUS
<1>7. s \in Seq(Frame) /\ Len(s) = 2 /\ s[1] = r[1] /\ s[2] = e
  <2>1. /\ s \in Seq(Frame) /\ Len(s) = Len(r) + 1 /\ s[Len(r) + 1] = e
        /\ \A k \in 1..Len(r) : s[k] = r[k]
    BY <1>5, <1>6, AppendProperties
  <2> QED
    BY <1>4, <2>1
<1>8. PICK j : j = [o EXCEPT !.stack = s]
  OBVIOUS
<1>9. j \in JobType /\ j.stack = s /\ j.state = "running" /\ j.recipient = o.recipient
      /\ j.rules = o.rules /\ j.deleteOriginal = o.deleteOriginal /\ j.delivered = o.delivered
  BY <1>1, <1>7, <1>8 DEF JobType
<1>10. j.stack[1] = Outer(m) /\ j.stack[2] = e /\ Len(j.stack) = 2
  BY <1>4, <1>7, <1>9
<1>11. StackOK(j) /\ ~Pending(j)
  BY <1>1, <1>3, <1>5, <1>9, <1>10 DEF StackOK, Pending
<1>12. \A k \in 1..Len(j.stack) : FrameOK(j.stack[k])
  <2>1. \A k \in 1..Len(j.stack) : k = 1 \/ k = 2
    BY <1>10
  <2> QED
    BY <1>3, <1>5, <1>10, <2>1
<1>13. Successor(m, j)
  BY <1>1, <1>9, <1>11, <1>12 DEF Successor, JobOK
<1>14. job' = [job EXCEPT ![m] = j]
  BY <1>1, <1>2, <1>5, <1>6, <1>8
<1> QED
  BY <1>13, <1>14

LEMMA FollowRuleStep ==
    ASSUME IInv, NEW m \in Msg, FollowRule(m)
    PROVE  IInv'
<1>1. job[m].state = "running" /\ Top(m).pc = "next" /\ job[m].rules # <<>> /\ UNCHANGED tableVars
  BY DEF FollowRule, At
<1>2. \/ Followed(m, FALSE, FALSE) \/ Followed(m, TRUE, TRUE)
      \/ \E n \in Name \ {Outer(m).to} : job' = [job EXCEPT ![m].stack = Append(@, Entry(n))]
  BY DEF FollowRule
<1>3. \E j : Successor(m, j) /\ job' = [job EXCEPT ![m] = j]
  BY <1>1, <1>2, FollowedJob, NestedJob
<1> QED
  BY <1>1, <1>3, Quiet, Goes

(* The row a handler knows the id of is its own one. *)
LEMMA ShowsOwn ==
    ASSUME IInv, NEW m \in Msg, job[m].state = "running", Top(m).id # 0, ShowExtract(m),
           stored' = stored
    PROVE  RawOK' /\ ExtractIsOwn' /\ TableKept(Msg) /\ Serials(mails') = Serials(mails)
<1> DEFINE i == Top(m).id
           s == Top(m).own
<1>1. Top(m) \in Frame /\ FrameOK(Top(m)) /\ RawOK
  BY Running DEF IInv
<1>2. s \in 0..MaxMail /\ s <= stored
  BY <1>1 DEF Frame, FrameOK
<1>3. mails' = {IF x.id = i THEN [x EXCEPT !.meta = s] ELSE x : x \in mails}
  BY DEF ShowExtract
<1>4. \A x \in mails : (x.serial = s => x.id = i) /\ (x.id = i => s <= x.serial)
  BY <1>1 DEF FrameOK
<1> HIDE DEF i, s
<1>5. /\ RawOK' /\ TableKept(Msg) /\ Serials(mails') = Serials(mails)
      /\ \A x \in mails' : \E y \in mails :
            SameRow(x, y) /\ x.meta = IF y.id = i THEN s ELSE y.meta
  BY <1>1, <1>2, <1>3, ShowStep
<1>6. ASSUME NEW x \in mails'
      PROVE  x.meta \in {0, x.serial} \/ (x.meta \notin Serials(mails') /\ x.meta < x.serial)
  <2>1. PICK u \in mails : x.serial = u.serial /\ x.meta = IF u.id = i THEN s ELSE u.meta
    BY <1>5 DEF SameRow
  <2>2. CASE u.id = i /\ s # u.serial
    <3>1. s < u.serial
      BY <1>1, <1>2, <1>4, <2>2 DEF RawOK, Mail, Serial
    <3>2. s \notin Serials(mails)
      BY <1>1, <1>4, <2>2 DEF RawOK, Serials
    <3> QED
      BY <1>5, <2>1, <2>2, <3>1, <3>2
  <2>3. CASE u.id = i /\ s = u.serial
    BY <2>1, <2>3
  <2>4. CASE u.id # i
    BY <1>5, <2>1, <2>4 DEF IInv, ExtractIsOwn
  <2> QED
    BY <2>2, <2>3, <2>4
<1> QED
  BY <1>5, <1>6 DEF ExtractIsOwn

LEMMA ExtractStep ==
    ASSUME IInv, NEW m \in Msg, Extract(m)
    PROVE  IInv'
<1>1. job[m].state = "running" /\ stored' = stored
      /\ (Top(m).pc = "extract" \/ (Top(m).pc = "next" /\ job[m].rules = <<>>))
  BY DEF Extract, At
<1>2. Top(m) \in Frame /\ FrameOK(Top(m)) /\ (Depth(m) = 1 \/ Depth(m) = 2)
  BY <1>1, Running
<1>3. RawOK' /\ ExtractIsOwn' /\ TableKept(Msg)
  <2>1. CASE UNCHANGED mails
    BY <1>1, <2>1, Quiet DEF tableVars
  <2>2. CASE Top(m).id # 0 /\ ShowExtract(m)
    BY <1>1, <2>2, ShowsOwn
  <2> QED
    BY <2>1, <2>2 DEF Extract
<1>4. PICK f : f = [Top(m) EXCEPT !.pc = "delete"]
  OBVIOUS
<1>5. f \in Frame /\ f.to = Top(m).to /\ f.pc = "delete" /\ FrameOK(f)
  BY <1>2, <1>4 DEF Frame, FrameOK
<1>6. \E j : Successor(m, j) /\ job' = [job EXCEPT ![m] = j]
  <2>1. CASE Depth(m) = 1
    <3>1. job' = [job EXCEPT ![m] = WithTop(m, f)]
      BY <1>4, <2>1 DEF Extract, MayForward, Goto
    <3>2. (Depth(m) = 1 => f.pc \in {"rules", "next", "delete"}) /\ (Depth(m) = 2 => f.pc = "extract")
      BY <1>5, <2>1
    <3>3. Successor(m, WithTop(m, f))
      BY <1>1, <1>5, <3>2, TopGoes
    <3> QED
      BY <3>1, <3>3
  <2>2. CASE Depth(m) = 2
    <3>1. Return(m, Top(m))
      BY <2>2 DEF Extract, MayForward
    <3> QED
      BY <1>1, <1>2, <2>2, <3>1, ReturnJob DEF FrameOK
  <2> QED
    BY <1>2, <2>1, <2>2
<1> QED
  BY <1>3, <1>6, Goes

LEMMA DeleteStep ==
    ASSUME IInv, NEW m \in Msg, DeleteOriginal(m)
    PROVE  IInv'
<1>1. stored' = stored /\ mails' \subseteq mails /\ End(m)
  BY DEF DeleteOriginal
<1>2. RawOK' /\ TableKept(Msg)
  BY <1>1, DiscardStep DEF IInv
<1>3. ExtractIsOwn'
  BY <1>1 DEF IInv, ExtractIsOwn, Serials
<1> QED
  BY <1>1, <1>2, <1>3, EndJob, Goes

LEMMA CancelStep ==
    ASSUME IInv, NEW m \in Msg, Cancel(m)
    PROVE  IInv'
<1>1. End(m) /\ UNCHANGED tableVars
  BY DEF Cancel
<1> QED
  BY <1>1, Quiet, EndJob, Goes

LEMMA OthersStep ==
    ASSUME IInv, Others
    PROVE  IInv'
<1>1. job' = job /\ Housekeeping /\ RawOK
  BY DEF Others, IInv
<1>2. RawOK' /\ ExtractIsOwn' /\ TableKept(Msg)
  <2>1. CASE mails' \subseteq mails /\ stored' = stored
    BY <1>1, <2>1, DiscardStep DEF IInv, ExtractIsOwn, Serials
  <2>2. ASSUME NEW n \in Name, Insert(n, None) PROVE RawOK' /\ ExtractIsOwn' /\ TableKept(Msg)
    <3>1. RawOK' /\ stored' = stored + 1 /\ stored \in Nat
      BY <1>1, <2>2, InsertStep DEF RawOK
    <3>2. PICK r \in Mail : mails' = mails \cup {r} /\ r.serial = stored + 1
                            /\ r.msg = None /\ r.meta = 0
      BY <1>1, <2>2, InsertStep
    <3>3. TableKept(Msg)
      BY <3>1, <3>2, RawMailsAssumption DEF TableKept, SameRow
    <3>4. \A x \in mails : x.meta # r.serial
      <4>1. \A x \in mails : x.meta <= stored /\ x.meta \in Nat
        BY <1>1 DEF RawOK, Mail
      <4> QED
        BY <3>1, <3>2, <4>1
    <3>5. Serials(mails') = Serials(mails) \cup {r.serial}
      BY <3>2 DEF Serials
    <3>6. ExtractIsOwn'
      BY <3>2, <3>4, <3>5 DEF IInv, ExtractIsOwn
    <3> QED
      BY <3>1, <3>3, <3>6
  <2> QED
    BY <1>1, <2>1, <2>2, HouseStep
<1>3. ASSUME NEW m \in Msg PROVE JobOK(job[m])' /\ CopiesOK(m, job[m])'
  <2>1. PICK o \in JobType : o = job[m] /\ JobOK(o) /\ CopiesOK(m, o)
    BY DEF IInv
  <2>2. TableKept({m})
    BY <1>2 DEF TableKept
  <2>3. JobOK(o)' /\ CopiesOK(m, o)'
    BY <1>1, <1>2, <2>1, <2>2, JobKept, CopiesKept
  <2>4. job'[m] = o
    BY <1>1, <2>1
  <2> QED
    BY <2>3, <2>4 DEF JobOK, StackOK, FrameOK, CopiesOK, Pending, Inbox
<1> QED
  BY <1>1, <1>2, <1>3 DEF IInv

LEMMA InvStep == IInv /\ [Next]_vars => IInv'
<1> SUFFICES ASSUME IInv, [Next]_vars PROVE IInv'
  OBVIOUS
<1>1. CASE UNCHANGED vars
  BY <1>1 DEF vars, tableVars, IInv, RawOK, ExtractIsOwn, Serials, JobOK, StackOK, FrameOK, CopiesOK,
              Pending, Inbox
<1>2. CASE Others
  BY <1>2, OthersStep
<1>3. ASSUME NEW m \in Msg, Handle(m) PROVE IInv'
  BY <1>3, ArriveStep, FilterStep, StoreStep, ReadRulesStep, FollowRuleStep, ExtractStep,
     DeleteStep, CancelStep DEF Handle
<1> QED
  BY <1>1, <1>2, <1>3 DEF Next

-----------------------------------------------------------------------------
(* A mail shows what was extracted from another one only if that was there *)
(* before it and is deleted: the handler finds its row by an id that may   *)
(* have been given away again (ai_extract.ts:164).                         *)
THEOREM OwnExtract == Spec => []ExtractIsOwn
<1>1. IInv => ExtractIsOwn
  BY DEF IInv
<1> QED
  BY <1>1, InvInit, InvStep, PTL DEF Spec

(* However the rules forward a message, be it in circles, the mailbox it   *)
(* was sent to has it once (forward.ts:62, index.ts:87).                   *)
THEOREM NoDuplicate == Spec => []DeliveredOnce
<1>1. IInv => DeliveredOnce
  <2> SUFFICES ASSUME IInv, NEW m \in Msg
               PROVE  Cardinality({x \in Inbox(job[m].recipient) : x.msg = m}) <= 1
    BY DEF DeliveredOnce
  <2> DEFINE C == {x \in Inbox(job[m].recipient) : x.msg = m}
  <2>1. \A x, y \in C : x = y
    BY DEF IInv, CopiesOK
  <2>2. CASE C = {}
    BY <2>2, FS_EmptySet
  <2>3. CASE C # {}
    <3>1. PICK x \in C : C = {x}
      BY <2>1, <2>3
    <3>2. Cardinality({x}) = 1
      BY FS_Singleton
    <3> QED
      BY <3>1, <3>2
  <2> QED
    BY <2>2, <2>3
<1> QED
  BY <1>1, InvInit, InvStep, PTL DEF Spec

(* Whatever fails on the way, a handler deletes no mail unless the message *)
(* was delivered elsewhere, and nothing but the original while that is     *)
(* there (forward.ts:84-92, index.ts:132).                                 *)
THEOREM OriginalKept == Spec => MailKept
<1>1. ASSUME IInv, [Next]_vars, NEW m \in Msg, Removed(m) # {}
      PROVE  /\ job[m].delivered
             /\ Outer(m).own \in Serials(mails) => Removed(m) = {Outer(m).own}
  <2>1. job'[m] # job[m] /\ Removed(m) = Serials(mails) \ Serials(mails')
    BY <1>1 DEF Removed
  <2>2. ~(mails \subseteq mails')
    BY <1>1, <2>1 DEF Serials
  <2>3. PICK n \in Msg : Handle(n)
    BY <1>1, <2>1 DEF Next, Others, vars
  <2>4. DeleteOriginal(n)
    <3>1. ASSUME Extract(n) PROVE FALSE
      <4>1. ShowExtract(n) /\ Top(n).id # 0 /\ stored' = stored /\ job[n].state = "running"
        BY <2>2, <3>1 DEF Extract, At
      <4>2. Serials(mails') = Serials(mails)
        BY <1>1, <4>1, ShowsOwn
      <4> QED
        BY <1>1, <2>1, <4>2
    <3>2. ASSUME Store(n) PROVE FALSE
      BY <2>2, <3>2 DEF Store, Insert
    <3> QED
      BY <2>2, <2>3, <3>1, <3>2
         DEF Handle, Arrive, Filter, ReadRules, FollowRule, Cancel, tableVars
  <2>5. n = m
    BY <1>1, <2>1, <2>4 DEF DeleteOriginal, End, IInv
  <2>6. job[m].state = "running" /\ Top(m).pc = "delete" /\ job[m].deleteOriginal /\ Top(m).id # 0
        /\ mails' = {x \in mails : ~(x.id = Top(m).id /\ x.address = Top(m).to)}
    BY <2>2, <2>4, <2>5 DEF DeleteOriginal, At
  <2>7. Top(m) = Outer(m) /\ FrameOK(Top(m)) /\ JobOK(job[m]) /\ RawOK
    BY <1>1, <2>6, Running DEF IInv
  <2>8. ASSUME Outer(m).own \in Serials(mails) PROVE Removed(m) = {Outer(m).own}
    <3>1. PICK y \in mails : y.serial = Outer(m).own /\ y.id = Top(m).id
      BY <2>6, <2>7, <2>8 DEF Serials, FrameOK
    <3>2. \A x \in mails : x \notin mails' => x = y
      BY <2>6, <2>7, <3>1 DEF RawOK
    <3>3. Removed(m) \subseteq {y.serial}
      BY <2>1, <3>2 DEF Serials
    <3> QED
      BY <1>1, <3>1, <3>3
  <2> QED
    BY <2>6, <2>7, <2>8 DEF JobOK
<1>2. IInv /\ [Next]_vars =>
        [\A m \in Msg : Removed(m) # {} =>
            /\ job[m].delivered
            /\ Outer(m).own \in Serials(mails) => Removed(m) = {Outer(m).own}]_vars
  BY <1>1
<1> QED
  BY <1>2, InvInit, InvStep, PTL DEF Spec, MailKept

-----------------------------------------------------------------------------
(* ImapMailbox                                                             *)

Changes == {"nothing", "arrival", "deletion"}

FlagsType == [Uid -> SUBSET Flag]

CommandType ==
    [pc: {"idle", "refresh", "compare", "build", "counted", "index", "install", "flags", "copy",
          "act", "store", "stored", "fetch", "fetched"},
     then: {"answer", "fetch", "store"},
     count: Nat, since: Changes, offset: Nat,
     uids: SUBSET Uid, wanted: SUBSET Uid, found: SUBSET Uid,
     copy: FlagsType, late: SUBSET Uid]

ProxyTypeOK ==
    /\ RawOK
    /\ cmd \in [Slot -> CommandType]
    /\ count \in Nat /\ top \in Nat
    /\ changes \in Changes
    /\ index \subseteq Uid /\ cache \subseteq Uid
    /\ flags \in FlagsType /\ persisted \in FlagsType /\ standing \in FlagsType

(* What the session knows, and what is there, is not newer than top. *)
KnownOK ==
    /\ \A m \in mails : m.id <= top
    /\ \A u \in index : u <= top
    /\ \A c \in Slot : \A u \in cmd[c].uids \cup cmd[c].found : u <= top
    /\ NewIsUnseen

(* A copy that is on its way is right but for what was stored to since it  *)
(* was read, and the session's copy is right but for what is behind and    *)
(* what is on its way.                                                     *)
CopyOK(r) ==
    /\ r.pc = "copy" => \A u \in Uid \ r.late : r.copy[u] = persisted[u]
    /\ r.pc = "stored" => \A u \in r.uids \ r.late : r.copy[u] = persisted[u]

OnItsWay(u) == \E c \in Slot : Doing(c, "stored") /\ u \in cmd[c].uids \ cmd[c].late

ShownOK ==
    /\ \A c \in Slot : CopyOK(cmd[c])
    /\ \A u \in Uid \ behind : flags[u] = persisted[u] \/ OnItsWay(u)

(* The place of m in the list, and what is before the place n *)
Rank(m) == Cardinality({n \in Inbox(Owner) : n.id > m.id})

Before(n) == Ids({m \in Inbox(Owner) : Rank(m) < n})

(* As long as no mail was deleted the number of mails tells whether one *)
(* arrived since there were n.                                          *)
Tells(n, since) ==
    since # "deletion" =>
        IF since = "nothing" THEN Cardinality(Inbox(Owner)) = n
                             ELSE Cardinality(Inbox(Owner)) > n

(* The walk through the list has seen what is before its offset, and in    *)
(* the end all of it, unless the mailbox has changed since.                *)
WalkOK(r) ==
    /\ r.pc \in {"compare", "counted", "index", "install", "fetch", "fetched"} =>
          Tells(r.count, r.since)
    /\ r.pc \in {"refresh", "compare", "build", "counted", "act"} => r.offset = 0 /\ r.found = {}
    /\ r.pc = "index" =>
          /\ r.offset < r.count
          /\ r.since = "nothing" => r.found = Before(r.offset)
    /\ r.pc = "install" /\ r.since = "nothing" => r.found = Ids(Inbox(Owner))

(* The number of mails and the walk that the index is replaced from belong *)
(* together, and so do number and index when they are of one rebuild.      *)
IndexOK ==
    /\ Tells(count, changes)
    /\ \A c \in Slot : WalkOK(cmd[c])
    /\ \A c \in Slot :
          unmatched = c /\ cmd[c].pc \in {"index", "install"} =>
              count = cmd[c].count /\ changes = cmd[c].since
    /\ built /\ unmatched = None /\ changes = "nothing" => index = Ids(Inbox(Owner))

(* A fetch has found what it wants of the mails before its offset, unless  *)
(* the mailbox has changed since; the rest is cached, unless messages had  *)
(* to make room.                                                           *)
FetchOK(r) ==
    r.pc \in {"fetch", "fetched"} =>
        /\ r.found \subseteq r.wanted
        /\ r.wanted \subseteq r.uids
        /\ r.uids \ r.wanted \subseteq cache \/ Cardinality(cache) = CacheSize
        /\ r.pc = "fetch" =>
              /\ r.offset < r.count
              /\ r.since = "nothing" => r.found = r.wanted \cap Before(r.offset)
        /\ r.pc = "fetched" /\ r.since = "nothing" => r.wanted \cap Ids(Inbox(Owner)) \subseteq r.found

CacheOK == \A c \in Slot : FetchOK(cmd[c])

ProxyInv == ProxyTypeOK /\ KnownOK /\ NoStoreLost /\ ShownOK /\ IndexOK /\ CacheOK /\ FetchReturnsAll

-----------------------------------------------------------------------------
LEMMA InboxFinite ==
    ASSUME RawOK, NEW n
    PROVE  IsFiniteSet(Inbox(n)) /\ Cardinality(Inbox(n)) \in Nat /\ Inbox(n) \subseteq mails
<1>1. Inbox(n) \subseteq mails
  BY DEF Inbox
<1> QED
  BY <1>1, FS_Subset, FS_CardinalityType DEF RawOK

LEMMA IdleCommand ==
    /\ Idle \in CommandType /\ NoFlags \in FlagsType
    /\ Idle.pc = "idle" /\ Idle.offset = 0 /\ Idle.uids = {} /\ Idle.found = {}
    /\ \A u \in Uid : NoFlags[u] = {}
  BY DEF Idle, CommandType, Changes, NoFlags, FlagsType

LEMMA ProxyInvInit == ProxyInit => ProxyInv
<1> SUFFICES ASSUME ProxyInit PROVE ProxyInv
  OBVIOUS
<1>1. RawOK
  BY RawMailsAssumption, FS_EmptySet DEF ProxyInit, TableInit, RawOK
<1>2. ProxyTypeOK
  BY <1>1, IdleCommand DEF ProxyInit, FlagInit, ProxyTypeOK, Changes
<1>3. KnownOK /\ NoStoreLost
  BY IdleCommand DEF ProxyInit, TableInit, FlagInit, KnownOK, NewIsUnseen, NoStoreLost
<1>4. ShownOK
  BY IdleCommand DEF ProxyInit, FlagInit, ShownOK, CopyOK
<1>5. IndexOK
  <2>1. Inbox(Owner) = {} /\ Cardinality({}) = 0
    BY FS_EmptySet DEF ProxyInit, TableInit, Inbox
  <2>2. Tells(count, changes)
    BY <2>1 DEF ProxyInit, Tells
  <2> QED
    BY <2>2, IdleCommand DEF ProxyInit, IndexOK, WalkOK
<1>6. CacheOK /\ FetchReturnsAll
  BY IdleCommand DEF ProxyInit, CacheOK, FetchOK, FetchReturnsAll, NoAnswer
<1> QED
  BY <1>2, <1>3, <1>4, <1>5, <1>6 DEF ProxyInv

-----------------------------------------------------------------------------
(* What a step of c does to its local variables.  It leaves those of the   *)
(* other commands alone.                                                   *)
Alone(c) == \A d \in Slot \ {c} : cmd'[d] = cmd[d]

(* c keeps what it counts, names, wants and copies. *)
SameWalk(c) ==
    /\ cmd'[c].count = cmd[c].count /\ cmd'[c].since = cmd[c].since
    /\ cmd'[c].uids = cmd[c].uids /\ cmd'[c].wanted = cmd[c].wanted

LEMMA BlankEffect ==
    ASSUME ProxyTypeOK, NEW c \in Slot, NEW r \in CommandType, cmd' = [cmd EXCEPT ![c] = r]
    PROVE  cmd' \in [Slot -> CommandType] /\ cmd'[c] = r /\ Alone(c)
  BY DEF ProxyTypeOK, Alone

(* The pcs at which a command has no local variables *)
LEMMA GoOnEffect ==
    ASSUME ProxyTypeOK, NEW c \in Slot, NEW pc \in {"act", "build", "flags"}, GoOn(c, pc)
    PROVE  /\ cmd' \in [Slot -> CommandType] /\ Alone(c)
           /\ cmd'[c].pc = pc /\ cmd'[c].offset = 0 /\ cmd'[c].uids = {} /\ cmd'[c].found = {}
<1> DEFINE r == [Idle EXCEPT !.pc = pc, !.then = cmd[c].then]
<1>1. cmd[c] \in CommandType
  BY DEF ProxyTypeOK
<1>2. r \in CommandType
  BY <1>1, IdleCommand DEF CommandType
<1>3. r.pc = pc /\ r.offset = 0 /\ r.uids = {} /\ r.found = {}
  BY DEF Idle
<1> QED
  BY <1>2, <1>3, BlankEffect DEF GoOn

LEMMA FinishEffect ==
    ASSUME ProxyTypeOK, NEW c \in Slot, Finish(c)
    PROVE  /\ cmd' \in [Slot -> CommandType] /\ Alone(c)
           /\ cmd'[c].pc = "idle" /\ cmd'[c].uids = {} /\ cmd'[c].found = {}
  BY IdleCommand, BlankEffect DEF Finish

LEMMA BeginEffect ==
    ASSUME ProxyTypeOK, NEW c \in Slot, NEW op, Begin(c, op)
    PROVE  /\ cmd' \in [Slot -> CommandType] /\ Alone(c)
           /\ cmd'[c].pc \in {"build", "act", "refresh"}
           /\ cmd'[c].offset = 0 /\ cmd'[c].uids = {} /\ cmd'[c].found = {}
<1> DEFINE then == IF op \in {"fetch", "store"} THEN op ELSE "answer"
           pc == IF op = "select" \/ ~built THEN "build"
                 ELSE IF op \in {"search", "store"} THEN "act" ELSE "refresh"
<1>1. PICK th \in {"answer", "fetch", "store"} : th = then
  OBVIOUS
<1>2. PICK p \in {"build", "act", "refresh"} : p = pc
  OBVIOUS
<1>3. cmd' = [cmd EXCEPT ![c] = [Idle EXCEPT !.then = then, !.pc = pc]]
  BY DEF Begin
<1> HIDE DEF then, pc
<1>4. PICK r : r = [Idle EXCEPT !.then = th, !.pc = p]
  OBVIOUS
<1>5. r \in CommandType
  BY <1>4, IdleCommand DEF CommandType
<1>6. r.pc = p /\ r.offset = 0 /\ r.uids = {} /\ r.found = {}
  BY <1>4 DEF Idle
<1>7. cmd' = [cmd EXCEPT ![c] = r]
  BY <1>1, <1>2, <1>3, <1>4
<1> QED
  BY <1>5, <1>6, <1>7, BlankEffect

LEMMA CountEffect ==
    ASSUME ProxyTypeOK, NEW c \in Slot, CountMails(c)
    PROVE  /\ cmd' \in [Slot -> CommandType] /\ Alone(c)
           /\ \/ cmd[c].pc = "refresh" /\ cmd'[c].pc = "compare"
              \/ cmd[c].pc = "build" /\ cmd'[c].pc = "counted"
           /\ cmd'[c].count = Cardinality(Inbox(Owner)) /\ cmd'[c].since = "nothing"
           /\ cmd'[c].offset = cmd[c].offset
           /\ cmd'[c].uids = cmd[c].uids /\ cmd'[c].found = cmd[c].found
<1>1. cmd[c] \in CommandType /\ Cardinality(Inbox(Owner)) \in Nat
  BY InboxFinite DEF ProxyTypeOK
<1>2. PICK n \in Nat : n = Cardinality(Inbox(Owner))
  BY <1>1
<1>3. PICK p \in {"compare", "counted"} : p = IF cmd[c].pc = "refresh" THEN "compare" ELSE "counted"
  OBVIOUS
<1>4. PICK r : r = [cmd[c] EXCEPT !.pc = p, !.count = n, !.since = "nothing"]
  OBVIOUS
<1>5. cmd' = [cmd EXCEPT ![c] = r]
  BY <1>2, <1>3, <1>4 DEF CountMails, ProxyTypeOK
<1>6. r \in CommandType /\ r.pc = p /\ r.count = n /\ r.since = "nothing"
      /\ r.offset = cmd[c].offset /\ r.uids = cmd[c].uids /\ r.found = cmd[c].found
  BY <1>1, <1>4 DEF CommandType, Changes
<1>7. cmd[c].pc = "refresh" \/ cmd[c].pc = "build"
  BY DEF CountMails, Doing
<1> QED
  BY <1>2, <1>3, <1>5, <1>6, <1>7, BlankEffect

LEMMA CountedEffect ==
    ASSUME ProxyTypeOK, NEW c \in Slot, cmd' = [cmd EXCEPT ![c].pc = "index"]
    PROVE  /\ cmd' \in [Slot -> CommandType] /\ Alone(c) /\ SameWalk(c)
           /\ cmd'[c].pc = "index" /\ cmd'[c].offset = cmd[c].offset /\ cmd'[c].found = cmd[c].found
<1>1. cmd[c] \in CommandType
  BY DEF ProxyTypeOK
<1>2. PICK r : r = [cmd[c] EXCEPT !.pc = "index"]
  OBVIOUS
<1>3. cmd' = [cmd EXCEPT ![c] = r]
  BY <1>2 DEF ProxyTypeOK
<1>4. r \in CommandType /\ r.pc = "index" /\ r.count = cmd[c].count /\ r.since = cmd[c].since
      /\ r.offset = cmd[c].offset /\ r.uids = cmd[c].uids /\ r.found = cmd[c].found
      /\ r.wanted = cmd[c].wanted
  BY <1>1, <1>2 DEF CommandType
<1> QED
  BY <1>3, <1>4, BlankEffect DEF SameWalk

(* What a page of the list holds *)
LEMMA PageIds ==
    ASSUME RawOK, NEW offset, NEW limit
    PROVE  /\ Ids(Page(offset, limit)) \subseteq Uid
           /\ \A u \in Ids(Page(offset, limit)) : \E m \in mails : m.id = u
<1>1. \A m \in mails : m.id \in Uid
  BY ImapMailboxAssumption DEF RawOK, Mail, Serial
<1>2. Page(offset, limit) \subseteq mails
  BY DEF Page, Inbox
<1> QED
  BY <1>1, <1>2 DEF Ids

(* A walk through the list, of a rebuild or of a fetch, goes on by a page. *)
LEMMA WalkEffect ==
    ASSUME ProxyTypeOK, NEW c \in Slot,
           NEW p \in {"index", "install", "fetch", "fetched"},
           NEW next \in Nat, NEW found \in SUBSET Uid,
           cmd' = [cmd EXCEPT ![c].pc = p, ![c].offset = next, ![c].found = found]
    PROVE  /\ cmd' \in [Slot -> CommandType] /\ Alone(c) /\ SameWalk(c)
           /\ cmd'[c].pc = p /\ cmd'[c].offset = next /\ cmd'[c].found = found
<1>1. cmd[c] \in CommandType
  BY DEF ProxyTypeOK
<1>2. PICK r : r = [cmd[c] EXCEPT !.pc = p, !.offset = next, !.found = found]
  OBVIOUS
<1>3. cmd' = [cmd EXCEPT ![c] = r]
  BY <1>2 DEF ProxyTypeOK
<1>4. r \in CommandType /\ r.pc = p /\ r.count = cmd[c].count /\ r.since = cmd[c].since
      /\ r.offset = next /\ r.uids = cmd[c].uids /\ r.found = found
      /\ r.wanted = cmd[c].wanted
  BY <1>1, <1>2 DEF CommandType
<1> QED
  BY <1>3, <1>4, BlankEffect DEF SameWalk

LEMMA Limits ==
    ASSUME NEW n \in Nat, NEW k \in Nat, k < n, NEW page \in {IndexPage, FetchPage}
    PROVE  Smaller(page, n - k) \in Nat /\ k + Smaller(page, n - k) \in Nat
  BY ImapMailboxAssumption DEF Smaller

LEMMA ReadPageEffect ==
    ASSUME ProxyTypeOK, IndexOK, NEW c \in Slot, ReadPage(c)
    PROVE  \E limit \in Nat :
              LET next == cmd[c].offset + limit IN
              /\ cmd' \in [Slot -> CommandType] /\ Alone(c) /\ SameWalk(c)
              /\ cmd[c].pc = "index"
              /\ IF next < cmd[c].count THEN cmd'[c].pc = "index" ELSE cmd'[c].pc = "install"
              /\ cmd'[c].offset = next
              /\ cmd'[c].found = cmd[c].found \cup Ids(Page(cmd[c].offset, limit))
<1>1. cmd[c] \in CommandType /\ RawOK /\ cmd[c].pc = "index" /\ cmd[c].offset < cmd[c].count
  BY DEF ProxyTypeOK, IndexOK, WalkOK, ReadPage, Doing
<1>2. cmd[c].offset \in Nat /\ cmd[c].count \in Nat /\ cmd[c].found \in SUBSET Uid
  BY <1>1 DEF CommandType
<1>3. PICK limit \in Nat : limit = Smaller(IndexPage, cmd[c].count - cmd[c].offset)
  BY <1>1, <1>2, Limits
<1>4. PICK next \in Nat : next = cmd[c].offset + limit
  BY <1>2
<1>5. PICK found \in SUBSET Uid : found = cmd[c].found \cup Ids(Page(cmd[c].offset, limit))
  BY <1>1, <1>2, PageIds
<1>6. PICK p \in {"index", "install"} : p = IF next < cmd[c].count THEN "index" ELSE "install"
  OBVIOUS
<1>7. cmd' = [cmd EXCEPT ![c].pc = p, ![c].offset = next, ![c].found = found]
  BY <1>1, <1>3, <1>4, <1>5, <1>6 DEF ReadPage
<1>8. /\ cmd' \in [Slot -> CommandType] /\ Alone(c) /\ SameWalk(c)
      /\ cmd'[c].pc = p /\ cmd'[c].offset = next /\ cmd'[c].found = found
  <2>1. p \in {"index", "install", "fetch", "fetched"}
    OBVIOUS
  <2> QED
    BY <1>7, <2>1, WalkEffect, ZenonT(60)
<1> WITNESS limit \in Nat
<1> QED
  BY <1>1, <1>4, <1>5, <1>6, <1>8

LEMMA FetchNextEffect ==
    ASSUME ProxyTypeOK, CacheOK, NEW c \in Slot, FetchNext(c)
    PROVE  \E limit \in Nat :
              LET next == cmd[c].offset + limit
                  found == cmd[c].found \cup (cmd[c].wanted \cap Ids(Page(cmd[c].offset, limit)))
              IN
              /\ cmd' \in [Slot -> CommandType] /\ Alone(c) /\ SameWalk(c)
              /\ cmd[c].pc = "fetch"
              /\ IF found # cmd[c].wanted /\ next < cmd[c].count
                 THEN cmd'[c].pc = "fetch" ELSE cmd'[c].pc = "fetched"
              /\ cmd'[c].offset = next
              /\ cmd'[c].found = found
<1>1. cmd[c] \in CommandType /\ RawOK /\ cmd[c].pc = "fetch" /\ cmd[c].offset < cmd[c].count
  BY DEF ProxyTypeOK, CacheOK, FetchOK, FetchNext, Doing
<1>2. cmd[c].offset \in Nat /\ cmd[c].count \in Nat /\ cmd[c].found \in SUBSET Uid
      /\ cmd[c].wanted \in SUBSET Uid
  BY <1>1 DEF CommandType
<1>3. PICK limit \in Nat : limit = Smaller(FetchPage, cmd[c].count - cmd[c].offset)
  BY <1>1, <1>2, Limits
<1>4. PICK next \in Nat : next = cmd[c].offset + limit
  BY <1>2
<1>5. PICK found \in SUBSET Uid :
        found = cmd[c].found \cup (cmd[c].wanted \cap Ids(Page(cmd[c].offset, limit)))
  BY <1>2
<1>6. PICK p \in {"fetch", "fetched"} :
        p = IF found # cmd[c].wanted /\ next < cmd[c].count THEN "fetch" ELSE "fetched"
  OBVIOUS
<1>7. cmd' = [cmd EXCEPT ![c].pc = p, ![c].offset = next, ![c].found = found]
  BY <1>1, <1>3, <1>4, <1>5, <1>6 DEF FetchNext
<1>8. /\ cmd' \in [Slot -> CommandType] /\ Alone(c) /\ SameWalk(c)
      /\ cmd'[c].pc = p /\ cmd'[c].offset = next /\ cmd'[c].found = found
  <2>1. p \in {"index", "install", "fetch", "fetched"}
    OBVIOUS
  <2> QED
    BY <1>7, <2>1, WalkEffect, ZenonT(60)
<1> WITNESS limit \in Nat
<1> QED
  BY <1>1, <1>4, <1>5, <1>6, <1>8

LEMMA ReadFlagsEffect ==
    ASSUME ProxyTypeOK, NEW c \in Slot, ReadFlags(c)
    PROVE  /\ cmd' \in [Slot -> CommandType] /\ Alone(c)
           /\ cmd'[c].pc = "copy" /\ cmd'[c].copy = persisted
           /\ cmd'[c].uids = cmd[c].uids /\ cmd'[c].found = cmd[c].found
<1>1. cmd[c] \in CommandType /\ persisted \in FlagsType
  BY DEF ProxyTypeOK
<1>2. PICK r : r = [cmd[c] EXCEPT !.pc = "copy", !.copy = persisted, !.late = {}]
  OBVIOUS
<1>3. cmd' = [cmd EXCEPT ![c] = r]
  BY <1>2 DEF ReadFlags, ProxyTypeOK
<1>4. r \in CommandType /\ r.pc = "copy" /\ r.copy = persisted
      /\ r.uids = cmd[c].uids /\ r.found = cmd[c].found
  BY <1>1, <1>2 DEF CommandType
<1> QED
  BY <1>3, <1>4, BlankEffect

LEMMA AskStoreEffect ==
    ASSUME ProxyTypeOK, NEW c \in Slot, AskStore(c)
    PROVE  /\ cmd' \in [Slot -> CommandType] /\ Alone(c)
           /\ cmd'[c].pc = "store" /\ cmd'[c].uids \subseteq index /\ cmd'[c].found = cmd[c].found
<1>1. cmd[c] \in CommandType /\ index \subseteq Uid
  BY DEF ProxyTypeOK
<1>2. PICK uids \in SUBSET index : cmd' = [cmd EXCEPT ![c].pc = "store", ![c].uids = uids]
  BY DEF AskStore, Named
<1>3. PICK r : r = [cmd[c] EXCEPT !.pc = "store", !.uids = uids]
  OBVIOUS
<1>4. cmd' = [cmd EXCEPT ![c] = r]
  BY <1>2, <1>3 DEF ProxyTypeOK
<1>5. r \in CommandType /\ r.pc = "store" /\ r.uids = uids /\ r.found = cmd[c].found
  BY <1>1, <1>3 DEF CommandType
<1> QED
  BY <1>4, <1>5, BlankEffect

LEMMA BeginFetchEffect ==
    ASSUME ProxyTypeOK, NEW c \in Slot, NEW asked \in SUBSET index,
           cmd' = [cmd EXCEPT ![c].pc = "fetch", ![c].count = count, ![c].since = changes,
                              ![c].uids = asked, ![c].wanted = asked \ cache]
    PROVE  /\ cmd' \in [Slot -> CommandType] /\ Alone(c)
           /\ cmd'[c].pc = "fetch" /\ cmd'[c].count = count /\ cmd'[c].since = changes
           /\ cmd'[c].uids = asked /\ cmd'[c].wanted = asked \ cache
           /\ cmd'[c].offset = cmd[c].offset /\ cmd'[c].found = cmd[c].found
<1>1. cmd[c] \in CommandType /\ asked \in SUBSET Uid /\ count \in Nat /\ changes \in Changes
  BY DEF ProxyTypeOK
<1>2. PICK wanted \in SUBSET Uid : wanted = asked \ cache
  BY <1>1
<1>3. PICK r : r = [cmd[c] EXCEPT !.pc = "fetch", !.count = count, !.since = changes,
                                  !.uids = asked, !.wanted = wanted]
  OBVIOUS
<1>4. cmd' = [cmd EXCEPT ![c] = r]
  BY <1>2, <1>3 DEF ProxyTypeOK
<1>5. r \in CommandType /\ r.pc = "fetch" /\ r.count = count /\ r.since = changes
      /\ r.uids = asked /\ r.wanted = wanted /\ r.offset = cmd[c].offset /\ r.found = cmd[c].found
  BY <1>1, <1>3 DEF CommandType
<1> QED
  BY <1>2, <1>4, <1>5, BlankEffect

(* A STORE of this session or another makes answers late that are on their *)
(* way.                                                                    *)
Later(d, uids) ==
    /\ cmd'[d] \in CommandType
    /\ \A x \in {"pc", "then", "count", "since", "offset", "uids", "wanted", "found", "copy"} :
          cmd'[d][x] = cmd[d][x]
    /\ cmd'[d].late = IF d \in Copying THEN cmd[d].late \cup uids ELSE cmd[d].late

LEMMA LateEffect ==
    ASSUME ProxyTypeOK, NEW d \in Slot, NEW uids \in SUBSET Uid,
           cmd'[d] = IF d \in Copying THEN [cmd[d] EXCEPT !.late = @ \cup uids] ELSE cmd[d]
    PROVE  Later(d, uids)
<1>1. cmd[d] \in CommandType
  BY DEF ProxyTypeOK
<1>2. CASE d \in Copying
  <2>1. PICK late \in SUBSET Uid : late = cmd[d].late \cup uids
    BY <1>1 DEF CommandType
  <2>2. PICK r : r = [cmd[d] EXCEPT !.late = late]
    OBVIOUS
  <2>3. cmd'[d] = r
    BY <1>2, <2>1, <2>2
  <2>4. r \in CommandType /\ r.late = late /\ r.pc = cmd[d].pc /\ r.then = cmd[d].then
        /\ r.count = cmd[d].count /\ r.since = cmd[d].since /\ r.offset = cmd[d].offset
        /\ r.uids = cmd[d].uids /\ r.wanted = cmd[d].wanted /\ r.found = cmd[d].found
        /\ r.copy = cmd[d].copy
    BY <1>1, <2>2 DEF CommandType
  <2> QED
    BY <1>2, <2>1, <2>3, <2>4 DEF Later
<1>3. CASE d \notin Copying
  BY <1>1, <1>3 DEF Later
<1> QED
  BY <1>2, <1>3

LEMMA StoredType ==
    ASSUME NEW f \in FlagsType, NEW base \in FlagsType, NEW uids, NEW F \in SUBSET Flag,
           NEW mode \in Mode
    PROVE  /\ Stored(f, base, uids, F, mode) \in FlagsType
           /\ \A u \in Uid : Applied(base[u], F, mode) \in SUBSET Flag
           /\ \A u \in Uid : Stored(f, base, uids, F, mode)[u] =
                 IF u \in uids THEN Applied(base[u], F, mode) ELSE f[u]
<1>1. \A u \in Uid : Applied(base[u], F, mode) \in SUBSET Flag
  BY DEF Applied, Mode, FlagsType
<1> QED
  BY <1>1 DEF Stored, FlagsType

LEMMA StandingType ==
    ASSUME ProxyTypeOK, NEW uids, NEW F \in SUBSET Flag, NEW mode \in Mode,
           UpdateFlags(persisted, uids, F, mode)
    PROVE  /\ persisted' \in FlagsType /\ standing' \in FlagsType
           /\ \A u \in Uid : u \notin uids => persisted'[u] = persisted[u]
<1>1. persisted' = Stored(persisted, persisted, uids, F, mode)
  BY DEF UpdateFlags
<1>2. standing' \in FlagsType
  BY DEF UpdateFlags, ProxyTypeOK, FlagsType
<1>3. persisted \in FlagsType
  BY DEF ProxyTypeOK
<1>4. persisted' \in FlagsType
  BY <1>1, <1>3, StoredType
<1>5. \A u \in Uid : u \notin uids => persisted'[u] = persisted[u]
  BY <1>1, <1>3 DEF Stored
<1> QED
  BY <1>2, <1>4, <1>5

LEMMA StoreEffect ==
    ASSUME ProxyTypeOK, NEW c \in Slot, StoreFlags(c)
    PROVE  /\ cmd[c].uids \subseteq Uid /\ persisted' \in FlagsType /\ standing' \in FlagsType
           /\ \A u \in Uid : u \notin cmd[c].uids => persisted'[u] = persisted[u]
           /\ cmd' \in [Slot -> CommandType]
           /\ cmd'[c].pc = "stored" /\ cmd'[c].uids = cmd[c].uids /\ cmd'[c].late = {}
           /\ cmd'[c].found = cmd[c].found
           /\ \A u \in cmd[c].uids : cmd'[c].copy[u] = persisted'[u]
           /\ \A d \in Slot \ {c} : Later(d, cmd[c].uids)
<1> DEFINE copy == [u \in Uid |-> IF u \in cmd[c].uids THEN persisted'[u] ELSE {}]
           step == [d \in Slot |->
                      IF d = c THEN [cmd[c] EXCEPT !.pc = "stored", !.late = {}, !.copy = copy]
                      ELSE IF d \in Copying THEN [cmd[d] EXCEPT !.late = @ \cup cmd[c].uids]
                      ELSE cmd[d]]
<1>1. cmd[c] \in CommandType /\ cmd[c].uids \in SUBSET Uid
  BY DEF ProxyTypeOK, CommandType
<1>2. PICK F \in SUBSET Flag, mode \in Mode : UpdateFlags(persisted, cmd[c].uids, F, mode)
  BY DEF StoreFlags, StoreCurrent
<1>3. persisted' \in FlagsType /\ standing' \in FlagsType
      /\ \A u \in Uid : u \notin cmd[c].uids => persisted'[u] = persisted[u]
  BY <1>2, StandingType
<1>4. cmd' = step
  BY DEF StoreFlags
<1>5. PICK k \in FlagsType : k = copy
  BY <1>3 DEF FlagsType
<1>6. PICK r : r = [cmd[c] EXCEPT !.pc = "stored", !.late = {}, !.copy = k]
  OBVIOUS
<1>7. cmd'[c] = r
  BY <1>4, <1>5, <1>6
<1>8. r \in CommandType /\ r.pc = "stored" /\ r.uids = cmd[c].uids /\ r.late = {} /\ r.copy = k
      /\ r.found = cmd[c].found
  BY <1>1, <1>6 DEF CommandType
<1>9. \A d \in Slot \ {c} : Later(d, cmd[c].uids)
  <2> TAKE d \in Slot \ {c}
  <2>1. cmd'[d] = IF d \in Copying THEN [cmd[d] EXCEPT !.late = @ \cup cmd[c].uids] ELSE cmd[d]
    BY <1>4
  <2> QED
    BY <1>1, <2>1, LateEffect
<1>10. cmd' \in [Slot -> CommandType]
  <2>1. cmd' = [d \in Slot |-> cmd'[d]]
    BY <1>4
  <2>2. \A d \in Slot : cmd'[d] \in CommandType
    BY <1>7, <1>8, <1>9 DEF Later
  <2> QED
    BY <2>1, <2>2
<1>11. \A u \in cmd[c].uids : cmd'[c].copy[u] = persisted'[u]
  BY <1>1, <1>5, <1>7, <1>8
<1> QED
  BY <1>1, <1>3, <1>7, <1>8, <1>9, <1>10, <1>11

LEMMA ElsewhereEffect ==
    ASSUME ProxyTypeOK, StoreElsewhere
    PROVE  \E uids \in SUBSET Uid :
              /\ uids \subseteq Ids(Inbox(Owner))
              /\ persisted' \in FlagsType /\ standing' \in FlagsType
              /\ \A u \in Uid : u \notin uids => persisted'[u] = persisted[u]
              /\ behind' = behind \cup uids
              /\ cmd' \in [Slot -> CommandType]
              /\ \A d \in Slot : Later(d, uids)
<1>1. PICK uids \in SUBSET Ids(Inbox(Owner)), F \in SUBSET Flag, mode \in Mode :
        /\ UpdateFlags(persisted, uids, F, mode)
        /\ behind' = behind \cup uids
        /\ cmd' = [c \in Slot |->
               IF c \in Copying THEN [cmd[c] EXCEPT !.late = @ \cup uids] ELSE cmd[c]]
  BY DEF StoreElsewhere
<1>2. uids \in SUBSET Uid
  BY ImapMailboxAssumption DEF ProxyTypeOK, RawOK, Mail, Serial, Ids, Inbox
<1>3. \A d \in Slot : Later(d, uids)
  BY <1>1, <1>2, LateEffect
<1>4. cmd' \in [Slot -> CommandType]
  <2>1. cmd' = [d \in Slot |-> cmd'[d]]
    BY <1>1
  <2> QED
    BY <1>3, <2>1 DEF Later
<1> QED
  BY <1>1, <1>2, <1>3, <1>4, StandingType

(* The bound of the ids ever seen *)
LEMMA TopGrows ==
    ASSUME ProxyTypeOK, Backend
    PROVE  /\ RawOK'
           /\ top' \in Nat /\ top <= top' /\ \A m \in mails' : m.id <= top'
<1>1. Housekeeping /\ RawOK
  BY DEF Backend, ProxyTypeOK
<1>2. RawOK'
  <2>1. ASSUME NEW n \in Name, Insert(n, None) PROVE RawOK'
    BY <1>1, <2>1, InsertStep
  <2> QED
    BY <1>1, <2>1, HouseStep, DiscardStep
<1> DEFINE S == {top} \cup Ids(mails')
           P(t) == \A u \in S : u <= t
<1>3. \A m \in mails' : m.id \in Nat /\ m.id <= stored' /\ stored' \in Nat
  BY <1>2 DEF RawOK, Mail, Serial
<1>4. top \in Nat /\ stored' \in Nat
  BY <1>2 DEF ProxyTypeOK, RawOK
<1>5. PICK n \in Nat : top <= n /\ stored' <= n
  <2>1. CASE top <= stored'
    BY <1>4, <2>1
  <2>2. CASE ~(top <= stored')
    BY <1>4, <2>2
  <2> QED
    BY <2>1, <2>2
<1>6. S \subseteq Nat /\ S # {} /\ \A i \in S : i <= n
  BY <1>3, <1>4, <1>5 DEF Ids
<1>7. \E t \in S : P(t)
  BY <1>6, Largest
<1>8. top' = CHOOSE t \in S : P(t)
  BY DEF Backend
<1>9. top' \in S /\ P(top')
  BY <1>7, <1>8
<1> QED
  BY <1>2, <1>6, <1>9 DEF Ids

LEMMA BackendEffect ==
    ASSUME ProxyTypeOK, Backend
    PROVE  /\ cmd' \in [Slot -> CommandType]
           /\ changes' \in Changes /\ changes' = Befallen(changes)
           /\ \A d \in Slot :
                 /\ \A x \in {"pc", "then", "count", "offset", "uids", "wanted", "found", "copy", "late"} :
                       cmd'[d][x] = cmd[d][x]
                 /\ cmd'[d].since = IF Counts(d) THEN Befallen(cmd[d].since) ELSE cmd[d].since
<1>1. \A s \in Changes : Befallen(s) \in Changes
  BY DEF Befallen, Changes
<1>2. cmd' = [d \in Slot |-> IF Counts(d) THEN [cmd[d] EXCEPT !.since = Befallen(@)] ELSE cmd[d]]
  BY DEF Backend
<1>3. ASSUME NEW d \in Slot
      PROVE  /\ cmd'[d] \in CommandType
             /\ \A x \in {"pc", "then", "count", "offset", "uids", "wanted", "found", "copy", "late"} :
                   cmd'[d][x] = cmd[d][x]
             /\ cmd'[d].since = IF Counts(d) THEN Befallen(cmd[d].since) ELSE cmd[d].since
  <2>1. cmd[d] \in CommandType
    BY DEF ProxyTypeOK
  <2>2. CASE Counts(d)
    <3>1. PICK s \in Changes : s = Befallen(cmd[d].since)
      BY <1>1, <2>1 DEF CommandType
    <3>2. PICK r : r = [cmd[d] EXCEPT !.since = s]
      OBVIOUS
    <3>3. cmd'[d] = r
      BY <1>2, <2>2, <3>1, <3>2
    <3>4. r \in CommandType /\ r.since = s /\ r.late = cmd[d].late /\ r.pc = cmd[d].pc
          /\ r.then = cmd[d].then /\ r.count = cmd[d].count /\ r.offset = cmd[d].offset
          /\ r.uids = cmd[d].uids /\ r.wanted = cmd[d].wanted /\ r.found = cmd[d].found
          /\ r.copy = cmd[d].copy
      BY <2>1, <3>2 DEF CommandType
    <3> QED
      BY <2>2, <3>1, <3>3, <3>4
  <2>3. CASE ~Counts(d)
    BY <1>2, <2>1, <2>3
  <2> QED
    BY <2>2, <2>3
<1>4. cmd' \in [Slot -> CommandType]
  <2>1. cmd' = [d \in Slot |-> cmd'[d]]
    BY <1>2
  <2> QED
    BY <1>3, <2>1
<1>5. changes' = Befallen(changes) /\ changes' \in Changes
  BY <1>1 DEF Backend, ProxyTypeOK
<1> QED
  BY <1>3, <1>4, <1>5

(* The commands leave the mails alone. *)
LEMMA CommandLeaves ==
    ASSUME NEW c \in Slot, Other(c) \/ Fetching(c)
    PROVE  UNCHANGED <<mails, stored, top>> /\ (RawOK => RawOK')
  BY DEF Other, Fetching, Begin, CountMails, Compare, Counted, ReadPage, Install, ReadFlags,
         CopyFlags, Answer, AskStore, StoreFlags, CopyStored, BeginFetch, FetchNext, FinishFetch,
         Reply, Fail, tableVars, storeVars, RawOK

LEMMA ProxyTypeStep ==
    ASSUME ProxyTypeOK, IndexOK, CacheOK, [ProxyNext]_proxyVars
    PROVE  ProxyTypeOK'
<1>1. /\ RawOK /\ cmd \in [Slot -> CommandType] /\ count \in Nat /\ index \subseteq Uid
      /\ cache \subseteq Uid /\ top \in Nat /\ changes \in Changes
      /\ flags \in FlagsType /\ persisted \in FlagsType /\ standing \in FlagsType
  BY DEF ProxyTypeOK
<1>2. CASE UNCHANGED proxyVars
  BY <1>1, <1>2 DEF proxyVars, tableVars, sessionVars, indexVars, shownVars, storeVars, flagVars,
                    ProxyTypeOK, RawOK
<1>3. CASE Backend
  <2>1. UNCHANGED <<cache, count, index, flags, persisted, standing>>
    BY <1>3 DEF Backend, shownVars, flagVars
  <2> QED
    BY <1>1, <1>3, <2>1, TopGrows, BackendEffect DEF ProxyTypeOK
<1>4. CASE StoreElsewhere
  <2>1. UNCHANGED <<mails, stored, cache, count, index, changes, flags, top>>
    BY <1>4 DEF StoreElsewhere, tableVars, indexVars
  <2>2. persisted' \in FlagsType /\ standing' \in FlagsType /\ cmd' \in [Slot -> CommandType]
    BY <1>4, ElsewhereEffect
  <2> QED
    BY <1>1, <2>1, <2>2 DEF ProxyTypeOK, RawOK
<1>5. ASSUME NEW c \in Slot, Other(c) \/ Fetching(c) PROVE ProxyTypeOK'
  <2>1. RawOK' /\ top' = top
    BY <1>1, <1>5, CommandLeaves
  <2>2. cmd[c] \in CommandType
    BY <1>1
  <2>3. CASE cmd' \in [Slot -> CommandType] /\ UNCHANGED <<count, index, cache, changes, flags, persisted, standing>>
    BY <1>1, <2>1, <2>3 DEF ProxyTypeOK
  <2>4. ASSUME NEW op, Begin(c, op) PROVE ProxyTypeOK'
    BY <2>3, <2>4, BeginEffect DEF Begin, indexVars, shownVars, storeVars, flagVars
  <2>5. CASE CountMails(c)
    BY <2>3, <2>5, CountEffect DEF CountMails, indexVars, shownVars, storeVars, flagVars
  <2>6. CASE Compare(c)
    <3>1. cmd' \in [Slot -> CommandType]
      BY <2>6, GoOnEffect DEF Compare
    <3>2. count' \in Nat /\ changes' \in Changes
      BY <1>1, <2>2, <2>6 DEF Compare, TakeCount, indexVars, CommandType
    <3>3. UNCHANGED <<index, cache, flags, persisted, standing>>
      BY <2>6 DEF Compare, indexVars, shownVars, storeVars, flagVars
    <3> QED
      BY <1>1, <2>1, <3>1, <3>2, <3>3 DEF ProxyTypeOK
  <2>7. CASE Counted(c)
    <3>1. cmd' \in [Slot -> CommandType]
      BY <2>7, GoOnEffect, CountedEffect DEF Counted
    <3>2. count' \in Nat /\ changes' \in Changes
      BY <1>1, <2>2, <2>7 DEF Counted, TakeCount, CommandType
    <3>3. UNCHANGED <<cache, persisted, standing>>
      BY <2>7 DEF Counted, storeVars, flagVars
    <3>4. index' \subseteq Uid /\ flags' \in FlagsType
      BY <1>1, <2>7, IdleCommand DEF Counted, shownVars
    <3> QED
      BY <1>1, <2>1, <3>1, <3>2, <3>3, <3>4 DEF ProxyTypeOK
  <2>8. CASE ReadPage(c)
    BY <2>3, <2>8, ReadPageEffect DEF ReadPage, indexVars, shownVars, storeVars, flagVars
  <2>9. CASE Install(c)
    <3>1. cmd' \in [Slot -> CommandType]
      BY <2>9, GoOnEffect DEF Install
    <3>2. index' \subseteq Uid
      BY <2>2, <2>9 DEF Install, CommandType
    <3> QED
      BY <1>1, <2>1, <2>9, <3>1, <3>2 DEF Install, shownVars, storeVars, flagVars, ProxyTypeOK
  <2>10. CASE ReadFlags(c)
    BY <2>3, <2>10, ReadFlagsEffect DEF ReadFlags, indexVars, shownVars, storeVars, flagVars
  <2>11. CASE CopyFlags(c)
    <3>1. cmd' \in [Slot -> CommandType]
      BY <2>11, GoOnEffect DEF CopyFlags
    <3>2. flags' \in FlagsType
      BY <2>2, <2>11 DEF CopyFlags, CommandType
    <3> QED
      BY <1>1, <2>1, <2>11, <3>1, <3>2 DEF CopyFlags, indexVars, storeVars, flagVars, ProxyTypeOK
  <2>12. CASE Answer(c) \/ Fail(c)
    BY <2>3, <2>12, FinishEffect DEF Answer, Fail, indexVars, shownVars, storeVars, flagVars
  <2>13. CASE AskStore(c)
    BY <2>3, <2>13, AskStoreEffect DEF AskStore, indexVars, shownVars, storeVars, flagVars
  <2>14. CASE StoreFlags(c)
    <3>1. UNCHANGED <<count, index, cache, changes, flags>>
      BY <2>14 DEF StoreFlags, indexVars, shownVars
    <3> QED
      BY <1>1, <2>1, <2>14, <3>1, StoreEffect DEF ProxyTypeOK
  <2>15. CASE CopyStored(c)
    <3>1. cmd' \in [Slot -> CommandType]
      BY <2>15, FinishEffect DEF CopyStored
    <3>2. flags' \in FlagsType
      BY <1>1, <2>2, <2>15 DEF CopyStored, CommandType, FlagsType
    <3> QED
      BY <1>1, <2>1, <2>15, <3>1, <3>2 DEF CopyStored, indexVars, storeVars, flagVars, ProxyTypeOK
  <2>16. CASE BeginFetch(c)
    <3>1. cmd' \in [Slot -> CommandType]
      BY <2>16, FinishEffect, BeginFetchEffect DEF BeginFetch, Reply, Named
    <3>2. UNCHANGED <<count, index, cache, changes, flags, persisted, standing>>
      BY <2>16 DEF BeginFetch, Reply, indexVars, shownVars, storeVars, flagVars
    <3> QED
      BY <2>3, <3>1, <3>2
  <2>17. CASE FetchNext(c)
    BY <2>3, <2>17, FetchNextEffect DEF FetchNext, indexVars, shownVars, storeVars, flagVars
  <2>18. CASE FinishFetch(c)
    <3>1. cmd' \in [Slot -> CommandType]
      BY <2>18, FinishEffect DEF FinishFetch, Reply
    <3>2. cache' \subseteq Uid
      <4>1. cmd[c].found \subseteq Uid
        BY <2>2 DEF CommandType
      <4> QED
        BY <1>1, <2>18, <4>1 DEF FinishFetch, Kept
    <3>3. UNCHANGED <<count, index, changes, flags, persisted, standing>>
      BY <2>18 DEF FinishFetch, Reply, indexVars, shownVars, storeVars, flagVars
    <3> QED
      BY <1>1, <2>1, <3>1, <3>2, <3>3 DEF ProxyTypeOK
  <2> QED
    BY <1>5, <2>4, <2>5, <2>6, <2>7, <2>8, <2>9, <2>10, <2>11, <2>12, <2>13, <2>14, <2>15, <2>16,
       <2>17, <2>18 DEF Other, Fetching
<1> QED
  BY <1>2, <1>3, <1>4, <1>5 DEF ProxyNext

-----------------------------------------------------------------------------
(* Only a STORE changes stored flags, those of the mails it names. *)
LEMMA StoresOnly ==
    ASSUME ProxyTypeOK, [ProxyNext]_proxyVars
    PROVE  \/ UNCHANGED flagVars
           \/ \E uids \in SUBSET Uid, F \in SUBSET Flag, mode \in Mode :
                 /\ UpdateFlags(persisted, uids, F, mode)
                 /\ \/ \E c \in Slot : uids = cmd[c].uids
                    \/ uids \subseteq Ids(Inbox(Owner))
<1>1. ASSUME NEW c \in Slot, StoreFlags(c)
      PROVE  \E uids \in SUBSET Uid, F \in SUBSET Flag, mode \in Mode :
                UpdateFlags(persisted, uids, F, mode) /\ \E d \in Slot : uids = cmd[d].uids
  <2>1. cmd[c].uids \in SUBSET Uid
    BY DEF ProxyTypeOK, CommandType
  <2> QED
    BY <1>1, <2>1 DEF StoreFlags, StoreCurrent
<1>2. CASE StoreElsewhere
  <2>1. Ids(Inbox(Owner)) \subseteq Uid
    BY ImapMailboxAssumption DEF ProxyTypeOK, RawOK, Mail, Serial, Ids, Inbox
  <2> QED
    BY <1>2, <2>1 DEF StoreElsewhere
<1>3. CASE Backend \/ UNCHANGED proxyVars
  BY <1>3 DEF Backend, proxyVars, storeVars
<1>4. ASSUME NEW c \in Slot, Other(c) \/ Fetching(c), ~StoreFlags(c) PROVE UNCHANGED flagVars
  BY <1>4 DEF Other, Fetching, Begin, CountMails, Compare, Counted, ReadPage, Install, ReadFlags,
              CopyFlags, Answer, AskStore, CopyStored, BeginFetch, FetchNext, FinishFetch, Reply,
              Fail, storeVars
<1> QED
  BY <1>1, <1>2, <1>3, <1>4 DEF ProxyNext

LEMMA NoStoreLostStep ==
    ASSUME ProxyTypeOK, NoStoreLost, [ProxyNext]_proxyVars
    PROVE  NoStoreLost'
<1>1. CASE UNCHANGED flagVars
  BY <1>1 DEF flagVars, NoStoreLost
<1>2. ASSUME NEW uids \in SUBSET Uid, NEW F \in SUBSET Flag, NEW mode \in Mode,
             UpdateFlags(persisted, uids, F, mode)
      PROVE  NoStoreLost'
  <2>1. \A u \in Uid : persisted'[u] = IF u \in uids THEN Applied(persisted[u], F, mode)
                                                     ELSE persisted[u]
    <3>1. persisted' = Stored(persisted, persisted, uids, F, mode) /\ persisted \in FlagsType
      BY <1>2 DEF UpdateFlags, ProxyTypeOK
    <3> QED
      BY <3>1 DEF Stored
  <2>2. ASSUME NEW u \in Uid PROVE standing'[u] \subseteq persisted'[u]
    <3>1. standing[u] \subseteq persisted[u] /\ standing[u] \subseteq Flag
      BY DEF NoStoreLost, ProxyTypeOK, FlagsType
    <3>2. standing'[u] =
            IF u \notin uids THEN standing[u]
            ELSE IF mode = "add" THEN standing[u] \cup F
            ELSE standing[u] \ (IF mode = "remove" THEN F ELSE Flag \ F)
      BY <1>2 DEF UpdateFlags
    <3>3. CASE mode = "add"
      BY <2>1, <3>1, <3>2, <3>3 DEF Applied
    <3>4. CASE mode = "remove"
      BY <2>1, <3>1, <3>2, <3>4 DEF Applied
    <3>5. CASE mode = "replace"
      BY <2>1, <3>1, <3>2, <3>5 DEF Applied
    <3> QED
      BY <3>3, <3>4, <3>5 DEF Mode
  <2> QED
    BY <2>2 DEF NoStoreLost
<1> QED
  BY <1>1, <1>2, StoresOnly

LEMMA KnownStep ==
    ASSUME ProxyTypeOK, IndexOK, CacheOK, KnownOK, [ProxyNext]_proxyVars
    PROVE  KnownOK'
<1>1. /\ top \in Nat /\ top' \in Nat /\ top <= top'
      /\ \A m \in mails' : m.id <= top'
  <2>1. CASE UNCHANGED <<mails, top>>
    BY <2>1 DEF ProxyTypeOK, KnownOK
  <2>2. CASE Backend
    BY <2>2, TopGrows DEF ProxyTypeOK
  <2>3. CASE StoreElsewhere
    BY <2>1, <2>3 DEF StoreElsewhere, tableVars
  <2> QED
    BY <2>1, <2>2, <2>3, CommandLeaves DEF ProxyNext, proxyVars, tableVars, storeVars
<1> DEFINE K == {u \in Nat : u <= top}
           Local(d) == cmd[d].uids \cup cmd[d].found
<1>2. Uid \subseteq Nat
  BY ImapMailboxAssumption, RawMailsAssumption
<1>3. index \subseteq K /\ (\A d \in Slot : Local(d) \subseteq K) /\ {} \subseteq K
  <2>1. index \subseteq Uid /\ \A d \in Slot : Local(d) \subseteq Uid
    BY DEF ProxyTypeOK, CommandType
  <2> QED
    BY <1>2, <2>1 DEF KnownOK
<1>4. \A offset, limit : Ids(Page(offset, limit)) \subseteq K
  <2>1. \A m \in mails : m.id \in Nat /\ m.id <= top
    BY DEF KnownOK, ProxyTypeOK, RawOK, Mail, Serial
  <2> QED
    BY <2>1, PageIds DEF ProxyTypeOK
<1>5. index' \subseteq K /\ \A d \in Slot : cmd'[d].uids \cup cmd'[d].found \subseteq K
  <2> HIDE DEF K
  <2>1. CASE UNCHANGED <<index, cmd>>
    BY <1>3, <2>1
  <2>2. CASE Backend
    BY <1>3, <2>2, BackendEffect DEF Backend
  <2>3. CASE StoreElsewhere
    <3>1. index' = index /\ \A d \in Slot : cmd'[d].uids = cmd[d].uids /\ cmd'[d].found = cmd[d].found
      BY <2>3, ElsewhereEffect DEF StoreElsewhere, indexVars, Later
    <3> QED
      BY <1>3, <3>1
  <2>4. ASSUME NEW c \in Slot, Other(c) \/ Fetching(c)
        PROVE  index' \subseteq K /\ \A d \in Slot : cmd'[d].uids \cup cmd'[d].found \subseteq K
    <3>1. CASE index' = index /\ Alone(c) /\ cmd'[c].uids \cup cmd'[c].found \subseteq K
      BY <1>3, <3>1 DEF Alone
    <3>2. ASSUME NEW op, Begin(c, op) PROVE index' = index /\ Alone(c) /\ cmd'[c].uids \cup cmd'[c].found \subseteq K
      BY <1>3, <3>2, BeginEffect DEF Begin, indexVars
    <3>3. CASE CountMails(c)
      BY <1>3, <3>1, <3>3, CountEffect DEF CountMails, indexVars
    <3>4. CASE Compare(c)
      BY <1>3, <3>1, <3>4, GoOnEffect DEF Compare, indexVars
    <3>5. CASE Counted(c)
      <4>1. Alone(c) /\ cmd'[c].uids \cup cmd'[c].found \subseteq K
        BY <1>3, <3>5, GoOnEffect, CountedEffect DEF Counted, SameWalk
      <4>2. index' \subseteq K
        BY <1>3, <3>5 DEF Counted
      <4> QED
        BY <1>3, <4>1, <4>2 DEF Alone
    <3>6. CASE ReadPage(c)
      <4>1. index' = index
        BY <3>6 DEF ReadPage, indexVars
      <4>2. PICK limit : Alone(c) /\ SameWalk(c) /\ cmd'[c].found = cmd[c].found \cup Ids(Page(cmd[c].offset, limit))
        BY <3>6, ReadPageEffect
      <4> QED
        BY <1>3, <1>4, <3>1, <4>1, <4>2 DEF SameWalk
    <3>7. CASE Install(c)
      <4>1. Alone(c) /\ cmd'[c].uids \cup cmd'[c].found \subseteq K
        BY <1>3, <3>7, GoOnEffect DEF Install
      <4>2. index' \subseteq K
        BY <1>3, <3>7 DEF Install
      <4> QED
        BY <1>3, <4>1, <4>2 DEF Alone
    <3>8. CASE ReadFlags(c)
      BY <1>3, <3>1, <3>8, ReadFlagsEffect DEF ReadFlags, indexVars
    <3>9. CASE CopyFlags(c)
      BY <1>3, <3>1, <3>9, GoOnEffect DEF CopyFlags, indexVars
    <3>10. CASE Answer(c) \/ Fail(c) \/ CopyStored(c) \/ FinishFetch(c)
      BY <1>3, <3>1, <3>10, FinishEffect DEF Answer, Fail, CopyStored, FinishFetch, Reply, indexVars
    <3>11. CASE AskStore(c)
      BY <1>3, <3>1, <3>11, AskStoreEffect DEF AskStore, indexVars
    <3>12. CASE StoreFlags(c)
      <4>1. index' = index /\ \A d \in Slot : cmd'[d].uids = cmd[d].uids /\ cmd'[d].found = cmd[d].found
        BY <3>12, StoreEffect DEF StoreFlags, indexVars, Later
      <4> QED
        BY <1>3, <4>1
    <3>13. CASE BeginFetch(c)
      <4>1. index' = index
        BY <3>13 DEF BeginFetch, Reply, indexVars
      <4>2. Alone(c) /\ cmd'[c].uids \cup cmd'[c].found \subseteq K
        <5>1. CASE Finish(c)
          BY <1>3, <5>1, FinishEffect
        <5>2. ASSUME NEW asked \in SUBSET index,
                     cmd' = [cmd EXCEPT ![c].pc = "fetch", ![c].count = count, ![c].since = changes,
                                        ![c].uids = asked, ![c].wanted = asked \ cache]
              PROVE  Alone(c) /\ cmd'[c].uids \cup cmd'[c].found \subseteq K
          <6>1. Alone(c) /\ cmd'[c].uids = asked /\ cmd'[c].found = cmd[c].found
            BY <5>2, BeginFetchEffect
          <6> QED
            BY <1>3, <6>1
        <5> QED
          BY <3>13, <5>1, <5>2 DEF BeginFetch, Reply, Named
      <4> QED
        BY <3>1, <4>1, <4>2
    <3>14. CASE FetchNext(c)
      <4>1. index' = index
        BY <3>14 DEF FetchNext, indexVars
      <4>2. PICK limit : Alone(c) /\ SameWalk(c)
              /\ cmd'[c].found = cmd[c].found \cup (cmd[c].wanted \cap Ids(Page(cmd[c].offset, limit)))
        BY <3>14, FetchNextEffect
      <4> QED
        BY <1>3, <1>4, <3>1, <4>1, <4>2 DEF SameWalk
    <3> QED
      BY <2>4, <3>1, <3>2, <3>3, <3>4, <3>5, <3>6, <3>7, <3>8, <3>9, <3>10, <3>11, <3>12, <3>13,
         <3>14 DEF Other, Fetching
  <2> QED
    BY <2>1, <2>2, <2>3, <2>4 DEF ProxyNext, proxyVars, sessionVars, indexVars
<1>6. NewIsUnseen'
  <2>1. CASE UNCHANGED flagVars
    BY <1>1, <2>1, ImapMailboxAssumption DEF flagVars, KnownOK, NewIsUnseen
  <2>2. ASSUME NEW uids \in SUBSET Uid, NEW F \in SUBSET Flag, NEW mode \in Mode,
               UpdateFlags(persisted, uids, F, mode), \A u \in uids : u <= top
        PROVE  NewIsUnseen'
    <3>1. \A u \in Uid : u \notin uids => persisted'[u] = persisted[u]
      BY <2>2, StandingType
    <3>2. ASSUME NEW u \in Uid, u > top' PROVE persisted'[u] = {}
      <4>1. u \in Nat /\ u > top
        BY <1>1, <1>2, <3>2
      <4>2. u \notin uids
        BY <1>1, <2>2, <4>1
      <4> QED
        BY <3>1, <4>1, <4>2 DEF KnownOK, NewIsUnseen
    <3> QED
      BY <3>2 DEF NewIsUnseen
  <2>3. \A u \in Ids(Inbox(Owner)) : u <= top
    BY DEF KnownOK, Ids, Inbox
  <2>4. \A c \in Slot : \A u \in cmd[c].uids : u <= top
    BY DEF KnownOK
  <2> QED
    BY <2>1, <2>2, <2>3, <2>4, StoresOnly
<1>7. \A u \in K : u <= top'
  BY <1>1
<1> QED
  BY <1>1, <1>5, <1>6, <1>7 DEF KnownOK

-----------------------------------------------------------------------------
(* A step that neither stores flags nor changes the session's copy *)
LEMMA ShownKept ==
    ASSUME ShownOK, UNCHANGED <<flags, behind, persisted>>, NEW c \in Slot, Alone(c),
           cmd[c].pc # "stored", cmd'[c].pc \notin {"copy", "stored"}
    PROVE  ShownOK'
<1>1. ASSUME NEW d \in Slot PROVE CopyOK(cmd[d])'
  BY DEF ShownOK, CopyOK, Alone
<1>2. ASSUME NEW u \in Uid, u \notin behind' PROVE (flags[u] = persisted[u] \/ OnItsWay(u))'
  BY <1>2 DEF ShownOK, OnItsWay, Doing, Alone
<1> QED
  BY <1>1, <1>2 DEF ShownOK

(* A STORE to uids makes what is on its way late. *)
LEMMA ShownLater ==
    ASSUME ProxyTypeOK, ShownOK, NEW uids \in SUBSET Uid, NEW S \in SUBSET Slot,
           \A d \in S : Later(d, uids),
           \A u \in Uid : u \notin uids => persisted'[u] = persisted[u]
    PROVE  \A d \in S : CopyOK(cmd[d])' /\ (Doing(d, "stored") => Doing(d, "stored")')
                        /\ cmd'[d].uids = cmd[d].uids /\ cmd'[d].late \subseteq cmd[d].late \cup uids
<1> TAKE d \in S
<1>1. /\ cmd'[d].pc = cmd[d].pc /\ cmd'[d].uids = cmd[d].uids /\ cmd'[d].copy = cmd[d].copy
      /\ cmd'[d].late = IF d \in Copying THEN cmd[d].late \cup uids ELSE cmd[d].late
  BY DEF Later
<1>2. CopyOK(cmd[d]) /\ cmd[d].uids \subseteq Uid
  BY DEF ShownOK, ProxyTypeOK, CommandType
<1>3. CASE cmd[d].pc \in {"copy", "stored"}
  BY <1>1, <1>2, <1>3 DEF CopyOK, Copying, Doing
<1>4. CASE cmd[d].pc \notin {"copy", "stored"}
  BY <1>1, <1>4 DEF CopyOK, Copying, Doing
<1> QED
  BY <1>3, <1>4

LEMMA ShownStep ==
    ASSUME ProxyTypeOK, IndexOK, CacheOK, ShownOK, [ProxyNext]_proxyVars
    PROVE  ShownOK'
<1>1. CASE UNCHANGED <<cmd, flags, behind, persisted>>
  BY <1>1 DEF ShownOK, CopyOK, OnItsWay, Doing
<1>2. CASE Backend
  <2>1. UNCHANGED <<flags, behind, persisted>>
    BY <1>2 DEF Backend, shownVars, flagVars
  <2>2. \A d \in Slot : /\ cmd'[d].pc = cmd[d].pc /\ cmd'[d].uids = cmd[d].uids
                        /\ cmd'[d].copy = cmd[d].copy /\ cmd'[d].late = cmd[d].late
    BY <1>2, BackendEffect
  <2> QED
    BY <2>1, <2>2 DEF ShownOK, CopyOK, OnItsWay, Doing
<1>3. CASE StoreElsewhere
  <2>1. PICK uids \in SUBSET Uid :
          /\ \A u \in Uid : u \notin uids => persisted'[u] = persisted[u]
          /\ behind' = behind \cup uids
          /\ \A d \in Slot : Later(d, uids)
    BY <1>3, ElsewhereEffect
  <2>2. flags' = flags
    BY <1>3 DEF StoreElsewhere
  <2>3. \A d \in Slot : CopyOK(cmd[d])' /\ (Doing(d, "stored") => Doing(d, "stored")')
                        /\ cmd'[d].uids = cmd[d].uids /\ cmd'[d].late \subseteq cmd[d].late \cup uids
    BY <2>1, ShownLater
  <2>4. ASSUME NEW u \in Uid, u \notin behind' PROVE (flags[u] = persisted[u] \/ OnItsWay(u))'
    <3>1. u \notin behind /\ u \notin uids
      BY <2>1, <2>4
    <3>2. CASE flags[u] = persisted[u]
      BY <2>1, <2>2, <3>1, <3>2
    <3>3. CASE OnItsWay(u)
      BY <2>3, <3>1, <3>3 DEF OnItsWay, Doing
    <3> QED
      BY <3>1, <3>2, <3>3 DEF ShownOK
  <2> QED
    BY <2>3, <2>4 DEF ShownOK
<1>4. ASSUME NEW c \in Slot, Other(c) \/ Fetching(c) PROVE ShownOK'
  <2>1. cmd[c] \in CommandType /\ CopyOK(cmd[c])
    BY DEF ProxyTypeOK, ShownOK
  <2>2. ASSUME NEW op, Begin(c, op) PROVE ShownOK'
    BY <2>2, BeginEffect, ShownKept DEF Begin, Doing, shownVars, storeVars, flagVars
  <2>3. CASE CountMails(c)
    BY <2>3, CountEffect, ShownKept DEF CountMails, shownVars, storeVars, flagVars
  <2>4. CASE Compare(c)
    BY <2>4, GoOnEffect, ShownKept DEF Compare, Doing, shownVars, storeVars, flagVars
  <2>5. CASE Counted(c)
    <3>1. Alone(c) /\ cmd[c].pc = "counted" /\ cmd'[c].pc \in {"act", "index"} /\ persisted' = persisted
      BY <2>5, GoOnEffect, CountedEffect DEF Counted, Doing, storeVars, flagVars
    <3>2. CASE UNCHANGED shownVars
      BY <3>1, <3>2, ShownKept DEF shownVars
    <3>3. CASE flags' = NoFlags /\ behind' = {u \in Uid : persisted[u] # {}}
      <4>1. \A d \in Slot : CopyOK(cmd[d])'
        BY <3>1 DEF ShownOK, CopyOK, Alone
      <4>2. \A u \in Uid \ behind' : flags'[u] = persisted'[u]
        BY <3>1, <3>3, IdleCommand
      <4> QED
        BY <4>1, <4>2 DEF ShownOK
    <3> QED
      BY <2>5, <3>2, <3>3 DEF Counted
  <2>6. CASE ReadPage(c)
    BY <2>6, ReadPageEffect, ShownKept DEF ReadPage, shownVars, storeVars, flagVars
  <2>7. CASE Install(c)
    BY <2>7, GoOnEffect, ShownKept DEF Install, Doing, shownVars, storeVars, flagVars
  <2>8. CASE ReadFlags(c)
    <3>1. UNCHANGED <<flags, behind, persisted>> /\ cmd[c].pc = "flags"
      BY <2>8 DEF ReadFlags, Doing, shownVars, storeVars, flagVars
    <3>2. Alone(c) /\ cmd'[c].pc = "copy" /\ cmd'[c].copy = persisted
      BY <2>8, ReadFlagsEffect
    <3>3. \A d \in Slot : CopyOK(cmd[d])'
      BY <3>1, <3>2 DEF ShownOK, CopyOK, Alone
    <3>4. \A u \in Uid \ behind' : (flags[u] = persisted[u] \/ OnItsWay(u))'
      BY <3>1, <3>2 DEF ShownOK, OnItsWay, Doing, Alone
    <3> QED
      BY <3>3, <3>4 DEF ShownOK
  <2>9. CASE CopyFlags(c)
    <3>1. Alone(c) /\ cmd'[c].pc = "act" /\ cmd[c].pc = "copy" /\ persisted' = persisted
      BY <2>9, GoOnEffect DEF CopyFlags, Doing, storeVars, flagVars
    <3>2. flags' = cmd[c].copy /\ behind' = cmd[c].late
      BY <2>9 DEF CopyFlags
    <3>3. \A d \in Slot : CopyOK(cmd[d])'
      BY <3>1 DEF ShownOK, CopyOK, Alone
    <3>4. \A u \in Uid \ behind' : flags'[u] = persisted'[u]
      BY <2>1, <3>1, <3>2 DEF CopyOK
    <3> QED
      BY <3>3, <3>4 DEF ShownOK
  <2>10. CASE Answer(c) \/ Fail(c)
    BY <2>10, FinishEffect, ShownKept DEF Answer, Fail, Doing, shownVars, storeVars, flagVars
  <2>11. CASE AskStore(c)
    BY <2>11, AskStoreEffect, ShownKept DEF AskStore, Doing, shownVars, storeVars, flagVars
  <2>12. CASE StoreFlags(c)
    <3> DEFINE uids == cmd[c].uids
    <3>1. UNCHANGED <<flags, behind>> /\ cmd[c].pc = "store"
      BY <2>12 DEF StoreFlags, Doing, shownVars
    <3>2. /\ uids \subseteq Uid
          /\ \A u \in Uid : u \notin uids => persisted'[u] = persisted[u]
          /\ cmd'[c].pc = "stored" /\ cmd'[c].uids = uids /\ cmd'[c].late = {}
          /\ \A u \in uids : cmd'[c].copy[u] = persisted'[u]
          /\ \A d \in Slot \ {c} : Later(d, uids)
      BY <2>12, StoreEffect
    <3>3. \A d \in Slot \ {c} : CopyOK(cmd[d])' /\ (Doing(d, "stored") => Doing(d, "stored")')
              /\ cmd'[d].uids = cmd[d].uids /\ cmd'[d].late \subseteq cmd[d].late \cup uids
      BY <3>2, ShownLater
    <3>4. CopyOK(cmd[c])'
      BY <3>2 DEF CopyOK
    <3>5. ASSUME NEW u \in Uid, u \notin behind' PROVE (flags[u] = persisted[u] \/ OnItsWay(u))'
      <4>1. CASE u \in uids
        BY <3>2, <4>1 DEF OnItsWay, Doing
      <4>2. CASE u \notin uids /\ flags[u] = persisted[u]
        BY <3>1, <3>2, <4>2
      <4>3. CASE u \notin uids /\ OnItsWay(u)
        <5>1. PICK d \in Slot : Doing(d, "stored") /\ u \in cmd[d].uids \ cmd[d].late
          BY <4>3 DEF OnItsWay
        <5>2. d # c
          BY <3>1, <5>1 DEF Doing
        <5>3. Doing(d, "stored")' /\ u \in cmd'[d].uids /\ u \notin cmd'[d].late
          BY <3>3, <4>3, <5>1, <5>2
        <5> QED
          BY <5>3 DEF OnItsWay
      <4> QED
        BY <3>1, <3>5, <4>1, <4>2, <4>3 DEF ShownOK
    <3> QED
      BY <3>3, <3>4, <3>5 DEF ShownOK
  <2>13. CASE CopyStored(c)
    <3> DEFINE uids == cmd[c].uids
    <3>1. Alone(c) /\ cmd'[c].pc = "idle" /\ cmd[c].pc = "stored" /\ persisted' = persisted
      BY <2>13, FinishEffect DEF CopyStored, Doing, storeVars, flagVars
    <3>2. /\ flags' = [u \in Uid |-> IF u \in uids THEN cmd[c].copy[u] ELSE flags[u]]
          /\ behind' = (behind \ uids) \cup (cmd[c].late \cap uids)
      BY <2>13 DEF CopyStored
    <3>3. \A d \in Slot : CopyOK(cmd[d])'
      BY <3>1 DEF ShownOK, CopyOK, Alone
    <3>4. ASSUME NEW u \in Uid, u \notin behind' PROVE (flags[u] = persisted[u] \/ OnItsWay(u))'
      <4>1. CASE u \in uids
        <5>1. u \notin cmd[c].late
          BY <3>2, <3>4, <4>1
        <5> QED
          BY <2>1, <3>1, <3>2, <4>1, <5>1 DEF CopyOK
      <4>2. CASE u \notin uids
        <5>1. u \notin behind /\ flags'[u] = flags[u]
          BY <3>2, <3>4, <4>2
        <5>2. CASE OnItsWay(u)
          <6>1. PICK d \in Slot : Doing(d, "stored") /\ u \in cmd[d].uids \ cmd[d].late
            BY <5>2 DEF OnItsWay
          <6>2. d # c
            BY <4>2, <6>1
          <6> QED
            BY <3>1, <6>1, <6>2 DEF OnItsWay, Doing, Alone
        <5> QED
          BY <3>1, <5>1, <5>2 DEF ShownOK
      <4> QED
        BY <4>1, <4>2
    <3> QED
      BY <3>3, <3>4 DEF ShownOK
  <2>14. CASE BeginFetch(c)
    <3>1. UNCHANGED <<flags, behind, persisted>> /\ cmd[c].pc = "act"
      BY <2>14 DEF BeginFetch, Reply, Doing, shownVars, storeVars, flagVars
    <3>2. Alone(c) /\ cmd'[c].pc \in {"idle", "fetch"}
      <4>1. CASE Finish(c)
        BY <4>1, FinishEffect
      <4>2. ASSUME NEW asked \in SUBSET index,
                   cmd' = [cmd EXCEPT ![c].pc = "fetch", ![c].count = count, ![c].since = changes,
                                      ![c].uids = asked, ![c].wanted = asked \ cache]
            PROVE  Alone(c) /\ cmd'[c].pc = "fetch"
        BY <4>2, BeginFetchEffect
      <4> QED
        BY <2>14, <4>1, <4>2 DEF BeginFetch, Reply, Named
    <3> QED
      BY <3>1, <3>2, ShownKept
  <2>15. CASE FetchNext(c)
    BY <2>15, FetchNextEffect, ShownKept DEF FetchNext, shownVars, storeVars, flagVars
  <2>16. CASE FinishFetch(c)
    BY <2>16, FinishEffect, ShownKept DEF FinishFetch, Reply, Doing, shownVars, storeVars, flagVars
  <2> QED
    BY <1>4, <2>2, <2>3, <2>4, <2>5, <2>6, <2>7, <2>8, <2>9, <2>10, <2>11, <2>12, <2>13, <2>14,
       <2>15, <2>16 DEF Other, Fetching
<1> QED
  BY <1>1, <1>2, <1>3, <1>4 DEF ProxyNext, proxyVars, sessionVars, shownVars, storeVars, flagVars

-----------------------------------------------------------------------------
(* No place in the list is behind its end. *)
LEMMA Ranks ==
    ASSUME RawOK
    PROVE  \A m \in Inbox(Owner) : Rank(m) \in Nat /\ Rank(m) < Cardinality(Inbox(Owner))
<1> DEFINE I == Inbox(Owner)
<1>1. TAKE m \in I
<1>2. IsFiniteSet(I) /\ Cardinality(I) \in Nat /\ m \in I
  BY InboxFinite
<1> DEFINE N == {n \in I : n.id > m.id}
<1>3. N \subseteq I \ {m}
  BY <1>2 DEF RawOK, Inbox, Mail, Serial
<1>4. IsFiniteSet(I \ {m}) /\ Cardinality(I \ {m}) = Cardinality(I) - 1
  BY <1>2, FS_RemoveElement
<1>5. IsFiniteSet(N) /\ Cardinality(N) <= Cardinality(I) - 1 /\ Cardinality(N) \in Nat
  BY <1>3, <1>4, FS_Subset, FS_CardinalityType
<1> HIDE DEF N, I
<1> QED
  BY <1>2, <1>5 DEF Rank, N, I

(* The walk has seen nothing at first, one page more after each, and in    *)
(* the end all that is in the list.                                        *)
LEMMA PageAdds ==
    ASSUME RawOK, NEW offset \in Nat, NEW limit \in Nat
    PROVE  Before(offset) \cup Ids(Page(offset, limit)) = Before(offset + limit)
<1>1. Page(offset, limit) = {m \in Inbox(Owner) : Rank(m) \in offset..(offset + limit - 1)}
  BY DEF Page, Rank
<1>2. \A m \in Inbox(Owner) :
        Rank(m) < offset + limit <=> Rank(m) < offset \/ Rank(m) \in offset..(offset + limit - 1)
  BY Ranks
<1> QED
  BY <1>1, <1>2 DEF Ids, Before

LEMMA Ends ==
    ASSUME RawOK
    PROVE  /\ Before(0) = {}
           /\ \A n \in Nat : Cardinality(Inbox(Owner)) <= n => Before(n) = Ids(Inbox(Owner))
<1>1. \A m \in Inbox(Owner) : Rank(m) \in Nat /\ Rank(m) < Cardinality(Inbox(Owner))
  BY Ranks
<1>2. Cardinality(Inbox(Owner)) \in Nat
  BY InboxFinite
<1> QED
  BY <1>1, <1>2 DEF Ids, Before

-----------------------------------------------------------------------------
SameList(d) ==
    /\ cmd'[d].pc = cmd[d].pc /\ cmd'[d].count = cmd[d].count /\ cmd'[d].since = cmd[d].since
    /\ cmd'[d].offset = cmd[d].offset /\ cmd'[d].found = cmd[d].found

SameFetch(d) ==
    SameList(d) /\ cmd'[d].uids = cmd[d].uids /\ cmd'[d].wanted = cmd[d].wanted

(* The mailbox stays as it is: so does what a walk has seen of it. *)
LEMMA WalkKept ==
    ASSUME UNCHANGED mails, NEW d \in Slot, SameList(d), WalkOK(cmd[d])
    PROVE  WalkOK(cmd[d])'
<1>1. Inbox(Owner)' = Inbox(Owner)
  BY DEF Inbox
<1> QED
  BY <1>1 DEF SameList, WalkOK, Tells, Before, Rank, Ids

LEMMA WalkOver ==
    ASSUME NEW c \in Slot,
           \/ cmd'[c].pc \in {"idle", "flags", "copy", "store", "stored"}
           \/ cmd'[c].pc \in {"refresh", "build", "act"} /\ cmd'[c].offset = 0 /\ cmd'[c].found = {}
    PROVE  WalkOK(cmd[c])' /\ cmd'[c].pc \notin {"index", "install"}
  BY DEF WalkOK

(* A step of c that leaves the session's index and number alone *)
LEMMA IndexKept ==
    ASSUME IndexOK, UNCHANGED mails, UNCHANGED indexVars, NEW c \in Slot,
           \A d \in Slot \ {c} : SameList(d), WalkOK(cmd[c])',
           cmd'[c].pc \in {"index", "install"} =>
              /\ cmd[c].pc \in {"index", "install"}
              /\ cmd'[c].count = cmd[c].count /\ cmd'[c].since = cmd[c].since
    PROVE  IndexOK'
<1>1. Inbox(Owner)' = Inbox(Owner) /\ UNCHANGED <<count, built, index, changes, unmatched>>
  BY DEF Inbox, indexVars
<1>2. Tells(count, changes)'
  BY <1>1 DEF IndexOK, Tells
<1>3. \A d \in Slot : WalkOK(cmd[d])'
  BY WalkKept DEF IndexOK
<1>4. ASSUME NEW d \in Slot, unmatched' = d, cmd'[d].pc \in {"index", "install"}
      PROVE  count' = cmd'[d].count /\ changes' = cmd'[d].since
  BY <1>1, <1>4 DEF IndexOK, SameList
<1>5. built' /\ unmatched' = None /\ changes' = "nothing" => index' = Ids(Inbox(Owner))'
  BY <1>1 DEF IndexOK, Ids
<1> QED
  BY <1>2, <1>3, <1>4, <1>5 DEF IndexOK

(* c takes over the number that it has read, and the session's index may *)
(* be of another rebuild until c has replaced it too.                    *)
LEMMA TakeStep ==
    ASSUME IndexOK, UNCHANGED mails, NEW c \in Slot, cmd[c].pc \in {"compare", "counted"},
           TakeCount(c), unmatched' = c, Alone(c), WalkOK(cmd[c])',
           cmd'[c].pc \in {"index", "install"} =>
              cmd'[c].count = cmd[c].count /\ cmd'[c].since = cmd[c].since
    PROVE  IndexOK'
<1>1. Inbox(Owner)' = Inbox(Owner)
  BY DEF Inbox
<1>2. Tells(cmd[c].count, cmd[c].since)
  BY DEF IndexOK, WalkOK
<1>3. Tells(count, changes)'
  BY <1>1, <1>2 DEF TakeCount, Tells
<1>4. \A d \in Slot : WalkOK(cmd[d])'
  BY WalkKept DEF IndexOK, Alone, SameList
<1>5. unmatched' # None
  BY ImapMailboxAssumption
<1>6. \A d \in Slot : unmatched' = d /\ cmd'[d].pc \in {"index", "install"} =>
         count' = cmd'[d].count /\ changes' = cmd'[d].since
  BY DEF TakeCount
<1> QED
  BY <1>3, <1>4, <1>5, <1>6 DEF IndexOK

LEMMA CountedStep ==
    ASSUME ProxyTypeOK, IndexOK, NEW c \in Slot, Counted(c), UNCHANGED mails
    PROVE  IndexOK'
<1>1. /\ cmd[c].pc = "counted" /\ TakeCount(c) /\ WalkOK(cmd[c]) /\ RawOK
      /\ cmd[c].offset = 0 /\ cmd[c].found = {} /\ Tells(cmd[c].count, cmd[c].since)
      /\ cmd[c].count \in Nat
  BY DEF Counted, Doing, IndexOK, WalkOK, ProxyTypeOK, CommandType
<1>2. Inbox(Owner)' = Inbox(Owner)
  BY DEF Inbox
<1>3. CASE cmd[c].count = 0
  <2>1. Alone(c) /\ cmd'[c].pc = "act" /\ cmd'[c].offset = 0 /\ cmd'[c].found = {}
    BY <1>3, GoOnEffect DEF Counted
  <2>2. \A d \in Slot : WalkOK(cmd[d])'
    BY <2>1, WalkOver, WalkKept DEF IndexOK, Alone, SameList
  <2>3. Tells(count, changes)'
    BY <1>1, <1>2 DEF TakeCount, Tells
  <2>4. unmatched' = None /\ index' = {}
    BY <1>3 DEF Counted
  <2>5. ASSUME changes' = "nothing" PROVE index' = Ids(Inbox(Owner))'
    <3>1. Cardinality(Inbox(Owner)) = 0
      BY <1>1, <1>3, <2>5 DEF TakeCount, Tells
    <3>2. Inbox(Owner) = {}
      BY <1>1, <3>1, InboxFinite, FS_EmptySet
    <3> QED
      BY <1>2, <2>4, <3>2 DEF Ids
  <2>6. \A d \in Slot : unmatched' # d
    BY <2>4, ImapMailboxAssumption
  <2> QED
    BY <2>2, <2>3, <2>5, <2>6 DEF IndexOK
<1>4. CASE cmd[c].count # 0
  <2>1. /\ Alone(c) /\ SameWalk(c)
        /\ cmd'[c].pc = "index" /\ cmd'[c].offset = 0 /\ cmd'[c].found = {}
    BY <1>1, <1>4, CountedEffect DEF Counted
  <2>2. unmatched' = c
    BY <1>4 DEF Counted
  <2>3. WalkOK(cmd[c])'
    <3>1. Before(0) = {}
      BY <1>1, Ends
    <3>2. {} = Before(0)'
      BY <1>2, <3>1 DEF Before, Rank, Ids
    <3>3. Tells(cmd[c].count, cmd[c].since)'
      BY <1>1, <1>2, <2>1 DEF SameWalk, Tells
    <3>4. cmd'[c].offset < cmd'[c].count
      BY <1>1, <1>4, <2>1 DEF SameWalk
    <3>5. cmd'[c].found = Before(cmd[c].offset)'
      BY <2>1, <3>2 DEF Before
    <3> QED
      BY <2>1, <3>3, <3>4, <3>5 DEF WalkOK
  <2> QED
    BY <1>1, <2>1, <2>2, <2>3, TakeStep DEF SameWalk
<1> QED
  BY <1>3, <1>4

LEMMA ReadPageStep ==
    ASSUME ProxyTypeOK, IndexOK, NEW c \in Slot, ReadPage(c), UNCHANGED mails
    PROVE  IndexOK'
<1>1. /\ RawOK /\ cmd[c].pc = "index" /\ cmd[c].offset \in Nat /\ cmd[c].count \in Nat
      /\ Tells(cmd[c].count, cmd[c].since)
      /\ cmd[c].since = "nothing" => cmd[c].found = Before(cmd[c].offset)
  BY DEF ProxyTypeOK, CommandType, IndexOK, WalkOK, ReadPage, Doing
<1>2. PICK limit \in Nat :
        LET next == cmd[c].offset + limit IN
        /\ Alone(c) /\ SameWalk(c)
        /\ IF next < cmd[c].count THEN cmd'[c].pc = "index" ELSE cmd'[c].pc = "install"
        /\ cmd'[c].offset = next
        /\ cmd'[c].found = cmd[c].found \cup Ids(Page(cmd[c].offset, limit))
  BY ReadPageEffect
<1>3. PICK next \in Nat : next = cmd[c].offset + limit
  BY <1>1
<1>4. cmd[c].since = "nothing" => cmd'[c].found = Before(next)
  BY <1>1, <1>2, <1>3, PageAdds
<1>5. Inbox(Owner)' = Inbox(Owner)
  BY DEF Inbox
<1>6. Tells(cmd[c].count, cmd[c].since)'
  BY <1>1, <1>2, <1>5 DEF SameWalk, Tells
<1>7. ASSUME next < cmd[c].count PROVE WalkOK(cmd[c])'
  <2>1. cmd'[c].pc = "index" /\ cmd'[c].offset = next /\ cmd'[c].offset < cmd'[c].count
    BY <1>2, <1>3, <1>7 DEF SameWalk
  <2>2. cmd'[c].since = "nothing" => cmd'[c].found = Before(cmd[c].offset)'
    BY <1>2, <1>4, <1>5, <2>1 DEF SameWalk, Before, Rank, Ids
  <2> QED
    BY <1>6, <2>1, <2>2 DEF WalkOK
<1>8. ASSUME ~(next < cmd[c].count) PROVE WalkOK(cmd[c])'
  <2>1. cmd'[c].pc = "install"
    BY <1>2, <1>3, <1>8
  <2>2. ASSUME cmd'[c].since = "nothing" PROVE cmd'[c].found = Ids(Inbox(Owner))'
    <3>1. cmd[c].since = "nothing" /\ Cardinality(Inbox(Owner)) = cmd[c].count
      BY <1>1, <1>2, <2>2 DEF SameWalk, Tells
    <3>2. Before(next) = Ids(Inbox(Owner))
      BY <1>1, <1>3, <1>8, <3>1, Ends
    <3> QED
      BY <1>4, <1>5, <3>1, <3>2 DEF Ids
  <2> QED
    BY <1>6, <2>1, <2>2 DEF WalkOK
<1>9. WalkOK(cmd[c])'
  BY <1>7, <1>8
<1>10. UNCHANGED indexVars
  BY DEF ReadPage
<1> QED
  BY <1>1, <1>2, <1>9, <1>10, IndexKept DEF Alone, SameList, SameWalk

(* The index is the right one if its number of mails was taken over and is *)
(* right.                                                                  *)
LEMMA InstallStep ==
    ASSUME ProxyTypeOK, IndexOK, NEW c \in Slot, Install(c), UNCHANGED mails
    PROVE  IndexOK'
<1>1. /\ cmd[c].pc = "install" /\ cmd[c].since = "nothing" => cmd[c].found = Ids(Inbox(Owner))
  BY DEF Install, Doing, IndexOK, WalkOK
<1>2. Alone(c) /\ cmd'[c].pc = "flags"
  BY GoOnEffect DEF Install
<1>3. Inbox(Owner)' = Inbox(Owner) /\ count' = count /\ changes' = changes /\ index' = cmd[c].found
  BY DEF Install, Inbox
<1>4. /\ unmatched' = None => unmatched = c
      /\ \A d \in Slot : unmatched' = d => d = c \/ unmatched = d
  BY ImapMailboxAssumption DEF Install
<1>5. Tells(count, changes)'
  BY <1>3 DEF IndexOK, Tells
<1>6. \A d \in Slot : WalkOK(cmd[d])'
  BY <1>2, WalkOver, WalkKept DEF IndexOK, Alone, SameList
<1>7. ASSUME NEW d \in Slot, unmatched' = d, cmd'[d].pc \in {"index", "install"}
      PROVE  count' = cmd'[d].count /\ changes' = cmd'[d].since
  BY <1>2, <1>3, <1>4, <1>7 DEF IndexOK, Alone
<1>8. ASSUME unmatched' = None, changes' = "nothing" PROVE index' = Ids(Inbox(Owner))'
  <2>1. cmd[c].pc = "install" /\ cmd[c].since = "nothing"
    BY <1>3, <1>4, <1>8 DEF IndexOK, Install, Doing
  <2> QED
    BY <1>1, <1>3, <2>1 DEF Ids
<1> QED
  BY <1>5, <1>6, <1>7, <1>8 DEF IndexOK

(* What befalls the mailbox, the number of mails shows. *)
LEMMA TellsStep ==
    ASSUME ProxyTypeOK, Backend, NEW n \in Nat, NEW before \in Changes, NEW after,
           Tells(n, before), after = Befallen(before)
    PROVE  after # "deletion" =>
              IF after = "nothing" THEN Cardinality(Inbox(Owner)') = n
                                   ELSE Cardinality(Inbox(Owner)') > n
<1> DEFINE I == Inbox(Owner)
<1>1. RawOK' /\ RawOK
  BY TopGrows DEF ProxyTypeOK
<1>2. IsFiniteSet(I) /\ Cardinality(I) \in Nat
  BY <1>1, InboxFinite
<1>3. IsFiniteSet(I') /\ Cardinality(I') \in Nat
  <2>1. I' \subseteq mails' /\ IsFiniteSet(mails')
    BY <1>1 DEF Inbox, RawOK
  <2> QED
    BY <2>1, FS_Subset, FS_CardinalityType
<1>4. /\ ~(I \subseteq I') \/ before = "deletion" => after = "deletion"
      /\ I' = I => after = before
      /\ I \subseteq I' /\ before # "deletion" /\ I' # I => after = "arrival"
  BY DEF Befallen
<1> SUFFICES ASSUME after # "deletion"
             PROVE  IF after = "nothing" THEN Cardinality(I') = n ELSE Cardinality(I') > n
  OBVIOUS
<1> HIDE DEF I
<1>5. I \subseteq I' /\ before # "deletion"
  BY <1>4
<1>6. IF before = "nothing" THEN Cardinality(I) = n ELSE Cardinality(I) > n
  BY <1>5 DEF Tells, I
<1>7. CASE I' = I
  <2>1. after = before /\ Cardinality(I') = Cardinality(I)
    BY <1>4, <1>7
  <2> QED
    BY <1>6, <2>1
<1>8. CASE I' # I
  <2>1. after = "arrival"
    BY <1>4, <1>5, <1>8
  <2>2. Cardinality(I) <= Cardinality(I') /\ Cardinality(I) # Cardinality(I')
    BY <1>3, <1>5, <1>8, FS_Subset
  <2> QED
    BY <1>2, <1>3, <1>6, <2>1, <2>2
<1> QED
  BY <1>7, <1>8

LEMMA NothingBefell ==
    ASSUME NEW before, Befallen(before) = "nothing"
    PROVE  before = "nothing" /\ Inbox(Owner)' = Inbox(Owner)
  BY DEF Befallen

LEMMA BackendStep ==
    ASSUME ProxyTypeOK, IndexOK, Backend
    PROVE  IndexOK'
<1>1. UNCHANGED <<count, built, index, unmatched>> /\ changes' = Befallen(changes)
  BY DEF Backend
<1>2. \A d \in Slot :
         /\ cmd'[d].pc = cmd[d].pc /\ cmd'[d].count = cmd[d].count
         /\ cmd'[d].offset = cmd[d].offset /\ cmd'[d].found = cmd[d].found
         /\ cmd'[d].since = IF Counts(d) THEN Befallen(cmd[d].since) ELSE cmd[d].since
  BY BackendEffect
<1>3. count \in Nat /\ changes \in Changes /\ \A d \in Slot : cmd[d] \in CommandType
  BY DEF ProxyTypeOK
<1>4. Tells(count, changes)'
  <2>1. Tells(count, changes)
    BY DEF IndexOK
  <2> QED
    BY <1>1, <1>3, <2>1, TellsStep DEF Tells
<1>5. ASSUME NEW d \in Slot PROVE WalkOK(cmd[d])'
  <2>1. WalkOK(cmd[d])
    BY DEF IndexOK
  <2>2. CASE Counts(d)
    <3>1. cmd'[d].since = Befallen(cmd[d].since) /\ cmd[d].count \in Nat /\ cmd[d].since \in Changes
      BY <1>2, <1>3, <2>2 DEF CommandType
    <3>2. Tells(cmd[d].count, cmd[d].since)
      BY <2>1, <2>2 DEF WalkOK, Counts
    <3>3. Tells(cmd[d].count, cmd[d].since)'
      BY <1>2, <3>1, <3>2, TellsStep DEF Tells
    <3>4. cmd'[d].since = "nothing" => cmd[d].since = "nothing" /\ Inbox(Owner)' = Inbox(Owner)
      BY <3>1, NothingBefell
    <3>5. CASE cmd'[d].since = "nothing"
      BY <1>2, <2>1, <3>3, <3>4, <3>5 DEF WalkOK, Before, Rank, Ids
    <3>6. CASE cmd'[d].since # "nothing"
      BY <1>2, <2>1, <3>3, <3>6 DEF WalkOK
    <3> QED
      BY <3>5, <3>6
  <2>3. CASE ~Counts(d)
    BY <1>2, <2>1, <2>3 DEF WalkOK, Counts
  <2> QED
    BY <2>2, <2>3
<1>6. ASSUME NEW d \in Slot, unmatched' = d, cmd'[d].pc \in {"index", "install"}
      PROVE  count' = cmd'[d].count /\ changes' = cmd'[d].since
  BY <1>1, <1>2, <1>6 DEF IndexOK, Counts
<1>7. ASSUME built', unmatched' = None, changes' = "nothing" PROVE index' = Ids(Inbox(Owner))'
  <2>1. changes = "nothing" /\ Inbox(Owner)' = Inbox(Owner)
    BY <1>1, <1>7, NothingBefell
  <2> QED
    BY <1>1, <1>7, <2>1 DEF IndexOK, Ids
<1> QED
  BY <1>4, <1>5, <1>6, <1>7 DEF IndexOK

LEMMA IndexStep ==
    ASSUME ProxyTypeOK, IndexOK, CacheOK, [ProxyNext]_proxyVars
    PROVE  IndexOK'
<1>1. CASE UNCHANGED <<mails, cmd, indexVars>>
  <2>1. Inbox(Owner)' = Inbox(Owner)
    BY <1>1 DEF Inbox
  <2> QED
    BY <1>1, <2>1 DEF indexVars, IndexOK, WalkOK, Tells, Before, Rank, Ids
<1>2. CASE StoreElsewhere
  <2>1. UNCHANGED <<mails, indexVars>>
    BY <1>2 DEF StoreElsewhere, tableVars
  <2>2. \A d \in Slot : SameList(d)
    BY <1>2, ElsewhereEffect DEF Later, SameList
  <2>3. Inbox(Owner)' = Inbox(Owner) /\ UNCHANGED <<count, built, index, changes, unmatched>>
    BY <2>1 DEF Inbox, indexVars
  <2>4. Tells(count, changes)' /\ \A d \in Slot : WalkOK(cmd[d])'
    BY <2>1, <2>2, <2>3, WalkKept DEF IndexOK, Tells
  <2> QED
    BY <2>2, <2>3, <2>4 DEF IndexOK, SameList, Ids
<1>3. ASSUME NEW c \in Slot, Other(c) \/ Fetching(c) PROVE IndexOK'
  <2>1. UNCHANGED mails /\ WalkOK(cmd[c])
    BY <1>3, CommandLeaves DEF IndexOK
  <2>2. CASE UNCHANGED indexVars /\ Alone(c)
             /\ \/ cmd'[c].pc \in {"idle", "flags", "copy", "store", "stored"}
                \/ /\ cmd'[c].pc \in {"refresh", "build", "act"}
                   /\ cmd'[c].offset = 0 /\ cmd'[c].found = {}
    <3>1. WalkOK(cmd[c])' /\ cmd'[c].pc \notin {"index", "install"}
      BY <2>2, WalkOver
    <3> QED
      BY <2>1, <2>2, <3>1, IndexKept DEF Alone, SameList
  <2>3. ASSUME NEW op, Begin(c, op) PROVE IndexOK'
    BY <2>2, <2>3, BeginEffect DEF Begin
  <2>4. CASE CountMails(c)
    <3>1. /\ Alone(c) /\ cmd'[c].pc \in {"compare", "counted"}
          /\ cmd'[c].count = Cardinality(Inbox(Owner)) /\ cmd'[c].since = "nothing"
          /\ cmd'[c].offset = 0 /\ cmd'[c].found = {}
      BY <2>1, <2>4, CountEffect DEF WalkOK
    <3>2. WalkOK(cmd[c])'
      BY <2>1, <3>1 DEF WalkOK, Tells, Inbox
    <3>3. UNCHANGED indexVars
      BY <2>4 DEF CountMails
    <3> QED
      BY <2>1, <3>1, <3>2, <3>3, IndexKept DEF Alone, SameList
  <2>5. CASE Compare(c)
    <3>1. cmd[c].pc = "compare"
      BY <2>5 DEF Compare, Doing
    <3>2. CASE cmd[c].count = count
      BY <2>2, <2>5, <3>2, GoOnEffect DEF Compare
    <3>3. CASE cmd[c].count # count
      <4>1. /\ Alone(c) /\ cmd'[c].pc = "build" /\ cmd'[c].offset = 0 /\ cmd'[c].found = {}
            /\ TakeCount(c) /\ unmatched' = c
        BY <2>5, <3>3, GoOnEffect DEF Compare
      <4> QED
        BY <2>1, <3>1, <4>1, WalkOver, TakeStep
    <3> QED
      BY <3>2, <3>3
  <2>6. CASE Counted(c)
    BY <2>1, <2>6, CountedStep
  <2>7. CASE ReadPage(c)
    BY <2>1, <2>7, ReadPageStep
  <2>8. CASE Install(c)
    BY <2>1, <2>8, InstallStep
  <2>9. CASE ReadFlags(c)
    BY <2>2, <2>9, ReadFlagsEffect DEF ReadFlags
  <2>10. CASE CopyFlags(c)
    BY <2>2, <2>10, GoOnEffect DEF CopyFlags
  <2>11. CASE Answer(c) \/ Fail(c) \/ CopyStored(c) \/ FinishFetch(c)
    BY <2>2, <2>11, FinishEffect DEF Answer, Fail, CopyStored, FinishFetch, Reply
  <2>12. CASE AskStore(c)
    BY <2>2, <2>12, AskStoreEffect DEF AskStore
  <2>13. CASE StoreFlags(c)
    <3>1. UNCHANGED indexVars /\ cmd'[c].pc = "stored" /\ \A d \in Slot \ {c} : SameList(d)
      BY <2>13, StoreEffect DEF StoreFlags, Later, SameList
    <3> QED
      BY <2>1, <3>1, WalkOver, IndexKept
  <2>14. CASE BeginFetch(c)
    <3>1. UNCHANGED indexVars /\ cmd[c].pc = "act"
      BY <2>14 DEF BeginFetch, Reply, Doing
    <3>2. CASE Finish(c)
      BY <2>2, <3>1, <3>2, FinishEffect
    <3>3. ASSUME NEW asked \in SUBSET index,
                 cmd' = [cmd EXCEPT ![c].pc = "fetch", ![c].count = count, ![c].since = changes,
                                    ![c].uids = asked, ![c].wanted = asked \ cache]
          PROVE  IndexOK'
      <4>1. Alone(c) /\ cmd'[c].pc = "fetch" /\ cmd'[c].count = count /\ cmd'[c].since = changes
        BY <3>3, BeginFetchEffect
      <4>2. WalkOK(cmd[c])'
        BY <2>1, <4>1 DEF IndexOK, WalkOK, Tells, Inbox
      <4> QED
        BY <2>1, <3>1, <4>1, <4>2, IndexKept DEF Alone, SameList
    <3> QED
      BY <2>14, <3>2, <3>3 DEF BeginFetch, Reply, Named
  <2>15. CASE FetchNext(c)
    <3>1. UNCHANGED indexVars /\ Alone(c) /\ SameWalk(c) /\ cmd[c].pc = "fetch"
          /\ cmd'[c].pc \in {"fetch", "fetched"}
      BY <2>15, FetchNextEffect DEF FetchNext
    <3>2. WalkOK(cmd[c])'
      BY <2>1, <3>1 DEF WalkOK, SameWalk, Tells, Inbox
    <3> QED
      BY <2>1, <3>1, <3>2, IndexKept DEF Alone, SameList
  <2> QED
    BY <1>3, <2>3, <2>4, <2>5, <2>6, <2>7, <2>8, <2>9, <2>10, <2>11, <2>12, <2>13, <2>14, <2>15
       DEF Other, Fetching
<1>4. CASE Backend
  BY <1>4, BackendStep
<1> QED
  BY <1>1, <1>2, <1>3, <1>4 DEF ProxyNext, proxyVars, tableVars, sessionVars

-----------------------------------------------------------------------------
LEMMA UidsFinite == \A T \in SUBSET Uid : IsFiniteSet(T) /\ Cardinality(T) \in Nat
<1>1. MaxMail \in Nat /\ Uid = 1..MaxMail
  BY ImapMailboxAssumption, RawMailsAssumption
<1>2. IsFiniteSet(Uid)
  BY <1>1, FS_Interval
<1> QED
  BY <1>2, FS_Subset, FS_CardinalityType

(* What is put into the cache is there, and nothing was lost, unless the   *)
(* cache is full.                                                          *)
LEMMA KeptHolds ==
    ASSUME ProxyTypeOK, NEW found \in SUBSET Uid, NEW left \in Kept(cache \cup found)
    PROVE  /\ Cardinality(cache \cup found) <= CacheSize => left = cache \cup found
           /\ cache \subseteq left \/ Cardinality(left) = CacheSize
           /\ Cardinality(cache) = CacheSize => Cardinality(left) = CacheSize
<1> DEFINE all == cache \cup found
<1>1. all \in SUBSET Uid /\ cache \in SUBSET all
  BY DEF ProxyTypeOK
<1>2. IsFiniteSet(all) /\ Cardinality(all) \in Nat /\ Cardinality(cache) \in Nat /\ CacheSize \in Nat
  BY <1>1, UidsFinite, ImapMailboxAssumption
<1>3. Cardinality(cache) <= Cardinality(all)
  BY <1>1, <1>2, FS_Subset
<1> HIDE DEF all
<1>4. CASE Cardinality(all) <= CacheSize
  <2>1. left = all
    BY <1>4 DEF Kept, all
  <2> QED
    BY <1>1, <1>2, <1>3, <1>4, <2>1 DEF all
<1>5. CASE ~(Cardinality(all) <= CacheSize)
  <2>1. Cardinality(left) = CacheSize
    BY <1>5 DEF Kept, all
  <2> QED
    BY <1>5, <2>1 DEF all
<1> QED
  BY <1>4, <1>5

(* A fetch that is not c's and goes on where it was *)
LEMMA FetchKept ==
    ASSUME UNCHANGED mails, NEW d \in Slot, SameFetch(d), FetchOK(cmd[d]),
           cache \subseteq cache' \/ Cardinality(cache') = CacheSize,
           Cardinality(cache) = CacheSize => Cardinality(cache') = CacheSize
    PROVE  FetchOK(cmd[d])'
<1>1. Inbox(Owner)' = Inbox(Owner)
  BY DEF Inbox
<1>2. CASE cmd[d].pc \notin {"fetch", "fetched"}
  BY <1>2 DEF SameFetch, SameList, FetchOK
<1>3. CASE cmd[d].pc \in {"fetch", "fetched"}
  <2>1. cmd'[d].uids \ cmd'[d].wanted \subseteq cache' \/ Cardinality(cache') = CacheSize
    BY <1>3 DEF SameFetch, FetchOK
  <2>2. cmd'[d].pc = "fetch" =>
           /\ cmd'[d].offset < cmd'[d].count
           /\ cmd'[d].since = "nothing" => cmd'[d].found = cmd'[d].wanted \cap Before(cmd[d].offset)'
    BY <1>1, <1>3 DEF SameFetch, SameList, FetchOK, Before, Rank, Ids
  <2>3. cmd'[d].pc = "fetched" /\ cmd'[d].since = "nothing" =>
           cmd'[d].wanted \cap Ids(Inbox(Owner))' \subseteq cmd'[d].found
    BY <1>1, <1>3 DEF SameFetch, SameList, FetchOK, Ids
  <2>4. cmd'[d].found \subseteq cmd'[d].wanted /\ cmd'[d].wanted \subseteq cmd'[d].uids
    BY <1>3 DEF SameFetch, SameList, FetchOK
  <2> QED
    BY <2>1, <2>2, <2>3, <2>4 DEF FetchOK
<1> QED
  BY <1>2, <1>3

(* A step that does not fetch *)
LEMMA CacheKept ==
    ASSUME CacheOK, UNCHANGED <<mails, cache>>, NEW c \in Slot,
           \A d \in Slot \ {c} : SameFetch(d), cmd'[c].pc \notin {"fetch", "fetched"}
    PROVE  CacheOK'
<1>1. ASSUME NEW d \in Slot PROVE FetchOK(cmd[d])'
  <2>1. CASE d = c
    BY <2>1 DEF FetchOK
  <2>2. CASE d # c
    BY <2>2, FetchKept DEF CacheOK
  <2> QED
    BY <2>1, <2>2
<1> QED
  BY <1>1 DEF CacheOK

LEMMA BeginFetchStep ==
    ASSUME ProxyTypeOK, IndexOK, CacheOK, NEW c \in Slot, BeginFetch(c), UNCHANGED mails,
           FetchReturnsAll
    PROVE  CacheOK' /\ FetchReturnsAll'
<1>1. /\ RawOK /\ cmd[c].pc = "act" /\ cmd[c].offset = 0 /\ cmd[c].found = {} /\ count \in Nat
      /\ Tells(count, changes)
  BY DEF ProxyTypeOK, IndexOK, WalkOK, BeginFetch, Doing
<1>2. cache' = cache
  BY DEF BeginFetch, Reply
<1>3. ASSUME NEW asked \in SUBSET index, asked # {}, asked \subseteq cache \/ count = 0,
             Reply(c, asked, changes)
      PROVE  CacheOK' /\ FetchReturnsAll'
  <2>1. Alone(c) /\ cmd'[c].pc = "idle"
    BY <1>3, FinishEffect DEF Reply
  <2>2. CacheOK'
    BY <1>2, <2>1, CacheKept DEF Alone, SameFetch, SameList
  <2>3. answer'.asked = asked /\ answer'.got = asked \cap cache' \cap index
        /\ (answer'.complete => changes = "nothing" /\ asked \subseteq Ids(Inbox(Owner)))
    BY <1>3 DEF Reply
  <2>4. ASSUME answer'.complete PROVE asked \subseteq cache
    <3>1. CASE count = 0
      <4>1. Cardinality(Inbox(Owner)) = 0
        BY <1>1, <2>3, <2>4, <3>1 DEF Tells
      <4>2. Inbox(Owner) = {}
        BY <1>1, <4>1, InboxFinite, FS_EmptySet
      <4> QED
        BY <2>3, <2>4, <4>2 DEF Ids
    <3> QED
      BY <1>3, <3>1
  <2> QED
    BY <1>2, <1>3, <2>2, <2>3, <2>4 DEF FetchReturnsAll
<1>4. ASSUME NEW asked \in SUBSET index, count # 0, answer' = answer,
             cmd' = [cmd EXCEPT ![c].pc = "fetch", ![c].count = count, ![c].since = changes,
                                ![c].uids = asked, ![c].wanted = asked \ cache]
      PROVE  CacheOK' /\ FetchReturnsAll'
  <2>1. /\ Alone(c)
        /\ cmd'[c].pc = "fetch" /\ cmd'[c].count = count
        /\ cmd'[c].uids = asked /\ cmd'[c].wanted = asked \ cache
        /\ cmd'[c].offset = 0 /\ cmd'[c].found = {}
    BY <1>1, <1>4, BeginFetchEffect
  <2>2. Before(0)' = {}
    <3>1. Inbox(Owner)' = Inbox(Owner) /\ Before(0) = {}
      BY <1>1, Ends DEF Inbox
    <3> QED
      BY <3>1 DEF Before, Rank, Ids
  <2>3. cmd'[c].wanted \cap Before(cmd[c].offset)' = {}
    BY <2>1, <2>2 DEF Before
  <2>4. cmd'[c].offset < cmd'[c].count
    BY <1>1, <1>4, <2>1
  <2>5. cmd'[c].uids \ cmd'[c].wanted \subseteq cache' /\ cmd'[c].wanted \subseteq cmd'[c].uids
    BY <1>2, <2>1
  <2>6. FetchOK(cmd[c])'
    BY <2>1, <2>3, <2>4, <2>5 DEF FetchOK
  <2>7. \A d \in Slot \ {c} : FetchOK(cmd[d])'
    BY <1>2, <2>1, FetchKept DEF CacheOK, Alone, SameFetch, SameList
  <2> QED
    BY <1>4, <2>6, <2>7 DEF CacheOK, FetchReturnsAll
<1> QED
  BY <1>3, <1>4 DEF BeginFetch, Named

LEMMA FetchNextStep ==
    ASSUME ProxyTypeOK, IndexOK, CacheOK, NEW c \in Slot, FetchNext(c), UNCHANGED mails
    PROVE  CacheOK'
<1>1. /\ RawOK /\ cmd[c].pc = "fetch" /\ cmd[c].offset \in Nat /\ cmd[c].count \in Nat
      /\ Tells(cmd[c].count, cmd[c].since) /\ FetchOK(cmd[c])
  BY DEF ProxyTypeOK, CommandType, IndexOK, WalkOK, CacheOK, FetchNext, Doing
<1>2. /\ cmd[c].found \subseteq cmd[c].wanted /\ cmd[c].wanted \subseteq cmd[c].uids
      /\ cmd[c].uids \ cmd[c].wanted \subseteq cache \/ Cardinality(cache) = CacheSize
      /\ cmd[c].since = "nothing" => cmd[c].found = cmd[c].wanted \cap Before(cmd[c].offset)
  BY <1>1 DEF FetchOK
<1>3. PICK limit \in Nat :
        LET next == cmd[c].offset + limit
            found == cmd[c].found \cup (cmd[c].wanted \cap Ids(Page(cmd[c].offset, limit)))
        IN
        /\ Alone(c) /\ SameWalk(c)
        /\ IF found # cmd[c].wanted /\ next < cmd[c].count
           THEN cmd'[c].pc = "fetch" ELSE cmd'[c].pc = "fetched"
        /\ cmd'[c].offset = next
        /\ cmd'[c].found = found
  BY FetchNextEffect
<1>4. PICK next \in Nat : next = cmd[c].offset + limit
  BY <1>1
<1>5. Before(cmd[c].offset) \cup Ids(Page(cmd[c].offset, limit)) = Before(next)
  BY <1>1, <1>4, PageAdds
<1>6. PICK found : found = cmd[c].found \cup (cmd[c].wanted \cap Ids(Page(cmd[c].offset, limit)))
  OBVIOUS
<1>7. /\ cmd'[c].offset = next /\ cmd'[c].found = found
      /\ IF found # cmd[c].wanted /\ next < cmd[c].count
         THEN cmd'[c].pc = "fetch" ELSE cmd'[c].pc = "fetched"
  BY <1>3, <1>4, <1>6
<1>8. found \subseteq cmd[c].wanted /\ (cmd[c].since = "nothing" => found = cmd[c].wanted \cap Before(next))
  BY <1>2, <1>5, <1>6
<1>9. cache' = cache /\ Inbox(Owner)' = Inbox(Owner)
  BY DEF FetchNext, Inbox
<1>10. cmd'[c].found \subseteq cmd'[c].wanted /\ cmd'[c].wanted \subseteq cmd'[c].uids
       /\ (cmd'[c].uids \ cmd'[c].wanted \subseteq cache' \/ Cardinality(cache') = CacheSize)
  BY <1>2, <1>3, <1>7, <1>8, <1>9 DEF SameWalk
<1>11. ASSUME found # cmd[c].wanted, next < cmd[c].count PROVE FetchOK(cmd[c])'
  <2>1. cmd'[c].pc = "fetch" /\ cmd'[c].offset < cmd'[c].count
    BY <1>3, <1>7, <1>11 DEF SameWalk
  <2>2. cmd'[c].since = "nothing" => cmd'[c].found = cmd'[c].wanted \cap Before(next)
    BY <1>3, <1>7, <1>8 DEF SameWalk
  <2>3. cmd'[c].since = "nothing" => cmd'[c].found = cmd'[c].wanted \cap Before(cmd[c].offset)'
    BY <1>7, <1>9, <2>2 DEF Before, Rank, Ids
  <2> QED
    BY <1>10, <2>1, <2>3 DEF FetchOK
<1>12. ASSUME ~(found # cmd[c].wanted /\ next < cmd[c].count) PROVE FetchOK(cmd[c])'
  <2>1. cmd'[c].pc = "fetched"
    BY <1>7, <1>12
  <2>2. ASSUME cmd'[c].since = "nothing"
        PROVE  cmd'[c].wanted \cap Ids(Inbox(Owner))' \subseteq cmd'[c].found
    <3>1. cmd[c].since = "nothing" /\ cmd'[c].wanted = cmd[c].wanted
      BY <1>3, <2>2 DEF SameWalk
    <3>2. CASE found = cmd[c].wanted
      BY <1>7, <3>1, <3>2
    <3>3. CASE ~(next < cmd[c].count)
      <4>1. Cardinality(Inbox(Owner)) = cmd[c].count
        BY <1>1, <3>1 DEF Tells
      <4>2. Before(next) = Ids(Inbox(Owner))
        BY <1>1, <3>3, <4>1, Ends
      <4> QED
        BY <1>7, <1>8, <1>9, <3>1, <4>2 DEF Ids
    <3> QED
      BY <1>12, <3>2, <3>3
  <2> QED
    BY <1>10, <2>1, <2>2 DEF FetchOK
<1>13. \A d \in Slot \ {c} : FetchOK(cmd[d])'
  BY <1>3, <1>9, FetchKept DEF CacheOK, Alone, SameFetch, SameList
<1> QED
  BY <1>11, <1>12, <1>13 DEF CacheOK

LEMMA FinishFetchStep ==
    ASSUME ProxyTypeOK, CacheOK, NEW c \in Slot, FinishFetch(c), UNCHANGED mails
    PROVE  CacheOK' /\ FetchReturnsAll'
<1> DEFINE asked == cmd[c].uids
           found == cmd[c].found
<1>1. /\ asked \in SUBSET Uid /\ found \in SUBSET Uid /\ cmd[c].wanted \in SUBSET Uid
      /\ cmd[c].pc = "fetched" /\ FetchOK(cmd[c]) /\ cache \in SUBSET Uid
  BY DEF ProxyTypeOK, CommandType, CacheOK, FinishFetch, Doing
<1>2. cache' \in Kept(cache \cup found) /\ Reply(c, asked, cmd[c].since)
  BY DEF FinishFetch
<1>3. /\ Cardinality(cache \cup found) <= CacheSize => cache' = cache \cup found
      /\ cache \subseteq cache' \/ Cardinality(cache') = CacheSize
      /\ Cardinality(cache) = CacheSize => Cardinality(cache') = CacheSize
  BY <1>1, <1>2, KeptHolds
<1>4. Alone(c) /\ cmd'[c].pc = "idle"
  BY <1>2, FinishEffect DEF Reply
<1>5. CacheOK'
  <2>1. \A d \in Slot \ {c} : FetchOK(cmd[d])'
    BY <1>3, <1>4, FetchKept DEF CacheOK, Alone, SameFetch, SameList
  <2>2. FetchOK(cmd[c])'
    BY <1>4 DEF FetchOK
  <2> QED
    BY <2>1, <2>2 DEF CacheOK
<1>6. /\ answer'.asked = asked /\ answer'.got = asked \cap cache' \cap index
      /\ answer'.complete =>
            /\ cmd[c].since = "nothing" /\ asked \subseteq index \cap Ids(Inbox(Owner))
            /\ Cardinality(asked \cup cache) <= CacheSize
  BY <1>2 DEF Reply
<1>7. ASSUME answer'.complete PROVE asked \subseteq cache'
  <2>1. /\ found \subseteq cmd[c].wanted /\ cmd[c].wanted \subseteq asked
        /\ cmd[c].wanted \subseteq found
        /\ asked \ cmd[c].wanted \subseteq cache \/ Cardinality(cache) = CacheSize
    BY <1>1, <1>6, <1>7 DEF FetchOK
  <2>2. CASE asked \ cmd[c].wanted \subseteq cache
    <3>1. cache \cup found = asked \cup cache
      BY <2>1, <2>2
    <3> QED
      BY <1>3, <1>6, <1>7, <3>1
  <2>3. CASE Cardinality(cache) = CacheSize
    <3>1. IsFiniteSet(asked \cup cache) /\ Cardinality(asked \cup cache) \in Nat
      BY <1>1, UidsFinite
    <3>2. Cardinality(cache) <= Cardinality(asked \cup cache)
          /\ (Cardinality(cache) = Cardinality(asked \cup cache) => cache = asked \cup cache)
      BY <3>1, FS_Subset
    <3>3. asked \cup cache = cache
      BY <1>6, <1>7, <2>3, <3>1, <3>2, ImapMailboxAssumption
    <3>4. cache \cup found = cache
      BY <2>1, <3>3
    <3>5. Cardinality(cache) <= CacheSize
      BY <1>6, <1>7, <3>3
    <3>6. cache' = cache
      BY <1>3, <3>4, <3>5
    <3> QED
      BY <3>3, <3>6
  <2> QED
    BY <2>1, <2>2, <2>3
<1>8. FetchReturnsAll'
  BY <1>6, <1>7 DEF FetchReturnsAll
<1> QED
  BY <1>5, <1>8

LEMMA CacheStep ==
    ASSUME ProxyTypeOK, IndexOK, CacheOK, FetchReturnsAll, [ProxyNext]_proxyVars
    PROVE  CacheOK' /\ FetchReturnsAll'
<1>1. CASE UNCHANGED <<mails, cmd, cache, answer>>
  <2>1. Inbox(Owner)' = Inbox(Owner)
    BY <1>1 DEF Inbox
  <2> QED
    BY <1>1, <2>1 DEF CacheOK, FetchOK, Before, Rank, Ids, FetchReturnsAll
<1>2. ASSUME answer' = NoAnswer PROVE FetchReturnsAll'
  BY <1>2 DEF NoAnswer, FetchReturnsAll
<1>3. ASSUME StoreElsewhere PROVE CacheOK'
  <2>1. UNCHANGED <<mails, cache>> /\ \A d \in Slot : SameFetch(d)
    BY <1>3, ElsewhereEffect DEF StoreElsewhere, tableVars, Later, SameFetch, SameList
  <2> QED
    BY <2>1, FetchKept DEF CacheOK
<1>4. ASSUME Backend PROVE CacheOK'
  <2>1. cache' = cache /\ \A d \in Slot :
           /\ cmd'[d].pc = cmd[d].pc /\ cmd'[d].count = cmd[d].count
           /\ cmd'[d].offset = cmd[d].offset /\ cmd'[d].found = cmd[d].found
           /\ cmd'[d].uids = cmd[d].uids /\ cmd'[d].wanted = cmd[d].wanted
           /\ cmd'[d].since = IF Counts(d) THEN Befallen(cmd[d].since) ELSE cmd[d].since
    BY <1>4, BackendEffect DEF Backend
  <2>2. ASSUME NEW d \in Slot, cmd[d].pc \in {"fetch", "fetched"} PROVE FetchOK(cmd[d])'
    <3>1. FetchOK(cmd[d])
      BY DEF CacheOK
    <3>2. cmd'[d].since = "nothing" => cmd[d].since = "nothing" /\ Inbox(Owner)' = Inbox(Owner)
      BY <2>1, <2>2, NothingBefell DEF Counts
    <3>3. CASE cmd'[d].since = "nothing"
      BY <2>1, <3>1, <3>2, <3>3 DEF FetchOK, Before, Rank, Ids
    <3>4. CASE cmd'[d].since # "nothing"
      BY <2>1, <3>1, <3>4 DEF FetchOK
    <3> QED
      BY <3>3, <3>4
  <2>3. ASSUME NEW d \in Slot, cmd[d].pc \notin {"fetch", "fetched"} PROVE FetchOK(cmd[d])'
    BY <2>1, <2>3 DEF FetchOK
  <2> QED
    BY <2>2, <2>3 DEF CacheOK
<1>5. ASSUME NEW c \in Slot, Fetching(c) PROVE CacheOK' /\ FetchReturnsAll'
  <2>1. UNCHANGED mails
    BY <1>5, CommandLeaves
  <2> QED
    BY <1>5, <2>1, BeginFetchStep, FinishFetchStep DEF Fetching
<1>6. ASSUME NEW c \in Slot, Other(c) PROVE CacheOK'
  <2>1. UNCHANGED mails
    BY <1>6, CommandLeaves
  <2>2. CASE cache' = cache /\ Alone(c) /\ cmd'[c].pc \notin {"fetch", "fetched"}
    BY <2>1, <2>2, CacheKept DEF Alone, SameFetch, SameList
  <2>3. ASSUME NEW op, Begin(c, op) PROVE CacheOK'
    BY <2>2, <2>3, BeginEffect DEF Begin
  <2>4. CASE CountMails(c)
    BY <2>2, <2>4, CountEffect DEF CountMails
  <2>5. CASE Compare(c)
    BY <2>2, <2>5, GoOnEffect DEF Compare
  <2>6. CASE Counted(c)
    BY <2>2, <2>6, GoOnEffect, CountedEffect DEF Counted
  <2>7. CASE ReadPage(c)
    BY <2>2, <2>7, ReadPageEffect DEF ReadPage
  <2>8. CASE Install(c)
    BY <2>2, <2>8, GoOnEffect DEF Install
  <2>9. CASE ReadFlags(c)
    BY <2>2, <2>9, ReadFlagsEffect DEF ReadFlags
  <2>10. CASE CopyFlags(c)
    BY <2>2, <2>10, GoOnEffect DEF CopyFlags
  <2>11. CASE Answer(c) \/ Fail(c) \/ CopyStored(c)
    BY <2>2, <2>11, FinishEffect DEF Answer, Fail, CopyStored
  <2>12. CASE AskStore(c)
    BY <2>2, <2>12, AskStoreEffect DEF AskStore
  <2>13. CASE StoreFlags(c)
    <3>1. cache' = cache /\ cmd'[c].pc = "stored" /\ \A d \in Slot \ {c} : SameFetch(d)
      BY <2>13, StoreEffect DEF StoreFlags, Later, SameFetch, SameList
    <3> QED
      BY <2>1, <3>1, CacheKept
  <2>14. CASE FetchNext(c)
    BY <2>1, <2>14, FetchNextStep
  <2> QED
    BY <1>6, <2>3, <2>4, <2>5, <2>6, <2>7, <2>8, <2>9, <2>10, <2>11, <2>12, <2>13, <2>14 DEF Other
<1> QED
  BY <1>1, <1>2, <1>3, <1>4, <1>5, <1>6 DEF ProxyNext, proxyVars, tableVars, sessionVars

LEMMA ProxyInvStep == ProxyInv /\ [ProxyNext]_proxyVars => ProxyInv'
  BY ProxyTypeStep, KnownStep, NoStoreLostStep, ShownStep, IndexStep, CacheStep DEF ProxyInv

-----------------------------------------------------------------------------
(* A session whose index lacks a mail finds out at the next FETCH or       *)
(* STATUS, however its commands overlap (imap_mailbox.py:288), unless      *)
(* mails were deleted since the number of mails was read, or number and    *)
(* index are not of one rebuild: one is under way, has failed or has       *)
(* overlapped with another (imap_mailbox.py:127, 155, 289).                *)
THEOREM StaleNoticed == ProxySpec => []StaleIsNoticed
<1>1. ProxyInv => StaleIsNoticed
  <2> SUFFICES ASSUME ProxyInv, built, unmatched = None, changes # "deletion",
                      index # Ids(Inbox(Owner))
               PROVE  count # Cardinality(Inbox(Owner))
    BY DEF StaleIsNoticed
  <2>1. Tells(count, changes) /\ changes # "nothing"
    BY DEF ProxyInv, IndexOK
  <2>2. count \in Nat /\ Cardinality(Inbox(Owner)) \in Nat
    BY InboxFinite DEF ProxyInv, ProxyTypeOK
  <2>3. Cardinality(Inbox(Owner)) > count
    BY <2>1 DEF Tells
  <2> QED
    BY <2>2, <2>3
<1> QED
  BY <1>1, ProxyInvInit, ProxyInvStep, PTL DEF ProxySpec

(* A FETCH of a mailbox that does not change returns every message asked   *)
(* for, whatever other commands fetch meanwhile, provided the messages and *)
(* what is cached by then fit into the cache (imap_mailbox.py:214).        *)
THEOREM FetchComplete == ProxySpec => []FetchReturnsAll
<1>1. ProxyInv => FetchReturnsAll
  BY DEF ProxyInv
<1> QED
  BY <1>1, ProxyInvInit, ProxyInvStep, PTL DEF ProxySpec

(* However the STOREs of sessions and of one session interleave, a flag    *)
(* that a client added and none took away since is there                   *)
(* (flag_store.py:87).                                                     *)
THEOREM NoFlagLost == ProxySpec => []NoStoreLost
<1>1. ProxyInv => NoStoreLost
  BY DEF ProxyInv
<1> QED
  BY <1>1, ProxyInvInit, ProxyInvStep, PTL DEF ProxySpec

(* When no command is under way the copy of a message's flags is what is   *)
(* stored, unless another session stored to it since, or an answer read    *)
(* before a STORE to it was used after it, or the mailbox was empty        *)
(* (imap_mailbox.py:133, 159-161, 338-340).                                *)
THEOREM ShowsFlags == ProxySpec => []ShowsStored
<1>1. ProxyInv => ShowsStored
  <2> SUFFICES ASSUME ProxyInv, \A c \in Slot : Doing(c, "idle"), NEW u \in index \ behind
               PROVE  flags[u] = persisted[u]
    BY DEF ShowsStored
  <2>1. ~OnItsWay(u) /\ u \in Uid
    BY DEF OnItsWay, Doing, ProxyInv, ProxyTypeOK
  <2> QED
    BY <2>1 DEF ProxyInv, ShownOK
<1> QED
  BY <1>1, ProxyInvInit, ProxyInvStep, PTL DEF ProxySpec

(* A mail whose id is new has no flags: a STORE reaches no further than    *)
(* the messages the session knows (imap_mailbox.py:196-209).               *)
THEOREM NewUnseen == ProxySpec => []NewIsUnseen
<1>1. ProxyInv => NewIsUnseen
  BY DEF ProxyInv, KnownOK
<1> QED
  BY <1>1, ProxyInvInit, ProxyInvStep, PTL DEF ProxySpec
=============================================================================
