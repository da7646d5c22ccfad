---------------------------- MODULE MailReceive ----------------------------
(***************************************************************************)
(* The handling of an incoming mail (email/index.ts, forward.ts,           *)
(* storage.ts): filter, store, forward by rules, extract codes, delete the *)
(* original.                                                               *)
(*                                                                         *)
(* A rule whose target is one of the system's own mailboxes runs the whole *)
(* handling once more for the copy, as a nested call that forwards and     *)
(* deletes nothing.  The handling is a stack of at most two frames: the    *)
(* message's, and the one of the copy being delivered.  Each action is one *)
(* call of the handler, up to the next await.                              *)
(*                                                                         *)
(* Telegram, webhooks, other workers and the auto-reply only read the      *)
(* database and swallow their errors: they are time that passes.           *)
(***************************************************************************)
EXTENDS RawMails, Sequences

CONSTANTS
    External,        \* a forwarding target outside the system
    RuleLists        \* the lists of rules that may match a message, in order

Rule == [to: Name \cup {External}, deleteOriginal: BOOLEAN]

ASSUME MailReceiveAssumption ==
    /\ External \notin Name
    /\ \A rules \in RuleLists : rules \in Seq(Rule)

VARIABLE
    job      \* the handlers' local state, one per message

vars == <<tableVars, job>>

(* A call of the handler, before it stores: id is storedMailId, 0 if       *)
(* undefined; own is history: the serial of the row that was inserted,     *)
(* whether or not the handler knows of it.                                 *)
Entry(n) == [pc |-> "store", to |-> n, id |-> 0, own |-> 0, rejected |-> FALSE]

(* What the sender is told in the end, that the mail was accepted, refused *)
(* or failed, is left out.  delivered is history: some rule did deliver    *)
(* the message elsewhere.                                                  *)
NewJob == [state |-> "new", recipient |-> None, delivered |-> FALSE,
           stack |-> <<>>, rules |-> <<>>, deleteOriginal |-> FALSE]

Init ==
    /\ TableInit
    /\ job = [m \in Msg |-> NewJob]

-----------------------------------------------------------------------------
Depth(m) == Len(job[m].stack)
Outer(m) == job[m].stack[1]
Top(m) == job[m].stack[Depth(m)]

(* allowForward *)
MayForward(m) == Depth(m) = 1

(* The handler of m executes the call pc. *)
At(m, pc) == job[m].state = "running" /\ Top(m).pc = pc

(* Replace the frame on top *)
WithTop(m, f) == [job[m] EXCEPT !.stack[Depth(m)] = f]

Goto(m, pc) == job' = [job EXCEPT ![m] = WithTop(m, [Top(m) EXCEPT !.pc = pc])]

End(m) ==
    job' = [job EXCEPT ![m] = [NewJob EXCEPT !.state = "done", !.recipient = job[m].recipient]]

(* The rule has been followed; deleteOriginalResults becomes true if it    *)
(* succeeded and asks for it.  delivered is what really happened.          *)
Followed(m, success, delivered) ==
    LET j == job[m] IN
    job' = [job EXCEPT ![m] =
        [j EXCEPT !.stack = <<[Outer(m) EXCEPT !.pc = "next"]>>,
                  !.rules = Tail(j.rules),
                  !.deleteOriginal = @ \/ (success /\ Head(j.rules).deleteOriginal),
                  !.delivered = @ \/ delivered]]

(* Mutant: only a refusal counts as failure. *)
NotRejected(f) == ~f.rejected

(* forwardToAddress: the copy was stored and not refused. *)
Delivered(f) == f.id # 0 /\ ~f.rejected

(* The nested call returns with the frame f. *)
Return(m, f) == Followed(m, Delivered(f), f.own # 0)

(* setReject and return: the nested call, or the handling as a whole *)
Reject(m) ==
    IF MayForward(m) THEN End(m) ELSE Return(m, [Top(m) EXCEPT !.rejected = TRUE])

-----------------------------------------------------------------------------
Arrive(m, n) ==
    /\ job[m].state = "new"
    /\ job' = [job EXCEPT ![m] = [@ EXCEPT !.state = "running", !.recipient = n,
                                         !.stack = <<Entry(n)>>]]
    /\ UNCHANGED tableVars

(* The black list, the junk check or the look-up of an unknown recipient   *)
(* refuses the message; when they pass it, nothing has changed.  The black *)
(* list may throw: that ends the handling, or the nested call, and         *)
(* forwardToAddress catches it.                                            *)
Filter(m) ==
    /\ At(m, "store")
    /\ \/ Reject(m)
       \/ IF MayForward(m) THEN End(m) ELSE Return(m, Top(m))
    /\ UNCHANGED tableVars

(* storeRawMail succeeds, or is committed although it throws, or throws, or *)
(* reports a failure, which refuses the message but does not stop here.    *)
Store(m) ==
    LET f == Top(m)
        next == IF MayForward(m) THEN "rules" ELSE "extract"
        Continue(id, own, rejected) ==
            job' = [job EXCEPT ![m] = WithTop(m,
                [f EXCEPT !.pc = next, !.id = id, !.own = own, !.rejected = rejected])]
    IN
    /\ At(m, "store")
    /\ \/ /\ Insert(f.to, m)
          /\ Continue(NextId, stored + 1, FALSE) \/ Continue(0, stored + 1, FALSE)
       \/ /\ Continue(0, 0, FALSE) \/ Continue(0, 0, TRUE)
          /\ UNCHANGED <<mails, stored>>

(* forwardByRules reads the rules, which may throw, and follows those that *)
(* match one after the other.                                              *)
ReadRules(m) ==
    /\ At(m, "rules")
    /\ \E rules \in RuleLists \cup {<<>>} :
          job' = [job EXCEPT ![m] = [WithTop(m, [Top(m) EXCEPT !.pc = "next"])
                                       EXCEPT !.rules = rules]]
    /\ UNCHANGED tableVars

(* Mutant: a mailbox may forward to itself. *)
FollowAnyRule(m) ==
    LET to == Head(job[m].rules).to IN
    /\ At(m, "next")
    /\ job[m].rules # <<>>
    /\ \/ to \in Name /\ job' = [job EXCEPT ![m].stack = Append(@, Entry(to))]
       \/ to = External /\ (Followed(m, TRUE, TRUE) \/ Followed(m, FALSE, FALSE))
    /\ UNCHANGED tableVars

(* forwardToAddress: never to the mailbox itself, outside by a call that   *)
(* may fail, inside by a nested call                                       *)
FollowRule(m) ==
    LET to == Head(job[m].rules).to IN
    /\ At(m, "next")
    /\ job[m].rules # <<>>
    /\ \/ to = Outer(m).to /\ Followed(m, FALSE, FALSE)
       \/ to = External /\ (Followed(m, TRUE, TRUE) \/ Followed(m, FALSE, FALSE))
       \/ /\ to \in Name \ {Outer(m).to}
          /\ job' = [job EXCEPT ![m].stack = Append(@, Entry(to))]
    /\ UNCHANGED tableVars

(* Mutant: the row is found by its Message-ID. *)
ShowExtractByMessage(m) ==
    mails' = {IF x.msg = m THEN [x EXCEPT !.meta = Top(m).own] ELSE x : x \in mails}

(* saveExtractMetadata: UPDATE raw_mails ... WHERE id = ? *)
ShowExtract(m) ==
    mails' = {IF x.id = Top(m).id THEN [x EXCEPT !.meta = Top(m).own] ELSE x : x \in mails}

(* No rule is left, or there were none to follow: extractEmailInfo, which  *)
(* may find nothing, be off, or fail; and the notifications                *)
Extract(m) ==
    /\ At(m, "extract") \/ (At(m, "next") /\ job[m].rules = <<>>)
    /\ \/ UNCHANGED mails
       \/ Top(m).id # 0 /\ ShowExtract(m)
    /\ IF MayForward(m) THEN Goto(m, "delete")
       ELSE Return(m, Top(m))
    /\ UNCHANGED stored

(* deleteRawMail, whose errors are swallowed: the end of the handling *)
DeleteOriginal(m) ==
    LET f == Top(m) IN
    /\ At(m, "delete")
    /\ \/ UNCHANGED mails
       \/ /\ job[m].deleteOriginal /\ f.id # 0
          /\ mails' = {x \in mails : ~(x.id = f.id /\ x.address = f.to)}
    /\ End(m)
    /\ UNCHANGED stored

(* The worker is stopped. *)
Cancel(m) ==
    /\ job[m].state = "running"
    /\ End(m)
    /\ UNCHANGED tableVars

-----------------------------------------------------------------------------
Others == Housekeeping /\ UNCHANGED job

Handle(m) ==
    \/ \E n \in Name : Arrive(m, n)
    \/ Filter(m) \/ Store(m)
    \/ ReadRules(m) \/ FollowRule(m)
    \/ Extract(m) \/ DeleteOriginal(m)
    \/ Cancel(m)

Next == Others \/ \E m \in Msg : Handle(m)

Spec == Init /\ [][Next]_vars

-----------------------------------------------------------------------------
(* The mails that the handler of m makes vanish in this step *)
Removed(m) == IF job'[m] = job[m] THEN {} ELSE Serials(mails) \ Serials(mails')

(* A handler deletes no mail unless a rule did deliver the message         *)
(* elsewhere, whatever failed on the way, and while the original is there  *)
(* it deletes nothing but the original (forward.ts:84-92, index.ts:132).   *)
(* Once somebody else has deleted it, its id may belong to a newer mail,   *)
(* which then goes instead (storage.ts:77).                                *)
MailKept ==
    [][\A m \in Msg : Removed(m) # {} =>
          /\ job[m].delivered
          /\ Outer(m).own \in Serials(mails) => Removed(m) = {Outer(m).own}]_vars

(* What was extracted from a mail shows in no other one while it is there, *)
(* be it a copy of the same message.  Once it is deleted, its id may       *)
(* belong to a newer mail, which then shows it (ai_extract.ts:164); an     *)
(* older one never does.                                                   *)
ExtractIsOwn ==
    \A x \in mails :
        \/ x.meta \in {0, x.serial}
        \/ x.meta \notin Serials(mails) /\ x.meta < x.serial

(* Whatever the rules, be they circular, the mailbox a message was sent to *)
(* has it once (forward.ts:62, index.ts:87).                               *)
DeliveredOnce ==
    \A m \in Msg : Cardinality({x \in Inbox(job[m].recipient) : x.msg = m}) <= 1
=============================================================================
