------------------------------- MODULE SendMail -------------------------------
(***************************************************************************)
(* Sending a mail (sendMail in send_mail_api.ts) with its two guards: the  *)
(* mailbox's balance and the server-wide daily and monthly limits          *)
(* (send_mail_limit_utils.ts).                                             *)
(*                                                                         *)
(* Both guards check first, send, and account afterwards, in separate      *)
(* database calls; an error while accounting is logged and swallowed.  So  *)
(* concurrent sends can pass a guard together.  Each action is one call of *)
(* the handler, up to the next await.                                      *)
(***************************************************************************)
EXTENDS SenderTable, FiniteSetsExt

CONSTANTS
    Job,        \* concurrent runs of sendMail
    Limit,      \* Limit[p]: the configured limit of period p, Unlimited or Off
    Unlimited,  \* -1: counted, never refused
    Off,        \* not enabled: not counted either
    MaxDay,     \* bound on the calendar
    MaxMail,    \* bound on the mails that leave
    MaxFail     \* bound on the checks that fail

Period == {"daily", "monthly"}

ASSUME SendMailAssumption ==
    /\ IsFiniteSet(Job) /\ Job # {}
    /\ Limit \in [Period -> Nat \cup {Unlimited, Off}]
    /\ Unlimited \notin Nat /\ Off \notin Nat /\ Unlimited # Off
    /\ MaxDay \in Nat /\ MaxMail \in Nat /\ MaxFail \in Nat

VARIABLES
    job,      \* the handlers' local state
    clock,    \* the day and the month it is
    count,    \* table settings: the counter rows; a missing row counts 0
    counted,  \* history: the increments of every counter
    passed,   \* history: checks that let a mail pass because they failed
    sent,     \* history: the mails that left
    missed,   \* history: those of them that no daily counter counts
    mailed,   \* history: the mails that cost balance, per mailbox
    unpaid    \* history: those of them whose charge was lost

history == <<counted, passed, sent, missed, mailed, unpaid>>

sendVars == <<job, clock, count, history>>

Time == 0..MaxDay

NotYet == [p \in Period |-> 0]

Resting == [pc |-> "idle", address |-> NoRow, pays |-> FALSE, verified |-> FALSE, key |-> NotYet]

(* Where a run is: before the balance check, before the checks of the      *)
(* limits, before the transport, and then before each write that accounts  *)
(* for the mail.                                                           *)
JobType ==
    [pc: {"idle", "default", "balance", "checkDaily", "checkMonthly", "transport", "keys",
          "countDaily", "countMonthly", "cleanup", "charge"},
     address: Addr \cup {NoRow}, pays: BOOLEAN, verified: BOOLEAN, key: [Period -> Time]]

SendInit ==
    /\ job = [j \in Job |-> Resting]
    /\ clock = NotYet
    /\ count = [p \in Period |-> [t \in Time |-> 0]]
    /\ counted = [p \in Period |-> [t \in Time |-> 0]]
    /\ passed = 0 /\ sent = 0 /\ missed = 0
    /\ mailed = [a \in Addr |-> 0]
    /\ unpaid = [a \in Addr |-> 0]

Proceed(j, pc) == job' = [job EXCEPT ![j].pc = pc]

Finish(j) == job' = [job EXCEPT ![j] = Resting]

-----------------------------------------------------------------------------
(* A request of a mailbox that exists or, with any sender, of the admin.   *)
(* Admins and senders without a limit do not pay.                          *)
Start(j, a, pays) ==
    /\ job[j].pc = "idle"
    /\ pays => a \in mailbox
    /\ job' = [job EXCEPT ![j] = [@ EXCEPT !.address = a, !.pays = pays,
                                           !.pc = IF pays THEN "default" ELSE "checkDaily"]]
    /\ UNCHANGED <<senderVars, clock, count, history>>

EnsureDefault(j) ==
    /\ job[j].pc = "default"
    /\ sender' = WithDefault(job[j].address)
    /\ Proceed(j, "balance")
    /\ UNCHANGED <<mailbox, managed, clock, count, history>>

CheckBalance(j) ==
    /\ job[j].pc = "balance"
    /\ IF MayPay(job[j].address) THEN Proceed(j, "checkDaily") ELSE Finish(j)
    /\ UNCHANGED <<senderVars, clock, count, history>>

(* Mutant: a counter at its limit lets one more pass. *)
Exceeded(p) == Limit[p] \in Nat /\ count[p][clock[p]] > Limit[p]

(* ensureSendMailLimit: one read per enabled period.  A read that fails    *)
(* ends the checks and lets the mail pass.                                 *)
Reached(p) == Limit[p] \in Nat /\ count[p][clock[p]] >= Limit[p]

CheckLimit(j, p) ==
    /\ job[j].pc = IF p = "daily" THEN "checkDaily" ELSE "checkMonthly"
    /\ IF Reached(p) THEN Finish(j)
       ELSE Proceed(j, IF p = "daily" THEN "checkMonthly" ELSE "transport")
    /\ UNCHANGED <<senderVars, clock, count, history>>

CheckFails(j) ==
    /\ job[j].pc \in {"checkDaily", "checkMonthly"}
    /\ Proceed(j, "transport")
    /\ passed < MaxFail
    /\ passed' = passed + 1
    /\ UNCHANGED <<senderVars, clock, count, counted, sent, missed, mailed, unpaid>>

(* The mail goes out through the binding for verified recipients, or       *)
(* through one of the transports that cost balance.                        *)
Transport(j, verified) ==
    LET a == job[j].address IN
    /\ job[j].pc = "transport"
    /\ sent < MaxMail
    /\ sent' = sent + 1
    /\ mailed' = IF job[j].pays /\ ~verified THEN [mailed EXCEPT ![a] = @ + 1] ELSE mailed
    /\ job' = [job EXCEPT ![j] = [@ EXCEPT !.pc = "keys", !.verified = verified]]
    /\ UNCHANGED <<senderVars, clock, count, counted, passed, missed, unpaid>>

(* A refused recipient or content, or a transport that throws *)
Refuse(j) ==
    /\ job[j].pc \in {"checkDaily", "transport"}
    /\ Finish(j)
    /\ UNCHANGED <<senderVars, clock, count, history>>

-----------------------------------------------------------------------------
(* increaseSendMailLimitCount: both keys are made from the clock at once,  *)
(* the writes follow.  An error ends them early.                           *)
AfterCount(j) == IF job[j].pays /\ ~job[j].verified THEN Proceed(j, "charge") ELSE Finish(j)

Enabled(p) == Limit[p] # Off

(* Mutant: mails to verified recipients are not counted. *)
TakeKeysIfPaid(j) ==
    /\ job[j].pc = "keys"
    /\ IF job[j].verified
       THEN AfterCount(j)
       ELSE job' = [job EXCEPT ![j] = [@ EXCEPT !.pc = "countDaily", !.key = clock]]
    /\ UNCHANGED <<senderVars, clock, count, history>>

TakeKeys(j) ==
    /\ job[j].pc = "keys"
    /\ IF \A p \in Period : ~Enabled(p)
       THEN AfterCount(j)
       ELSE job' = [job EXCEPT ![j] = [@ EXCEPT !.pc = "countDaily", !.key = clock]]
    /\ UNCHANGED <<senderVars, clock, count, history>>

Increase(j, p) ==
    /\ job[j].pc = IF p = "daily" THEN "countDaily" ELSE "countMonthly"
    /\ IF Enabled(p)
       THEN /\ count' = [count EXCEPT ![p][job[j].key[p]] = @ + 1]
            /\ counted' = [counted EXCEPT ![p][job[j].key[p]] = @ + 1]
       ELSE UNCHANGED <<count, counted>>
    /\ Proceed(j, IF p = "daily" THEN "countMonthly" ELSE "cleanup")
    /\ UNCHANGED <<senderVars, clock, passed, sent, missed, mailed, unpaid>>

(* Mutant: all rows but the one just counted go. *)
CleanupOthers(j) ==
    /\ job[j].pc = "cleanup"
    /\ count' = [p \in Period |-> [t \in Time |->
                   IF t # job[j].key[p] THEN 0 ELSE count[p][t]]]
    /\ AfterCount(j)
    /\ UNCHANGED <<senderVars, clock, history>>

(* cleanupSendMailLimitCount: the rows of earlier periods go. *)
Cleanup(j) ==
    /\ job[j].pc = "cleanup"
    /\ count' = [p \in Period |-> [t \in Time |->
                   IF t < job[j].key[p] THEN 0 ELSE count[p][t]]]
    /\ AfterCount(j)
    /\ UNCHANGED <<senderVars, clock, history>>

CountFails(j) ==
    /\ job[j].pc \in {"keys", "countDaily", "countMonthly", "cleanup"}
    /\ AfterCount(j)
    /\ missed' = IF job[j].pc \in {"keys", "countDaily"} THEN missed + 1 ELSE missed
    /\ UNCHANGED <<senderVars, clock, count, counted, passed, sent, mailed, unpaid>>

-----------------------------------------------------------------------------
(* UPDATE address_sender SET balance = balance - 1, whatever the row says  *)
(* by now.  What follows only logs the mail in sendbox.                    *)
Charge(j) ==
    LET a == job[j].address IN
    /\ job[j].pc = "charge"
    /\ sender' = IF sender[a] = NoRow THEN sender ELSE [sender EXCEPT ![a].balance = @ - 1]
    /\ Finish(j)
    /\ UNCHANGED <<mailbox, managed, clock, count, history>>

Uncounted(j) == job[j].pc \in {"keys", "countDaily"}

Owing(j) ==
    /\ job[j].pc \in {"keys", "countDaily", "countMonthly", "cleanup", "charge"}
    /\ job[j].pays /\ ~job[j].verified

(* The charge fails and is swallowed, or the request is cancelled. *)
Abandon(j) ==
    LET a == job[j].address IN
    /\ job[j].pc # "idle"
    /\ unpaid' = IF Owing(j) THEN [unpaid EXCEPT ![a] = @ + 1] ELSE unpaid
    /\ missed' = IF Uncounted(j) THEN missed + 1 ELSE missed
    /\ Finish(j)
    /\ UNCHANGED <<senderVars, clock, count, counted, passed, sent, mailed>>

(* Midnight, UTC; on the first of a month a new month begins too. *)
Tick ==
    /\ clock["daily"] < MaxDay
    /\ \E month \in {clock["monthly"], clock["monthly"] + 1} :
         clock' = [daily |-> clock["daily"] + 1, monthly |-> month]
    /\ UNCHANGED <<senderVars, job, count, history>>

SendNext ==
    \/ \E j \in Job, a \in Addr, pays \in BOOLEAN : Start(j, a, pays)
    \/ \E j \in Job, p \in Period : CheckLimit(j, p) \/ Increase(j, p)
    \/ \E j \in Job, verified \in BOOLEAN : Transport(j, verified)
    \/ \E j \in Job : EnsureDefault(j) \/ CheckBalance(j) \/ CheckFails(j) \/ Refuse(j)
                        \/ TakeKeys(j) \/ Cleanup(j) \/ CountFails(j) \/ Charge(j) \/ Abandon(j)
    \/ Tick

SendTypeOK ==
    /\ job \in [Job -> JobType]
    /\ clock \in [Period -> Time]
    /\ count \in [Period -> [Time -> Nat]]
    /\ counted \in [Period -> [Time -> Nat]]
    /\ passed \in Nat /\ sent \in Nat /\ missed \in Nat
    /\ mailed \in [Addr -> Nat] /\ unpaid \in [Addr -> Nat]

-----------------------------------------------------------------------------
(* Sending alone *)
AllVars == <<senderVars, sendVars>>

AllInit == SenderInit /\ SendInit

SendSpec == AllInit /\ [][SendNext \/ (SenderNext /\ UNCHANGED sendVars)]_AllVars

TypeOK == SenderTypeOK /\ SendTypeOK

(* Check and count are apart, so concurrent mails can pass a limit         *)
(* together, and mails checked before midnight count after it.  Still, a   *)
(* limit is never exceeded by more than the other runs that were under way *)
(* and the mails whose check failed (send_mail_limit_utils.ts:128-155).    *)
OvershootBounded ==
    \A p \in Period : Limit[p] \in Nat =>
        count[p][clock[p]] <= Limit[p] + (Cardinality(Job) - 1) + passed

(* The cleanup that every mail runs, also one that took its keys before    *)
(* midnight, never removes the counter of the period that is on            *)
(* (send_mail_limit_utils.ts:109-126).                                     *)
CurrentCountKept ==
    \A p \in Period : count[p][clock[p]] = counted[p][clock[p]]

(* Every mail that left counts towards the daily limit, whoever sent it    *)
(* and through whichever transport, unless its counting failed.  The guide *)
(* (config-send-mail.md): limits "apply to all send channels", and a       *)
(* verified recipient's mail costs nothing but still counts.               *)
EveryMailCounts ==
    Enabled("daily") =>
        sent = MapThenSumSet(LAMBDA t : counted["daily"][t], Time) + missed
                 + Cardinality({j \in Job : Uncounted(j)})

(* Concurrent mails of one mailbox can pass the balance check together and *)
(* overdraw it, but never by more than the runs beyond the first.  A       *)
(* balance an admin wrote can be any number                                *)
(* (send_mail_api.ts:151-158, 216-228).                                    *)
OverdraftBounded ==
    \A a \in Addr : sender[a] # NoRow /\ a \notin managed =>
        sender[a].balance > -Cardinality(Job)
=============================================================================
