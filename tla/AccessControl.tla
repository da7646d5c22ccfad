---------------------------- MODULE AccessControl ----------------------------
(***************************************************************************)
(* What a request passes before it reaches a handler that is limited       *)
(* (ip_blacklist.ts, worker.ts): the whitelist, the blacklist, and a       *)
(* counter per client and day, kept in the key-value store.  The counter   *)
(* is read, compared and written back in separate calls, and whatever      *)
(* fails lets the request pass.  The next day has a counter of its own.    *)
(***************************************************************************)
EXTENDS Integers, FiniteSets

CONSTANTS
    Visit,        \* concurrent requests
    Client,       \* IP addresses
    Whitelist,    \* the addresses that are trusted, {} for no whitelist
    Blacklist,    \* the addresses that are banned
    DailyLimit,   \* dailyRequestLimit, 0 for none
    MaxCount,     \* bound on the requests counted in a day
    NoClient      \* no address

ASSUME AccessControlAssumption ==
    /\ DailyLimit \in Nat /\ MaxCount \in Nat
    /\ NoClient \notin Client
    /\ IsFiniteSet(Visit)

VARIABLES
    visit,      \* the requests on their way to a handler
    daily,      \* limit|<ip>|<day>
    admitted    \* history: the requests of a client that were counted

accessVars == <<visit, daily, admitted>>

Outside == [pc |-> "out", client |-> NoClient, count |-> 0]

AccessType ==
    /\ visit \in [Visit -> [pc: {"out", "read", "write", "in"},
                            client: Client \cup {NoClient}, count: 0..DailyLimit]]
    /\ daily \in [Client -> 0..DailyLimit]
    /\ admitted \in [Client -> 0..MaxCount]

AccessInit ==
    /\ visit = [v \in Visit |-> Outside]
    /\ daily = [i \in Client |-> 0]
    /\ admitted = [i \in Client |-> 0]

-----------------------------------------------------------------------------
(* checkIpWhitelist, checkIpAsnBlacklist: a hit in the whitelist skips the *)
(* blacklist; a whitelist that is not empty refuses everybody else.        *)
LetsIn(i) == IF Whitelist = {} THEN i \notin Blacklist ELSE i \in Whitelist

Inside(v) == visit[v].pc = "in"

(* A request of a client that is not refused; the settings may not be read. *)
Arrive(v, i) ==
    /\ visit[v].pc = "out"
    /\ \/ LetsIn(i) /\ visit' = [visit EXCEPT ![v] =
              [pc |-> IF DailyLimit = 0 THEN "in" ELSE "read", client |-> i, count |-> 0]]
       \/ visit' = [visit EXCEPT ![v] = [pc |-> "in", client |-> i, count |-> 0]]
    /\ UNCHANGED <<daily, admitted>>

(* Mutant: the comparison is off by one. *)
ReadCountPassed(v) ==
    LET i == visit[v].client IN
    /\ visit[v].pc = "read"
    /\ visit' = [visit EXCEPT ![v] =
           IF daily[i] > DailyLimit THEN Outside ELSE [@ EXCEPT !.pc = "write", !.count = daily[i]]]
    /\ UNCHANGED <<daily, admitted>>

(* checkDailyLimit *)
ReadCount(v) ==
    LET i == visit[v].client IN
    /\ visit[v].pc = "read"
    /\ visit' = [visit EXCEPT ![v] =
           IF daily[i] >= DailyLimit THEN Outside ELSE [@ EXCEPT !.pc = "write", !.count = daily[i]]]
    /\ UNCHANGED <<daily, admitted>>

WriteCount(v) ==
    LET i == visit[v].client IN
    /\ visit[v].pc = "write"
    /\ admitted[i] < MaxCount
    /\ daily' = [daily EXCEPT ![i] = visit[v].count + 1]
    /\ admitted' = [admitted EXCEPT ![i] = @ + 1]
    /\ visit' = [visit EXCEPT ![v] = [@ EXCEPT !.pc = "in", !.count = 0]]

(* The store cannot be read or written: the request passes uncounted. *)
CountFails(v) ==
    /\ visit[v].pc \in {"read", "write"}
    /\ visit' = [visit EXCEPT ![v] = [@ EXCEPT !.pc = "in", !.count = 0]]
    /\ UNCHANGED <<daily, admitted>>

Leave(v) == visit' = [visit EXCEPT ![v] = Outside]

AccessNext ==
    \E v \in Visit :
        ReadCount(v) \/ WriteCount(v) \/ CountFails(v) \/ \E i \in Client : Arrive(v, i)
=============================================================================
