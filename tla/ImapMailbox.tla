---------------------------- MODULE ImapMailbox ----------------------------
(***************************************************************************)
(* One session of the IMAP proxy with a mailbox (imap_mailbox.py,          *)
(* imap_server.py): it keeps an index of the mailbox's ids, rebuilds it    *)
(* when the number of mails has changed, and fetches and caches mails.     *)
(* The backend is another process: every call reads one page of a list     *)
(* that mails join and leave meanwhile, and any call may fail.             *)
(*                                                                         *)
(* A client need not wait for an answer before it sends the next command:  *)
(* the commands of a session overlap.  Each runs in the reactor from one   *)
(* call to the next, and what it runs is never interrupted; the answer of  *)
(* a call is read in one step and used by the reactor in a later one,      *)
(* unless only local variables depend on it.                               *)
(*                                                                         *)
(* A message set of a client is resolved to some part of the index.  A     *)
(* fetch that implies \Seen is a STORE and a FETCH.  Which messages the    *)
(* cache makes room by is left open.  Mails that cannot be parsed, which a *)
(* FETCH leaves out, are not modelled.                                     *)
(***************************************************************************)
EXTENDS RawMails, FlagStore

CONSTANTS
    Owner,        \* the mailbox's address
    Slot,         \* as many commands as the session executes at once
    Command,      \* the commands that each of them may be
    IndexPage,    \* batch_size of _build_uid_index
    FetchPage,    \* batch_size of _fetch_and_cache_messages
    CacheSize     \* imap_cache_size

ASSUME ImapMailboxAssumption ==
    /\ Owner \in Name
    /\ Uid = 1..MaxMail
    /\ Command \in [Slot -> SUBSET {"select", "status", "fetch", "search", "store"}]
    /\ None \notin Slot
    /\ {IndexPage, FetchPage, CacheSize} \subseteq Nat \ {0}

VARIABLES
    cmd,        \* the commands under way and their local state
    count,      \* _message_count
    built,      \* _uid_index_built
    index,      \* _uid_index, which is kept sorted
    flags,      \* _flags
    cache,      \* the uids in _cache
    changes,    \* history: what befell the mailbox since count was read
    unmatched,  \* history: None if count and index are of one rebuild, else the
                \* command that replaced only one of them
    answer,     \* history: what the FETCH that just ended asked for and returned
    behind,     \* history: uids whose flags in the copy may be outdated
    top         \* history: the largest id a mail ever had

indexVars == <<count, built, index, changes, unmatched>>
shownVars == <<flags, behind>>
storeVars == <<flagVars, top>>
sessionVars == <<cmd, cache, indexVars, shownVars>>
proxyVars == <<tableVars, sessionVars, answer, storeVars>>

(* then is what a command does with the index: it fetches, stores, or      *)
(* answers.  The others are its local variables: count or total, offset,   *)
(* target_uids, uncached, uid_set or fetched_ids, and the answer of the    *)
(* flag store.  History: since is what befell the mailbox since count was  *)
(* read, late the uids that were stored to since copy was.                 *)
Idle == [pc |-> "idle", then |-> "answer",
         count |-> 0, since |-> "nothing", offset |-> 0, uids |-> {}, wanted |-> {}, found |-> {},
         copy |-> NoFlags, late |-> {}]

NoAnswer == [asked |-> {}, got |-> {}, complete |-> FALSE]

ProxyInit ==
    /\ TableInit
    /\ cmd = [c \in Slot |-> Idle]
    /\ count = 0
    /\ built = FALSE
    /\ index = {}
    /\ flags = NoFlags
    /\ cache = {}
    /\ changes = "nothing"
    /\ unmatched = None
    /\ answer = NoAnswer
    /\ FlagInit
    /\ behind = {}
    /\ top = 0

-----------------------------------------------------------------------------
Ids(S) == {m.id : m \in S}

(* ORDER BY id DESC LIMIT limit OFFSET offset *)
Page(offset, limit) ==
    {m \in Inbox(Owner) :
        Cardinality({n \in Inbox(Owner) : n.id > m.id}) \in offset..(offset + limit - 1)}

Smaller(x, y) == IF x < y THEN x ELSE y

(* Mutant: a full cache is made room in before it is full. *)
KeptEarly(all) ==
    IF Cardinality(all) < CacheSize THEN {all}
    ELSE {S \in SUBSET all : Cardinality(S) = CacheSize - 1}

(* MessageCache.put: what is left of all messages that were put *)
Kept(all) ==
    IF Cardinality(all) <= CacheSize THEN {all}
    ELSE {S \in SUBSET all : Cardinality(S) = CacheSize}

Doing(c, pc) == cmd[c].pc = pc

(* The reactor is at liberty: no command is between the answer of a call   *)
(* and its next call or its end.                                           *)
Free == \A c \in Slot : ~Doing(c, "act")

(* c goes on to pc, where it needs none of its local variables any more. *)
GoOn(c, pc) == cmd' = [cmd EXCEPT ![c] = [Idle EXCEPT !.pc = pc, !.then = cmd[c].then]]

Finish(c) == cmd' = [cmd EXCEPT ![c] = Idle]

(* A command goes by a number of mails, read for it or found in _message_count. *)
Counts(c) == cmd[c].pc \in {"compare", "counted", "index", "install", "fetch", "fetched"}

-----------------------------------------------------------------------------
(* SELECT builds the index, the first command of a session too if it is    *)
(* another one; STATUS and FETCH compare the number of mails.              *)
Begin(c, op) ==
    /\ Free
    /\ Doing(c, "idle")
    /\ cmd' = [cmd EXCEPT ![c] = [Idle EXCEPT
                   !.then = IF op \in {"fetch", "store"} THEN op ELSE "answer",
                   !.pc = IF op = "select" \/ ~built THEN "build"
                          ELSE IF op \in {"search", "store"} THEN "act" ELSE "refresh"]]
    /\ UNCHANGED <<tableVars, cache, indexVars, shownVars, storeVars>>

(* The backend counts the mails, for _refresh_count or _build_uid_index. *)
CountMails(c) ==
    /\ Doing(c, "refresh") \/ Doing(c, "build")
    /\ cmd' = [cmd EXCEPT ![c].pc = IF @ = "refresh" THEN "compare" ELSE "counted",
                          ![c].count = Cardinality(Inbox(Owner)),
                          ![c].since = "nothing"]
    /\ UNCHANGED <<tableVars, cache, indexVars, shownVars, storeVars>>

(* The session goes by the number of mails that c has read. *)
TakeCount(c) ==
    /\ count' = cmd[c].count
    /\ changes' = cmd[c].since

(* A new number is assigned before the index is rebuilt. *)
Compare(c) ==
    /\ Free
    /\ Doing(c, "compare")
    /\ IF cmd[c].count = count
       THEN GoOn(c, "act") /\ UNCHANGED indexVars
       ELSE /\ GoOn(c, "build")
            /\ TakeCount(c)
            /\ unmatched' = c
            /\ UNCHANGED <<built, index>>
    /\ UNCHANGED <<tableVars, cache, shownVars, storeVars>>

Counted(c) ==
    /\ Free
    /\ Doing(c, "counted")
    /\ TakeCount(c)
    /\ IF cmd[c].count = 0
       THEN /\ GoOn(c, "act")
            /\ index' = {} /\ built' = TRUE /\ unmatched' = None
            /\ flags' = NoFlags /\ behind' = {u \in Uid : persisted[u] # {}}
       ELSE /\ cmd' = [cmd EXCEPT ![c].pc = "index"]
            /\ unmatched' = c
            /\ UNCHANGED <<built, index, shownVars>>
    /\ UNCHANGED <<tableVars, cache, storeVars>>

(* Mutant: a page is taken for the last one when the next would be short. *)
ReadPageShort(c) ==
    LET next == cmd[c].offset + IndexPage IN
    /\ Doing(c, "index")
    /\ cmd' = [cmd EXCEPT ![c].pc = IF next + IndexPage <= cmd[c].count THEN @ ELSE "install",
                          ![c].offset = next,
                          ![c].found = @ \cup Ids(Page(cmd[c].offset, IndexPage))]
    /\ UNCHANGED <<tableVars, cache, indexVars, shownVars, storeVars>>

(* _build_uid_index reads page after page. *)
ReadPage(c) ==
    LET limit == Smaller(IndexPage, cmd[c].count - cmd[c].offset)
        next == cmd[c].offset + limit
    IN
    /\ Doing(c, "index")
    /\ cmd' = [cmd EXCEPT ![c].pc = IF next < cmd[c].count THEN @ ELSE "install",
                          ![c].offset = next,
                          ![c].found = @ \cup Ids(Page(cmd[c].offset, limit))]
    /\ UNCHANGED <<tableVars, cache, indexVars, shownVars, storeVars>>

(* The index of c replaces that of a rebuild of another command, whose     *)
(* number of mails may be newer.                                           *)
Install(c) ==
    /\ Free
    /\ Doing(c, "install")
    /\ GoOn(c, "flags")
    /\ index' = cmd[c].found
    /\ built' = TRUE
    /\ unmatched' = CASE unmatched = c -> None
                      [] unmatched = None -> c
                      [] OTHER -> unmatched
    /\ UNCHANGED <<tableVars, cache, count, changes, shownVars, storeVars>>

(* get_all, once the index is built *)
ReadFlags(c) ==
    /\ Doing(c, "flags")
    /\ cmd' = [cmd EXCEPT ![c].pc = "copy", ![c].copy = persisted, ![c].late = {}]
    /\ UNCHANGED <<tableVars, cache, indexVars, shownVars, storeVars>>

(* Mutant: the copy keeps the flags it has. *)
CopyFlagsOnce(c) ==
    /\ Free
    /\ Doing(c, "copy")
    /\ GoOn(c, "act")
    /\ flags' = [u \in Uid |-> IF flags[u] # {} THEN flags[u] ELSE cmd[c].copy[u]]
    /\ behind' = cmd[c].late
    /\ UNCHANGED <<tableVars, cache, indexVars, storeVars>>

CopyFlags(c) ==
    /\ Free
    /\ Doing(c, "copy")
    /\ GoOn(c, "act")
    /\ flags' = cmd[c].copy
    /\ behind' = cmd[c].late
    /\ UNCHANGED <<tableVars, cache, indexVars, storeVars>>

(* SELECT, STATUS and SEARCH answer from the index and the copy of the     *)
(* flags, and so do a STORE and a FETCH that name no message.              *)
Answer(c) ==
    /\ Doing(c, "act")
    /\ Finish(c)
    /\ UNCHANGED <<tableVars, cache, indexVars, shownVars, storeVars>>

-----------------------------------------------------------------------------
(* Mutant: a range is taken for every number in it. *)
NamedNumbers == {lo..hi : lo, hi \in Uid} \ {{}}

(* _resolve_message_set *)
Named == {uids \in SUBSET index : uids # {}}

AskStore(c) ==
    /\ Doing(c, "act")
    /\ cmd[c].then = "store"
    /\ index # {}
    /\ stores < MaxStore
    /\ \E uids \in Named : cmd' = [cmd EXCEPT ![c].pc = "store", ![c].uids = uids]
    /\ UNCHANGED <<tableVars, cache, indexVars, shownVars, storeVars>>

(* The commands whose answer of the flag store is not used yet *)
Copying == {c \in Slot : cmd[c].pc \in {"copy", "stored"}}

(* Mutant: STORE is computed from the session's copy. *)
StoreCopy(uids, F, mode) == UpdateFlags(flags, uids, F, mode)

(* STORE is computed from what is stored now. *)
StoreCurrent(uids, F, mode) == UpdateFlags(persisted, uids, F, mode)

StoreFlags(c) ==
    LET uids == cmd[c].uids IN
    /\ Doing(c, "store")
    /\ \E F \in SUBSET Flag, mode \in Mode : StoreCurrent(uids, F, mode)
    /\ cmd' = [d \in Slot |->
           IF d = c THEN [cmd[c] EXCEPT !.pc = "stored", !.late = {},
                              !.copy = [u \in Uid |-> IF u \in uids THEN persisted'[u] ELSE {}]]
           ELSE IF d \in Copying THEN [cmd[d] EXCEPT !.late = @ \cup uids] ELSE cmd[d]]
    /\ UNCHANGED <<tableVars, cache, indexVars, shownVars, top>>

(* Its result is copied. *)
CopyStored(c) ==
    LET uids == cmd[c].uids IN
    /\ Free
    /\ Doing(c, "stored")
    /\ Finish(c)
    /\ flags' = [u \in Uid |-> IF u \in uids THEN cmd[c].copy[u] ELSE flags[u]]
    /\ behind' = (behind \ uids) \cup (cmd[c].late \cap uids)
    /\ UNCHANGED <<tableVars, cache, indexVars, storeVars>>

-----------------------------------------------------------------------------
(* fetch returns those of the messages asked for that are in the cache and *)
(* still in the index; since is what befell the mailbox since the number   *)
(* of mails was read that c goes by.                                       *)
Reply(c, asked, since) ==
    /\ Finish(c)
    /\ answer' = [asked |-> asked, got |-> asked \cap cache' \cap index,
                  complete |-> /\ since = "nothing"
                               /\ asked \subseteq index \cap Ids(Inbox(Owner))
                               /\ Cardinality(asked \cup cache) <= CacheSize]
    /\ UNCHANGED <<tableVars, indexVars, shownVars, storeVars>>

(* _resolve_message_set, and the messages that are not in the cache.       *)
(* Nothing is read if there are none of them, or no messages.              *)
BeginFetch(c) ==
    /\ Doing(c, "act")
    /\ cmd[c].then = "fetch"
    /\ \E asked \in Named :
          IF asked \subseteq cache \/ count = 0
          THEN cache' = cache /\ Reply(c, asked, changes)
          ELSE /\ cmd' = [cmd EXCEPT ![c].pc = "fetch", ![c].count = count, ![c].since = changes,
                                     ![c].uids = asked, ![c].wanted = asked \ cache]
               /\ UNCHANGED <<tableVars, cache, answer, indexVars, shownVars, storeVars>>

(* _fetch_and_cache_messages walks through the list until it has found     *)
(* all messages it looks for, or as many as there were.                    *)
FetchNext(c) ==
    LET limit == Smaller(FetchPage, cmd[c].count - cmd[c].offset)
        next == cmd[c].offset + limit
        found == cmd[c].found \cup (cmd[c].wanted \cap Ids(Page(cmd[c].offset, limit)))
    IN
    /\ Doing(c, "fetch")
    /\ cmd' = [cmd EXCEPT
           ![c].pc = IF found # cmd[c].wanted /\ next < cmd[c].count THEN @ ELSE "fetched",
           ![c].offset = next,
           ![c].found = found]
    /\ UNCHANGED <<tableVars, cache, indexVars, shownVars, storeVars>>

FinishFetch(c) ==
    /\ Free
    /\ Doing(c, "fetched")
    /\ cache' \in Kept(cache \cup cmd[c].found)
    /\ Reply(c, cmd[c].uids, cmd[c].since)

(* A call of the backend or the store fails, and with it the command. *)
Fail(c) ==
    /\ Free
    /\ cmd[c].pc \in {"refresh", "build", "index", "flags", "store", "fetch"}
    /\ Finish(c)
    /\ UNCHANGED <<tableVars, cache, indexVars, shownVars, storeVars>>

-----------------------------------------------------------------------------
Fetching(c) == BeginFetch(c) \/ FinishFetch(c)

Other(c) ==
    \/ \E op \in Command[c] : Begin(c, op)
    \/ CountMails(c) \/ Compare(c) \/ Counted(c)
    \/ ReadPage(c) \/ Install(c) \/ ReadFlags(c) \/ CopyFlags(c)
    \/ Answer(c) \/ AskStore(c) \/ StoreFlags(c) \/ CopyStored(c)
    \/ FetchNext(c)
    \/ Fail(c)

(* What befell the mailbox, after what did before *)
Befallen(before) ==
    IF ~(Inbox(Owner) \subseteq Inbox(Owner)') \/ before = "deletion" THEN "deletion"
    ELSE IF Inbox(Owner)' = Inbox(Owner) THEN before ELSE "arrival"

(* Mails are deleted and arrive: to the proxy one from outside is like one *)
(* of the system.                                                          *)
Backend ==
    /\ Housekeeping
    /\ changes' = Befallen(changes)
    /\ cmd' = [c \in Slot |->
           IF Counts(c) THEN [cmd[c] EXCEPT !.since = Befallen(@)] ELSE cmd[c]]
    /\ top' = CHOOSE t \in {top} \cup Ids(mails)' : \A u \in {top} \cup Ids(mails)' : u <= t
    /\ UNCHANGED <<cache, count, built, index, unmatched, shownVars, flagVars>>

(* A STORE of another session with the mailbox *)
StoreElsewhere ==
    \E uids \in SUBSET Ids(Inbox(Owner)), F \in SUBSET Flag, mode \in Mode :
        /\ uids # {}
        /\ UpdateFlags(persisted, uids, F, mode)
        /\ behind' = behind \cup uids
        /\ cmd' = [c \in Slot |->
               IF c \in Copying THEN [cmd[c] EXCEPT !.late = @ \cup uids] ELSE cmd[c]]
        /\ UNCHANGED <<tableVars, cache, indexVars, flags, top>>

ProxyNext ==
    \/ \E c \in Slot : Fetching(c)
    \/ /\ answer' = NoAnswer
       /\ (\E c \in Slot : Other(c)) \/ Backend \/ StoreElsewhere

ProxySpec == ProxyInit /\ [][ProxyNext]_proxyVars

-----------------------------------------------------------------------------
(* A session whose index lacks a mail finds out at the next FETCH or       *)
(* STATUS, because the number of mails differs, unless mails were deleted  *)
(* since it was read (imap_mailbox.py:288), or number and index are not of *)
(* one rebuild: a rebuild is under way or failed (imap_mailbox.py:289), or *)
(* two of them overlapped (imap_mailbox.py:127, 155).                      *)
StaleIsNoticed ==
    built /\ unmatched = None /\ changes # "deletion" =>
        \/ index = Ids(Inbox(Owner))
        \/ count # Cardinality(Inbox(Owner))

(* A FETCH of a mailbox that does not change returns every message asked   *)
(* for, in whatever page it is, whatever is cached already and whatever    *)
(* other commands fetch meanwhile, provided the messages and what is       *)
(* cached by then fit into the cache (imap_mailbox.py:214).                *)
FetchReturnsAll == answer.complete => answer.got = answer.asked

(* A flag that a client added, and that no client took away since, is      *)
(* there, whatever the sessions that store flags had read before           *)
(* (flag_store.py:87, imap_mailbox.py:329).                                *)
NoStoreLost == \A u \in Uid : standing[u] \subseteq persisted[u]

(* When no command is under way a session shows the stored flags of every  *)
(* message, including those it stored itself, except of the messages that  *)
(* another session stored to since, or that a STORE of its own was for     *)
(* whose result an answer overtook that had been read earlier: two         *)
(* commands overlapped (imap_mailbox.py:159-161, 338-340).  The copy is    *)
(* emptied when the mailbox is (imap_mailbox.py:133), and then lacks what  *)
(* is stored until it is read again.                                       *)
ShowsStored ==
    (\A c \in Slot : Doing(c, "idle")) /\ built =>
        \A u \in index \ behind : flags[u] = persisted[u]

(* A mail whose id is new has no flags, whatever ranges were stored to     *)
(* (imap_mailbox.py:196-209).  One that got the id of a deleted mail has   *)
(* the flags of that one.                                                  *)
NewIsUnseen == \A u \in Uid : u > top => persisted[u] = {}
=============================================================================
