----------------------------- MODULE UserSession -----------------------------
(***************************************************************************)
(* The frontend's session in one tab of a browser (frontend/src/api) and   *)
(* what the worker answers it.  The login and the mailbox credential are   *)
(* in the browser's storage, which all tabs share; the access token, which *)
(* carries the user's role and expires, is in the tab.  A call that is     *)
(* refused because its access token has expired waits for a new one, which *)
(* all calls of that login wait for together, and is sent once more.       *)
(*                                                                         *)
(* Logging in and out in this tab reloads it.  Nothing runs in the tab     *)
(* between the answer of a refresh and the calls that waited for it.       *)
(***************************************************************************)
EXTENDS Naturals, Sequences

CONSTANTS
    Call,        \* calls of the API under way in the tab
    User,        \* users
    Box,         \* mailbox credentials
    None,        \* not logged in
    MaxLogin,    \* bound on the tokens a login has one after the other
    MaxToken     \* bound on the access tokens ever issued

ASSUME UserSessionAssumption == {MaxLogin, MaxToken} \subseteq Nat /\ None \notin User

VARIABLES
    login,       \* userJwt
    box,         \* jwt
    access,      \* userSettings.access_token, 0 for none
    issued,      \* the users of the access tokens issued so far
    expired,     \* the access tokens that have expired
    refresh,     \* pendingRefreshes, by login
    load,        \* getUserSettings
    call         \* apiFetch

session == <<login, box>>
server == <<issued, expired>>
tabVars == <<session, access, server, refresh, load, call>>

(* A login is renewed under another token. *)
Login == [user: User, n: 1..MaxLogin]

Token == 0..MaxToken

(* A call that needs no user is sent again without an access token if no   *)
(* new one can be had.                                                     *)
Kind == {"mailbox", "user"}

CallType == [pc: {"idle", "sent", "refused", "wait", "resent"},
             kind: Kind, login: Login \cup {None}, box: Box, access: Token]

FetchType == [pc: {"idle", "sent", "served", "renew"}, login: Login \cup {None}, token: Token]

NoFetch == [pc |-> "idle", login |-> None, token |-> 0]

NoCall == [pc |-> "idle", kind |-> "user", login |-> None, box |-> CHOOSE b \in Box : TRUE,
         access |-> 0]

TabInit ==
    /\ login \in Login \cup {None}
    /\ box \in Box
    /\ access = 0
    /\ issued = <<>>
    /\ expired = {}
    /\ refresh = [l \in Login |-> NoFetch]
    /\ load = NoFetch
    /\ call = [c \in Call |-> NoCall]

-----------------------------------------------------------------------------
(* The worker's settings for l: an access token if the user has a role. *)
Settings(l, token) ==
    \/ /\ Len(issued) < MaxToken
       /\ issued' = Append(issued, l.user)
       /\ token = Len(issued) + 1
    \/ token = 0 /\ UNCHANGED issued

(* apiFetch takes the credentials it finds. *)
Send(c, kind) ==
    /\ call[c].pc = "idle"
    /\ kind = "user" => login # None
    /\ call' = [call EXCEPT ![c] = [pc |-> "sent", kind |-> kind,
                                    login |-> login, box |-> box, access |-> access]]
    /\ UNCHANGED <<session, access, server, refresh, load>>

(* The worker refuses a token that has expired, for the first time with a  *)
(* call that is handled below; everything else ends the call.              *)
Serve(c) ==
    /\ call[c].pc \in {"sent", "resent"}
    /\ call' = [call EXCEPT ![c] =
           IF @.pc = "sent" /\ @.access \in expired THEN [@ EXCEPT !.pc = "refused"] ELSE NoCall]
    /\ UNCHANGED <<session, access, server, refresh, load>>

(* The network fails. *)
Lose(c) ==
    /\ call[c].pc \in {"sent", "resent"}
    /\ call' = [call EXCEPT ![c] = NoCall]
    /\ UNCHANGED <<session, access, server, refresh, load>>

IsCurrentSession(c) == call[c].login = login /\ call[c].box = box

Resent(c, token) == [call[c] EXCEPT !.pc = "resent", !.access = token]

(* matches *)
Matches(c) == IsCurrentSession(c) /\ (call[c].login # None \/ call[c].kind = "mailbox")

(* Not a call of this session: it fails as it was refused. *)
GiveUp(c) ==
    /\ call[c].pc = "refused"
    /\ ~Matches(c)
    /\ call' = [call EXCEPT ![c] = NoCall]
    /\ UNCHANGED <<session, access, server, refresh, load>>

(* Mutant: the token is not compared. *)
Replaced(c) == FALSE

(* Another call has had the token replaced already. *)
IsReplaced(c) == access # call[c].access

(* resolveAccessToken, when there is nothing to wait for *)
SendAgain(c) ==
    /\ call[c].pc = "refused"
    /\ Matches(c)
    /\ call[c].login = None \/ IsReplaced(c)
    /\ call' = [call EXCEPT ![c] = Resent(c, IF @.login = None THEN 0 ELSE access)]
    /\ UNCHANGED <<session, access, server, refresh, load>>

(* refreshUserSettings, which starts a refresh if none is pending *)
Wait(c) ==
    LET l == call[c].login IN
    /\ call[c].pc = "refused"
    /\ Matches(c)
    /\ l # None /\ ~IsReplaced(c)
    /\ call' = [call EXCEPT ![c].pc = "wait"]
    /\ refresh' = IF refresh[l].pc # "idle" THEN refresh
                  ELSE [refresh EXCEPT ![l] = [pc |-> "sent", login |-> l, token |-> 0]]
    /\ UNCHANGED <<session, access, server, load>>

ServeRefresh(l) ==
    /\ refresh[l].pc = "sent"
    /\ \E token \in Token :
          /\ Settings(l, token)
          /\ refresh' = [refresh EXCEPT ![l].pc = "served", ![l].token = token]
    /\ UNCHANGED <<session, access, expired, load, call>>

(* Mutant: only one of the calls that wait is resumed. *)
WaitingFirst(l) ==
    LET W == {c \in Call : call[c].pc = "wait" /\ call[c].login = l} IN
    IF W = {} THEN {} ELSE {CHOOSE c \in W : TRUE}

Waiting(l) == {c \in Call : call[c].pc = "wait" /\ call[c].login = l}

(* Mutant: the session is not compared again. *)
ResumedAnyway(c, token) == Resent(c, token)

(* handle, after the refresh *)
Resumed(c, token) == IF IsCurrentSession(c) THEN Resent(c, token) ELSE NoCall

(* loadUserSettings keeps the token if the login is still the same. *)
Refreshed(l) ==
    /\ refresh[l].pc = "served"
    /\ access' = IF login = l THEN refresh[l].token ELSE access
    /\ call' = [c \in Call |-> IF c \in Waiting(l) THEN Resumed(c, access') ELSE call[c]]
    /\ refresh' = [refresh EXCEPT ![l] = NoFetch]
    /\ UNCHANGED <<session, server, load>>

(* The refresh fails, and with it the calls that need a user. *)
RefreshFails(l) ==
    /\ refresh[l].pc # "idle"
    /\ call' = [c \in Call |->
           IF c \notin Waiting(l) THEN call[c]
           ELSE IF call[c].kind = "mailbox" THEN Resumed(c, 0) ELSE NoCall]
    /\ refresh' = [refresh EXCEPT ![l] = NoFetch]
    /\ UNCHANGED <<session, access, server, load>>

-----------------------------------------------------------------------------
(* getUserSettings: at the start of a page, and when a role was redeemed *)
StartLoad ==
    /\ load.pc = "idle"
    /\ login # None
    /\ load' = [pc |-> "sent", login |-> login, token |-> 0]
    /\ UNCHANGED <<session, access, server, refresh, call>>

ServeLoad ==
    /\ load.pc = "sent"
    /\ \E token \in Token :
          Settings(load.login, token) /\ load' = [load EXCEPT !.pc = "served", !.token = token]
    /\ UNCHANGED <<session, access, expired, refresh, call>>

(* The token is kept whoever is logged in now; a login about to expire is  *)
(* renewed.                                                                *)
Loaded ==
    /\ load.pc = "served"
    /\ access' = load.token
    /\ load' \in {NoFetch, [load EXCEPT !.pc = "renew"]}
    /\ UNCHANGED <<session, server, refresh, call>>

(* The new login is tried out, then stored. *)
Renew ==
    /\ load.pc = "renew"
    /\ login' \in {l \in Login : l.user = load.login.user}
    /\ load' = NoFetch
    /\ UNCHANGED <<box, access, server, refresh, call>>

LoadFails ==
    /\ load.pc # "idle"
    /\ load' = NoFetch
    /\ UNCHANGED <<session, access, server, refresh, call>>

(* Another tab logs in or out, or takes another mailbox. *)
OtherTab ==
    /\ \/ login' \in Login \cup {None} /\ UNCHANGED box
       \/ box' \in Box /\ UNCHANGED login
    /\ UNCHANGED <<access, server, refresh, load, call>>

(* This tab does, and reloads. *)
Reload ==
    /\ \/ login' \in Login \cup {None} /\ UNCHANGED box
       \/ box' \in Box /\ UNCHANGED login
    /\ access' = 0
    /\ refresh' = [l \in Login |-> NoFetch]
    /\ load' = NoFetch
    /\ call' = [c \in Call |-> NoCall]
    /\ UNCHANGED server

ExpireToken(t) ==
    /\ t \in 1..Len(issued) \ expired
    /\ expired' = expired \cup {t}
    /\ UNCHANGED <<session, access, issued, refresh, load, call>>

-----------------------------------------------------------------------------
Progress ==
    \/ \E c \in Call : Serve(c) \/ Lose(c) \/ GiveUp(c) \/ SendAgain(c) \/ Wait(c)
    \/ \E l \in Login : ServeRefresh(l) \/ Refreshed(l) \/ RefreshFails(l)

TabNext ==
    \/ \E c \in Call, kind \in Kind : Send(c, kind)
    \/ Progress
    \/ StartLoad \/ ServeLoad \/ Loaded \/ Renew \/ LoadFails
    \/ OtherTab \/ Reload
    \/ \E t \in Token : ExpireToken(t)

(* Every request is answered or fails, and the tab handles what it gets.   *)
(* Nothing is assumed of the users and the clock.                          *)
Fairness ==
    /\ \A c \in Call : WF_tabVars(Serve(c)) /\ WF_tabVars(GiveUp(c) \/ SendAgain(c) \/ Wait(c))
    /\ \A l \in Login : WF_tabVars(ServeRefresh(l) \/ Refreshed(l) \/ RefreshFails(l))

TabSpec == TabInit /\ [][TabNext]_tabVars /\ Fairness

-----------------------------------------------------------------------------
TabTypeOK ==
    /\ login \in Login \cup {None}
    /\ box \in Box
    /\ access \in Token
    /\ issued \in Seq(User) /\ Len(issued) <= MaxToken
    /\ expired \subseteq Token
    /\ refresh \in [Login -> FetchType]
    /\ load \in FetchType
    /\ call \in [Call -> CallType]

(* Calls that were refused together or late share one refresh: one that    *)
(* comes back after the token was replaced takes the new one, and no       *)
(* refresh is started for a token that is still good                       *)
(* (user-access-token-interceptor.js:40-62).                               *)
OnlyExpiredRefreshed ==
    [][\A l \in Login :
          refresh[l].pc = "idle" /\ refresh'[l].pc = "sent" => access \in expired]_tabVars

(* A call is only sent again for the login and the mailbox it was made     *)
(* for, while they are still the ones of the browser, although both may    *)
(* have changed while it waited (user-access-token-interceptor.js:67-75).  *)
RetryIsCurrent ==
    [][\A c \in Call :
          call[c].pc # "resent" /\ call'[c].pc = "resent" =>
              call'[c].login = login /\ call'[c].box = box]_tabVars

(* No call waits for ever for a refresh another one started, whatever      *)
(* becomes of that one (user-access-token-interceptor.js:43-53).           *)
CallsEnd == \A c \in Call : call[c].pc # "idle" ~> call[c].pc = "idle"
=============================================================================
