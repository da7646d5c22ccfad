# A verified model of cloudflare_temp_email

TLA+ modules that model the temporary-mail worker, TLC runs that check them on
small instances, and TLAPS proofs for every size. Paths below are relative to
the repository; `worker/` stands for `worker/src/`.

## 1. The system

One worker serves an HTTP API and an incoming-mail hook over a SQL database
(D1), a key-value store, and mail transports. Every handler is an async
function that may be interleaved with any other at each `await`, may be
cancelled there (client gone, isolate evicted), and has no transaction except
what it passes to `DB.batch`. There is no lock anywhere. What goes wrong in
such a program goes wrong between two database calls, and that is the
granularity of the modules: **one action is one database call of a handler, up
to the next await**.

### Inventory

| Component | State | Operations | What is hard |
|---|---|---|---|
| Redemption codes (`worker/redeem_api`) | `redeem_codes` | create, edit, delete codes; redeem a role, credits or a mailbox; query a result | two requests per code, admin edits in between, hand-written compensation, reservation inside a transaction |
| Send balance (`mails_api/send_balance.ts`, `admin_api/address_sender_api.ts`) | `address_sender` | default balance, access request, admin edit/removal, redemption, charge | five writers of one row, lost updates, a disabled row that must stay disabled |
| Sending mail (`mails_api/send_mail_api.ts`, `send_mail_limit_utils.ts`) | counters in `settings` | check balance, check limits, send, count, clean up, charge | check-then-act across four calls, midnight, swallowed errors |
| Mailbox creation and deletion (`common.ts`, `admin_api/address_api.ts`, `scheduled.ts`) | `address` and the rows of a mailbox in six tables | newAddress, three different deletions, nightly cleanup | deletions that are not transactions, id read back by name |
| Binding mailboxes to users (`user_api/bind_address.ts`) | `users_address` | bind, unbind, transfer | quota check before insert; a transfer deletes and recreates the mailbox |
| Address credentials (`address_auth.ts`) | none: a signed (id, name) pair | verify, login | a name comes back under another id |
| User accounts and roles (`user_api`, `admin_api/admin_user_api.ts`) | `users`, `user_roles`, codes in the key-value store | register, verify, login, OAuth2, passkeys, deletion, roles | ids that come back, reusable codes |
| Receiving mail (`worker/email`) | `raw_mails` | filter, store, forward, auto-reply, notify | a pipeline in which every stage may fail |
| Telegram bindings (`telegram_api`) | two key-value entries per binding | bind, unbind, delete | read-modify-write of a JSON list, two entries that must agree |
| Access control (`ip_blacklist.ts`) | a counter per address and day | check, count | read-modify-write |
| Settings, migration, webhooks, attachments, AI extraction | single rows and keys | whole-value reads and writes | little |
| Frontend session (`frontend/src/api`) | login, mailbox credential, access token, pending refreshes | send, refresh once for all calls, send again | calls that come back late, other tabs that change the login meanwhile |
| IMAP proxy (`smtp_proxy_server`) | UID index, cache, flags on disk | build, refresh, fetch, store flags | numbering over a backend that changes while it is paged; commands that overlap; sessions that share the flags |
| SMTP proxy, mail parser, frontend views | none of their own | translation, display | out of scope |

Interaction: all of them meet in the database. A mailbox is created by
`newAddress` on behalf of users, admins, Telegram and redemptions; deletions
touch balances, bindings and mails; redemptions write roles and balances that
sending and the admin write too.

### What makes each part correct

These are the aims; section 4 lists where the code falls short of them, and each
property names these cases as its exceptions.

- A code is worth one grant, of what it was worth when it was granted, and
  everyone who asks is told of the same grant. A refusal uses up nothing, and a
  request that runs to its end leaves nothing behind.
- A balance is the default plus the redeemed credits minus the mails paid for.
- Every mail counts; limits and quotas can be overshot by concurrent requests,
  but only by as many as are concurrent.
- A transfer that runs to its end does not lose the mailbox, and it hands over
  its own unless that was deleted meanwhile; nobody inherits the mailboxes of a
  deleted user.
- The proxy notices that its index lacks a mail, unless mails were deleted or
  rebuilds failed or overlapped; a fetch returns what was asked for, although it
  reads a changing list page by page, if it fits into the cache.
- A flag a client added stays until a client takes it away, whatever other
  sessions store; a session shows the flags it stored, unless an answer read
  earlier overtook its command; a mail with a new id has none.
- A deleted mailbox leaves its successor of the same name nothing, and a cleanup
  takes no mailbox that came into use.
- A mailbox is pushed to a chat that has it on its list, and never, because of an
  old binding, to a chat of an earlier owner of the name.
- Only the reader of an email and the admin replace the password of its account;
  a mailed code stays good; a client's requests in a day are bounded.
- A tab refreshes an expired access token once, sends nothing again for a login
  that is no longer there, and leaves no call waiting.
- A mail is deleted after forwarding only if it was delivered; whatever the
  rules, its mailbox has it once; and the code it shows was extracted from it, or
  from a deleted mail whose id it was given.

## 2. The modules

| Module | Models | State and actions |
|---|---|---|
| `OneTimeGrant` | the abstract promise of a code | `offer`, `grant`; `Manage`, `Grant` |
| `RedeemCodeTable` | `redeem_codes` and its admin handlers | `codes`; `CreateCodes`, `UpdateCode`, `DeleteCode`, `ExpireCode`; the shared WHERE clauses `Live`, `Claimable` |
| `RedeemAddress` | `redeemAddress`, the result query | `address`, `req`; one action per call: `Lookup`, `InsertAddress`, `SelectId`, `Claim`, `Undo`, `Reread`, `Verify`, their failures, and the other handlers that write `address` |
| `RedeemRole` | `redeemRole`, writers of `user_roles` | `users`, `roles`, `req`; the four statements of the transaction are operators (`Reserve`, `WriteRole`, `Mark`, `Release`) composed in `Redeem` |
| `SenderTable` | `address_sender` and its writers | `sender`, `mailbox` |
| `RedeemBalance` | `redeemSendBalance` | extends the two tables; `Mark`, `Credit` composed in `Redeem` |
| `SendMail` | `sendMail` with balance and limits | `job`, `clock`, `count`; check, send, count, clean up, charge |
| `SendCredits` | redeeming and spending together | composes `RedeemBalance` and `SendMail` |
| `RawMails` | `raw_mails` and what deletes from it | `mails`; `Insert`, `DeleteMail`, `ClearInbox`, `CleanMails`, `CleanUnknown`, `SendAdminInternalMail` |
| `MailReceive` | `receiveEmail`, `forwardEmail`, `deleteRawMail` | extends `RawMails`; `job[m]` holds a stack of at most two frames, the message's handling and the nested one of an internal copy |
| `FlagStore` | `flag_store.py`, the flags that all sessions share | `persisted`; `UpdateFlags` |
| `ImapMailbox` | one IMAP session's view of a mailbox (`SimpleMailbox`) with the commands that overlap in it, and the stores of the other sessions | extends `RawMails` and `FlagStore`; shared by the commands: `count`, `built`, `index`, `flags`, `cache`; `cmd[c]` has the local variables of each; `Begin`, `CountMails`, `Compare`, `Counted`, `ReadPage`, `Install`, `ReadFlags`, `CopyFlags`, `AskStore`, `StoreFlags`, `CopyStored`, `BeginFetch`, `FetchNext`, `FinishFetch`, `Answer`, `Fail` |
| `MailboxData` | a mailbox and its rows in five tables, the three deletions, what adds rows | `address`, `rows`, `task`; `Wipe` (`deleteAddressWithData`, one statement), `Clean` (`batchDeleteAddressWithData`, one statement), the admin's transaction, mails, balances, bindings, auto-replies, logins |
| `TelegramBinding` | `telegram_api/common.ts` and its callers | `list` (a set of entries; `copy` tells two of one mailbox apart), `entry`, `address`, `task`; bind, new, unbind, delete, cleanup, one action per call of the store |
| `AccessControl` | `ip_blacklist.ts` | `visit`, `daily`; `Arrive`, `ReadCount`, `WriteCount`, `CountFails` |
| `UserAccounts` | codes, registration, OAuth2, admin edits of accounts | extends `AccessControl`; `users`, `code`, `mailed`, `req`; one action per call |
| `UserSession` | the API client and the access-token interceptor of one tab, and the worker's answers | `login`, `box`, `access`, `refresh`, `call`; `Send`, `Serve`, `Wait`, `SendAgain`, `GiveUp`, `Refreshed`, the other tabs |
| `AddressBinding` | bind, unbind, transfer, the deletions of mailboxes and users | `address`, `users`, `bound`, `task`; one action per call |
| `RedeemCodeTableProofs`, `RedeemAddressProofs`, `RedeemRoleProofs`, `SendCreditsProofs`, `AddressBindingProofs`, `MailboxDataProofs`, `MailProofs`, `UserProofs` | theorems | section 5 |
| `MC...` | instances for TLC | section 3 |

Conventions. `None`, `NoRow` and `NoOne` are SQL NULL or a missing row. Local
variables of a handler are the fields of its record (`req[q]`, `job[j]`,
`task[t]`); `pc` names the call that comes next. `Cancel` (`Abandon` in
`SendMail`) ends a handler at any await. Variables called *history* are not in
the code: they record what a property needs to know of the past. Ids declared
AUTOINCREMENT are never reused (`nextId`), the ids of `users` and `raw_mails`
are (`CreateUser`, `Register`, `NextId`). Every module ends with its properties; an operator commented
*Mutant* is a wrong version of the definition after it, for which TLC refutes
the property named in `PROJECT.json`: it is no part of the specification.

Abstractions. Names, roles, emails and mails are members of small sets.
Encryption of results is their identity plus a tag that tells two ciphertexts
apart (`by` in `RedeemRole`). Time is an `expired` flag or a day and a month.
Random names are any name. Statements of one `DB.batch` are one action. A call
that throws after it was committed is a separate alternative where the handler
goes on (`ClaimThrows`, `CreateBreaks`, `Store`, `Cancel` of a transaction).
Which names have a mailbox is not tracked with the mails: it only decides
whether a mail is refused, which the filter may do anyway, and what `CleanUnknown`
deletes. Cleanup by SQL that the admin writes is left out.

In `ImapMailbox` nothing makes a client wait for an answer before it sends the
next command (`imap_server.py:31` passes every line on), so the commands of a
session overlap at every `yield`. A call runs in a thread of its own: the
backend or the flag store answers in one step, and the reactor uses the answer
in a later one; where only local variables depend on it, both are one step. From
there to its next call a command is not interrupted: that is what `Free` says,
the one definition that models Twisted itself. A FETCH that implies `\Seen` is a
STORE and then a FETCH (`imap_server.py:87-91`), which the model has as two
commands that may overlap others anyway. The cache is the set of what it holds;
which messages it drops when it is full is left open, so the order of use plays no part.
`since`, `late`, `changes`, `unmatched` and `behind` are history.

Three modules abstract more than the others. In `TelegramBinding` a key of the
key-value store is an atomic register, a list is a set, as nothing depends on its order, a deletion by the bot is the deletion of
the address row after its unbinding (what it leaves elsewhere is `MailboxData`),
and the validation of all tokens of a list is one action, as nothing is written
between its calls. The nightly batch cleanup does not unbind, and the command
that drops invalid mailboxes leaves the entry of a mailbox it drops: both are in
the code. In `UserAccounts` a password is who chose it. `UserSession` has one
tab in detail; the other tabs only write the storage they share with it, and
whatever tokens the worker signs are numbers in order of issue.

## 3. The runs

| Run | Question | Instance | States |
|---|---|---|---|
| `redeem_address` | Do two requests for one code agree, clean up after themselves and never delete the winner's mailbox? Does the flow implement `OneTimeGrant`, and does a mailbox always leave limbo? | 2 requests, 1 code, 2 prefixes, 2 local parts, 2 rows | 519 000 |
| `redeem_role` | Does a role that was redeemed stand; is a code used up exactly when it gives its role? Is `OneTimeGrant` implemented? | 2 requests, 2 codes, 2 roles, one users row spelled two ways | 865 000 |
| `send_mail` | By how much can limits and balances be overshot? Are counters kept at midnight? Does every mail count? | 2 senders, limit 1, 3 mails, 2 days, 1 failed check | 2.5 million |
| `send_credits` | Does the balance add up when it is redeemed, spent, edited and deleted at once? | 2 redemptions, 1 sender, 2 amounts | 1.2 million |
| `address_binding` | By how much can the quota be overshot; who gets a transferred mailbox and does a transfer lose it; do bindings survive their user? | 2 requests, 2 names, 3 rows, 1 user id, 2 persons, quota 1 | 797 000 |
| `mailbox_data` | Does a deletion leave anything to the next owner of the name? Does a cleanup take a mailbox that came into use? | 2 requests, 1 name, 2 mailboxes, 2 rows of data, all four cleanups | 1.1 million |
| `mail_receive` | Is a mail only deleted once it was delivered? Do circular rules deliver it once? Do extracted codes stay with their mails? | 2 messages, 2 mailboxes, 3 stored mails, two lists of two rules | 2.2 million |
| `imap_mailbox` | Does a session notice that mails arrived during or after a rebuild? Does a fetch return all it was asked for, whatever page and cache and whatever the other command does? | two overlapping commands of a session (FETCH; SEARCH), 3 mails, pages of 2, cache of 2 | 1.6 million |
| `imap_flags` | Does a flag get lost between sessions; does a session show what is stored, its own stores included; are new mails unseen? | two overlapping commands of a session (SELECT or STORE each) and the stores of another, 2 mails, 1 flag, 2 stores | 1.4 million |
| `telegram_binding` | Do list and entry agree; is a mailbox pushed to the wrong chat; does the quota hold? | 2 requests, 2 chats, 1 name, 2 mailboxes, quota 1, 1 failed validation | 1.6 million |
| `user_accounts` | Can an account be taken over; is a mailed code replaced; how many requests pass in a day? | 2 requests, 1 client with a limit of 2, 2 emails, 2 codes | 986 000 |
| `user_session` | Are calls sent again for the right login; is only an expired token refreshed; does every call end? | 2 calls, 1 user, 2 mailboxes, 2 access tokens | 353 000 |

Why these bounds are enough to be interesting. Two requests are what every race
here needs (a winner and a loser); a third would only repeat a role. One code
with two values lets the admin edit it between read and claim. Two address
rows let a mailbox be created, deleted and its name be taken again by somebody
else. In `send_mail` a limit of one with two senders reaches the overshoot of
one that the property allows, and a second day lets a mail that took its keys
before midnight clean up after it. In `address_binding` three rows and a quota
of one allow the two bindings that the overshoot property permits and the three
that it forbids. `MaxUserId = 1` makes every new user take over an id. In
`mailbox_data` two mailboxes of one name are the deleted one and its successor,
and two rows are one that the deletion has passed and one that it has not. In
`imap_mailbox` two commands make the races of a session: two rebuilds, of which
either may end last, and a fetch that goes on while another command replaces
number and index; any command rebuilds alike, so the second one need not fetch. Three
mails make two pages, one of them short, overfill a cache of two, and leave gaps
in the ids when one is deleted. In `imap_flags` two stores let the result of the
first be overtaken by flags that were read before it, or by the second store,
and two mails let an id return. In `mail_receive` three rows let the original be deleted
by somebody else, its id go to another mail, and a copy be delivered; the rules
forward both ways, to the own mailbox, and outside. In `user_accounts` two
requests of one client reach more than the limit of two, up to the five that the
bound allows; two codes for two emails are one each, or one that replaces
another. In `user_session` a token expires, is replaced, and the replacement
expires. All bounds are CONSTANTS (`MaxAddress`, `MaxUserId`, `MaxDay`,
`MaxMail`, `MaxFail`, `MaxRow`, `MaxCount`, `MaxCode`, `MaxToken`, `MaxLogin`,
`MaxStore`) and appear as guards.

Deadlock is not checked: a request that is answered stays answered, and the
bounds end every behaviour. Requests and names that no action tells apart are
declared symmetric in safety runs; runs with liveness use no symmetry. The view of
`imap_flags` leaves out the history that only the properties of `imap_mailbox`
read; no step depends on it.

Fairness. `RedeemAddress` assumes weak fairness of each handler's `Step`: the
runtime runs a handler to its end unless it cancels it, and a cancellation is an
action of its own, never assumed and never excluded. Nothing is assumed of the
admin, the clock or other requests' arrival. `UserSession` assumes weak fairness
of the worker's answers, to calls and to refreshes, and of the tab's handling of
an answer: an HTTP request is answered or fails, and the browser runs the
continuation. Nothing is assumed of the user, other tabs or the expiry of tokens.

## 4. What the code does not promise

Some properties name exceptions: states that the code can reach although a
document reads otherwise, or that no document speaks about. TLC refutes each
property when its exception is taken away.

- `ResultRetrievable`: when the claim's call throws, the handler deletes the
  mailbox without knowing whether the claim was committed
  (`redeem_api/redeem_code.ts:405`). If it was, the code is used up and its
  recorded mailbox is gone. The guide: a redemption "fixes its complete result,
  which remains retrievable until expiry".
- `NoStrayMailbox`: a request that is cancelled between creating its mailbox and
  claiming the code leaves the mailbox (`redeem_api/redeem_code.ts:404`).
- `TransferKeepsName`: a transfer deletes the mailbox and inserts it again in
  separate calls (`user_api/bind_address.ts:236-255`). When it is cut short or
  fails in between, the mailbox is gone; and another handler that deletes the
  new one deletes the name for good.
- `TransferHandsOverOwn`: the new mailbox's id is read back by name
  (`user_api/bind_address.ts:258`). When the new mailbox was deleted and its name
  taken by somebody else in between, that one's mailbox is bound to the target
  user.
- `ExtractIsOwn`: what was extracted is written by id alone
  (`email/ai_extract.ts:164`). When the mail was deleted while its text was being
  looked at and its id was given out again, a newer mail, perhaps of another
  mailbox, shows the code of the deleted one.
- `QuotaOvershootBounded`: two binds pass the count together
  (`user_api/bind_address.ts:60`). The guide: at the limit, binding "results in
  400". The property says how far it can go.
- `MailKept`: the handler deletes the original by id (`email/storage.ts:77`) at
  the end; if somebody else deleted it before, the id of the last row is given
  out again and a newer mail of the same mailbox is deleted. The guide: "delete
  the current original".
- `NewIsUnseen`: a mail that gets the id of a deleted last mail has that one's
  flags (`flag_store.py:87`), and a session that fetched the deleted one has its
  content in the cache.
- `StaleIsNoticed`: the proxy compares numbers only, so an arrival and a deletion
  hide each other (`imap_mailbox.py:288`). A rebuild that fails after the number
  of mails was replaced leaves an old index that is not refreshed until the
  number changes again (`imap_mailbox.py:289`). And two overlapping commands that
  both rebuild may leave the number that one of them read with the index of the
  other, which may be older (`imap_mailbox.py:127`, `155`), without any failure.
- `ShowsStored`: a session learns of another session's store at its next rebuild.
  Flags that were read before a STORE of the session may be assigned after its
  result when commands overlap (`imap_mailbox.py:159-161`, `338-340`): then the
  session shows the old flags, with no other session and no failure. The comment at
  `imap_server.py:71-74` wants the flags a client receives to be current; with
  overlapping commands they need not be. When the mailbox is found empty the copy
  is emptied (`imap_mailbox.py:133`), and a rebuild that fails between the index
  and the flags leaves it so.
- `FetchReturnsAll`: messages of one fetch can evict each other from the cache
  before it answers (`imap_mailbox.py:43`).
- `NoStalePush`: the batch cleanup deletes a mailbox without unbinding it, so
  the next mailbox of the name is pushed to the old chat
  (`common.ts:593-622`).
- `PushedIsListed`: concurrent commands of one chat lose one of their changes to
  its list (`telegram_api/common.ts:101`), and then the chat gets the mails of a
  mailbox that it cannot unbind.
- `DailyLimitBounded`: concurrent requests are counted once, and one that is slow
  to write sets the counter back (`ip_blacklist.ts:232`).
- `NoOrphans`: rows written after the deletion has passed their table, and the
  binding of a successor that the final delete by name took, stay
  (`common.ts:654-669`).

## 5. The proofs

`RedeemAddressProofs` proves, for any sets of requests, codes, values and local
parts and any `MaxAddress`:

| Theorem | Statement |
|---|---|
| `TypeCorrect` | `Spec => []TypeOK` |
| `AnswersAgree` | `Spec => []AnswerIsRecorded` |
| `NoStrays` | `Spec => []NoStrayMailbox` |
| `ResultsStay` | `Spec => []ResultRetrievable` |
| `Refines` | `Spec => ImplementsOneTimeGrant` |

Assumptions: `ValueAssumption` (there is a value, and NULL is none) and
`RedeemAddressAssumption` (`MaxAddress` is a natural number; NULL is neither a
code nor a credential).

The argument. None of the properties is inductive alone. `CoreInv` adds to
`TypeOK`:

- `TableOK`: a redeemed row was issued and has a result;
- `AddressOK`: ids were handed out before `nextId`, ids and names are keys;
- `ResultOK`: a recorded result has the prefix on offer when it was recorded
  (a redeemed row is never repriced), and an id already handed out;
- `OwnDistinct`: no two requests inserted the same row;
- `GoodReq`: what a request knows fits its place in the handler; a request that
  answers follows the recorded result.

Most steps leave recorded results and offers of redeemed codes alone and only
grow `nextId`; the lemma `OthersKept` uses this (`Mild`) to carry every request
that does not move, so that each action's lemma is about the one that does.
`NoStrays` is inductive relative to `CoreInv` (`IInv`). `ResultsStay` needs
`KeepInv`: unless somebody else deleted a mailbox of that name, a request still
has the row it inserted and read back its own id (`OwnKept`), and no request
that may still undo something holds the recorded row (`RecordKept`); the second
is what excludes that a loser deletes the winner's mailbox. `Refines` maps
`Claim` and `ClaimThrows` to `Grant`, the admin's actions and the clock to
`Manage`, all others to stuttering.

`RedeemCodeTableProofs` has the facts about the admin's handlers that every
flow can cite.

`AddressBindingProofs` proves, for any sets of requests, names and persons and
any `MaxAddress`, `MaxUserId` and `MaxBound`:

| Theorem | Statement |
|---|---|
| `TypeCorrect` | `Spec => []TypeOK` |
| `HandsOver` | `Spec => []TransferHandsOverOwn` |
| `KeepsName` | `Spec => []TransferKeepsName` |
| `NobodyInherits` | `Spec => []NoInheritance` |
| `QuotaBounded` | `Spec => []QuotaOvershootBounded` |

Assumption: `AddressBindingAssumption` (the bounds are natural numbers, NULL is
neither a person nor a name, and there are finitely many requests, without which "fewer than the
number of requests" means nothing).

The argument. `CoreInv` adds to `TypeOK` that mailboxes have ids below `nextId`
and names that are keys (`AddressOK`), and of each request that its record fits
its `pc` (`WellFormed`), that the ids it knows were handed out before `nextId`
(`KnowsRows`), and `HandsOverOwn`, from which `HandsOver` follows. `OneMoves` is
the frame: a request that does not move keeps `Good`, provided ids only grow
(`MildStep`). `KeepsName` needs only `CoreInv`: the sole step that takes a name
and puts it in `moved` moves the request to `recreate`, and the sole step that
leaves `recreate` inserts the name, finds it taken, or removes it from `moved`.
`NobodyInherits` needs `NoHeirs`, which drops the premise that the id has a user
now: a binding whose owner is gone must be excused before the next one arrives.
`QuotaBounded` needs `QuotaInv`: bindings of a user plus the requests that have
been admitted for that user and have not bound yet (`Admitted`) exceed the
maximum by fewer than the requests; counting admits one with fewer than the
maximum bound (`RoomAdmits`), binding turns one admitted request into at most one
binding (`RoomBinds`), everything else only takes away (`RoomShrinks`).

`RedeemRoleProofs` proves, for any sets of requests, codes, users and emails:

| Theorem | Statement |
|---|---|
| `TypeCorrect` | `Spec => []TypeOK` |
| `AnswersAgree` | `Spec => []AnswerIsRecorded` |
| `RolesStand` | `Spec => []RedeemedRoleStands` |
| `UsedForRole` | `Spec => UsedUpForRole` |
| `Refines` | `Spec => ImplementsOneTimeGrant` |

The four statements of the transaction are first shown to do both things or
nothing (`Statements`): the reservation of the first is marked by the third or
released by the fourth, and the `changes` of each statement decides the next.
`IInv` says that no reservation outlives its transaction and that a result
names the role on offer (`ResultOK`), and of a request that it answers with what
the code recorded (`Recorded`).

`SendCreditsProofs` proves about sending alone and about redeeming and sending
together, for any sets of mailboxes, codes, requests and mails, any limits,
calendar and default balance:

| Theorem | Statement |
|---|---|
| `TypeCorrect` | `Spec => []CreditsTypeOK` |
| `Refines` | `Spec => ImplementsOneTimeGrant` |
| `OnlyAdmin` | `Spec => OnlyAdminEnables` |
| `CurrentKept` | `SendSpec => []CurrentCountKept` |
| `LimitHolds` | `SendSpec => []OvershootBounded` |
| `OverdraftHolds` | `SendSpec => []OverdraftBounded` |
| `EveryMail` | `SendSpec => []EveryMailCounts` |
| `BalanceExact` | `Spec => []BalanceAddsUp` |

`CountOK` says that no mail holds a key of a day to come, so what a cleanup
removes is over. For the limits a bound on the counter is not inductive: a mail
that has passed the check will raise it. `LimitOK` bounds the counter *plus* the
mails that may still raise it (`Pending`: past the check, not counted yet, and
not holding a key of an earlier period). A check adds one to them only below the
limit, when at most all others are pending, or by failing; counting moves one
from the second summand to the first; midnight begins a counter at zero with at
most all mails pending. `DuesOK` is the same for balances: the balance minus
the mails that may still be charged (`Due`) stays above minus the number of mails,
because a check lets one pass only at a positive balance. Both need a finite,
nonempty set of mails (`SendMailAssumption`).

`EveryMail` and `BalanceExact` are about sums over sets. The module first shows
what the fold of `FiniteSetsExt` computes: a function that satisfies the fold's
recursion exists for every finite set (`SumExists`), there is one only
(`SumUnique`), and adding an element adds its value (`SumAdds`). `MailsOK` says
that the mails sent are those in the counters of all days, those whose counting
failed, and those that are about to be counted. `BalanceInv` says that a balance
no admin touched adds up, and `RowsOK` that whoever is about to charge or to
credit such a balance still has its row: without one, a charge or a credit would
be recorded and change nothing.

`MailboxDataProofs` proves, for any requests, names, cleanups and rows:

| Theorem | Statement |
|---|---|
| `TypeCorrect` | `Spec => []TypeOK` |
| `LeavesNothing` | `Spec => []NoOrphans` |
| `SparesUsed` | `Spec => CleanupSparesUsed` |

`Covered` is what makes `NoOrphans` inductive: of the tables that a deletion has
been through, it leaves behind only rows that are excused already. It holds at
the first step for no table, each statement adds its table, and a row that is
written behind a deletion is excused when it is written. When the last statement
removes the mailbox, `Covered` is `NoOrphans` for it. `TaskOK` has what two
deletions of one mailbox need: they agree on its name.

`MailProofs` proves about `MailReceive`, for any messages, mailboxes and
forwarding rules, and about `ImapMailbox`, for any mailbox, pages, cache, flags
and stores of other sessions:

| Theorem | Statement |
|---|---|
| `OwnExtract` | `Spec => []ExtractIsOwn` |
| `NoDuplicate` | `Spec => []DeliveredOnce` |
| `OriginalKept` | `Spec => MailKept` |
| `StaleNoticed` | `ProxySpec => []StaleIsNoticed` |
| `FetchComplete` | `ProxySpec => []FetchReturnsAll` |
| `NoFlagLost` | `ProxySpec => []NoStoreLost` |
| `ShowsFlags` | `ProxySpec => []ShowsStored` |
| `NewUnseen` | `ProxySpec => []NewIsUnseen` |

For receiving, `RawOK` says that an id and a serial belong to one row each; the
serial is history, and never comes back as an id does. `FrameOK` says that what a
frame remembers of the row it inserted is true while that row exists, and that a
row which has its id now is that one or came later, which is what `OwnExtract`
needs of a write by id; `StackOK`
which frames can be on the stack and that the nested one is for another mailbox,
`JobOK` that a message that is to be deleted has been delivered, and `CopiesOK`
that a message is in its mailbox at most once, and nowhere before it is stored.
For the proxy, `ProxyInv` speaks of all commands at once, as what one of them
has read is used after others moved. `Tells` is what a number of mails says of
the mailbox given what befell it since: nothing, and it is the number there is;
only arrivals, and it is less. `IndexOK` has it for the session's number and, in
`WalkOK`, for the number that each rebuild goes by, together with what the
rebuild has collected: if nothing befell the mailbox, the mails whose `Rank`, the
number of newer ones, is below the offset (`Before`). It also says that the
session's number is that of the rebuild which last replaced only the number
(`unmatched`), and that an index of the same rebuild is the list if nothing
befell it. A command that does not move keeps its part
(`WalkKept`, `IndexKept`), one that moves hands its part to the session
(`TakeStep`, `CountedStep`, `InstallStep`). `CacheOK` says of each fetch that
what it was asked for and need not fetch is cached, unless the cache is full, and
that it has found what it wants of the ranks walked through; `KeptHolds`
that the cache drops none while there is room. `KnownOK` says that no id any
command knows is newer than any mail ever stored. `ShownOK` says that flags are
as stored unless they are outdated (`behind`) or a command has the result of its
store and has not copied it (`OnItsWay`), and `CopyOK` that an answer of the flag
store which waits to be used is right for all uids that were not stored to since;
with no command under way that is `ShowsStored`.

`UserProofs` proves about `UserAccounts`, for any requests, clients, emails,
limits and settings; about `UserSession`, for any calls, users, mailboxes and
tokens; and about `TelegramBinding`, for any requests, chats, mailboxes and
maximum:

| Theorem | Statement |
|---|---|
| `TypeCorrect` | `Spec => []TypeOK` |
| `NobodyTakesOver` | `Spec => NoTakeover` |
| `CodesStay` | `Spec => CodeStays` |
| `DailyBounded` | `Spec => []DailyLimitBounded` |
| `SessionTypes` | `TabSpec => []TabTypeOK` |
| `RefreshesExpired` | `TabSpec => OnlyExpiredRefreshed` |
| `RetriesAreCurrent` | `TabSpec => RetryIsCurrent` |
| `ChatTypes` | `ChatSpec => []ChatTypeOK` |
| `NothingStale` | `ChatSpec => []NoStalePush` |
| `PushedListed` | `ChatSpec => []PushedIsListed` |
| `OwnersKept` | `ChatSpec => OwnerKept` |

`CodesOK` says that no code was mailed twice and that the code stored for an
email was mailed to it; `ReqOK` that whoever is past the check of a code has read
it in that email, and that a request which found no code, and was not overtaken,
would still find none.

`DailyBounded` needs an invariant that does not follow the stored counter, which
falls whenever a slow request writes. `DayInv` gives every request the value
that it would write next, less one: what it read, or what is stored now if that
is less or it has not read yet. `Behind(i, n)` are the requests with a value of
at least `n`. No step but a write takes any value down, and a write may, but
raises the number of those behind the smallest value it changes: it is a step up
in lexicographic order. `Ranks` assigns every such state its place in that order,
each step of the limit weighted by what it is worth (`Weight`); a write raises
the place by at least one (`RankRises`) and there are no more places than
`Passes` says (`Telescopes`). `Passes` is a recursive function of two numbers, so
the proof first shows that a function with its recursion exists and is unique
(`PartialExists`, `PartialAgree`, `PassesRecurs`).

For the session the invariant is that a call whose refusal is being handled was
made with an expired token: if its token is the tab's, that one has expired.

For the bot, `ChatInv` has four parts. `ChatTyped` bounds what is stored and what
a request is about to store: a bind checks the length of the very list it
extends, so a lost update makes a list wrong but never too long. `IdsOK` says
that ids are handed out once, so a mailbox and its successor are told apart.
`PushOK` drops the premise of `NoStalePush` that the name is taken now: the entry
of a name nobody has is gone, or excused, before the next one takes the name; and
a request that unbinds is past the entry, or is of the chat that has it.
`ListsOK` says that a request which is about to write an entry has written a
list with that mailbox.

Assumptions of all of them are the named ASSUMEs of the modules: the bounds are
natural numbers, NULL is nothing else, sets that are counted are finite. TLC
evaluates them in every run.

How induction is done. The library's induction theorems take an operator as a
parameter, which the installed provers cannot instantiate. The modules that need
induction prove a first-order form of it (`Induction`: a set of naturals that
has 0 and every successor is all of them) from the well-foundedness of `<`, and
apply it to a set they define.

Only model-checked, and why: `LimboEnds` and `CallsEnd`, which are liveness under
fairness. The runs check them on their instances; the provers cannot do
ENABLED. Every other property of the runs is a theorem.

## 6. Not modelled

- Settings and admin configuration: whole values are read and overwritten, with
  no rule that relates two of them. What they configure is a CONSTANT or a free
  choice of the models.
- Login with a password or a passkey, which only reads; the cryptography of
  credentials, tokens and passwords.
- SMTP proxy, mail parser, webhooks, attachments, transports: translations to
  calls of other services that keep no state here. A call is one step that
  succeeds or not.
- The views of the frontend, its texts in six languages, its styles and
  documentation: more than half of the repository's lines. They hold what is
  displayed and what is typed; their calls are the handlers modelled here, and
  what the tab keeps between calls is `UserSession`.
- Listings, search and statistics: one SELECT each, without an effect.
- Cleanup by SQL that the admin writes.

What the models cover is therefore the part of the worker, of the proxy and of
the frontend's client that changes shared state in more than one step; it is a
small share of the lines of the repository, and the share that is hard to test.

What could follow: two tabs of one browser in detail, with the renewal of a
login (`frontend/src/api/index.js:190`); several IMAP sessions in detail; the
composition of `MailboxData` with `AddressBinding` and `TelegramBinding`, which
now share the table `address` only by modelling it alike.
