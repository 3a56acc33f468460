# Specifications of the Massgate server

This directory holds TLA+ specifications of `MLiveAccountServer`, a replacement for the Massgate
service of *World in Conflict*: accounts, profiles, the list of dedicated game servers, clans and
messages, on one process, two or three threads and a MySQL database. The specifications are
written from the code in `src/MLiveAccountServer/src`, in the configuration with
`USING_MYSQL_DATABASE`. TLC checks small instances of them, and TLAPS proves what matters most for
every size.

Paths below are relative to `src/MLiveAccountServer/src`; *SvClientManager.cpp*, *LiveAccount.cpp*
and *MySQLDatabase.cpp* are in `Server Modules`, *MMG_…* in `mmassgate`, *MN_…* in `mnetwork`,
*MC_…* in `mcommon2`.

## The system

Three threads run in the process.

* The **accept thread** (`MN_TcpServer::ServerThread`) blocks in `accept`, and for each connection
  calls `LiveAccount_ConnectionReceivedCallback`: look the address up, and add a client if it is
  new. The two steps take the client manager's lock separately.
* The **main thread** (`SvClientManager::MainThread`) takes the lock, visits every client slot
  (timeout, `select`, `recv`, the message handlers), releases the lock, sleeps ten milliseconds, and
  starts again. All protocol handlers run here, under the lock, to completion.
* The **ping thread** (`MySQLDatabase::PingDatabase`) wakes up every five hours, calls
  `mysql_ping` on the connection the main thread makes its queries on, and sets two flags the main
  thread reads and writes; none of it under a lock.

Components, their state, and what makes them correct:

| component | state | operations | correct when | modelled in |
|---|---|---|---|---|
| client manager, TCP server | `m_Clients`, `m_ClientCount`, sockets, clock | accept, find, add, scan, remove | one slot per address, count = slots in use, no socket closed under its owner, nobody dropped early, dead and overdue clients dropped | `ConnectionTable`, `ClientManager` |
| database connection | `isConnected`, `m_MaintenanceMode`, the connection | test, ping, emergency disconnection | the server survives an outage, disconnects everyone and recovers | `DatabaseOutage` |
| server list | `m_ServerList`, marks on clients | authenticate, ping, start, heartbeat, disconnect | what players see is connected, shown once and licensed; only its owner takes an entry off; the dead leave | `TrackableServer` |
| accounts and profiles | tokens and profiles of clients; tables *accounts* and *profiles* | auth, retrieve, add, delete, status, crash, restart | one login per account, online means played, an account with profiles has an active one of its own | `SessionRegistry`, `Sessions` |
| account creation, cd keys | tables *accounts*, *cdkeys*, the private keys | create, look keys up, repair at login | an account is stored whole or not at all, an email and a key have one owner, what was reported as created stays | `DatabaseSession`, `Accounts` |
| clans | tables *clans*, *profiles*, *messages*; clan and rank in the memory of clients | create, invite, answer, modify, ranks, kick, leave, clan messages | memory and rows agree, one leader per clan, no member of a clan that is gone, no rights that have lapsed | `Clans` |
| instant messages | table *messages*, clients online | send, push, hand out a page, acknowledge | a message is kept until it was shown, and is shown in the end | `Mailbox`, `InstantMessages` |
| statistics, ladders, ranks, medals and badges | tables of matches, totals, ladder, ranks, awards, acquaintances | match report, login, queries | a report is stored whole or not at all, a ladder is never half, ranks and awards are earned and never taken back | `MatchReports`, `Awards` (the queries are not modelled) |
| transactions | autocommit, the open transaction, the session | begin, commit, rollback | nothing half is stored, nothing waits between two messages | `DatabaseSession`, under `MatchReports`, `Accounts` and `Guestbooks` |
| guestbooks | tables *profile guestbook*, *clan guestbook* | post, read a page, delete one entry or all of a poster | entries only go at the request of an owner, what is shown is stored, a poster sees the post | `Guestbooks` |
| server browser | – (reads the list) | list, filter, paging | – | not modelled: a read-only filter and paging of the list |
| framing, bit stream | one message buffer | read, write | – | not modelled: bytes in one buffer; the modules start from whole messages |
| friends, ignore lists, editable variables, optional content | one table each | read, write a row | – | not modelled: no interaction between messages |
| HTTP, statistics service, GeoIP, JSON, chat, account proxy | – | I/O on a read-only view; stubs | – | not modelled |
| ciphers, hashes, utilities | – | arithmetic on words and bytes | – | not modelled: test vectors suit them better |
| `Database.cpp` (SQLite) | – | predecessor of the MySQL module | – | not modelled: not in the configuration |
| vendored libraries | – | – | – | not modelled |

The components interact by calls on the main thread (a handler calls the database, the database
may call the client manager's emergency disconnection, which calls the disconnect callback, which
writes to the database) and by the state that two threads share (the slots; the database
connection and its two flags). The hard behaviours are the two interleavings of threads, that recursion, the reuse of
slots and addresses, the wrapping clock, crash and restart with state left in the database, statements
that fail or connections that are lost in the middle of a transaction whose results nobody looks at,
messages that are cut short or acknowledged late, and long sequences of legal requests on stale data
(tokens, profile lists, list entries, ranks).
`PROJECT.json` lists these hazards line by line.

## Modules

**`ConnectionTable`** is the promise of the client manager to the rest of the program: a bounded
set of (connection, address) pairs, one per address, in which a connection is admitted at most
once and leaves by being closed.

**`ClientManager`** is the implementation. `slot` is `m_Clients` (with the fields of `SvClient`
the manager itself uses), `count` is `m_ClientCount`, `accept` the accept thread's program counter
and socket, `scan` the index of the main thread's loop (equal to `NumClients` while it sleeps: the
lock is free only then), `now` the 32-bit millisecond clock, `conn` each connection as TCP and the
server's handle see it. `Accept`, `AcceptKnown`/`AcceptUnknown` and `AddClient`/`TableFull` are the
accept thread's three steps, `BeginScan` and the six actions of `VisitSlot` the main thread's. A
handler is one visit of one slot; of what it does only the fields `ReadMessage` sets matter here. `idle`
and `ticks` are not in the code: `idle` is the real time since the last message, against which the
modular arithmetic of `IsActive` is judged, and `ticks` bounds how far the clock may go between two
starts of the scan.

**`TrackableServer`** has one action per message of a dedicated server and the disconnect callback.
`link` is what the client manager holds for each address, `list` is `m_ServerList` as a set whose
`id` gives the order of the vector. An entry is found by `FindServer` as in the code: the first
entry whose hash is that of the address. Addresses may share a hash. `AuthServerInOutage` is
`AuthServer` when `VerifyServerKey` loses the database and disconnects everyone first.

**`DatabaseOutage`** has the ping thread, in its four steps, the main thread's handlers as
sequences of database calls, each a `TestDatabase` in its steps (`test`) and the query after it, and the
emergency: `stack` is the call stack of nested `RemoveClient` and `EmergencyDisconnectAll` frames, and
`MaxStack` how many emergencies may be nested before the thread's stack is full. `Collide` is a ping and a query
that use the connection at the same time, which the note in `MySQLDatabase.h` (45) warns of: what the client library does then
is undefined, so either may fail, the session may end, and the process may die, with the MySQL server in the best of health.
There are three kinds of handlers: those that leave their client alone after a call (`query`), those that go on with its token or
profile (`token`: the profile lists, and what players ask for), and logins. When an emergency has freed what a handler goes on
with, or a removal finds its client removed, the model takes both outcomes, a crash and survival. `lost`, `played` and
`stranded` are histories: a database lost or a collision; a login asked for; a handler left with a freed token, or caught in a collision.

**`SessionRegistry`** is the promise of the account protocol: a client is signed in under at most one
account and an account by at most one client.

**`Sessions`** is the implementation: the handlers of `MMG_AccountProtocol.cpp` and the tables they
write. `client` is what each slot holds (token, profile, login flag), `profiles` and `active` the two
tables, which survive `Crash`; `Restart` runs `ResetOnlineStatus`. `Login` and `LoginFailed` are the two
ends of ACCOUNT_AUTH after the checks; `Refused` is every earlier answer, which has overwritten the token all the
same. A client may ask at any time and for any account, also when it is logged in, and name any profile, to log in to or to
delete: the server asks neither. `astray` are the logged-in clients whose token has come to hold another account,
`meddled` the accounts whose active profile is in doubt because a request named a profile of somebody else's; the
properties say what holds for all other clients and accounts.

**`Clans`** has the CLAN handlers of `MMG_Messaging.cpp`, the observer that writes a profile when its
clan or rank changes, and the queries they use. `row` is the clan and the rank in *profiles*, `mem`
those in the memory of the client that plays the profile (`online`), `clans` the ids in the clans
table, `week` the player of the week, `messages` the invitations and clan messages that wait in
*messages*. MODIFY_RANKS is one message with many effects in the code and one action for each here:
`Kick`, `Leave`, the three ways a leader leaves (`LeaveToHeir`, `LeaveAsLast`, and `LeaveToNobody`,
where the code divides by zero), `HandOver`, `SetRank`. `fault` names the one query of a handler that
fails; the handlers ignore the results, so the rest happens all the same. They check no rights either: the game offers
a player only what `Fits` allows, but a request is handled when it arrives, and a dialog
may have been open while a player left, was promoted or joined elsewhere. The model handles every request,
fitting or not; a message that is sent keeps in `fit` whether its sender had the rank for it, which the handlers of invitations
and clan messages do not ask (the check is commented out, `MMG_Messaging.cpp:812`). The history variables `faulted` and `strayed` keep the clans that a failed query or
a request that no longer fitted had to do with, `lost` the played profiles whose row a failed write
left behind, and the properties say what holds for all the others.

**`DatabaseSession`** is the one session with the MySQL server and the calls of `BeginTransaction`,
`CommitTransaction` and `RollbackTransaction`, one operator for each statement they send. `stored` is what is
committed, `work` what the session sees, `open` the transaction both the server and the client library
believe in. The server and the library are external, modelled from how the code sets them up: a connection
may be lost before any statement, the server then drops the transaction, and with automatic reconnection the
library opens another session, unless it believes a transaction is open. The two modules below extend it and
give `stored` its tables.

**`MatchReports`** is `ProcessMatchStatistics` and the four `MySQLDatabase` functions behind it, one
statement a step: the rows and totals of each player with its awards (`stats`), the ladder
(`ladder`), the ranks (`ranks`), and the acquaintances (`friends`). A rank is found by `Rank` outside any transaction and written by
the observer of the player's profile in one of its own (`TestDatabase`, `BeginOff`, `BeginStart`, `Promote`, then COMMIT or
ROLLBACK), whose failure the report does not see: it goes on with the next player. The same observer writes clan and rank
when a player joins a clan between two reports (`JoinClan`, `JoinRank`, `ReadName`). `at` is the
statement that is next, `part` the function, `i` the player or pair, `rising` the rank to be written. The ladder query is `LadderRows` and
`LadderScore`, the rank tables are the code's. `Refuse` is a statement that fails, `Lose` a connection that is lost,
`Crash` the end of the process; all may come anywhere. `bare` is a history: something was written outside a transaction.

**`Awards`** judges the medals and badges. The code has one block of conditions for each; a *rule* is the table of the
thresholds of such a block, and `After` the conditions they share. An award depends on no other, but for the
medal for having all of them, so a behaviour follows one award and keeps of the others whether
the player has them all.

**`Accounts`** has ACCOUNT_CREATE with its checks and `CreateUserAccount`, and the three repairs a login makes to
accounts that were made by hand (`UpdateRealCountry`, `UpdateCDKeyInfo`, `UpdatePassword`), one statement a step.
A key stands for its number and its ciphers, which differ only for accounts made by hand. `told` are the accounts whose creation
was reported, `unsure` those whose COMMIT found the connection lost, `unchecked` those whose key could not be looked up.

**`Guestbooks`** has the books of profiles and of clans, whose code is the same but for two constants: which book a player
deletes from (`BookOf`) and how many entries of a page are sent (`Shown`). One statement a step: `Post` with the refresh that
may follow it, `Get`, and `Delete` of an entry or of all its poster's. `blind` says that the entry whose poster is looked up
was gone. `ChangeStatus` and `UpdateStatus` are what other handlers write in between: a player's online status, in the transaction of the
observer of its profile.

**`Mailbox`** is the promise of instant messaging: what was accepted is kept until its recipient has seen it.
**`InstantMessages`** is the implementation: `table` is *messages*, `wire` and `acks` what is under way
to and from each client. `Send` stores and pushes, `CheckPending` hands out a page, oldest first by the
sender's clock, `Ack` deletes. The game is external: it shows what arrives and acknowledges all but invitations.

`MC…` modules add what TLC needs (symmetry, constraints, definitions for the configurations).
The modules named `…Proofs` have the proofs. `ServerProofs` is about `TrackableServer` and `DatabaseOutage`,
`StatisticsProofs` about `Awards` and `MatchReports`; the modules of a pair share no state, and where both would have the same
names the second has its own (`OutageSpec`, `OutageTypeOK`; `MatchSpec`, `MatchTypeOK`).

## What TLC checks

The type invariants of `Sessions`, `Accounts`, `InstantMessages`, `Awards` and `Guestbooks` are proved (below) and not checked again.

| run | instance | shows |
|---|---|---|
| `client_manager` | 2 slots, 3 connections, 3 addresses, clock of 5 values, timeouts 1 and 2 | the slot table is consistent (`SlotsConsistent`) in every interleaving of the two threads; nobody is dropped early; it implements `ConnectionTable` |
| `client_manager_live` | 2 slots, 2 connections, fairness | dead and overdue clients are dropped, the accept thread gets back to accepting |
| `server_list` | 2 addresses, 2 authentications, fairness | what is listed is connected, unique, licensed (`ListIsSound`), only taken off by its owner, and leaves when its machine dies |
| `outage` | 2 slots, 2 calls of a handler, an emergency within another, both settings of `auto_reconnect`, fairness | nothing goes wrong before the first outage or collision; without players an emergency does what it says, and the process survives it unless a handler is left with a freed token; with automatic reconnection the server recovers |
| `outage_everyone` (violation) | the same | with a player connected the emergency enters itself until the process dies |
| `sessions` | 2 clients, 2 accounts, 2 profiles, any request at any time | online means played; the active profile is kept and owned, unless meddled with; one login per account of clients that have not gone astray; implements `SessionRegistry` |
| `clans` | 3 players, 2 clans, 1 message under way, 1 failed query or late request | memory and rows agree; every clan has one leader, and is dissolved by its last member; a clan that is gone leaves no traces; clan messages and invitations sent by right, and the player of the week, do not outlive the right to them |
| `match_reports` | 2 players, 2 reports, 2 faults anywhere | reports and ladders are stored whole or not at all, nothing waits to be committed between two messages, ranks are earned |
| `accounts` | 3 emails, 3 keys (2 given out by email, 1 of them confirmed), 1 account made by hand, 2 created, 2 faults | accounts are whole, emails and keys have one owner, what was reported as created stays |
| `instant_messages` | 2 players, one writing, 2 messages, a page of 1, 2 clocks, 2 faults, fairness | what was stored is kept until it was shown, and is shown in the end unless invitations crowd it out; implements `Mailbox` |
| `guestbooks` | 2 players, 2 books of which one is both players', 3 entries, pages of 2, 2 faults | entries only disappear at the request of an owner, who posts sees the post, what is shown is stored, nothing waits to be committed between two requests |
| `awards` | each of the sixteen kinds of medals and badges, from nothing to its last level | awards are deserved, complete once a match changes nothing, never taken back |

Bounds. Two slots and three connections give a full table, a slot used again, and two connections from
one address. A clock of five values wraps every few steps under clients that are idle, active
and overdue; the model only assumes that a scan is short against the wrap (`ClockAssumption`), which
the proofs keep as the only assumption on the clock. Two authentications give a duplicate, a ghost
of a dropped connection and a restarted server; the run gives each address a hash of its own, the proofs do not.
An emergency within another shows the recursion; more
only repeat it. Two profiles let each of two accounts have one and name the other's, or one account have a choice (three clients pass
as well, in a million states).
Three players give a leader, an heir and one who is neither, in one clan or two. In `clans` the clans
that fall into the exceptions of the properties are many once a query has failed; from then on
`TroubleBound` lets two of the three players go on. Two reports with two matches to a place on the ladder give a
ladder that is replaced, matches that no longer count (a day later) and ties; `FaultBound` keeps
one of the two faults for the last report, and ends with a report that would begin after both. Two accounts and a login give a key that is used twice and one that
meets an account made by hand. A page of one makes an invitation crowd out a message, and two clocks let the
later message be handed out first. Three entries in a book overflow a page of two, and leave one for a second
deletion; two faults let a handler fail and a later one lose the connection. In `awards` the gains of a match and the last total (fields `gains` and `last`
of a rule) let one match reach over several thresholds.

The constants `MaxScanTicks`, `MaxEntries`, `MaxProfiles`, `MaxStack`, `CountMod`, `ClanIds`, `MaxMessages`,
`MaxTroubles`, `MaxDay`, `MaxReports`, `MaxAccounts`, `MaxOnWire`, `MaxFaults`, `Contacts`, `Requests`, `Ticks`, `Calls` and those two fields are
bounds of the models; all other constants are the code's (of `Page` and `Shown` of `Guestbooks`, 32 and 30 or 32, only which is larger matters).

Fairness. `MainThread` is weakly fair: it never blocks (`select` waits ten milliseconds). The
accept thread needs the lock, which is free once per scan: strong fairness, since a critical section
is no fair lock but the waiter meets it free again and again. Peers owe nothing there: no property of the
server alone relies on somebody sending. The ping thread always wakes up; a handler runs to its end. That is not enough for
`Recovers`, whose premise names what may keep the server in maintenance for ever: a ping that meets a query each time, and one
that sets `isConnected` each time while a test that has read the old value has still to write it. With five hours between pings
neither goes on for ever, but nothing in the code rules it out. In
`TrackableServer` only the removal of a dead connection is fair, which is what
`GoneIsClosed` of `ClientManager` provides. `Delivered` of `InstantMessages` is the exception: it is about a recipient
that comes back, asks for its messages again and again (strongly fair, since a send may fail), shows and acknowledges
them, an assumption on the game that the code here can only rely on.

The deadlock check is on, but for three runs: with every profile deleted nobody writes (`instant_messages`), with
the connection lost for good no statement is sent and a request in the middle of its checks has nothing left to wait for
(`accounts`), and an award ends when there is nothing more to gain (`awards`).

## Where code and comments disagree

One run shows a disagreement as a violation: `outage_everyone` ("disconnects everyone on fail", at the head of most queries).
Others were met while modelling and are plain in the code or in the modules:

* `MySQLDatabase.cpp:4044` says "delete clan invites"; the id in the pattern is not delimited, so that dissolving clan 1 also
  deletes the invitations to clans 10 to 19 and so on (`LikeClan` of `Clans`).
* `MySQLDatabase.cpp:4562` and 4602 say "get poster id by message id" and "delete all poster ids posts" (3543 and 3583 for profiles).
  When the entry is already gone, because another member has deleted it, the result of the look-up is not looked at and the id is a
  variable that was never set (`LookUpPoster`, `blind`): another player's entries may go.
* `MMG_Messaging.cpp:1332` says "refresh the guestbook", but of the newest 32 entries of a profile's book, sorted from the
  oldest, only 30 are sent (`MySQLDatabase.cpp:3445`): in a long book the post itself is missing. `RefreshShowsPost` is
  false for `Shown < Page`.

* `MMG_TrackableServer.cpp:11` says that all packets "require an authenticated connection". An entry that was authenticated and
  never started survives its connection, and the next connection of that address needs no authentication.
* `MMG_TrackableServer.cpp:458` asserts that an authenticating server is not registered; a second authentication of one
  connection, or the survivor just mentioned, is.
* `MMG_TrackableServer.cpp:22` announces a disconnect "on any errors", but a handler that returns false only ends the reading
  of that buffer (`Rejected`); line 150 says "Drop immediately if key not valid", but an unknown key gets an entry
  like any other, only without a license (`AuthServer`).
* `MySQLDatabase.cpp:378` says that `mysql_ping` "will attempt to reconnect automatically"; it does so only with
  `auto_reconnect`, which is off by default, and then the server never leaves maintenance.
* `SvClientManager.cpp:59` says "only add observer on auth success"; the handler of ACCOUNT_AUTH sets the flags after
  any answer of its last step.

What the models had to take into account, and a maintainer may want to know:

* The results of the statements of `BeginTransaction` are ignored. If the connection is lost just before and the library
  reconnects, each statement that follows is committed by itself (`bare`). The result of COMMIT is ignored as well: the creation of an
  account may be reported though nothing is stored (`unsure`). A rollback leaves AUTOCOMMIT off, so that what is written
  after it waits for the next transaction; every handler that writes begins one, and its START TRANSACTION commits what
  waits (`NothingPending`, `NothingPends`).
* Twenty matches make a place on the ladder. Of twenty-one equally good matches none counts (`BestMatches`). Who is not on the ladder
  has position 0, which is better than everybody's; an empty ladder divides zero by zero (`Percents`).
* A page of messages is twenty, and invitations nobody answers keep their places on it (`Crowded`). A message that could not be
  stored is pushed with id 0, or lost without notice if its recipient is away (`SendUnstored`).
* A key that was given out by email counts as purchased when its look-up fails (`unchecked`), and an account made by
  hand takes whatever key it first logs in with.
* `mysql_ping` runs on the connection of the main thread. When the two meet, a ping may fail against a healthy database, turn
  maintenance on and have everyone disconnected by the next test (`Collide`).
* A client that is logged in may ask for another account. It keeps its profile, its token changes even if it is refused, and
  the account it was let in to can be logged in to again (`astray`). A request may log in to, or delete, a profile of any account
  (`meddled`).
* A match of another mode ends the streak a specialist medal asks for.
* A socket that is accepted for a known address or a full table is neither stored nor closed (`AcceptKnown`, `TableFull`).

## What is proved

No proof has an assumption beyond those the modules state (`ASSUME`). Each module
finds an inductive invariant, and goes action by action, and under each action by conjuncts.

`ClientManagerProofs`, for every number of slots, connections and addresses, every clock
width and timeouts that satisfy the assumptions of `ClientManager`:

* `Consistency`: the inductive invariant `IInv`. To `TypeOK` and the parts of `SlotsConsistent`
  (`CountMatches`, `OneSlotPerAddress`, `SocketsOwnedOnce`, `FreeSlotsReset`) it adds three facts:
  `AcceptOwns` (a connection in the hands of the accept thread is open and no slot has it),
  `AddIsUnknown` (between the look-up and the addition no slot gets the address: only the accept
  thread adds, which is why the gap in the lock is harmless) and `AgeIsReal` (the modular age of a
  slot is its real age as long as it is not overdue, and an overdue slot is met by the scan before its
  age can come round to zero).
* `TypeCorrect`, `CountCorrect`, `AddressesUnique`, `SocketsCorrect`, `SlotsReset`, `TableConsistent`: the
  invariants, and `DropsJustified`, the action property that no live client is dropped.
* `Refinement`: `Spec => TableSpec`, each step of the client manager is a step of
  `ConnectionTable` or leaves the table alone.

`ClansProofs`, for any profiles and clan ids, and any number of messages, failed queries and
requests that come too late:

* `TypeCorrect`, and `MemoryCorrect`: the two copies of a membership agree. The second is inductive given
  the types, because every handler changes both copies alike or is on record in `lost`.
* `InvitesCorrect`: no invitation outlives its clan. Only `LeaveAsLast` takes a clan away, and the
  pattern by which it deletes invitations matches too many, never too few.
* `RecordsCorrect` and `NobodyCorrect`: no row names a clan that is gone. This is not inductive: who is
  the last member is found by counting rows, but the clan that is left is the one in memory. The
  strengthening `CopiesAgree` says that where the two differ, both clans are on record in `faulted`;
  a leader whose copies agree is among the rows that were counted, so with one row nobody else is left.
  `TracesCorrect` is the two together.
* `LeaderCorrect`: one leader per clan. Its inductive invariant `IInv` adds to `CopiesAgree` that members
  have a rank other than 0 (who may rank whom compares ranks, and 0 would outrank a leader) and that
  rows name only ids the clans table has handed out (a new clan has no members yet).
* `RightsCorrect`: waiting invitations and clan messages, and the player of the week, are those of members
  who may still have them. The strengthening `Rights` puts `CopiesAgree` and `NobodyInAGoneClan` beside it
  and adds `WeeksOver`, that a clan that is gone has no player of the week. Messages sent without the rank for them are excepted, one
  by one (`fit`). The proof is about one clan at a time: a
  clan that is not in `Upset` after a step was not before (`Undisturbed`), and a dismissal, a demotion or
  a handover that fits takes back what the old rank had allowed (`DismissTakesBack`, `RankRights`).

`ServerProofs`, first for any addresses, keys and number of entries, and also for addresses that share a hash:

* `TypeCorrect`, `ListCorrect`, `DelistedCorrect`. The connection an entry belongs to is only known by its hash, and
  a handler always finds the first entry of a hash, so that the invariant has to say that the listed entry *is* the
  first of its hash; with `Ordered` (ids grow with the time of authentication, a license is only held with a
  checked key) it is inductive.

Then for any number of slots, calls of a handler and room on the stack, and a count that can tell that many slots apart:

* `OutageTypeCorrect`, `SurvivalCorrect`. What a `HealthyServer` needs is that before the first outage or collision no emergency is ever
  entered (`NeverLost`): every test and every ping says yes, and no handler finds its client gone. What
  `SurvivesOutages` needs is that without players an emergency is never entered from inside another (`NeverPlayed`: the
  stack has one loop at most), and that only a stranded handler dies. `Testing` and `HasClient` say at which steps of which
  handlers a test is under way, and whose client is still there. The count is only right because each removal is of a slot that is still in use, which is the
  frame's own: `StackIsNested` says that the frames below the innermost have come to a slot.

`SessionsProofs`, for any number of clients, accounts and profiles, whatever is asked for and when:

* `TypeCorrect`, `OnlineCorrect` (across crashes and restarts), `ProfilesCorrect`, and `RegistryCorrect`, the refinement of
  `SessionRegistry`. The invariant relates four pieces of state: two logged-in clients that have not gone astray never have one
  account, an online row is played by somebody, the active profile of an account that has not been meddled with exists
  exactly if the account has profiles, and is its own.

`InstantMessagesProofs`, for any number of profiles, messages, pages and faults:

* `TypeCorrect`, and `MailboxCorrect`, the refinement of `Mailbox`: the strengthening `Acknowledged` says that an
  acknowledgement under way is for a message that was shown.

`StatisticsProofs`, first for any set of the program's rules (lemma `Shapes` reduces the sixteen kinds to what their thresholds have in common):

* `TypeCorrect`, `DeservedCorrect`, `NothingMissedCorrect`, `NeverTakenCorrect`. The strengthening `Standing` relates the award
  to its statistics: a total brings a level as soon as it is enough; a streak grows by one and so meets the levels one after the
  other, which is why level 3 is not missed; stars that take a match each are outnumbered by the matches worth one.

Then about `MatchReports`, for any finite set of players, any scores and histories, any length of the ladder and number of days,
reports and faults. The invariant comes in layers, each proved with `Sound`, the first:

* `ReportTypeCorrect`, from `Sound`: types; at which statement which part of the report is (`Stages`); and that the session sees
  what is stored unless a transaction is open (`SessionAgrees`).
* `PendingCorrect` and the action property `RanksCorrect`, from `RanksSound`. No transaction is open where one is about to begin
  (`AllStored`): after a COMMIT whose result nobody has looked at, after a rollback that leaves AUTOCOMMIT off, after the ranks, whose own
  transactions come and go within the report. `UPDATE ... SET rank` is reached from one statement only, and what it sets is
  bounded by the score and the percentage at once: the new rank is the last that both suffice for, from the old one up
  (`Greatest`). The percentage is turned into a place by the division the code makes. What was found is still deserved when it is
  written and when it is committed, some statements later (`Merits`, `RankUnderway`): nothing else changes rows or ladder meanwhile.
* `WholeCorrect`, in three parts. `StatsSound` says how far the report has got for totals and awards: between the INSERT of a row and
  the UPDATE of its player the total lags by that score, then the award lags by the total (`Halfway`), and whatever of it a
  lost connection takes away goes as a whole. That a sum over a set grows by what is added has no induction in these
  provers: a total is a fold in an unknown order, and the lemmas (`TotalSumsUp` and those after it) show by a counterexample of least
  cardinality that it does not depend on the order. `FriendsSound` says that the pairs counted so far are counted for both sides
  (`Meeting`); the model numbers all pairs with one index, which division and remainder take apart (`DivisionIsUnique`). `ClanSound` says that a clan
  is stored with the rank in it.
* `LadderCorrect`, from `LadderSound`. While the ladder is filled it is sorted, and nobody who is missing has more than the last on it
  (`Listed`); filled, it is complete (`Full`). A stored ladder stays that of the reports up to one of them (`Current`), since later
  rows have greater ids and a ladder is only committed as a whole. That the ladder query finds the best matches of a player, all of
  equal ones or none, is a lemma of its own about `LadderRows` and `BestMatches`, which are defined differently: the one counts
  the matches that are at least as good, as the SQL does, the other looks for the greatest set nothing outside reaches.

`AccountsProofs`, for any emails, keys and number of accounts and faults:

* `TypeCorrect`, `WholeCorrect`, `OwnersCorrect`, `CreatedCorrect`. Any statement may be the last that reaches the server, so
  each fact about the tables is proved of those that are stored and of those the session sees. `SessionAgrees` and `Settled`
  say when the two are the same; `Reserved` that what the checks have found (the email is free, nobody has the key) still holds
  when the transaction writes, since nothing is written in between; `Seen` that a handler whose next statement can still get through
  sees the rows it has written, as a transaction that lost its connection cannot go on; `Complete` that without a lost
  BEGIN what is stored is whole.

`GuestbooksProofs`, for any players, books, pages and number of entries and faults:

* `TypeCorrect`, `ShownCorrect`, `PendingCorrect`, `DeletionCorrect`, `RefreshCorrect`. What is stored and what the session sees may differ, but of the entries
  only by what the request at hand has done and not yet committed (`Settled`): whatever a late COMMIT, a rollback or a lost connection
  makes of them, an entry that goes is one the request may delete (`Allowed`). For `RefreshCorrect` the further invariant
  `Posted` says that ids are not given twice and that the entry of the post at hand has the last one. It is then the newest of its
  book (`NewestIsShown`), and since the query returns no more than a page (`PageIsBounded`: the oldest entry of a larger one would have
  too many before it), sorting by age cuts nothing off.

Every invariant and every property about single steps that a run checks is proved, and so are the three refinements. Model-checked only:
liveness (`client_manager_live`, and the temporal properties of `server_list`, `outage` and `instant_messages`), which needs fairness and
ENABLED. Of the violated property of `outage_everyone` there is nothing to prove.

## Not modelled

Friends, ignore lists, editable variables and optional content write one row for a message and read it back. Of guestbooks the texts and
the names of posters are left out.
The browser and the statistics service filter the server list and the tables and change nothing. Framing and the bit stream are bytes in
one buffer; that a read may begin in the middle of a message is a hazard without a property (`ClientManager` knows only that
data may be no message). Ciphers and hashes are arithmetic that test vectors suit better. Of the account protocol the patch
information and the second token of the game are left out; of instant messages, that a client may go on to another
profile between a message and its acknowledgement on one connection; of clans, names, tags and mottos.

## Plan

1. An abstract `ServerDirectory` that `TrackableServer` implements; the browser's filter as an
   operator checked against a reference over bounded inputs.
2. Friends and ignore lists as a module of their own, on `DatabaseSession`: what deleting a profile leaves of them.
3. Framing: reads that begin or end within a packet, and the buffer all clients share (`SvClientManager.cpp:464`), from whose
   old contents `BuildMessage` fills up a packet that has not come in full.
