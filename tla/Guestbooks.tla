----------------------------- MODULE Guestbooks -----------------------------
(***************************************************************************)
(* Guestbooks: players write entries into books, read them, and delete     *)
(* entries from the book that is theirs.  Profiles and clans have books;   *)
(* the code is the same for both but for two things, which are constants   *)
(* here: which book is whose (a clan's belongs to all its members), and    *)
(* how many of the entries of a page are shown (30 of 32 for profiles).    *)
(*                                                                         *)
(* Each statement is a step, on the session of DatabaseSession.  Handlers  *)
(* run one at a time, in the main thread; what a client asks for may have  *)
(* been decided on long before.                                            *)
(***************************************************************************)
EXTENDS DatabaseSession, FiniteSets

CONSTANTS
    Players,
    Books,
    BookOf,       \* the book a player may delete from
    Page,         \* how many entries a query returns
    Shown,        \* how many of them are sent
    Requests,     \* request ids clients number their entries with
    Ticks,        \* seconds that may pass from one entry to the next
    MaxEntries,   \* bound: entries ever written
    MaxFaults     \* bound: lost connections, failed statements, crashes

ASSUME GuestbooksAssumption ==
    /\ BookOf \in [Players -> Books]
    /\ Page \in Nat \ {0} /\ Shown \in Nat /\ Shown <= Page
    /\ Requests \subseteq Nat /\ Ticks \subseteq Nat
    /\ MaxEntries \in Nat /\ MaxFaults \in Nat

VARIABLES
    at,        \* the statement that is next
    job,       \* what the client has asked for
    poster,    \* posterid of DeleteProfileGuestbookEntry
    answer,    \* the entries that are about to be sent
    nextId,    \* the id of the next entry
    now,       \* the time, in seconds
    faults,    \* how many faults
    writer,    \* history: who wrote an entry, by id
    blind      \* history: the entry to look up was no longer there

handler == <<at, job, poster, answer, blind>>
vars == <<session, handler, nextId, now, faults, writer>>

Statements == {"idle", "test", "auto0", "start", "insert", "delete", "lookup", "purge",
               "status", "commit", "auto1", "rollback", "retest", "read", "send", "excuse"}

NoPlayer == 0

Ids == 1 .. nextId - 1

Entry == [id : Ids, book : Books, poster : Players, time : Nat, request : Requests]

\* status stands for what other handlers write: a player's online status.
Tables == [entries : SUBSET Entry, status : BOOLEAN]

\* A request to delete names any entry the client has ever seen; how to delete
\* all of its poster is the flag that comes with it.
Job == [kind : {"none", "post", "get", "delete", "purge", "status"}, player : Players \cup {NoPlayer},
        book : Books \cup {0}, id : 0 .. nextId - 1, request : Requests \cup {0}, refresh : BOOLEAN]

NoJob == [kind |-> "none", player |-> NoPlayer, book |-> 0, id |-> 0, request |-> 0,
          refresh |-> FALSE]

TypeOK ==
    /\ SessionTypeOK
    /\ stored \in Tables /\ work \in Tables
    /\ at \in Statements /\ job \in Job
    /\ (at = "idle") = (job = NoJob)
    /\ poster \in Players \cup {NoPlayer}
    /\ answer \subseteq Entry
    /\ nextId \in Nat \ {0} /\ now \in Nat
    /\ writer \in [Ids -> Players]
    /\ faults \in 0 .. MaxFaults
    /\ blind \in BOOLEAN

Init ==
    /\ auto_reconnect \in BOOLEAN
    /\ Connected([entries |-> {}, status |-> FALSE])
    /\ at = "idle" /\ job = NoJob /\ poster = NoPlayer /\ answer = {} /\ blind = FALSE
    /\ nextId = 1 /\ now = 1 /\ faults = 0
    /\ writer = << >>

-----------------------------------------------------------------------------
(* Statements *)

\* The server refuses a statement, or the connection turns out to be gone.
Refuse ==
    \/ /\ link = "up" /\ faults < MaxFaults
       /\ faults' = faults + 1
       /\ UNCHANGED session
    \/ /\ FailsOnLink
       /\ UNCHANGED faults

Goto(next) ==
    /\ at' = next
    /\ UNCHANGED <<job, poster, answer, blind>>

Done ==
    /\ at' = "idle" /\ job' = NoJob /\ poster' = NoPlayer /\ answer' = {} /\ blind' = FALSE

\* What follows a transaction: the result of the database is not looked at, and
\* who has posted may want to see the book.
AfterTransaction == IF job.refresh THEN Goto("retest") ELSE Done

-----------------------------------------------------------------------------
(* Requests *)

Ask(new, next) ==
    /\ at = "idle"
    /\ at' = next /\ job' = new
    /\ UNCHANGED <<session, poster, answer, blind, nextId, now, faults, writer>>

\* MESSAGING_PROFILE_GUESTBOOK_POST_REQ, MESSAGING_CLAN_GUESTBOOK_POST_REQ
Post(p, b, request, refresh) ==
    /\ nextId <= MaxEntries
    /\ Ask([kind |-> "post", player |-> p, book |-> b, id |-> 0, request |-> request,
            refresh |-> refresh], "test")

\* MESSAGING_PROFILE_GUESTBOOK_GET_REQ, MESSAGING_CLAN_GUESTBOOK_GET_REQ
Get(p, b) ==
    Ask([NoJob EXCEPT !.kind = "get", !.player = p, !.book = b], "retest")

\* MESSAGING_PROFILE_GUESTBOOK_DELETE_REQ, MESSAGING_CLAN_GUESTBOOK_DELETE_REQ
Delete(p, id, deleteAll) ==
    Ask([NoJob EXCEPT !.kind = IF deleteAll THEN "purge" ELSE "delete",
                      !.player = p, !.book = BookOf[p], !.id = id], "test")

\* A login, a match or a disconnect changes p's status: the profile's observer
\* writes it in a transaction of its own, after which there is nothing to send.
ChangeStatus(p) ==
    Ask([NoJob EXCEPT !.kind = "status", !.player = p], "test")

-----------------------------------------------------------------------------
(* Transactions *)

\* A connection that is lost disconnects everyone, who then get no answer.
TestDatabase ==
    /\ at = "test"
    /\ \/ Touch /\ Goto("auto0")
       \/ FailsOnLink /\ AfterTransaction
    /\ UNCHANGED <<nextId, now, faults, writer>>

BeginOff ==
    /\ at = "auto0"
    /\ SetAutocommitOff \/ FailsOnLink
    /\ Goto("start")
    /\ UNCHANGED <<nextId, now, faults, writer>>

BeginStart ==
    /\ at = "start"
    /\ StartTransaction \/ FailsOnLink
    /\ Goto(CASE job.kind = "post" -> "insert"
              [] job.kind = "delete" -> "delete"
              [] job.kind = "purge" -> "lookup"
              [] job.kind = "status" -> "status")
    /\ UNCHANGED <<nextId, now, faults, writer>>

Fail ==
    /\ at \in {"insert", "delete", "purge", "status"}
    /\ Refuse
    /\ Goto("rollback")
    /\ UNCHANGED <<nextId, now, writer>>

RollbackTransaction ==
    /\ at = "rollback"
    /\ Rollback \/ FailsOnLink
    /\ AfterTransaction
    /\ UNCHANGED <<nextId, now, faults, writer>>

\* Mutant: COMMIT is not sent.
CommitForgotten ==
    /\ at = "commit"
    /\ Touch \/ FailsOnLink
    /\ AfterTransaction
    /\ UNCHANGED <<nextId, now, faults, writer>>

CommitFirst ==
    /\ at = "commit"
    /\ Commit \/ FailsOnLink
    /\ Goto("auto1")
    /\ UNCHANGED <<nextId, now, faults, writer>>

CommitSecond ==
    /\ at = "auto1"
    /\ SetAutocommitOn \/ FailsOnLink
    /\ AfterTransaction
    /\ UNCHANGED <<nextId, now, faults, writer>>

-----------------------------------------------------------------------------
(* Entries *)

\* AddProfileGuestbookEntry, AddClanGuestbookEntry
InsertEntry ==
    /\ at = "insert"
    /\ \E t \in Ticks : now' = now + t
    /\ Execute([work EXCEPT !.entries = @ \cup
                  {[id |-> nextId, book |-> job.book, poster |-> job.player,
                    time |-> now', request |-> job.request]}])
    /\ nextId' = nextId + 1
    /\ writer' = [id \in 1 .. nextId |-> IF id = nextId THEN job.player ELSE writer[id]]
    /\ at' = "commit" /\ job' = [job EXCEPT !.id = nextId]
    /\ UNCHANGED <<poster, answer, blind, faults>>

\* Mutant: the deletion returns without its commit.
DeleteEntryAndReturn ==
    /\ at = "delete"
    /\ Execute([work EXCEPT !.entries = {e \in @ : ~(e.id = job.id /\ e.book = job.book)}])
    /\ AfterTransaction
    /\ UNCHANGED <<nextId, now, faults, writer>>

\* DeleteProfileGuestbookEntry, DeleteClanGuestbookEntry
DeleteEntry ==
    /\ at = "delete"
    /\ Execute([work EXCEPT !.entries = {e \in @ : ~(e.id = job.id /\ e.book = job.book)}])
    /\ Goto("commit")
    /\ UNCHANGED <<nextId, now, faults, writer>>

\* The same with deleteAllByProfile, "get poster id by message id".  When there is
\* no such entry any more, posterid is what happens to be on the stack.
LookUpPoster ==
    /\ at = "lookup"
    /\ Execute(work)
    /\ poster' \in IF \E e \in work.entries : e.id = job.id
                   THEN {e.poster : e \in {x \in work.entries : x.id = job.id}}
                   ELSE Players \cup {NoPlayer}
    /\ blind' = ~\E e \in work.entries : e.id = job.id
    /\ at' = "purge"
    /\ UNCHANGED <<job, answer, nextId, now, faults, writer>>

\* The transaction is left open.
LookUpFails ==
    /\ at = "lookup"
    /\ Refuse
    /\ Done
    /\ UNCHANGED <<nextId, now, writer>>

\* Mutant: the poster's entries are deleted from all books.
PurgePosterAnywhere ==
    /\ at = "purge"
    /\ Execute([work EXCEPT !.entries = {e \in @ : e.poster # poster}])
    /\ Goto("commit")
    /\ UNCHANGED <<nextId, now, faults, writer>>

PurgePoster ==
    /\ at = "purge"
    /\ Execute([work EXCEPT !.entries = {e \in @ : ~(e.book = job.book /\ e.poster = poster)}])
    /\ Goto("commit")
    /\ UNCHANGED <<nextId, now, faults, writer>>

\* UpdateProfileOnlineStatus
UpdateStatus ==
    /\ at = "status"
    /\ Execute([work EXCEPT !.status = ~@])
    /\ Goto("commit")
    /\ UNCHANGED <<nextId, now, faults, writer>>

-----------------------------------------------------------------------------
(* Reading a book *)

RetestDatabase ==
    /\ at = "retest"
    /\ \/ Touch /\ Goto("read")
       \/ FailsOnLink /\ Done
    /\ UNCHANGED <<nextId, now, faults, writer>>

\* The first n of the entries es, when order says which comes first.
First(es, n, before(_, _)) ==
    {e \in es : Cardinality({x \in es : before(x, e)}) < n}

Newer(e, f) == e.id > f.id

Older(e, f) == e.id < f.id

\* Entries of one second are shown by the number the client gave them; where
\* this is the same the server may choose, for which the id is taken here.
Earlier(e, f) ==
    \/ e.time < f.time
    \/ e.time = f.time /\ e.request < f.request
    \/ e.time = f.time /\ e.request = f.request /\ e.id < f.id

InBook(b) == {e \in work.entries : e.book = b}

\* Mutant: ORDER BY id ASC.
OldestPage(b) == First(First(InBook(b), Page, Older), Shown, Earlier)

\* QueryProfileGuestbook, QueryClanGuestbook
PageOf(b) == First(First(InBook(b), Page, Newer), Shown, Earlier)

ReadBook ==
    /\ at = "read"
    /\ Execute(work)
    /\ answer' = PageOf(job.book)
    /\ at' = "send"
    /\ UNCHANGED <<job, poster, blind, nextId, now, faults, writer>>

\* A book that cannot be read is sent as an empty one.
ReadFails ==
    /\ at = "read"
    /\ Refuse
    /\ Goto("excuse")
    /\ UNCHANGED <<nextId, now, writer>>

Send ==
    /\ at \in {"send", "excuse"}
    /\ Done
    /\ UNCHANGED <<session, nextId, now, faults, writer>>

-----------------------------------------------------------------------------
(* The rest of the world *)

Lose ==
    /\ faults < MaxFaults
    /\ LinkLost
    /\ faults' = faults + 1
    /\ UNCHANGED <<handler, nextId, now, writer>>

Crash ==
    /\ faults < MaxFaults
    /\ NewSession
    /\ faults' = faults + 1
    /\ Done
    /\ UNCHANGED <<nextId, now, writer>>

HandleMessage(p) ==
    \/ \E b \in Books, request \in Requests, refresh \in BOOLEAN : Post(p, b, request, refresh)
    \/ \E b \in Books : Get(p, b)
    \/ \E id \in Ids, deleteAll \in BOOLEAN : Delete(p, id, deleteAll)
    \/ ChangeStatus(p)

Next ==
    \/ \E p \in Players : HandleMessage(p)
    \/ TestDatabase \/ BeginOff \/ BeginStart
    \/ InsertEntry \/ DeleteEntry \/ LookUpPoster \/ LookUpFails \/ PurgePoster
    \/ UpdateStatus \/ Fail \/ RollbackTransaction \/ CommitFirst \/ CommitSecond
    \/ RetestDatabase \/ ReadBook \/ ReadFails \/ Send
    \/ Lose \/ Crash

Spec == Init /\ [][Next]_vars

-----------------------------------------------------------------------------
(* Properties *)

\* What a deletion is for: the entry itself or, if so asked, all of its writer.
\* When the entry is gone before it is looked up, anyone's may be taken for it.
Meant(e) ==
    \/ e.id = job.id
    \/ job.kind = "purge" /\ (blind \/ writer[e.id] = writer[job.id])

\* An entry only disappears while a request to delete it is handled that comes
\* from an owner of its book: not by a late COMMIT, nor from another's book.
OwnersDelete ==
    [][\A e \in stored.entries \ stored'.entries :
          job.kind \in {"delete", "purge"} /\ e.book = BookOf[job.player] /\ Meant(e)]_vars

\* No entry is shown that is not there to stay: neither one whose transaction is
\* still open, nor one that was lost with the connection.
ShownIsStored == at = "send" => answer \subseteq stored.entries

\* Who posts and asks for the book is shown the new entry, if it was stored: the
\* page is of the newest.  Where not all of it is sent the newest are left out.
RefreshShowsPost ==
    Shown = Page /\ at = "send" /\ job.kind = "post" =>
        \A e \in stored.entries : e.id = job.id => e \in answer

\* Between two requests everything written is stored or taken back, however the
\* request ended: a handler that leaves its transaction open has written nothing
\* in it, and what the next one writes there its own COMMIT stores.
NothingPends == at = "idle" => stored = work
=============================================================================
