-------------------------- MODULE GuestbooksProofs --------------------------
(***************************************************************************)
(* Proofs about Guestbooks, for any players, books and number of entries   *)
(* and faults.                                                             *)
(*                                                                         *)
(* What is stored and what the session sees differ only by the statement   *)
(* of the request that is handled, and only until its COMMIT is sent, even *)
(* where a handler that failed has left a transaction open.                *)
(*                                                                         *)
(* That a post is shown to who asks for it also takes that ids are not     *)
(* given twice, that the post at hand has the last one, and that a query   *)
(* for the newest of them returns no more than a page.                     *)
(***************************************************************************)
EXTENDS Guestbooks, FiniteSetTheorems, NaturalsInduction, WellFoundedInduction, TLAPS

-----------------------------------------------------------------------------
(* The inductive invariant *)

\* The session sees what is stored unless a transaction is open, and whenever it
\* has lost the connection.
SessionAgrees ==
    /\ ~open => work = stored
    /\ link = "lost" => work = stored

\* Where the handler is.
Place ==
    /\ job.kind \in {"delete", "purge"} =>
        job.player \in Players /\ job.book = BookOf[job.player] /\ job.id \in Ids
    /\ job.kind = "post" => job.player \in Players /\ job.book \in Books /\ job.request \in Requests
    /\ at \in {"test", "auto0", "start"} => job.kind \in {"post", "delete", "purge", "status"}
    /\ at = "insert" => job.kind = "post"
    /\ at = "delete" => job.kind = "delete"
    /\ at = "status" => job.kind = "status"
    /\ at \in {"lookup", "purge"} => job.kind = "purge"

\* The entries are those their writers wrote, and the poster is who it should be.
Written ==
    /\ \A e \in stored.entries \cup work.entries : e.poster = writer[e.id]
    /\ at = "purge" => blind \/ poster = writer[job.id]

\* An entry this request may delete.
Allowed(e) ==
    job.kind \in {"delete", "purge"} /\ e.book = BookOf[job.player] /\ Meant(e)

\* The tables differ only by what the request has done and not yet committed.
Settled ==
    /\ at # "commit" => work = stored
    /\ \A e \in stored.entries \ work.entries : Allowed(e)

IInv ==
    /\ TypeOK
    /\ SessionAgrees /\ Place /\ Written /\ Settled
    /\ ShownIsStored

-----------------------------------------------------------------------------
(* The session *)

\* A statement that writes nothing leaves the tables as they are, or commits what
\* the session has seen.
LEMMA QuietStep ==
    ASSUME SessionTypeOK, SessionAgrees,
           \/ Touch \/ SetAutocommitOff \/ FailsOnLink \/ Execute(work)
           \/ UNCHANGED session
    PROVE  /\ SessionTypeOK' /\ SessionAgrees'
           /\ work' = work /\ stored' \in {stored, work}
BY DEF SessionTypeOK, SessionAgrees, Touch, SetAutocommitOff, FailsOnLink, Execute,
       Reaches, session

\* So do the ends of a transaction, after which nothing is open to doubt.
LEMMA BoundaryStep ==
    ASSUME SessionTypeOK, SessionAgrees,
           StartTransaction \/ Commit \/ SetAutocommitOn \/ Rollback \/ LinkLost \/ NewSession
    PROVE  /\ SessionTypeOK' /\ SessionAgrees'
           /\ work' = stored' /\ stored' \in {stored, work}
BY DEF SessionTypeOK, SessionAgrees, StartTransaction, Commit, SetAutocommitOn, Rollback,
       LinkLost, NewSession, Reaches

\* A write is stored at once, or with the transaction.
LEMMA WriteStep ==
    ASSUME NEW new, SessionTypeOK, SessionAgrees, Execute(new)
    PROVE  /\ SessionTypeOK' /\ SessionAgrees'
           /\ work' = new /\ stored' = IF open' THEN stored ELSE new
BY DEF SessionTypeOK, SessionAgrees, Execute, Reaches

\* Where no statement waits to be committed, the tables stay.
LEMMA Kept ==
    ASSUME IInv, at # "commit", UNCHANGED <<nextId, now, writer>>,
           \/ Touch \/ SetAutocommitOff \/ FailsOnLink \/ Execute(work)
           \/ UNCHANGED session
           \/ StartTransaction \/ Commit \/ SetAutocommitOn \/ Rollback \/ LinkLost \/ NewSession
    PROVE  /\ SessionTypeOK' /\ SessionAgrees'
           /\ stored' \in Tables' /\ work' \in Tables'
           /\ nextId' \in Nat \ {0} /\ now' \in Nat /\ writer' \in [Ids' -> Players] /\ Ids' = Ids
           /\ Entry' = Entry /\ Job' = Job
           /\ stored = work /\ work' = work /\ stored' = work
<1>1. SessionTypeOK /\ SessionAgrees /\ stored \in Tables /\ work \in Tables
  BY DEF IInv, TypeOK
<1>2. stored = work
  BY DEF IInv, Settled
<1>3. Ids' = Ids /\ Entry' = Entry /\ Tables' = Tables /\ Job' = Job
  BY DEF Ids, Entry, Tables, Job
<1>4. nextId' \in Nat \ {0} /\ now' \in Nat /\ writer' \in [Ids' -> Players]
  BY <1>3 DEF IInv, TypeOK
<1>5. /\ SessionTypeOK' /\ SessionAgrees'
      /\ stored' \in {stored, work} /\ work' \in {stored, work}
  BY <1>1, QuietStep, BoundaryStep
<1>. QED
  BY <1>1, <1>2, <1>3, <1>4, <1>5

-----------------------------------------------------------------------------
(* The steps of a handler *)

\* A handler that goes on, with the same request, to a statement that suits it.
LEMMA GoesOn ==
    ASSUME IInv, NEW next \in Statements \ {"idle", "purge", "send", "commit"}, Goto(next),
           at \notin {"idle", "commit"}, UNCHANGED <<nextId, now, writer>>,
           \/ Touch \/ SetAutocommitOff \/ FailsOnLink \/ Execute(work)
           \/ UNCHANGED session
           \/ StartTransaction \/ Commit \/ SetAutocommitOn \/ Rollback,
           faults' \in 0 .. MaxFaults,
           next \in {"test", "auto0", "start"} => job.kind \in {"post", "delete", "purge", "status"},
           next = "insert" => job.kind = "post",
           next = "delete" => job.kind = "delete",
           next = "status" => job.kind = "status",
           next = "lookup" => job.kind = "purge"
    PROVE  IInv'
<1>1. /\ job' = job /\ at' = next /\ poster' = poster /\ answer' = answer /\ blind' = blind
      /\ nextId' = nextId /\ now' = now /\ writer' = writer
  BY DEF Goto
<1>2. /\ SessionTypeOK' /\ SessionAgrees'
      /\ stored' \in Tables' /\ work' \in Tables'
      /\ nextId' \in Nat \ {0} /\ now' \in Nat /\ writer' \in [Ids' -> Players] /\ Ids' = Ids
      /\ Entry' = Entry /\ Job' = Job
      /\ stored = work /\ work' = work /\ stored' = work
  BY Kept
<1>3. TypeOK'
  BY <1>1, <1>2 DEF IInv, TypeOK
<1>4. Place'
  BY <1>1, <1>2 DEF IInv, Place
<1>5. Written'
  BY <1>1, <1>2 DEF IInv, Written
<1>6. Settled' /\ ShownIsStored'
  BY <1>1, <1>2 DEF Settled, ShownIsStored
<1>. QED
  BY <1>2, <1>3, <1>4, <1>5, <1>6 DEF IInv

\* A handler that ends.
LEMMA Ends ==
    ASSUME IInv, Done, at # "commit", UNCHANGED <<nextId, now, writer>>,
           \/ Touch \/ SetAutocommitOff \/ FailsOnLink \/ Execute(work)
           \/ UNCHANGED session
           \/ StartTransaction \/ Commit \/ SetAutocommitOn \/ Rollback,
           faults' \in 0 .. MaxFaults
    PROVE  IInv'
<1>1. /\ job' = NoJob /\ at' = "idle" /\ poster' = NoPlayer /\ answer' = {} /\ blind' = FALSE
      /\ nextId' = nextId /\ now' = now /\ writer' = writer
  BY DEF Done
<1>2. /\ SessionTypeOK' /\ SessionAgrees'
      /\ stored' \in Tables' /\ work' \in Tables'
      /\ nextId' \in Nat \ {0} /\ now' \in Nat /\ writer' \in [Ids' -> Players] /\ Ids' = Ids
      /\ Entry' = Entry /\ Job' = Job
      /\ stored = work /\ work' = work /\ stored' = work
  BY Kept
<1>3. NoJob \in Job
  BY DEF NoJob, Job, IInv, TypeOK
<1>4. TypeOK'
  BY <1>1, <1>2, <1>3 DEF TypeOK, Statements
<1>5. Place'
  BY <1>1, <1>2 DEF Place, NoJob
<1>6. Written'
  BY <1>1, <1>2 DEF IInv, Written
<1>7. Settled' /\ ShownIsStored'
  BY <1>1, <1>2 DEF Settled, ShownIsStored
<1>. QED
  BY <1>2, <1>4, <1>5, <1>6, <1>7 DEF IInv

\* What comes after a transaction.
LEMMA Afterwards ==
    ASSUME IInv, AfterTransaction, at \notin {"idle", "commit"}, UNCHANGED <<nextId, now, writer>>,
           Touch \/ FailsOnLink \/ SetAutocommitOn \/ Rollback,
           faults' \in 0 .. MaxFaults
    PROVE  IInv'
<1>1. CASE job.refresh
  <2>1. Goto("retest")
    BY <1>1 DEF AfterTransaction
  <2>. QED
    BY <2>1, GoesOn DEF Statements
<1>2. CASE ~job.refresh
  <2>1. Done
    BY <1>2 DEF AfterTransaction
  <2>. QED
    BY <2>1, Ends
<1>. QED
  BY <1>1, <1>2

\* A refused statement leaves the session as it was, or finds the connection lost.
LEMMA Refused ==
    ASSUME TypeOK, Refuse
    PROVE  /\ FailsOnLink \/ UNCHANGED session
           /\ faults' \in 0 .. MaxFaults
BY GuestbooksAssumption DEF TypeOK, Refuse

-----------------------------------------------------------------------------
(* Every step *)

\* Every step keeps the invariant: a request comes in,
LEMMA RequestStep ==
    ASSUME IInv, NEW p \in Players, HandleMessage(p)
    PROVE  IInv'
<1>1. /\ at = "idle" /\ at' \in {"test", "retest"}
      /\ UNCHANGED <<session, poster, answer, blind, nextId, now, faults, writer>>
  BY DEF HandleMessage, Post, Get, Delete, ChangeStatus, Ask
<1>2. /\ job' \in Job /\ job' # NoJob
      /\ at' = "test" => job'.kind # "get"
      /\ job'.kind \in {"post", "get", "delete", "purge", "status"} /\ job'.player \in Players
      /\ job'.kind \in {"delete", "purge"} => job'.book = BookOf[job'.player] /\ job'.id \in Ids
      /\ job'.kind = "post" => job'.book \in Books /\ job'.request \in Requests
  <2>1. Ids \subseteq 0 .. nextId - 1 /\ 0 \in 0 .. nextId - 1
    BY DEF IInv, TypeOK, Ids
  <2>2. CASE \E b \in Books, request \in Requests, refresh \in BOOLEAN : Post(p, b, request, refresh)
    BY <2>1, <2>2 DEF Post, Ask, Job, NoJob
  <2>3. CASE \E b \in Books : Get(p, b)
    <3>1. PICK b \in Books :
             job' = [kind |-> "get", player |-> p, book |-> b, id |-> 0, request |-> 0,
                     refresh |-> FALSE] /\ at' = "retest"
      BY <2>3 DEF Get, Ask, NoJob
    <3>. QED
      BY <2>1, <3>1 DEF Job, NoJob
  <2>4. CASE \E id \in Ids, deleteAll \in BOOLEAN : Delete(p, id, deleteAll)
    <3>1. PICK id \in Ids, kind \in {"delete", "purge"} :
             job' = [kind |-> kind, player |-> p, book |-> BookOf[p], id |-> id, request |-> 0,
                     refresh |-> FALSE]
      BY <2>4 DEF Delete, Ask, NoJob
    <3>. QED
      BY <2>1, <3>1, GuestbooksAssumption DEF Job, NoJob
  <2>5. CASE ChangeStatus(p)
    <3>1. job' = [kind |-> "status", player |-> p, book |-> 0, id |-> 0, request |-> 0,
                  refresh |-> FALSE]
      BY <2>5 DEF ChangeStatus, Ask, NoJob
    <3>. QED
      BY <2>1, <3>1 DEF Job, NoJob
  <2>. QED
    BY <2>2, <2>3, <2>4, <2>5 DEF HandleMessage
<1>3. Ids' = Ids /\ Entry' = Entry /\ Tables' = Tables /\ Job' = Job
  BY <1>1 DEF Ids, Entry, Tables, Job
<1>4. TypeOK'
  BY <1>1, <1>2, <1>3 DEF IInv, TypeOK, SessionTypeOK, session, Statements
<1>5. SessionAgrees'
  BY <1>1 DEF IInv, SessionAgrees, session
<1>6. Place'
  BY <1>1, <1>2, <1>3 DEF Place
<1>7. Written' /\ Settled' /\ ShownIsStored'
  BY <1>1 DEF IInv, Written, Settled, ShownIsStored, session
<1>. QED
  BY <1>4, <1>5, <1>6, <1>7 DEF IInv

\* the connection is tested,
LEMMA TestStep ==
    ASSUME IInv, TestDatabase \/ RetestDatabase
    PROVE  IInv'
<1>. USE DEF Statements
<1>1. UNCHANGED <<nextId, now, faults, writer>>
  BY DEF TestDatabase, RetestDatabase
<1>2. faults' \in 0 .. MaxFaults
  BY <1>1 DEF IInv, TypeOK
<1>3. CASE TestDatabase /\ Touch /\ Goto("auto0")
  <2>1. at = "test" /\ job.kind \in {"post", "delete", "purge", "status"}
    BY <1>3 DEF TestDatabase, IInv, Place
  <2>. QED
    BY <1>1, <1>2, <1>3, <2>1, GoesOn
<1>4. CASE TestDatabase /\ FailsOnLink /\ AfterTransaction
  <2>1. at = "test"
    BY <1>4 DEF TestDatabase
  <2>. QED
    BY <1>1, <1>2, <1>4, <2>1, Afterwards
<1>5. CASE RetestDatabase /\ Touch /\ Goto("read")
  <2>1. at = "retest"
    BY <1>5 DEF RetestDatabase
  <2>. QED
    BY <1>1, <1>2, <1>5, <2>1, GoesOn
<1>6. CASE RetestDatabase /\ FailsOnLink /\ Done
  <2>1. at = "retest"
    BY <1>6 DEF RetestDatabase
  <2>. QED
    BY <1>1, <1>2, <1>6, <2>1, Ends
<1>. QED
  BY <1>3, <1>4, <1>5, <1>6 DEF TestDatabase, RetestDatabase

\* a transaction begins,
LEMMA BeginStep ==
    ASSUME IInv, BeginOff \/ BeginStart
    PROVE  IInv'
<1>. USE DEF Statements
<1>1. UNCHANGED <<nextId, now, faults, writer>> /\ at \in {"auto0", "start"}
  BY DEF BeginOff, BeginStart
<1>2. faults' \in 0 .. MaxFaults
  BY <1>1 DEF IInv, TypeOK
<1>3. job.kind \in {"post", "delete", "purge", "status"}
  BY <1>1 DEF IInv, Place
<1>4. CASE BeginOff
  BY <1>1, <1>2, <1>3, <1>4, GoesOn DEF BeginOff
<1>5. CASE BeginStart
  <2>. DEFINE next == CASE job.kind = "post" -> "insert"
                        [] job.kind = "delete" -> "delete"
                        [] job.kind = "purge" -> "lookup"
                        [] job.kind = "status" -> "status"
  <2>1. /\ next \in {"insert", "delete", "lookup", "status"}
        /\ next = "insert" => job.kind = "post"
        /\ next = "delete" => job.kind = "delete"
        /\ next = "lookup" => job.kind = "purge"
        /\ next = "status" => job.kind = "status"
    BY <1>3
  <2>2. Goto(next) /\ (StartTransaction \/ FailsOnLink)
    BY <1>5 DEF BeginStart
  <2>. QED
    BY <1>1, <1>2, <2>1, <2>2, GoesOn
<1>. QED
  BY <1>4, <1>5

\* a statement fails and the transaction is rolled back or left open,
LEMMA FailStep ==
    ASSUME IInv, Fail \/ LookUpFails \/ ReadFails \/ RollbackTransaction
    PROVE  IInv'
<1>. USE DEF Statements
<1>1. CASE Fail
  BY <1>1, Refused, GoesOn DEF Fail, IInv, TypeOK
<1>2. CASE LookUpFails
  BY <1>2, Refused, Ends DEF LookUpFails, IInv, TypeOK
<1>3. CASE ReadFails
  BY <1>3, Refused, GoesOn DEF ReadFails, IInv, TypeOK
<1>4. CASE RollbackTransaction
  BY <1>4, Afterwards DEF RollbackTransaction, IInv, TypeOK
<1>. QED
  BY <1>1, <1>2, <1>3, <1>4

\* the transaction is committed,
LEMMA CommitStep ==
    ASSUME IInv, CommitFirst \/ CommitSecond
    PROVE  IInv'
<1>. USE DEF Statements
<1>1. CASE CommitFirst
  <2>1. /\ at = "commit" /\ at' = "auto1"
        /\ job' = job /\ poster' = poster /\ answer' = answer /\ blind' = blind
        /\ UNCHANGED <<nextId, now, faults, writer>>
    BY <1>1 DEF CommitFirst, Goto
  <2>2. /\ SessionTypeOK' /\ SessionAgrees' /\ work' = stored' /\ stored' \in {stored, work}
    <3>1. CASE Commit
      BY <3>1, BoundaryStep DEF IInv, TypeOK
    <3>2. CASE FailsOnLink
      BY <3>2, QuietStep DEF IInv, TypeOK, SessionAgrees, FailsOnLink
    <3>. QED
      BY <1>1, <3>1, <3>2 DEF CommitFirst
  <2>3. Ids' = Ids /\ Entry' = Entry /\ Tables' = Tables /\ Job' = Job
    BY <2>1 DEF Ids, Entry, Tables, Job
  <2>4. TypeOK'
    BY <2>1, <2>2, <2>3 DEF IInv, TypeOK
  <2>5. Place'
    BY <2>1, <2>3 DEF IInv, Place
  <2>6. Written'
    BY <2>1, <2>2 DEF IInv, Written
  <2>7. Settled' /\ ShownIsStored'
    BY <2>1, <2>2 DEF Settled, ShownIsStored
  <2>. QED
    BY <2>2, <2>4, <2>5, <2>6, <2>7 DEF IInv
<1>2. CASE CommitSecond
  BY <1>2, Afterwards DEF CommitSecond, IInv, TypeOK
<1>. QED
  BY <1>1, <1>2

\* an entry is written,
LEMMA InsertStep ==
    ASSUME IInv, InsertEntry
    PROVE  IInv'
<1>. USE DEF Statements
<1>. DEFINE e == [id |-> nextId, book |-> job.book, poster |-> job.player,
                  time |-> now', request |-> job.request]
            new == [work EXCEPT !.entries = @ \cup {e}]
<1>1. /\ at = "insert" /\ at' = "commit" /\ job' = [job EXCEPT !.id = nextId]
      /\ UNCHANGED <<poster, answer, blind, faults>>
      /\ nextId' = nextId + 1 /\ Execute(new)
      /\ writer' = [id \in 1 .. nextId |-> IF id = nextId THEN job.player ELSE writer[id]]
  BY DEF InsertEntry
<1>2. nextId \in Nat \ {0} /\ now \in Nat /\ now' \in Nat
  BY GuestbooksAssumption DEF InsertEntry, IInv, TypeOK
<1>3. job.kind = "post" /\ job.player \in Players /\ job.book \in Books /\ job.request \in Requests
  BY <1>1 DEF IInv, Place
<1>4. Ids' = Ids \cup {nextId} /\ nextId \notin Ids /\ Ids' = 1 .. nextId
  BY <1>1, <1>2 DEF Ids
<1>5. writer' \in [Ids' -> Players] /\ \A id \in Ids : writer'[id] = writer[id]
  BY <1>1, <1>3, <1>4 DEF IInv, TypeOK
<1>6. Entry \subseteq Entry' /\ e \in Entry'
  BY <1>2, <1>3, <1>4 DEF Entry
<1>7. work = stored /\ work \in Tables /\ stored \in Tables
  BY <1>1 DEF IInv, Settled, TypeOK
<1>8. /\ SessionTypeOK' /\ SessionAgrees'
      /\ work' = new /\ stored' \in {stored, new}
  BY <1>1, WriteStep DEF IInv, TypeOK
<1>9. work' \in Tables' /\ stored' \in Tables' /\ work'.entries = work.entries \cup {e}
  BY <1>6, <1>7, <1>8 DEF Tables
<1>10. job' \in Job' /\ job' # NoJob /\ job'.kind = "post"
       /\ job'.player = job.player /\ job'.book = job.book /\ job'.request = job.request
  <2>1. job \in Job /\ job # NoJob
    BY <1>1 DEF IInv, TypeOK
  <2>2. nextId \in 0 .. nextId' - 1 /\ 0 .. nextId - 1 \subseteq 0 .. nextId' - 1
    BY <1>1, <1>2
  <2>. QED
    BY <1>1, <1>3, <2>1, <2>2 DEF Job, NoJob
<1>11. TypeOK'
  BY <1>1, <1>2, <1>5, <1>6, <1>8, <1>9, <1>10 DEF IInv, TypeOK
<1>12. Place'
  BY <1>1, <1>3, <1>10 DEF Place
<1>13. Written'
  <2>1. \A x \in work.entries : x.id \in Ids /\ x.poster = writer[x.id]
    BY <1>7 DEF IInv, Written, Tables, Entry
  <2>2. e.poster = writer'[e.id]
    BY <1>1, <1>2
  <2>. QED
    BY <1>1, <1>5, <1>7, <1>8, <1>9, <2>1, <2>2 DEF Written
<1>14. Settled' /\ ShownIsStored'
  BY <1>1, <1>7, <1>8, <1>9 DEF Settled, ShownIsStored
<1>. QED
  BY <1>8, <1>11, <1>12, <1>13, <1>14 DEF IInv

\* What a deletion deletes it may delete.
LEMMA Removal ==
    ASSUME IInv, DeleteEntry \/ PurgePoster
    PROVE  \E kept \in SUBSET work.entries :
              /\ Execute([work EXCEPT !.entries = kept])
              /\ \A e \in work.entries \ kept : Allowed(e)
<1>0. job.kind \in {"delete", "purge"} /\ job.book = BookOf[job.player]
  BY DEF DeleteEntry, PurgePoster, IInv, Place
<1>1. CASE DeleteEntry
  <2>. DEFINE kept == {e \in work.entries : ~(e.id = job.id /\ e.book = job.book)}
  <2>1. Execute([work EXCEPT !.entries = kept])
    BY <1>1 DEF DeleteEntry
  <2>2. \A e \in work.entries \ kept : Allowed(e)
    BY <1>0 DEF Allowed, Meant
  <2>. QED
    BY <2>1, <2>2
<1>2. CASE PurgePoster
  <2>. DEFINE kept == {e \in work.entries : ~(e.book = job.book /\ e.poster = poster)}
  <2>1. Execute([work EXCEPT !.entries = kept]) /\ at = "purge"
    BY <1>2 DEF PurgePoster
  <2>2. \A e \in work.entries : e.poster = writer[e.id]
    BY DEF IInv, Written
  <2>3. blind \/ poster = writer[job.id]
    BY <2>1 DEF IInv, Written
  <2>4. job.kind = "purge"
    BY <2>1 DEF IInv, Place
  <2>5. \A e \in work.entries \ kept : Allowed(e)
    BY <1>0, <2>2, <2>3, <2>4 DEF Allowed, Meant
  <2>. QED
    BY <2>1, <2>5
<1>. QED
  BY <1>1, <1>2

\* entries are deleted,
LEMMA RemoveStep ==
    ASSUME IInv, DeleteEntry \/ PurgePoster
    PROVE  IInv'
<1>. USE DEF Statements
<1>1. /\ at \in {"delete", "purge"} /\ at' = "commit"
      /\ UNCHANGED <<job, poster, answer, blind, nextId, now, faults, writer>>
  BY DEF DeleteEntry, PurgePoster, Goto
<1>2. /\ job.kind \in {"delete", "purge"}
      /\ job.book = BookOf[job.player] /\ job.player \in Players
  BY <1>1 DEF IInv, Place
<1>3. work = stored /\ work \in Tables /\ stored \in Tables
  BY <1>1 DEF IInv, Settled, TypeOK
<1>4. PICK kept \in SUBSET work.entries :
         /\ Execute([work EXCEPT !.entries = kept])
         /\ \A e \in work.entries \ kept : Allowed(e)
  BY Removal
<1>. DEFINE new == [work EXCEPT !.entries = kept]
<1>5. new \in Tables /\ new.entries = kept
  BY <1>3 DEF Tables
<1>6. /\ SessionTypeOK' /\ SessionAgrees'
      /\ work' = new /\ stored' \in {stored, new}
  BY <1>4, WriteStep DEF IInv, TypeOK
<1>7. Ids' = Ids /\ Entry' = Entry /\ Tables' = Tables /\ Job' = Job
  BY <1>1 DEF Ids, Entry, Tables, Job
<1>8. TypeOK'
  BY <1>1, <1>3, <1>5, <1>6, <1>7 DEF IInv, TypeOK
<1>9. Place'
  BY <1>1, <1>2, <1>7 DEF IInv, Place
<1>10. Written'
  BY <1>1, <1>3, <1>5, <1>6 DEF IInv, Written
<1>11. Settled'
  BY <1>1, <1>3, <1>4, <1>5, <1>6 DEF Settled, Allowed, Meant
<1>12. ShownIsStored'
  BY <1>1 DEF ShownIsStored
<1>. QED
  BY <1>6, <1>8, <1>9, <1>10, <1>11, <1>12 DEF IInv

\* a status is written,
LEMMA StatusStep ==
    ASSUME IInv, UpdateStatus
    PROVE  IInv'
<1>. USE DEF Statements
<1>. DEFINE new == [work EXCEPT !.status = ~@]
<1>1. /\ at = "status" /\ at' = "commit" /\ Execute(new)
      /\ UNCHANGED <<job, poster, answer, blind, nextId, now, faults, writer>>
  BY DEF UpdateStatus, Goto
<1>2. work = stored /\ work \in Tables /\ stored \in Tables
  BY <1>1 DEF IInv, Settled, TypeOK
<1>3. new \in Tables /\ new.entries = work.entries
  BY <1>2 DEF Tables
<1>4. SessionTypeOK' /\ SessionAgrees' /\ work' = new /\ stored' \in {stored, new}
  BY <1>1, WriteStep DEF IInv, TypeOK
<1>. HIDE DEF new
<1>5. Ids' = Ids /\ Entry' = Entry /\ Tables' = Tables /\ Job' = Job
  BY <1>1 DEF Ids, Entry, Tables, Job
<1>6. work'.entries = stored.entries /\ stored'.entries = stored.entries
  BY <1>2, <1>3, <1>4
<1>7. TypeOK'
  BY <1>1, <1>2, <1>3, <1>4, <1>5 DEF IInv, TypeOK
<1>8. Place'
  BY <1>1, <1>5 DEF IInv, Place
<1>9. Written'
  BY <1>1, <1>2, <1>6 DEF IInv, Written
<1>10. Settled' /\ ShownIsStored'
  BY <1>1, <1>6 DEF Settled, ShownIsStored
<1>. QED
  BY <1>4, <1>7, <1>8, <1>9, <1>10 DEF IInv

\* the book is read and sent,
LEMMA ReadStep ==
    ASSUME IInv, LookUpPoster \/ ReadBook \/ Send
    PROVE  IInv'
<1>. USE DEF Statements
<1>1. UNCHANGED <<job, nextId, now, faults, writer>> \/ Send
  BY DEF LookUpPoster, ReadBook
<1>2. CASE LookUpPoster
  <2>1. /\ at = "lookup" /\ at' = "purge" /\ Execute(work)
        /\ UNCHANGED <<job, answer, nextId, now, faults, writer>>
    BY <1>2 DEF LookUpPoster
  <2>2. /\ SessionTypeOK' /\ SessionAgrees'
        /\ stored' \in Tables' /\ work' \in Tables'
        /\ nextId' \in Nat \ {0} /\ now' \in Nat /\ writer' \in [Ids' -> Players] /\ Ids' = Ids
        /\ Entry' = Entry /\ Job' = Job
        /\ stored = work /\ work' = work /\ stored' = work
    BY <2>1, Kept
  <2>3. \A e \in work.entries : e.poster \in Players /\ e.poster = writer[e.id]
    BY DEF IInv, TypeOK, Tables, Entry, Written
  <2>4. poster' \in Players \cup {NoPlayer} /\ blind' \in BOOLEAN
        /\ (blind' \/ poster' = writer[job.id])
    BY <1>2, <2>3 DEF LookUpPoster
  <2>5. TypeOK'
    BY <2>1, <2>2, <2>4 DEF IInv, TypeOK
  <2>6. Place'
    BY <2>1, <2>2 DEF IInv, Place
  <2>7. Written'
    BY <2>1, <2>2, <2>3, <2>4 DEF Written
  <2>8. Settled' /\ ShownIsStored'
    BY <2>1, <2>2 DEF Settled, ShownIsStored
  <2>. QED
    BY <2>2, <2>5, <2>6, <2>7, <2>8 DEF IInv
<1>3. CASE ReadBook
  <2>1. /\ at = "read" /\ at' = "send" /\ Execute(work) /\ answer' = PageOf(job.book)
        /\ UNCHANGED <<job, poster, blind, nextId, now, faults, writer>>
    BY <1>3 DEF ReadBook
  <2>2. /\ SessionTypeOK' /\ SessionAgrees'
        /\ stored' \in Tables' /\ work' \in Tables'
        /\ nextId' \in Nat \ {0} /\ now' \in Nat /\ writer' \in [Ids' -> Players] /\ Ids' = Ids
        /\ Entry' = Entry /\ Job' = Job
        /\ stored = work /\ work' = work /\ stored' = work
    BY <2>1, Kept
  <2>3. answer' \subseteq work.entries
    BY <2>1 DEF PageOf, First, InBook
  <2>4. TypeOK'
    BY <2>1, <2>2, <2>3 DEF IInv, TypeOK, Tables
  <2>5. Place'
    BY <2>1, <2>2 DEF IInv, Place
  <2>6. Written'
    BY <2>1, <2>2 DEF IInv, Written
  <2>7. Settled' /\ ShownIsStored'
    BY <2>1, <2>2, <2>3 DEF Settled, ShownIsStored
  <2>. QED
    BY <2>2, <2>4, <2>5, <2>6, <2>7 DEF IInv
<1>4. CASE Send
  BY <1>4, Ends DEF Send, IInv, TypeOK
<1>. QED
  BY <1>2, <1>3, <1>4

\* the connection is lost, or the process dies.
LEMMA WorldStep ==
    ASSUME IInv, Lose \/ Crash
    PROVE  IInv'
<1>. USE DEF Statements
<1>1. ASSUME Lose \/ Crash
      PROVE  /\ faults' \in 0 .. MaxFaults
             /\ SessionTypeOK' /\ SessionAgrees' /\ work' = stored /\ stored' = stored
             /\ stored \in Tables /\ Ids' = Ids /\ Entry' = Entry /\ Tables' = Tables /\ Job' = Job
             /\ UNCHANGED <<nextId, now, writer>>
  <2>1. UNCHANGED <<nextId, now, writer, stored>> /\ work' = stored
    BY <1>1 DEF Lose, Crash, LinkLost, NewSession
  <2>2. SessionTypeOK' /\ SessionAgrees'
    BY <1>1, BoundaryStep DEF Lose, Crash, IInv, TypeOK
  <2>3. faults' \in 0 .. MaxFaults
    BY <1>1, GuestbooksAssumption DEF Lose, Crash, IInv, TypeOK
  <2>. QED
    BY <2>1, <2>2, <2>3 DEF Ids, Entry, Tables, Job, IInv, TypeOK
<1>2. CASE Lose
  <2>1. UNCHANGED <<at, job, poster, answer, blind>> /\ link' = "lost"
    BY <1>2 DEF Lose, LinkLost, handler
  <2>2. TypeOK' /\ Place'
    BY <1>1, <1>2, <2>1 DEF IInv, TypeOK, Place
  <2>3. Written' /\ Settled' /\ ShownIsStored'
    BY <1>1, <1>2, <2>1 DEF IInv, Written, Settled, ShownIsStored
  <2>. QED
    BY <1>1, <1>2, <2>2, <2>3 DEF IInv
<1>3. CASE Crash
  <2>1. /\ at' = "idle" /\ job' = NoJob /\ poster' = NoPlayer /\ answer' = {} /\ blind' = FALSE
        /\ autocommit' = TRUE /\ open' = FALSE
    BY <1>3 DEF Crash, Done, NewSession
  <2>2. NoJob \in Job
    BY DEF NoJob, Job, IInv, TypeOK
  <2>3. TypeOK' /\ Place'
    BY <1>1, <1>3, <2>1, <2>2 DEF IInv, TypeOK, Place, NoJob
  <2>4. Written' /\ Settled' /\ ShownIsStored'
    BY <1>1, <1>3, <2>1 DEF IInv, Written, Settled, ShownIsStored
  <2>. QED
    BY <1>1, <1>3, <2>3, <2>4 DEF IInv
<1>. QED
  BY <1>2, <1>3

\* The server is started with empty books.
LEMMA Beginning == Init => IInv
<1>. SUFFICES ASSUME Init PROVE IInv
  OBVIOUS
<1>1. /\ work = [entries |-> {}, status |-> FALSE] /\ stored = work
      /\ autocommit = TRUE /\ open = FALSE /\ link = "up" /\ auto_reconnect \in BOOLEAN
      /\ at = "idle" /\ job = NoJob /\ poster = NoPlayer /\ answer = {} /\ blind = FALSE
      /\ nextId = 1 /\ now = 1 /\ faults = 0 /\ writer = << >>
  BY DEF Init, Connected
<1>2. Ids = {} /\ writer \in [Ids -> Players]
  BY <1>1 DEF Ids
<1>3. NoJob \in Job
  BY <1>1 DEF NoJob, Job
<1>4. TypeOK
  <2>1. SessionTypeOK /\ stored \in Tables /\ work \in Tables
    BY <1>1 DEF SessionTypeOK, Tables
  <2>2. 0 \in 0 .. MaxFaults
    BY GuestbooksAssumption
  <2>3. (at = "idle") = (job = NoJob)
    BY <1>1
  <2>4. /\ at \in Statements /\ job \in Job
        /\ poster \in Players \cup {NoPlayer} /\ answer \subseteq Entry
        /\ blind \in BOOLEAN
    BY <1>1, <1>3 DEF Statements
  <2>5. nextId \in Nat \ {0} /\ now \in Nat /\ faults \in 0 .. MaxFaults
    BY <1>1, <2>2
  <2>. QED
    BY <1>2, <2>1, <2>3, <2>4, <2>5 DEF TypeOK
<1>5. SessionAgrees /\ Place /\ Written /\ Settled /\ ShownIsStored
  BY <1>1 DEF SessionAgrees, Place, Written, Settled, ShownIsStored, NoJob
<1>. QED
  BY <1>4, <1>5 DEF IInv

\* All of these together.
LEMMA Step == IInv /\ [Next]_vars => IInv'
<1>. SUFFICES ASSUME IInv, [Next]_vars PROVE IInv'
  OBVIOUS
<1>1. CASE UNCHANGED vars
  <2>1. TypeOK'
    BY <1>1 DEF vars, handler, session, IInv, TypeOK, SessionTypeOK, Tables, Entry, Job, Ids
  <2>2. SessionAgrees' /\ ShownIsStored'
    BY <1>1 DEF vars, handler, session, IInv, SessionAgrees, ShownIsStored
  <2>3. Place'
    BY <1>1 DEF vars, handler, IInv, Place, Ids
  <2>4. Written'
    BY <1>1 DEF vars, handler, session, IInv, Written
  <2>5. Settled'
    BY <1>1 DEF vars, handler, session, IInv, Settled, Allowed, Meant
  <2>. QED
    BY <2>1, <2>2, <2>3, <2>4, <2>5 DEF IInv
<1>. QED
  BY <1>1, RequestStep, TestStep, BeginStep, FailStep, CommitStep, InsertStep, RemoveStep,
     StatusStep, ReadStep, WorldStep DEF Next

-----------------------------------------------------------------------------
(* Theorems *)

\* The invariant holds in every reachable state.
LEMMA Invariant == Spec => []IInv
BY Beginning, Step, PTL DEF Spec

\* The tables, the session and the handler are of their types.
THEOREM TypeCorrect == Spec => []TypeOK
<1>1. IInv => TypeOK
  BY DEF IInv
<1>. QED
  BY Invariant, <1>1, PTL

\* What a client is shown of a book is there to stay.
THEOREM ShownCorrect == Spec => []ShownIsStored
<1>1. IInv => ShownIsStored
  BY DEF IInv
<1>. QED
  BY Invariant, <1>1, PTL

\* Whatever a request has failed on, nothing it wrote is left in a transaction.
THEOREM PendingCorrect == Spec => []NothingPends
<1>1. IInv => NothingPends
  BY DEF IInv, Settled, NothingPends
<1>. QED
  BY Invariant, <1>1, PTL

\* Whatever else is done removes nothing but what the request has removed already.
LEMMA Removed ==
    ASSUME IInv, [Next]_vars, NEW e \in stored.entries \ stored'.entries
    PROVE  Allowed(e)
<1>1. SessionTypeOK /\ SessionAgrees /\ work \in Tables
  BY DEF IInv, TypeOK
<1>3. e \notin work.entries => Allowed(e)
  BY DEF IInv, Settled
<1>4. ASSUME stored' \in {stored, work} PROVE Allowed(e)
  BY <1>3, <1>4
<1>5. ASSUME NEW new, Execute(new), work.entries \subseteq new.entries PROVE Allowed(e)
  BY <1>1, <1>3, <1>5, WriteStep
<1>6. ASSUME \/ Touch \/ SetAutocommitOff \/ FailsOnLink \/ Execute(work) \/ UNCHANGED session
             \/ StartTransaction \/ Commit \/ SetAutocommitOn \/ Rollback
             \/ LinkLost \/ NewSession
      PROVE  Allowed(e)
  BY <1>1, <1>4, <1>6, QuietStep, BoundaryStep
<1>7. CASE DeleteEntry \/ PurgePoster
  <2>1. PICK kept \in SUBSET work.entries :
           /\ Execute([work EXCEPT !.entries = kept])
           /\ \A x \in work.entries \ kept : Allowed(x)
    BY <1>7, Removal
  <2>2. stored' \in {stored, [work EXCEPT !.entries = kept]}
    BY <1>1, <2>1, WriteStep
  <2>3. [work EXCEPT !.entries = kept].entries = kept
    BY <1>1 DEF Tables
  <2>. QED
    BY <1>3, <2>1, <2>2, <2>3
<1>8. CASE InsertEntry
  <2>1. PICK x : Execute([work EXCEPT !.entries = @ \cup {x}])
    BY <1>8 DEF InsertEntry
  <2>2. work.entries \subseteq [work EXCEPT !.entries = @ \cup {x}].entries
    BY <1>1 DEF Tables
  <2>. QED
    BY <1>5, <2>1, <2>2
<1>9. CASE UpdateStatus
  <2>1. Execute([work EXCEPT !.status = ~@])
    BY <1>9 DEF UpdateStatus
  <2>2. work.entries \subseteq [work EXCEPT !.status = ~@].entries
    BY <1>1 DEF Tables
  <2>. QED
    BY <1>5, <2>1, <2>2
<1>10. CASE \E p \in Players : HandleMessage(p)
  BY <1>6, <1>10 DEF HandleMessage, Post, Get, Delete, ChangeStatus, Ask
<1>11. CASE TestDatabase \/ BeginOff \/ BeginStart \/ LookUpPoster \/ RollbackTransaction
            \/ CommitFirst \/ CommitSecond \/ RetestDatabase \/ ReadBook
  BY <1>6, <1>11 DEF TestDatabase, BeginOff, BeginStart, LookUpPoster, RollbackTransaction,
                     CommitFirst, CommitSecond, RetestDatabase, ReadBook
<1>12. CASE Fail \/ LookUpFails \/ ReadFails \/ Send \/ Lose \/ Crash
  BY <1>6, <1>12 DEF Fail, LookUpFails, ReadFails, Refuse, Send, Lose, Crash
<1>13. CASE UNCHANGED vars
  BY <1>6, <1>13 DEF vars
<1>. QED
  BY <1>7, <1>8, <1>9, <1>10, <1>11, <1>12, <1>13 DEF Next

\* Entries disappear from a book at the request of its owners, and as they asked.
THEOREM DeletionCorrect == Spec => OwnersDelete
<1>1. ASSUME IInv, [Next]_vars
      PROVE  [\A e \in stored.entries \ stored'.entries :
                job.kind \in {"delete", "purge"} /\ e.book = BookOf[job.player] /\ Meant(e)]_vars
  BY <1>1, Removed DEF Allowed
<1>. QED
  BY Invariant, <1>1, PTL DEF Spec, OwnersDelete

-----------------------------------------------------------------------------
(* Pages *)

\* A set of naturals has a least element.
LEMMA LeastNatural ==
    ASSUME NEW T, T \subseteq Nat, T # {}
    PROVE  \E n \in T : \A m \in T : n <= m
<1>. DEFINE R == {ss \in Nat \X Nat : ss[1] < ss[2]}
<1>1. IsWellFoundedOn(R, Nat)
  BY NatLessThanWellFounded, Zenon DEF OpToRel
<1>2. PICK n \in T : \A m \in T : ~(<<m, n>> \in R)
  BY <1>1, WFMin, Zenon
<1>3. ASSUME NEW m \in T
      PROVE  n <= m
  <2>1. m \in Nat /\ n \in Nat /\ <<m, n>> \notin R
    BY <1>2
  <2>2. <<m, n>> \in Nat \X Nat /\ <<m, n>>[1] = m /\ <<m, n>>[2] = n
    BY <2>1
  <2>3. ~(m < n)
    BY <2>1, <2>2
  <2>. QED
    BY <2>1, <2>3
<1>. QED
  BY <1>3

\* A query returns no more than a page: the oldest entry of a larger one would
\* have as many before it as the page has room for.
LEMMA PageIsBounded ==
    ASSUME NEW S, IsFiniteSet(S), \A e \in S : e.id \in Nat,
           \A e, f \in S : e.id = f.id => e = f
    PROVE  /\ IsFiniteSet(First(S, Page, Newer))
           /\ Cardinality(First(S, Page, Newer)) <= Page
<1>. DEFINE F == First(S, Page, Newer)
<1>1. F \subseteq S /\ \A e \in F : Cardinality({x \in S : x.id > e.id}) < Page
  BY DEF First, Newer
<1>. HIDE DEF F
<1>2. IsFiniteSet(F) /\ Cardinality(F) \in Nat /\ Page \in Nat \ {0}
  BY <1>1, FS_Subset, FS_CardinalityType, GuestbooksAssumption
<1>3. ASSUME Cardinality(F) > Page PROVE FALSE
  <2>1. F # {}
    BY <1>2, <1>3, FS_EmptySet
  <2>2. {e.id : e \in F} \subseteq Nat /\ {e.id : e \in F} # {}
    BY <1>1, <2>1
  <2>3. PICK n \in {e.id : e \in F} : \A m \in {e.id : e \in F} : n <= m
    BY <2>2, LeastNatural
  <2>4. PICK e \in F : e.id = n
    BY <2>3
  <2>5. \A x \in F \ {e} : x \in S /\ x.id > e.id
    <3>1. SUFFICES ASSUME NEW x \in F \ {e} PROVE x \in S /\ x.id > e.id
      OBVIOUS
    <3>2. x.id >= e.id /\ x.id \in Nat /\ e.id \in Nat /\ x.id # e.id
      BY <1>1, <2>3, <2>4
    <3>. QED
      BY <1>1, <3>2
  <2>. DEFINE before == {x \in S : x.id > e.id}
  <2>6. F \ {e} \subseteq before /\ IsFiniteSet(before) /\ Cardinality(before) < Page
    BY <1>1, <2>5, FS_Subset
  <2>7. Cardinality(F \ {e}) = Cardinality(F) - 1
    BY <1>2, FS_RemoveElement
  <2>8. Cardinality(F \ {e}) <= Cardinality(before) /\ Cardinality(before) \in Nat
    BY <2>6, FS_Subset, FS_CardinalityType
  <2>. QED
    BY <1>2, <1>3, <2>6, <2>7, <2>8
<1>. QED
  BY <1>2, <1>3 DEF F

\* The newest entry of a book is on the page that is sent of it, if the whole
\* page is: no entry is newer, and on the page fewer than a page come before it.
LEMMA NewestIsShown ==
    ASSUME NEW b, Shown = Page, IsFiniteSet(InBook(b)),
           \A e \in InBook(b) : e.id \in Nat /\ e.time \in Nat /\ e.request \in Nat,
           \A e, f \in InBook(b) : e.id = f.id => e = f,
           NEW e \in InBook(b), \A x \in InBook(b) : x.id <= e.id
    PROVE  e \in PageOf(b)
<1>. DEFINE F == First(InBook(b), Page, Newer)
<1>1. Page \in Nat \ {0}
  BY GuestbooksAssumption
<1>2. IsFiniteSet(F) /\ Cardinality(F) <= Page
  BY PageIsBounded
<1>3. e \in F
  <2>1. {x \in InBook(b) : x.id > e.id} = {}
    OBVIOUS
  <2>2. Cardinality({x \in InBook(b) : x.id > e.id}) < Page
    BY <1>1, <2>1, FS_EmptySet
  <2>. QED
    BY <2>2 DEF First, Newer
<1>4. PageOf(b) = {x \in F : Cardinality({y \in F : Earlier(y, x)}) < Page}
  BY DEF PageOf, First
<1>. HIDE DEF F
<1>. DEFINE before == {y \in F : Earlier(y, e)}
<1>5. ~Earlier(e, e)
  BY DEF Earlier
<1>6. before \subseteq F \ {e}
  BY <1>5
<1>7. /\ IsFiniteSet(F \ {e}) /\ Cardinality(F \ {e}) = Cardinality(F) - 1
      /\ Cardinality(F) \in Nat
  BY <1>2, <1>3, FS_RemoveElement, FS_CardinalityType
<1>8. Cardinality(before) <= Cardinality(F \ {e}) /\ Cardinality(before) \in Nat
  BY <1>6, <1>7, FS_Subset, FS_CardinalityType
<1>9. Cardinality(before) < Page
  BY <1>1, <1>2, <1>7, <1>8
<1>. QED
  BY <1>3, <1>4, <1>9

-----------------------------------------------------------------------------
(* Who has posted *)

Entries == stored.entries \cup work.entries

\* Finitely many entries, each with an id of its own, the newest of which is the
\* one that is posted; once it is in, it is in the book it was posted to.
Posted ==
    /\ IsFiniteSet(Entries)
    /\ \A e, f \in Entries : e.id = f.id => e = f
    /\ job.kind = "post" =>
        /\ job.id \in {0, nextId - 1}
        /\ \A e \in Entries : e.id = job.id => e.book = job.book

\* Ids, times and request ids are numbers, and ids have been handed out.
LEMMA EntriesTyped ==
    ASSUME IInv
    PROVE  /\ nextId \in Nat \ {0}
           /\ \A e \in Entries : e.id \in 1 .. nextId - 1 /\ e.time \in Nat /\ e.request \in Nat
BY GuestbooksAssumption DEF IInv, TypeOK, Tables, Entry, Ids, Entries

\* Entries only come by InsertEntry.
LEMMA NoOtherEntries ==
    ASSUME IInv, [Next]_vars, ~InsertEntry
    PROVE  Entries' \subseteq Entries
<1>1. SessionTypeOK /\ SessionAgrees /\ work \in Tables
  BY DEF IInv, TypeOK
<1>2. ASSUME NEW new, Execute(new), new.entries \subseteq work.entries PROVE Entries' \subseteq Entries
  BY <1>1, <1>2, WriteStep DEF Entries
<1>3. ASSUME \/ Touch \/ SetAutocommitOff \/ FailsOnLink \/ Execute(work) \/ UNCHANGED session
             \/ StartTransaction \/ Commit \/ SetAutocommitOn \/ Rollback
             \/ LinkLost \/ NewSession
      PROVE  Entries' \subseteq Entries
  BY <1>1, <1>3, QuietStep, BoundaryStep DEF Entries
<1>4. CASE DeleteEntry \/ PurgePoster
  <2>1. PICK kept \in SUBSET work.entries : Execute([work EXCEPT !.entries = kept])
    BY <1>4, Removal
  <2>2. [work EXCEPT !.entries = kept].entries = kept
    BY <1>1 DEF Tables
  <2>. QED
    BY <1>2, <2>1, <2>2
<1>5. CASE UpdateStatus
  <2>1. Execute([work EXCEPT !.status = ~@])
    BY <1>5 DEF UpdateStatus
  <2>2. [work EXCEPT !.status = ~@].entries \subseteq work.entries
    BY <1>1 DEF Tables
  <2>. QED
    BY <1>2, <2>1, <2>2
<1>6. CASE \E p \in Players : HandleMessage(p)
  BY <1>3, <1>6 DEF HandleMessage, Post, Get, Delete, ChangeStatus, Ask
<1>7. CASE TestDatabase \/ BeginOff \/ BeginStart \/ LookUpPoster \/ RollbackTransaction
           \/ CommitFirst \/ CommitSecond \/ RetestDatabase \/ ReadBook
  BY <1>3, <1>7 DEF TestDatabase, BeginOff, BeginStart, LookUpPoster, RollbackTransaction,
                    CommitFirst, CommitSecond, RetestDatabase, ReadBook
<1>8. CASE Fail \/ LookUpFails \/ ReadFails \/ Send \/ Lose \/ Crash
  BY <1>3, <1>8 DEF Fail, LookUpFails, ReadFails, Refuse, Send, Lose, Crash
<1>9. CASE UNCHANGED vars
  BY <1>3, <1>9 DEF vars
<1>. QED
  BY <1>4, <1>5, <1>6, <1>7, <1>8, <1>9 DEF Next

\* A request to post begins without an entry and keeps the one it gets.
LEMMA SamePost ==
    ASSUME [Next]_vars, ~InsertEntry, job'.kind = "post"
    PROVE  nextId' = nextId /\ (job' = job \/ job'.id = 0)
<1>1. CASE \E p \in Players : HandleMessage(p)
  <2>1. nextId' = nextId
    BY <1>1 DEF HandleMessage, Post, Get, Delete, ChangeStatus, Ask
  <2>2. PICK p \in Players : HandleMessage(p)
    BY <1>1
  <2>3. CASE \E b \in Books, request \in Requests, refresh \in BOOLEAN : Post(p, b, request, refresh)
    BY <2>1, <2>3 DEF Post, Ask
  <2>4. CASE \E b \in Books : Get(p, b)
    BY <2>4 DEF Get, Ask, NoJob
  <2>5. CASE \E id \in Ids, deleteAll \in BOOLEAN : Delete(p, id, deleteAll)
    BY <2>5 DEF Delete, Ask, NoJob
  <2>6. CASE ChangeStatus(p)
    BY <2>6 DEF ChangeStatus, Ask, NoJob
  <2>. QED
    BY <2>2, <2>3, <2>4, <2>5, <2>6 DEF HandleMessage
<1>2. ASSUME Done PROVE FALSE
  BY <1>2 DEF Done, NoJob
<1>3. ASSUME NEW next, Goto(next) PROVE job' = job
  BY <1>3 DEF Goto
<1>4. ASSUME AfterTransaction PROVE job' = job
  BY <1>2, <1>3, <1>4 DEF AfterTransaction
<1>5. CASE TestDatabase \/ RollbackTransaction \/ CommitFirst \/ CommitSecond \/ RetestDatabase
  BY <1>2, <1>3, <1>4, <1>5 DEF TestDatabase, RollbackTransaction, CommitFirst, CommitSecond,
                                RetestDatabase
<1>6. CASE BeginOff \/ BeginStart \/ DeleteEntry \/ PurgePoster \/ UpdateStatus \/ Fail \/ ReadFails
  BY <1>3, <1>6 DEF BeginOff, BeginStart, DeleteEntry, PurgePoster, UpdateStatus, Fail, ReadFails
<1>7. CASE LookUpPoster \/ LookUpFails \/ ReadBook \/ Send \/ Lose \/ Crash
  BY <1>2, <1>7 DEF LookUpPoster, LookUpFails, ReadBook, Send, Lose, Crash, handler
<1>8. CASE UNCHANGED vars
  BY <1>8 DEF vars, handler
<1>. QED
  BY <1>1, <1>5, <1>6, <1>7, <1>8 DEF Next

\* Every step keeps this.
LEMMA PostedKept ==
    ASSUME IInv, Posted, [Next]_vars
    PROVE  Posted'
<1>1. /\ nextId \in Nat \ {0}
      /\ \A e \in Entries : e.id \in 1 .. nextId - 1 /\ e.time \in Nat /\ e.request \in Nat
  BY EntriesTyped
<1>2. CASE ~InsertEntry
  <2>1. Entries' \subseteq Entries
    BY <1>2, NoOtherEntries
  <2>2. IsFiniteSet(Entries)' /\ \A e, f \in Entries' : e.id = f.id => e = f
    BY <2>1, FS_Subset DEF Posted
  <2>3. ASSUME job'.kind = "post"
        PROVE  /\ job'.id \in {0, nextId' - 1}
               /\ \A e \in Entries' : e.id = job'.id => e.book = job'.book
    <3>1. nextId' = nextId /\ (job' = job \/ job'.id = 0)
      BY <1>2, <2>3, SamePost
    <3>2. \A e \in Entries' : e.id # 0
      BY <1>1, <2>1
    <3>. QED
      BY <2>1, <2>3, <3>1, <3>2 DEF Posted
  <2>. QED
    BY <2>2, <2>3 DEF Posted
<1>3. CASE InsertEntry
  <2>. DEFINE e == [id |-> nextId, book |-> job.book, poster |-> job.player,
                    time |-> now', request |-> job.request]
              new == [work EXCEPT !.entries = @ \cup {e}]
  <2>1. nextId' = nextId + 1 /\ job' = [job EXCEPT !.id = nextId] /\ Execute(new)
    BY <1>3 DEF InsertEntry
  <2>2. new.entries = work.entries \cup {e} /\ job'.id = nextId /\ job'.book = job.book
    BY <2>1 DEF IInv, TypeOK, Tables, Job
  <2>3. work' = new /\ stored' \in {stored, new}
    BY <2>1, WriteStep DEF IInv, TypeOK
  <2>4. Entries' \subseteq Entries \cup {e}
    BY <2>2, <2>3 DEF Entries
  <2>5. IsFiniteSet(Entries)'
    BY <2>4, FS_AddElement, FS_Subset DEF Posted
  <2>6. e.id = nextId /\ e.book = job.book /\ \A f \in Entries : f.id # nextId
    BY <1>1
  <2>. HIDE DEF e
  <2>7. \A f, g \in Entries' : f.id = g.id => f = g
    BY <2>4, <2>6 DEF Posted
  <2>8. job'.id = nextId' - 1 /\ \A f \in Entries' : f.id = job'.id => f.book = job'.book
    BY <1>1, <2>1, <2>2, <2>4, <2>6
  <2>. QED
    BY <2>5, <2>7, <2>8 DEF Posted
<1>. QED
  BY <1>2, <1>3

\* The page that is read for who has posted has the entry.
LEMMA ReadShowsPost ==
    ASSUME IInv, Posted, ReadBook
    PROVE  RefreshShowsPost'
<1>1. /\ at = "read" /\ answer' = PageOf(job.book) /\ job' = job /\ Execute(work)
  BY DEF ReadBook
<1>2. SUFFICES ASSUME Shown = Page, job.kind = "post",
                      NEW e \in stored'.entries, e.id = job.id
               PROVE  e \in PageOf(job.book)
  BY <1>1 DEF RefreshShowsPost
<1>3. stored' \in {stored, work} /\ work.entries = stored.entries
  BY <1>1, WriteStep DEF IInv, TypeOK, Settled
<1>4. e \in work.entries /\ work.entries \subseteq Entries
  BY <1>3 DEF Entries
<1>5. /\ nextId \in Nat \ {0}
      /\ \A x \in Entries : x.id \in 1 .. nextId - 1 /\ x.time \in Nat /\ x.request \in Nat
  BY EntriesTyped
<1>6. e.id = nextId - 1 /\ e.book = job.book
  BY <1>2, <1>4, <1>5 DEF Posted
<1>7. InBook(job.book) \subseteq Entries /\ e \in InBook(job.book)
  BY <1>4, <1>6 DEF InBook
<1>8. /\ IsFiniteSet(InBook(job.book))
      /\ \A x, y \in InBook(job.book) : x.id = y.id => x = y
  BY <1>7, FS_Subset DEF Posted
<1>9. \A x \in InBook(job.book) : x.id <= e.id
  BY <1>5, <1>6, <1>7
<1>10. \A x \in InBook(job.book) : x.id \in Nat /\ x.time \in Nat /\ x.request \in Nat
  BY <1>5, <1>7
<1>. QED
  BY <1>2, <1>7, <1>8, <1>9, <1>10, NewestIsShown

\* While it is sent nothing else gets stored.
LEMMA RefreshKept ==
    ASSUME IInv, Posted, RefreshShowsPost, [Next]_vars
    PROVE  RefreshShowsPost'
<1>1. CASE ReadBook
  BY <1>1, ReadShowsPost
<1>2. CASE Lose \/ UNCHANGED vars
  <2>1. UNCHANGED <<at, job, answer, stored>>
    BY <1>2 DEF Lose, LinkLost, vars, handler, session
  <2>. QED
    BY <2>1 DEF RefreshShowsPost
<1>3. CASE Next /\ ~ReadBook /\ ~Lose
  <2>1. at' # "send"
    <3>1. ASSUME Done \/ AfterTransaction \/ \E next \in Statements \ {"send"} : Goto(next)
          PROVE  at' # "send"
      BY <3>1 DEF Done, AfterTransaction, Goto
    <3>2. CASE \E p \in Players : HandleMessage(p)
      BY <3>2 DEF HandleMessage, Post, Get, Delete, ChangeStatus, Ask
    <3>3. CASE TestDatabase \/ RollbackTransaction \/ CommitFirst \/ CommitSecond \/ RetestDatabase
      BY <3>1, <3>3 DEF TestDatabase, RollbackTransaction, CommitFirst, CommitSecond,
                        RetestDatabase, Statements
    <3>4. CASE BeginOff \/ DeleteEntry \/ PurgePoster \/ UpdateStatus \/ Fail \/ ReadFails
      BY <3>1, <3>4 DEF BeginOff, DeleteEntry, PurgePoster, UpdateStatus, Fail, ReadFails,
                        Statements
    <3>5. CASE BeginStart
      <4>1. job.kind \in {"post", "delete", "purge", "status"}
        BY <3>5 DEF BeginStart, IInv, Place
      <4>. QED
        BY <3>5, <4>1 DEF BeginStart, Goto
    <3>6. CASE InsertEntry \/ LookUpPoster \/ LookUpFails \/ Send \/ Crash
      BY <3>1, <3>6 DEF InsertEntry, LookUpPoster, LookUpFails, Send, Crash
    <3>. QED
      BY <1>3, <3>2, <3>3, <3>4, <3>5, <3>6 DEF Next
  <2>. QED
    BY <2>1 DEF RefreshShowsPost
<1>. QED
  BY <1>1, <1>2, <1>3

\* It holds when the server is started.
LEMMA NothingPosted == Init => Posted /\ RefreshShowsPost
<1>. SUFFICES ASSUME Init PROVE Posted /\ RefreshShowsPost
  OBVIOUS
<1>1. Entries = {} /\ job.kind = "none" /\ at = "idle"
  BY DEF Init, Connected, NoJob, Entries
<1>. QED
  BY <1>1, FS_EmptySet DEF Posted, RefreshShowsPost

\* Who posts an entry and asks for the book finds it there, however many entries
\* the book has and whatever else has failed.
THEOREM RefreshCorrect == Spec => []RefreshShowsPost
<1>. DEFINE Inv == Posted /\ RefreshShowsPost
<1>1. IInv /\ Inv /\ [Next]_vars => Inv'
  BY PostedKept, RefreshKept
<1>2. Inv => RefreshShowsPost
  OBVIOUS
<1>. HIDE DEF Inv
<1>3. Init => Inv
  BY NothingPosted DEF Inv
<1>. QED
  BY Invariant, <1>1, <1>2, <1>3, PTL DEF Spec
=============================================================================
