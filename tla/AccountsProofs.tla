---------------------------- MODULE AccountsProofs ----------------------------
(***************************************************************************)
(* Proofs about Accounts: for any emails, keys and number of accounts and  *)
(* faults.  A statement may be the last one to reach the server, so every  *)
(* fact about the tables is a fact about those that are stored and about   *)
(* those the session sees.                                                 *)
(***************************************************************************)
EXTENDS Accounts, TLAPS

-----------------------------------------------------------------------------
(* The inductive invariant *)

AccountRow == [id : Nat \ {0}, email : Emails, hash : {"md5", "blowfish"}]

KeyRow == [account : Nat \ {0}, number : Keys \cup {0}, cipher : Nat]

\* The rows are of their types, with ids that were handed out.
Rows(t, next) ==
    /\ t \in [accounts : SUBSET AccountRow, keys : SUBSET KeyRow,
              activated : [DOMAIN Private -> Nat]]
    /\ \A a \in t.accounts : a.id < next
    /\ \A k \in t.keys : k.account < next
    /\ \A k \in t.keys : k.number = 0 => k.account \in HandmadeIds

EmailsDiffer(t) == \A a, b \in t.accounts : a.email = b.email => a = b

KeysDiffer(t) ==
    \A k, l \in t.keys :
        k.account # l.account /\ k.number = l.number => {k.account, l.account} \cap HandmadeIds # {}

\* A private key is used by whom it was given to.
Entitled(t, k) ==
    /\ Private[k.number].validated
    /\ t.activated[k.number] = k.account
    /\ \E a \in t.accounts : a.id = k.account /\ a.email = Private[k.number].email

PrivateKept(t, but) ==
    \A k \in t.keys :
        /\ k.cipher \in {0, k.number}
        /\ k.number \in DOMAIN Private /\ k.account \notin HandmadeIds \cup but => Entitled(t, k)

Owned(t, but) == EmailsDiffer(t) /\ KeysDiffer(t) /\ PrivateKept(t, but)

\* The checks come before the transaction, and nothing is written in between.
EmailIsFree(t) == \A a \in t.accounts : a.email # request.email

KeyIsFree(t) == \A k \in t.keys : k.number # request.number

Before == {"test", "auto0", "start", "account"}

Reserved(t) ==
    /\ \/ at = "key" /\ proceed
       \/ at \in {"private", "auth"}
       \/ job = "create" /\ at \in Before
       => EmailIsFree(t)
    /\ \/ at \in {"private", "auth"}
       \/ job = "create" /\ at \in Before \cup {"activate", "cdkey"}
       => KeyIsFree(t)

\* The session sees what is stored unless a transaction is open, and whenever it
\* has lost the connection.
SessionAgrees ==
    /\ ~open => work = stored
    /\ link = "lost" => work = stored

\* Between transactions nothing waits to be committed.
Settled == at \notin {"activate", "cdkey", "commit", "rollback"} => work = stored

\* The session still sees what it has written: the next statement gets through,
\* or fails for good.
GoesOn == link = "up" \/ ~open

\* Where the handler is.
Place ==
    /\ at \in {"idle", "email", "key", "private", "auth", "account", "activate", "cdkey"} =>
        job = "create"
    /\ at = "repair" => job # "create"
    /\ at = "auth" => request.number \in DOMAIN Private
    /\ isPrivate => Private[request.number] = [email |-> request.email, validated |-> TRUE]
    /\ job = "create" /\ at \in Before /\ request.number \in DOMAIN Private =>
        isPrivate \/ nextId \in unchecked
    /\ at \in {"activate", "cdkey"} =>
        /\ account = nextId - 1 /\ account \notin HandmadeIds /\ account # 0
        /\ request.number \in DOMAIN Private => isPrivate \/ account \in unchecked
    /\ at = "activate" => isPrivate

\* The account that is being created is among those the session sees.
IsSeen(t) == \E a \in t.accounts : a.id = account /\ a.email = request.email

Seen ==
    GoesOn =>
        /\ at \in {"activate", "cdkey"} => IsSeen(work)
        /\ at = "cdkey" /\ isPrivate => work.activated[request.number] = account
        /\ at = "commit" /\ job = "create" => account \in IdsOf(work.accounts)

\* What CreateUserAccount has committed.
Committed ==
    at = "auto1" /\ job = "create" => account \in unsure \cup IdsOf(stored.accounts)

Grown == IdsOf(stored.accounts) \subseteq IdsOf(work.accounts)

\* Accounts have keys, keys and activations have accounts; but for the account
\* that is being created.
WholeBut(t, id) ==
    /\ \A a \in t.accounts : a.id = id \/ \E k \in t.keys : k.account = a.id
    /\ \A k \in t.keys : \E a \in t.accounts : a.id = k.account
    /\ \A n \in DOMAIN Private :
        t.activated[n] # 0 =>
            \/ t.activated[n] = id /\ n = request.number
            \/ \E k \in t.keys : k.account = t.activated[n] /\ k.number = n

Whole(t) == WholeBut(t, 0)

Complete ==
    ~bare =>
        /\ Whole(stored)
        /\ at \in {"activate", "cdkey", "commit"} => open
        /\ GoesOn /\ at \in {"activate", "cdkey"} => WholeBut(work, account)
        /\ GoesOn /\ at = "commit" => Whole(work)

IInv ==
    /\ TypeOK
    /\ SessionAgrees /\ Settled
    /\ Rows(stored, nextId) /\ Rows(work, nextId) /\ nextId \in Nat
    /\ HandmadeIds \subseteq 1 .. nextId - 1
    /\ Owned(stored, unchecked) /\ Owned(work, unchecked)
    /\ Reserved(stored) /\ Reserved(work)
    /\ Place /\ Seen /\ Committed /\ Grown
    /\ Complete
    /\ CreatedIsKept

-----------------------------------------------------------------------------
(* The session *)

\* A statement that writes nothing, or none at all.
Quiet ==
    \/ Touch \/ SetAutocommitOff \/ FailsOnLink \/ Execute(work)
    \/ UNCHANGED session

\* It leaves the tables as they are, or commits what the session has seen.
LEMMA QuietStep ==
    ASSUME SessionTypeOK, SessionAgrees, Quiet
    PROVE  /\ SessionTypeOK' /\ SessionAgrees'
           /\ work' = work /\ stored' \in {stored, work}
BY DEF SessionTypeOK, SessionAgrees, Quiet, Touch, SetAutocommitOff, FailsOnLink, Execute,
       Reaches, session

\* The end of a transaction, either way, and the beginning of one, leave nothing
\* open to doubt.
LEMMA BoundaryStep ==
    ASSUME SessionTypeOK, SessionAgrees,
           StartTransaction \/ Commit \/ SetAutocommitOn \/ Rollback
    PROVE  /\ SessionTypeOK' /\ SessionAgrees'
           /\ work' = stored' /\ stored' \in {stored, work}
           /\ link' = "up" /\ GoesOn
           /\ ~Rollback => stored' = work
BY DEF SessionTypeOK, SessionAgrees, StartTransaction, Commit, SetAutocommitOn, Rollback,
       Reaches, GoesOn

\* A write is stored at once, or with the transaction.
LEMMA WriteStep ==
    ASSUME NEW new, SessionTypeOK, SessionAgrees, Execute(new)
    PROVE  /\ SessionTypeOK' /\ SessionAgrees'
           /\ work' = new
           /\ stored' = IF open' THEN stored ELSE new
           /\ GoesOn /\ GoesOn'
           /\ open => open'
BY DEF SessionTypeOK, SessionAgrees, Execute, Reaches, GoesOn

\* A connection is lost, or opened by another process: what was not committed is
\* gone.
LEMMA LossStep ==
    ASSUME SessionTypeOK, SessionAgrees, LinkLost \/ NewSession
    PROVE  /\ SessionTypeOK' /\ SessionAgrees'
           /\ work' = stored /\ stored' = stored
BY DEF SessionTypeOK, SessionAgrees, LinkLost, NewSession

-----------------------------------------------------------------------------
(* The tables *)

\* Facts about what is stored and seen survive steps that write nothing new.
LEMMA Unwritten ==
    ASSUME IInv, stored' \in {stored, work}, work' \in {stored, work},
           UNCHANGED nextId, unchecked \subseteq unchecked'
    PROVE  /\ nextId' \in Nat /\ HandmadeIds \subseteq 1 .. nextId' - 1
           /\ Rows(stored', nextId') /\ Rows(work', nextId')
           /\ Owned(stored', unchecked') /\ Owned(work', unchecked')
<1>1. \A t \in {stored, work} : Rows(t, nextId) /\ Owned(t, unchecked)
  BY DEF IInv
<1>2. \A t \in {stored, work} : Owned(t, unchecked')
  BY <1>1 DEF Owned, PrivateKept
<1>. QED
  BY <1>1, <1>2 DEF IInv

LEMMA Beginning == Init => IInv
<1>. SUFFICES ASSUME Init PROVE IInv
  OBVIOUS
<1>. USE DEF Init
<1>1. HandmadeIds = 1 .. nextId - 1 /\ nextId \in Nat \ {0}
  BY AccountsAssumption DEF HandmadeIds
<1>2. PICK number \in [HandmadeIds -> Keys \cup {0}] :
        Connected([accounts |-> {Account(id, Handmade[id], "md5") : id \in HandmadeIds},
                   keys |-> {KeyOf(id, number[id], 0) : id \in HandmadeIds},
                   activated |-> [n \in DOMAIN Private |-> 0]])
  OBVIOUS
<1>3. /\ work = stored
      /\ work.accounts = {Account(id, Handmade[id], "md5") : id \in HandmadeIds}
      /\ work.keys = {KeyOf(id, number[id], 0) : id \in HandmadeIds}
      /\ work.activated = [n \in DOMAIN Private |-> 0]
      /\ work = [accounts |-> work.accounts, keys |-> work.keys, activated |-> work.activated]
      /\ autocommit = TRUE /\ open = FALSE /\ link = "up"
  BY <1>2 DEF Connected
<1>4. \A id \in HandmadeIds : id \in Nat \ {0} /\ id < nextId /\ Handmade[id] \in Emails
  BY <1>1, AccountsAssumption DEF HandmadeIds
<1>5. Rows(work, nextId)
  <2>1. work.accounts \subseteq AccountRow
    BY <1>3, <1>4 DEF Account, AccountRow
  <2>2. work.keys \subseteq KeyRow
    BY <1>3, <1>4 DEF KeyOf, KeyRow
  <2>. QED
    BY <1>3, <1>4, <2>1, <2>2 DEF Rows, Account, KeyOf
<1>6. Owned(work, unchecked)
  <2>1. EmailsDiffer(work)
    BY <1>3, AccountsAssumption DEF EmailsDiffer, Account, HandmadeIds
  <2>2. KeysDiffer(work)
    BY <1>3 DEF KeysDiffer, KeyOf
  <2>3. PrivateKept(work, unchecked)
    BY <1>3 DEF PrivateKept, KeyOf
  <2>. QED
    BY <2>1, <2>2, <2>3 DEF Owned
<1>7. Whole(work)
  <2>1. \A a \in work.accounts : a.id \in HandmadeIds
    BY <1>3 DEF Account
  <2>2. \A id \in HandmadeIds : \E k \in work.keys : k.account = id
    <3>1. \A id \in HandmadeIds : KeyOf(id, number[id], 0) \in work.keys
      BY <1>3
    <3>. QED
      BY <3>1 DEF KeyOf
  <2>3. \A k \in work.keys : k.account \in HandmadeIds
    BY <1>3 DEF KeyOf
  <2>4. \A id \in HandmadeIds : \E a \in work.accounts : a.id = id
    <3>1. \A id \in HandmadeIds : Account(id, Handmade[id], "md5") \in work.accounts
      BY <1>3
    <3>. QED
      BY <3>1 DEF Account
  <2>5. \A n \in DOMAIN Private : work.activated[n] = 0
    BY <1>3
  <2>. QED
    BY <2>1, <2>2, <2>3, <2>4, <2>5 DEF Whole, WholeBut
<1>8. IdsOf(work.accounts) \subseteq 1 .. nextId - 1
  BY <1>3, <1>1 DEF IdsOf, Account
<1>9. TypeOK
  <2>1. SessionTypeOK
    BY <1>3 DEF SessionTypeOK
  <2>2. account \in 0 .. nextId - 1 /\ faults \in 0 .. MaxFaults
    BY <1>1, AccountsAssumption
  <2>. QED
    BY <1>8, <2>1, <2>2 DEF TypeOK, Statements, Jobs
<1>. QED
  BY <1>1, <1>3, <1>5, <1>6, <1>7, <1>9
     DEF IInv, SessionAgrees, Settled, Reserved, Before, Place, Seen, Committed, Grown,
         Complete, CreatedIsKept

-----------------------------------------------------------------------------
(* Steps that leave nothing to be committed *)

TablesOK ==
    /\ SessionTypeOK /\ SessionAgrees /\ Settled
    /\ Rows(stored, nextId) /\ Rows(work, nextId) /\ nextId \in Nat
    /\ HandmadeIds \subseteq 1 .. nextId - 1
    /\ IdsOf(work.accounts) \subseteq 1 .. nextId - 1
    /\ Owned(stored, unchecked) /\ Owned(work, unchecked)
    /\ Seen /\ Grown /\ Complete

LEMMA Agreed ==
    ASSUME IInv, SessionTypeOK', SessionAgrees',
           work' = stored', stored' \in {stored, work},
           UNCHANGED <<nextId, bare>>, unchecked \subseteq unchecked',
           at' \notin {"activate", "cdkey", "commit"},
           stored' = stored \/ bare \/ Whole(work)
    PROVE  /\ TablesOK'
           /\ told \ unsure \subseteq IdsOf(stored'.accounts)
<1>1. /\ nextId' \in Nat /\ HandmadeIds \subseteq 1 .. nextId' - 1
      /\ Rows(stored', nextId') /\ Rows(work', nextId')
      /\ Owned(stored', unchecked') /\ Owned(work', unchecked')
  BY Unwritten
<1>2. IdsOf(work'.accounts) \subseteq 1 .. nextId' - 1
  BY <1>1 DEF Rows, IdsOf, AccountRow
<1>3. Settled' /\ Seen' /\ Grown'
  BY DEF Settled, Seen, Grown
<1>4. Complete'
  <2>1. ASSUME ~bare' PROVE Whole(stored)'
    BY <2>1 DEF IInv, Complete, Whole, WholeBut
  <2>. QED
    BY <2>1 DEF Complete
<1>5. told \ unsure \subseteq IdsOf(stored'.accounts)
  BY DEF IInv, CreatedIsKept, Grown
<1>. QED
  BY <1>1, <1>2, <1>3, <1>4, <1>5 DEF TablesOK

\* Most of the handler: it reads and goes on.
LEMMA Reading ==
    ASSUME IInv, Quiet \/ StartTransaction,
           UNCHANGED <<nextId, bare, told, unsure>>, unchecked \subseteq unchecked',
           at \notin {"activate", "cdkey", "commit", "rollback"},
           at' \notin {"activate", "cdkey", "commit", "auto1"}
    PROVE  /\ TablesOK' /\ Committed' /\ CreatedIsKept'
           /\ work' = work /\ stored' = work /\ stored = work
<1>1. work = stored
  BY DEF IInv, Settled
<1>2. /\ SessionTypeOK' /\ SessionAgrees'
      /\ work' = work /\ stored' = work
  BY <1>1, QuietStep, BoundaryStep DEF IInv, TypeOK
<1>3. TablesOK' /\ told \ unsure \subseteq IdsOf(stored'.accounts)
  BY <1>1, <1>2, Agreed
<1>. QED
  BY <1>1, <1>2, <1>3 DEF Committed, CreatedIsKept

LEMMA Constants ==
    /\ MaxFaults \in Nat /\ MaxAccounts \in Nat
    /\ Keys \subseteq Nat \ {0} /\ DOMAIN Private \subseteq Keys
    /\ \A n \in DOMAIN Private : Private[n] \in [email : Emails, validated : BOOLEAN]
BY AccountsAssumption

\* The handler is of its type when it goes on with its request, or is done.
HandlerOK ==
    /\ at \in Statements /\ job \in Jobs
    /\ at = "activate" => isPrivate
    /\ account \in 0 .. nextId - 1
    /\ faults \in 0 .. MaxFaults
    /\ proceed \in BOOLEAN /\ rehash \in BOOLEAN /\ bare \in BOOLEAN

LEMMA Types ==
    ASSUME IInv, TablesOK', HandlerOK', at # "idle",
           Done \/ (/\ UNCHANGED request /\ at' # "idle"
                    /\ isPrivate' => request.number \in DOMAIN Private)
    PROVE  TypeOK'
<1>1. /\ request' \in [email : Emails, number : Keys] \cup {NoRequest}
      /\ (at' = "idle") = (request' = NoRequest)
      /\ isPrivate' => request'.number \in DOMAIN Private
  BY DEF IInv, TypeOK, Done
<1>. QED
  BY <1>1 DEF HandlerOK, TablesOK, TypeOK

LEMMA FaultsCounted == IInv /\ (Refuse \/ UNCHANGED faults) => faults' \in 0 .. MaxFaults
BY Constants DEF IInv, TypeOK, Refuse

LEMMA DoneTypes ==
    ASSUME IInv, TablesOK', Done, UNCHANGED nextId, faults' \in 0 .. MaxFaults, bare' \in BOOLEAN
    PROVE  TypeOK'
<1>1. account' \in 0 .. nextId' - 1
  BY DEF IInv, TypeOK, Done
<1>2. request' = NoRequest /\ at' = "idle" /\ ~isPrivate'
  BY DEF Done
<1>. QED
  BY <1>1, <1>2 DEF TypeOK, TablesOK, Done, Statements, Jobs

LEMMA GoesOnTypes ==
    ASSUME IInv, TablesOK', at' \in Statements \ {"idle", "activate"}, at # "idle", job' \in Jobs,
           UNCHANGED <<request, account, proceed, isPrivate, rehash, nextId>>,
           faults' \in 0 .. MaxFaults, bare' \in BOOLEAN
    PROVE  TypeOK'
<1>1. HandlerOK'
  BY DEF IInv, TypeOK, HandlerOK
<1>2. isPrivate => request.number \in DOMAIN Private
  BY DEF IInv, TypeOK
<1>. QED
  BY <1>1, <1>2, Types

LEMMA CreateKeeps ==
    ASSUME IInv, NEW email \in Emails, NEW number \in Keys, Create(email, number)
    PROVE  IInv'
<1>. USE DEF Create, history
<1>1. TablesOK' /\ Committed' /\ CreatedIsKept'
  BY Reading DEF Quiet
<1>2. ~isPrivate
  <2>1. request = NoRequest
    BY DEF IInv, TypeOK
  <2>. QED
    BY <2>1, Constants DEF IInv, TypeOK, NoRequest
<1>3. request' # NoRequest
  BY Constants DEF NoRequest
<1>4. TypeOK'
  <2>1. request' \in [email : Emails, number : Keys]
    OBVIOUS
  <2>. QED
    BY <1>1, <1>2, <1>3, <2>1 DEF IInv, TypeOK, TablesOK, Statements, Jobs
<1>5. Place' /\ Reserved(stored)' /\ Reserved(work)'
  BY <1>2 DEF IInv, Place, Reserved, Before
<1>. QED
  BY <1>1, <1>4, <1>5 DEF IInv, TablesOK

LEMMA CheckIfEmailExistsKeeps == IInv /\ CheckIfEmailExists => IInv'
<1>. SUFFICES ASSUME IInv, CheckIfEmailExists PROVE IInv'
  OBVIOUS
<1>. USE DEF CheckIfEmailExists, history
<1>1. /\ TablesOK' /\ Committed' /\ CreatedIsKept'
      /\ work' = work /\ stored' = work /\ stored = work
  BY Reading DEF Quiet, Read, Refuse
<1>2. TypeOK'
  <2>1. HandlerOK'
    BY FaultsCounted DEF HandlerOK, IInv, TypeOK, Statements, Jobs, Read
  <2>. QED
    BY <1>1, <2>1, Types DEF IInv, TypeOK
<1>3. Place' /\ Reserved(stored)' /\ Reserved(work)'
  BY <1>1 DEF IInv, Place, Reserved, Before, EmailIsFree
<1>. QED
  BY <1>1, <1>2, <1>3 DEF IInv, TablesOK

LEMMA CheckIfCDKeyExistsKeeps == IInv /\ CheckIfCDKeyExists => IInv'
<1>. SUFFICES ASSUME IInv, CheckIfCDKeyExists PROVE IInv'
  OBVIOUS
<1>. USE DEF CheckIfCDKeyExists, history
<1>1. /\ TablesOK' /\ Committed' /\ CreatedIsKept'
      /\ work' = work /\ stored' = work /\ stored = work
  BY Reading DEF Quiet, Read, Refuse, Done, Goto
<1>2. faults' \in 0 .. MaxFaults /\ bare' \in BOOLEAN
  BY FaultsCounted DEF Read, IInv, TypeOK
<1>3. job \in Jobs /\ "private" \in Statements
  BY DEF IInv, TypeOK, Statements
<1>4. TypeOK'
  BY <1>1, <1>2, <1>3, DoneTypes, GoesOnTypes DEF Goto
<1>5. Place' /\ Reserved(stored)' /\ Reserved(work)'
  BY <1>1 DEF IInv, Place, Reserved, Before, EmailIsFree, KeyIsFree, Done, Goto
<1>. QED
  BY <1>1, <1>4, <1>5 DEF IInv, TablesOK

LEMMA CheckIfPrivateCDKeyUserKeeps == IInv /\ CheckIfPrivateCDKeyUser => IInv'
<1>. SUFFICES ASSUME IInv, CheckIfPrivateCDKeyUser PROVE IInv'
  OBVIOUS
<1>. USE DEF CheckIfPrivateCDKeyUser, history
<1>1. /\ TablesOK' /\ Committed' /\ CreatedIsKept'
      /\ work' = work /\ stored' = work /\ stored = work
  BY Reading DEF Quiet, Read, Refuse, Goto
<1>2. faults' \in 0 .. MaxFaults /\ bare' \in BOOLEAN
  BY FaultsCounted DEF Read, IInv, TypeOK
<1>3. job \in Jobs /\ {"auth", "test"} \subseteq Statements
  BY DEF IInv, TypeOK, Statements
<1>4. TypeOK'
  BY <1>1, <1>2, <1>3, GoesOnTypes DEF Goto
<1>5. Place'
  <2>1. at' = "test" /\ request.number \in DOMAIN Private => nextId' \in unchecked'
    BY DEF Goto
  <2>2. at' \in {"auth", "test"} /\ UNCHANGED <<job, request, isPrivate>>
    BY DEF Goto
  <2>3. at' = "auth" => request.number \in DOMAIN Private
    BY DEF Goto
  <2>. QED
    BY <2>1, <2>2, <2>3 DEF IInv, Place, Before
<1>6. Reserved(stored)' /\ Reserved(work)'
  BY <1>1 DEF IInv, Place, Reserved, Before, EmailIsFree, KeyIsFree, Goto
<1>. QED
  BY <1>1, <1>4, <1>5, <1>6 DEF IInv, TablesOK

LEMMA AuthPrivateCDKeyKeeps == IInv /\ AuthPrivateCDKey => IInv'
<1>. SUFFICES ASSUME IInv, AuthPrivateCDKey PROVE IInv'
  OBVIOUS
<1>. USE DEF AuthPrivateCDKey, history
<1>1. /\ TablesOK' /\ Committed' /\ CreatedIsKept'
      /\ work' = work /\ stored' = work /\ stored = work
  BY Reading DEF Quiet, Read, Refuse, Done
<1>2. faults' \in 0 .. MaxFaults /\ bare' \in BOOLEAN
  BY FaultsCounted DEF Read, IInv, TypeOK
<1>3. CASE Done
  <2>1. TypeOK'
    BY <1>1, <1>2, <1>3, DoneTypes
  <2>2. Place' /\ Reserved(stored)' /\ Reserved(work)'
    BY <1>3 DEF Place, Reserved, Before, Done
  <2>. QED
    BY <1>1, <2>1, <2>2 DEF IInv, TablesOK
<1>4. CASE /\ at' = "test" /\ isPrivate' = TRUE
           /\ UNCHANGED <<job, request, account, proceed, rehash>>
           /\ Private[request.number] = [email |-> request.email, validated |-> TRUE]
  <2>1. TypeOK'
    <3>1. request.number \in DOMAIN Private
      BY DEF IInv, Place
    <3>2. HandlerOK'
      BY <1>2, <1>4 DEF HandlerOK, IInv, TypeOK, Statements
    <3>. QED
      BY <1>1, <1>4, <3>1, <3>2, Types
  <2>2. Place' /\ Reserved(stored)' /\ Reserved(work)'
    BY <1>1, <1>4 DEF IInv, Place, Reserved, Before, EmailIsFree, KeyIsFree
  <2>. QED
    BY <1>1, <2>1, <2>2 DEF IInv, TablesOK
<1>. QED
  BY <1>3, <1>4

-----------------------------------------------------------------------------
(* The beginning of a transaction *)

LEMMA NextJobTypes ==
    ASSUME IInv, TablesOK', NextJob, at # "idle", UNCHANGED nextId,
           faults' \in 0 .. MaxFaults, bare' \in BOOLEAN
    PROVE  TypeOK'
<1>1. job \in Jobs
  BY DEF IInv, TypeOK
<1>2. CASE Done
  BY <1>2, DoneTypes
<1>3. CASE /\ at' = "test" /\ job' \in {"cdkey", "password"}
           /\ UNCHANGED <<request, account, proceed, isPrivate, rehash>>
  BY <1>3, GoesOnTypes DEF Statements, Jobs
<1>. QED
  BY <1>1, <1>2, <1>3 DEF NextJob, Jobs

\* The repairs follow one another, and need no more than the account.
LEMMA NextJobPlace ==
    ASSUME IInv, NextJob
    PROVE  /\ Place' /\ Reserved(stored)' /\ Reserved(work)'
           /\ at' \in {"idle", "test"}
<1>1. job \in Jobs
  BY DEF IInv, TypeOK
<1>2. CASE Done
  BY <1>2 DEF Place, Reserved, Before, Done
<1>3. CASE /\ at' = "test" /\ job' \in {"cdkey", "password"}
           /\ UNCHANGED <<request, account, proceed, isPrivate, rehash>>
  BY <1>3 DEF IInv, Place, Reserved, Before
<1>. QED
  BY <1>1, <1>2, <1>3 DEF NextJob, Jobs

LEMMA TestDatabaseKeeps == IInv /\ TestDatabase => IInv'
<1>. SUFFICES ASSUME IInv, TestDatabase PROVE IInv'
  OBVIOUS
<1>. USE DEF TestDatabase, history
<1>0. at' \in {"idle", "test", "auto0"}
  BY NextJobPlace DEF Goto
<1>1. /\ TablesOK' /\ Committed' /\ CreatedIsKept'
      /\ work' = work /\ stored' = work /\ stored = work
  BY <1>0, Reading DEF Quiet
<1>2. faults' \in 0 .. MaxFaults /\ bare' \in BOOLEAN
  BY FaultsCounted DEF IInv, TypeOK
<1>3. CASE Goto("auto0")
  <2>1. TypeOK'
    BY <1>1, <1>2, <1>3, GoesOnTypes DEF IInv, TypeOK, Statements, Goto
  <2>2. Place' /\ Reserved(stored)' /\ Reserved(work)'
    BY <1>1, <1>3 DEF IInv, Place, Reserved, Before, EmailIsFree, KeyIsFree, Goto
  <2>. QED
    BY <1>1, <2>1, <2>2 DEF IInv, TablesOK
<1>4. CASE NextJob
  BY <1>1, <1>2, <1>4, NextJobTypes, NextJobPlace DEF IInv, TablesOK
<1>. QED
  BY <1>3, <1>4

LEMMA BeginOffKeeps == IInv /\ BeginOff => IInv'
<1>. SUFFICES ASSUME IInv, BeginOff PROVE IInv'
  OBVIOUS
<1>. USE DEF BeginOff, history, Goto
<1>1. /\ TablesOK' /\ Committed' /\ CreatedIsKept'
      /\ work' = work /\ stored' = work /\ stored = work
  BY Reading DEF Quiet
<1>2. faults' \in 0 .. MaxFaults /\ bare' \in BOOLEAN
  BY FaultsCounted DEF IInv, TypeOK
<1>3. TypeOK'
  BY <1>1, <1>2, GoesOnTypes DEF IInv, TypeOK, Statements
<1>4. Place' /\ Reserved(stored)' /\ Reserved(work)'
  BY <1>1 DEF IInv, Place, Reserved, Before, EmailIsFree, KeyIsFree
<1>. QED
  BY <1>1, <1>3, <1>4 DEF IInv, TablesOK

LEMMA BeginStartKeeps == IInv /\ BeginStart => IInv'
<1>. SUFFICES ASSUME IInv, BeginStart PROVE IInv'
  OBVIOUS
<1>. USE DEF BeginStart, history, Goto
<1>1. /\ TablesOK' /\ Committed' /\ CreatedIsKept'
      /\ work' = work /\ stored' = work /\ stored = work
  BY Reading DEF Quiet
<1>2. faults' \in 0 .. MaxFaults /\ bare' \in BOOLEAN
  BY FaultsCounted DEF IInv, TypeOK
<1>3. TypeOK'
  BY <1>1, <1>2, GoesOnTypes DEF IInv, TypeOK, Statements
<1>4. Place' /\ Reserved(stored)' /\ Reserved(work)'
  BY <1>1 DEF IInv, Place, Reserved, Before, EmailIsFree, KeyIsFree
<1>. QED
  BY <1>1, <1>3, <1>4 DEF IInv, TablesOK

-----------------------------------------------------------------------------
(* Its end *)

LEMMA FailKeeps == IInv /\ Fail => IInv'
<1>. SUFFICES ASSUME IInv, Fail PROVE IInv'
  OBVIOUS
<1>. USE DEF Fail, history, Goto
<1>1. /\ SessionTypeOK' /\ SessionAgrees' /\ work' = work /\ stored' = stored
  <2>1. Quiet /\ stored' = stored
    BY DEF Quiet, Refuse, session, FailsOnLink
  <2>. QED
    BY <2>1, QuietStep DEF IInv, TypeOK
<1>2. /\ nextId' \in Nat /\ HandmadeIds \subseteq 1 .. nextId' - 1
      /\ Rows(stored', nextId') /\ Rows(work', nextId')
      /\ Owned(stored', unchecked') /\ Owned(work', unchecked')
  BY <1>1, Unwritten
<1>3. IdsOf(work'.accounts) \subseteq 1 .. nextId' - 1
  BY <1>1 DEF IInv, TypeOK
<1>4. TablesOK' /\ Committed' /\ CreatedIsKept'
  <2>1. Settled' /\ Seen' /\ Committed'
    BY DEF Settled, Seen, Committed
  <2>2. Grown' /\ CreatedIsKept'
    BY <1>1 DEF IInv, Grown, CreatedIsKept
  <2>3. Complete'
    BY <1>1 DEF IInv, Complete, Whole, WholeBut
  <2>. QED
    BY <1>1, <1>2, <1>3, <2>1, <2>2, <2>3 DEF TablesOK
<1>5. faults' \in 0 .. MaxFaults /\ bare' \in BOOLEAN
  BY FaultsCounted DEF IInv, TypeOK
<1>6. TypeOK'
  BY <1>4, <1>5, GoesOnTypes DEF IInv, TypeOK, Statements
<1>7. Place' /\ Reserved(stored)' /\ Reserved(work)'
  BY DEF IInv, Place, Reserved, Before
<1>. QED
  BY <1>4, <1>6, <1>7 DEF IInv, TablesOK

LEMMA RollbackTransactionKeeps == IInv /\ RollbackTransaction => IInv'
<1>. SUFFICES ASSUME IInv, RollbackTransaction PROVE IInv'
  OBVIOUS
<1>. USE DEF RollbackTransaction, history
<1>1. /\ SessionTypeOK' /\ SessionAgrees' /\ work' = stored /\ stored' = stored
  BY DEF IInv, TypeOK, Rollback, Reaches, FailsOnLink, SessionTypeOK, SessionAgrees
<1>2. /\ Place' /\ Reserved(stored)' /\ Reserved(work)'
      /\ at' \in {"idle", "test"}
  BY NextJobPlace
<1>3. TablesOK' /\ told \ unsure \subseteq IdsOf(stored'.accounts)
  BY <1>1, <1>2, Agreed
<1>4. Committed' /\ CreatedIsKept'
  BY <1>2, <1>3 DEF Committed, CreatedIsKept
<1>5. TypeOK'
  BY <1>3, NextJobTypes, FaultsCounted DEF IInv, TypeOK
<1>. QED
  BY <1>2, <1>3, <1>4, <1>5 DEF IInv, TablesOK

LEMMA CommitFirstKeeps == IInv /\ CommitFirst => IInv'
<1>. SUFFICES ASSUME IInv, CommitFirst PROVE IInv'
  OBVIOUS
<1>. USE DEF CommitFirst, Goto
<1>1. /\ SessionTypeOK' /\ SessionAgrees' /\ work' = work /\ stored' = work
  BY DEF IInv, TypeOK, Commit, Reaches, FailsOnLink, SessionTypeOK, SessionAgrees
<1>2. stored' = stored \/ bare \/ Whole(work)
  BY DEF IInv, Complete, Commit, Reaches, GoesOn, FailsOnLink
<1>3. TablesOK' /\ told \ unsure \subseteq IdsOf(stored'.accounts)
  BY <1>1, <1>2, Agreed
<1>4. CreatedIsKept'
  BY <1>3 DEF CreatedIsKept
<1>5. Committed'
  BY <1>1 DEF IInv, Seen, Committed, Commit, Reaches, GoesOn
<1>6. TypeOK'
  BY <1>3, GoesOnTypes, FaultsCounted DEF IInv, TypeOK, Statements
<1>7. Place' /\ Reserved(stored)' /\ Reserved(work)'
  BY DEF IInv, Place, Reserved, Before
<1>. QED
  BY <1>3, <1>4, <1>5, <1>6, <1>7 DEF IInv, TablesOK

LEMMA CommitSecondKeeps == IInv /\ CommitSecond => IInv'
<1>. SUFFICES ASSUME IInv, CommitSecond PROVE IInv'
  OBVIOUS
<1>. USE DEF CommitSecond
<1>0. work = stored
  BY DEF IInv, Settled
<1>1. /\ SessionTypeOK' /\ SessionAgrees' /\ work' = work /\ stored' = work
  BY <1>0 DEF IInv, TypeOK, SetAutocommitOn, Reaches, FailsOnLink, SessionTypeOK, SessionAgrees
<1>2. /\ Place' /\ Reserved(stored)' /\ Reserved(work)'
      /\ at' \in {"idle", "test"}
  BY NextJobPlace
<1>3. TablesOK' /\ told \ unsure \subseteq IdsOf(stored'.accounts)
  BY <1>0, <1>1, <1>2, Agreed
<1>4. Committed' /\ CreatedIsKept'
  BY <1>0, <1>1, <1>2, <1>3 DEF IInv, Committed, CreatedIsKept
<1>5. TypeOK'
  BY <1>3, NextJobTypes, FaultsCounted DEF IInv, TypeOK
<1>. QED
  BY <1>2, <1>3, <1>4, <1>5 DEF IInv, TablesOK

-----------------------------------------------------------------------------
(* What is written *)

\* A new account: its email is free, and it has no key yet.
LEMMA InsertUserAccountKeeps == IInv /\ InsertUserAccount => IInv'
<1>. SUFFICES ASSUME IInv, InsertUserAccount PROVE IInv'
  OBVIOUS
<1>. DEFINE row == Account(nextId, request.email, "blowfish")
            new == [work EXCEPT !.accounts = @ \cup {row}]
<1>1. Execute(new) /\ bare' = (bare \/ ~open') /\ UNCHANGED faults
  BY DEF InsertUserAccount, Write
<1>2. /\ SessionTypeOK' /\ SessionAgrees'
      /\ work' = new /\ stored' = IF open' THEN stored ELSE new
      /\ GoesOn' /\ work = stored
  BY <1>1, WriteStep DEF IInv, TypeOK, Settled, InsertUserAccount
<1>3. /\ account' = nextId /\ nextId' = nextId + 1 /\ nextId \in Nat \ {0}
      /\ at' \in {"activate", "cdkey"} /\ (at' = "activate" => isPrivate) /\ (at' = "cdkey" => ~isPrivate)
      /\ job = "create" /\ UNCHANGED <<job, request, proceed, isPrivate, rehash, told, unsure, unchecked>>
  <2>1. nextId \in Nat \ {0}
    BY DEF IInv, TypeOK, Place
  <2>. QED
    BY <2>1 DEF InsertUserAccount, IInv, Place
<1>4. /\ row.id = nextId /\ row.email = request.email
      /\ request \in [email : Emails, number : Keys] /\ row \in AccountRow
  BY <1>3, Constants DEF Account, AccountRow, IInv, TypeOK, InsertUserAccount
<1>5. /\ new.accounts = work.accounts \cup {row}
      /\ new.keys = work.keys /\ new.activated = work.activated
      /\ new \in [accounts : SUBSET AccountRow, keys : SUBSET KeyRow,
                 activated : [DOMAIN Private -> Nat]]
  BY <1>4 DEF IInv, Rows
<1>6. Rows(work, nextId + 1) /\ Rows(new, nextId + 1)
  <2>1. Rows(work, nextId)
    BY DEF IInv
  <2>2. Rows(work, nextId + 1)
    BY <1>3, <2>1 DEF Rows, AccountRow, KeyRow
  <2>. QED
    BY <1>3, <1>4, <1>5, <2>2 DEF Rows
<1>7. Owned(new, unchecked)
  <2>1. EmailIsFree(work) /\ Owned(work, unchecked)
    BY <1>3 DEF IInv, Reserved, Before, InsertUserAccount
  <2>2. EmailsDiffer(new)
    BY <1>4, <1>5, <2>1 DEF Owned, EmailsDiffer, EmailIsFree
  <2>3. KeysDiffer(new)
    BY <1>5, <2>1 DEF Owned, KeysDiffer
  <2>4. PrivateKept(new, unchecked)
    BY <1>5, <2>1 DEF Owned, PrivateKept, Entitled
  <2>. QED
    BY <2>2, <2>3, <2>4 DEF Owned
<1>8. KeyIsFree(work) /\ KeyIsFree(new)
  BY <1>3, <1>5 DEF IInv, Reserved, Before, InsertUserAccount, KeyIsFree
<1>9. IsSeen(work)'
  BY <1>2, <1>3, <1>4, <1>5 DEF IsSeen
<1>10. Complete'
  <2>1. ASSUME ~bare' PROVE Whole(stored)' /\ open' /\ WholeBut(work, account)'
    <3>1. open' /\ stored' = stored /\ Whole(stored) /\ Whole(work)
      BY <1>1, <1>2, <2>1 DEF IInv, Complete
    <3>2. Whole(stored)'
      BY <3>1 DEF Whole, WholeBut
    <3>3. WholeBut(work, account)'
      <4>1. \A a \in new.accounts : a.id = nextId \/ \E k \in new.keys : k.account = a.id
        <5>1. \A a \in work.accounts : \E k \in work.keys : k.account = a.id
          BY <3>1 DEF IInv, Rows, Whole, WholeBut, AccountRow
        <5>. QED
          BY <1>4, <1>5, <5>1
      <4>2. \A k \in new.keys : \E a \in new.accounts : a.id = k.account
        BY <1>5, <3>1 DEF Whole, WholeBut
      <4>3. \A n \in DOMAIN Private : new.activated[n] # 0 =>
                \E k \in new.keys : k.account = new.activated[n] /\ k.number = n
        BY <1>5, <3>1 DEF Whole, WholeBut
      <4>. QED
        BY <1>2, <1>3, <4>1, <4>2, <4>3 DEF WholeBut
    <3>. QED
      BY <3>1, <3>2, <3>3
  <2>. QED
    BY <1>3, <2>1 DEF Complete
<1>11. Place'
  BY <1>3 DEF IInv, Place, Before, InsertUserAccount
<1>12. Grown' /\ CreatedIsKept'
  BY <1>2, <1>3, <1>5 DEF IInv, Grown, CreatedIsKept, IdsOf
<1>13. TypeOK'
  <2>1. IdsOf(work'.accounts) \subseteq 1 .. nextId' - 1
    BY <1>2, <1>3, <1>6 DEF Rows, IdsOf, AccountRow
  <2>2. account' \in 0 .. nextId' - 1
    BY <1>3
  <2>3. /\ at' \in Statements /\ at' # "idle" /\ at # "idle" /\ job' \in Jobs
        /\ bare' \in BOOLEAN /\ faults' \in 0 .. MaxFaults
        /\ proceed' \in BOOLEAN /\ rehash' \in BOOLEAN
        /\ isPrivate => request.number \in DOMAIN Private
    BY <1>1, <1>2, <1>3 DEF IInv, TypeOK, SessionTypeOK, Statements, InsertUserAccount
  <2>4. request' # NoRequest
    BY <1>3 DEF IInv, TypeOK, InsertUserAccount
  <2>. QED
    BY <1>2, <1>3, <1>4, <2>1, <2>2, <2>3, <2>4 DEF TypeOK
<1>14. Settled' /\ Seen' /\ Committed' /\ Reserved(stored)' /\ Reserved(work)'
  <2>1. Reserved(work)' /\ Reserved(stored)'
    BY <1>2, <1>3, <1>8 DEF Reserved, Before, KeyIsFree
  <2>2. Seen'
    BY <1>2, <1>3, <1>9 DEF Seen, InsertUserAccount, IInv, Place
  <2>. QED
    BY <1>3, <2>1, <2>2 DEF Settled, Committed
<1>15. nextId' \in Nat /\ HandmadeIds \subseteq 1 .. nextId' - 1
  BY <1>3 DEF IInv
<1>. QED
  BY <1>2, <1>3, <1>6, <1>7, <1>10, <1>11, <1>12, <1>13, <1>14, <1>15 DEF IInv

\* A private key is activated for the account that was just inserted.
LEMMA UpdatePrivateCDKeyAccountIDKeeps == IInv /\ UpdatePrivateCDKeyAccountID => IInv'
<1>. SUFFICES ASSUME IInv, UpdatePrivateCDKeyAccountID PROVE IInv'
  OBVIOUS
<1>. DEFINE new == [work EXCEPT !.activated[request.number] = account]
<1>1. /\ request.number \in DOMAIN Private
      /\ Private[request.number] = [email |-> request.email, validated |-> TRUE]
      /\ account = nextId - 1 /\ nextId \in Nat /\ account \in Nat \ {0} /\ job = "create"
      /\ account \notin HandmadeIds /\ isPrivate
  BY DEF UpdatePrivateCDKeyAccountID, IInv, TypeOK, Place
<1>2. Execute(new) /\ bare' = (bare \/ ~open') /\ UNCHANGED faults
  BY <1>1 DEF UpdatePrivateCDKeyAccountID, Write
<1>3. /\ SessionTypeOK' /\ SessionAgrees'
      /\ work' = new /\ stored' = IF open' THEN stored ELSE new
      /\ GoesOn /\ GoesOn'
  BY <1>2, WriteStep DEF IInv, TypeOK
<1>4. /\ at = "activate" /\ at' = "cdkey"
      /\ UNCHANGED <<job, request, account, proceed, isPrivate, rehash, nextId, told, unsure, unchecked>>
  BY DEF UpdatePrivateCDKeyAccountID, Goto
<1>5. /\ new.accounts = work.accounts /\ new.keys = work.keys
      /\ new.activated = [work.activated EXCEPT ![request.number] = account]
      /\ work.activated \in [DOMAIN Private -> Nat]
      /\ new \in [accounts : SUBSET AccountRow, keys : SUBSET KeyRow,
                 activated : [DOMAIN Private -> Nat]]
  BY <1>1 DEF IInv, Rows
<1>6. Rows(new, nextId)
  BY <1>5 DEF IInv, Rows
<1>7. KeyIsFree(work) /\ KeyIsFree(new) /\ KeyIsFree(stored)
  BY <1>1, <1>4, <1>5 DEF IInv, Reserved, KeyIsFree
<1>8. Owned(new, unchecked)
  <2>1. EmailsDiffer(new) /\ KeysDiffer(new)
    BY <1>5 DEF IInv, Owned, EmailsDiffer, KeysDiffer
  <2>2. \A k \in work.keys : new.activated[k.number] = work.activated[k.number]
                              \/ k.number \notin DOMAIN Private
    BY <1>5, <1>7 DEF KeyIsFree
  <2>3. PrivateKept(new, unchecked)
    BY <1>5, <2>2 DEF IInv, Owned, PrivateKept, Entitled
  <2>. QED
    BY <2>1, <2>3 DEF Owned
<1>9. IsSeen(work)' /\ work'.activated[request.number] = account
  BY <1>1, <1>3, <1>4, <1>5 DEF IInv, Seen, IsSeen
<1>10. Complete'
  <2>1. ASSUME ~bare' PROVE Whole(stored)' /\ open' /\ WholeBut(work, account)'
    <3>1. open' /\ stored' = stored /\ Whole(stored) /\ WholeBut(work, account)
      BY <1>2, <1>3, <1>4, <2>1 DEF IInv, Complete
    <3>2. Whole(stored)'
      BY <3>1 DEF Whole, WholeBut
    <3>3. \A n \in DOMAIN Private : new.activated[n] # 0 =>
              \/ new.activated[n] = account /\ n = request.number
              \/ \E k \in new.keys : k.account = new.activated[n] /\ k.number = n
      BY <1>5, <3>1 DEF WholeBut
    <3>4. WholeBut(work, account)'
      BY <1>3, <1>4, <1>5, <3>1, <3>3 DEF WholeBut
    <3>. QED
      BY <3>1, <3>2, <3>4
  <2>. QED
    BY <1>4, <2>1 DEF Complete
<1>11. Place'
  BY <1>1, <1>4 DEF IInv, Place, Before
<1>12. Grown' /\ CreatedIsKept'
  BY <1>3, <1>4, <1>5 DEF IInv, Grown, CreatedIsKept, IdsOf
<1>13. TypeOK'
  <2>1. IdsOf(work'.accounts) \subseteq 1 .. nextId' - 1
    BY <1>3, <1>4, <1>5 DEF IInv, TypeOK
  <2>2. bare' \in BOOLEAN
    BY <1>2, <1>3 DEF IInv, TypeOK, SessionTypeOK
  <2>. QED
    BY <1>2, <1>3, <1>4, <2>1, <2>2 DEF IInv, TypeOK, Statements
<1>14. Settled' /\ Seen' /\ Committed' /\ Reserved(stored)' /\ Reserved(work)'
  BY <1>3, <1>4, <1>7, <1>9 DEF Settled, Seen, Committed, Reserved, Before, KeyIsFree
<1>. QED
  BY <1>3, <1>4, <1>6, <1>8, <1>10, <1>11, <1>12, <1>13, <1>14 DEF IInv

\* The key is inserted: nobody else has it.
LEMMA InsertUserCDKeyInfoKeeps == IInv /\ InsertUserCDKeyInfo => IInv'
<1>. SUFFICES ASSUME IInv, InsertUserCDKeyInfo PROVE IInv'
  OBVIOUS
<1>. DEFINE row == KeyOf(account, request.number, request.number)
            new == [work EXCEPT !.keys = @ \cup {row}]
<1>1. Execute(new) /\ bare' = (bare \/ ~open') /\ UNCHANGED faults
  BY DEF InsertUserCDKeyInfo, Write
<1>2. /\ SessionTypeOK' /\ SessionAgrees'
      /\ work' = new /\ stored' = IF open' THEN stored ELSE new
      /\ GoesOn /\ GoesOn'
  BY <1>1, WriteStep DEF IInv, TypeOK
<1>3. /\ at = "cdkey" /\ at' = "commit" /\ job = "create"
      /\ UNCHANGED <<job, request, account, proceed, isPrivate, rehash, nextId, told, unsure, unchecked>>
  BY DEF InsertUserCDKeyInfo, Goto, IInv, Place
<1>4. /\ account = nextId - 1 /\ nextId \in Nat /\ account \in Nat \ {0}
      /\ account \notin HandmadeIds
      /\ request.number \in DOMAIN Private => isPrivate \/ account \in unchecked
      /\ isPrivate => Private[request.number] = [email |-> request.email, validated |-> TRUE]
  BY <1>3 DEF IInv, TypeOK, Place
<1>5. request.number \in Keys /\ request.number \in Nat \ {0}
  BY <1>3, Constants DEF IInv, TypeOK
<1>6. /\ row.account = account /\ row.number = request.number /\ row.cipher = request.number
      /\ row \in KeyRow
  BY <1>4, <1>5 DEF KeyOf, KeyRow
<1>7. /\ new.keys = work.keys \cup {row}
      /\ new.accounts = work.accounts /\ new.activated = work.activated
      /\ new \in [accounts : SUBSET AccountRow, keys : SUBSET KeyRow,
                 activated : [DOMAIN Private -> Nat]]
  BY <1>6 DEF IInv, Rows
<1>8. Rows(new, nextId)
  BY <1>4, <1>5, <1>6, <1>7 DEF IInv, Rows
<1>9. KeyIsFree(work) /\ IsSeen(work)
      /\ (isPrivate => work.activated[request.number] = account)
  BY <1>2, <1>3 DEF IInv, Reserved, Seen
<1>10. Owned(new, unchecked)
  <2>1. EmailsDiffer(new)
    BY <1>7 DEF IInv, Owned, EmailsDiffer
  <2>2. KeysDiffer(new)
    BY <1>6, <1>7, <1>9 DEF IInv, Owned, KeysDiffer, KeyIsFree
  <2>3. \A k \in work.keys :
            /\ k.cipher \in {0, k.number}
            /\ k.number \in DOMAIN Private /\ k.account \notin HandmadeIds \cup unchecked => Entitled(new, k)
    BY <1>7 DEF IInv, Owned, PrivateKept, Entitled
  <2>4. request.number \in DOMAIN Private /\ account \notin unchecked => Entitled(new, row)
    BY <1>4, <1>6, <1>7, <1>9 DEF Entitled, IsSeen
  <2>5. PrivateKept(new, unchecked)
    BY <1>6, <1>7, <2>3, <2>4 DEF PrivateKept
  <2>. QED
    BY <2>1, <2>2, <2>5 DEF Owned
<1>11. account \in IdsOf(work'.accounts)
  BY <1>2, <1>7, <1>9 DEF IsSeen, IdsOf
<1>12. Complete'
  <2>1. ASSUME ~bare' PROVE Whole(stored)' /\ open' /\ Whole(work)'
    <3>1. open' /\ stored' = stored /\ Whole(stored) /\ WholeBut(work, account)
      BY <1>1, <1>2, <1>3, <2>1 DEF IInv, Complete
    <3>2. Whole(stored)'
      BY <3>1 DEF Whole, WholeBut
    <3>3. \A a \in new.accounts : \E k \in new.keys : k.account = a.id
      BY <1>6, <1>7, <3>1 DEF WholeBut
    <3>4. \A k \in new.keys : \E a \in new.accounts : a.id = k.account
      BY <1>6, <1>7, <1>9, <3>1 DEF WholeBut, IsSeen
    <3>5. \A n \in DOMAIN Private : new.activated[n] # 0 =>
              \E k \in new.keys : k.account = new.activated[n] /\ k.number = n
      BY <1>6, <1>7, <3>1 DEF WholeBut
    <3>6. Whole(work)'
      BY <1>2, <3>3, <3>4, <3>5 DEF Whole, WholeBut
    <3>. QED
      BY <3>1, <3>2, <3>6
  <2>. QED
    BY <1>3, <2>1 DEF Complete
<1>13. Place'
  BY <1>3 DEF IInv, Place, Before
<1>14. Grown' /\ CreatedIsKept'
  BY <1>2, <1>3, <1>7 DEF IInv, Grown, CreatedIsKept, IdsOf
<1>15. TypeOK'
  <2>1. IdsOf(work'.accounts) \subseteq 1 .. nextId' - 1
    BY <1>2, <1>3, <1>7 DEF IInv, TypeOK
  <2>2. bare' \in BOOLEAN
    BY <1>1, <1>2 DEF IInv, TypeOK, SessionTypeOK
  <2>. QED
    BY <1>1, <1>2, <1>3, <2>1, <2>2 DEF IInv, TypeOK, Statements
<1>16. Settled' /\ Seen' /\ Committed' /\ Reserved(stored)' /\ Reserved(work)'
  BY <1>3, <1>11 DEF Settled, Seen, Committed, Reserved, Before
<1>. QED
  BY <1>2, <1>3, <1>8, <1>10, <1>12, <1>13, <1>14, <1>15, <1>16 DEF IInv

-----------------------------------------------------------------------------
(* Logins *)

LEMMA LoginKeeps ==
    ASSUME IInv, NEW email \in Emails, NEW number \in Keys, Login(email, number)
    PROVE  IInv'
<1>. USE DEF Login, history
<1>1. /\ TablesOK' /\ Committed' /\ CreatedIsKept'
      /\ stored = work
  BY Reading DEF Quiet, Read
<1>2. ~isPrivate
  <2>1. request = NoRequest
    BY DEF IInv, TypeOK
  <2>. QED
    BY <2>1, Constants DEF IInv, TypeOK, NoRequest
<1>3. request' # NoRequest
  BY Constants DEF NoRequest
<1>4. account' \in 0 .. nextId' - 1
  BY DEF IInv, TypeOK, IdsOf
<1>5. TypeOK'
  <2>1. request' \in [email : Emails, number : Keys]
    OBVIOUS
  <2>2. rehash' \in BOOLEAN
    OBVIOUS
  <2>. QED
    BY <1>1, <1>2, <1>3, <1>4, <2>1, <2>2 DEF IInv, TypeOK, TablesOK, Statements, Jobs, Read
<1>6. Place' /\ Reserved(stored)' /\ Reserved(work)'
  BY <1>2 DEF IInv, Place, Reserved, Before
<1>. QED
  BY <1>1, <1>5, <1>6 DEF IInv, TablesOK

\* What a repair leaves of the tables: the same accounts, and keys that only
\* handmade accounts may have got.
LEMMA RepairedTables ==
    ASSUME IInv, at = "repair", work = stored
    PROVE  /\ Rows(Repaired, nextId) /\ Owned(Repaired, unchecked)
           /\ IdsOf(Repaired.accounts) = IdsOf(work.accounts)
           /\ Whole(work) => Whole(Repaired)
<1>1. job \in {"country", "cdkey", "password"} /\ request.number \in Nat \ {0}
      /\ request.number \in Keys
  BY Constants DEF IInv, TypeOK, Jobs, Place
<1>2. Rows(work, nextId) /\ Owned(work, unchecked)
  BY DEF IInv
<1>3. CASE job = "country"
  BY <1>2, <1>3 DEF Repaired
<1>4. CASE job = "cdkey"
  <2>. DEFINE new == [work EXCEPT !.keys = {KeyFilled(k) : k \in @}]
  <2>1. Repaired = new
    BY <1>4 DEF Repaired
  <2>2. /\ new.accounts = work.accounts /\ new.activated = work.activated
        /\ new.keys = {KeyFilled(k) : k \in work.keys}
    BY <1>2 DEF Rows
  <2>3. ASSUME NEW k \in work.keys
        PROVE  /\ KeyFilled(k) \in KeyRow
               /\ KeyFilled(k).account = k.account
               /\ KeyFilled(k).number = k.number \/ k.number = 0
               /\ KeyFilled(k).number # 0 \/ KeyFilled(k).number = k.number
               /\ k.cipher \in {0, k.number} => KeyFilled(k).cipher \in {0, KeyFilled(k).number}
    <3>1. k \in KeyRow
      BY <1>2 DEF Rows
    <3>. QED
      BY <1>1, <3>1 DEF KeyFilled, KeyRow
  <2>4. ASSUME NEW l \in new.keys
        PROVE  \E k \in work.keys : l = KeyFilled(k)
    BY <2>2
  <2>5. Rows(new, nextId)
    <3>1. new \in [accounts : SUBSET AccountRow, keys : SUBSET KeyRow,
                   activated : [DOMAIN Private -> Nat]]
      BY <1>2, <2>2, <2>3 DEF Rows
    <3>. QED
      BY <1>2, <2>2, <2>3, <2>4, <3>1 DEF Rows
  <2>6. Owned(new, unchecked)
    <3>1. EmailsDiffer(new)
      BY <1>2, <2>2 DEF Owned, EmailsDiffer
    <3>2. KeysDiffer(new)
      <4>1. SUFFICES ASSUME NEW k \in work.keys, NEW l \in work.keys,
                            KeyFilled(k).account # KeyFilled(l).account,
                            KeyFilled(k).number = KeyFilled(l).number
                     PROVE  {k.account, l.account} \cap HandmadeIds # {}
        BY <2>3, <2>4 DEF KeysDiffer
      <4>2. CASE k.number = 0 \/ l.number = 0
        BY <1>2, <4>2 DEF Rows
      <4>3. CASE k.number # 0 /\ l.number # 0
        BY <1>2, <2>3, <4>1, <4>3 DEF Owned, KeysDiffer
      <4>. QED
        BY <4>2, <4>3
    <3>3. PrivateKept(new, unchecked)
      <4>1. SUFFICES ASSUME NEW k \in work.keys
                     PROVE  /\ KeyFilled(k).cipher \in {0, KeyFilled(k).number}
                            /\ KeyFilled(k).number \in DOMAIN Private
                               /\ KeyFilled(k).account \notin HandmadeIds \cup unchecked
                               => Entitled(new, KeyFilled(k))
        BY <2>4 DEF PrivateKept
      <4>2. KeyFilled(k).cipher \in {0, KeyFilled(k).number}
        BY <1>2, <2>3 DEF Owned, PrivateKept
      <4>3. ASSUME KeyFilled(k).number \in DOMAIN Private,
                   KeyFilled(k).account \notin HandmadeIds \cup unchecked
            PROVE  Entitled(new, KeyFilled(k))
        <5>1. KeyFilled(k).number = k.number /\ KeyFilled(k).account = k.account
          BY <1>2, <2>3, <4>3 DEF Rows
        <5>2. Entitled(work, k)
          BY <1>2, <4>3, <5>1 DEF Owned, PrivateKept
        <5>. QED
          BY <2>2, <5>1, <5>2 DEF Entitled
      <4>. QED
        BY <4>2, <4>3
    <3>. QED
      BY <3>1, <3>2, <3>3 DEF Owned
  <2>7. ASSUME Whole(work) PROVE Whole(new)
    <3>1. \A a \in work.accounts : a.id # 0 /\ \E k \in work.keys : k.account = a.id
      BY <1>2, <2>7 DEF Rows, AccountRow, Whole, WholeBut
    <3>2. \A a \in new.accounts : \E l \in new.keys : l.account = a.id
      BY <2>2, <2>3, <3>1
    <3>3. \A l \in new.keys : \E a \in new.accounts : a.id = l.account
      BY <2>2, <2>3, <2>4, <2>7 DEF Whole, WholeBut
    <3>4. ASSUME NEW n \in DOMAIN Private, new.activated[n] # 0
          PROVE  \E l \in new.keys : l.account = new.activated[n] /\ l.number = n
      <4>1. PICK k \in work.keys : k.account = work.activated[n] /\ k.number = n
        BY <2>2, <2>7, <3>4 DEF Whole, WholeBut
      <4>2. n # 0
        BY Constants
      <4>. QED
        BY <2>2, <2>3, <4>1, <4>2
    <3>. QED
      BY <3>2, <3>3, <3>4 DEF Whole, WholeBut
  <2>. QED
    BY <2>1, <2>2, <2>5, <2>6, <2>7
<1>5. CASE job = "password"
  <2>. DEFINE Hashed(a) == IF a.id = account THEN [a EXCEPT !.hash = "blowfish"] ELSE a
              new == [work EXCEPT !.accounts = {Hashed(a) : a \in @}]
  <2>1. Repaired = new
    BY <1>5 DEF Repaired
  <2>2. /\ new.accounts = {Hashed(a) : a \in work.accounts}
        /\ new.activated = work.activated /\ new.keys = work.keys
    BY <1>2 DEF Rows
  <2>3. ASSUME NEW a \in work.accounts
        PROVE  Hashed(a) \in AccountRow /\ Hashed(a).id = a.id /\ Hashed(a).email = a.email
    BY <1>2 DEF Rows, AccountRow
  <2>4. \A b \in new.accounts : \E a \in work.accounts : b = Hashed(a)
    BY <2>2
  <2>5. \A a \in work.accounts : Hashed(a) \in new.accounts
    BY <2>2
  <2>. HIDE DEF Hashed
  <2>6. Rows(new, nextId)
    <3>1. new \in [accounts : SUBSET AccountRow, keys : SUBSET KeyRow,
                   activated : [DOMAIN Private -> Nat]]
      BY <1>2, <2>2, <2>3 DEF Rows
    <3>. QED
      BY <1>2, <2>2, <2>3, <2>4, <3>1 DEF Rows
  <2>7. Owned(new, unchecked)
    <3>1. EmailsDiffer(new)
      BY <1>2, <2>3, <2>4 DEF Owned, EmailsDiffer
    <3>2. KeysDiffer(new)
      BY <1>2, <2>2 DEF Owned, KeysDiffer
    <3>3. \A k \in work.keys : Entitled(work, k) => Entitled(new, k)
      BY <2>2, <2>3, <2>5 DEF Entitled
    <3>4. PrivateKept(new, unchecked)
      BY <1>2, <2>2, <3>3 DEF Owned, PrivateKept
    <3>. QED
      BY <3>1, <3>2, <3>4 DEF Owned
  <2>8. IdsOf(new.accounts) = IdsOf(work.accounts)
    BY <2>3, <2>4, <2>5 DEF IdsOf
  <2>9. Whole(work) => Whole(new)
    BY <2>2, <2>3, <2>4, <2>5 DEF Whole, WholeBut
  <2>. QED
    BY <2>1, <2>6, <2>7, <2>8, <2>9
<1>. QED
  BY <1>1, <1>3, <1>4, <1>5

LEMMA RepairKeeps == IInv /\ Repair => IInv'
<1>. SUFFICES ASSUME IInv, Repair PROVE IInv'
  OBVIOUS
<1>. DEFINE new == Repaired
<1>1. Execute(new) /\ bare' = (bare \/ ~open') /\ UNCHANGED faults
  BY DEF Repair, Write
<1>2. /\ SessionTypeOK' /\ SessionAgrees'
      /\ work' = new /\ stored' = IF open' THEN stored ELSE new
      /\ work = stored
  BY <1>1, WriteStep DEF IInv, TypeOK, Settled, Repair
<1>3. /\ at = "repair" /\ at' = "commit" /\ job # "create"
      /\ UNCHANGED <<job, request, account, proceed, isPrivate, rehash, nextId, told, unsure, unchecked>>
  BY DEF Repair, Goto, IInv, Place
<1>4. /\ Rows(new, nextId) /\ Owned(new, unchecked)
      /\ IdsOf(new.accounts) = IdsOf(work.accounts)
      /\ Whole(work) => Whole(new)
  BY <1>2, <1>3, RepairedTables
<1>. HIDE DEF new
<1>5. Complete'
  <2>1. ASSUME ~bare' PROVE Whole(stored)' /\ open' /\ Whole(work)'
    <3>1. open' /\ stored' = stored /\ Whole(stored) /\ Whole(new)
      BY <1>1, <1>2, <1>4, <2>1 DEF IInv, Complete
    <3>. QED
      BY <1>2, <3>1 DEF Whole, WholeBut
  <2>. QED
    BY <1>3, <2>1 DEF Complete
<1>6. Grown' /\ CreatedIsKept'
  BY <1>2, <1>3, <1>4 DEF IInv, Grown, CreatedIsKept
<1>7. TypeOK'
  <2>1. IdsOf(work'.accounts) \subseteq 1 .. nextId' - 1
    BY <1>2, <1>3, <1>4 DEF IInv, TypeOK
  <2>2. bare' \in BOOLEAN
    BY <1>1, <1>2 DEF IInv, TypeOK, SessionTypeOK
  <2>. QED
    BY <1>1, <1>2, <1>3, <2>1, <2>2 DEF IInv, TypeOK, Statements
<1>8. Place' /\ Settled' /\ Seen' /\ Committed' /\ Reserved(stored)' /\ Reserved(work)'
  BY <1>3 DEF IInv, Place, Before, Settled, Seen, Committed, Reserved
<1>. QED
  BY <1>2, <1>3, <1>4, <1>5, <1>6, <1>7, <1>8 DEF IInv

-----------------------------------------------------------------------------
(* The rest of the world *)

\* A transaction whose connection is lost cannot go on: its next statement is
\* refused.  What was written outside one is stored.
LEMMA LoseKeeps == IInv /\ Lose => IInv'
<1>. SUFFICES ASSUME IInv, Lose PROVE IInv'
  OBVIOUS
<1>. USE DEF Lose, handler, history
<1>1. /\ SessionTypeOK' /\ SessionAgrees' /\ work' = stored /\ stored' = stored
  BY LossStep DEF IInv, TypeOK
<1>2. /\ nextId' \in Nat /\ HandmadeIds \subseteq 1 .. nextId' - 1
      /\ Rows(stored', nextId') /\ Rows(work', nextId')
      /\ Owned(stored', unchecked') /\ Owned(work', unchecked')
  BY <1>1, Unwritten
<1>3. GoesOn' => work' = work /\ GoesOn
  BY <1>1 DEF IInv, SessionAgrees, GoesOn, LinkLost
<1>4. Seen'
  BY <1>3 DEF IInv, Seen, IsSeen
<1>5. Complete'
  BY <1>1, <1>3 DEF IInv, Complete, Whole, WholeBut, LinkLost
<1>6. Settled' /\ Committed' /\ Grown' /\ CreatedIsKept' /\ Place'
  BY <1>1 DEF IInv, Settled, Committed, Grown, CreatedIsKept, Place
<1>7. Reserved(stored)' /\ Reserved(work)'
  BY <1>1 DEF IInv, Reserved, EmailIsFree, KeyIsFree
<1>8. TypeOK'
  <2>1. IdsOf(work'.accounts) \subseteq 1 .. nextId' - 1
    BY <1>1 DEF IInv, TypeOK, Grown
  <2>2. faults' \in 0 .. MaxFaults
    BY Constants DEF IInv, TypeOK
  <2>. QED
    BY <1>1, <2>1, <2>2 DEF IInv, TypeOK
<1>. QED
  BY <1>1, <1>2, <1>4, <1>5, <1>6, <1>7, <1>8 DEF IInv

LEMMA CrashKeeps == IInv /\ Crash => IInv'
<1>. SUFFICES ASSUME IInv, Crash PROVE IInv'
  OBVIOUS
<1>. USE DEF Crash, history
<1>1. /\ SessionTypeOK' /\ SessionAgrees' /\ work' = stored /\ stored' = stored
  BY LossStep DEF IInv, TypeOK
<1>2. TablesOK' /\ told \ unsure \subseteq IdsOf(stored'.accounts)
  BY <1>1, Agreed DEF Done
<1>3. faults' \in 0 .. MaxFaults /\ bare' \in BOOLEAN
  BY Constants DEF IInv, TypeOK
<1>4. TypeOK'
  BY <1>2, <1>3, DoneTypes
<1>5. Place' /\ Reserved(stored)' /\ Reserved(work)' /\ Committed' /\ CreatedIsKept'
  BY <1>2 DEF Place, Reserved, Before, Committed, CreatedIsKept, Done
<1>. QED
  BY <1>2, <1>4, <1>5 DEF IInv, TablesOK

LEMMA StutterKeeps == IInv /\ UNCHANGED vars => IInv'
<1>. SUFFICES ASSUME IInv, UNCHANGED vars PROVE IInv'
  OBVIOUS
<1>. USE DEF vars, session, handler, history
<1>1. SessionAgrees' /\ Settled' /\ Place' /\ Seen' /\ Committed' /\ Grown' /\ CreatedIsKept'
  BY DEF IInv, SessionAgrees, Settled, Place, Seen, IsSeen, GoesOn, Committed, Grown, CreatedIsKept
<1>2. TypeOK' /\ Reserved(stored)' /\ Reserved(work)'
  BY DEF IInv, TypeOK, SessionTypeOK, Reserved, EmailIsFree, KeyIsFree
<1>3. Complete'
  BY DEF IInv, Complete, Whole, WholeBut, GoesOn
<1>. QED
  BY <1>1, <1>2, <1>3, Unwritten DEF IInv

LEMMA StepKeeps == IInv /\ [Next]_vars => IInv'
BY CreateKeeps, LoginKeeps, CheckIfEmailExistsKeeps, CheckIfCDKeyExistsKeeps,
   CheckIfPrivateCDKeyUserKeeps, AuthPrivateCDKeyKeeps, TestDatabaseKeeps, BeginOffKeeps,
   BeginStartKeeps, InsertUserAccountKeeps, UpdatePrivateCDKeyAccountIDKeeps,
   InsertUserCDKeyInfoKeeps, RepairKeeps, CommitFirstKeeps, CommitSecondKeeps, FailKeeps,
   RollbackTransactionKeeps, LoseKeeps, CrashKeeps, StutterKeeps
   DEF Next

\* The invariant holds in every state.
LEMMA Invariant == Spec => []IInv
BY Beginning, StepKeeps, PTL DEF Spec

-----------------------------------------------------------------------------
(* Theorems *)

\* The session, the handler and the histories are of their types.
THEOREM TypeCorrect == Spec => []TypeOK
<1>1. IInv => TypeOK
  BY DEF IInv
<1>. QED
  BY <1>1, Invariant, PTL

\* For any number of accounts, keys and faults: an account is stored with its key
\* and its activation or not at all, unless a BEGIN was lost unnoticed.
THEOREM WholeCorrect == Spec => []AccountsAreWhole
<1>1. IInv => AccountsAreWhole
  <2>. SUFFICES ASSUME IInv, ~bare PROVE AccountsAreWhole
    BY DEF AccountsAreWhole
  <2>1. Whole(stored)
    BY DEF IInv, Complete
  <2>2. \A a \in stored.accounts : \E k \in stored.keys : k.account = a.id
    BY <2>1 DEF IInv, Rows, AccountRow, Whole, WholeBut
  <2>3. IdsOf(stored.accounts) = {k.account : k \in stored.keys}
    BY <2>1, <2>2 DEF Whole, WholeBut, IdsOf
  <2>. QED
    BY <2>1, <2>3 DEF AccountsAreWhole, Whole, WholeBut
<1>. QED
  BY <1>1, Invariant, PTL

\* Emails and keys have one owner, and private keys the one they were given to.
THEOREM OwnersCorrect == Spec => []KeysAreOwned
<1>1. IInv => KeysAreOwned
  BY DEF IInv, Owned, EmailsDiffer, KeysDiffer, PrivateKept, Entitled, KeysAreOwned
<1>. QED
  BY <1>1, Invariant, PTL

\* An account whose creation was reported stays, unless its COMMIT found the
\* connection lost.
THEOREM CreatedCorrect == Spec => []CreatedIsKept
<1>1. IInv => CreatedIsKept
  BY DEF IInv
<1>. QED
  BY <1>1, Invariant, PTL
=============================================================================
