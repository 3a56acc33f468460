------------------------------ MODULE Accounts ------------------------------
(***************************************************************************)
(* How accounts and cd keys come to be: the handler of ACCOUNT_CREATE, and *)
(* the three repairs a successful ACCOUNT_AUTH makes to accounts that were *)
(* made by hand.  Creating an account is one transaction, every repair is  *)
(* one of its own.                                                         *)
(*                                                                         *)
(* Each statement is a step, so that the connection can be lost and the    *)
(* process can die between any two.  One handler runs at a time: they all  *)
(* run in the main thread.                                                 *)
(***************************************************************************)
EXTENDS DatabaseSession, Sequences

CONSTANTS
    Emails,
    Keys,          \* sequence numbers of cd keys, which stand for their ciphers too
    Private,       \* keys given out by email: whom to, and whether it was confirmed
    Handmade,      \* emails of the accounts that were made by hand
    MaxAccounts,   \* bound: accounts
    MaxFaults      \* bound: lost connections, failed statements, crashes

ASSUME AccountsAssumption ==
    /\ Keys \subseteq Nat \ {0}
    /\ DOMAIN Private \subseteq Keys
    /\ \A n \in DOMAIN Private : Private[n] \in [email : Emails, validated : BOOLEAN]
    /\ Handmade \in Seq(Emails) /\ \A i, j \in DOMAIN Handmade : Handmade[i] = Handmade[j] => i = j
    /\ MaxAccounts \in Nat /\ MaxFaults \in Nat

VARIABLES
    at,          \* the statement that is next
    job,         \* creating an account, or the repair that is being made
    request,     \* email and key the client has sent
    account,     \* the account that is being created or that logs in
    proceed,     \* neither the email nor the key is taken
    isPrivate,   \* isPrivateKeyUser
    rehash,      \* the password that was read is an md5 hash
    nextId,      \* the id of the next account
    faults,      \* how many faults
    told,        \* history: the accounts whose creation was reported
    unsure,      \* history: the accounts whose COMMIT found the connection lost
    unchecked,   \* history: the accounts created though the key could not be looked up
    bare         \* history: an account was written outside a transaction

handler == <<at, job, request, account, proceed, isPrivate, rehash>>
history == <<told, unsure, unchecked, bare>>
vars == <<session, handler, nextId, faults, history>>

Statements == {"idle", "email", "key", "private", "auth", "test", "auto0", "start",
               "account", "activate", "cdkey", "repair", "commit", "auto1", "rollback"}

Jobs == {"create", "country", "cdkey", "password"}

NoRequest == [email |-> "", number |-> 0]

IdsOf(rows) == {a.id : a \in rows}

TypeOK ==
    /\ SessionTypeOK
    /\ at \in Statements /\ job \in Jobs
    /\ request \in [email : Emails, number : Keys] \cup {NoRequest}
    /\ (at = "idle") = (request = NoRequest)
    /\ isPrivate => request.number \in DOMAIN Private
    /\ at = "activate" => isPrivate
    /\ IdsOf(work.accounts) \subseteq 1 .. nextId - 1
    /\ account \in 0 .. nextId - 1
    /\ faults \in 0 .. MaxFaults
    /\ proceed \in BOOLEAN /\ rehash \in BOOLEAN /\ bare \in BOOLEAN

-----------------------------------------------------------------------------
(* The tables: accounts, their keys, and who has activated a private key.  *)

Account(id, email, hash) == [id |-> id, email |-> email, hash |-> hash]

KeyOf(id, number, cipher) == [account |-> id, number |-> number, cipher |-> cipher]

HandmadeIds == 1 .. Len(Handmade)

\* The accounts the model starts with have no ciphers, perhaps no key, and the
\* hash of an older password.
Init ==
    /\ auto_reconnect \in BOOLEAN
    /\ nextId = Len(Handmade) + 1
    /\ \E number \in [HandmadeIds -> Keys \cup {0}] :
        Connected([accounts |-> {Account(id, Handmade[id], "md5") : id \in HandmadeIds},
                   keys |-> {KeyOf(id, number[id], 0) : id \in HandmadeIds},
                   activated |-> [n \in DOMAIN Private |-> 0]])
    /\ at = "idle" /\ job = "create" /\ request = NoRequest
    /\ account = 0 /\ proceed = FALSE /\ isPrivate = FALSE /\ rehash = FALSE
    /\ faults = 0
    /\ told = {} /\ unsure = {} /\ unchecked = {} /\ bare = FALSE

-----------------------------------------------------------------------------
(* Statements *)

\* The server refuses a statement, or the connection turns out to be gone.
Refuse ==
    \/ /\ link = "up" /\ faults < MaxFaults
       /\ faults' = faults + 1
       /\ UNCHANGED session
    \/ /\ FailsOnLink
       /\ UNCHANGED faults

Read == Execute(work) /\ UNCHANGED faults

Write(new) ==
    /\ Execute(new)
    /\ bare' = (bare \/ ~open')
    /\ UNCHANGED faults

Done ==
    /\ at' = "idle" /\ job' = "create" /\ request' = NoRequest
    /\ account' = 0 /\ proceed' = FALSE /\ isPrivate' = FALSE /\ rehash' = FALSE

Goto(next) ==
    /\ at' = next
    /\ UNCHANGED <<job, request, account, proceed, isPrivate, rehash>>

-----------------------------------------------------------------------------
(* ACCOUNT_CREATE: may the account be created? *)

Create(email, number) ==
    /\ at = "idle" /\ nextId <= MaxAccounts
    /\ at' = "email" /\ job' = "create"
    /\ request' = [email |-> email, number |-> number]
    /\ UNCHANGED <<session, account, proceed, isPrivate, rehash, nextId, faults, history>>

\* Both checks are made whatever comes of the first.
CheckIfEmailExists ==
    /\ at = "email"
    /\ \/ /\ Read
          /\ proceed' = (\A a \in work.accounts : a.email # request.email)
       \/ /\ Refuse
          /\ proceed' = FALSE
    /\ at' = "key"
    /\ UNCHANGED <<job, request, account, isPrivate, rehash, nextId, history>>

CheckIfCDKeyExists ==
    /\ at = "key"
    /\ \/ /\ Read
          /\ IF proceed /\ \A k \in work.keys : k.number # request.number
             THEN Goto("private")
             ELSE Done
       \/ Refuse /\ Done
    /\ UNCHANGED <<nextId, history>>

\* A key that cannot be looked up counts as one that was purchased.
CheckIfPrivateCDKeyUser ==
    /\ at = "private"
    /\ \/ /\ Read
          /\ IF request.number \in DOMAIN Private THEN Goto("auth") ELSE Goto("test")
          /\ UNCHANGED unchecked
       \/ /\ Refuse
          /\ Goto("test")
          /\ unchecked' = unchecked \cup {nextId}
    /\ UNCHANGED <<nextId, told, unsure, bare>>

\* Mutant: the email is not part of the query.
AuthPrivateCDKeyOfAny ==
    /\ at = "auth"
    /\ \/ /\ Read
          /\ IF /\ Private[request.number].validated
                /\ work.activated[request.number] = 0
             THEN /\ at' = "test" /\ isPrivate' = TRUE
                  /\ UNCHANGED <<job, request, account, proceed, rehash>>
             ELSE Done
       \/ Refuse /\ Done
    /\ UNCHANGED <<nextId, history>>

AuthPrivateCDKey ==
    /\ at = "auth"
    /\ \/ /\ Read
          /\ IF /\ Private[request.number] = [email |-> request.email, validated |-> TRUE]
                /\ work.activated[request.number] = 0
             THEN /\ at' = "test" /\ isPrivate' = TRUE
                  /\ UNCHANGED <<job, request, account, proceed, rehash>>
             ELSE Done
       \/ Refuse /\ Done
    /\ UNCHANGED <<nextId, history>>

-----------------------------------------------------------------------------
(* Transactions *)

\* What follows a transaction, or the attempt at one.
NextJob ==
    CASE job = "create" -> Done
      [] job = "country" -> at' = "test" /\ job' = "cdkey"
                            /\ UNCHANGED <<request, account, proceed, isPrivate, rehash>>
      [] job = "cdkey" /\ rehash -> at' = "test" /\ job' = "password"
                            /\ UNCHANGED <<request, account, proceed, isPrivate, rehash>>
      [] job = "cdkey" /\ ~rehash -> Done
      [] job = "password" -> Done

TestDatabase ==
    /\ at = "test"
    /\ \/ Touch /\ Goto("auto0")
       \/ FailsOnLink /\ NextJob
    /\ UNCHANGED <<nextId, faults, history>>

\* BeginTransaction, whose results are ignored.
BeginOff ==
    /\ at = "auto0"
    /\ SetAutocommitOff \/ FailsOnLink
    /\ Goto("start")
    /\ UNCHANGED <<nextId, faults, history>>

BeginStart ==
    /\ at = "start"
    /\ StartTransaction \/ FailsOnLink
    /\ Goto(IF job = "create" THEN "account" ELSE "repair")
    /\ UNCHANGED <<nextId, faults, history>>

Fail ==
    /\ at \in {"account", "activate", "cdkey", "repair"}
    /\ Refuse
    /\ Goto("rollback")
    /\ UNCHANGED <<nextId, history>>

\* Mutant: the failure is not passed on.
RollbackTells ==
    /\ at = "rollback"
    /\ Rollback \/ FailsOnLink
    /\ NextJob
    /\ told' = IF job = "create" THEN told \cup {account} ELSE told
    /\ UNCHANGED <<nextId, faults, unsure, unchecked, bare>>

RollbackTransaction ==
    /\ at = "rollback"
    /\ Rollback \/ FailsOnLink
    /\ NextJob
    /\ UNCHANGED <<nextId, faults, history>>

\* CommitTransaction, whose results are ignored.
CommitFirst ==
    /\ at = "commit"
    /\ \/ Commit /\ UNCHANGED unsure
       \/ FailsOnLink /\ unsure' = unsure \cup {account}
    /\ Goto("auto1")
    /\ UNCHANGED <<nextId, faults, told, unchecked, bare>>

CommitSecond ==
    /\ at = "auto1"
    /\ SetAutocommitOn \/ FailsOnLink
    /\ NextJob
    /\ told' = IF job = "create" THEN told \cup {account} ELSE told
    /\ UNCHANGED <<nextId, faults, unsure, unchecked, bare>>

-----------------------------------------------------------------------------
(* CreateUserAccount *)

InsertUserAccount ==
    /\ at = "account"
    /\ Write([work EXCEPT !.accounts = @ \cup {Account(nextId, request.email, "blowfish")}])
    /\ account' = nextId /\ nextId' = nextId + 1
    /\ at' = IF isPrivate THEN "activate" ELSE "cdkey"
    /\ UNCHANGED <<job, request, proceed, isPrivate, rehash, told, unsure, unchecked>>

UpdatePrivateCDKeyAccountID ==
    /\ at = "activate"
    /\ Write(IF Private[request.number].email = request.email
             THEN [work EXCEPT !.activated[request.number] = account]
             ELSE work)
    /\ Goto("cdkey")
    /\ UNCHANGED <<nextId, told, unsure, unchecked>>

InsertUserCDKeyInfo ==
    /\ at = "cdkey"
    /\ Write([work EXCEPT !.keys = @ \cup {KeyOf(account, request.number, request.number)}])
    /\ Goto("commit")
    /\ UNCHANGED <<nextId, told, unsure, unchecked>>

-----------------------------------------------------------------------------
(* ACCOUNT_AUTH, from where the credentials have been found right *)

Login(email, number) ==
    /\ at = "idle"
    /\ \E a \in work.accounts :
        /\ a.email = email
        /\ account' = a.id
        /\ rehash' = (a.hash = "md5")
    /\ Read
    /\ at' = "test" /\ job' = "country"
    /\ request' = [email |-> email, number |-> number]
    /\ UNCHANGED <<proceed, isPrivate, nextId, history>>

\* Mutant: the ciphers are taken from whoever logs in.
KeyFilledAnyCipher(k) ==
    IF k.account # account THEN k
    ELSE [k EXCEPT !.number = IF @ = 0 THEN request.number ELSE @,
                   !.cipher = IF @ = 0 THEN request.number ELSE @]

\* UpdateCDKeyInfo: the ciphers are compared with the number as it is now.
KeyFilled(k) ==
    IF k.account # account THEN k
    ELSE LET number == IF k.number = 0 THEN request.number ELSE k.number
         IN  [k EXCEPT !.number = number,
                       !.cipher = IF number = request.number /\ @ = 0 THEN number ELSE @]

Repaired ==
    CASE job = "country" -> work
      [] job = "cdkey" -> [work EXCEPT !.keys = {KeyFilled(k) : k \in @}]
      [] job = "password" ->
            [work EXCEPT !.accounts =
                {IF a.id = account THEN [a EXCEPT !.hash = "blowfish"] ELSE a : a \in @}]

\* UpdateRealCountry, UpdateCDKeyInfo or UpdatePassword.
Repair ==
    /\ at = "repair"
    /\ Write(Repaired)
    /\ Goto("commit")
    /\ UNCHANGED <<nextId, told, unsure, unchecked>>

-----------------------------------------------------------------------------
(* The rest of the world *)

Lose ==
    /\ faults < MaxFaults
    /\ LinkLost
    /\ faults' = faults + 1
    /\ UNCHANGED <<handler, nextId, history>>

Crash ==
    /\ faults < MaxFaults
    /\ NewSession
    /\ faults' = faults + 1
    /\ Done
    /\ UNCHANGED <<nextId, history>>

Next ==
    \/ \E email \in Emails, number \in Keys : Create(email, number) \/ Login(email, number)
    \/ CheckIfEmailExists \/ CheckIfCDKeyExists
    \/ CheckIfPrivateCDKeyUser \/ AuthPrivateCDKey
    \/ TestDatabase \/ BeginOff \/ BeginStart
    \/ InsertUserAccount \/ UpdatePrivateCDKeyAccountID \/ InsertUserCDKeyInfo
    \/ Repair
    \/ CommitFirst \/ CommitSecond
    \/ Fail \/ RollbackTransaction
    \/ Lose \/ Crash

Spec == Init /\ [][Next]_vars

-----------------------------------------------------------------------------
(* Properties *)

\* CreateUserAccount writes all its rows or none, whatever fails in between:
\* every account has its key, every key and every activation an account.  Only
\* where a BEGIN got lost unnoticed can an account be torn.
AccountsAreWhole ==
    ~bare =>
        /\ IdsOf(stored.accounts) = {k.account : k \in stored.keys}
        /\ \A n \in DOMAIN Private :
            stored.activated[n] # 0 =>
                \E k \in stored.keys : k.account = stored.activated[n] /\ k.number = n

\* An email has one account, and a key has one besides those made by hand, which
\* are given any key at all.  A private key is used by the email it was given
\* to, once that was confirmed, and is marked as activated by this account; the
\* exceptions are again the accounts made by hand, and those whose key could
\* not be looked up.  Nobody's ciphers become those of another key.
KeysAreOwned ==
    /\ \A a, b \in stored.accounts : a.email = b.email => a = b
    /\ \A k, l \in stored.keys :
        k.account # l.account /\ k.number = l.number => {k.account, l.account} \cap HandmadeIds # {}
    /\ \A k \in stored.keys :
        /\ k.cipher \in {0, k.number}
        /\ k.number \in DOMAIN Private /\ k.account \notin HandmadeIds \cup unchecked =>
            /\ Private[k.number].validated
            /\ stored.activated[k.number] = k.account
            /\ \E a \in stored.accounts : a.id = k.account /\ a.email = Private[k.number].email

\* An account whose creation was reported is there, for good, unless the
\* connection had gone when its COMMIT was sent.
CreatedIsKept == told \ unsure \subseteq IdsOf(stored.accounts)
=============================================================================
