------------------------------ MODULE Sessions ------------------------------
(***************************************************************************)
(* Logins and profiles: MMG_AccountProtocol's AUTH, RETRIEVE_PROFILES and  *)
(* MODIFY_PROFILE handlers, the disconnect callback, the online status     *)
(* messages, and the tables they keep in MySQLDatabase.                    *)
(*                                                                         *)
(* A handler runs on the main thread under the client manager's lock, and  *)
(* what it writes is one SQL transaction, so a handler is one action.  Any *)
(* query may fail, and the transaction is then rolled back; the connection *)
(* to the database is up (DatabaseOutage has the rest).                    *)
(*                                                                         *)
(* The login check relates the account in one client's token to the tokens *)
(* of the others, and every request overwrites the token before it is      *)
(* checked, that of a client that is logged in too.  The profile a request *)
(* names may be any: the server keeps no list of those it has shown, nor   *)
(* asks whose they are.  What this may upset is history, per client and    *)
(* per account, and everything is claimed of all the others.               *)
(***************************************************************************)
EXTENDS Naturals, Sequences

CONSTANTS
    Clients,      \* connections, as the client manager keeps them
    Accounts,     \* rows of the accounts table
    NoAccount,    \* account id 0
    MaxProfiles   \* bound: rows ever inserted into the profiles table

ASSUME AccountAssumption == NoAccount \notin Accounts

ASSUME LimitsAssumption == MaxProfiles \in Nat

VARIABLES
    running,    \* the server process is up
    client,     \* m_Clients: what the slot of each client holds
    profiles,   \* the profiles table, in the order of its ids
    active,     \* accounts.activeprofileid
    lost,       \* history: profiles whose last online status write failed
    astray,     \* history: clients that are logged in and whose token has been
                \*   filled with another account since
    meddled     \* history: accounts whose active profile is in doubt, since a
                \*   request named a profile of somebody else

vars == <<running, client, profiles, active, lost, astray, meddled>>

NoProfile == 0
ProfileIds == 1 .. MaxProfiles

\* account: m_AuthToken; profile: m_Profile; loggedIn: m_LoggedIn, m_IsPlayer
\* and the profile's observer, always set together.
Client == [up : BOOLEAN, account : Accounts \cup {NoAccount},
           profile : ProfileIds \cup {NoProfile}, loggedIn : BOOLEAN]

\* owner: profiles.accountid, which is 0 for what a guest has created.
Profile == [owner : Accounts \cup {NoAccount}, deleted : BOOLEAN, online : BOOLEAN]

Free == [up |-> FALSE, account |-> NoAccount, profile |-> NoProfile, loggedIn |-> FALSE]

TypeOK ==
    /\ running \in BOOLEAN
    /\ client \in [Clients -> Client]
    /\ profiles \in Seq(Profile) /\ Len(profiles) <= MaxProfiles
    /\ active \in [Accounts -> ProfileIds \cup {NoProfile}]
    /\ lost \subseteq ProfileIds
    /\ astray \subseteq Clients
    /\ meddled \subseteq Accounts

Init ==
    /\ running = TRUE
    /\ client = [c \in Clients |-> Free]
    /\ profiles = <<>>
    /\ active = [a \in Accounts |-> NoProfile]
    /\ lost = {} /\ astray = {} /\ meddled = {}

-----------------------------------------------------------------------------
(* Helpers *)

\* The account's profiles that are not deleted, in a state ps of the table.
Live(ps, a) == {p \in DOMAIN ps : ps[p].owner = a /\ ~ps[p].deleted}

\* p is a row, and one of account a.
Own(a, p) == p \in DOMAIN profiles /\ profiles[p].owner = a

\* A client the server may hear of at this moment.
MayAsk(c) == running /\ client[c].up

\* Mutant: the client that asks is left out.
AccountInUseByOthers(c, a) ==
    \E d \in Clients \ {c} : client[d].loggedIn /\ client[d].account = a

\* A client that is logged in has the account in its token; the token of c, which
\* asks for account a, already holds that.
AccountInUse(c, a) ==
    \E d \in Clients :
       client[d].loggedIn /\ (IF d = c THEN a ELSE client[d].account) = a

\* setOnlineStatus: only a profile with an observer, and a row, is written.
Writes(c, online, ok) ==
    LET p == client[c].profile IN
    IF ~client[c].loggedIn \/ p = NoProfile
    THEN UNCHANGED <<profiles, lost>>
    ELSE IF ok
         THEN /\ profiles' = [profiles EXCEPT ![p].online = online]
              /\ lost' = lost \ {p}
         ELSE /\ lost' = lost \cup {p}
              /\ UNCHANGED profiles

-----------------------------------------------------------------------------
(* Connections, crashes and restarts *)

Connect(c) ==
    /\ running
    /\ ~client[c].up
    /\ client' = [client EXCEPT ![c].up = TRUE]
    /\ UNCHANGED <<running, profiles, active, lost, astray, meddled>>

\* Mutant: the slot is reset before the callback sees it.
DisconnectReset(c) ==
    /\ running
    /\ client[c].up
    /\ client' = [client EXCEPT ![c] = Free]
    /\ astray' = astray \ {c}
    /\ UNCHANGED <<running, profiles, active, lost, meddled>>

\* The disconnect callback writes the status of a player's profile.
Disconnect(c) ==
    /\ running
    /\ client[c].up
    /\ \E ok \in BOOLEAN : Writes(c, FALSE, ok)
    /\ client' = [client EXCEPT ![c] = Free]
    /\ astray' = astray \ {c}
    /\ UNCHANGED <<running, active, meddled>>

Crash ==
    /\ running
    /\ running' = FALSE
    /\ client' = [c \in Clients |-> Free]
    /\ astray' = {}
    /\ UNCHANGED <<profiles, active, lost, meddled>>

\* ResetOnlineStatus; when it fails the error is logged and the server runs on.
Restart ==
    /\ ~running
    /\ running' = TRUE
    /\ \/ /\ profiles' = [p \in DOMAIN profiles |-> [profiles[p] EXCEPT !.online = FALSE]]
          /\ lost' = {}
       \/ /\ lost' = {p \in DOMAIN profiles : profiles[p].online}
          /\ UNCHANGED profiles
    /\ UNCHANGED <<client, active, astray, meddled>>

-----------------------------------------------------------------------------
(* ACCOUNT_AUTH_ACCOUNT_REQ and ACCOUNT_RETRIEVE_PROFILES_REQ *)

\* AuthUserAccount fills the token with account x, or 0 when there is no such
\* account or the query fails, before anything is checked.
FillToken(c, x) ==
    /\ MayAsk(c)
    /\ client' = [client EXCEPT ![c].account = x]
    /\ astray' = IF client[c].loggedIn /\ client[c].account # x THEN astray \cup {c} ELSE astray
    /\ UNCHANGED <<running, profiles, active, lost, meddled>>

\* AUTH: no such account, wrong password, banned, no active profile, in use, or
\* a failed query.
Refused(c, x) == FillToken(c, x)

\* The answer is a list of profiles, or that there is none; either is of no
\* consequence to the server.
RetrieveProfiles(c, x) == FillToken(c, x)

MayLogIn(c, a) ==
    /\ MayAsk(c)
    /\ active[a] # NoProfile
    /\ ~AccountInUse(c, a)

\* The profile QueryUserProfile finds under an id; under one that is no row's, 0.
Found(p) == IF p \in DOMAIN profiles THEN p ELSE NoProfile

Play(c, a, p) ==
    client' = [client EXCEPT ![c].account = a, ![c].profile = p, ![c].loggedIn = TRUE]

\* QueryUserProfile loads the profile the request names, or the active one, be it
\* deleted or of another account, and makes it the active profile of account a.
\* It meddles with the account, or sets right what has been.
Login(c, a, p) ==
    /\ MayLogIn(c, a)
    /\ Play(c, a, Found(p))
    /\ active' = [active EXCEPT ![a] = Found(p)]
    /\ meddled' = IF ~Own(a, p) THEN meddled \cup {a}
                  ELSE IF p \in Live(profiles, a) THEN meddled \ {a}
                  ELSE meddled
    /\ UNCHANGED <<running, profiles, lost, astray>>

\* One of its queries fails, the first or one after it: the answer is
\* AuthFailed_General, and the login flags are set after it, whatever it is.
LoginFailed(c, a, p) ==
    /\ MayLogIn(c, a)
    /\ Play(c, a, Found(p))
    /\ UNCHANGED <<running, profiles, active, lost, astray, meddled>>

-----------------------------------------------------------------------------
(* ACCOUNT_MODIFY_PROFILE_REQ, of whoever is connected; a name that is taken, *)
(* a profile that has a clan and a failed query leave everything as it is     *)

\* CreateUserProfile, for a name that is free: the only live profile of its
\* account becomes active.  A guest's profile has account 0.
AddProfile(c) ==
    LET a == client[c].account
        p == Len(profiles) + 1
        only == Live(profiles', a) = {p}
    IN /\ MayAsk(c)
       /\ p <= MaxProfiles
       /\ profiles' = Append(profiles, [owner |-> a, deleted |-> FALSE, online |-> FALSE])
       /\ active' = IF only /\ a \in Accounts THEN [active EXCEPT ![a] = p] ELSE active
       /\ meddled' = IF only THEN meddled \ {a} ELSE meddled
       /\ UNCHANGED <<running, client, lost, astray>>

\* The live profiles the model lets be the one used last; NoProfile of none.
LastUsed(ps, a) == IF Live(ps, a) = {} THEN {NoProfile} ELSE Live(ps, a)

\* Mutant: the profiles are counted before one of them is deleted.
DeleteAfterCount(c, p) ==
    LET a == client[c].account
    IN /\ MayAsk(c)
       /\ profiles' = IF p \in DOMAIN profiles THEN [profiles EXCEPT ![p].deleted = TRUE] ELSE profiles
       /\ \E q \in LastUsed(profiles, a) :
             active' = IF a \in Accounts THEN [active EXCEPT ![a] = q] ELSE active
       /\ meddled' = IF p \in DOMAIN profiles
                     THEN (meddled \ {a}) \cup ({profiles[p].owner} \cap (Accounts \ {a}))
                     ELSE meddled \ {a}
       /\ UNCHANGED <<running, client, lost, astray>>

\* DeleteUserProfile: profile p is deleted, whosever it is, and of those of the
\* account in the token the live one that was used last becomes active.
DeleteProfile(c, p) ==
    LET a == client[c].account
    IN /\ MayAsk(c)
       /\ profiles' = IF p \in DOMAIN profiles THEN [profiles EXCEPT ![p].deleted = TRUE] ELSE profiles
       /\ \E q \in LastUsed(profiles', a) :
             active' = IF a \in Accounts THEN [active EXCEPT ![a] = q] ELSE active
       /\ meddled' = IF p \in DOMAIN profiles
                     THEN (meddled \ {a}) \cup ({profiles[p].owner} \cap (Accounts \ {a}))
                     ELSE meddled \ {a}
       /\ UNCHANGED <<running, client, lost, astray>>

-----------------------------------------------------------------------------
(* MESSAGING_SET_STATUS_ONLINE and MESSAGING_SET_STATUS_PLAYING *)

SetOnlineStatus(c) ==
    /\ running
    /\ client[c].up
    /\ \E online, ok \in BOOLEAN : Writes(c, online, ok)
    /\ UNCHANGED <<running, client, active, astray, meddled>>

-----------------------------------------------------------------------------

HandleMessage(c) ==
    \/ \E x \in Accounts \cup {NoAccount} : Refused(c, x) \/ RetrieveProfiles(c, x)
    \/ \E a \in Accounts, p \in ProfileIds : Login(c, a, p)
    \/ \E a \in Accounts, p \in ProfileIds \cup {NoProfile} : LoginFailed(c, a, p)
    \/ AddProfile(c)
    \/ \E p \in ProfileIds : DeleteProfile(c, p)
    \/ SetOnlineStatus(c)

Next ==
    \/ \E c \in Clients : Connect(c) \/ Disconnect(c) \/ HandleMessage(c)
    \/ Crash
    \/ Restart

Spec == Init /\ [][Next]_vars

-----------------------------------------------------------------------------
(* Safety *)

\* A profile friends and clan mates see as online is being played, unless the
\* database refused the write that would have said otherwise; this survives
\* crashes, logins that failed half way and profiles deleted while in use.
OnlineIsPlayed ==
    running =>
       \A p \in DOMAIN profiles \ lost :
          profiles[p].online =>
             \E c \in Clients : client[c].loggedIn /\ client[c].profile = p

\* An account has an active profile exactly when it has a profile at all, and it
\* is one of its own: otherwise AUTH answers that there is none and the profiles
\* are out of reach, or logs in to one that is gone.  It holds whatever two
\* clients of the account create, delete and select, and a request for somebody
\* else's profile breaks it no longer than until the account's next deletion, or
\* login with a live profile of its own.
ActiveIffAny ==
    \A a \in Accounts \ meddled :
       /\ Live(profiles, a) # {} <=> active[a] # NoProfile
       /\ active[a] # NoProfile => Own(a, active[a])

\* Two clients that each play a profile of their account do not play the same.
PlayedOnce ==
    \A c, d \in Clients \ astray :
       /\ client[c].loggedIn /\ Own(client[c].account, client[c].profile)
       /\ client[d].loggedIn /\ Own(client[d].account, client[d].profile)
       /\ client[c].profile = client[d].profile
       => c = d

\* The profiles table hangs together with the accounts and the tokens, though
\* the token is overwritten by every request, also by a refused one, and requests
\* name whatever profile they like.
ProfilesConsistent == ActiveIffAny /\ PlayedOnce

-----------------------------------------------------------------------------
(* The registry this implements: for clients that do not ask for another      *)
(* account while they are logged in.  One that does signs out of it, as far   *)
(* as others can tell.                                                        *)

Session == [c \in Clients |-> IF client[c].loggedIn /\ c \notin astray
                              THEN client[c].account ELSE NoAccount]

SR == INSTANCE SessionRegistry WITH session <- Session

RegistrySpec == SR!RegistrySpec

=============================================================================
