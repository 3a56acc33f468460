---------------------------- MODULE SessionsProofs ----------------------------
(***************************************************************************)
(* Logins and profiles for any number of clients, accounts and profiles,   *)
(* and any requests: the tables are consistent with what the clients play, *)
(* and the sessions are those of the registry.                             *)
(***************************************************************************)
EXTENDS Sessions, SequenceTheorems, TLAPS

-----------------------------------------------------------------------------
(* The inductive invariant *)

\* A free slot is empty, and while the process is down all are; only a client
\* that is logged in goes astray.
Slots ==
    /\ \A c \in Clients : ~client[c].up => client[c] = Free
    /\ ~running => \A c \in Clients : client[c] = Free
    /\ \A c \in astray : client[c].loggedIn

\* A client plays a row, whosever it is, and no account is in the tokens of two
\* clients that are logged in, but for those that have gone astray.
Held ==
    \A c \in Clients : client[c].loggedIn =>
        /\ client[c].profile # NoProfile => client[c].profile \in DOMAIN profiles
        /\ c \notin astray =>
            /\ client[c].account \in Accounts
            /\ \A d \in Clients \ ({c} \cup astray) :
                  client[d].loggedIn => client[d].account # client[c].account

IInv == TypeOK /\ Slots /\ Held /\ ActiveIffAny /\ OnlineIsPlayed

-----------------------------------------------------------------------------
(* Facts *)

\* The profiles table is a sequence whose domain are ids.
LEMMA Rows ==
  ASSUME TypeOK
  PROVE  /\ Len(profiles) \in Nat /\ DOMAIN profiles = 1 .. Len(profiles)
         /\ DOMAIN profiles \subseteq ProfileIds /\ NoProfile \notin DOMAIN profiles
         /\ \A p \in DOMAIN profiles :
              /\ profiles[p] \in Profile /\ profiles[p].owner \in Accounts \union {NoAccount}
              /\ profiles[p].online \in BOOLEAN /\ profiles[p].deleted \in BOOLEAN
<1>1. profiles \in Seq(Profile) /\ Len(profiles) <= MaxProfiles /\ MaxProfiles \in Nat
  BY LimitsAssumption DEF TypeOK
<1>2. Len(profiles) \in Nat /\ DOMAIN profiles = 1 .. Len(profiles)
      /\ profiles \in [1 .. Len(profiles) -> Profile]
  BY <1>1, LenProperties
<1>. QED
  BY <1>1, <1>2 DEF ProfileIds, NoProfile, Profile

\* A slot, spelled out.
LEMMA SlotType ==
  ASSUME TypeOK, NEW c \in Clients
  PROVE  /\ client[c] \in Client /\ client[c].up \in BOOLEAN /\ client[c].loggedIn \in BOOLEAN
         /\ client[c].account \in Accounts \union {NoAccount}
         /\ client[c].profile \in ProfileIds \union {NoProfile}
BY DEF TypeOK, Client

\* Rows that keep their owners and their state of deletion.
LEMMA SameRows ==
  ASSUME DOMAIN profiles' = DOMAIN profiles,
         \A p \in DOMAIN profiles : /\ profiles'[p].owner = profiles[p].owner
                                    /\ profiles'[p].deleted = profiles[p].deleted
  PROVE  /\ \A a \in Accounts : Live(profiles', a) = Live(profiles, a)
         /\ Held /\ UNCHANGED <<client, astray>> => Held'
         /\ ActiveIffAny /\ UNCHANGED <<active, meddled>> => ActiveIffAny'
<1>1. \A a \in Accounts : Live(profiles', a) = Live(profiles, a)
  BY DEF Live
<1>2. Held /\ UNCHANGED <<client, astray>> => Held'
  BY DEF Held
<1>3. ActiveIffAny /\ UNCHANGED <<active, meddled>> => ActiveIffAny'
  BY <1>1 DEF ActiveIffAny, Own
<1>. QED
  BY <1>1, <1>2, <1>3

\* A column of a row is written.
LEMMA RowWritten ==
  ASSUME TypeOK, NEW p \in DOMAIN profiles, NEW row \in Profile,
         profiles' = [profiles EXCEPT ![p] = row]
  PROVE  /\ profiles' \in Seq(Profile) /\ Len(profiles') = Len(profiles)
         /\ DOMAIN profiles' = DOMAIN profiles
         /\ profiles'[p] = row /\ \A q \in DOMAIN profiles \ {p} : profiles'[q] = profiles[q]
<1>1. profiles \in Seq(Profile) /\ p \in 1 .. Len(profiles)
  BY Rows DEF TypeOK
<1>. QED
  BY <1>1, ExceptSeq, LenProperties

\* Writing the online status, or failing to.
LEMMA Written ==
  ASSUME IInv, NEW c \in Clients, NEW online \in BOOLEAN, NEW ok \in BOOLEAN,
         Writes(c, online, ok)
  PROVE  /\ profiles' \in Seq(Profile) /\ Len(profiles') = Len(profiles)
         /\ DOMAIN profiles' = DOMAIN profiles /\ lost' \subseteq ProfileIds
         /\ \A p \in DOMAIN profiles : /\ profiles'[p].owner = profiles[p].owner
                                       /\ profiles'[p].deleted = profiles[p].deleted
         /\ \A p \in DOMAIN profiles \ lost' : profiles'[p].online =>
              \/ p \notin lost /\ profiles[p].online
                 /\ ~(client[c].loggedIn /\ client[c].profile = p)
              \/ online /\ client[c].loggedIn /\ client[c].profile = p
<1>. DEFINE p == client[c].profile
<1>1. TypeOK /\ lost \subseteq ProfileIds /\ profiles \in Seq(Profile)
  BY DEF IInv, TypeOK
<1>2. CASE ~client[c].loggedIn \/ p = NoProfile
  <2>1. UNCHANGED <<profiles, lost>>
    BY <1>2 DEF Writes
  <2>2. \A q \in DOMAIN profiles : ~(client[c].loggedIn /\ client[c].profile = q)
    BY <1>1, <1>2, Rows
  <2>. QED
    BY <2>1, <2>2, <1>1
<1>3. CASE client[c].loggedIn /\ p # NoProfile
  <2>1. p \in DOMAIN profiles /\ p \in ProfileIds
    BY <1>1, <1>3, Rows DEF IInv, Held
  <2>2. CASE ok
    <3>1. profiles' = [profiles EXCEPT ![p].online = online] /\ lost' = lost \ {p}
      BY <1>3, <2>2 DEF Writes
    <3>2. [profiles[p] EXCEPT !.online = online] \in Profile
      BY <1>1, <2>1, Rows DEF Profile
    <3>3. profiles' = [profiles EXCEPT ![p] = [profiles[p] EXCEPT !.online = online]]
      BY <3>1
    <3>4. /\ profiles' \in Seq(Profile) /\ Len(profiles') = Len(profiles)
          /\ DOMAIN profiles' = DOMAIN profiles
          /\ profiles'[p] = [profiles[p] EXCEPT !.online = online]
          /\ \A q \in DOMAIN profiles \ {p} : profiles'[q] = profiles[q]
      BY <1>1, <2>1, <3>2, <3>3, RowWritten
    <3>5. profiles[p] \in Profile
      BY <1>1, <2>1, Rows
    <3>6. /\ profiles'[p].owner = profiles[p].owner /\ profiles'[p].deleted = profiles[p].deleted
          /\ profiles'[p].online = online
      BY <3>4, <3>5 DEF Profile
    <3>. QED
      BY <3>1, <3>4, <3>6, <1>1, <1>3
  <2>3. CASE ~ok
    <3>1. UNCHANGED profiles /\ lost' = lost \union {p}
      BY <1>3, <2>3 DEF Writes
    <3>. QED
      BY <3>1, <2>1, <1>1
  <2>. QED
    BY <2>2, <2>3
<1>. QED
  BY <1>2, <1>3

-----------------------------------------------------------------------------
(* Connections, crashes and restarts *)

\* A new connection has an empty slot.
LEMMA ConnectKeeps ==
  ASSUME IInv, NEW c \in Clients, Connect(c)
  PROVE  IInv' /\ UNCHANGED Session
<1>1. /\ running /\ ~client[c].up /\ client' = [client EXCEPT ![c].up = TRUE]
      /\ UNCHANGED <<running, profiles, active, lost, astray, meddled>> /\ TypeOK
  BY DEF Connect, IInv
<1>2. client[c] = Free
  BY <1>1 DEF IInv, Slots
<1>3. /\ client' \in [Clients -> Client] /\ \A d \in Clients \ {c} : client'[d] = client[d]
      /\ client'[c] = [Free EXCEPT !.up = TRUE]
  BY <1>1, <1>2 DEF TypeOK, Client, Free, NoProfile
<1>4. client'[c].up /\ ~client'[c].loggedIn /\ ~client[c].loggedIn
  BY <1>2, <1>3 DEF Free
<1>5. TypeOK'
  BY <1>1, <1>3 DEF TypeOK
<1>6. Slots'
  <2>1. c \notin astray /\ astray \subseteq Clients
    BY <1>1, <1>4 DEF IInv, Slots, TypeOK
  <2>. QED
    BY <1>1, <1>3, <1>4, <2>1 DEF IInv, Slots
<1>7. Held'
  BY <1>1, <1>3, <1>4 DEF IInv, Held
<1>8. ActiveIffAny' /\ OnlineIsPlayed'
  <2>1. ActiveIffAny'
    BY <1>1 DEF IInv, ActiveIffAny, Live, Own
  <2>2. OnlineIsPlayed'
    BY <1>1, <1>3, <1>4 DEF IInv, OnlineIsPlayed
  <2>. QED
    BY <2>1, <2>2
<1>9. UNCHANGED Session
  BY <1>1, <1>3, <1>4 DEF Session
<1>. QED
  BY <1>1, <1>5, <1>6, <1>7, <1>8, <1>9 DEF IInv

\* A connection that ends takes the login with it, and the status.
LEMMA DisconnectKeeps ==
  ASSUME IInv, NEW c \in Clients, Disconnect(c)
  PROVE  IInv' /\ SR!SignOut(c)
<1>1. /\ running /\ client' = [client EXCEPT ![c] = Free] /\ astray' = astray \ {c}
      /\ UNCHANGED <<running, active, meddled>> /\ TypeOK
  BY DEF Disconnect, IInv
<1>2. PICK ok \in BOOLEAN : Writes(c, FALSE, ok)
  BY DEF Disconnect
<1>3. /\ profiles' \in Seq(Profile) /\ Len(profiles') = Len(profiles)
      /\ DOMAIN profiles' = DOMAIN profiles /\ lost' \subseteq ProfileIds
      /\ \A p \in DOMAIN profiles : /\ profiles'[p].owner = profiles[p].owner
                                    /\ profiles'[p].deleted = profiles[p].deleted
      /\ \A p \in DOMAIN profiles \ lost' : profiles'[p].online =>
            /\ p \notin lost /\ profiles[p].online
            /\ ~(client[c].loggedIn /\ client[c].profile = p)
  BY <1>2, Written
<1>4. /\ client' \in [Clients -> Client] /\ \A d \in Clients \ {c} : client'[d] = client[d]
      /\ client'[c] = Free /\ ~Free.loggedIn
  BY <1>1 DEF TypeOK, Client, Free, NoProfile
<1>5. TypeOK'
  BY <1>1, <1>3, <1>4 DEF TypeOK
<1>6. Slots'
  BY <1>1, <1>4 DEF IInv, Slots
<1>7. Held'
  BY <1>1, <1>3, <1>4 DEF IInv, Held
<1>8. ActiveIffAny'
  BY <1>1, <1>3, SameRows DEF IInv
<1>9. OnlineIsPlayed'
  BY <1>1, <1>3, <1>4 DEF IInv, OnlineIsPlayed
<1>10. SR!SignOut(c)
  BY <1>1, <1>4 DEF SR!SignOut, Session
<1>. QED
  BY <1>1, <1>5, <1>6, <1>7, <1>8, <1>9, <1>10 DEF IInv

\* A crash ends every login.
LEMMA CrashKeeps ==
  ASSUME IInv, Crash
  PROVE  IInv' /\ SR!SignOutAll
<1>1. /\ running' = FALSE /\ client' = [d \in Clients |-> Free]
      /\ astray' = {} /\ UNCHANGED <<profiles, active, lost, meddled>>
  BY DEF Crash
<1>2. Free \in Client /\ ~Free.loggedIn
  BY DEF Free, Client, NoProfile
<1>3. TypeOK' /\ Slots' /\ OnlineIsPlayed'
  BY <1>1, <1>2 DEF IInv, TypeOK, Slots, OnlineIsPlayed
<1>4. Held' /\ ActiveIffAny'
  BY <1>1, <1>2 DEF IInv, Held, ActiveIffAny, Live, Own
<1>5. SR!SignOutAll
  BY <1>1, <1>2 DEF SR!SignOutAll, Session
<1>. QED
  BY <1>3, <1>4, <1>5 DEF IInv

\* A restart takes everyone offline, or knows of whom it has not.
LEMMA RestartKeeps ==
  ASSUME IInv, Restart
  PROVE  IInv' /\ UNCHANGED Session
<1>1. /\ ~running /\ running' = TRUE /\ UNCHANGED <<client, active, astray, meddled>> /\ TypeOK
  BY DEF Restart, IInv
<1>2. CASE /\ profiles' = [p \in DOMAIN profiles |-> [profiles[p] EXCEPT !.online = FALSE]]
           /\ lost' = {}
  <2>1. /\ profiles' \in Seq(Profile) /\ Len(profiles') = Len(profiles)
        /\ DOMAIN profiles' = DOMAIN profiles
    <3>1. \A p \in DOMAIN profiles : [profiles[p] EXCEPT !.online = FALSE] \in Profile
      BY <1>1, Rows DEF Profile
    <3>2. profiles' \in [1 .. Len(profiles) -> Profile] /\ Len(profiles) \in Nat
      BY <3>1, <1>1, <1>2, Rows
    <3>. QED
      BY <3>2, <1>1, Rows
  <2>2. \A p \in DOMAIN profiles : /\ profiles'[p].owner = profiles[p].owner
                                   /\ profiles'[p].deleted = profiles[p].deleted
                                   /\ profiles'[p].online = FALSE
    BY <1>1, <1>2, Rows DEF Profile
  <2>3. TypeOK' /\ OnlineIsPlayed'
    BY <1>1, <1>2, <2>1, <2>2 DEF TypeOK, OnlineIsPlayed
  <2>4. Held' /\ ActiveIffAny'
    BY <1>1, <2>1, <2>2, SameRows DEF IInv
  <2>. QED
    BY <1>1, <2>3, <2>4 DEF IInv, Slots, Session
<1>3. CASE lost' = {p \in DOMAIN profiles : profiles[p].online} /\ UNCHANGED profiles
  <2>1. TypeOK' /\ OnlineIsPlayed'
    BY <1>1, <1>3, Rows DEF TypeOK, OnlineIsPlayed
  <2>. QED
    BY <1>1, <1>3, <2>1 DEF IInv, Slots, Session, Held, ActiveIffAny, Live, Own
<1>. QED
  BY <1>2, <1>3 DEF Restart

-----------------------------------------------------------------------------
(* Logging in *)

\* A request that is not granted fills the token; who is logged in and asked for
\* another account is signed out of its own.
LEMMA AskingKeeps ==
  ASSUME IInv, NEW c \in Clients, NEW x \in Accounts \union {NoAccount}, FillToken(c, x)
  PROVE  IInv' /\ (UNCHANGED Session \/ SR!SignOut(c))
<1>1. /\ running /\ client[c].up /\ client' = [client EXCEPT ![c].account = x]
      /\ astray' = IF client[c].loggedIn /\ client[c].account # x THEN astray \union {c} ELSE astray
      /\ UNCHANGED <<running, profiles, active, lost, meddled>> /\ TypeOK
  BY DEF FillToken, MayAsk, IInv
<1>2. /\ client' \in [Clients -> Client] /\ \A d \in Clients \ {c} : client'[d] = client[d]
      /\ client'[c].up /\ client'[c].loggedIn = client[c].loggedIn /\ client'[c].account = x
      /\ client'[c].profile = client[c].profile
  BY <1>1, SlotType DEF TypeOK, Client
<1>3. /\ astray \subseteq astray' /\ astray' \subseteq astray \union {c}
      /\ client[c].loggedIn /\ c \notin astray' => x = client[c].account
      /\ c \in astray' => c \in astray \/ client[c].loggedIn
  BY <1>1
<1>4. TypeOK'
  BY <1>1, <1>2, <1>3 DEF TypeOK
<1>5. Slots'
  BY <1>1, <1>2, <1>3 DEF IInv, TypeOK, Slots
<1>6. Held'
  <2>. SUFFICES ASSUME NEW d \in Clients, client'[d].loggedIn
                PROVE  /\ client'[d].profile # NoProfile => client'[d].profile \in DOMAIN profiles'
                       /\ d \notin astray' =>
                           /\ client'[d].account \in Accounts
                           /\ \A e \in Clients \ ({d} \union astray') :
                                client'[e].loggedIn => client'[e].account # client'[d].account
    BY DEF Held
  <2>1. /\ client[d].loggedIn /\ client'[d].profile = client[d].profile
        /\ d \notin astray' => client'[d].account = client[d].account
    BY <1>2, <1>3
  <2>2. \A e \in Clients \ astray' : client'[e].loggedIn =>
           client[e].loggedIn /\ client'[e].account = client[e].account
    BY <1>2, <1>3
  <2>. QED
    BY <2>1, <2>2, <1>1, <1>3 DEF IInv, Held
<1>7. ActiveIffAny' /\ OnlineIsPlayed'
  <2>1. ActiveIffAny'
    BY <1>1 DEF IInv, ActiveIffAny, Live, Own
  <2>2. \A d \in Clients : /\ client'[d].loggedIn = client[d].loggedIn
                           /\ client'[d].profile = client[d].profile
    BY <1>2
  <2>3. OnlineIsPlayed'
    BY <1>1, <2>2 DEF IInv, OnlineIsPlayed
  <2>. QED
    BY <2>1, <2>3
<1>8. \A d \in Clients \ {c} : Session'[d] = Session[d]
  BY <1>2, <1>3 DEF Session
<1>9. Session'[c] \in {Session[c], NoAccount}
  BY <1>2, <1>3 DEF Session
<1>10. Session = [d \in Clients |-> Session[d]] /\ Session' = [d \in Clients |-> Session'[d]]
  BY DEF Session
<1>11. UNCHANGED Session \/ SR!SignOut(c)
  <2>1. CASE Session'[c] = Session[c]
    <3>1. \A d \in Clients : Session'[d] = Session[d]
      BY <1>8, <2>1
    <3>. QED
      BY <1>10, <3>1
  <2>2. CASE Session'[c] = NoAccount
    <3>1. Session' = [Session EXCEPT ![c] = NoAccount]
      BY <1>8, <1>10, <2>2
    <3>. QED
      BY <3>1 DEF SR!SignOut
  <2>. QED
    BY <1>9, <2>1, <2>2
<1>. QED
  BY <1>4, <1>5, <1>6, <1>7, <1>11 DEF IInv

\* A login, also one that fails half way, takes an account nobody has, but for
\* those that have gone astray.
LEMMA LoginKeeps ==
  ASSUME IInv, NEW c \in Clients, NEW a \in Accounts, NEW p \in ProfileIds \union {NoProfile},
         Login(c, a, p) \/ LoginFailed(c, a, p)
  PROVE  IInv' /\ SR!SignIn(c, a)
<1>. DEFINE f == Found(p)
<1>1. /\ running /\ client[c].up /\ ~client[c].loggedIn /\ active[a] # NoProfile
      /\ \A d \in Clients \ {c} : client[d].loggedIn => client[d].account # a
      /\ UNCHANGED <<running, profiles, lost, astray>> /\ TypeOK
  BY DEF Login, LoginFailed, MayLogIn, MayAsk, AccountInUse, IInv
<1>2. client' = [client EXCEPT ![c].account = a, ![c].profile = f, ![c].loggedIn = TRUE]
  BY DEF Login, LoginFailed, Play
<1>3. /\ f \in ProfileIds \union {NoProfile}
      /\ f # NoProfile => f \in DOMAIN profiles
      /\ Own(a, p) => f = p /\ p # NoProfile
  BY <1>1, Rows DEF Found, Own
<1>. HIDE DEF f
<1>4. /\ client' \in [Clients -> Client] /\ \A d \in Clients \ {c} : client'[d] = client[d]
      /\ client'[c].up /\ client'[c].loggedIn /\ client'[c].account = a /\ client'[c].profile = f
  BY <1>1, <1>2, <1>3, SlotType DEF TypeOK, Client
<1>5. c \notin astray
  BY <1>1 DEF IInv, Slots
<1>6. /\ active' \in [Accounts -> ProfileIds \union {NoProfile}] /\ meddled' \subseteq Accounts
      /\ \A b \in Accounts \ {a} : active'[b] = active[b] /\ (b \in meddled' <=> b \in meddled)
      /\ \/ active'[a] = active[a] /\ (a \in meddled' <=> a \in meddled)
         \/ active'[a] = f /\ (a \notin meddled' =>
                                 Own(a, p) /\ (p \in Live(profiles, a) \/ a \notin meddled))
  <2>1. CASE LoginFailed(c, a, p)
    BY <2>1, <1>1 DEF LoginFailed, TypeOK
  <2>2. CASE Login(c, a, p)
    <3>1. active' = [active EXCEPT ![a] = f] /\ TypeOK
      BY <2>2, <1>1 DEF Login, f
    <3>2. \/ ~Own(a, p) /\ meddled' = meddled \union {a}
          \/ Own(a, p) /\ p \in Live(profiles, a) /\ meddled' = meddled \ {a}
          \/ Own(a, p) /\ meddled' = meddled
      BY <2>2 DEF Login
    <3>3. meddled' \subseteq Accounts /\ \A b \in Accounts \ {a} : b \in meddled' <=> b \in meddled
      BY <3>1, <3>2 DEF TypeOK
    <3>4. a \notin meddled' => Own(a, p) /\ (p \in Live(profiles, a) \/ a \notin meddled)
      BY <3>2
    <3>5. /\ active' \in [Accounts -> ProfileIds \union {NoProfile}] /\ active'[a] = f
          /\ \A b \in Accounts \ {a} : active'[b] = active[b]
      BY <3>1, <1>3 DEF TypeOK
    <3>. QED
      BY <3>3, <3>4, <3>5
  <2>. QED
    BY <2>1, <2>2
<1>7. TypeOK' /\ Slots'
  BY <1>1, <1>4, <1>6 DEF IInv, TypeOK, Slots
<1>8. Held'
  <2>. SUFFICES ASSUME NEW d \in Clients, client'[d].loggedIn
                PROVE  /\ client'[d].profile # NoProfile => client'[d].profile \in DOMAIN profiles'
                       /\ d \notin astray' =>
                           /\ client'[d].account \in Accounts
                           /\ \A e \in Clients \ ({d} \union astray') :
                                client'[e].loggedIn => client'[e].account # client'[d].account
    BY DEF Held
  <2>1. UNCHANGED <<profiles, astray>>
    BY <1>1
  <2>2. CASE d = c
    BY <1>1, <1>3, <1>4, <2>1, <2>2
  <2>3. CASE d # c
    <3>1. client'[d] = client[d] /\ client[d].loggedIn /\ client[d].account # a
      BY <1>1, <1>4, <2>3
    <3>2. \A e \in Clients : e = c \/ client'[e] = client[e]
      BY <1>4
    <3>. QED
      BY <1>4, <2>1, <3>1, <3>2 DEF IInv, Held
  <2>. QED
    BY <2>2, <2>3
<1>9. ActiveIffAny'
  <2>. SUFFICES ASSUME NEW b \in Accounts, b \notin meddled'
                PROVE  /\ Live(profiles', b) # {} <=> active'[b] # NoProfile
                       /\ active'[b] # NoProfile =>
                            active'[b] \in DOMAIN profiles' /\ profiles'[active'[b]].owner = b
    BY DEF ActiveIffAny, Own
  <2>1. UNCHANGED profiles
    BY <1>1
  <2>2. b \notin meddled => /\ Live(profiles, b) # {} <=> active[b] # NoProfile
                            /\ active[b] # NoProfile => Own(b, active[b])
    BY DEF IInv, ActiveIffAny
  <2>3. CASE b \notin meddled /\ active'[b] = active[b]
    BY <2>1, <2>2, <2>3 DEF Own
  <2>4. CASE b = a /\ active'[a] = f /\ Own(a, p) /\ (p \in Live(profiles, a) \/ a \notin meddled)
    <3>1. active'[b] = p /\ p # NoProfile /\ Live(profiles, b) # {}
      BY <1>1, <1>3, <2>2, <2>4
    <3>. QED
      BY <2>1, <2>4, <3>1 DEF Own
  <2>. QED
    BY <1>6, <2>3, <2>4
<1>10. OnlineIsPlayed'
  BY <1>1, <1>4 DEF IInv, OnlineIsPlayed
<1>11. SR!SignIn(c, a)
  <2>1. Session[c] = NoAccount /\ \A d \in Clients : Session[d] # a
    BY <1>1, AccountAssumption DEF Session
  <2>2. Session' = [Session EXCEPT ![c] = a]
    BY <1>1, <1>4, <1>5 DEF Session
  <2>. QED
    BY <2>1, <2>2 DEF SR!SignIn
<1>. QED
  BY <1>7, <1>8, <1>9, <1>10, <1>11 DEF IInv

-----------------------------------------------------------------------------
(* Profiles *)

\* Rows may be added and marked as deleted under clients that stay as they are.
LEMMA RowsChange ==
  ASSUME IInv, UNCHANGED <<running, client, lost, astray>>,
         profiles' \in Seq(Profile), Len(profiles') <= MaxProfiles,
         \A p \in DOMAIN profiles : /\ p \in DOMAIN profiles'
                                    /\ profiles'[p].online = profiles[p].online,
         \A p \in DOMAIN profiles' \ DOMAIN profiles : ~profiles'[p].online,
         active' \in [Accounts -> ProfileIds \union {NoProfile}],
         meddled' \subseteq Accounts, ActiveIffAny'
  PROVE  IInv' /\ UNCHANGED Session
<1>1. TypeOK' /\ Slots'
  BY DEF IInv, TypeOK, Slots
<1>2. Held'
  BY DEF IInv, Held
<1>3. OnlineIsPlayed'
  BY DEF IInv, OnlineIsPlayed
<1>. QED
  BY <1>1, <1>2, <1>3 DEF IInv, Session

\* A new profile is the active one if it is the only one.
LEMMA AddProfileKeeps ==
  ASSUME IInv, NEW c \in Clients, AddProfile(c)
  PROVE  IInv' /\ UNCHANGED Session
<1>. DEFINE a == client[c].account
            p == Len(profiles) + 1
            row == [owner |-> a, deleted |-> FALSE, online |-> FALSE]
            only == Live(profiles', a) = {p}
<1>1. /\ a \in Accounts \union {NoAccount} /\ TypeOK /\ UNCHANGED <<running, client, lost, astray>>
      /\ p <= MaxProfiles /\ profiles' = Append(profiles, row)
      /\ active' = IF only /\ a \in Accounts THEN [active EXCEPT ![a] = p] ELSE active
      /\ meddled' = IF only THEN meddled \ {a} ELSE meddled
  BY SlotType DEF AddProfile, IInv
<1>2. /\ Len(profiles) \in Nat /\ DOMAIN profiles = 1 .. Len(profiles) /\ profiles \in Seq(Profile)
      /\ p \in ProfileIds /\ p # NoProfile /\ row \in Profile
  BY <1>1, Rows DEF TypeOK, ProfileIds, NoProfile, Profile
<1>3. /\ profiles' \in Seq(Profile) /\ Len(profiles') = p /\ DOMAIN profiles' = DOMAIN profiles \union {p}
      /\ p \notin DOMAIN profiles
      /\ \A q \in DOMAIN profiles : profiles'[q] = profiles[q]
      /\ profiles'[p] = row
  <2>. HIDE DEF row, only
  <2>1. /\ Append(profiles, row) \in Seq(Profile)
        /\ Len(Append(profiles, row)) = Len(profiles) + 1
        /\ \A q \in 1 .. Len(profiles) : Append(profiles, row)[q] = profiles[q]
        /\ Append(profiles, row)[Len(profiles) + 1] = row
    BY <1>2, AppendProperties
  <2>2. DOMAIN profiles' = 1 .. Len(profiles')
    BY <1>1, <2>1, LenProperties
  <2>. QED
    BY <2>1, <2>2, <1>1, <1>2
<1>4. /\ active' \in [Accounts -> ProfileIds \union {NoProfile}] /\ meddled' \subseteq Accounts
  BY <1>1, <1>2 DEF TypeOK
<1>5. /\ Live(profiles', a) = Live(profiles, a) \union {p}
      /\ \A b \in Accounts \ {a} : Live(profiles', b) = Live(profiles, b)
  <2>. HIDE DEF p, only
  <2>. QED
    BY <1>3 DEF Live
<1>6. ActiveIffAny'
  <2>. SUFFICES ASSUME NEW b \in Accounts, b \notin meddled'
                PROVE  /\ Live(profiles', b) # {} <=> active'[b] # NoProfile
                       /\ active'[b] # NoProfile =>
                            active'[b] \in DOMAIN profiles' /\ profiles'[active'[b]].owner = b
    BY DEF ActiveIffAny, Own
  <2>1. b \notin meddled => /\ Live(profiles, b) # {} <=> active[b] # NoProfile
                            /\ active[b] # NoProfile => Own(b, active[b])
    BY DEF IInv, ActiveIffAny
  <2>2. CASE b # a
    <3>1. active'[b] = active[b] /\ b \notin meddled
      BY <2>2, <1>1 DEF TypeOK
    <3>. HIDE DEF p, row, only
    <3>. QED
      BY <2>1, <2>2, <3>1, <1>3, <1>5 DEF Own
  <2>3. CASE b = a /\ only
    <3>1. active'[b] = p
      BY <2>3, <1>1 DEF TypeOK
    <3>2. profiles'[p].owner = b
      BY <2>3, <1>3
    <3>3. Live(profiles', b) # {}
      BY <2>3
    <3>. HIDE DEF p, row, only
    <3>. QED
      BY <3>1, <3>2, <3>3, <1>2, <1>3 DEF Own
  <2>4. CASE b = a /\ ~only
    <3>1. active'[b] = active[b] /\ Live(profiles, a) # {} /\ b \notin meddled
      BY <2>4, <1>1, <1>5
    <3>. HIDE DEF p, row, only
    <3>. QED
      BY <2>1, <2>4, <3>1, <1>3, <1>5 DEF Own
  <2>. QED
    BY <2>2, <2>3, <2>4
<1>7. \A q \in DOMAIN profiles' \ DOMAIN profiles : ~profiles'[q].online
  BY <1>3
<1>. HIDE DEF p, row, only
<1>. QED
  BY <1>1, <1>3, <1>4, <1>6, <1>7, RowsChange

\* With a profile that is deleted another one of the account in the token becomes
\* active, or none is left; whose the deleted one was is in doubt.
LEMMA DeleteProfileKeeps ==
  ASSUME IInv, NEW c \in Clients, NEW p \in ProfileIds, DeleteProfile(c, p)
  PROVE  IInv' /\ UNCHANGED Session
<1>. DEFINE a == client[c].account
<1>1. /\ a \in Accounts \union {NoAccount} /\ TypeOK /\ UNCHANGED <<running, client, lost, astray>>
      /\ profiles' = IF p \in DOMAIN profiles THEN [profiles EXCEPT ![p].deleted = TRUE] ELSE profiles
      /\ meddled' = IF p \in DOMAIN profiles
                    THEN (meddled \ {a}) \union ({profiles[p].owner} \intersect (Accounts \ {a}))
                    ELSE meddled \ {a}
  BY SlotType DEF DeleteProfile, IInv
<1>2. PICK q \in LastUsed(profiles', a) :
        active' = IF a \in Accounts THEN [active EXCEPT ![a] = q] ELSE active
  BY DEF DeleteProfile
<1>3. /\ profiles' \in Seq(Profile) /\ Len(profiles') = Len(profiles)
      /\ DOMAIN profiles' = DOMAIN profiles
      /\ \A r \in DOMAIN profiles : /\ profiles'[r].owner = profiles[r].owner
                                    /\ profiles'[r].online = profiles[r].online
                                    /\ r # p => profiles'[r].deleted = profiles[r].deleted
  <2>1. CASE p \in DOMAIN profiles
    <3>1. [profiles[p] EXCEPT !.deleted = TRUE] \in Profile
      BY <1>1, <2>1, Rows DEF Profile
    <3>2. profiles' = [profiles EXCEPT ![p] = [profiles[p] EXCEPT !.deleted = TRUE]]
      BY <1>1, <2>1
    <3>3. /\ profiles' \in Seq(Profile) /\ Len(profiles') = Len(profiles)
          /\ DOMAIN profiles' = DOMAIN profiles
          /\ profiles'[p] = [profiles[p] EXCEPT !.deleted = TRUE]
          /\ \A r \in DOMAIN profiles \ {p} : profiles'[r] = profiles[r]
      BY <1>1, <2>1, <3>1, <3>2, RowWritten
    <3>. QED
      BY <1>1, <3>3, Rows DEF Profile
  <2>2. CASE p \notin DOMAIN profiles
    BY <1>1, <2>2 DEF TypeOK
  <2>. QED
    BY <2>1, <2>2
<1>4. /\ q \in Live(profiles', a) \/ (q = NoProfile /\ Live(profiles', a) = {})
      /\ Live(profiles', a) \subseteq DOMAIN profiles
      /\ DOMAIN profiles \subseteq ProfileIds /\ NoProfile \notin DOMAIN profiles
  BY <1>1, <1>2, <1>3, Rows DEF LastUsed, Live
<1>5. active' \in [Accounts -> ProfileIds \union {NoProfile}] /\ meddled' \subseteq Accounts
  BY <1>1, <1>2, <1>4 DEF TypeOK
<1>6. ActiveIffAny'
  <2>. SUFFICES ASSUME NEW b \in Accounts, b \notin meddled'
                PROVE  /\ Live(profiles', b) # {} <=> active'[b] # NoProfile
                       /\ active'[b] # NoProfile =>
                            active'[b] \in DOMAIN profiles' /\ profiles'[active'[b]].owner = b
    BY DEF ActiveIffAny, Own
  <2>1. CASE b = a
    <3>1. active'[b] = q
      BY <2>1, <1>1, <1>2 DEF TypeOK
    <3>. QED
      BY <2>1, <3>1, <1>3, <1>4 DEF Live, Own
  <2>2. CASE b # a
    <3>1. active'[b] = active[b] /\ b \notin meddled
      BY <2>2, <1>1, <1>2 DEF TypeOK
    <3>2. p \in DOMAIN profiles => profiles[p].owner # b
      BY <2>2, <1>1
    <3>3. Live(profiles', b) = Live(profiles, b)
      <4>1. \A r \in DOMAIN profiles : profiles[r].owner = b =>
               r # p /\ profiles'[r].owner = b /\ profiles'[r].deleted = profiles[r].deleted
        BY <3>2, <1>3
      <4>2. \A r \in DOMAIN profiles : profiles'[r].owner = b <=> profiles[r].owner = b
        BY <1>3
      <4>. QED
        BY <4>1, <4>2, <1>3, Zenon DEF Live
    <3>4. /\ Live(profiles, b) # {} <=> active[b] # NoProfile
          /\ active[b] # NoProfile => Own(b, active[b])
      BY <3>1 DEF IInv, ActiveIffAny
    <3>. QED
      BY <3>1, <3>3, <3>4, <1>3 DEF Own
  <2>. QED
    BY <2>1, <2>2
<1>7. Len(profiles') <= MaxProfiles
  BY <1>1, <1>3 DEF TypeOK
<1>. QED
  BY <1>1, <1>3, <1>5, <1>6, <1>7, RowsChange

-----------------------------------------------------------------------------
(* The status, and the step *)

\* A status a client sets is that of the profile it plays.
LEMMA SetOnlineStatusKeeps ==
  ASSUME IInv, NEW c \in Clients, SetOnlineStatus(c)
  PROVE  IInv' /\ UNCHANGED Session
<1>1. UNCHANGED <<running, client, active, astray, meddled>> /\ TypeOK
  BY DEF SetOnlineStatus, IInv
<1>2. PICK online \in BOOLEAN, ok \in BOOLEAN : Writes(c, online, ok)
  BY DEF SetOnlineStatus
<1>3. /\ profiles' \in Seq(Profile) /\ Len(profiles') = Len(profiles)
      /\ DOMAIN profiles' = DOMAIN profiles /\ lost' \subseteq ProfileIds
      /\ \A p \in DOMAIN profiles : /\ profiles'[p].owner = profiles[p].owner
                                    /\ profiles'[p].deleted = profiles[p].deleted
      /\ \A p \in DOMAIN profiles \ lost' : profiles'[p].online =>
            \/ p \notin lost /\ profiles[p].online
            \/ client[c].loggedIn /\ client[c].profile = p
  BY <1>2, Written
<1>4. TypeOK'
  BY <1>1, <1>3 DEF TypeOK
<1>5. Held' /\ ActiveIffAny'
  BY <1>1, <1>3, SameRows DEF IInv
<1>6. OnlineIsPlayed'
  BY <1>1, <1>3 DEF IInv, OnlineIsPlayed
<1>. QED
  BY <1>1, <1>4, <1>5, <1>6 DEF IInv, Slots, Session

\* At the start nobody is connected and the tables are empty.
LEMMA Beginning == Init => IInv /\ SR!Init
<1>. SUFFICES ASSUME Init PROVE IInv /\ SR!Init
  OBVIOUS
<1>1. Free \in Client /\ ~Free.loggedIn
  BY DEF Free, Client, NoProfile
<1>2. TypeOK
  BY <1>1, LimitsAssumption, EmptySeq DEF Init, TypeOK
<1>3. DOMAIN profiles = {}
  BY DEF Init
<1>4. Slots /\ Held /\ ActiveIffAny /\ OnlineIsPlayed /\ SR!Init
  BY <1>1, <1>3 DEF Init, Slots, Held, ActiveIffAny, Live, OnlineIsPlayed, SR!Init, Session
<1>. QED
  BY <1>2, <1>4 DEF IInv

\* Every step keeps the invariant and is a step of the registry, or none.
LEMMA StepKeeps == IInv /\ [Next]_vars => IInv' /\ [SR!Next]_Session
<1>. SUFFICES ASSUME IInv, [Next]_vars PROVE IInv' /\ [SR!Next]_Session
  OBVIOUS
<1>1. ASSUME NEW c \in Clients, Connect(c) PROVE IInv' /\ [SR!Next]_Session
  BY <1>1, ConnectKeeps
<1>2. ASSUME NEW c \in Clients, Disconnect(c) PROVE IInv' /\ [SR!Next]_Session
  BY <1>2, DisconnectKeeps DEF SR!Next
<1>3. ASSUME NEW c \in Clients, NEW x \in Accounts \union {NoAccount},
             Refused(c, x) \/ RetrieveProfiles(c, x)
      PROVE  IInv' /\ [SR!Next]_Session
  BY <1>3, AskingKeeps DEF Refused, RetrieveProfiles, SR!Next
<1>5. ASSUME NEW c \in Clients, NEW a \in Accounts, NEW p \in ProfileIds \union {NoProfile},
             Login(c, a, p) \/ LoginFailed(c, a, p)
      PROVE  IInv' /\ [SR!Next]_Session
  BY <1>5, LoginKeeps DEF SR!Next
<1>7. ASSUME NEW c \in Clients, AddProfile(c) PROVE IInv' /\ [SR!Next]_Session
  BY <1>7, AddProfileKeeps
<1>8. ASSUME NEW c \in Clients, NEW p \in ProfileIds, DeleteProfile(c, p)
      PROVE  IInv' /\ [SR!Next]_Session
  BY <1>8, DeleteProfileKeeps
<1>9. ASSUME NEW c \in Clients, SetOnlineStatus(c) PROVE IInv' /\ [SR!Next]_Session
  BY <1>9, SetOnlineStatusKeeps
<1>10. CASE Crash
  BY <1>10, CrashKeeps DEF SR!Next
<1>11. CASE Restart
  BY <1>11, RestartKeeps
<1>12. CASE UNCHANGED vars
  BY <1>12 DEF vars, IInv, TypeOK, Slots, Held, ActiveIffAny, Own, Live, OnlineIsPlayed, Session
<1>. QED
  BY <1>1, <1>2, <1>3, <1>5, <1>7, <1>8, <1>9, <1>10, <1>11, <1>12
     DEF Next, HandleMessage

\* The invariant holds in every state.
LEMMA Invariant == Spec => []IInv
BY Beginning, StepKeeps, PTL DEF Spec

\* The slots and the tables are of their types.
THEOREM TypeCorrect == Spec => []TypeOK
<1>1. IInv => TypeOK
  BY DEF IInv
<1>. QED
  BY <1>1, Invariant, PTL

\* For any number of clients, accounts and profiles: a profile that is shown as
\* online is played, unless the write that says otherwise was lost.
THEOREM OnlineCorrect == Spec => []OnlineIsPlayed
<1>1. IInv => OnlineIsPlayed
  BY DEF IInv
<1>. QED
  BY <1>1, Invariant, PTL

\* An account has an active profile, of its own, exactly when it has any, unless
\* somebody else's request is in the way; and no two clients play the same.
THEOREM ProfilesCorrect == Spec => []ProfilesConsistent
<1>1. ASSUME IInv, NEW c \in Clients \ astray, NEW d \in Clients \ astray,
             client[c].loggedIn, Own(client[c].account, client[c].profile),
             client[d].loggedIn, Own(client[d].account, client[d].profile),
             client[c].profile = client[d].profile
      PROVE  c = d
  BY <1>1 DEF IInv, Held, Own
<1>2. IInv => ProfilesConsistent
  BY <1>1 DEF IInv, ProfilesConsistent, PlayedOnce
<1>. QED
  BY <1>2, Invariant, PTL

\* Logins implement the registry: of the clients that have not gone astray no two
\* are logged in to one account, and none changes it without leaving first.
THEOREM RegistryCorrect == Spec => RegistrySpec
BY Beginning, StepKeeps, Invariant, PTL DEF Spec, RegistrySpec, SR!RegistrySpec
=============================================================================
