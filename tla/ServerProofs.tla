---------------------------- MODULE ServerProofs ----------------------------
(***************************************************************************)
(* Proofs about two parts of the server that share no state.               *)
(*                                                                         *)
(* The list of dedicated servers (TrackableServer) is sound for any        *)
(* addresses, whether or not some share a hash, any keys and any number of *)
(* entries.                                                                *)
(*                                                                         *)
(* The server survives the outages it should survive (DatabaseOutage) with *)
(* any number of slots and any room on the stack of the main thread.       *)
(***************************************************************************)
EXTENDS TrackableServer, DatabaseOutage, FiniteSetTheorems, TLAPS

-----------------------------------------------------------------------------
(* The list of dedicated servers: the inductive invariant *)

\* What keeps duplicates of a listed server behind it: ids grow, an entry that
\* has started was the first of its hash and stays so, for an entry is only
\* removed with all of its hash.  A license was checked with the entry's key.
Ordered ==
    /\ \A s \in list : s.id < nextId
    /\ \A s, t \in list : s.id = t.id => s = t
    /\ \A s, t \in list : Listed(s) /\ t.hash = s.hash => s.id <= t.id
    /\ \A s \in list : s.licensed => s.key \in GoodKeys

IInv == TypeOK /\ ListIsSound /\ Ordered

-----------------------------------------------------------------------------
(* Changes of the list *)

\* An entry of the list, spelled out.
LEMMA Entries ==
  ASSUME TypeOK, NEW s \in list
  PROVE  /\ s \in Server /\ s.id \in Nat /\ s.hash \in Hashes /\ s.info \in StartupVars
         /\ s.licensed \in BOOLEAN /\ s.info.current \in BOOLEAN
BY DEF TypeOK, Server, StartupVars

\* A new entry is not listed, and the last of its hash.
LEMMA NewIsLast ==
  ASSUME IInv, NEW a \in Addresses, NEW key \in Keys, NEW ok, ok \in BOOLEAN,
         ok => key \in GoodKeys, NEW kept, kept \subseteq list,
         list' = kept \union {NewServer(a, key, ok)}, nextId' = nextId + 1
  PROVE  /\ list' \subseteq Server /\ nextId' \in Nat /\ Ordered'
         /\ OneListedPerHash' /\ RankedIsLicensed'
         /\ \A s \in list' : Listed(s) => s \in kept
<1>. DEFINE n == NewServer(a, key, ok)
<1>1. n \in Server /\ n.id = nextId /\ ~Listed(n) /\ n.key = key /\ n.licensed = ok
  BY HashAssumption DEF IInv, TypeOK, NewServer, NoInfo, NoId, Server, StartupVars, Listed
<1>2. nextId \in Nat /\ list \subseteq Server
  BY DEF IInv, TypeOK
<1>. HIDE DEF n
<1>3. \A s \in list : s.id \in Nat
  BY <1>2 DEF Server
<1>4. list' \subseteq Server /\ nextId' \in Nat
  BY <1>1, <1>2 DEF n
<1>5. \A s \in list' : s \in kept \/ s = n
  BY DEF n
<1>6. Ordered'
  BY <1>1, <1>2, <1>3, <1>5 DEF IInv, Ordered, Listed
<1>7. OneListedPerHash'
  BY <1>1, <1>5 DEF IInv, ListIsSound, OneListedPerHash, Listed
<1>8. RankedIsLicensed'
  BY <1>1, <1>5 DEF IInv, ListIsSound, RankedIsLicensed, Listed
<1>. QED
  BY <1>1, <1>4, <1>5, <1>6, <1>7, <1>8

\* Entries may go from a list.
LEMMA Fewer ==
  ASSUME IInv, list' \subseteq list, UNCHANGED nextId
  PROVE  /\ list' \subseteq Server /\ nextId' \in Nat /\ Ordered'
         /\ OneListedPerHash' /\ RankedIsLicensed'
BY DEF IInv, TypeOK, Ordered, ListIsSound, OneListedPerHash, RankedIsLicensed, Listed

\* The first entry of a hash may be started, if it may connect, and be heard of.
LEMMA Changed ==
  ASSUME IInv, NEW a \in Addresses, NEW s \in FindServer(a), NEW t \in Server,
         list' = (list \ {s}) \union {t}, UNCHANGED nextId,
         t.id = s.id, t.hash = s.hash, t.key = s.key, t.licensed = s.licensed,
         t.info = s.info \/ CanConnect(s, t.info)
  PROVE  /\ list' \subseteq Server /\ nextId' \in Nat /\ Ordered'
         /\ OneListedPerHash' /\ RankedIsLicensed'
<1>1. /\ s \in list /\ s.hash = AddressHash[a]
      /\ \A u \in list : u.hash = s.hash => s.id <= u.id
  BY DEF FindServer, IsFirst, Matching
<1>2. /\ list \subseteq Server /\ nextId \in Nat /\ \A u \in list : u.id \in Nat
      /\ \A u \in list : u.id < nextId
      /\ \A u, v \in list : u.id = v.id => u = v
      /\ \A u, v \in list : Listed(u) /\ v.hash = u.hash => u.id <= v.id
      /\ \A u \in list : u.licensed => u.key \in GoodKeys
  BY DEF IInv, TypeOK, Ordered, Server
<1>3. \A u \in list' : u = t \/ (u \in list /\ u # s)
  OBVIOUS
<1>4. Ordered'
  <2>1. \A u, v \in list' : Listed(u) /\ v.hash = u.hash => u.id <= v.id
    BY <1>1, <1>2, <1>3
  <2>. QED
    BY <2>1, <1>1, <1>2, <1>3 DEF Ordered
<1>5. OneListedPerHash'
  <2>1. \A u \in list : Listed(u) /\ u.hash = s.hash => u = s
    BY <1>1, <1>2
  <2>. QED
    BY <2>1, <1>3 DEF IInv, ListIsSound, OneListedPerHash
<1>6. RankedIsLicensed'
  <2>1. Listed(t) /\ t.info.ranked => t.key \in GoodKeys /\ ~t.info.modded /\ ~t.info.passworded
    <3>1. CASE t.info = s.info
      BY <3>1, <1>1 DEF IInv, ListIsSound, RankedIsLicensed, Listed
    <3>2. CASE CanConnect(s, t.info)
      BY <3>2, <1>1, <1>2 DEF CanConnect
    <3>. QED
      BY <3>1, <3>2
  <2>. QED
    BY <2>1, <1>3 DEF IInv, ListIsSound, RankedIsLicensed
<1>. QED
  BY <1>1, <1>2, <1>4, <1>5, <1>6

-----------------------------------------------------------------------------
(* The operations.  Each keeps the invariant, and takes listed servers off *)
(* the list only for their own address or for the loss of the database.    *)

\* A server leaves the list by its own address, or everyone is dropped.
Owned ==
    \A s \in list :
        Listed(s) /\ (\A t \in list' : t.id # s.id) =>
            \/ \E a \in Addresses : /\ AddressHash[a] = s.hash
                                    /\ \A b \in Addresses \ {a} : link'[b] = link[b]
            \/ \A b \in Addresses : ~Connected(b)'

\* Steps of one connection that take nothing off the list, or all entries of its
\* hash.
LEMMA OwnersStep ==
  ASSUME TypeOK, NEW a \in Addresses, \A b \in Addresses \ {a} : link'[b] = link[b],
         \A s \in list : (\A t \in list' : t.id # s.id) => s.hash = AddressHash[a]
  PROVE  Owned
BY DEF Owned

\* Connecting, and a peer that is gone.
LEMMA LinkKeeps ==
  ASSUME IInv, NEW a \in Addresses, Connect(a) \/ PeerGone(a)
  PROVE  IInv' /\ Owned
<1>1. UNCHANGED <<list, nextId>> /\ link \in [Addresses -> Link]
  BY DEF IInv, TypeOK, Connect, PeerGone
<1>2. /\ link' \in [Addresses -> Link]
      /\ \A b \in Addresses \ {a} : link'[b] = link[b]
      /\ \A b \in Addresses : Connected(b) /\ link[b].isServer =>
            Connected(b)' /\ link'[b].isServer
  <2>1. CASE Connect(a)
    BY <2>1, <1>1 DEF Connect, Connected, NoLink, Link
  <2>2. CASE PeerGone(a)
    BY <2>2, <1>1 DEF PeerGone, Connected, Link
  <2>. QED
    BY <2>1, <2>2
<1>3. TypeOK'
  BY <1>1, <1>2 DEF IInv, TypeOK
<1>4. ListedIsConnected'
  BY <1>1, <1>2 DEF IInv, ListIsSound, ListedIsConnected, Listed
<1>5. Ordered' /\ OneListedPerHash' /\ RankedIsLicensed'
  BY <1>1, Fewer
<1>6. Owned
  BY <1>1 DEF Owned
<1>. QED
  BY <1>3, <1>4, <1>5, <1>6 DEF IInv, ListIsSound

\* A connection that ends takes the entries of its hash along, if it has started
\* a server.
LEMMA DisconnectKeeps ==
  ASSUME IInv, NEW a \in Addresses, DisconnectReceived(a)
  PROVE  IInv' /\ Owned
<1>1. /\ link' = [link EXCEPT ![a] = NoLink] /\ UNCHANGED nextId
      /\ list' = IF link[a].isServer THEN WithoutServer(a) ELSE list
  BY DEF DisconnectReceived
<1>2. link' \in [Addresses -> Link] /\ \A b \in Addresses \ {a} : link'[b] = link[b]
  BY <1>1 DEF IInv, TypeOK, NoLink, Link
<1>3. list' \subseteq list /\ \A s \in list \ list' : s.hash = AddressHash[a]
  BY <1>1 DEF WithoutServer, Matching
<1>4. /\ list' \subseteq Server /\ nextId' \in Nat /\ Ordered'
      /\ OneListedPerHash' /\ RankedIsLicensed'
  BY <1>1, <1>3, Fewer
<1>5. ListedIsConnected'
  <2>. SUFFICES ASSUME NEW s \in list', Listed(s)
                PROVE  \E b \in Addresses :
                          AddressHash[b] = s.hash /\ Connected(b)' /\ link'[b].isServer
    BY DEF ListedIsConnected, Listed
  <2>1. PICK b \in Addresses : AddressHash[b] = s.hash /\ Connected(b) /\ link[b].isServer
    BY <1>3 DEF IInv, ListIsSound, ListedIsConnected
  <2>2. b # a
    BY <1>1, <2>1 DEF WithoutServer, Matching
  <2>. QED
    BY <1>2, <2>1, <2>2 DEF Connected
<1>6. Owned
  BY <1>2, <1>3, OwnersStep DEF IInv
<1>. QED
  BY <1>2, <1>4, <1>5, <1>6 DEF IInv, TypeOK, ListIsSound

\* Steps that leave the connections alone and list nothing new.
LEMMA NothingListed ==
  ASSUME IInv, UNCHANGED link, list' \subseteq Server, nextId' \in Nat, Ordered',
         OneListedPerHash', RankedIsLicensed',
         \A s \in list' : Listed(s) => \E t \in list : Listed(t) /\ t.hash = s.hash
  PROVE  IInv'
<1>1. ListedIsConnected'
  BY DEF IInv, ListIsSound, ListedIsConnected, Connected, Listed
<1>. QED
  BY <1>1 DEF IInv, TypeOK, ListIsSound

\* Authentication appends an entry.
LEMMA AuthKeeps ==
  ASSUME IInv, NEW a \in Addresses, NEW key \in Keys, AuthServer(a, key)
  PROVE  IInv' /\ Owned
<1>1. /\ list' = list \union {NewServer(a, key, key \in GoodKeys)}
      /\ nextId' = nextId + 1 /\ UNCHANGED link
  BY DEF AuthServer
<1>. DEFINE ok == key \in GoodKeys
<1>2. ok \in BOOLEAN /\ (ok => key \in GoodKeys)
  OBVIOUS
<1>3. list' = list \union {NewServer(a, key, ok)}
  BY <1>1
<1>. HIDE DEF ok
<1>4. /\ list' \subseteq Server /\ nextId' \in Nat /\ Ordered'
      /\ OneListedPerHash' /\ RankedIsLicensed'
      /\ \A s \in list' : Listed(s) => s \in list
  BY <1>1, <1>2, <1>3, NewIsLast
<1>5. Owned
  BY <1>1 DEF Owned
<1>. QED
  BY <1>1, <1>4, <1>5, NothingListed

\* In an outage everyone is dropped first.
LEMMA AuthInOutageKeeps ==
  ASSUME IInv, NEW a \in Addresses, NEW key \in Keys, AuthServerInOutage(a, key)
  PROVE  IInv' /\ Owned
<1>. DEFINE dropped == {AddressHash[b] : b \in {c \in Addresses : link[c].isServer}}
            kept == {s \in list : s.hash \notin dropped}
<1>1. /\ list' = kept \union {NewServer(a, key, FALSE)}
      /\ nextId' = nextId + 1 /\ link' = [b \in Addresses |-> NoLink]
  BY DEF AuthServerInOutage
<1>2. /\ list' \subseteq Server /\ nextId' \in Nat /\ Ordered'
      /\ OneListedPerHash' /\ RankedIsLicensed'
      /\ \A s \in list' : Listed(s) => s \in kept
  BY <1>1, NewIsLast
<1>3. \A s \in kept : ~Listed(s)
  BY DEF IInv, ListIsSound, ListedIsConnected
<1>4. ListedIsConnected'
  BY <1>2, <1>3 DEF ListedIsConnected, Listed
<1>5. link' \in [Addresses -> Link] /\ \A b \in Addresses : ~Connected(b)'
  BY <1>1 DEF NoLink, Link, Connected
<1>. QED
  BY <1>2, <1>4, <1>5 DEF IInv, TypeOK, ListIsSound, Owned

\* A wrong ping and a refused start remove the entries of the hash.
LEMMA RemovalKeeps ==
  ASSUME IInv, NEW a \in Addresses, list' = WithoutServer(a), UNCHANGED <<link, nextId>>
  PROVE  IInv' /\ Owned
<1>1. list' \subseteq list /\ \A s \in list \ list' : s.hash = AddressHash[a]
  BY DEF WithoutServer, Matching
<1>2. /\ list' \subseteq Server /\ nextId' \in Nat /\ Ordered'
      /\ OneListedPerHash' /\ RankedIsLicensed'
  BY <1>1, Fewer
<1>3. IInv'
  BY <1>1, <1>2, NothingListed
<1>4. Owned
  BY <1>1, OwnersStep DEF IInv
<1>. QED
  BY <1>3, <1>4

\* A start is listed with a connection that is marked.
LEMMA StartedKeeps ==
  ASSUME IInv, NEW a \in Addresses, NEW v \in StartupVars, NEW id \in PublicIds, Started(a, v, id)
  PROVE  IInv' /\ Owned
<1>1. PICK s \in FindServer(a) :
         /\ CanConnect(s, v)
         /\ list' = (list \ {s}) \union {[s EXCEPT !.publicId = id, !.info = v]}
  BY DEF Started
<1>. DEFINE t == [s EXCEPT !.publicId = id, !.info = v]
<1>2. /\ link' = [link EXCEPT ![a].isServer = TRUE, ![a].loggedIn = TRUE,
                              ![a].timeout = "heartbeat"]
      /\ Connected(a) /\ UNCHANGED nextId
  BY DEF Started
<1>3. s \in list /\ s \in Server /\ s.hash = AddressHash[a]
  BY DEF FindServer, IsFirst, Matching, IInv, TypeOK
<1>4. /\ t \in Server /\ t.id = s.id /\ t.hash = s.hash /\ t.key = s.key
      /\ t.licensed = s.licensed /\ t.info = v
  BY <1>3 DEF Server
<1>5. /\ link' \in [Addresses -> Link] /\ \A b \in Addresses \ {a} : link'[b] = link[b]
      /\ Connected(a)' /\ link'[a].isServer
  BY <1>2 DEF IInv, TypeOK, Link, Connected
<1>6. list' = (list \ {s}) \union {t} /\ CanConnect(s, t.info)
  BY <1>1, <1>4
<1>. HIDE DEF t
<1>7. /\ list' \subseteq Server /\ nextId' \in Nat /\ Ordered'
      /\ OneListedPerHash' /\ RankedIsLicensed'
  BY <1>1, <1>2, <1>4, <1>6, Changed
<1>8. ListedIsConnected'
  <2>. SUFFICES ASSUME NEW u \in list', Listed(u)
                PROVE  \E b \in Addresses :
                          AddressHash[b] = u.hash /\ Connected(b)' /\ link'[b].isServer
    BY DEF ListedIsConnected, Listed
  <2>1. CASE u = t
    BY <2>1, <1>3, <1>4, <1>5
  <2>2. CASE u \in list
    <3>1. PICK b \in Addresses : AddressHash[b] = u.hash /\ Connected(b) /\ link[b].isServer
      BY <2>2 DEF IInv, ListIsSound, ListedIsConnected
    <3>. QED
      BY <3>1, <1>5 DEF Connected
  <2>. QED
    BY <2>1, <2>2, <1>6
<1>9. Owned
  BY <1>4, <1>6 DEF Owned
<1>. QED
  BY <1>5, <1>7, <1>8, <1>9 DEF IInv, TypeOK, ListIsSound

\* A heartbeat changes the players.
LEMMA UpdateKeeps ==
  ASSUME IInv, NEW a \in Addresses, NEW cookie \in 1 .. MaxEntries, NEW players \in {0, 1},
         UpdateServer(a, cookie, players)
  PROVE  IInv' /\ Owned
<1>1. PICK s \in FindServer(a) : list' = (list \ {s}) \union {[s EXCEPT !.players = players]}
  BY DEF UpdateServer
<1>. DEFINE t == [s EXCEPT !.players = players]
<1>2. UNCHANGED <<link, nextId>>
  BY DEF UpdateServer
<1>3. s \in list /\ s \in Server
  BY DEF FindServer, IsFirst, Matching, IInv, TypeOK
<1>4. /\ t \in Server /\ t.id = s.id /\ t.hash = s.hash /\ t.key = s.key
      /\ t.licensed = s.licensed /\ t.info = s.info
  BY <1>3 DEF Server
<1>5. list' = (list \ {s}) \union {t}
  BY <1>1
<1>. HIDE DEF t
<1>6. /\ list' \subseteq Server /\ nextId' \in Nat /\ Ordered'
      /\ OneListedPerHash' /\ RankedIsLicensed'
  BY <1>1, <1>2, <1>4, <1>5, Changed
<1>7. \A u \in list' : Listed(u) => \E w \in list : Listed(w) /\ w.hash = u.hash
  BY <1>3, <1>4, <1>5 DEF Listed
<1>8. Owned
  BY <1>4, <1>5 DEF Owned
<1>. QED
  BY <1>2, <1>6, <1>7, <1>8, NothingListed

-----------------------------------------------------------------------------

\* The list is empty to begin with.
LEMMA Beginning == Init => IInv
BY DEF Init, IInv, TypeOK, NoLink, Link, ListIsSound, ListedIsConnected, OneListedPerHash,
       RankedIsLicensed, Ordered

\* Every step keeps the invariant, and takes off the list what it may.
LEMMA StepKeeps == IInv /\ [Next]_vars => IInv' /\ (Owned \/ UNCHANGED vars)
<1>. SUFFICES ASSUME IInv, [Next]_vars PROVE IInv' /\ (Owned \/ UNCHANGED vars)
  OBVIOUS
<1>1. ASSUME NEW a \in Addresses, Connect(a) \/ PeerGone(a) PROVE IInv' /\ Owned
  BY <1>1, LinkKeeps
<1>2. ASSUME NEW a \in Addresses, DisconnectReceived(a) PROVE IInv' /\ Owned
  BY <1>2, DisconnectKeeps
<1>3. ASSUME NEW a \in Addresses, NEW key \in Keys, AuthServer(a, key)
      PROVE  IInv' /\ Owned
  BY <1>3, AuthKeeps
<1>4. ASSUME NEW a \in Addresses, NEW key \in Keys, AuthServerInOutage(a, key)
      PROVE  IInv' /\ Owned
  BY <1>4, AuthInOutageKeeps
<1>5. CASE UNCHANGED vars
  BY <1>5 DEF vars, IInv, TypeOK, ListIsSound, ListedIsConnected, OneListedPerHash,
              RankedIsLicensed, Ordered, Connected, Listed
<1>6. ASSUME NEW a \in Addresses, NEW id, PingMismatch(a, id) PROVE IInv' /\ Owned
  BY <1>6, RemovalKeeps DEF PingMismatch
<1>7. ASSUME NEW a \in Addresses, NEW v, StartRefused(a, v) PROVE IInv' /\ Owned
  BY <1>7, RemovalKeeps DEF StartRefused
<1>8. ASSUME NEW a \in Addresses, NEW v \in StartupVars, NEW id \in PublicIds, Started(a, v, id)
      PROVE  IInv' /\ Owned
  BY <1>8, StartedKeeps
<1>9. ASSUME NEW a \in Addresses, NEW cookie \in 1 .. MaxEntries, NEW players \in {0, 1},
             UpdateServer(a, cookie, players)
      PROVE  IInv' /\ Owned
  BY <1>9, UpdateKeeps
<1>10. ASSUME NEW a \in Addresses, Rejected(a) PROVE UNCHANGED vars
  BY <1>10 DEF Rejected
<1>. QED
  BY <1>1, <1>2, <1>3, <1>4, <1>5, <1>6, <1>7, <1>8, <1>9, <1>10 DEF Next, HandleMessage

\* The invariant holds in every state.
LEMMA Invariant == Spec => []IInv
BY Beginning, StepKeeps, PTL DEF Spec

\* The connections and the list are of their types.
THEOREM TypeCorrect == Spec => []TypeOK
<1>1. IInv => TypeOK
  BY DEF IInv
<1>. QED
  BY <1>1, Invariant, PTL

\* Whatever addresses there are, sharing hashes or not: a listed server is
\* connected, listed once, and ranked only with a license.
THEOREM ListCorrect == Spec => []ListIsSound
<1>1. IInv => ListIsSound
  BY DEF IInv
<1>. QED
  BY <1>1, Invariant, PTL

\* A server is only taken off the list by a step of a connection with its hash,
\* or when the database is lost and everyone with it.
THEOREM DelistedCorrect == Spec => DelistedByOwner
<1>1. IInv /\ [Next]_vars =>
        [\A s \in list :
          Listed(s) /\ (\A t \in list' : t.id # s.id) =>
             \/ \E a \in Addresses : /\ AddressHash[a] = s.hash
                                     /\ \A b \in Addresses \ {a} : link'[b] = link[b]
             \/ \A b \in Addresses : ~Connected(b)']_vars
  BY StepKeeps DEF Owned
<1>. QED
  BY <1>1, Invariant, PTL DEF Spec, DelistedByOwner

-----------------------------------------------------------------------------
(* The inductive invariant of the outage *)

\* The innermost frame is a loop, and the frames below it have each come to a
\* slot.
StackIsNested ==
    /\ stack # <<>> => stack[Len(stack)].kind = "loop"
    /\ \A k \in DOMAIN stack : k < Len(stack) => stack[k].pos \in Slots

\* A test is under way in a handler that has calls to make, or in a loop that has
\* come to a player.
Testing ==
    test # "none" =>
        \/ /\ stack = <<>>
           /\ main.pc \in {"query", "token", "login", "drop"}
           /\ main.calls > 0
        \/ /\ stack # <<>>
           /\ Pos \in Slots
           /\ client[Pos] = "player"

\* A handler that works on a token has its client, unless it has been stranded.
HasClient ==
    /\ main.pc \in {"stale", "handle", "drop"} => stack = <<>> /\ client[main.slot] # "free"
    /\ main.pc \in {"token", "login"} /\ ~stranded => stack = <<>> /\ client[main.slot] # "free"

\* Before the first outage or collision every test succeeds, so that no emergency
\* is ever entered and no handler finds its client gone.
NeverLost ==
    ~lost =>
        /\ dbUp /\ alive /\ isConnected /\ ~maintenance
        /\ ping \in {"sleep", "asking", "up", "up2"}
        /\ test \in {"none", "asked", "yes", "working"}
        /\ ~crashed /\ stack = <<>>
        /\ main.pc # "stale"
        /\ main.pc # "idle" => client[main.slot] # "free"

\* Without players an emergency is never entered from inside another.
NeverPlayed ==
    ~played =>
        /\ ~stranded => ~crashed
        /\ \A i \in Slots : client[i] # "player"
        /\ main.pc \notin {"login", "drop"}
        /\ Len(stack) <= 1

Counted == ~lost \/ ~played => count = Cardinality(Occupied)

OutageInv ==
    OutageTypeOK /\ StackIsNested /\ Testing /\ HasClient /\ NeverLost /\ NeverPlayed /\ Counted

-----------------------------------------------------------------------------
(* Slots and their number *)

\* There are NumClients slots.
LEMMA SlotsFinite == IsFiniteSet(Slots) /\ Cardinality(Slots) = NumClients
BY SizesAssumption, FS_Interval DEF Slots

\* There are as many occupied slots as a client count can tell apart.
LEMMA OccupiedFits ==
    /\ IsFiniteSet(Occupied)
    /\ Cardinality(Occupied) \in 0 .. CountMod - 1
<1>2. Occupied \subseteq Slots
  BY DEF Occupied
<1>3. IsFiniteSet(Occupied) /\ Cardinality(Occupied) <= NumClients
  BY <1>2, SlotsFinite, FS_Subset
<1>4. Cardinality(Occupied) \in Nat
  BY <1>3, FS_CardinalityType
<1>. QED
  BY <1>3, <1>4, SizesAssumption

\* The count follows the slots: one up with an accepted client, ...
LEMMA CountsUp ==
    ASSUME OutageTypeOK, count = Cardinality(Occupied), NEW i \in Slots, i \notin Occupied,
           client' = [client EXCEPT ![i] = "other"], count' = (count + 1) % CountMod
    PROVE  count' = Cardinality(Occupied')
<1>1. Occupied' = Occupied \cup {i}
  BY DEF OutageTypeOK, Occupied
<1>2. Cardinality(Occupied') = Cardinality(Occupied) + 1
  BY <1>1, OccupiedFits, FS_AddElement
<1>3. Occupied' \subseteq Slots
  BY DEF Occupied
<1>4. Cardinality(Occupied') <= NumClients
  BY <1>3, SlotsFinite, FS_Subset
<1>5. count + 1 \in 0 .. CountMod - 1
  BY <1>2, <1>4, OccupiedFits, SizesAssumption
<1>6. (count + 1) % CountMod = count + 1
  BY <1>5, SizesAssumption
<1>. QED
  BY <1>2, <1>6

\* ... and one down with a removed one, ...
LEMMA CountsDown ==
    ASSUME OutageTypeOK, count = Cardinality(Occupied), NEW i \in Slots, i \in Occupied,
           FreeSlot(i)
    PROVE  count' = Cardinality(Occupied')
<1>1. Occupied' = Occupied \ {i}
  BY DEF OutageTypeOK, Occupied, FreeSlot
<1>2. Cardinality(Occupied') = Cardinality(Occupied) - 1
  BY <1>1, OccupiedFits, FS_RemoveElement
<1>3. Cardinality(Occupied) # 0
  BY OccupiedFits, FS_EmptySet
<1>4. count - 1 \in 0 .. CountMod - 1
  BY <1>3, OccupiedFits, SizesAssumption
<1>5. (count - 1) % CountMod = count - 1
  BY <1>4, SizesAssumption
<1>. QED
  BY <1>2, <1>5 DEF FreeSlot

\* ... while a login keeps its slot.
LEMMA CountStays ==
    ASSUME OutageTypeOK, count = Cardinality(Occupied), UNCHANGED count,
           \/ UNCHANGED client
           \/ \E i \in Occupied : client' = [client EXCEPT ![i] = "player"]
    PROVE  count' = Cardinality(Occupied')
<1>1. Occupied' = Occupied
  BY DEF OutageTypeOK, Occupied
<1>. QED
  BY <1>1

-----------------------------------------------------------------------------
(* Types *)

\* To free a slot keeps the slots and their count of their types.
LEMMA FreeSlotTypes ==
    ASSUME OutageTypeOK, NEW i \in 0 .. NumClients, FreeSlot(i)
    PROVE  client' \in [Slots -> {"free", "other", "player"}] /\ count' \in 0 .. CountMod - 1
<1>1. client' \in [Slots -> {"free", "other", "player"}]
  BY DEF OutageTypeOK, FreeSlot
<1>2. count' = (count - 1) % CountMod /\ count - 1 \in Int /\ CountMod \in Nat \ {0}
  BY SizesAssumption DEF OutageTypeOK, FreeSlot
<1>. QED
  BY <1>1, <1>2

\* An emergency is entered on a stack that has room for it, or ends the process.
LEMMA EmergencyTypes ==
    ASSUME OutageTypeOK, NEW frames \in Seq(Frame), Emergency(frames),
           Len(frames) <= MaxStack + 1,
           \A k \in DOMAIN frames : frames[k].pos \in Slots
    PROVE  /\ maintenance' = TRUE /\ crashed' \in BOOLEAN
           /\ stack' \in Seq(Frame) /\ Len(stack') <= MaxStack + 1
           /\ StackIsNested' \/ (UNCHANGED stack /\ crashed')
<1>1. CASE Len(frames) > MaxStack
  BY <1>1 DEF Emergency, OutageTypeOK
<1>2. CASE Len(frames) <= MaxStack
  <2>. DEFINE loop == [kind |-> "loop", pos |-> 0]
  <2>1. loop \in Frame
    BY SizesAssumption DEF Frame
  <2>2. stack' = Append(frames, loop) /\ UNCHANGED crashed /\ maintenance' = TRUE
    BY <1>2, SizesAssumption DEF Emergency
  <2>3. /\ stack' \in Seq(Frame) /\ Len(stack') = Len(frames) + 1
        /\ stack'[Len(stack')].kind = "loop"
        /\ \A k \in DOMAIN stack' : k < Len(stack') => stack'[k] = frames[k] /\ k \in DOMAIN frames
    BY <2>1, <2>2
  <2>4. StackIsNested'
    BY <2>3 DEF StackIsNested, Slots
  <2>. QED
    BY <1>2, <2>2, <2>3, <2>4, SizesAssumption DEF OutageTypeOK
<1>3. Len(frames) > MaxStack \/ Len(frames) <= MaxStack
  BY SizesAssumption
<1>. QED
  BY <1>1, <1>2, <1>3

\* A loop goes on to the next slot.
LEMMA AdvanceTypes ==
    ASSUME OutageTypeOK, StackIsNested, NEW i \in Slots, InLoop(i), Advance
    PROVE  /\ stack' \in Seq(Frame) /\ Len(stack') = Len(stack)
           /\ StackIsNested'
<1>1. stack \in Seq(Frame) /\ stack # <<>> /\ Len(stack) \in DOMAIN stack
  BY DEF OutageTypeOK, InLoop
<1>2. stack[Len(stack)] \in Frame /\ stack[Len(stack)].pos = i
  BY <1>1 DEF InLoop, Pos, Depth
<1>3. [stack[Len(stack)] EXCEPT !.pos = @ + 1] \in Frame
  BY <1>2, SizesAssumption DEF Frame, Slots
<1>4. stack' = [stack EXCEPT ![Len(stack)] = [stack[Len(stack)] EXCEPT !.pos = @ + 1]]
  BY DEF Advance, Depth
<1>5. stack' \in Seq(Frame) /\ Len(stack') = Len(stack) /\ DOMAIN stack' = DOMAIN stack
  BY <1>1, <1>3, <1>4
<1>6. \A k \in DOMAIN stack : stack'[k].kind = stack[k].kind /\ (k # Len(stack) => stack'[k] = stack[k])
  BY <1>1, <1>2, <1>4 DEF Frame
<1>7. StackIsNested'
  BY <1>1, <1>5, <1>6 DEF StackIsNested, Slots
<1>. QED
  BY <1>5, <1>7

\* The end of the loop returns to the frame below, if there is one, which removes
\* the client it had come to.
LEMMA LoopEndsTypes ==
    ASSUME OutageTypeOK, StackIsNested, LoopEnds
    PROVE  OutageTypeOK' /\ StackIsNested'
<1>1. /\ stack \in Seq(Frame) /\ stack # <<>> /\ Len(stack) \in DOMAIN stack /\ Len(stack) <= MaxStack + 1
      /\ Depth = Len(stack) /\ Depth \in Nat \ {0} /\ MaxStack \in Nat \ {0}
  BY SizesAssumption DEF OutageTypeOK, LoopEnds, InLoop, Depth
<1>2. /\ UNCHANGED <<reconnect, dbUp, alive, isConnected, maintenance, main, test, ping, lost,
                      played, stranded>>
      /\ crashed' \in BOOLEAN
  BY DEF LoopEnds, OutageTypeOK
<1>3. CASE Depth = 1 /\ stack' = <<>> /\ UNCHANGED <<client, count, crashed>>
  BY <1>1, <1>2, <1>3 DEF OutageTypeOK, StackIsNested
<1>4. CASE crashed' = TRUE /\ UNCHANGED <<client, count, stack>>
  BY <1>1, <1>2, <1>4 DEF OutageTypeOK, StackIsNested
<1>5. CASE /\ Depth > 1
           /\ FreeSlot(stack[Depth - 1].pos)
           /\ stack' = IF stack[Depth - 1].kind = "remove" THEN <<>>
                       ELSE [SubSeq(stack, 1, Depth - 1)
                               EXCEPT ![Depth - 1].pos = @ + 1]
           /\ UNCHANGED crashed
  <2>. DEFINE below == SubSeq(stack, 1, Depth - 1)
              frame == stack[Depth - 1]
  <2>1. Depth - 1 \in DOMAIN stack /\ frame \in Frame /\ frame.pos \in Slots
    BY <1>1, <1>5 DEF StackIsNested
  <2>2. client' \in [Slots -> {"free", "other", "player"}] /\ count' \in 0 .. CountMod - 1
    BY <1>5, <2>1, FreeSlotTypes DEF Frame
  <2>3. CASE frame.kind = "remove"
    BY <1>1, <1>2, <1>5, <2>2, <2>3 DEF OutageTypeOK, StackIsNested
  <2>4. CASE frame.kind # "remove"
    <3>1. /\ below \in Seq(Frame) /\ Len(below) = Depth - 1
          /\ \A k \in 1 .. Depth - 1 : below[k] = stack[k]
      BY <1>1, <1>5
    <3>. HIDE DEF below
    <3>2. stack' = [below EXCEPT ![Depth - 1] = [below[Depth - 1] EXCEPT !.pos = @ + 1]]
      BY <1>5, <2>4 DEF below
    <3>3. /\ below[Depth - 1] = frame /\ frame.kind = "loop"
          /\ [frame EXCEPT !.pos = @ + 1] \in Frame
      <4>1. below[Depth - 1] = frame
        BY <1>1, <1>5, <3>1
      <4>2. frame.kind = "loop" /\ frame.pos + 1 \in 0 .. NumClients
        BY <2>1, <2>4, SizesAssumption DEF Frame, Slots
      <4>. HIDE DEF frame
      <4>. QED
        BY <2>1, <4>1, <4>2 DEF Frame
    <3>4. /\ stack' \in Seq(Frame) /\ Len(stack') = Depth - 1 /\ DOMAIN stack' = 1 .. Depth - 1
          /\ stack'[Depth - 1].kind = "loop"
          /\ \A k \in 1 .. Depth - 1 : k # Depth - 1 => stack'[k] = stack[k]
      <4>1. DOMAIN below = 1 .. Depth - 1 /\ Depth - 1 \in DOMAIN below
        BY <1>1, <1>5, <3>1
      <4>2. stack' \in Seq(Frame) /\ Len(stack') = Depth - 1 /\ DOMAIN stack' = 1 .. Depth - 1
        BY <3>1, <3>2, <3>3, <4>1
      <4>3. stack'[Depth - 1] = [frame EXCEPT !.pos = @ + 1]
        BY <3>2, <3>3, <4>1
      <4>4. [frame EXCEPT !.pos = @ + 1].kind = "loop"
        BY <2>1, <3>3 DEF Frame
      <4>. QED
        BY <3>1, <3>2, <4>1, <4>2, <4>3, <4>4
    <3>5. StackIsNested'
      BY <1>1, <3>4 DEF StackIsNested, Slots
    <3>6. OutageTypeOK'
      BY <1>1, <1>2, <2>2, <3>4 DEF OutageTypeOK, Frame
    <3>. QED
      BY <3>5, <3>6
  <2>. QED
    BY <2>3, <2>4
<1>. QED
  BY <1>3, <1>4, <1>5 DEF LoopEnds

\* What the main thread may be at.
MainState == [pc : {"idle", "stale", "handle", "query", "token", "login", "drop"},
              slot : Slots, calls : 0 .. Calls]

\* What the main thread does next is of its type.
LEMMA MainTypes ==
    /\ Resting \in MainState
    /\ \A i \in Slots : [pc |-> "drop", slot |-> i, calls |-> 1] \in MainState
    /\ \A m \in MainState :
        /\ \A pc \in {"query", "token", "login"} :
              [m EXCEPT !.pc = pc, !.calls = Calls] \in MainState
        /\ m.calls > 0 => [m EXCEPT !.calls = @ - 1] \in MainState
<1>1. 0 \in Slots /\ 0 \in 0 .. Calls /\ 1 \in 0 .. Calls /\ Calls \in 0 .. Calls
  BY SizesAssumption DEF Slots
<1>2. ASSUME NEW m \in MainState, NEW pc \in {"query", "token", "login"}
      PROVE  [m EXCEPT !.pc = pc, !.calls = Calls] \in MainState
  BY <1>1 DEF MainState
<1>3. ASSUME NEW m \in MainState, m.calls > 0
      PROVE  [m EXCEPT !.calls = @ - 1] \in MainState
  <2>1. m.calls \in 0 .. Calls /\ m.calls - 1 \in 0 .. Calls
    BY <1>3, SizesAssumption DEF MainState
  <2>. QED
    BY <2>1 DEF MainState
<1>4. ASSUME NEW i \in Slots
      PROVE  [pc |-> "drop", slot |-> i, calls |-> 1] \in MainState
  BY <1>1 DEF MainState
<1>. QED
  BY <1>1, <1>2, <1>3, <1>4 DEF MainState, Resting

\* Every step keeps the types and the nesting of the frames.
LEMMA OutageTypes ==
    ASSUME OutageInv, [OutageNext]_outageVars
    PROVE  OutageTypeOK' /\ StackIsNested'
<1>1. CASE DatabaseLost
  <2>1. UNCHANGED <<reconnect, isConnected, maintenance, client, count, main, test, stack, ping,
                    crashed, played, stranded>>
    BY <1>1 DEF DatabaseLost
  <2>3. dbUp' \in BOOLEAN /\ alive' \in BOOLEAN /\ lost' \in BOOLEAN
    BY <1>1 DEF DatabaseLost
  <2>2. StackIsNested'
    BY <2>1 DEF OutageInv, StackIsNested
  <2>. QED
    BY <2>1, <2>2, <2>3 DEF OutageInv, OutageTypeOK
<1>2. CASE DatabaseBack
  BY <1>2 DEF OutageInv, OutageTypeOK, StackIsNested, DatabaseBack
<1>3. CASE PingAsks
  BY <1>3 DEF OutageInv, OutageTypeOK, StackIsNested, PingAsks
<1>4. CASE PingAnswered
  BY <1>4 DEF OutageInv, OutageTypeOK, StackIsNested, PingAnswered, Reachable
<1>5. CASE PingSetsConnected
  BY <1>5 DEF OutageInv, OutageTypeOK, StackIsNested, PingSetsConnected
<1>6. CASE PingSetsMaintenance
  BY <1>6 DEF OutageInv, OutageTypeOK, StackIsNested, PingSetsMaintenance
<1>7. CASE Collide
  <2>1. /\ UNCHANGED <<reconnect, dbUp, isConnected, maintenance, client, count, main, stack, played>>
        /\ ping' = "garbled" /\ alive' \in BOOLEAN /\ crashed' \in BOOLEAN
        /\ test' \in {"yes", "no", "working"} /\ lost' = TRUE /\ stranded' = TRUE
    BY <1>7 DEF Collide, OutageInv, OutageTypeOK
  <2>. QED
    BY <2>1 DEF OutageInv, OutageTypeOK, StackIsNested
<1>8. CASE TestStarts
  BY <1>8 DEF OutageInv, OutageTypeOK, StackIsNested, TestStarts
<1>9. CASE TestAnswered
  BY <1>9 DEF OutageInv, OutageTypeOK, StackIsNested, TestAnswered, Reachable
<1>10. CASE TestEnds
  BY <1>10 DEF OutageInv, OutageTypeOK, StackIsNested, TestEnds
<1>11. CASE SetMaintenance
  BY <1>11 DEF OutageInv, OutageTypeOK, StackIsNested, SetMaintenance
<1>12. CASE Refuse
  <2>1. main' \in MainState
    BY <1>12, MainTypes DEF Refuse
  <2>. QED
    BY <1>12, <2>1 DEF OutageInv, OutageTypeOK, StackIsNested, MainState, Refuse
<1>13. CASE StartLogin
  <2>1. main' \in MainState
    BY <1>13, MainTypes DEF StartLogin, OutageInv, OutageTypeOK, MainState
  <2>. QED
    BY <1>13, <2>1 DEF OutageInv, OutageTypeOK, StackIsNested, MainState, StartLogin
<1>14. CASE StartWithToken
  <2>1. main' \in MainState
    BY <1>14, MainTypes DEF StartWithToken, OutageInv, OutageTypeOK, MainState
  <2>. QED
    BY <1>14, <2>1 DEF OutageInv, OutageTypeOK, StackIsNested, MainState, StartWithToken
<1>15. CASE StartQuery
  <2>1. main' \in MainState
    BY <1>15, MainTypes DEF StartQuery, OutageInv, OutageTypeOK, MainState
  <2>. QED
    BY <1>15, <2>1 DEF OutageInv, OutageTypeOK, StackIsNested, MainState, StartQuery
<1>16. CASE CallDone
  <2>1. main \in MainState /\ (main.calls > 1 => main.calls > 0)
    BY DEF OutageInv, OutageTypeOK, MainState
  <2>2. main' = Resting \/ (main.calls > 0 /\ main' = [main EXCEPT !.calls = @ - 1])
    BY <1>16, <2>1 DEF CallDone
  <2>3. main' \in MainState
    BY <2>1, <2>2, MainTypes
  <2>. QED
    BY <1>16, <2>3 DEF OutageInv, OutageTypeOK, StackIsNested, MainState, CallDone
<1>17. CASE LoginCall
  <2>1. main \in MainState /\ (main.calls > 1 => main.calls > 0)
    BY DEF OutageInv, OutageTypeOK, MainState
  <2>2. main' = Resting \/ (main.calls > 0 /\ main' = [main EXCEPT !.calls = @ - 1])
    BY <1>17, <2>1 DEF LoginCall
  <2>3. main' \in MainState
    BY <2>1, <2>2, MainTypes
  <2>4. client' \in [Slots -> {"free", "other", "player"}]
    BY <1>17 DEF LoginCall, OutageInv, OutageTypeOK
  <2>. QED
    BY <1>17, <2>3, <2>4 DEF OutageInv, OutageTypeOK, StackIsNested, MainState, LoginCall
<1>18. CASE CallFails
  <2>1. /\ <<>> \in Seq(Frame) /\ Len(<<>>) <= MaxStack + 1
        /\ \A k \in DOMAIN <<>> : <<>>[k].pos \in Slots
    BY SizesAssumption
  <2>2. /\ maintenance' = TRUE /\ crashed' \in BOOLEAN
        /\ stack' \in Seq(Frame) /\ Len(stack') <= MaxStack + 1
        /\ StackIsNested' \/ (UNCHANGED stack /\ crashed')
    BY <1>18, <2>1, EmergencyTypes DEF CallFails, OutageInv
  <2>3. main \in MainState /\ main.calls > 0
    BY <1>18 DEF CallFails, Running, OutageInv, Testing, OutageTypeOK, MainState
  <2>4. main' \in MainState /\ stranded' \in BOOLEAN
    BY <1>18, <2>3, MainTypes DEF CallFails, OutageInv, OutageTypeOK
  <2>5. UNCHANGED <<reconnect, dbUp, alive, isConnected, client, count, ping, lost, played>>
        /\ test' = "none"
    BY <1>18 DEF CallFails
  <2>. QED
    BY <2>2, <2>4, <2>5 DEF OutageInv, OutageTypeOK, StackIsNested, MainState
<1>19. CASE HandlerResumes
  <2>1. crashed' \in BOOLEAN /\ test' \in {"none", test} /\ main' \in {Resting, main}
    BY <1>19 DEF HandlerResumes, OutageInv, OutageTypeOK
  <2>2. main' \in MainState
    <3>1. main \in MainState /\ Resting \in MainState
      BY MainTypes DEF OutageInv, OutageTypeOK, MainState
    <3>. QED
      BY <2>1, <3>1
  <2>3. UNCHANGED <<reconnect, dbUp, alive, isConnected, maintenance, client, count, stack, ping,
                    lost, played, stranded>>
    BY <1>19 DEF HandlerResumes
  <2>. QED
    BY <2>1, <2>3, <2>2 DEF OutageInv, OutageTypeOK, StackIsNested, MainState
<1>20. CASE DropPlayer
  <2>. DEFINE i == main.slot
              frames == <<[kind |-> "remove", pos |-> i]>>
  <2>1. i \in Slots /\ i \in 0 .. NumClients /\ stack = <<>>
    BY <1>20, SizesAssumption DEF OutageInv, OutageTypeOK, DropPlayer, Running, Slots
  <2>2. /\ UNCHANGED <<reconnect, dbUp, alive, isConnected, ping, lost, played, stranded>>
        /\ main' \in MainState /\ test' = "none"
    BY <1>20, MainTypes DEF DropPlayer
  <2>3. CASE FreeSlot(i) /\ UNCHANGED <<maintenance, stack, crashed>>
    <3>1. client' \in [Slots -> {"free", "other", "player"}] /\ count' \in 0 .. CountMod - 1
      BY <2>1, <2>3, FreeSlotTypes DEF OutageInv
    <3>. QED
      BY <2>2, <2>3, <3>1 DEF OutageInv, OutageTypeOK, StackIsNested, MainState
  <2>4. CASE Emergency(frames) /\ UNCHANGED <<client, count>>
    <3>1. /\ frames \in Seq(Frame) /\ Len(frames) <= MaxStack + 1
          /\ \A k \in DOMAIN frames : frames[k].pos \in Slots
      BY <2>1, SizesAssumption DEF Frame
    <3>. HIDE DEF frames
    <3>2. /\ maintenance' = TRUE /\ crashed' \in BOOLEAN
          /\ stack' \in Seq(Frame) /\ Len(stack') <= MaxStack + 1
          /\ StackIsNested' \/ (UNCHANGED stack /\ crashed')
      BY <2>4, <3>1, EmergencyTypes DEF OutageInv
    <3>. QED
      BY <2>1, <2>2, <2>4, <3>2 DEF OutageInv, OutageTypeOK, StackIsNested, MainState
  <2>. QED
    BY <1>20, <2>3, <2>4 DEF DropPlayer
<1>21. ASSUME NEW i \in Slots, LoopStep(i)
      PROVE  OutageTypeOK' /\ StackIsNested'
  <2>1. Advance /\ InLoop(i) /\ i \in 0 .. NumClients
    BY <1>21, SizesAssumption DEF LoopStep, Slots
  <2>2. stack' \in Seq(Frame) /\ Len(stack') = Len(stack) /\ StackIsNested'
    BY <2>1, AdvanceTypes DEF OutageInv
  <2>3. client' \in [Slots -> {"free", "other", "player"}] /\ count' \in 0 .. CountMod - 1
    BY <1>21, <2>1, FreeSlotTypes DEF LoopStep, OutageInv, OutageTypeOK
  <2>. QED
    BY <1>21, <2>2, <2>3 DEF OutageInv, OutageTypeOK, LoopStep
<1>22. ASSUME NEW i \in Slots, LoopPlayer(i)
      PROVE  OutageTypeOK' /\ StackIsNested'
  <2>1. InLoop(i) /\ i \in 0 .. NumClients
    BY <1>22, SizesAssumption DEF LoopPlayer, Slots
  <2>2. CASE FreeSlot(i) /\ Advance /\ UNCHANGED <<maintenance, crashed>>
    <3>1. stack' \in Seq(Frame) /\ Len(stack') = Len(stack) /\ StackIsNested'
      BY <2>1, <2>2, AdvanceTypes DEF OutageInv
    <3>2. client' \in [Slots -> {"free", "other", "player"}] /\ count' \in 0 .. CountMod - 1
      BY <2>1, <2>2, FreeSlotTypes DEF OutageInv
    <3>. QED
      BY <1>22, <2>2, <3>1, <3>2 DEF OutageInv, OutageTypeOK, LoopPlayer
  <2>3. CASE Emergency(stack) /\ UNCHANGED <<client, count>>
    <3>1. \A k \in DOMAIN stack : stack[k].pos \in Slots
      BY <2>1 DEF OutageInv, OutageTypeOK, StackIsNested, InLoop, Pos, Depth
    <3>2. /\ maintenance' = TRUE /\ crashed' \in BOOLEAN
          /\ stack' \in Seq(Frame) /\ Len(stack') <= MaxStack + 1
          /\ StackIsNested' \/ (UNCHANGED stack /\ crashed')
      BY <2>3, <3>1, EmergencyTypes DEF OutageInv, OutageTypeOK
    <3>. QED
      BY <1>22, <2>3, <3>2 DEF OutageInv, OutageTypeOK, StackIsNested, LoopPlayer
  <2>. QED
    BY <1>22, <2>2, <2>3 DEF LoopPlayer
<1>23. ASSUME NEW i \in Slots, Accept(i)
      PROVE  OutageTypeOK' /\ StackIsNested'
  <2>1. client' \in [Slots -> {"free", "other", "player"}]
    BY <1>23 DEF OutageInv, OutageTypeOK, Accept
  <2>2. count' \in 0 .. CountMod - 1
    BY <1>23, SizesAssumption DEF OutageInv, OutageTypeOK, Accept
  <2>. QED
    BY <1>23, <2>1, <2>2 DEF OutageInv, OutageTypeOK, StackIsNested, Accept
<1>24. ASSUME NEW i \in Slots, Receive(i)
      PROVE  OutageTypeOK' /\ StackIsNested'
  <2>1. main \in MainState
    BY DEF OutageInv, OutageTypeOK, MainState
  <2>2. \E pc \in {"handle", "stale"} : main' = [main EXCEPT !.pc = pc, !.slot = i]
    BY <1>24 DEF Receive
  <2>3. main' \in MainState
    BY <2>1, <2>2 DEF MainState
  <2>. QED
    BY <1>24, <2>3 DEF OutageInv, OutageTypeOK, StackIsNested, MainState, Receive
<1>25. ASSUME NEW i \in Slots, Drop(i)
      PROVE  OutageTypeOK' /\ StackIsNested'
  <2>1. i \in 0 .. NumClients
    BY SizesAssumption DEF Slots
  <2>2. main \in MainState /\ main' \in {main, [pc |-> "drop", slot |-> i, calls |-> 1]}
    BY <1>25 DEF Drop, OutageInv, OutageTypeOK, MainState
  <2>3. main' \in MainState
    BY <2>2, MainTypes
  <2>4. client' \in [Slots -> {"free", "other", "player"}] /\ count' \in 0 .. CountMod - 1
    BY <1>25, <2>1, FreeSlotTypes DEF Drop, OutageInv, OutageTypeOK
  <2>. QED
    BY <1>25, <2>3, <2>4 DEF OutageInv, OutageTypeOK, StackIsNested, Drop, MainState
<1>26. CASE LoopEnds
  BY <1>26, LoopEndsTypes DEF OutageInv
<1>27. CASE UNCHANGED outageVars
  BY <1>27 DEF OutageInv, OutageTypeOK, StackIsNested, outageVars
<1>. QED
  BY <1>1, <1>2, <1>3, <1>4, <1>5, <1>6, <1>7, <1>8, <1>9, <1>10,
     <1>11, <1>12, <1>13, <1>14, <1>15, <1>16, <1>17, <1>18, <1>19, <1>20,
     <1>21, <1>22, <1>23, <1>24, <1>25, <1>26, <1>27
     DEF OutageNext, PingThread, Handler

-----------------------------------------------------------------------------
(* Tests and the clients of handlers *)

\* A test is started by somebody who waits for its end.
LEMMA TestingStep ==
    ASSUME OutageInv, [OutageNext]_outageVars
    PROVE  Testing'
<1>1. CASE DatabaseLost
  BY <1>1 DEF OutageInv, Testing, Pos, Depth, DatabaseLost
<1>2. CASE DatabaseBack
  BY <1>2 DEF OutageInv, Testing, Pos, Depth, DatabaseBack
<1>3. CASE PingAsks
  BY <1>3 DEF OutageInv, Testing, Pos, Depth, PingAsks
<1>4. CASE PingAnswered
  BY <1>4 DEF OutageInv, Testing, Pos, Depth, PingAnswered
<1>5. CASE PingSetsConnected
  BY <1>5 DEF OutageInv, Testing, Pos, Depth, PingSetsConnected
<1>6. CASE PingSetsMaintenance
  BY <1>6 DEF OutageInv, Testing, Pos, Depth, PingSetsMaintenance
<1>7. CASE Collide
  BY <1>7 DEF OutageInv, Testing, Pos, Depth, Collide
<1>8. CASE TestStarts
  <2>1. CASE Running /\ main.pc \in {"query", "token", "login", "drop"} /\ main.calls > 0
    BY <1>8, <2>1 DEF Testing, TestStarts, Running
  <2>2. CASE \E i \in Slots : InLoop(i) /\ client[i] = "player"
    BY <1>8, <2>2 DEF Testing, TestStarts, InLoop, Pos, Depth
  <2>. QED
    BY <1>8, <2>1, <2>2 DEF TestStarts
<1>9. CASE TestAnswered
  BY <1>9 DEF OutageInv, Testing, Pos, Depth, TestAnswered
<1>10. CASE TestEnds
  BY <1>10 DEF OutageInv, Testing, Pos, Depth, TestEnds
<1>11. CASE SetMaintenance
  BY <1>11 DEF OutageInv, Testing, SetMaintenance, Running
<1>12. CASE Refuse
  BY <1>12 DEF OutageInv, Testing, Refuse, Running
<1>13. CASE StartLogin
  BY <1>13 DEF OutageInv, Testing, StartLogin, Running
<1>14. CASE StartWithToken
  BY <1>14 DEF OutageInv, Testing, StartWithToken, Running
<1>15. CASE StartQuery
  BY <1>15 DEF OutageInv, Testing, StartQuery, Running
<1>16. CASE CallDone
  BY <1>16 DEF OutageInv, Testing, Pos, Depth, CallDone
<1>17. CASE LoginCall
  BY <1>17 DEF OutageInv, Testing, Pos, Depth, LoginCall
<1>18. CASE CallFails
  BY <1>18 DEF OutageInv, Testing, Pos, Depth, CallFails
<1>19. CASE HandlerResumes
  BY <1>19 DEF OutageInv, Testing, HandlerResumes, Running
<1>20. CASE DropPlayer
  BY <1>20 DEF OutageInv, Testing, Pos, Depth, DropPlayer
<1>21. ASSUME NEW i \in Slots, LoopStep(i)
      PROVE  Testing'
  <2>1. test = "none"
    BY <1>21 DEF OutageInv, Testing, LoopStep, InLoop
  <2>. QED
    BY <1>21, <2>1 DEF Testing, LoopStep
<1>22. ASSUME NEW i \in Slots, LoopPlayer(i)
      PROVE  Testing'
  BY <1>22 DEF OutageInv, Testing, Pos, Depth, LoopPlayer
<1>23. ASSUME NEW i \in Slots, Accept(i)
      PROVE  Testing'
  BY <1>23 DEF OutageInv, Testing, Accept, Running
<1>24. ASSUME NEW i \in Slots, Receive(i)
      PROVE  Testing'
  BY <1>24 DEF OutageInv, Testing, Receive, Running
<1>25. ASSUME NEW i \in Slots, Drop(i)
      PROVE  Testing'
  BY <1>25 DEF OutageInv, Testing, Drop, Running
<1>26. CASE LoopEnds
  <2>1. test = "none"
    BY <1>26, SizesAssumption DEF OutageInv, Testing, LoopEnds, InLoop, Slots
  <2>. QED
    BY <1>26, <2>1 DEF Testing, LoopEnds
<1>27. CASE UNCHANGED outageVars
  BY <1>27 DEF OutageInv, Testing, Pos, Depth, outageVars
<1>. QED
  BY <1>1, <1>2, <1>3, <1>4, <1>5, <1>6, <1>7, <1>8, <1>9, <1>10,
     <1>11, <1>12, <1>13, <1>14, <1>15, <1>16, <1>17, <1>18, <1>19, <1>20,
     <1>21, <1>22, <1>23, <1>24, <1>25, <1>26, <1>27
     DEF OutageNext, PingThread, Handler

\* A client is taken from a handler by an emergency only.
LEMMA HasClientStep ==
    ASSUME OutageInv, [OutageNext]_outageVars
    PROVE  HasClient'
<1>1. CASE DatabaseLost
  BY <1>1 DEF OutageInv, HasClient, DatabaseLost
<1>2. CASE DatabaseBack
  BY <1>2 DEF OutageInv, HasClient, DatabaseBack
<1>3. CASE PingAsks
  BY <1>3 DEF OutageInv, HasClient, PingAsks
<1>4. CASE PingAnswered
  BY <1>4 DEF OutageInv, HasClient, PingAnswered
<1>5. CASE PingSetsConnected
  BY <1>5 DEF OutageInv, HasClient, PingSetsConnected
<1>6. CASE PingSetsMaintenance
  BY <1>6 DEF OutageInv, HasClient, PingSetsMaintenance
<1>7. CASE Collide
  BY <1>7 DEF OutageInv, HasClient, Collide
<1>8. CASE TestStarts
  BY <1>8 DEF OutageInv, HasClient, TestStarts
<1>9. CASE TestAnswered
  BY <1>9 DEF OutageInv, HasClient, TestAnswered
<1>10. CASE TestEnds
  BY <1>10 DEF OutageInv, HasClient, TestEnds
<1>11. CASE SetMaintenance
  BY <1>11 DEF OutageInv, OutageTypeOK, HasClient, SetMaintenance, Running
<1>12. CASE Refuse
  BY <1>12 DEF OutageInv, HasClient, Refuse, Resting
<1>13. CASE StartLogin
  BY <1>13 DEF OutageInv, OutageTypeOK, HasClient, StartLogin, Running
<1>14. CASE StartWithToken
  BY <1>14 DEF OutageInv, OutageTypeOK, HasClient, StartWithToken, Running
<1>15. CASE StartQuery
  BY <1>15 DEF OutageInv, OutageTypeOK, HasClient, StartQuery, Running
<1>16. CASE CallDone
  BY <1>16 DEF OutageInv, OutageTypeOK, HasClient, CallDone, Resting, Running
<1>17. CASE LoginCall
  BY <1>17 DEF OutageInv, OutageTypeOK, HasClient, LoginCall, Resting
<1>18. CASE CallFails
  BY <1>18 DEF OutageInv, OutageTypeOK, HasClient, CallFails, Running
<1>19. CASE HandlerResumes
  BY <1>19 DEF OutageInv, HasClient, HandlerResumes, Resting
<1>20. CASE DropPlayer
  BY <1>20 DEF OutageInv, HasClient, DropPlayer, Resting
<1>21. ASSUME NEW i \in Slots, LoopStep(i)
      PROVE  HasClient'
  BY <1>21 DEF OutageInv, HasClient, LoopStep, InLoop
<1>22. ASSUME NEW i \in Slots, LoopPlayer(i)
      PROVE  HasClient'
  BY <1>22 DEF OutageInv, HasClient, LoopPlayer, InLoop
<1>23. ASSUME NEW i \in Slots, Accept(i)
      PROVE  HasClient'
  BY <1>23 DEF OutageInv, OutageTypeOK, HasClient, Accept
<1>24. ASSUME NEW i \in Slots, Receive(i)
      PROVE  HasClient'
  BY <1>24 DEF OutageInv, OutageTypeOK, HasClient, Receive, Running, Occupied
<1>25. ASSUME NEW i \in Slots, Drop(i)
      PROVE  HasClient'
  BY <1>25 DEF OutageInv, OutageTypeOK, HasClient, Drop, Running, Occupied
<1>26. CASE LoopEnds
  BY <1>26 DEF OutageInv, HasClient, LoopEnds, InLoop
<1>27. CASE UNCHANGED outageVars
  BY <1>27 DEF OutageInv, HasClient, outageVars
<1>. QED
  BY <1>1, <1>2, <1>3, <1>4, <1>5, <1>6, <1>7, <1>8, <1>9, <1>10,
     <1>11, <1>12, <1>13, <1>14, <1>15, <1>16, <1>17, <1>18, <1>19, <1>20,
     <1>21, <1>22, <1>23, <1>24, <1>25, <1>26, <1>27
     DEF OutageNext, PingThread, Handler

-----------------------------------------------------------------------------
(* Outages, players and the count *)

\* Until the database is lost or a query met by a ping no test fails.
LEMMA NeverLostStep ==
    ASSUME OutageInv, [OutageNext]_outageVars
    PROVE  NeverLost'
<1>1. CASE DatabaseLost
  BY <1>1 DEF OutageInv, NeverLost, DatabaseLost
<1>2. CASE DatabaseBack
  BY <1>2 DEF OutageInv, NeverLost, DatabaseBack
<1>3. CASE PingAsks
  BY <1>3 DEF OutageInv, NeverLost, PingAsks
<1>4. CASE PingAnswered
  BY <1>4 DEF OutageInv, NeverLost, PingAnswered, Reachable
<1>5. CASE PingSetsConnected
  BY <1>5 DEF OutageInv, NeverLost, PingSetsConnected, OutageTypeOK
<1>6. CASE PingSetsMaintenance
  BY <1>6 DEF OutageInv, NeverLost, PingSetsMaintenance, OutageTypeOK
<1>7. CASE Collide
  BY <1>7 DEF OutageInv, NeverLost, Collide
<1>8. CASE TestStarts
  BY <1>8 DEF OutageInv, NeverLost, TestStarts
<1>9. CASE TestAnswered
  BY <1>9 DEF OutageInv, NeverLost, TestAnswered, Reachable
<1>10. CASE TestEnds
  BY <1>10 DEF OutageInv, NeverLost, TestEnds
<1>11. CASE SetMaintenance
  BY <1>11 DEF OutageInv, NeverLost, SetMaintenance
<1>12. CASE Refuse
  BY <1>12 DEF OutageInv, NeverLost, Refuse, Resting
<1>13. CASE StartLogin
  BY <1>13 DEF OutageInv, NeverLost, StartLogin, OutageTypeOK
<1>14. CASE StartWithToken
  BY <1>14 DEF OutageInv, NeverLost, StartWithToken, OutageTypeOK
<1>15. CASE StartQuery
  BY <1>15 DEF OutageInv, NeverLost, StartQuery, OutageTypeOK
<1>16. CASE CallDone
  BY <1>16 DEF OutageInv, NeverLost, CallDone, Resting, OutageTypeOK
<1>17. CASE LoginCall
  BY <1>17 DEF OutageInv, NeverLost, LoginCall, Resting, OutageTypeOK
<1>18. CASE CallFails
  BY <1>18 DEF OutageInv, NeverLost, CallFails
<1>19. CASE HandlerResumes
  BY <1>19 DEF OutageInv, NeverLost, HandlerResumes, Resting, OutageTypeOK
<1>20. CASE DropPlayer
  BY <1>20 DEF OutageInv, NeverLost, DropPlayer, Resting
<1>21. ASSUME NEW i \in Slots, LoopStep(i)
      PROVE  NeverLost'
  BY <1>21 DEF OutageInv, NeverLost, LoopStep, InLoop
<1>22. ASSUME NEW i \in Slots, LoopPlayer(i)
      PROVE  NeverLost'
  BY <1>22 DEF OutageInv, NeverLost, LoopPlayer, InLoop
<1>23. ASSUME NEW i \in Slots, Accept(i)
      PROVE  NeverLost'
  BY <1>23 DEF OutageInv, NeverLost, Accept, OutageTypeOK
<1>24. ASSUME NEW i \in Slots, Receive(i)
      PROVE  NeverLost'
  BY <1>24 DEF OutageInv, NeverLost, Receive, OutageTypeOK, Occupied
<1>25. ASSUME NEW i \in Slots, Drop(i)
      PROVE  NeverLost'
  BY <1>25 DEF OutageInv, NeverLost, Drop, OutageTypeOK, Occupied
<1>26. CASE LoopEnds
  BY <1>26 DEF OutageInv, NeverLost, LoopEnds, InLoop
<1>27. CASE UNCHANGED outageVars
  BY <1>27 DEF OutageInv, NeverLost, outageVars
<1>. QED
  BY <1>1, <1>2, <1>3, <1>4, <1>5, <1>6, <1>7, <1>8, <1>9, <1>10,
     <1>11, <1>12, <1>13, <1>14, <1>15, <1>16, <1>17, <1>18, <1>19, <1>20,
     <1>21, <1>22, <1>23, <1>24, <1>25, <1>26, <1>27
     DEF OutageNext, PingThread, Handler

\* Until somebody plays, an emergency is a loop over clients that are simply removed.
LEMMA NeverPlayedStep ==
    ASSUME OutageInv, [OutageNext]_outageVars
    PROVE  NeverPlayed'
<1>1. CASE DatabaseLost
  BY <1>1 DEF OutageInv, NeverPlayed, DatabaseLost
<1>2. CASE DatabaseBack
  BY <1>2 DEF OutageInv, NeverPlayed, DatabaseBack
<1>3. CASE PingAsks
  BY <1>3 DEF OutageInv, NeverPlayed, PingAsks
<1>4. CASE PingAnswered
  BY <1>4 DEF OutageInv, NeverPlayed, PingAnswered
<1>5. CASE PingSetsConnected
  BY <1>5 DEF OutageInv, NeverPlayed, PingSetsConnected
<1>6. CASE PingSetsMaintenance
  BY <1>6 DEF OutageInv, NeverPlayed, PingSetsMaintenance
<1>7. CASE Collide
  BY <1>7 DEF OutageInv, NeverPlayed, Collide
<1>8. CASE TestStarts
  BY <1>8 DEF OutageInv, NeverPlayed, TestStarts
<1>9. CASE TestAnswered
  BY <1>9 DEF OutageInv, NeverPlayed, TestAnswered
<1>10. CASE TestEnds
  BY <1>10 DEF OutageInv, NeverPlayed, TestEnds
<1>11. CASE SetMaintenance
  BY <1>11 DEF OutageInv, NeverPlayed, SetMaintenance, OutageTypeOK
<1>12. CASE Refuse
  BY <1>12 DEF OutageInv, NeverPlayed, Refuse, Resting
<1>13. CASE StartLogin
  BY <1>13 DEF OutageInv, NeverPlayed, StartLogin
<1>14. CASE StartWithToken
  BY <1>14 DEF OutageInv, NeverPlayed, StartWithToken, OutageTypeOK
<1>15. CASE StartQuery
  BY <1>15 DEF OutageInv, NeverPlayed, StartQuery, OutageTypeOK
<1>16. CASE CallDone
  BY <1>16 DEF OutageInv, NeverPlayed, CallDone, Resting, OutageTypeOK
<1>17. CASE LoginCall
  BY <1>17 DEF OutageInv, NeverPlayed, LoginCall
<1>18. CASE CallFails
  <2>1. Emergency(<<>>) /\ ~(Len(<<>>) > MaxStack)
    BY <1>18, SizesAssumption DEF CallFails
  <2>2. stack' = Append(<<>>, [kind |-> "loop", pos |-> 0]) /\ UNCHANGED crashed
    BY <2>1 DEF Emergency
  <2>. QED
    BY <1>18, <2>2 DEF OutageInv, OutageTypeOK, NeverPlayed, CallFails
<1>19. CASE HandlerResumes
  BY <1>19 DEF OutageInv, NeverPlayed, HasClient, HandlerResumes, Resting, OutageTypeOK
<1>20. CASE DropPlayer
  BY <1>20 DEF OutageInv, NeverPlayed, DropPlayer
<1>21. ASSUME NEW i \in Slots, LoopStep(i)
      PROVE  NeverPlayed'
  <2>1. Len(stack') = Len(stack)
    BY <1>21, AdvanceTypes DEF LoopStep, OutageInv
  <2>. QED
    BY <1>21, <2>1 DEF OutageInv, NeverPlayed, LoopStep, FreeSlot, OutageTypeOK
<1>22. ASSUME NEW i \in Slots, LoopPlayer(i)
      PROVE  NeverPlayed'
  BY <1>22 DEF OutageInv, NeverPlayed, LoopPlayer
<1>23. ASSUME NEW i \in Slots, Accept(i)
      PROVE  NeverPlayed'
  BY <1>23 DEF OutageInv, NeverPlayed, Accept, OutageTypeOK
<1>24. ASSUME NEW i \in Slots, Receive(i)
      PROVE  NeverPlayed'
  BY <1>24 DEF OutageInv, NeverPlayed, Receive, OutageTypeOK
<1>25. ASSUME NEW i \in Slots, Drop(i)
      PROVE  NeverPlayed'
  BY <1>25 DEF OutageInv, NeverPlayed, Drop, FreeSlot, OutageTypeOK
<1>26. CASE LoopEnds
  <2>1. Len(stack) \in Nat /\ (Depth > 1 => ~(Len(stack) <= 1))
    BY DEF Depth, OutageInv, OutageTypeOK
  <2>2. CASE Depth = 1
    BY <1>26, <2>2 DEF OutageInv, NeverPlayed, LoopEnds
  <2>3. CASE Depth > 1
    BY <1>26, <2>1, <2>3 DEF OutageInv, NeverPlayed, LoopEnds
  <2>. QED
    BY <1>26, <2>2, <2>3 DEF LoopEnds
<1>27. CASE UNCHANGED outageVars
  BY <1>27 DEF OutageInv, NeverPlayed, outageVars
<1>. QED
  BY <1>1, <1>2, <1>3, <1>4, <1>5, <1>6, <1>7, <1>8, <1>9, <1>10,
     <1>11, <1>12, <1>13, <1>14, <1>15, <1>16, <1>17, <1>18, <1>19, <1>20,
     <1>21, <1>22, <1>23, <1>24, <1>25, <1>26, <1>27
     DEF OutageNext, PingThread, Handler

\* Either way every client is counted off once.
LEMMA CountedStep ==
    ASSUME OutageInv, [OutageNext]_outageVars
    PROVE  Counted'
<1>1. CASE DatabaseLost
  BY <1>1, CountStays DEF OutageInv, Counted, DatabaseLost
<1>2. CASE DatabaseBack
  BY <1>2, CountStays DEF OutageInv, Counted, DatabaseBack
<1>3. CASE PingAsks
  BY <1>3, CountStays DEF OutageInv, Counted, PingAsks
<1>4. CASE PingAnswered
  BY <1>4, CountStays DEF OutageInv, Counted, PingAnswered
<1>5. CASE PingSetsConnected
  BY <1>5, CountStays DEF OutageInv, Counted, PingSetsConnected
<1>6. CASE PingSetsMaintenance
  BY <1>6, CountStays DEF OutageInv, Counted, PingSetsMaintenance
<1>7. CASE Collide
  BY <1>7, CountStays DEF OutageInv, Counted, Collide
<1>8. CASE TestStarts
  BY <1>8, CountStays DEF OutageInv, Counted, TestStarts
<1>9. CASE TestAnswered
  BY <1>9, CountStays DEF OutageInv, Counted, TestAnswered
<1>10. CASE TestEnds
  BY <1>10, CountStays DEF OutageInv, Counted, TestEnds
<1>11. CASE SetMaintenance
  BY <1>11, CountStays DEF OutageInv, Counted, SetMaintenance
<1>12. CASE Refuse
  BY <1>12, CountStays DEF OutageInv, Counted, Refuse
<1>13. CASE StartLogin
  BY <1>13, CountStays DEF OutageInv, Counted, StartLogin
<1>14. CASE StartWithToken
  BY <1>14, CountStays DEF OutageInv, Counted, StartWithToken
<1>15. CASE StartQuery
  BY <1>15, CountStays DEF OutageInv, Counted, StartQuery
<1>16. CASE CallDone
  BY <1>16, CountStays DEF OutageInv, Counted, CallDone
<1>17. CASE LoginCall
  BY <1>17, CountStays DEF OutageInv, OutageTypeOK, Counted, LoginCall, Occupied
<1>18. CASE CallFails
  BY <1>18, CountStays DEF OutageInv, Counted, CallFails
<1>19. CASE HandlerResumes
  BY <1>19, CountStays DEF OutageInv, Counted, HandlerResumes
<1>20. CASE DropPlayer
  <2>1. main.slot \in Slots /\ client[main.slot] # "free"
    BY <1>20 DEF OutageInv, OutageTypeOK, HasClient, DropPlayer
  <2>2. main.slot \in Occupied
    BY <2>1 DEF Occupied
  <2>. QED
    BY <1>20, <2>1, <2>2, CountsDown, CountStays DEF OutageInv, Counted, DropPlayer
<1>21. ASSUME NEW i \in Slots, LoopStep(i)
      PROVE  Counted'
  BY <1>21, CountsDown, CountStays DEF OutageInv, Counted, LoopStep, Occupied
<1>22. ASSUME NEW i \in Slots, LoopPlayer(i)
      PROVE  Counted'
  BY <1>22, CountsDown, CountStays DEF OutageInv, Counted, LoopPlayer, Occupied
<1>23. ASSUME NEW i \in Slots, Accept(i)
      PROVE  Counted'
  BY <1>23, CountsUp DEF OutageInv, Counted, Accept
<1>24. ASSUME NEW i \in Slots, Receive(i)
      PROVE  Counted'
  BY <1>24, CountStays DEF OutageInv, Counted, Receive
<1>25. ASSUME NEW i \in Slots, Drop(i)
      PROVE  Counted'
  BY <1>25, CountsDown, CountStays DEF OutageInv, Counted, Drop
<1>26. CASE LoopEnds
  <2>1. CASE Depth > 1
    <3>1. lost /\ played
      BY <1>26, <2>1 DEF OutageInv, OutageTypeOK, NeverLost, NeverPlayed, LoopEnds, InLoop, Depth
    <3>. QED
      BY <1>26, <3>1 DEF Counted, LoopEnds
  <2>2. CASE Depth = 1
    BY <1>26, <2>2, CountStays DEF OutageInv, Counted, LoopEnds
  <2>. QED
    BY <1>26, <2>1, <2>2 DEF LoopEnds
<1>27. CASE UNCHANGED outageVars
  BY <1>27, CountStays DEF OutageInv, Counted, outageVars
<1>. QED
  BY <1>1, <1>2, <1>3, <1>4, <1>5, <1>6, <1>7, <1>8, <1>9, <1>10,
     <1>11, <1>12, <1>13, <1>14, <1>15, <1>16, <1>17, <1>18, <1>19, <1>20,
     <1>21, <1>22, <1>23, <1>24, <1>25, <1>26, <1>27
     DEF OutageNext, PingThread, Handler

-----------------------------------------------------------------------------

\* The invariant of the outage holds in every reachable state.
LEMMA OutageInvariant == OutageSpec => []OutageInv
<1>1. OutageInit => OutageInv
  <2>. SUFFICES ASSUME OutageInit PROVE OutageInv
    OBVIOUS
  <2>1. OutageTypeOK
    <3>1. Resting \in MainState
      BY MainTypes
    <3>2. <<>> \in Seq(Frame) /\ Len(<<>>) <= MaxStack + 1 /\ 0 \in 0 .. CountMod - 1
      BY SizesAssumption
    <3>. QED
      BY <3>1, <3>2 DEF OutageInit, OutageTypeOK, MainState
  <2>2. StackIsNested /\ Testing /\ HasClient /\ NeverLost /\ NeverPlayed
    BY DEF OutageInit, StackIsNested, Testing, HasClient, NeverLost, NeverPlayed, Resting
  <2>3. Occupied = {}
    BY DEF OutageInit, Occupied
  <2>4. Counted
    BY <2>3, FS_EmptySet DEF OutageInit, Counted
  <2>. QED
    BY <2>1, <2>2, <2>4 DEF OutageInv
<1>2. OutageInv /\ [OutageNext]_outageVars => OutageInv'
  BY OutageTypes, TestingStep, HasClientStep, NeverLostStep, NeverPlayedStep, CountedStep
     DEF OutageInv
<1>. QED
  BY <1>1, <1>2, PTL DEF OutageSpec

\* Type correctness of the outage: no index leaves the slots, the stack has no
\* more frames than the bound lets it have.
THEOREM OutageTypeCorrect == OutageSpec => []OutageTypeOK
<1>1. OutageInv => OutageTypeOK
  BY DEF OutageInv
<1>. QED
  BY <1>1, OutageInvariant, PTL

\* The server survives, and counts its clients correctly, before the first outage
\* or collision and, unless a handler is stranded, through any number of outages
\* without players: with any number of slots, calls of a handler and room on the
\* stack.
THEOREM SurvivalCorrect == OutageSpec => []Survives
<1>1. OutageInv => Survives
  BY DEF OutageInv, Survives, HealthyServer, SurvivesOutages, NeverLost, NeverPlayed, Counted
<1>. QED
  BY <1>1, OutageInvariant, PTL
=============================================================================
