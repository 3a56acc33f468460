--------------------------- MODULE TrackableServer ---------------------------
(***************************************************************************)
(* MMG_TrackableServer: the list of dedicated game servers that players    *)
(* browse, kept by the messages of the servers themselves, and the        *)
(* disconnect callback that is supposed to take a dead server off it.      *)
(*                                                                         *)
(* A message handler runs on the main thread under the client manager's    *)
(* lock, so each one is a single action.  A list entry is tied to its      *)
(* connection only by a hash of the peer's ip and port; the client manager *)
(* keeps at most one connection per address (OneSlotPerAddress there), so  *)
(* a connection is named here by its address.                              *)
(***************************************************************************)
EXTENDS Naturals, FiniteSets

CONSTANTS
    Addresses,   \* the ip:port pairs game servers connect from
    Hashes,      \* values of m_AddressHash
    AddressHash, \* the hash of each address: two may share one
    GoodKeys,    \* the key sequence numbers VerifyServerKey finds
    BadKeys,     \* non-zero sequence numbers it does not find
    PublicIds,   \* the public ids HashSDBM can yield
    MaxEntries   \* bound: entries ever pushed to the list

NoKey == 0
NoId == 0

ASSUME HashAssumption == AddressHash \in [Addresses -> Hashes]

ASSUME KeysAssumption ==
    /\ GoodKeys \cap BadKeys = {}
    /\ NoKey \notin GoodKeys \cup BadKeys

ASSUME MaxEntriesAssumption == MaxEntries \in Nat

VARIABLES
    link,      \* per address: its connection, as the client manager sees it
    list,      \* m_ServerList; ids grow in the order of the vector
    nextId     \* the id the next entry gets: its place in the vector

vars == <<link, list, nextId>>

Keys == {NoKey} \cup GoodKeys \cup BadKeys

\* timeout: the default, or WIC_HEARTBEAT_NET_TIMEOUT.
Link == [peer : {"none", "up", "gone"}, isServer : BOOLEAN, loggedIn : BOOLEAN,
         timeout : {"default", "heartbeat"}]

\* What SERVERTRACKER_SERVER_STARTED says of a server: whether it runs the
\* current version, is ranked, runs a mod, asks for a password.
StartupVars == [current : BOOLEAN, ranked : BOOLEAN, modded : BOOLEAN,
                passworded : BOOLEAN]

\* The server's m_Cookie is made with the entry and never changes: the entry's
\* id stands for it.
Server == [id : Nat, hash : Hashes, key : Keys, licensed : BOOLEAN,
           publicId : PublicIds \cup {NoId}, info : StartupVars,
           players : {0, 1}]

NoInfo == [current |-> FALSE, ranked |-> FALSE, modded |-> FALSE,
           passworded |-> FALSE]

\* Mutant: Reset's zero is left as the timeout of a connection.
NoLinkZeroTimeout ==
    [peer |-> "none", isServer |-> FALSE, loggedIn |-> FALSE,
     timeout |-> "zero"]

NoLink == [peer |-> "none", isServer |-> FALSE, loggedIn |-> FALSE,
           timeout |-> "default"]

TypeOK ==
    /\ link \in [Addresses -> Link]
    /\ list \subseteq Server
    /\ nextId \in Nat

Init ==
    /\ link = [a \in Addresses |-> NoLink]
    /\ list = {}
    /\ nextId = 1

-----------------------------------------------------------------------------
(* Helpers *)

Connected(a) == link[a].peer # "none"

Matching(h) == {s \in list : s.hash = h}

\* std::find_if: the first entry with the hash of the client's ip and port.
IsFirst(s, h) == s \in Matching(h) /\ \A t \in Matching(h) : s.id <= t.id
FindServer(a) == {s \in list : IsFirst(s, AddressHash[a])}

\* Mutant: the predicate of remove_if is inverted.
WithoutOthers(a) == Matching(AddressHash[a])

\* std::remove_if: every entry with that hash.
WithoutServer(a) == list \ Matching(AddressHash[a])

\* Only a started server has a game version a player's filter can ask for.
Listed(s) == s.info.current

-----------------------------------------------------------------------------
(* Connections *)

Connect(a) ==
    /\ ~Connected(a)
    /\ link' = [link EXCEPT ![a] = [NoLink EXCEPT !.peer = "up"]]
    /\ UNCHANGED <<list, nextId>>

PeerGone(a) ==
    /\ link[a].peer = "up"
    /\ link' = [link EXCEPT ![a].peer = "gone"]
    /\ UNCHANGED <<list, nextId>>

\* Mutant: the disconnect callback does not tell the list.
DisconnectUntold(a) ==
    /\ Connected(a)
    /\ link' = [link EXCEPT ![a] = NoLink]
    /\ UNCHANGED <<list, nextId>>

\* RemoveClient, for a dead socket or a timeout: the disconnect callback tells
\* the list only about a client that has started a server.
DisconnectReceived(a) ==
    /\ Connected(a)
    /\ list' = IF link[a].isServer THEN WithoutServer(a) ELSE list
    /\ link' = [link EXCEPT ![a] = NoLink]
    /\ UNCHANGED nextId

-----------------------------------------------------------------------------
(* Messages of a game server *)

NewServer(a, key, ok) ==
    [id |-> nextId, hash |-> AddressHash[a], key |-> key, licensed |-> ok,
     publicId |-> NoId, info |-> NoInfo, players |-> 0]

\* SERVERTRACKER_SERVER_AUTH_DS_CONNECTION: the entry is appended whether or
\* not the key is known and whether or not the address is already listed.
AuthServer(a, key) ==
    /\ Connected(a)
    /\ nextId <= MaxEntries
    /\ list' = list \cup {NewServer(a, key, key \in GoodKeys)}
    /\ nextId' = nextId + 1
    /\ UNCHANGED link

\* The same while the database is lost: VerifyServerKey disconnects everyone,
\* this client too, and only then is its entry appended.
AuthServerInOutage(a, key) ==
    /\ Connected(a)
    /\ key # NoKey
    /\ nextId <= MaxEntries
    /\ LET dropped == {AddressHash[b] : b \in {c \in Addresses : link[c].isServer}}
       IN list' = {s \in list : s.hash \notin dropped}
                     \cup {NewServer(a, key, FALSE)}
    /\ nextId' = nextId + 1
    /\ link' = [b \in Addresses |-> NoLink]

\* A handler that returns false: any other message from an address FindServer
\* does not know, malformed data, an unknown delimiter, a heartbeat with another
\* cookie, an answer that cannot be sent.  The connection and the list stay.
Rejected(a) ==
    /\ Connected(a)
    /\ UNCHANGED vars

\* MESSAGING_DS_PING with another id than the entry's: the entries go, the
\* connection and its login stay.
PingMismatch(a, id) ==
    /\ Connected(a)
    /\ \E s \in FindServer(a) : id # s.publicId
    /\ list' = WithoutServer(a)
    /\ UNCHANGED <<link, nextId>>

CanConnect(s, v) ==
    /\ v.current
    /\ v.ranked => ~v.modded /\ ~v.passworded /\ s.licensed

\* Mutant: the client is logged in but not marked as a server.
StartedUnmarked(a, v, id) ==
    /\ Connected(a)
    /\ \E s \in FindServer(a) :
         /\ CanConnect(s, v)
         /\ list' = (list \ {s}) \cup {[s EXCEPT !.publicId = id, !.info = v]}
    /\ link' = [link EXCEPT ![a].loggedIn = TRUE, ![a].timeout = "heartbeat"]
    /\ UNCHANGED <<nextId>>

\* SERVERTRACKER_SERVER_STARTED, accepted by ConnectServer.
Started(a, v, id) ==
    /\ Connected(a)
    /\ \E s \in FindServer(a) :
         /\ CanConnect(s, v)
         /\ list' = (list \ {s}) \cup {[s EXCEPT !.publicId = id, !.info = v]}
    /\ link' = [link EXCEPT ![a].isServer = TRUE, ![a].loggedIn = TRUE,
                            ![a].timeout = "heartbeat"]
    /\ UNCHANGED <<nextId>>

StartRefused(a, v) ==
    /\ Connected(a)
    /\ \E s \in FindServer(a) : ~CanConnect(s, v)
    /\ list' = WithoutServer(a)
    /\ UNCHANGED <<link, nextId>>

\* SERVERTRACKER_SERVER_STATUS: a heartbeat with the cookie of the entry.
UpdateServer(a, cookie, players) ==
    /\ Connected(a)
    /\ \E s \in FindServer(a) :
         /\ cookie = s.id
         /\ list' = (list \ {s}) \cup {[s EXCEPT !.players = players]}
    /\ UNCHANGED <<link, nextId>>

-----------------------------------------------------------------------------

HandleMessage(a) ==
    \/ \E key \in Keys : AuthServer(a, key) \/ AuthServerInOutage(a, key)
    \/ Rejected(a)
    \/ \E id \in PublicIds \cup {NoId} : PingMismatch(a, id)
    \/ \E v \in StartupVars, id \in PublicIds : Started(a, v, id)
    \/ \E v \in StartupVars : StartRefused(a, v)
    \/ \E cookie \in 1 .. MaxEntries, players \in {0, 1} :
          UpdateServer(a, cookie, players)

Next ==
    \E a \in Addresses :
       Connect(a) \/ PeerGone(a) \/ DisconnectReceived(a) \/ HandleMessage(a)

Spec == Init /\ [][Next]_vars

\* The main thread notices a dead socket or a timeout (GoneIsClosed and
\* OverdueIsDropped of ClientManager); nobody has to send anything.
FairSpec ==
    /\ Spec
    /\ \A a \in Addresses :
         WF_vars(link[a].peer = "gone" /\ DisconnectReceived(a))

-----------------------------------------------------------------------------
(* Safety *)

\* What players are shown is connected: whatever the order of authentications,
\* starts, refusals and drops, a listed server's hash is that of a connection
\* whose own disconnect will take the entry off the list.  The entry does not
\* point to its connection, and an entry that is only authenticated outlives
\* the connection that made it.
ListedIsConnected ==
    \A s \in list : Listed(s) =>
       \E a \in Addresses :
          AddressHash[a] = s.hash /\ Connected(a) /\ link[a].isServer

\* A server appears once, though a connection may authenticate repeatedly and
\* later entries pile up behind the first.
OneListedPerHash ==
    \A s, t \in list : Listed(s) /\ Listed(t) /\ s.hash = t.hash => s = t

\* A listed ranked server has a license of its own, and neither a mod nor a
\* password, after any number of restarts under other startup variables and any
\* key a later entry of the same address was given.
RankedIsLicensed ==
    \A s \in list : Listed(s) /\ s.info.ranked =>
       s.key \in GoodKeys /\ ~s.info.modded /\ ~s.info.passworded

\* The list players see is sound: its servers are connected, shown once each,
\* and ranked only with a license.
ListIsSound == ListedIsConnected /\ OneListedPerHash /\ RankedIsLicensed

\* A listed server is only taken off by its own address (its disconnect, a
\* wrong ping, a refused restart) or by the loss of the database, when all are.
\* Of addresses that share a hash, it may be the other one.
DelistedByOwner ==
    [][\A s \in list :
          Listed(s) /\ (\A t \in list' : t.id # s.id) =>
             \/ \E a \in Addresses : /\ AddressHash[a] = s.hash
                                     /\ \A b \in Addresses \ {a} : link'[b] = link[b]
             \/ \A b \in Addresses : ~Connected(b)']_vars

-----------------------------------------------------------------------------
(* Liveness *)

\* A listed server whose machine has died is eventually off the list.
DeadIsDelisted ==
    \A a \in Addresses :
       (link[a].peer = "gone") ~> (\A s \in Matching(AddressHash[a]) : ~Listed(s))

=============================================================================
