---------------------------- MODULE ClientManager ----------------------------
(***************************************************************************)
(* SvClientManager, MN_TcpServer's accept thread and the connection        *)
(* callback of LiveAccount.cpp: the fixed array of client slots, the two   *)
(* threads that share it under one lock, and the inactivity timeout kept   *)
(* with an unsigned millisecond clock that wraps around.                   *)
(*                                                                         *)
(* The accept thread looks an address up (FindClient) and adds the client  *)
(* (AddClient) under two separate acquisitions of the lock; the main       *)
(* thread holds the lock while it visits every slot, then sleeps.  Each    *)
(* action below is one critical section, or one slot of the scan.          *)
(*                                                                         *)
(* The database is healthy here: what its loss does to the slots is the    *)
(* subject of DatabaseOutage.                                              *)
(***************************************************************************)
EXTENDS Integers, FiniteSets

CONSTANTS
    Sockets,           \* the connections peers make, each used once
    Addresses,         \* the ip:port pairs they come from
    None,              \* no socket
    NumClients,        \* m_ClientMaxCount (WIC_SERVER_MAX_CLIENTS)
    DefaultTimeout,    \* WIC_DEFAULT_NET_TIMEOUT
    LoggedInTimeout,   \* WIC_LOGGEDIN_NET_TIMEOUT
    HeartbeatTimeout,  \* WIC_HEARTBEAT_NET_TIMEOUT
    ClockMod,          \* 2^32: the clock is an unsigned 32-bit number of ms
    MaxScanTicks       \* bound: clock ticks from one start of a scan to the next

Timeouts == {DefaultTimeout, LoggedInTimeout, HeartbeatTimeout}

ASSUME ClientsAssumption == NumClients \in Nat \ {0}

ASSUME SocketsAssumption == None \notin Sockets

\* A scan of the array is far quicker than the wrap of the clock, so a slot is
\* looked at again before its age can come round to zero.
ASSUME ClockAssumption ==
    /\ ClockMod \in Nat \ {0}
    /\ MaxScanTicks \in Nat
    /\ \A t \in Timeouts : t \in Nat \ {0} /\ t + 2 * MaxScanTicks < ClockMod

VARIABLES
    conn,     \* per socket: the peer's address and state, unread data, our handle
    slot,     \* m_Clients: the client slots
    count,    \* m_ClientCount
    accept,   \* the accept thread: what it is about to do, with which socket
    scan,     \* the main thread's slot index; NumClients: asleep, lock released
    now,      \* MI_Time::GetSystemTime()
    ticks,    \* clock ticks since the scan began (bounds Tick, not in the code)
    idle      \* history: how long each slot really has been inactive

vars == <<conn, slot, count, accept, scan, now, ticks, idle>>

Slots == 0 .. NumClients - 1
Clock == 0 .. ClockMod - 1

Connection == [addr : Addresses,
               peer : {"none", "up", "gone"},
               data : BOOLEAN,
               handle : {"none", "open", "closed"}]

Client == [valid : BOOLEAN, sock : Sockets \cup {None}, lastActive : Clock,
           timeout : Timeouts \cup {0}, loggedIn : BOOLEAN]

\* The values SvClient::Reset leaves in a slot.
FreeSlot == [valid |-> FALSE, sock |-> None, lastActive |-> 0, timeout |-> 0,
             loggedIn |-> FALSE]

Idle == [pc |-> "accept", sock |-> None]

TypeOK ==
    /\ conn \in [Sockets -> Connection]
    /\ slot \in [Slots -> Client]
    /\ count \in Nat
    /\ accept \in [pc : {"accept", "find", "add"}, sock : Sockets \cup {None}]
    /\ scan \in 0 .. NumClients
    /\ now \in Clock
    /\ ticks \in 0 .. MaxScanTicks
    /\ idle \in [Slots -> Nat]

Init ==
    /\ conn \in [Sockets -> [addr : Addresses, peer : {"none"}, data : {FALSE},
                             handle : {"none"}]]
    /\ slot = [i \in Slots |-> FreeSlot]
    /\ count = 0
    /\ accept = Idle
    /\ scan = NumClients
    /\ now \in Clock
    /\ ticks = 0
    /\ idle = [i \in Slots |-> 0]

-----------------------------------------------------------------------------
(* Helpers *)

ValidSlots == {i \in Slots : slot[i].valid}

\* The address FindClient compares: the one the slot's connection came from.
AddrOf(i) == conn[slot[i].sock].addr

\* Mutant: the deadline is compared, which the wrap of the clock breaks.
BeforeDeadline(i) == now < (slot[i].lastActive + slot[i].timeout) % ClockMod

\* Mutant: a client that is logged in does not time out.
IsActiveOrLoggedIn(i) ==
    slot[i].loggedIn \/ (now - slot[i].lastActive) % ClockMod < slot[i].timeout

\* (GetSystemTime() - m_LastActiveTime) < m_TimeoutTime, on unsigned integers.
IsActive(i) == (now - slot[i].lastActive) % ClockMod < slot[i].timeout

FindClient(a) == {i \in ValidSlots : AddrOf(i) = a}

LockFree == scan = NumClients

-----------------------------------------------------------------------------
(* The peers and the clock *)

\* TCP keeps one live connection per address; a peer whose connection is gone
\* may come back from the same address before the server has noticed.
PeerConnect(s) ==
    /\ conn[s].peer = "none"
    /\ \A t \in Sockets : conn[t].peer = "up" => conn[t].addr # conn[s].addr
    /\ conn' = [conn EXCEPT ![s].peer = "up"]
    /\ UNCHANGED <<slot, count, accept, scan, now, ticks, idle>>

PeerSend(s) ==
    /\ conn[s].peer = "up"
    /\ conn[s].handle # "closed"
    /\ conn' = [conn EXCEPT ![s].data = TRUE]
    /\ UNCHANGED <<slot, count, accept, scan, now, ticks, idle>>

PeerLeave(s) ==
    /\ conn[s].peer = "up"
    /\ conn' = [conn EXCEPT ![s].peer = "gone"]
    /\ UNCHANGED <<slot, count, accept, scan, now, ticks, idle>>

\* Mutant: the clock does not wrap around.
TickUnwrapped ==
    /\ ticks < MaxScanTicks
    /\ now' = now + 1
    /\ ticks' = ticks + 1
    /\ idle' = [i \in Slots |-> IF slot[i].valid THEN idle[i] + 1 ELSE 0]
    /\ UNCHANGED <<conn, slot, count, accept, scan>>

Tick ==
    /\ ticks < MaxScanTicks
    /\ now' = (now + 1) % ClockMod
    /\ ticks' = ticks + 1
    /\ idle' = [i \in Slots |-> IF slot[i].valid THEN idle[i] + 1 ELSE 0]
    /\ UNCHANGED <<conn, slot, count, accept, scan>>

-----------------------------------------------------------------------------
(* The accept thread *)

Accept(s) ==
    /\ accept.pc = "accept"
    /\ conn[s].peer # "none"
    /\ conn[s].handle = "none"
    /\ conn' = [conn EXCEPT ![s].handle = "open"]
    /\ accept' = [pc |-> "find", sock |-> s]
    /\ UNCHANGED <<slot, count, scan, now, ticks, idle>>

\* Mutant: the accept thread waits for the address to become free.
AcceptKnownWaits ==
    /\ accept.pc = "find"
    /\ LockFree
    /\ FindClient(conn[accept.sock].addr) # {}
    /\ UNCHANGED vars

\* An address that is still registered: the callback returns and the new socket
\* is neither stored nor closed.
AcceptKnown ==
    /\ accept.pc = "find"
    /\ LockFree
    /\ FindClient(conn[accept.sock].addr) # {}
    /\ accept' = Idle
    /\ UNCHANGED <<conn, slot, count, scan, now, ticks, idle>>

AcceptUnknown ==
    /\ accept.pc = "find"
    /\ LockFree
    /\ FindClient(conn[accept.sock].addr) = {}
    /\ accept' = [accept EXCEPT !.pc = "add"]
    /\ UNCHANGED <<conn, slot, count, scan, now, ticks, idle>>

\* AddClient: the first slot that is not in use.
AddClient(i) ==
    /\ accept.pc = "add"
    /\ LockFree
    /\ i \notin ValidSlots
    /\ \A j \in Slots : j < i => j \in ValidSlots
    /\ slot' = [slot EXCEPT ![i] =
                  [valid |-> TRUE, sock |-> accept.sock, lastActive |-> now,
                   timeout |-> DefaultTimeout, loggedIn |-> FALSE]]
    /\ count' = count + 1
    /\ idle' = [idle EXCEPT ![i] = 0]
    /\ accept' = Idle
    /\ UNCHANGED <<conn, scan, now, ticks>>

\* Mutant: the first slot is given to the new client.
TableFullEvicts ==
    /\ accept.pc = "add"
    /\ LockFree
    /\ ValidSlots = Slots
    /\ slot' = [slot EXCEPT ![0].sock = accept.sock, ![0].lastActive = now]
    /\ accept' = Idle
    /\ UNCHANGED <<conn, count, scan, now, ticks, idle>>

\* All slots in use: the error is logged, the socket stays open.
TableFull ==
    /\ accept.pc = "add"
    /\ LockFree
    /\ ValidSlots = Slots
    /\ accept' = Idle
    /\ UNCHANGED <<conn, slot, count, scan, now, ticks, idle>>

-----------------------------------------------------------------------------
(* The main thread *)

BeginScan ==
    /\ scan = NumClients
    /\ scan' = 0
    /\ ticks' = 0
    /\ UNCHANGED <<conn, slot, count, accept, now, idle>>

\* The scan stands at slot i; every visit moves it on.
Visit(i) ==
    /\ i = scan
    /\ scan' = scan + 1

\* Mutant: the count stays.
RemoveUncounted(i) ==
    /\ conn' = [conn EXCEPT ![slot[i].sock].handle = "closed"]
    /\ slot' = [slot EXCEPT ![i] = FreeSlot]
    /\ idle' = [idle EXCEPT ![i] = 0]
    /\ UNCHANGED <<count, accept, now, ticks>>

\* RemoveClient: the count goes down, Reset closes the socket and clears the slot.
RemoveClient(i) ==
    /\ conn' = [conn EXCEPT ![slot[i].sock].handle = "closed"]
    /\ count' = count - 1
    /\ slot' = [slot EXCEPT ![i] = FreeSlot]
    /\ idle' = [idle EXCEPT ![i] = 0]
    /\ UNCHANGED <<accept, now, ticks>>

SkipFreeSlot(i) ==
    /\ Visit(i)
    /\ ~slot[i].valid
    /\ UNCHANGED <<conn, slot, count, accept, now, ticks, idle>>

DropInactive(i) ==
    /\ Visit(i)
    /\ slot[i].valid
    /\ ~IsActive(i)
    /\ RemoveClient(i)

\* Mutant: the error is not acted upon.
KeepSocketError(i) ==
    /\ Visit(i)
    /\ slot[i].valid
    /\ IsActive(i)
    /\ conn[slot[i].sock].peer = "gone"
    /\ UNCHANGED <<conn, slot, count, accept, now, ticks, idle>>

\* select() fails, or recv() reports an error or the end of the stream.
DropSocketError(i) ==
    /\ Visit(i)
    /\ slot[i].valid
    /\ IsActive(i)
    /\ conn[slot[i].sock].peer = "gone"
    /\ RemoveClient(i)

NothingToRead(i) ==
    /\ Visit(i)
    /\ slot[i].valid
    /\ IsActive(i)
    /\ conn[slot[i].sock].peer = "up"
    /\ ~conn[slot[i].sock].data
    /\ UNCHANGED <<conn, slot, count, accept, now, ticks, idle>>

\* Data that is no message leaves the client untouched: its timer is only
\* restarted in LiveAccount_ConsumeMessage.
ReadGarbage(i) ==
    /\ Visit(i)
    /\ slot[i].valid
    /\ IsActive(i)
    /\ conn[slot[i].sock].data
    /\ conn' = [conn EXCEPT ![slot[i].sock].data = FALSE]
    /\ UNCHANGED <<slot, count, accept, now, ticks, idle>>

\* A message restarts the timer; the handlers of a login and of a started game
\* server also mark the client as logged in and give it another timeout.
ReadMessage(i) ==
    /\ Visit(i)
    /\ slot[i].valid
    /\ IsActive(i)
    /\ conn[slot[i].sock].data
    /\ conn' = [conn EXCEPT ![slot[i].sock].data = FALSE]
    /\ \/ slot' = [slot EXCEPT ![i].lastActive = now]
       \/ \E t \in {LoggedInTimeout, HeartbeatTimeout} :
            slot' = [slot EXCEPT ![i].lastActive = now, ![i].timeout = t,
                                 ![i].loggedIn = TRUE]
    /\ idle' = [idle EXCEPT ![i] = 0]
    /\ UNCHANGED <<count, accept, now, ticks>>

-----------------------------------------------------------------------------

AcceptThread ==
    \/ \E s \in Sockets : Accept(s)
    \/ AcceptKnown
    \/ AcceptUnknown
    \/ \E i \in Slots : AddClient(i)
    \/ TableFull

VisitSlot(i) ==
    \/ SkipFreeSlot(i)
    \/ DropInactive(i)
    \/ DropSocketError(i)
    \/ NothingToRead(i)
    \/ ReadGarbage(i)
    \/ ReadMessage(i)

MainThread ==
    \/ BeginScan
    \/ \E i \in Slots : VisitSlot(i)

Environment ==
    \/ \E s \in Sockets : PeerConnect(s) \/ PeerSend(s) \/ PeerLeave(s)
    \/ Tick

Next == AcceptThread \/ MainThread \/ Environment

Spec == Init /\ [][Next]_vars

(***************************************************************************)
(* Fairness.  The main thread never blocks: select() waits 10 ms, and it   *)
(* sleeps 10 ms between scans.  The accept thread needs the lock the main  *)
(* thread holds most of the time; a critical section is not a fair lock,   *)
(* but the main thread releases it before every sleep, so the waiter gets  *)
(* it again and again: strong fairness.  Peers owe nothing.                *)
(***************************************************************************)
FairSpec ==
    /\ Spec
    /\ WF_vars(MainThread)
    /\ SF_vars(AcceptThread)

-----------------------------------------------------------------------------
(* Safety *)

\* The number main() shows in the window title, and the only measure of load
\* the program has, is the number of slots in use: a client is never removed
\* twice and never added without being counted.
CountMatches == count = Cardinality(ValidSlots)

\* FindClient and AddClient run under two acquisitions of the lock, and peers
\* come back from an address whose old connection has not been noticed dead:
\* still no two slots are registered for one address.
OneSlotPerAddress ==
    \A i, j \in ValidSlots : AddrOf(i) = AddrOf(j) => i = j

\* Every slot in use owns an open socket that no other slot owns and that the
\* accept thread is not about to store: no socket is closed under its owner,
\* and none is closed twice.
SocketsOwnedOnce ==
    /\ \A i \in ValidSlots : /\ slot[i].sock \in Sockets
                              /\ conn[slot[i].sock].handle = "open"
                              /\ slot[i].sock # accept.sock
    /\ \A i, j \in ValidSlots : slot[i].sock = slot[j].sock => i = j

\* A slot that is not in use keeps nothing of its last client: the next one
\* does not inherit a login or a timeout.
FreeSlotsReset == \A i \in Slots \ ValidSlots : slot[i] = FreeSlot

\* The slot table is consistent: counted, one slot for an address, one owner for
\* a socket, and nothing left behind in free slots.
SlotsConsistent ==
    CountMatches /\ OneSlotPerAddress /\ SocketsOwnedOnce /\ FreeSlotsReset

\* A client is only dropped when its peer is gone or when it has really been
\* silent for its whole timeout, however often the clock has wrapped around.
NoLiveClientDropped ==
    [][\A i \in Slots :
          slot[i].valid /\ ~slot'[i].valid =>
             \/ conn[slot[i].sock].peer = "gone"
             \/ idle[i] >= slot[i].timeout]_vars

-----------------------------------------------------------------------------
(* Liveness *)

\* A registered connection whose peer has left is eventually closed.
GoneIsClosed ==
    \A s \in Sockets :
       (/\ conn[s].peer = "gone"
        /\ \E i \in Slots : slot[i].sock = s) ~> (conn[s].handle = "closed")

\* A client that has used up its timeout is eventually dropped, even one that
\* starts to talk again: the timer is looked at before the socket is read.
OverdueIsDropped ==
    \A s \in Sockets :
       (\E i \in Slots : slot[i].sock = s /\ idle[i] >= slot[i].timeout)
          ~> (conn[s].handle = "closed")

\* The accept thread always gets back to accepting, whatever the scan does.
AcceptReturns == (accept.pc # "accept") ~> (accept.pc = "accept")

-----------------------------------------------------------------------------
(* The connection table this implements *)

Table == {[sock |-> slot[i].sock, addr |-> AddrOf(i)] : i \in ValidSlots}
Closed == {s \in Sockets : conn[s].handle = "closed"}

CT == INSTANCE ConnectionTable WITH Capacity <- NumClients,
                                    table <- Table, closed <- Closed

TableSpec == CT!TableSpec
=============================================================================
