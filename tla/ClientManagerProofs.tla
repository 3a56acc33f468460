------------------------- MODULE ClientManagerProofs -------------------------
(***************************************************************************)
(* Theorems about ClientManager, for any number of slots, sockets and      *)
(* addresses, any timeouts and any width of the clock.                     *)
(*                                                                         *)
(* The invariants are not inductive one by one: that no two slots share an *)
(* address needs that the address the accept thread is about to add is     *)
(* still unknown, that no socket is owned twice needs the socket the       *)
(* thread holds, and both need the free slots to be clean.  IInv adds      *)
(* these, and for the clock that a slot never looks older than it is.      *)
(***************************************************************************)
EXTENDS ClientManager, FiniteSetTheorems, TLAPS

\* The accept thread holds an open socket exactly when it is between two calls.
AcceptOwns ==
    IF accept.pc = "accept"
    THEN accept = Idle
    ELSE accept.sock \in Sockets /\ conn[accept.sock].handle = "open"

\* The answer of FindClient is still right when AddClient is called: between
\* the two the main thread may only remove clients.
AddIsUnknown ==
    accept.pc = "add" => \A i \in ValidSlots : AddrOf(i) # conn[accept.sock].addr

\* A slot never looks older than it is.
AgeIsReal ==
    \A i \in ValidSlots : (now - slot[i].lastActive) % ClockMod <= idle[i]

IInv ==
    /\ TypeOK
    /\ CountMatches
    /\ OneSlotPerAddress
    /\ SocketsOwnedOnce
    /\ FreeSlotsReset
    /\ AcceptOwns
    /\ AddIsUnknown
    /\ AgeIsReal

-----------------------------------------------------------------------------
(* Lemmas *)

\* The slots in use are finitely many, so that they can be counted.
LEMMA ValidSlotsFinite == IsFiniteSet(ValidSlots)
<1>1. IsFiniteSet(Slots)
  BY ClientsAssumption, FS_Interval DEF Slots
<1>. QED
  BY <1>1, FS_Subset DEF ValidSlots

\* The remainder of a number less than one modulus away from zero.
LEMMA ModSmall ==
  ASSUME NEW M \in Nat \ {0}, NEW a \in Int, -M < a, a < M
  PROVE  a % M = IF a >= 0 THEN a ELSE a + M
<1>1. CASE a >= 0
  BY <1>1
<1>2. CASE a < 0
  BY <1>2
<1>. QED
  BY <1>1, <1>2

\* A tick makes a time stamp look at most one tick older, also when the clock
\* wraps around.
LEMMA TickAge ==
  ASSUME NEW t \in Clock, NEW u \in Clock
  PROVE  /\ (t + 1) % ClockMod \in Clock
         /\ (((t + 1) % ClockMod) - u) % ClockMod <= ((t - u) % ClockMod) + 1
<1>. DEFINE v == (t + 1) % ClockMod
<1>1. ClockMod \in Nat \ {0} /\ t \in 0 .. ClockMod - 1 /\ u \in 0 .. ClockMod - 1
  BY ClockAssumption DEF Clock
<1>2. v = IF t + 1 < ClockMod THEN t + 1 ELSE 0
  BY <1>1
<1>3. v \in 0 .. ClockMod - 1
  BY <1>1, <1>2
<1>. HIDE DEF v
<1>4. t - u \in Int /\ -ClockMod < t - u /\ t - u < ClockMod
  BY <1>1
<1>5. (t - u) % ClockMod = IF t - u >= 0 THEN t - u ELSE t - u + ClockMod
  BY <1>1, <1>4, ModSmall
<1>6. v - u \in Int /\ -ClockMod < v - u /\ v - u < ClockMod
  BY <1>1, <1>3
<1>7. (v - u) % ClockMod = IF v - u >= 0 THEN v - u ELSE v - u + ClockMod
  BY <1>1, <1>6, ModSmall
<1>8. (v - u) % ClockMod <= ((t - u) % ClockMod) + 1
  BY <1>1, <1>2, <1>3, <1>5, <1>7
<1>. QED
  BY <1>3, <1>8 DEF v, Clock

\* A time stamp just taken is zero ticks old.
LEMMA FreshAge == ASSUME NEW t \in Clock PROVE (t - t) % ClockMod = 0
<1>1. t - t = 0
  BY DEF Clock
<1>. QED
  BY <1>1, ModSmall, ClockAssumption DEF Clock

-----------------------------------------------------------------------------
(* The initial states *)

LEMMA FreeSlotType == FreeSlot \in Client
BY ClockAssumption DEF FreeSlot, Client, Clock

LEMMA InitIInv == Init => IInv
<1>. SUFFICES ASSUME Init PROVE IInv
  OBVIOUS
<1>. USE DEF Init
<1>1. ValidSlots = {}
  BY DEF ValidSlots, FreeSlot
<1>2. TypeOK
  <2>1. conn \in [Sockets -> Connection]
    BY DEF Connection
  <2>2. slot \in [Slots -> Client]
    BY FreeSlotType
  <2>3. scan \in 0 .. NumClients /\ ticks \in 0 .. MaxScanTicks
    BY ClientsAssumption, ClockAssumption
  <2>. QED
    BY <2>1, <2>2, <2>3 DEF TypeOK, Idle
<1>3. CountMatches
  BY <1>1, FS_EmptySet DEF CountMatches
<1>4. FreeSlotsReset
  BY DEF FreeSlotsReset
<1>5. AcceptOwns /\ AddIsUnknown
  BY DEF AcceptOwns, AddIsUnknown, Idle
<1>. QED
  BY <1>1, <1>2, <1>3, <1>4, <1>5
     DEF IInv, OneSlotPerAddress, SocketsOwnedOnce, AgeIsReal

-----------------------------------------------------------------------------
(* The steps *)

\* Data that comes or is read, and a peer that comes or goes, leave the address
\* and the handle of the connection alone.
LEMMA ConnectionUpdate ==
  ASSUME conn \in [Sockets -> Connection], NEW s \in Sockets,
         \/ \E d \in BOOLEAN : conn' = [conn EXCEPT ![s].data = d]
         \/ \E p \in {"up", "gone"} : conn' = [conn EXCEPT ![s].peer = p]
  PROVE  /\ conn' \in [Sockets -> Connection]
         /\ \A t \in Sockets : conn'[t].addr = conn[t].addr /\ conn'[t].handle = conn[t].handle
<1>1. PICK c \in Connection : /\ conn' = [conn EXCEPT ![s] = c]
                              /\ c.addr = conn[s].addr /\ c.handle = conn[s].handle
  <2>0. conn[s] \in Connection
    OBVIOUS
  <2>1. ASSUME NEW d \in BOOLEAN, conn' = [conn EXCEPT ![s].data = d]
        PROVE  \E c \in Connection : /\ conn' = [conn EXCEPT ![s] = c]
                                     /\ c.addr = conn[s].addr /\ c.handle = conn[s].handle
    <3>. DEFINE c == [conn[s] EXCEPT !.data = d]
    <3>1. c \in Connection /\ c.addr = conn[s].addr /\ c.handle = conn[s].handle
      BY <2>0 DEF Connection
    <3>2. conn' = [conn EXCEPT ![s] = c]
      BY <2>1
    <3>. QED
      BY <3>1, <3>2
  <2>2. ASSUME NEW p \in {"up", "gone"}, conn' = [conn EXCEPT ![s].peer = p]
        PROVE  \E c \in Connection : /\ conn' = [conn EXCEPT ![s] = c]
                                     /\ c.addr = conn[s].addr /\ c.handle = conn[s].handle
    <3>. DEFINE c == [conn[s] EXCEPT !.peer = p]
    <3>1. c \in Connection /\ c.addr = conn[s].addr /\ c.handle = conn[s].handle
      BY <2>0 DEF Connection
    <3>2. conn' = [conn EXCEPT ![s] = c]
      BY <2>2
    <3>. QED
      BY <3>1, <3>2
  <2>. QED
    BY <2>1, <2>2
<1>. QED
  BY <1>1

\* The peers and the socket reads change neither address nor handle of a
\* connection; what they change does not matter to the other invariants.
LEMMA PeerStep ==
  ASSUME IInv,
         conn' \in [Sockets -> Connection],
         \A s \in Sockets : conn'[s].addr = conn[s].addr /\ conn'[s].handle = conn[s].handle,
         scan' \in 0 .. NumClients,
         ticks' \in 0 .. MaxScanTicks,
         UNCHANGED <<slot, count, accept, now, idle>>
  PROVE  IInv'
<1>. USE DEF IInv
<1>1. ValidSlots' = ValidSlots
  BY DEF ValidSlots
<1>2. \A i \in ValidSlots : slot[i].sock \in Sockets
  BY DEF SocketsOwnedOnce
<1>3. \A i \in ValidSlots : AddrOf(i)' = AddrOf(i)
  BY <1>2 DEF AddrOf
<1>4. TypeOK'
  BY DEF TypeOK
<1>5. CountMatches'
  BY <1>1 DEF CountMatches
<1>6. OneSlotPerAddress'
  BY <1>1, <1>3 DEF OneSlotPerAddress
<1>7. SocketsOwnedOnce'
  BY <1>1 DEF SocketsOwnedOnce
<1>8. FreeSlotsReset'
  BY <1>1 DEF FreeSlotsReset
<1>9. AcceptOwns'
  BY DEF AcceptOwns
<1>10. AddIsUnknown'
  BY <1>1, <1>3 DEF AddIsUnknown, AcceptOwns
<1>11. AgeIsReal'
  BY <1>1 DEF AgeIsReal
<1>. QED
  BY <1>4, <1>5, <1>6, <1>7, <1>8, <1>9, <1>10, <1>11

LEMMA TickStep == ASSUME IInv, Tick PROVE IInv'
<1>. USE DEF IInv, Tick
<1>1. ValidSlots' = ValidSlots
  BY DEF ValidSlots
<1>2. \A i \in ValidSlots : AddrOf(i)' = AddrOf(i)
  BY DEF AddrOf
<1>3. TypeOK'
  <2>1. now' \in Clock
    BY TickAge DEF TypeOK
  <2>2. ticks' \in 0 .. MaxScanTicks
    BY ClockAssumption DEF TypeOK
  <2>3. idle' \in [Slots -> Nat]
    BY DEF TypeOK
  <2>. QED
    BY <2>1, <2>2, <2>3 DEF TypeOK
<1>4. CountMatches'
  BY <1>1 DEF CountMatches
<1>5. OneSlotPerAddress'
  BY <1>1, <1>2 DEF OneSlotPerAddress
<1>6. SocketsOwnedOnce'
  BY <1>1 DEF SocketsOwnedOnce
<1>7. FreeSlotsReset'
  BY <1>1 DEF FreeSlotsReset
<1>8. AcceptOwns'
  BY DEF AcceptOwns
<1>9. AddIsUnknown'
  BY <1>1, <1>2 DEF AddIsUnknown
<1>10. AgeIsReal'
  <2>. SUFFICES ASSUME NEW i \in ValidSlots
                PROVE  (now' - slot[i].lastActive) % ClockMod <= idle'[i]
    BY <1>1 DEF AgeIsReal
  <2>1. i \in Slots /\ slot[i].valid
    BY DEF ValidSlots
  <2>2. slot[i].lastActive \in Clock /\ now \in Clock /\ idle[i] \in Nat
    BY <2>1 DEF TypeOK, Client
  <2>3. (now' - slot[i].lastActive) % ClockMod
          <= ((now - slot[i].lastActive) % ClockMod) + 1
    BY <2>2, TickAge
  <2>4. idle'[i] = idle[i] + 1
    BY <2>1
  <2>5. (now - slot[i].lastActive) % ClockMod <= idle[i]
    BY DEF AgeIsReal
  <2>6. (now - slot[i].lastActive) % ClockMod \in Int
        /\ (now' - slot[i].lastActive) % ClockMod \in Int
    BY <2>2, ClockAssumption, TickAge DEF Clock
  <2>. QED
    BY <2>2, <2>3, <2>4, <2>5, <2>6
<1>. QED
  BY <1>3, <1>4, <1>5, <1>6, <1>7, <1>8, <1>9, <1>10

\* The accept thread takes a socket that no slot can own yet, or gives up the
\* one it holds, or learns that its address is unknown.
LEMMA AcceptStep ==
  ASSUME IInv, NEW s \in Sockets, Accept(s)
  PROVE  IInv'
<1>. USE DEF IInv, Accept
<1>1. ValidSlots' = ValidSlots
  BY DEF ValidSlots
<1>2. \A t \in Sockets : conn'[t].addr = conn[t].addr
  BY DEF TypeOK
<1>3. \A i \in ValidSlots : slot[i].sock \in Sockets /\ slot[i].sock # s
  BY DEF SocketsOwnedOnce
<1>4. \A i \in ValidSlots : AddrOf(i)' = AddrOf(i)
  BY <1>2, <1>3 DEF AddrOf
<1>5. TypeOK'
  BY DEF TypeOK, Connection
<1>6. CountMatches'
  BY <1>1 DEF CountMatches
<1>7. OneSlotPerAddress'
  BY <1>1, <1>4 DEF OneSlotPerAddress
<1>8. SocketsOwnedOnce'
  BY <1>1, <1>3 DEF SocketsOwnedOnce, TypeOK
<1>9. FreeSlotsReset'
  BY <1>1 DEF FreeSlotsReset
<1>10. AcceptOwns'
  BY DEF AcceptOwns, TypeOK, Connection
<1>11. AddIsUnknown'
  BY DEF AddIsUnknown
<1>12. AgeIsReal'
  BY <1>1 DEF AgeIsReal
<1>. QED
  BY <1>5, <1>6, <1>7, <1>8, <1>9, <1>10, <1>11, <1>12

LEMMA AcceptEndsStep ==
  ASSUME IInv, AcceptKnown \/ TableFull
  PROVE  IInv'
<1>. USE DEF IInv, AcceptKnown, TableFull
<1>1. ValidSlots' = ValidSlots /\ \A i \in ValidSlots : AddrOf(i)' = AddrOf(i)
  BY DEF ValidSlots, AddrOf
<1>2. TypeOK'
  BY DEF TypeOK, Idle
<1>3. CountMatches' /\ OneSlotPerAddress' /\ FreeSlotsReset' /\ AgeIsReal'
  BY <1>1 DEF CountMatches, OneSlotPerAddress, FreeSlotsReset, AgeIsReal
<1>4. SocketsOwnedOnce'
  BY <1>1, SocketsAssumption DEF SocketsOwnedOnce, Idle
<1>5. AcceptOwns' /\ AddIsUnknown'
  BY DEF AcceptOwns, AddIsUnknown, Idle
<1>. QED
  BY <1>2, <1>3, <1>4, <1>5

LEMMA AcceptUnknownStep == ASSUME IInv, AcceptUnknown PROVE IInv'
<1>. USE DEF IInv, AcceptUnknown
<1>1. ValidSlots' = ValidSlots /\ \A i \in ValidSlots : AddrOf(i)' = AddrOf(i)
  BY DEF ValidSlots, AddrOf
<1>2. accept'.sock = accept.sock /\ accept'.pc = "add"
  BY DEF TypeOK
<1>3. TypeOK'
  BY DEF TypeOK
<1>4. CountMatches' /\ OneSlotPerAddress' /\ FreeSlotsReset' /\ AgeIsReal'
  BY <1>1 DEF CountMatches, OneSlotPerAddress, FreeSlotsReset, AgeIsReal
<1>5. SocketsOwnedOnce'
  BY <1>1, <1>2 DEF SocketsOwnedOnce
<1>6. AcceptOwns'
  BY <1>2 DEF AcceptOwns
<1>7. AddIsUnknown'
  BY <1>1, <1>2 DEF AddIsUnknown, FindClient
<1>. QED
  BY <1>3, <1>4, <1>5, <1>6, <1>7

\* A new client: its socket was the accept thread's, and its address unknown.
LEMMA AddClientStep ==
  ASSUME IInv, NEW i \in Slots, AddClient(i)
  PROVE  IInv'
<1>. USE DEF IInv, AddClient
<1>. DEFINE new == [valid |-> TRUE, sock |-> accept.sock, lastActive |-> now,
                    timeout |-> DefaultTimeout, loggedIn |-> FALSE]
<1>1. slot' = [slot EXCEPT ![i] = new]
  OBVIOUS
<1>2. accept.sock \in Sockets /\ conn[accept.sock].handle = "open"
  BY DEF AcceptOwns
<1>3. new \in Client
  BY <1>2 DEF Client, TypeOK, Timeouts
<1>4. slot'[i] = new /\ \A j \in Slots \ {i} : slot'[j] = slot[j]
  BY <1>1 DEF TypeOK
<1>5. ValidSlots' = ValidSlots \cup {i}
  BY <1>4 DEF ValidSlots
<1>6. AddrOf(i)' = conn[accept.sock].addr
      /\ \A j \in ValidSlots : AddrOf(j)' = AddrOf(j)
  BY <1>4 DEF AddrOf, ValidSlots
<1>7. TypeOK'
  BY <1>1, <1>3 DEF TypeOK, Idle
<1>8. CountMatches'
  BY <1>5, ValidSlotsFinite, FS_AddElement DEF CountMatches
<1>9. OneSlotPerAddress'
  BY <1>5, <1>6 DEF OneSlotPerAddress, AddIsUnknown
<1>10. SocketsOwnedOnce'
  BY <1>2, <1>4, <1>5, SocketsAssumption
     DEF SocketsOwnedOnce, Idle, ValidSlots
<1>11. FreeSlotsReset'
  BY <1>4, <1>5 DEF FreeSlotsReset
<1>12. AcceptOwns' /\ AddIsUnknown'
  BY DEF AcceptOwns, AddIsUnknown, Idle
<1>13. AgeIsReal'
  <2>1. idle'[i] = 0 /\ \A j \in Slots \ {i} : idle'[j] = idle[j]
    BY DEF TypeOK
  <2>2. (now - now) % ClockMod = 0
    BY FreshAge DEF TypeOK
  <2>. QED
    BY <1>4, <1>5, <2>1, <2>2 DEF AgeIsReal, ValidSlots
<1>. QED
  BY <1>7, <1>8, <1>9, <1>10, <1>11, <1>12, <1>13

\* A removed client: the count, its socket and its slot go together.
LEMMA RemoveStep ==
  ASSUME IInv, NEW i \in Slots, Visit(i), slot[i].valid, RemoveClient(i)
  PROVE  IInv'
<1>. USE DEF IInv, RemoveClient
<1>1. slot'[i] = FreeSlot /\ \A j \in Slots \ {i} : slot'[j] = slot[j]
  BY DEF TypeOK
<1>2. ValidSlots' = ValidSlots \ {i} /\ i \in ValidSlots
  BY <1>1 DEF ValidSlots, FreeSlot
<1>3. /\ slot[i].sock \in Sockets
      /\ \A j \in ValidSlots \ {i} : slot[j].sock \in Sockets /\ slot[j].sock # slot[i].sock
  BY <1>2 DEF SocketsOwnedOnce
<1>4. /\ \A s \in Sockets : conn'[s].addr = conn[s].addr
      /\ \A s \in Sockets \ {slot[i].sock} : conn'[s] = conn[s]
  BY DEF TypeOK
<1>5. \A j \in ValidSlots \ {i} : AddrOf(j)' = AddrOf(j)
  BY <1>1, <1>3, <1>4 DEF AddrOf, ValidSlots
<1>6. CountMatches'
  BY <1>2, ValidSlotsFinite, FS_RemoveElement DEF CountMatches
<1>7. TypeOK'
  <2>1. count' \in Nat
    BY <1>2, <1>6, ValidSlotsFinite, FS_Subset, FS_CardinalityType DEF CountMatches
  <2>2. slot' \in [Slots -> Client]
    BY FreeSlotType DEF TypeOK
  <2>3. scan' \in 0 .. NumClients
    BY ClientsAssumption DEF Visit, TypeOK, Slots
  <2>. QED
    BY <2>1, <2>2, <2>3, <1>3 DEF TypeOK, Connection
<1>8. OneSlotPerAddress'
  BY <1>2, <1>5 DEF OneSlotPerAddress
<1>9. SocketsOwnedOnce'
  BY <1>1, <1>2, <1>3, <1>4 DEF SocketsOwnedOnce, ValidSlots
<1>10. FreeSlotsReset'
  BY <1>1, <1>2 DEF FreeSlotsReset
<1>11. AcceptOwns'
  BY <1>2, <1>4 DEF AcceptOwns, SocketsOwnedOnce
<1>12. AddIsUnknown'
  BY <1>2, <1>4, <1>5 DEF AddIsUnknown, AcceptOwns
<1>13. AgeIsReal'
  <2>1. \A j \in Slots \ {i} : idle'[j] = idle[j]
    BY DEF TypeOK
  <2>. QED
    BY <1>1, <1>2, <2>1 DEF AgeIsReal, ValidSlots
<1>. QED
  BY <1>6, <1>7, <1>8, <1>9, <1>10, <1>11, <1>12, <1>13

\* A message restarts the timer of its client and may log it in.
LEMMA ReadMessageStep ==
  ASSUME IInv, NEW i \in Slots, ReadMessage(i)
  PROVE  IInv'
<1>. USE DEF IInv, ReadMessage
<1>1. PICK new \in Client :
        /\ slot' = [slot EXCEPT ![i] = new]
        /\ new.valid /\ new.sock = slot[i].sock /\ new.lastActive = now
  <2>1. CASE slot' = [slot EXCEPT ![i].lastActive = now]
    <3>. DEFINE upd == [slot[i] EXCEPT !.lastActive = now]
    <3>1. upd \in Client /\ upd.valid /\ upd.sock = slot[i].sock /\ upd.lastActive = now
      BY DEF TypeOK, Client
    <3>2. slot' = [slot EXCEPT ![i] = upd]
      BY <2>1
    <3>. QED
      BY <3>1, <3>2
  <2>2. ASSUME NEW t \in {LoggedInTimeout, HeartbeatTimeout},
               slot' = [slot EXCEPT ![i].lastActive = now, ![i].timeout = t,
                                    ![i].loggedIn = TRUE]
        PROVE  \E new \in Client :
                  /\ slot' = [slot EXCEPT ![i] = new]
                  /\ new.valid /\ new.sock = slot[i].sock /\ new.lastActive = now
    <3>. DEFINE upd == [slot[i] EXCEPT !.lastActive = now, !.timeout = t,
                                       !.loggedIn = TRUE]
    <3>1. upd \in Client /\ upd.valid /\ upd.sock = slot[i].sock /\ upd.lastActive = now
      BY DEF TypeOK, Client, Timeouts
    <3>2. slot' = [slot EXCEPT ![i] = upd]
      BY <2>2
    <3>. QED
      BY <3>1, <3>2
  <2>. QED
    BY <2>1, <2>2
<1>2. slot'[i] = new /\ \A j \in Slots \ {i} : slot'[j] = slot[j]
  BY <1>1 DEF TypeOK
<1>3. ValidSlots' = ValidSlots /\ i \in ValidSlots
  BY <1>1, <1>2 DEF ValidSlots
<1>4. \A j \in ValidSlots : slot'[j].sock = slot[j].sock /\ slot[j].sock \in Sockets
  BY <1>1, <1>2 DEF ValidSlots, SocketsOwnedOnce
<1>5. /\ conn' \in [Sockets -> Connection]
      /\ \A s \in Sockets : conn'[s].addr = conn[s].addr /\ conn'[s].handle = conn[s].handle
  BY <1>3, <1>4, ConnectionUpdate DEF TypeOK
<1>6. \A j \in ValidSlots : AddrOf(j)' = AddrOf(j)
  BY <1>4, <1>5 DEF AddrOf
<1>7. TypeOK'
  <2>1. slot' \in [Slots -> Client]
    BY <1>1 DEF TypeOK
  <2>2. scan' \in 0 .. NumClients
    BY ClientsAssumption DEF Visit, TypeOK, Slots
  <2>. QED
    BY <1>5, <2>1, <2>2 DEF TypeOK
<1>8. CountMatches'
  BY <1>3 DEF CountMatches
<1>9. OneSlotPerAddress'
  BY <1>3, <1>6 DEF OneSlotPerAddress
<1>10. SocketsOwnedOnce'
  BY <1>3, <1>4, <1>5 DEF SocketsOwnedOnce
<1>11. FreeSlotsReset'
  BY <1>2, <1>3 DEF FreeSlotsReset
<1>12. AcceptOwns'
  BY <1>5 DEF AcceptOwns
<1>13. AddIsUnknown'
  BY <1>3, <1>5, <1>6 DEF AddIsUnknown, AcceptOwns
<1>14. AgeIsReal'
  <2>1. idle'[i] = 0 /\ \A j \in Slots \ {i} : idle'[j] = idle[j]
    BY DEF TypeOK
  <2>2. (now - now) % ClockMod = 0
    BY FreshAge DEF TypeOK
  <2>. QED
    BY <1>1, <1>2, <1>3, <2>1, <2>2 DEF AgeIsReal, ValidSlots
<1>. QED
  BY <1>7, <1>8, <1>9, <1>10, <1>11, <1>12, <1>13, <1>14

LEMMA EnvironmentStep == ASSUME IInv, Environment PROVE IInv'
<1>1. ASSUME NEW s \in Sockets, PeerConnect(s) \/ PeerSend(s) \/ PeerLeave(s)
      PROVE  IInv'
  <2>1. /\ conn' \in [Sockets -> Connection]
        /\ \A t \in Sockets : conn'[t].addr = conn[t].addr /\ conn'[t].handle = conn[t].handle
    BY <1>1, ConnectionUpdate DEF IInv, TypeOK, PeerConnect, PeerSend, PeerLeave
  <2>. QED
    BY <1>1, <2>1, PeerStep
       DEF IInv, TypeOK, PeerConnect, PeerSend, PeerLeave
<1>. QED
  BY <1>1, TickStep DEF Environment

LEMMA AcceptThreadStep == ASSUME IInv, AcceptThread PROVE IInv'
BY AcceptStep, AcceptEndsStep, AcceptUnknownStep, AddClientStep DEF AcceptThread

LEMMA MainThreadStep == ASSUME IInv, MainThread PROVE IInv'
<1>. USE DEF IInv
<1>1. CASE BeginScan
  BY <1>1, ClientsAssumption, ClockAssumption, PeerStep DEF BeginScan, TypeOK
<1>2. ASSUME NEW i \in Slots, VisitSlot(i)
      PROVE  IInv'
  <2>1. CASE SkipFreeSlot(i) \/ NothingToRead(i)
    <3>1. scan' \in 0 .. NumClients
      BY <2>1, ClientsAssumption DEF SkipFreeSlot, NothingToRead, Visit, Slots
    <3>. QED
      BY <2>1, <3>1, PeerStep DEF SkipFreeSlot, NothingToRead, TypeOK
  <2>2. CASE DropInactive(i) \/ DropSocketError(i)
    BY <2>2, RemoveStep DEF DropInactive, DropSocketError
  <2>3. CASE ReadGarbage(i)
    <3>1. scan' \in 0 .. NumClients
      BY <2>3, ClientsAssumption DEF ReadGarbage, Visit, Slots
    <3>2. slot[i].sock \in Sockets
      BY <2>3 DEF ReadGarbage, SocketsOwnedOnce, ValidSlots
    <3>3. /\ conn' \in [Sockets -> Connection]
          /\ \A t \in Sockets : conn'[t].addr = conn[t].addr /\ conn'[t].handle = conn[t].handle
      BY <2>3, <3>2, ConnectionUpdate DEF ReadGarbage, TypeOK
    <3>. QED
      BY <2>3, <3>1, <3>3, PeerStep DEF ReadGarbage, TypeOK
  <2>4. CASE ReadMessage(i)
    BY <2>4, ReadMessageStep
  <2>. QED
    BY <1>2, <2>1, <2>2, <2>3, <2>4 DEF VisitSlot
<1>. QED
  BY <1>1, <1>2 DEF MainThread

LEMMA StutterStep == ASSUME IInv, UNCHANGED vars PROVE IInv'
BY PeerStep DEF vars, IInv, TypeOK

-----------------------------------------------------------------------------
(* The theorems *)

\* In every reachable state the table of clients is consistent: no step of the
\* accept thread, of the main thread or of a peer breaks any part of IInv.
THEOREM Consistency == Spec => []IInv
<1>1. IInv /\ [Next]_vars => IInv'
  BY EnvironmentStep, AcceptThreadStep, MainThreadStep, StutterStep DEF Next
<1>. QED
  BY InitIInv, <1>1, PTL DEF Spec

\* Every variable keeps to its type: the count is never negative, the clock
\* never leaves its width and the scan never leaves the array.
THEOREM TypeCorrect == Spec => []TypeOK
<1>1. IInv => TypeOK
  BY DEF IInv
<1>. QED
  BY <1>1, Consistency, PTL

\* m_ClientCount is the number of slots in use.
THEOREM CountCorrect == Spec => []CountMatches
<1>1. IInv => CountMatches
  BY DEF IInv
<1>. QED
  BY <1>1, Consistency, PTL

\* No two slots are registered for one address, though the lookup and the
\* insertion are two critical sections.
THEOREM AddressesUnique == Spec => []OneSlotPerAddress
<1>1. IInv => OneSlotPerAddress
  BY DEF IInv
<1>. QED
  BY <1>1, Consistency, PTL

\* Every slot in use owns an open socket, and alone.
THEOREM SocketsCorrect == Spec => []SocketsOwnedOnce
<1>1. IInv => SocketsOwnedOnce
  BY DEF IInv
<1>. QED
  BY <1>1, Consistency, PTL

\* A free slot keeps nothing of its last client.
THEOREM SlotsReset == Spec => []FreeSlotsReset
<1>1. IInv => FreeSlotsReset
  BY DEF IInv
<1>. QED
  BY <1>1, Consistency, PTL

\* The slot table is consistent as a whole: counted, without duplicates, and
\* clean where it is free, for any number of slots, connections and addresses.
THEOREM TableConsistent == Spec => []SlotsConsistent
<1>1. IInv => SlotsConsistent
  BY DEF IInv, SlotsConsistent
<1>. QED
  BY <1>1, Consistency, PTL

-----------------------------------------------------------------------------
(* Who may be dropped *)

DropJustified(i) ==
    \/ conn[slot[i].sock].peer = "gone"
    \/ idle[i] >= slot[i].timeout

\* An overdue slot really has been idle for its timeout: it never looks older
\* than it is.
LEMMA OverdueIsIdle ==
  ASSUME IInv, NEW i \in ValidSlots, ~IsActive(i)
  PROVE  idle[i] >= slot[i].timeout
<1>1. slot[i] \in Client /\ idle[i] \in Nat /\ now \in Clock
  BY DEF IInv, TypeOK, ValidSlots
<1>2. slot[i].timeout \in Nat /\ slot[i].lastActive \in Clock
  BY <1>1, ClockAssumption DEF Client
<1>3. (now - slot[i].lastActive) % ClockMod <= idle[i]
  BY DEF IInv, AgeIsReal
<1>4. (now - slot[i].lastActive) % ClockMod \in Int
  BY <1>1, <1>2, ClockAssumption DEF Clock
<1>5. (now - slot[i].lastActive) % ClockMod >= slot[i].timeout
  BY <1>2, <1>4 DEF IsActive
<1>. QED
  BY <1>1, <1>2, <1>3, <1>4, <1>5

LEMMA DropStep ==
  ASSUME IInv, Next, NEW i \in Slots, slot[i].valid, ~slot'[i].valid
  PROVE  DropJustified(i)
<1>. USE DEF IInv
<1>1. i \in ValidSlots
  BY DEF ValidSlots
<1>2. CASE AcceptThread \/ Environment \/ BeginScan
  BY <1>1, <1>2 DEF AcceptThread, Environment, BeginScan, Accept, AcceptKnown,
     AcceptUnknown, AddClient, TableFull, PeerConnect, PeerSend, PeerLeave, Tick, TypeOK
<1>3. ASSUME NEW j \in Slots, VisitSlot(j)
      PROVE  DropJustified(i)
  <2>1. CASE SkipFreeSlot(j) \/ NothingToRead(j) \/ ReadGarbage(j)
    BY <2>1 DEF SkipFreeSlot, NothingToRead, ReadGarbage
  <2>2. CASE DropInactive(j)
    <3>1. i = j
      BY <2>2 DEF DropInactive, RemoveClient, TypeOK
    <3>. QED
      BY <1>1, <2>2, <3>1, OverdueIsIdle DEF DropInactive, DropJustified
  <2>3. CASE DropSocketError(j)
    <3>1. i = j
      BY <2>3 DEF DropSocketError, RemoveClient, TypeOK
    <3>. QED
      BY <2>3, <3>1 DEF DropSocketError, DropJustified
  <2>4. CASE ReadMessage(j)
    <3>1. slot'[i].valid = slot[i].valid
      BY <2>4 DEF ReadMessage, TypeOK, Client
    <3>. QED
      BY <3>1
  <2>. QED
    BY <1>3, <2>1, <2>2, <2>3, <2>4 DEF VisitSlot
<1>. QED
  BY <1>2, <1>3 DEF Next, MainThread

\* A client is only dropped when its peer is gone or when it has been silent
\* for its whole timeout, for every width of the clock and every age.
THEOREM DropsJustified == Spec => NoLiveClientDropped
<1>1. IInv /\ [Next]_vars =>
        [\A i \in Slots :
            slot[i].valid /\ ~slot'[i].valid =>
               \/ conn[slot[i].sock].peer = "gone"
               \/ idle[i] >= slot[i].timeout]_vars
  BY DropStep DEF DropJustified
<1>. QED
  BY <1>1, Consistency, PTL DEF Spec, NoLiveClientDropped

-----------------------------------------------------------------------------
(* ClientManager implements ConnectionTable *)

EntryOf(i) == [sock |-> slot[i].sock, addr |-> AddrOf(i)]

\* There are no more entries than slots in use.
LEMMA TableSize == Cardinality(Table) <= Cardinality(ValidSlots)
<1>. DEFINE f == [i \in ValidSlots |-> EntryOf(i)]
<1>1. Table = {EntryOf(i) : i \in ValidSlots}
  BY DEF Table, EntryOf
<1>2. f \in Surjection(ValidSlots, Table)
  BY <1>1 DEF Surjection
<1>. QED
  BY <1>2, ValidSlotsFinite, FS_Surjection

\* Steps that keep the slots in use, their sockets and the handles do not show.
LEMMA TableStutter ==
  ASSUME IInv, ValidSlots' = ValidSlots,
         \A i \in ValidSlots : slot'[i].sock = slot[i].sock,
         \A s \in Sockets : conn'[s].addr = conn[s].addr,
         \A s \in Sockets : conn'[s].handle = "closed" <=> conn[s].handle = "closed"
  PROVE  UNCHANGED CT!tableVars
<1>1. \A i \in ValidSlots : slot'[i].sock = slot[i].sock /\ AddrOf(i)' = AddrOf(i)
  BY DEF IInv, SocketsOwnedOnce, AddrOf
<1>2. Table' = Table
  BY <1>1 DEF Table
<1>3. Closed' = Closed
  BY DEF Closed
<1>. QED
  BY <1>2, <1>3 DEF CT!tableVars

\* AddClient admits the socket of the accept thread.
LEMMA AddAdmits ==
  ASSUME IInv, NEW i \in Slots, AddClient(i)
  PROVE  CT!Admit(accept.sock, conn[accept.sock].addr)
<1>. USE DEF IInv, AddClient
<1>. DEFINE s == accept.sock
            a == conn[accept.sock].addr
<1>1. s \in Sockets /\ conn[s].handle = "open"
  BY DEF AcceptOwns
<1>2. slot'[i].sock = s /\ slot'[i].valid /\ \A j \in Slots \ {i} : slot'[j] = slot[j]
  BY DEF TypeOK
<1>3. ValidSlots' = ValidSlots \cup {i} /\ i \notin ValidSlots
  BY <1>2 DEF ValidSlots
<1>4. \A j \in ValidSlots : slot'[j] = slot[j] /\ AddrOf(j)' = AddrOf(j)
  BY <1>2, <1>3 DEF ValidSlots, AddrOf
<1>5. AddrOf(i)' = a
  BY <1>2 DEF AddrOf
<1>6. Table' = Table \cup {[sock |-> s, addr |-> a]}
  BY <1>2, <1>3, <1>4, <1>5 DEF Table
<1>7. Closed' = Closed /\ s \notin Closed
  BY <1>1 DEF Closed
<1>8. \A e \in Table : e.sock # s /\ e.addr # a
  BY DEF Table, SocketsOwnedOnce, AddIsUnknown
<1>9. Cardinality(Table) < NumClients
  <2>1. IsFiniteSet(Slots) /\ Cardinality(Slots) = NumClients
    BY ClientsAssumption, FS_Interval DEF Slots
  <2>2. ValidSlots \in SUBSET Slots /\ ValidSlots # Slots
    BY <1>3 DEF ValidSlots
  <2>3. Cardinality(ValidSlots) < NumClients /\ Cardinality(ValidSlots) \in Nat
    BY <2>1, <2>2, FS_Subset, FS_CardinalityType, ClientsAssumption
  <2>4. IsFiniteSet(Table)
    <3>. DEFINE f == [j \in ValidSlots |-> EntryOf(j)]
    <3>1. f \in Surjection(ValidSlots, Table)
      BY DEF Surjection, Table, EntryOf
    <3>. QED
      BY <3>1, ValidSlotsFinite, FS_Surjection
  <2>5. Cardinality(Table) \in Nat
    BY <2>4, FS_CardinalityType
  <2>. QED
    BY <2>3, <2>5, TableSize, ClientsAssumption
<1>10. CT!Cardinality(Table) = Cardinality(Table)
  BY DEF CT!Cardinality, Cardinality
<1>. QED
  BY <1>6, <1>7, <1>8, <1>9, <1>10 DEF CT!Admit

\* RemoveClient releases the entry of its slot.
LEMMA RemoveReleases ==
  ASSUME IInv, NEW i \in ValidSlots, RemoveClient(i)
  PROVE  EntryOf(i) \in Table /\ CT!Release(EntryOf(i))
<1>. USE DEF IInv, RemoveClient
<1>1. slot'[i] = FreeSlot /\ \A j \in Slots \ {i} : slot'[j] = slot[j]
  BY DEF TypeOK, ValidSlots
<1>2. ValidSlots' = ValidSlots \ {i}
  BY <1>1 DEF ValidSlots, FreeSlot
<1>3. /\ slot[i].sock \in Sockets
      /\ \A j \in ValidSlots \ {i} : slot[j].sock \in Sockets /\ slot[j].sock # slot[i].sock
  BY DEF SocketsOwnedOnce
<1>4. /\ \A s \in Sockets \ {slot[i].sock} : conn'[s] = conn[s]
      /\ conn'[slot[i].sock].handle = "closed"
  BY <1>3 DEF TypeOK, Connection
<1>5. \A j \in ValidSlots \ {i} : EntryOf(j)' = EntryOf(j) /\ EntryOf(j) # EntryOf(i)
  BY <1>1, <1>3, <1>4 DEF AddrOf, ValidSlots, EntryOf
<1>6. Table = {EntryOf(j) : j \in ValidSlots} /\ Table' = {EntryOf(j)' : j \in ValidSlots'}
  BY DEF Table, EntryOf
<1>7. Table' = Table \ {EntryOf(i)}
  BY <1>2, <1>5, <1>6
<1>8. Closed' = Closed \cup {slot[i].sock}
  BY <1>3, <1>4 DEF Closed
<1>. QED
  BY <1>6, <1>7, <1>8 DEF CT!Release, EntryOf

LEMMA TableStep ==
  ASSUME IInv, [Next]_vars
  PROVE  [CT!TableNext]_CT!tableVars
<1>. USE DEF IInv
<1>1. CASE UNCHANGED vars
  BY <1>1 DEF vars, CT!tableVars, Table, Closed, ValidSlots, AddrOf
<1>2. CASE Environment
  <2>1. ASSUME NEW s \in Sockets, PeerConnect(s) \/ PeerSend(s) \/ PeerLeave(s)
        PROVE  UNCHANGED CT!tableVars
    <3>1. \A t \in Sockets : conn'[t].addr = conn[t].addr /\ conn'[t].handle = conn[t].handle
      BY <2>1, ConnectionUpdate DEF TypeOK, PeerConnect, PeerSend, PeerLeave
    <3>. QED
      BY <2>1, <3>1, TableStutter DEF PeerConnect, PeerSend, PeerLeave, ValidSlots
  <2>2. CASE Tick
    BY <2>2, TableStutter DEF Tick, ValidSlots
  <2>. QED
    BY <1>2, <2>1, <2>2 DEF Environment
<1>3. CASE AcceptThread
  <2>1. ASSUME NEW s \in Sockets, Accept(s)
        PROVE  UNCHANGED CT!tableVars
    <3>1. conn[s].handle = "none" /\ conn' = [conn EXCEPT ![s].handle = "open"]
      BY <2>1 DEF Accept
    <3>2. \A t \in Sockets :
            /\ conn'[t].addr = conn[t].addr
            /\ conn'[t].handle = "closed" <=> conn[t].handle = "closed"
      BY <3>1 DEF TypeOK, Connection
    <3>. QED
      BY <2>1, <3>2, TableStutter DEF Accept, ValidSlots
  <2>2. CASE AcceptKnown \/ AcceptUnknown \/ TableFull
    BY <2>2, TableStutter DEF AcceptKnown, AcceptUnknown, TableFull, ValidSlots
  <2>3. ASSUME NEW i \in Slots, AddClient(i)
        PROVE  CT!TableNext
    <3>1. accept.sock \in Sockets /\ conn[accept.sock].addr \in Addresses
      BY <2>3 DEF AddClient, AcceptOwns, TypeOK, Connection
    <3>. QED
      BY <2>3, <3>1, AddAdmits DEF CT!TableNext
  <2>. QED
    BY <1>3, <2>1, <2>2, <2>3 DEF AcceptThread
<1>4. CASE MainThread
  <2>1. CASE BeginScan
    BY <2>1, TableStutter DEF BeginScan, ValidSlots
  <2>2. ASSUME NEW i \in Slots, VisitSlot(i)
        PROVE  [CT!TableNext]_CT!tableVars
    <3>1. CASE SkipFreeSlot(i) \/ NothingToRead(i)
      BY <3>1, TableStutter DEF SkipFreeSlot, NothingToRead, ValidSlots
    <3>2. CASE DropInactive(i) \/ DropSocketError(i)
      BY <3>2, RemoveReleases DEF DropInactive, DropSocketError, ValidSlots, CT!TableNext
    <3>3. CASE ReadGarbage(i) \/ ReadMessage(i)
      <4>1. i \in ValidSlots /\ slot[i].sock \in Sockets
        BY <3>3 DEF ReadGarbage, ReadMessage, ValidSlots, SocketsOwnedOnce
      <4>2. \A t \in Sockets : conn'[t].addr = conn[t].addr /\ conn'[t].handle = conn[t].handle
        BY <3>3, <4>1, ConnectionUpdate DEF ReadGarbage, ReadMessage, TypeOK
      <4>3. \A j \in Slots : slot'[j].valid = slot[j].valid /\ slot'[j].sock = slot[j].sock
        BY <3>3 DEF ReadGarbage, ReadMessage, TypeOK, Client
      <4>4. ValidSlots' = ValidSlots
        BY <4>3 DEF ValidSlots
      <4>. QED
        BY <4>2, <4>3, <4>4, TableStutter DEF ValidSlots
    <3>. QED
      BY <2>2, <3>1, <3>2, <3>3 DEF VisitSlot
  <2>. QED
    BY <1>4, <2>1, <2>2 DEF MainThread
<1>. QED
  BY <1>1, <1>2, <1>3, <1>4 DEF Next

\* The two threads, their lock, the slots and the clock together behave as the
\* connection table: bounded, one entry per address, left only by closing.
THEOREM Refinement == Spec => TableSpec
<1>1. Init => CT!TableInit
  <2>. SUFFICES ASSUME Init PROVE Table = {} /\ Closed = {}
    BY DEF CT!TableInit
  <2>1. ValidSlots = {}
    BY DEF Init, ValidSlots, FreeSlot
  <2>2. \A s \in Sockets : conn[s].handle = "none"
    BY DEF Init
  <2>. QED
    BY <2>1, <2>2 DEF Table, Closed
<1>2. IInv /\ [Next]_vars => [CT!TableNext]_CT!tableVars
  BY TableStep
<1>. QED
  BY <1>1, <1>2, Consistency, PTL DEF Spec, TableSpec, CT!TableSpec
=============================================================================
