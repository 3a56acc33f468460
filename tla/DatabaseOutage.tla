--------------------------- MODULE DatabaseOutage ---------------------------
(***************************************************************************)
(* What happens when the MySQL server goes away: the main thread, whose    *)
(* handlers test the connection before every query and disconnect everyone *)
(* when the test fails, and the ping thread, which wakes up every five     *)
(* hours and is the only one to declare the database back.  They share     *)
(* isConnected, m_MaintenanceMode and the connection itself without a      *)
(* lock: a ping and a query that use it at the same time collide, and no   *)
(* outage is needed for one of them to fail.                               *)
(*                                                                         *)
(* Removing a player writes its online status to the database, so the      *)
(* emergency disconnection tests the connection again from inside itself:  *)
(* the call stack of the main thread is part of the state.                 *)
(***************************************************************************)
EXTENDS Integers, Sequences, FiniteSets

CONSTANTS
    NumClients,     \* slots of the client manager
    Calls,          \* database calls of a handler
    MaxStack,       \* nested emergencies the thread's stack has room for
    CountMod        \* 2^32: the client count is unsigned

Slots == 0 .. NumClients - 1

ASSUME SizesAssumption ==
    /\ NumClients \in Nat \ {0}
    /\ Calls \in Nat \ {0}
    /\ MaxStack \in Nat \ {0}
    /\ CountMod \in Nat /\ CountMod > NumClients

VARIABLES
    reconnect,    \* the [auto_reconnect] setting, read once at startup
    dbUp,         \* the MySQL server answers
    alive,        \* the session of m_Connection is alive
    isConnected,  \* the flag of MySQLDatabase
    maintenance,  \* m_MaintenanceMode of MMG_AccountProtocol
    client,       \* what each slot holds: a player, or anybody else
    count,        \* m_ClientCount
    main,         \* the message the main thread is handling
    test,         \* its TestDatabase, and the query that follows
    stack,        \* its nested removals and emergency loops, innermost last
    ping,         \* the ping thread
    crashed,      \* the process has died
    lost,         \* history: the database has been lost or a ping met a query
    played,       \* history: a client has asked to log in as a player
    stranded      \* history: a handler has worked on a token an emergency freed,
                  \*   or on a connection with a ping under way

outageVars == <<reconnect, dbUp, alive, isConnected, maintenance, client, count,
                main, test, stack, ping, crashed, lost, played, stranded>>

\* remove: RemoveClient called by the scan; loop: EmergencyDisconnectAll, with
\* the slot it has come to.
Frame == [kind : {"remove", "loop"}, pos : 0 .. NumClients]

Resting == [pc |-> "idle", slot |-> 0, calls |-> 0]

OutageTypeOK ==
    /\ reconnect \in BOOLEAN /\ dbUp \in BOOLEAN /\ alive \in BOOLEAN
    /\ isConnected \in BOOLEAN /\ maintenance \in BOOLEAN
    /\ client \in [Slots -> {"free", "other", "player"}]
    /\ count \in 0 .. CountMod - 1
    /\ main \in [pc : {"idle", "stale", "handle", "query", "token", "login", "drop"},
                 slot : Slots, calls : 0 .. Calls]
    /\ test \in {"none", "asked", "yes", "no", "working", "failed"}
    /\ stack \in Seq(Frame) /\ Len(stack) <= MaxStack + 1
    /\ ping \in {"sleep", "asking", "garbled", "up", "up2", "down", "down2"}
    /\ crashed \in BOOLEAN /\ lost \in BOOLEAN
    /\ played \in BOOLEAN /\ stranded \in BOOLEAN

OutageInit ==
    /\ reconnect \in BOOLEAN
    /\ dbUp = TRUE /\ alive = TRUE
    /\ isConnected = TRUE /\ maintenance = FALSE
    /\ client = [i \in Slots |-> "free"]
    /\ count = 0
    /\ main = Resting /\ test = "none"
    /\ stack = <<>>
    /\ ping = "sleep"
    /\ crashed = FALSE
    /\ lost = FALSE /\ played = FALSE /\ stranded = FALSE

-----------------------------------------------------------------------------
(* Helpers *)

Occupied == {i \in Slots : client[i] # "free"}

Running == ~crashed /\ stack = <<>>

\* The session answers, or comes back because the client library is allowed to
\* reconnect.
Reachable == alive \/ (dbUp /\ reconnect)

\* Mutant: EmergencyDisconnectAll starts at the second slot.
EmergencyFromOne(frames) ==
    /\ maintenance' = TRUE
    /\ IF Len(frames) > MaxStack
       THEN crashed' = TRUE /\ UNCHANGED stack
       ELSE /\ stack' = Append(frames, [kind |-> "loop", pos |-> 1])
            /\ UNCHANGED crashed

\* EmergencyMassgateDisconnect is entered below the given frames; when the
\* stack has no room left the process dies.
Emergency(frames) ==
    /\ maintenance' = TRUE
    /\ IF Len(frames) > MaxStack
       THEN crashed' = TRUE /\ UNCHANGED stack
       ELSE /\ stack' = Append(frames, [kind |-> "loop", pos |-> 0])
            /\ UNCHANGED crashed

\* Mutant: the count is a signed number.
FreeSlotSigned(i) ==
    /\ client' = [client EXCEPT ![i] = "free"]
    /\ count' = count - 1

FreeSlot(i) ==
    /\ client' = [client EXCEPT ![i] = "free"]
    /\ count' = (count - 1) % CountMod

-----------------------------------------------------------------------------
(* The MySQL server *)

DatabaseLost ==
    /\ dbUp
    /\ dbUp' = FALSE
    /\ alive' = FALSE
    /\ lost' = TRUE
    /\ UNCHANGED <<reconnect, isConnected, maintenance, client, count, main, test,
                   stack, ping, crashed, played, stranded>>

DatabaseBack ==
    /\ ~dbUp
    /\ dbUp' = TRUE
    /\ UNCHANGED <<reconnect, alive, isConnected, maintenance, client, count,
                   main, test, stack, ping, crashed, lost, played, stranded>>

-----------------------------------------------------------------------------
(* The ping thread: mysql_ping, then the two flags *)

PingAsks ==
    /\ ~crashed
    /\ ping = "sleep"
    /\ ping' = "asking"
    /\ UNCHANGED <<reconnect, dbUp, alive, isConnected, maintenance, client, count,
                   main, test, stack, crashed, lost, played, stranded>>

\* After a collision the ping may say anything.
PingAnswered ==
    /\ ~crashed
    /\ \/ /\ ping = "asking"
          /\ alive' = Reachable
          /\ ping' = IF Reachable THEN "up" ELSE "down"
       \/ /\ ping = "garbled"
          /\ alive' \in {alive, Reachable}
          /\ ping' \in {"up", "down"}
    /\ UNCHANGED <<reconnect, dbUp, isConnected, maintenance, client, count, main,
                   test, stack, crashed, lost, played, stranded>>

PingSetsConnected ==
    /\ ~crashed
    /\ ping \in {"up", "down"}
    /\ isConnected' = (ping = "up")
    /\ ping' = IF ping = "up" THEN "up2" ELSE "down2"
    /\ UNCHANGED <<reconnect, dbUp, alive, maintenance, client, count, main, test,
                   stack, crashed, lost, played, stranded>>

\* Mutant: a successful ping leaves maintenance mode on.
PingKeepsMaintenance ==
    /\ ~crashed
    /\ ping \in {"up2", "down2"}
    /\ maintenance' = (maintenance \/ ping = "down2")
    /\ ping' = "sleep"
    /\ UNCHANGED <<reconnect, dbUp, alive, isConnected, client, count, main, test,
                   stack, crashed, lost, played, stranded>>

PingSetsMaintenance ==
    /\ ~crashed
    /\ ping \in {"up2", "down2"}
    /\ maintenance' = (ping = "down2")
    /\ ping' = "sleep"
    /\ UNCHANGED <<reconnect, dbUp, alive, isConnected, client, count, main, test,
                   stack, crashed, lost, played, stranded>>

-----------------------------------------------------------------------------
(* TestDatabase, called by the main thread before every query *)

Depth == Len(stack)
Pos == stack[Depth].pos
InLoop(p) == ~crashed /\ stack # <<>> /\ stack[Depth].kind = "loop" /\ Pos = p

\* AuthUserAccount itself has failed: the login makes no other call.
AuthFailed ==
    main.pc = "login" /\ client[main.slot] = "free" /\ main.calls = Calls - 1

\* A handler, or the removal of a player, asks HasConnection; once a test has
\* failed the next ones fail without a query until the ping thread sets
\* isConnected again ...
TestStarts ==
    /\ test = "none"
    /\ \/ Running /\ main.pc \in {"query", "token", "login", "drop"} /\ main.calls > 0 /\ ~AuthFailed
       \/ \E i \in Slots : InLoop(i) /\ client[i] = "player"
    /\ test' = IF isConnected THEN "asked" ELSE "no"
    /\ UNCHANGED <<reconnect, dbUp, alive, isConnected, maintenance, client, count,
                   main, stack, ping, crashed, lost, played, stranded>>

\* ... "SELECT 1" is answered or not ...
TestAnswered ==
    /\ ~crashed
    /\ test = "asked"
    /\ alive' = Reachable
    /\ test' = IF Reachable THEN "yes" ELSE "no"
    /\ UNCHANGED <<reconnect, dbUp, isConnected, maintenance, client, count, main,
                   stack, ping, crashed, lost, played, stranded>>

\* ... and the flag is set, whatever the ping thread has set it to meanwhile.
TestEnds ==
    /\ ~crashed
    /\ test \in {"yes", "no"}
    /\ isConnected' = (test = "yes")
    /\ test' = IF test = "yes" THEN "working" ELSE "failed"
    /\ UNCHANGED <<reconnect, dbUp, alive, maintenance, client, count, main,
                   stack, ping, crashed, lost, played, stranded>>

\* mysql_ping and a query of the main thread use the connection at the same time.
\* Either may get the answer of the other or none, the client library may give
\* the session up, and the process may die.
Collide ==
    /\ ~crashed
    /\ ping = "asking"
    /\ test \in {"asked", "working"}
    /\ ping' = "garbled"
    /\ alive' \in {alive, FALSE}
    /\ test' \in IF test = "asked" THEN {"yes", "no"} ELSE {"working"}
    /\ crashed' \in BOOLEAN
    /\ lost' = TRUE /\ stranded' = TRUE
    /\ UNCHANGED <<reconnect, dbUp, isConnected, maintenance, client, count, main,
                   stack, played>>

-----------------------------------------------------------------------------
(* The main thread *)

\* A connection is accepted between two scans.
Accept(i) ==
    /\ Running
    /\ main.pc = "idle"
    /\ i \notin Occupied
    /\ client' = [client EXCEPT ![i] = "other"]
    /\ count' = (count + 1) % CountMod
    /\ UNCHANGED <<reconnect, dbUp, alive, isConnected, maintenance, main, test,
                   stack, ping, crashed, lost, played, stranded>>

\* LiveAccount_DataReceivedCallback asks HasConnection first ...
Receive(i) ==
    /\ Running
    /\ main.pc = "idle"
    /\ i \in Occupied
    /\ main' = [main EXCEPT !.pc = IF isConnected THEN "handle" ELSE "stale",
                            !.slot = i]
    /\ UNCHANGED <<reconnect, dbUp, alive, isConnected, maintenance, client, count,
                   test, stack, ping, crashed, lost, played, stranded>>

\* ... and sets maintenance mode on the answer, which may be out of date.
SetMaintenance ==
    /\ Running
    /\ main.pc = "stale"
    /\ maintenance' = TRUE
    /\ main' = [main EXCEPT !.pc = "handle"]
    /\ UNCHANGED <<reconnect, dbUp, alive, isConnected, client, count, test, stack,
                   ping, crashed, lost, played, stranded>>

\* Maintenance mode turns away account messages only; a message may also need
\* no database at all.
Refuse ==
    /\ Running
    /\ main.pc = "handle"
    /\ main' = Resting
    /\ UNCHANGED <<reconnect, dbUp, alive, isConnected, maintenance, client, count,
                   test, stack, ping, crashed, lost, played, stranded>>

StartLogin ==
    /\ Running
    /\ main.pc = "handle"
    /\ client[main.slot] = "other"
    /\ ~maintenance
    /\ main' = [main EXCEPT !.pc = "login", !.calls = Calls]
    /\ played' = TRUE
    /\ UNCHANGED <<reconnect, dbUp, alive, isConnected, maintenance, client, count,
                   test, stack, ping, crashed, lost, stranded>>

\* A message whose handler works on the token or the profile of its client, also
\* after its calls: an account message that lists or changes profiles, whoever
\* sends it, or a message of a player, which maintenance does not turn away.
StartWithToken ==
    /\ Running
    /\ main.pc = "handle"
    /\ ~maintenance \/ client[main.slot] = "player"
    /\ main' = [main EXCEPT !.pc = "token", !.calls = Calls]
    /\ UNCHANGED <<reconnect, dbUp, alive, isConnected, maintenance, client, count,
                   test, stack, ping, crashed, lost, played, stranded>>

\* Any other message with queries: a game server's is never turned away.
StartQuery ==
    /\ Running
    /\ main.pc = "handle"
    /\ main' = [main EXCEPT !.pc = "query", !.calls = Calls]
    /\ UNCHANGED <<reconnect, dbUp, alive, isConnected, maintenance, client, count,
                   test, stack, ping, crashed, lost, played, stranded>>

\* A call of a handler has been made; it was the last one or there is another.
CallDone ==
    /\ Running
    /\ main.pc \in {"query", "token"}
    /\ test = "working"
    /\ test' = "none"
    /\ \/ main' = Resting
       \/ main.calls > 1 /\ main' = [main EXCEPT !.calls = @ - 1]
    /\ UNCHANGED <<reconnect, dbUp, alive, isConnected, maintenance, client, count,
                   stack, ping, crashed, lost, played, stranded>>

\* The calls of a login in turn; after the last one the client is a player.
LoginCall ==
    /\ Running
    /\ main.pc = "login"
    /\ test = "working"
    /\ test' = "none"
    /\ \/ /\ main.calls > 1
          /\ main' = [main EXCEPT !.calls = @ - 1]
          /\ UNCHANGED client
       \/ /\ main.calls = 1
          /\ client[main.slot] # "free"
          /\ main' = Resting
          /\ client' = [client EXCEPT ![main.slot] = "player"]
    /\ UNCHANGED <<reconnect, dbUp, alive, isConnected, maintenance, count, stack,
                   ping, crashed, lost, played, stranded>>

\* A call of a handler finds the database lost: everyone is disconnected before
\* the call returns to the handler.
CallFails ==
    /\ Running
    /\ main.pc \in {"query", "token", "login"}
    /\ test = "failed"
    /\ test' = "none"
    /\ main' = [main EXCEPT !.calls = @ - 1]
    /\ stranded' = (stranded \/ main.pc # "query")
    /\ Emergency(<<>>)
    /\ UNCHANGED <<reconnect, dbUp, alive, isConnected, client, count, ping, lost, played>>

\* The handler goes on for a client whose slot has been reset.  One that does not
\* touch the client again returns; the token and the profile of the client are
\* freed memory, which may go well; but a login that has got past AuthUserAccount
\* calls SetIsPlayer through a null profile.
HandlerResumes ==
    /\ Running
    /\ main.pc \in {"query", "token", "login"}
    /\ client[main.slot] = "free"
    /\ test \in {"none", "working"}
    /\ \/ /\ main.pc # "login" \/ AuthFailed
          /\ main' = Resting
          /\ test' = "none"
          /\ UNCHANGED crashed
       \/ /\ main.pc # "query"
          /\ crashed' = TRUE
          /\ UNCHANGED <<main, test>>
    /\ UNCHANGED <<reconnect, dbUp, alive, isConnected, maintenance, client, count,
                   stack, ping, lost, played, stranded>>

\* The scan removes a client: a timeout or a dead socket.
Drop(i) ==
    /\ Running
    /\ main.pc = "idle"
    /\ i \in Occupied
    /\ \/ /\ client[i] # "player"
          /\ FreeSlot(i)
          /\ UNCHANGED main
       \/ /\ client[i] = "player"
          /\ main' = [pc |-> "drop", slot |-> i, calls |-> 1]
          /\ UNCHANGED <<client, count>>
    /\ UNCHANGED <<reconnect, dbUp, alive, isConnected, maintenance, test, stack,
                   ping, crashed, lost, played, stranded>>

\* A player goes once its online status is written.
DropPlayer ==
    /\ Running
    /\ main.pc = "drop"
    /\ main' = Resting
    /\ test' = "none"
    /\ \/ /\ test = "working"
          /\ FreeSlot(main.slot)
          /\ UNCHANGED <<maintenance, stack, crashed>>
       \/ /\ test = "failed"
          /\ Emergency(<<[kind |-> "remove", pos |-> main.slot]>>)
          /\ UNCHANGED <<client, count>>
    /\ UNCHANGED <<reconnect, dbUp, alive, isConnected, ping, lost, played,
                   stranded>>

-----------------------------------------------------------------------------
(* EmergencyDisconnectAll *)

Advance == stack' = [stack EXCEPT ![Depth].pos = @ + 1]

\* Mutant: DisconnectClient does not ask whether the client is valid.
LoopStepUnchecked(i) ==
    /\ InLoop(i)
    /\ client[i] # "player"
    /\ FreeSlot(i)
    /\ Advance
    /\ UNCHANGED <<reconnect, dbUp, alive, isConnected, maintenance, main, test,
                   ping, crashed, lost, played, stranded>>

\* A free slot is skipped; a client that is no player is simply removed.
LoopStep(i) ==
    /\ InLoop(i)
    /\ client[i] # "player"
    /\ IF client[i] = "free" THEN UNCHANGED <<client, count>> ELSE FreeSlot(i)
    /\ Advance
    /\ UNCHANGED <<reconnect, dbUp, alive, isConnected, maintenance, main, test,
                   ping, crashed, lost, played, stranded>>

\* Removing a player writes its online status.
LoopPlayer(i) ==
    /\ InLoop(i)
    /\ client[i] = "player"
    /\ test' = "none"
    /\ \/ /\ test = "working"
          /\ FreeSlot(i)
          /\ Advance
          /\ UNCHANGED <<maintenance, crashed>>
       \/ /\ test = "failed"
          /\ Emergency(stack)
          /\ UNCHANGED <<client, count>>
    /\ UNCHANGED <<reconnect, dbUp, alive, isConnected, main, ping, lost,
                   played, stranded>>

\* The loop has run through.  The frame below was removing a client that this
\* loop has removed too: its observer and profile are freed memory, and if that
\* goes well the client is counted off and reset a second time.
LoopEnds ==
    /\ InLoop(NumClients)
    /\ \/ /\ Depth = 1
          /\ stack' = <<>>
          /\ UNCHANGED <<client, count, crashed>>
       \/ /\ Depth > 1
          /\ crashed' = TRUE
          /\ UNCHANGED <<client, count, stack>>
       \/ /\ Depth > 1
          /\ FreeSlot(stack[Depth - 1].pos)
          /\ stack' = IF stack[Depth - 1].kind = "remove" THEN <<>>
                      ELSE [SubSeq(stack, 1, Depth - 1)
                              EXCEPT ![Depth - 1].pos = @ + 1]
          /\ UNCHANGED crashed
    /\ UNCHANGED <<reconnect, dbUp, alive, isConnected, maintenance, main, test,
                   ping, lost, played, stranded>>

-----------------------------------------------------------------------------

PingThread == PingAsks \/ PingAnswered \/ PingSetsConnected \/ PingSetsMaintenance

\* What the main thread does without waiting for a client.
Handler ==
    \/ TestStarts \/ TestAnswered \/ TestEnds
    \/ SetMaintenance \/ Refuse \/ StartLogin \/ StartWithToken \/ StartQuery
    \/ CallDone \/ LoginCall \/ CallFails \/ HandlerResumes \/ DropPlayer
    \/ \E i \in Slots : LoopStep(i) \/ LoopPlayer(i)
    \/ LoopEnds

OutageNext ==
    \/ DatabaseLost \/ DatabaseBack
    \/ PingThread \/ Collide
    \/ Handler
    \/ \E i \in Slots : Accept(i) \/ Receive(i) \/ Drop(i)

OutageSpec == OutageInit /\ [][OutageNext]_outageVars

\* A handler runs to its end, and the ping thread always wakes up again.
OutageFairSpec == OutageSpec /\ WF_outageVars(Handler) /\ WF_outageVars(PingThread)

-----------------------------------------------------------------------------
(* Safety *)

\* As long as the database has never been lost, and no ping has met a query, the
\* server does not crash, is not in maintenance, and counts its clients correctly.
HealthyServer ==
    ~lost => /\ ~crashed
             /\ ~maintenance
             /\ isConnected
             /\ count = Cardinality(Occupied)

\* As long as nobody has tried to log in as a player, every client an emergency
\* disconnects is counted off once, whichever message ran into it; and the server
\* survives any number of outages as long as they strand no handler.
SurvivesOutages ==
    ~played => /\ count = Cardinality(Occupied)
               /\ ~stranded => ~crashed

\* The server survives, and its count of clients is right, both before the first
\* outage and through any number of outages without players; what a collision or
\* a handler with a freed token does to the process is excepted.
Survives == HealthyServer /\ SurvivesOutages

-----------------------------------------------------------------------------
(* Liveness *)

\* With game servers and guests only, an emergency ends with everybody
\* disconnected, one emergency or many.
DisconnectsGuests == (stack # <<>> /\ ~played) ~> (Occupied = {})

\* A ping in the way of the main thread: it has met a query, or comes back while a
\* test that has read the old isConnected has still to write it.
InTheWay == ping = "garbled" \/ (ping = "up" /\ test = "no")

\* With automatic reconnection, once the MySQL server stays up and the two threads
\* keep out of each other's way, the server leaves maintenance mode for good (or
\* it has crashed): whatever the flags were left at by the outages, the collisions
\* and the stale answers of HasConnection before that.
Recovers ==
    (reconnect /\ <>[](dbUp /\ ~InTheWay)) =>
        <>[](crashed \/ (isConnected /\ ~maintenance))

-----------------------------------------------------------------------------
(* What a comment in the code says; see the violation run *)

\* MySQLDatabase.cpp:409, "test the connection before proceeding, disconnects
\* everyone on fail".
DisconnectsEveryone == (stack # <<>>) ~> (Occupied = {})
=============================================================================
