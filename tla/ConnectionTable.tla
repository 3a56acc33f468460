--------------------------- MODULE ConnectionTable ---------------------------
(***************************************************************************)
(* What the client manager of the Massgate server promises to the rest of  *)
(* the program: a bounded table of open connections, at most one per peer  *)
(* address, in which a connection is admitted at most once and leaves only  *)
(* by being closed.  No slots, threads, locks or clocks: those are the     *)
(* business of ClientManager, which implements this specification.         *)
(***************************************************************************)
EXTENDS Naturals, FiniteSets

CONSTANTS Sockets,    \* the connections that can ever be made
          Addresses,  \* the ip:port pairs peers connect from
          Capacity    \* how many connections the table holds

VARIABLES table,   \* the admitted connections, each with the address it came from
          closed   \* the connections the manager has closed

tableVars == <<table, closed>>

Entry == [sock : Sockets, addr : Addresses]

TableInit ==
    /\ table = {}
    /\ closed = {}

\* A connection from an address nobody in the table has takes a free place.
Admit(s, a) ==
    /\ s \notin closed
    /\ \A e \in table : e.sock # s /\ e.addr # a
    /\ Cardinality(table) < Capacity
    /\ table' = table \cup {[sock |-> s, addr |-> a]}
    /\ UNCHANGED closed

\* An entry leaves the table and its connection is closed, for good.
Release(e) ==
    /\ table' = table \ {e}
    /\ closed' = closed \cup {e.sock}

TableNext ==
    \/ \E s \in Sockets, a \in Addresses : Admit(s, a)
    \/ \E e \in table : Release(e)

TableSpec == TableInit /\ [][TableNext]_tableVars
=============================================================================
