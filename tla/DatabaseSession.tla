-------------------------- MODULE DatabaseSession ---------------------------
(***************************************************************************)
(* The one session the process has with the MySQL server, and the three    *)
(* calls MySQLDatabase brackets its transactions with.  Each of them sends *)
(* statements whose result nobody looks at.                                *)
(*                                                                         *)
(* What the server and the client library do with a statement is external: *)
(* it is modelled from the calls in MySQLDatabase.cpp and the settings     *)
(* ConnectDatabase makes.  A connection may be lost between any two        *)
(* statements; the server then forgets the transaction.  With automatic    *)
(* reconnection the library opens another session behind the program's     *)
(* back, but not while it believes in a transaction: that statement fails. *)
(***************************************************************************)
EXTENDS Naturals

VARIABLES
    auto_reconnect,  \* the setting of the same name
    stored,          \* the tables, as committed
    work,            \* the tables, as the session sees them
    autocommit,      \* the session's AUTOCOMMIT
    open,            \* a transaction is open; the library keeps the same flag
    link             \* "up", or "lost" since the last statement

session == <<auto_reconnect, stored, work, autocommit, open, link>>

SessionTypeOK ==
    /\ auto_reconnect \in BOOLEAN
    /\ autocommit \in BOOLEAN
    /\ open \in BOOLEAN
    /\ link \in {"up", "lost"}

\* ConnectDatabase: the init command sets autocommit to 1.
Connected(tables) ==
    /\ stored = tables
    /\ work = tables
    /\ autocommit = TRUE
    /\ open = FALSE
    /\ link = "up"

-----------------------------------------------------------------------------
(* The connection *)

LinkLost ==
    /\ link = "up"
    /\ link' = "lost"
    /\ work' = stored
    /\ UNCHANGED <<auto_reconnect, stored, autocommit, open>>

\* The process dies and is started again.
NewSession ==
    /\ work' = stored
    /\ autocommit' = TRUE
    /\ open' = FALSE
    /\ link' = "up"
    /\ UNCHANGED <<auto_reconnect, stored>>

\* A statement gets to the server, over another session if need be.
Reaches ==
    /\ link = "up" \/ (auto_reconnect /\ ~open)
    /\ link' = "up"
    /\ UNCHANGED auto_reconnect

\* A statement fails because the connection is gone.  The library may only
\* notice now, and the refusal to reconnect clears its flag.
FailsOnLink ==
    /\ link = "lost"
    /\ open' \in {open, FALSE}
    /\ UNCHANGED <<auto_reconnect, stored, work, autocommit, link>>

-----------------------------------------------------------------------------
(* Statements *)

\* SELECT 1: no table takes part.
Touch ==
    /\ Reaches
    /\ autocommit' = (autocommit \/ link = "lost")
    /\ UNCHANGED <<stored, work, open>>

\* A statement on tables, after which the session sees new.
Execute(new) ==
    /\ Reaches
    /\ autocommit' = (autocommit \/ link = "lost")
    /\ open' = (open \/ ~autocommit')
    /\ work' = new
    /\ stored' = IF open' THEN stored ELSE new

\* The two statements of BeginTransaction.
SetAutocommitOff ==
    /\ Reaches
    /\ autocommit' = FALSE
    /\ UNCHANGED <<stored, work, open>>

StartTransaction ==
    /\ Reaches
    /\ autocommit' = (autocommit \/ link = "lost")
    /\ stored' = work
    /\ open' = TRUE
    /\ UNCHANGED work

\* The two statements of CommitTransaction.
Commit ==
    /\ Reaches
    /\ autocommit' = (autocommit \/ link = "lost")
    /\ stored' = work
    /\ open' = FALSE
    /\ UNCHANGED work

SetAutocommitOn ==
    /\ Reaches
    /\ autocommit' = TRUE
    /\ stored' = work
    /\ open' = FALSE
    /\ UNCHANGED work

\* Mutant: RollbackTransaction commits.
RollbackKeeps ==
    /\ Reaches
    /\ autocommit' = (autocommit \/ link = "lost")
    /\ stored' = work
    /\ open' = FALSE
    /\ UNCHANGED work

\* The only statement of RollbackTransaction: AUTOCOMMIT stays as it is.
Rollback ==
    /\ Reaches
    /\ autocommit' = (autocommit \/ link = "lost")
    /\ work' = stored
    /\ open' = FALSE
    /\ UNCHANGED stored
=============================================================================
