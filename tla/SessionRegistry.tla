--------------------------- MODULE SessionRegistry ---------------------------
(***************************************************************************)
(* What the login protocol promises of accounts: a client plays under one  *)
(* account, an account is played by one client, and a session ends before  *)
(* its client or its account starts another.                               *)
(***************************************************************************)
CONSTANTS
    Clients,
    Accounts,
    NoAccount     \* the account of a client that is not logged in

VARIABLE session  \* per client: the account it is logged in to

Init == session = [c \in Clients |-> NoAccount]

SignIn(c, a) ==
    /\ session[c] = NoAccount
    /\ \A d \in Clients : session[d] # a
    /\ session' = [session EXCEPT ![c] = a]

SignOut(c) == session' = [session EXCEPT ![c] = NoAccount]

\* The server stops: every session ends.
SignOutAll == session' = [c \in Clients |-> NoAccount]

Next ==
    \/ \E c \in Clients : SignOut(c) \/ \E a \in Accounts : SignIn(c, a)
    \/ SignOutAll

RegistrySpec == Init /\ [][Next]_session
=============================================================================
