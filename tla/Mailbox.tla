------------------------------- MODULE Mailbox -------------------------------
(***************************************************************************)
(* What instant messaging promises: a message that was accepted waits      *)
(* until its recipient's game has shown it.  It may be shown more than     *)
(* once.  Only with one of the two profiles does it disappear unread.      *)
(***************************************************************************)
CONSTANTS
    Messages,   \* records with a sender and a recipient
    Profiles

VARIABLES
    posted,     \* the messages that were ever accepted
    waiting,    \* those that are kept
    shown,      \* those their recipients have seen
    gone        \* deleted profiles

vars == <<posted, waiting, shown, gone>>

Init == posted = {} /\ waiting = {} /\ shown = {} /\ gone = {}

Post(m) ==
    /\ m \notin posted
    /\ posted' = posted \union {m}
    /\ waiting' = waiting \union {m}
    /\ UNCHANGED <<shown, gone>>

Show(m) ==
    /\ m \in posted
    /\ shown' = shown \union {m}
    /\ UNCHANGED <<posted, waiting, gone>>

Forget(m) ==
    /\ m \in waiting \intersect shown
    /\ waiting' = waiting \ {m}
    /\ UNCHANGED <<posted, shown, gone>>

Leave(p) ==
    /\ gone' = gone \union {p}
    /\ waiting' = {m \in waiting : m.sender # p /\ m.recipient # p}
    /\ UNCHANGED <<posted, shown>>

Next ==
    \/ \E m \in Messages : Post(m) \/ Show(m) \/ Forget(m)
    \/ \E p \in Profiles : Leave(p)

Spec == Init /\ [][Next]_vars
=============================================================================
