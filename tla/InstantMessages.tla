--------------------------- MODULE InstantMessages ---------------------------
(***************************************************************************)
(* Instant messages: a message is written to the messages table, pushed to *)
(* its recipient if that plays, and handed out again whenever its game     *)
(* asks for what is pending, until the game acknowledges it.  The table is *)
(* handed out by the page, oldest first by the sender's clock.             *)
(*                                                                         *)
(* Private messages are acknowledged when they are shown.  An invitation   *)
(* to a clan is not: it stays until it is answered or withdrawn (Clans has *)
(* both), and takes a place on the page for as long.  The game itself is   *)
(* external, as far as it answers the server.                              *)
(***************************************************************************)
EXTENDS Naturals, Sequences, SequencesExt, FiniteSets

CONSTANTS
    Profiles,
    Page,         \* 20: how many messages are handed out at a time
    Clock,        \* what senders' clocks may show
    Contacts,     \* bound: who writes to whom
    MaxMessages,  \* bound: messages sent
    MaxOnWire,    \* bound: messages and acknowledgements under way
    MaxFaults     \* bound: failed queries and sends, ended connections

ASSUME MessagesAssumption ==
    /\ Page \in Nat \ {0}
    /\ Clock \subseteq Nat
    /\ Contacts \subseteq Profiles \X Profiles
    /\ MaxMessages \in Nat /\ MaxOnWire \in Nat /\ MaxFaults \in Nat

VARIABLES
    table,    \* the messages table
    nextId,   \* its AUTO_INCREMENT
    online,   \* the profiles that are played
    wire,     \* per profile: what is under way to its client, as ids
    acks,     \* per profile: acknowledgements under way to the server
    gone,     \* deleted profiles
    faults,   \* failures so far
    posted,   \* history: the messages that were ever in the table
    seen      \* history: the ids of the messages that were shown

delivery == <<online, wire, acks>>
vars == <<table, nextId, delivery, gone, faults, posted, seen>>

Ids == 1 .. MaxMessages

Messages == [id : Ids, sender : Profiles, recipient : Profiles,
             kind : {"private", "invite"}, writtenat : Clock]

\* The id of a message that could not be stored.
Unstored == 0

TypeOK ==
    /\ posted \subseteq Messages /\ table \subseteq posted
    /\ nextId \in 1 .. MaxMessages + 1
    /\ \A m \in posted : m.id < nextId
    /\ \A m, n \in posted : m.id = n.id => m = n
    /\ online \subseteq Profiles /\ gone \subseteq Profiles
    /\ wire \in [Profiles -> Seq({m.id : m \in posted} \union {Unstored})]
    /\ acks \in [Profiles -> Seq({m.id : m \in posted} \union {Unstored})]
    /\ \A p \in Profiles : p \notin online => wire[p] = <<>> /\ acks[p] = <<>>
    /\ faults \in 0 .. MaxFaults
    /\ seen \subseteq {m.id : m \in posted}

Init ==
    /\ table = {} /\ nextId = 1
    /\ online = {} /\ gone = {}
    /\ wire = [p \in Profiles |-> <<>>]
    /\ acks = [p \in Profiles |-> <<>>]
    /\ faults = 0
    /\ posted = {} /\ seen = {}

-----------------------------------------------------------------------------
(* The handlers *)

Fault ==
    /\ faults < MaxFaults
    /\ faults' = faults + 1

\* Part of ids is sent to the client of p, all of it unless a send fails.
SendAll(p, ids) ==
    /\ Len(wire[p]) + Len(acks[p]) + Len(ids) <= MaxOnWire
    /\ \/ /\ wire' = [wire EXCEPT ![p] = @ \o ids]
          /\ UNCHANGED faults
       \/ /\ Fault
          /\ \E n \in 1 .. Len(ids) :
                wire' = [wire EXCEPT ![p] = @ \o SubSeq(ids, 1, n - 1)]
    /\ UNCHANGED <<online, acks>>

\* The push, if the recipient plays.
Push(p, id) ==
    IF p \in online THEN SendAll(p, <<id>>) ELSE UNCHANGED <<delivery, faults>>

\* IM_SEND, and an invitation: SendInstantMessage stores the message first.
Send(s, r, k, t) ==
    LET m == [id |-> nextId, sender |-> s, recipient |-> r, kind |-> k, writtenat |-> t]
    IN  /\ s \in online /\ <<s, r>> \in Contacts
        /\ nextId <= MaxMessages
        /\ table' = table \union {m}
        /\ posted' = posted \union {m}
        /\ nextId' = nextId + 1
        /\ Push(r, m.id)
        /\ UNCHANGED <<gone, seen>>

\* The message could not be stored.  It is pushed all the same, without an id;
\* nobody learns of one that is not.
SendUnstored(s, r) ==
    /\ s \in online /\ <<s, r>> \in Contacts
    /\ Fault
    /\ IF r \in online /\ Len(wire[r]) + Len(acks[r]) < MaxOnWire
       THEN wire' = [wire EXCEPT ![r] = Append(@, Unstored)]
       ELSE UNCHANGED wire
    /\ UNCHANGED <<table, nextId, online, acks, gone, posted, seen>>

MessagesTo(p) == {m \in table : m.recipient = p}

\* QueryPendingMessages: a page of what is stored, oldest first.
Pages(p) ==
    {page \in UNION {[1 .. n -> MessagesTo(p)] : n \in 0 .. Page} :
        /\ IsInjective(page)
        /\ Len(page) = Page \/ Range(page) = MessagesTo(p)
        /\ \A i \in DOMAIN page : \A m \in MessagesTo(p) \ {page[j] : j \in 1 .. i} :
                page[i].writtenat <= m.writtenat}

\* Mutant: what has been handed out is deleted.
CheckPendingDeletes(p) ==
    /\ p \in online
    /\ \E page \in Pages(p) :
        /\ SendAll(p, [i \in DOMAIN page |-> page[i].id])
        /\ table' = table \ Range(page)
    /\ UNCHANGED <<nextId, gone, posted, seen>>

\* Mutant: the first message of the page is skipped.
CheckPendingFromOne(p) ==
    /\ p \in online
    /\ \E page \in Pages(p) : SendAll(p, [i \in 1 .. Len(page) - 1 |-> page[i + 1].id])
    /\ UNCHANGED <<table, nextId, gone, posted, seen>>

\* IM_CHECK_PENDING_MESSAGES.
CheckPending(p) ==
    /\ p \in online
    /\ \E page \in Pages(p) : SendAll(p, [i \in DOMAIN page |-> page[i].id])
    /\ UNCHANGED <<table, nextId, gone, posted, seen>>

\* IM_ACK: DeleteInstantMessage, which only takes the recipient's own.
Ack(p) ==
    /\ p \in online /\ acks[p] # <<>>
    /\ \/ /\ table' = {m \in table : ~(m.id = Head(acks[p]) /\ m.recipient = p)}
          /\ UNCHANGED faults
       \/ Fault /\ UNCHANGED table
    /\ acks' = [acks EXCEPT ![p] = Tail(@)]
    /\ UNCHANGED <<nextId, online, wire, gone, posted, seen>>

\* Clans removes an invitation: it was answered, or its clan is gone.
Withdraw(m) ==
    /\ m.kind = "invite"
    /\ table' = table \ {m}
    /\ UNCHANGED <<nextId, delivery, gone, faults, posted, seen>>

\* DeleteUserProfile takes the messages of the profile along, both ways.  It may
\* be played at the time.
DeleteProfile(p) ==
    /\ p \notin gone
    /\ gone' = gone \union {p}
    /\ table' = {m \in table : m.sender # p /\ m.recipient # p}
    /\ UNCHANGED <<nextId, delivery, faults, posted, seen>>

-----------------------------------------------------------------------------
(* The game *)

Connect(p) ==
    /\ p \notin online \union gone
    /\ online' = online \union {p}
    /\ UNCHANGED <<table, nextId, wire, acks, gone, faults, posted, seen>>

\* The connection ends: what was under way is lost.
Disconnect(p) ==
    /\ p \in online
    /\ Fault
    /\ online' = online \ {p}
    /\ wire' = [wire EXCEPT ![p] = <<>>]
    /\ acks' = [acks EXCEPT ![p] = <<>>]
    /\ UNCHANGED <<table, nextId, gone, posted, seen>>

IsInvite(id) == \E m \in posted : m.id = id /\ m.kind = "invite"

\* The next message arrives.  All but invitations are acknowledged.
Show(p) ==
    /\ p \in online /\ wire[p] # <<>>
    /\ LET id == Head(wire[p])
       IN  /\ seen' = seen \union ({id} \ {Unstored})
           /\ acks' = IF IsInvite(id) THEN acks ELSE [acks EXCEPT ![p] = Append(@, id)]
    /\ wire' = [wire EXCEPT ![p] = Tail(@)]
    /\ UNCHANGED <<table, nextId, online, gone, faults, posted>>

Next ==
    \/ \E s, r \in Profiles : \/ SendUnstored(s, r)
                              \/ \E k \in {"private", "invite"} : \E t \in Clock : Send(s, r, k, t)
    \/ \E m \in table : Withdraw(m)
    \/ \E p \in Profiles :
        \/ CheckPending(p) \/ Ack(p) \/ DeleteProfile(p)
        \/ Connect(p) \/ Disconnect(p) \/ Show(p)

Spec == Init /\ [][Next]_vars

-----------------------------------------------------------------------------
(* The table promises a mailbox of private messages                        *)

Private(messages) == {m \in messages : m.kind = "private"}

MB == INSTANCE Mailbox WITH
        waiting <- Private(table), posted <- Private(posted),
        shown <- {m \in Private(posted) : m.id \in seen}

\* A message that was stored is kept until its recipient has seen it: pushes,
\* pages and acknowledgements may be lost in any order, and it is handed out
\* again.
MailboxSpec == MB!Spec

-----------------------------------------------------------------------------
(* Progress *)

\* What the game does of itself: it comes back, asks, shows and acknowledges.
\* The server handles what it receives.
Progress(p) ==
    /\ WF_vars(Connect(p))
    /\ SF_vars(CheckPending(p) /\ UNCHANGED faults /\ wire # wire')
    /\ WF_vars(Show(p))
    /\ WF_vars(Ack(p))

FairSpec == Spec /\ \A p \in Profiles : Progress(p)

\* The page of p is full of what no acknowledgement removes.
Crowded(p) == Cardinality({m \in MessagesTo(p) : m.kind = "invite"}) >= Page

\* One of the two profiles of a message is deleted.
Departed(id) == \E m \in posted : m.id = id /\ {m.sender, m.recipient} \intersect gone # {}

\* Every private message in the table is shown in the end, unless one of the
\* two profiles goes or invitations that nobody answers keep it off the page
\* for good.
Delivered ==
    \A id \in Ids, r \in Profiles :
        (\E m \in Private(MessagesTo(r)) : m.id = id)
            ~> (id \in seen \/ Departed(id) \/ []Crowded(r))
=============================================================================
