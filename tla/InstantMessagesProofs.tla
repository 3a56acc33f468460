------------------------ MODULE InstantMessagesProofs ------------------------
(***************************************************************************)
(* Instant messages implement a mailbox for any profiles, contacts, pages  *)
(* and clocks, and for any number of messages and faults: no private       *)
(* message is lost unread.                                                 *)
(***************************************************************************)
EXTENDS InstantMessages, SequenceTheorems, TLAPS

\* The ids a client or the server may name.
Known(ms) == {m.id : m \in ms} \union {Unstored}

\* What is acknowledged has been shown.
Acknowledged == \A p \in Profiles : acks[p] \in Seq(seen \union {Unstored})

IInv == TypeOK /\ Acknowledged

-----------------------------------------------------------------------------
(* What is under way *)

\* Sending puts nothing but the given ids on the way, and only to p.
LEMMA Sending ==
  ASSUME NEW S, wire \in [Profiles -> Seq(S)], faults \in 0 .. MaxFaults,
         NEW p \in Profiles, NEW ids \in Seq(S), SendAll(p, ids)
  PROVE  /\ wire' \in [Profiles -> Seq(S)]
         /\ \A q \in Profiles \ {p} : wire'[q] = wire[q]
         /\ faults' \in 0 .. MaxFaults
         /\ UNCHANGED <<online, acks>>
<1>1. wire[p] \in Seq(S)
  OBVIOUS
<1>2. UNCHANGED <<online, acks>>
  BY DEF SendAll
<1>3. CASE wire' = [wire EXCEPT ![p] = @ \o ids] /\ UNCHANGED faults
  <2>1. wire[p] \o ids \in Seq(S)
    BY <1>1, ConcatProperties
  <2>. QED
    BY <2>1, <1>2, <1>3
<1>4. ASSUME Fault, NEW n \in 1 .. Len(ids), wire' = [wire EXCEPT ![p] = @ \o SubSeq(ids, 1, n - 1)]
      PROVE  /\ wire' \in [Profiles -> Seq(S)]
             /\ \A q \in Profiles \ {p} : wire'[q] = wire[q]
             /\ faults' \in 0 .. MaxFaults
  <2>0. Len(ids) \in Nat
    BY LenProperties
  <2>1. SubSeq(ids, 1, n - 1) \in Seq(S)
    <3>1. \A i \in 1 .. n - 1 : ids[i] \in S
      BY <2>0, ElementOfSeq
    <3>2. n - 1 \in Nat
      BY <2>0
    <3>. QED
      BY <3>1, <3>2, <2>0, SubSeqProperties
  <2>2. wire[p] \o SubSeq(ids, 1, n - 1) \in Seq(S)
    BY <1>1, <2>1, ConcatProperties
  <2>3. faults' \in 0 .. MaxFaults
    BY <1>4, MessagesAssumption DEF Fault
  <2>. QED
    BY <1>4, <2>2, <2>3
<1>. QED
  BY <1>2, <1>3, <1>4 DEF SendAll

\* What is known of the wires in every state.
LEMMA Wires ==
  ASSUME IInv
  PROVE  /\ wire \in [Profiles -> Seq(Known(posted))] /\ acks \in [Profiles -> Seq(Known(posted))]
         /\ acks \in [Profiles -> Seq(seen \union {Unstored})]
         /\ seen \union {Unstored} \subseteq Known(posted)
         /\ faults \in 0 .. MaxFaults /\ MaxFaults \in Nat
         /\ nextId \in Nat /\ MaxMessages \in Nat
<1>1. /\ wire \in [Profiles -> Seq(Known(posted))] /\ acks \in [Profiles -> Seq(Known(posted))]
      /\ seen \union {Unstored} \subseteq Known(posted)
      /\ faults \in 0 .. MaxFaults /\ nextId \in 1 .. MaxMessages + 1
  BY DEF IInv, TypeOK, Known
<1>2. acks \in [Profiles -> Seq(seen \union {Unstored})]
  BY <1>1 DEF IInv, Acknowledged
<1>. QED
  BY <1>1, <1>2, MessagesAssumption

\* Steps that leave the messages alone keep the invariant if they keep the
\* wires in order.
LEMMA WiresKeep ==
  ASSUME IInv, UNCHANGED <<table, nextId, gone, posted, seen>>,
         online' \subseteq Profiles, faults' \in 0 .. MaxFaults,
         wire' \in [Profiles -> Seq(Known(posted))],
         acks' \in [Profiles -> Seq(seen \union {Unstored})],
         \A p \in Profiles : p \notin online' => wire'[p] = <<>> /\ acks'[p] = <<>>
  PROVE  IInv' /\ UNCHANGED MB!vars
<1>1. seen \union {Unstored} \subseteq Known(posted)
  BY Wires
<1>2. acks' \in [Profiles -> Seq(Known(posted))]
  BY <1>1, SeqMonotonic
<1>3. TypeOK'
  BY <1>2 DEF IInv, TypeOK, Known
<1>4. Acknowledged'
  BY DEF Acknowledged
<1>5. UNCHANGED MB!vars
  BY DEF MB!vars, Private
<1>. QED
  BY <1>3, <1>4, <1>5 DEF IInv

\* A page holds messages of the table.
LEMMA PageOfTable ==
  ASSUME IInv, NEW p \in Profiles, NEW page \in Pages(p)
  PROVE  [i \in DOMAIN page |-> page[i].id] \in Seq(Known(posted))
<1>1. PICK n \in 0 .. Page : page \in [1 .. n -> MessagesTo(p)]
  BY DEF Pages
<1>2. DOMAIN page = 1 .. n /\ n \in Nat
  BY <1>1, MessagesAssumption
<1>3. \A i \in 1 .. n : page[i].id \in Known(posted)
  BY <1>1 DEF MessagesTo, IInv, TypeOK, Known
<1>. QED
  BY <1>2, <1>3, IsASeq

\* Asking for what is pending only puts messages of the table on the way.
LEMMA CheckPendingKeeps ==
  ASSUME IInv, NEW p \in Profiles, CheckPending(p)
  PROVE  IInv' /\ UNCHANGED MB!vars
<1>1. PICK page \in Pages(p) : SendAll(p, [i \in DOMAIN page |-> page[i].id])
  BY DEF CheckPending
<1>. DEFINE ids == [i \in DOMAIN page |-> page[i].id]
<1>2. ids \in Seq(Known(posted)) /\ SendAll(p, ids)
  BY <1>1, PageOfTable
<1>. HIDE DEF ids
<1>3. /\ wire' \in [Profiles -> Seq(Known(posted))]
      /\ \A q \in Profiles \ {p} : wire'[q] = wire[q]
      /\ faults' \in 0 .. MaxFaults
      /\ UNCHANGED <<online, acks>>
  BY <1>2, Wires, Sending
<1>4. /\ p \in online /\ UNCHANGED <<table, nextId, gone, posted, seen>>
  BY DEF CheckPending
<1>5. /\ online \subseteq Profiles /\ acks \in [Profiles -> Seq(seen \union {Unstored})]
      /\ \A q \in Profiles : q \notin online => wire[q] = <<>> /\ acks[q] = <<>>
  BY Wires DEF IInv, TypeOK
<1>. QED
  BY <1>3, <1>4, <1>5, WiresKeep

\* So does a message that could not be stored, without an id.
LEMMA SendUnstoredKeeps ==
  ASSUME IInv, NEW s \in Profiles, NEW r \in Profiles, SendUnstored(s, r)
  PROVE  IInv' /\ UNCHANGED MB!vars
<1>1. /\ UNCHANGED <<table, nextId, online, acks, gone, posted, seen>>
      /\ faults' \in 0 .. MaxFaults
  BY Wires DEF SendUnstored, Fault
<1>2. /\ online \subseteq Profiles /\ acks \in [Profiles -> Seq(seen \union {Unstored})]
      /\ \A q \in Profiles : q \notin online => wire[q] = <<>> /\ acks[q] = <<>>
      /\ wire \in [Profiles -> Seq(Known(posted))] /\ Unstored \in Known(posted)
  BY Wires DEF IInv, TypeOK
<1>3. CASE r \in online /\ wire' = [wire EXCEPT ![r] = Append(@, Unstored)]
  <2>1. Append(wire[r], Unstored) \in Seq(Known(posted))
    BY <1>2, AppendProperties
  <2>2. wire' \in [Profiles -> Seq(Known(posted))]
    BY <2>1, <1>2, <1>3
  <2>. QED
    BY <2>2, <1>1, <1>2, <1>3, WiresKeep
<1>4. CASE UNCHANGED wire
  BY <1>1, <1>2, <1>4, WiresKeep
<1>. QED
  BY <1>3, <1>4 DEF SendUnstored

\* Connections begin and end with nothing under way.
LEMMA ConnectionKeeps ==
  ASSUME IInv, NEW p \in Profiles, Connect(p) \/ Disconnect(p)
  PROVE  IInv' /\ UNCHANGED MB!vars
<1>1. /\ online \subseteq Profiles /\ acks \in [Profiles -> Seq(seen \union {Unstored})]
      /\ \A q \in Profiles : q \notin online => wire[q] = <<>> /\ acks[q] = <<>>
      /\ wire \in [Profiles -> Seq(Known(posted))]
      /\ faults \in 0 .. MaxFaults /\ MaxFaults \in Nat
  BY Wires DEF IInv, TypeOK
<1>2. CASE Connect(p)
  <2>1. /\ online' = online \union {p}
        /\ UNCHANGED <<table, nextId, wire, acks, gone, faults, posted, seen>>
    BY <1>2 DEF Connect
  <2>. QED
    BY <2>1, <1>1, WiresKeep
<1>3. CASE Disconnect(p)
  <2>1. /\ online' = online \ {p} /\ faults' = faults + 1 /\ faults < MaxFaults
        /\ wire' = [wire EXCEPT ![p] = <<>>] /\ acks' = [acks EXCEPT ![p] = <<>>]
        /\ UNCHANGED <<table, nextId, gone, posted, seen>>
    BY <1>3 DEF Disconnect, Fault
  <2>2. /\ wire' \in [Profiles -> Seq(Known(posted))]
        /\ acks' \in [Profiles -> Seq(seen \union {Unstored})]
        /\ \A q \in Profiles : q \notin online' => wire'[q] = <<>> /\ acks'[q] = <<>>
        /\ faults' \in 0 .. MaxFaults
    BY <2>1, <1>1, EmptySeq
  <2>. QED
    BY <2>1, <2>2, <1>1, WiresKeep
<1>. QED
  BY <1>2, <1>3

-----------------------------------------------------------------------------
(* Messages come, are shown, and go *)

\* A stored message is posted, pushed or not.
LEMMA SendKeeps ==
  ASSUME IInv, NEW s \in Profiles, NEW r \in Profiles, NEW k \in {"private", "invite"},
         NEW t \in Clock, Send(s, r, k, t)
  PROVE  IInv' /\ [MB!Next]_MB!vars
<1>. DEFINE m == [id |-> nextId, sender |-> s, recipient |-> r, kind |-> k, writtenat |-> t]
<1>1. /\ nextId <= MaxMessages /\ nextId' = nextId + 1
      /\ table' = table \union {m} /\ posted' = posted \union {m}
      /\ Push(r, nextId) /\ UNCHANGED <<gone, seen>>
  BY DEF Send
<1>2. /\ posted \subseteq Messages /\ table \subseteq posted
      /\ nextId \in 1 .. MaxMessages + 1 /\ MaxMessages \in Nat
      /\ \A n \in posted : n.id < nextId
      /\ \A n, o \in posted : n.id = o.id => n = o
      /\ online \subseteq Profiles /\ gone \subseteq Profiles
      /\ \A q \in Profiles : q \notin online => wire[q] = <<>> /\ acks[q] = <<>>
      /\ seen \subseteq {n.id : n \in posted}
  BY Wires DEF IInv, TypeOK
<1>3. m \in Messages /\ m.id = nextId /\ m.kind = k /\ m \notin posted
  <2>1. nextId \in Ids
    BY <1>1, <1>2 DEF Ids
  <2>2. m \in Messages
    BY <2>1 DEF Messages
  <2>3. \A n \in posted : n.id \in Nat
    BY <1>2 DEF Messages, Ids
  <2>. QED
    BY <2>2, <2>3, <1>2
<1>4. Known(posted') = Known(posted) \union {nextId}
  BY <1>1, <1>3 DEF Known
<1>. HIDE DEF m
<1>5. /\ wire' \in [Profiles -> Seq(Known(posted'))]
      /\ \A q \in Profiles : q \notin online => wire'[q] = <<>>
      /\ faults' \in 0 .. MaxFaults
      /\ UNCHANGED <<online, acks>>
  <2>1. wire \in [Profiles -> Seq(Known(posted'))]
    BY <1>4, Wires, SeqMonotonic
  <2>2. CASE r \in online /\ SendAll(r, <<nextId>>)
    <3>1. <<nextId>> \in Seq(Known(posted'))
      BY <1>4
    <3>2. /\ wire' \in [Profiles -> Seq(Known(posted'))]
          /\ \A q \in Profiles \ {r} : wire'[q] = wire[q]
          /\ faults' \in 0 .. MaxFaults
          /\ UNCHANGED <<online, acks>>
      BY <2>1, <2>2, <3>1, Wires, Sending
    <3>. QED
      BY <3>2, <2>2, <1>2
  <2>3. CASE UNCHANGED <<delivery, faults>>
    BY <2>1, <2>3, <1>2, Wires DEF delivery
  <2>. QED
    BY <2>2, <2>3, <1>1 DEF Push
<1>6. TypeOK'
  <2>1. posted' \subseteq Messages /\ table' \subseteq posted'
    BY <1>1, <1>2, <1>3
  <2>2. nextId' \in 1 .. MaxMessages + 1
    BY <1>1, <1>2
  <2>3. \A n \in posted' : n.id < nextId'
    <3>1. \A n \in posted : n.id \in Nat
      BY <1>2 DEF Messages, Ids
    <3>. QED
      BY <3>1, <1>1, <1>2, <1>3
  <2>4. \A n, o \in posted' : n.id = o.id => n = o
    <3>1. \A n \in posted : n.id # m.id
      <4>1. \A n \in posted : n.id \in Nat
        BY <1>2 DEF Messages, Ids
      <4>. QED
        BY <4>1, <1>2, <1>3
    <3>. QED
      BY <3>1, <1>1, <1>2
  <2>5. acks' \in [Profiles -> Seq(Known(posted'))]
    BY <1>4, <1>5, Wires, SeqMonotonic
  <2>6. seen' \subseteq {n.id : n \in posted'}
    BY <1>1, <1>2
  <2>. QED
    BY <2>1, <2>2, <2>3, <2>4, <2>5, <2>6, <1>1, <1>2, <1>5 DEF TypeOK, Known
<1>7. Acknowledged'
  BY <1>1, <1>5, Wires DEF Acknowledged
<1>8. m.id \notin seen
  <2>1. \A n \in posted : n.id \in Nat
    BY <1>2 DEF Messages, Ids
  <2>. QED
    BY <2>1, <1>2, <1>3
<1>9. CASE k = "private"
  <2>1. /\ m \notin Private(posted)
        /\ Private(posted') = Private(posted) \union {m}
        /\ Private(table') = Private(table) \union {m}
    BY <1>1, <1>3, <1>9 DEF Private
  <2>2. {n \in Private(posted') : n.id \in seen'} = {n \in Private(posted) : n.id \in seen}
    BY <2>1, <1>1, <1>8
  <2>3. MB!Post(m)
    BY <2>1, <2>2, <1>1 DEF MB!Post
  <2>. QED
    BY <2>3, <1>3, <1>6, <1>7 DEF MB!Next, IInv
<1>10. CASE k = "invite"
  <2>1. /\ Private(posted') = Private(posted)
        /\ Private(table') = Private(table)
    BY <1>1, <1>3, <1>10 DEF Private
  <2>2. UNCHANGED MB!vars
    BY <2>1, <1>1 DEF MB!vars
  <2>. QED
    BY <2>2, <1>6, <1>7 DEF IInv
<1>. QED
  BY <1>9, <1>10

\* Steps that take messages from the table and leave the wires alone.
LEMMA TableKeeps ==
  ASSUME IInv, table' \subseteq table, gone' \subseteq Profiles,
         UNCHANGED <<nextId, delivery, faults, posted, seen>>
  PROVE  IInv'
BY DEF IInv, TypeOK, Acknowledged, delivery

\* An invitation that is withdrawn is not a private message.
LEMMA WithdrawKeeps ==
  ASSUME IInv, NEW m \in table, Withdraw(m)
  PROVE  IInv' /\ UNCHANGED MB!vars
<1>1. /\ m.kind = "invite" /\ table' = table \ {m}
      /\ UNCHANGED <<nextId, delivery, gone, faults, posted, seen>>
  BY DEF Withdraw
<1>2. gone' \subseteq Profiles
  BY <1>1 DEF IInv, TypeOK
<1>3. Private(table') = Private(table)
  BY <1>1 DEF Private
<1>. QED
  BY <1>1, <1>2, <1>3, TableKeeps DEF MB!vars, Private

\* With a profile its messages go.
LEMMA DeleteProfileKeeps ==
  ASSUME IInv, NEW p \in Profiles, DeleteProfile(p)
  PROVE  IInv' /\ MB!Leave(p)
<1>1. /\ gone' = gone \union {p}
      /\ table' = {m \in table : m.sender # p /\ m.recipient # p}
      /\ UNCHANGED <<nextId, delivery, faults, posted, seen>>
  BY DEF DeleteProfile
<1>2. gone' \subseteq Profiles
  BY <1>1 DEF IInv, TypeOK
<1>3. Private(table') = {m \in Private(table) : m.sender # p /\ m.recipient # p}
  BY <1>1 DEF Private
<1>. QED
  BY <1>1, <1>2, <1>3, TableKeeps DEF MB!Leave, Private

\* An acknowledgement takes a message that has been shown, and only that one.
LEMMA AckKeeps ==
  ASSUME IInv, NEW p \in Profiles, Ack(p)
  PROVE  IInv' /\ [MB!Next]_MB!vars
<1>. DEFINE id == Head(acks[p])
            Hit(m) == m.id = id /\ m.recipient = p
<1>1. /\ p \in online /\ acks[p] # <<>> /\ acks' = [acks EXCEPT ![p] = Tail(@)]
      /\ UNCHANGED <<nextId, online, wire, gone, posted, seen>>
      /\ table' = {m \in table : ~Hit(m)} \/ UNCHANGED table
      /\ faults' \in 0 .. MaxFaults
  BY Wires DEF Ack, Fault
<1>2. acks[p] \in Seq(seen \union {Unstored}) /\ acks[p] \in Seq(Known(posted))
  BY Wires
<1>3. id \in seen \union {Unstored} /\ Tail(acks[p]) \in Seq(seen \union {Unstored})
  BY <1>1, <1>2, HeadTailProperties
<1>4. Tail(acks[p]) \in Seq(Known(posted))
  BY <1>1, <1>2, HeadTailProperties
<1>5. /\ acks' \in [Profiles -> Seq(seen' \union {Unstored})]
      /\ acks' \in [Profiles -> Seq(Known(posted'))]
  BY <1>1, <1>3, <1>4, Wires DEF Known
<1>6. table' \subseteq table
  BY <1>1
<1>7. IInv'
  BY <1>1, <1>5, <1>6 DEF IInv, TypeOK, Acknowledged, Known
<1>8. [MB!Next]_MB!vars
  <2>1. CASE \E m \in Private(table) : Hit(m) /\ m \notin table'
    <3>1. PICK m \in Private(table) : Hit(m) /\ m \notin table'
      BY <2>1
    <3>2. m \in posted /\ m \in Messages /\ m \in Private(posted)
      BY <3>1 DEF IInv, TypeOK, Private
    <3>3. m.id \in seen
      BY <3>1, <3>2, <1>3 DEF Messages, Ids, Unstored
    <3>4. \A n \in table : Hit(n) => n = m
      BY <3>1, <3>2 DEF IInv, TypeOK
    <3>5. table' = {n \in table : ~Hit(n)}
      BY <3>1, <1>1 DEF Private
    <3>6. Private(table') = Private(table) \ {m}
      BY <3>1, <3>4, <3>5 DEF Private
    <3>7. MB!Forget(m)
      BY <3>1, <3>2, <3>3, <3>6, <1>1 DEF MB!Forget
    <3>. QED
      BY <3>2, <3>7 DEF MB!Next
  <2>2. CASE ~\E m \in Private(table) : Hit(m) /\ m \notin table'
    <3>1. Private(table') = Private(table)
      BY <2>2, <1>1 DEF Private
    <3>. QED
      BY <3>1, <1>1 DEF MB!vars
  <2>. QED
    BY <2>1, <2>2
<1>. QED
  BY <1>7, <1>8

\* A message that arrives is shown, and acknowledged after that.
LEMMA ShowKeeps ==
  ASSUME IInv, NEW p \in Profiles, Show(p)
  PROVE  IInv' /\ [MB!Next]_MB!vars
<1>. DEFINE id == Head(wire[p])
<1>1. /\ p \in online /\ wire[p] # <<>>
      /\ seen' = seen \union ({id} \ {Unstored})
      /\ acks' = acks \/ acks' = [acks EXCEPT ![p] = Append(@, id)]
      /\ wire' = [wire EXCEPT ![p] = Tail(@)]
      /\ UNCHANGED <<table, nextId, online, gone, faults, posted>>
  BY DEF Show
<1>2. wire[p] \in Seq(Known(posted)) /\ wire \in [Profiles -> Seq(Known(posted))]
  BY Wires
<1>3. id \in Known(posted) /\ Tail(wire[p]) \in Seq(Known(posted))
  BY <1>1, <1>2, HeadTailProperties
<1>4. wire' \in [Profiles -> Seq(Known(posted'))]
  BY <1>1, <1>2, <1>3
<1>. HIDE DEF id
<1>5. seen' \subseteq {m.id : m \in posted'}
  BY <1>1, <1>3 DEF IInv, TypeOK, Known
<1>6. acks' \in [Profiles -> Seq(seen' \union {Unstored})]
  <2>1. acks \in [Profiles -> Seq(seen' \union {Unstored})]
    <3>1. seen \union {Unstored} \subseteq seen' \union {Unstored}
      BY <1>1
    <3>. QED
      BY <3>1, Wires, SeqMonotonic
  <2>2. Append(acks[p], id) \in Seq(seen' \union {Unstored})
    <3>1. id \in seen' \union {Unstored}
      BY <1>1
    <3>. QED
      BY <3>1, <2>1, AppendProperties
  <2>. QED
    BY <2>1, <2>2, <1>1
<1>7. acks' \in [Profiles -> Seq(Known(posted'))]
  <2>1. seen' \union {Unstored} \subseteq Known(posted')
    BY <1>5 DEF Known
  <2>. QED
    BY <2>1, <1>6, SeqMonotonic
<1>8. \A q \in Profiles : q \notin online' => wire'[q] = <<>> /\ acks'[q] = <<>>
  BY <1>1, Wires DEF IInv, TypeOK
<1>9. IInv'
  BY <1>1, <1>4, <1>5, <1>6, <1>7, <1>8 DEF IInv, TypeOK, Acknowledged, Known
<1>10. [MB!Next]_MB!vars
  <2>1. Private(table') = Private(table) /\ Private(posted') = Private(posted)
    BY <1>1 DEF Private
  <2>2. CASE \E m \in Private(posted) : m.id = id
    <3>1. PICK m \in Private(posted) : m.id = id
      BY <2>2
    <3>2. m \in posted /\ m \in Messages /\ id # Unstored
      BY <3>1 DEF IInv, TypeOK, Private, Messages, Ids, Unstored
    <3>3. \A n \in Private(posted) : n.id = id => n = m
      BY <3>1 DEF IInv, TypeOK, Private
    <3>4. {n \in Private(posted') : n.id \in seen'} =
             {n \in Private(posted) : n.id \in seen} \union {m}
      BY <3>1, <3>2, <3>3, <2>1, <1>1
    <3>5. MB!Show(m)
      BY <3>1, <3>4, <2>1, <1>1 DEF MB!Show
    <3>. QED
      BY <3>2, <3>5 DEF MB!Next
  <2>3. CASE ~\E m \in Private(posted) : m.id = id
    <3>1. {n \in Private(posted') : n.id \in seen'} = {n \in Private(posted) : n.id \in seen}
      BY <2>3, <2>1, <1>1
    <3>. QED
      BY <3>1, <2>1, <1>1 DEF MB!vars
  <2>. QED
    BY <2>2, <2>3
<1>. QED
  BY <1>9, <1>10

-----------------------------------------------------------------------------

\* To begin with there is nothing.
LEMMA Beginning == Init => IInv /\ MB!Init
<1>. SUFFICES ASSUME Init PROVE IInv /\ MB!Init
  OBVIOUS
<1>1. wire \in [Profiles -> Seq(Known(posted))] /\ acks \in [Profiles -> Seq(Known(posted))]
  BY DEF Init
<1>2. TypeOK
  BY <1>1, MessagesAssumption DEF Init, TypeOK, Known
<1>3. Acknowledged
  BY DEF Init, Acknowledged
<1>4. MB!Init
  BY DEF Init, MB!Init, Private
<1>. QED
  BY <1>2, <1>3, <1>4 DEF IInv

\* Every step keeps the invariant and is a step of the mailbox, or none.
LEMMA StepKeeps == IInv /\ [Next]_vars => IInv' /\ [MB!Next]_MB!vars
<1>. SUFFICES ASSUME IInv, [Next]_vars PROVE IInv' /\ [MB!Next]_MB!vars
  OBVIOUS
<1>1. ASSUME NEW s \in Profiles, NEW r \in Profiles, SendUnstored(s, r)
      PROVE  IInv' /\ [MB!Next]_MB!vars
  BY <1>1, SendUnstoredKeeps
<1>2. ASSUME NEW s \in Profiles, NEW r \in Profiles, NEW k \in {"private", "invite"},
             NEW t \in Clock, Send(s, r, k, t)
      PROVE  IInv' /\ [MB!Next]_MB!vars
  BY <1>2, SendKeeps
<1>3. ASSUME NEW m \in table, Withdraw(m) PROVE IInv' /\ [MB!Next]_MB!vars
  BY <1>3, WithdrawKeeps
<1>4. ASSUME NEW p \in Profiles, CheckPending(p) PROVE IInv' /\ [MB!Next]_MB!vars
  BY <1>4, CheckPendingKeeps
<1>5. ASSUME NEW p \in Profiles, Ack(p) PROVE IInv' /\ [MB!Next]_MB!vars
  BY <1>5, AckKeeps
<1>6. ASSUME NEW p \in Profiles, DeleteProfile(p) PROVE IInv' /\ [MB!Next]_MB!vars
  BY <1>6, DeleteProfileKeeps DEF MB!Next
<1>7. ASSUME NEW p \in Profiles, Connect(p) \/ Disconnect(p)
      PROVE  IInv' /\ [MB!Next]_MB!vars
  BY <1>7, ConnectionKeeps
<1>8. ASSUME NEW p \in Profiles, Show(p) PROVE IInv' /\ [MB!Next]_MB!vars
  BY <1>8, ShowKeeps
<1>9. CASE UNCHANGED vars
  BY <1>9 DEF vars, delivery, IInv, TypeOK, Acknowledged, MB!vars, Private
<1>. QED
  BY <1>1, <1>2, <1>3, <1>4, <1>5, <1>6, <1>7, <1>8, <1>9 DEF Next

\* The invariant holds in every state.
LEMMA Invariant == Spec => []IInv
BY Beginning, StepKeeps, PTL DEF Spec

\* The table, the wires and the histories are of their types: ids are never
\* used twice, and nothing is under way to a profile nobody plays.
THEOREM TypeCorrect == Spec => []TypeOK
<1>1. IInv => TypeOK
  BY DEF IInv
<1>. QED
  BY <1>1, Invariant, PTL

\* For any number of profiles, messages and faults, any page and any clocks, a
\* private message that was stored is kept until its recipient has seen it or
\* one of the two profiles is deleted.
THEOREM MailboxCorrect == Spec => MailboxSpec
BY Beginning, StepKeeps, Invariant, PTL DEF Spec, MailboxSpec, MB!Spec
=============================================================================
