----------------------------- MODULE ClansProofs -----------------------------
(***************************************************************************)
(* Theorems about Clans, for any profiles and clan ids, any number of      *)
(* messages under way, of failed queries and of late requests.             *)
(*                                                                         *)
(* That memory and rows agree is inductive, given the types.  That no row  *)
(* names a clan that is gone is not: the last member is found by counting  *)
(* rows, while the clan it leaves is that in memory.  CopiesAgree adds     *)
(* that where the two differ, a failed query is on record for both clans.  *)
(* That a clan has one leader needs this as well, and that members have a  *)
(* rank (who may rank whom compares ranks) and that an id is handed out    *)
(* once (a new clan has no members yet): IInv.  Rights that are current    *)
(* need that memory and rows agree, and that a clan that is gone has no    *)
(* player of the week, so that a new one starts without: Rights.           *)
(***************************************************************************)
EXTENDS Clans, FiniteSetTheorems, TLAPS

-----------------------------------------------------------------------------
(* The memory of a client and the row of its profile *)

\* Only profiles are played, and the copies are memberships.
Copies ==
    /\ online \subseteq Profiles
    /\ row \in [Profiles -> Membership]
    /\ mem \in [Profiles -> Membership]

\* setClanId changes both copies of a profile alike, or records that it did not.
LEMMA SetClanIdAgrees ==
  ASSUME Copies, MemoryMatchesRow, NEW p, NEW c, NEW r, NEW failed,
         UNCHANGED online, SetClanId(p, c, r, failed)
  PROVE  MemoryMatchesRow'
BY DEF Copies, MemoryMatchesRow, SetClanId, Write, Played

\* So does setRankInClan.
LEMMA SetRankAgrees ==
  ASSUME Copies, MemoryMatchesRow, NEW p, NEW r, NEW failed,
         UNCHANGED online, SetRankInClan(p, r, failed)
  PROVE  MemoryMatchesRow'
BY DEF Copies, MemoryMatchesRow, SetRankInClan, Write, Played

\* Copies are made anew, or go with the client.
LEMMA LogOutAgrees ==
  ASSUME Copies, MemoryMatchesRow, NEW ps, UNCHANGED row, LogOut(ps)
  PROVE  MemoryMatchesRow'
BY DEF Copies, MemoryMatchesRow, LogOut

\* The agreement of memory and rows is inductive, given the copies' types.
LEMMA AgreementStep == Copies /\ MemoryMatchesRow /\ [Next]_vars => MemoryMatchesRow'
<1>. SUFFICES ASSUME Copies, MemoryMatchesRow, [Next]_vars
              PROVE  MemoryMatchesRow'
  OBVIOUS
<1>1. ASSUME NEW p \in Profiles, Login(p)
      PROVE  MemoryMatchesRow'
  BY <1>1 DEF Login, Copies, MemoryMatchesRow
<1>2. ASSUME NEW p \in Profiles, Disconnect(p)
      PROVE  MemoryMatchesRow'
  BY <1>2, LogOutAgrees DEF Disconnect
<1>3. CASE Crash
  BY <1>3, LogOutAgrees DEF Crash
<1>4. ASSUME NEW p \in Profiles, NEW c, NEW fault,
             CreateClan(p, c, fault) \/ Accept(p, c, fault)
      PROVE  MemoryMatchesRow'
  BY <1>4, SetClanIdAgrees DEF CreateClan, Accept
<1>5. ASSUME NEW p \in Profiles, NEW q, ModifyClan(p, q)
      PROVE  MemoryMatchesRow'
  BY <1>5 DEF ModifyClan, MemoryMatchesRow
<1>6. ASSUME NEW p \in Profiles, NEW q \in Profiles, ModifyRanks(p, q)
      PROVE  MemoryMatchesRow'
  <2>1. ASSUME NEW fault, Kick(p, q, fault)
        PROVE  MemoryMatchesRow'
    BY <2>1, SetClanIdAgrees DEF Kick
  <2>2. ASSUME NEW fault, Leave(p, fault) \/ LeaveAsLast(p, fault)
        PROVE  MemoryMatchesRow'
    BY <2>2, SetClanIdAgrees DEF Leave, LeaveAsLast
  <2>3. ASSUME NEW fault, LeaveToHeir(p, fault)
        PROVE  MemoryMatchesRow'
    BY <2>3 DEF LeaveToHeir, Succeed, Write, Played, Copies, MemoryMatchesRow
  <2>4. ASSUME NEW fault, LeaveToNobody(p, fault)
        PROVE  MemoryMatchesRow'
    BY <2>4, LogOutAgrees DEF LeaveToNobody
  <2>5. ASSUME NEW fault, HandOver(p, q, fault)
        PROVE  MemoryMatchesRow'
    BY <2>5 DEF HandOver, Write, Played, Copies, MemoryMatchesRow
  <2>6. ASSUME NEW fault, NEW option, SetRank(p, q, option, fault)
        PROVE  MemoryMatchesRow'
    BY <2>6, SetRankAgrees DEF SetRank
  <2>. QED
    BY <1>6, <2>1, <2>2, <2>3, <2>4, <2>5, <2>6 DEF ModifyRanks
<1>7. ASSUME NEW p \in Profiles, NEW q, NEW fault, Invite(p, q, fault)
      PROVE  MemoryMatchesRow'
  BY <1>7 DEF Invite, MemoryMatchesRow
<1>8. ASSUME NEW p \in Profiles, SendClanMessage(p)
      PROVE  MemoryMatchesRow'
  BY <1>8 DEF SendClanMessage, MemoryMatchesRow
<1>9. ASSUME NEW m, Acknowledge(m)
      PROVE  MemoryMatchesRow'
  BY <1>9 DEF Acknowledge, MemoryMatchesRow
<1>10. CASE UNCHANGED vars
  BY <1>10 DEF vars, MemoryMatchesRow
<1>. QED
  BY <1>1, <1>2, <1>3, <1>4, <1>5, <1>6, <1>7, <1>8, <1>9, <1>10 DEF Next, HandleMessage

-----------------------------------------------------------------------------
(* Types *)

Ranks == {0, Leader, Officer, Grunt}

LEMMA TypeGivesCopies == TypeOK => Copies
BY DEF TypeOK, Copies

LEMMA SetClanIdTypes ==
  ASSUME TypeOK, NEW p, NEW c \in ClanIds \cup {NoClan}, NEW r \in Ranks,
         NEW failed, UNCHANGED online, SetClanId(p, c, r, failed)
  PROVE  Copies' /\ (lost \subseteq online)'
BY DEF TypeOK, Copies, SetClanId, Write, Played, Membership, Ranks

LEMMA SetRankTypes ==
  ASSUME TypeOK, NEW p, NEW r \in Ranks, NEW failed,
         UNCHANGED online, SetRankInClan(p, r, failed)
  PROVE  Copies' /\ (lost \subseteq online)'
BY DEF TypeOK, Copies, SetRankInClan, Write, Played, Membership, Ranks

LEMMA LogOutTypes ==
  ASSUME TypeOK, NEW ps, UNCHANGED row, LogOut(ps)
  PROVE  Copies' /\ (lost \subseteq online)'
BY DEF TypeOK, Copies, LogOut, Membership, Clanless, NoClan

LEMMA NoteTypes ==
  ASSUME TypeOK, NEW p \in Profiles, NEW q \in Profiles, NEW fault, NEW fits,
         Note(p, q, fault, fits)
  PROVE  /\ faulted' \subseteq ClanIds \cup {NoClan}
         /\ strayed' \subseteq ClanIds \cup {NoClan}
<1>1. \A o \in Profiles : /\ mem[o].clan \in ClanIds \cup {NoClan}
                          /\ row[o].clan \in ClanIds \cup {NoClan}
  BY DEF TypeOK, Membership
<1>. QED
  BY <1>1 DEF TypeOK, Note, NoteClans

\* What dismissing a member does to the tables other than that of profiles.
LEMMA DismissTypes ==
  ASSUME TypeOK, NEW p \in Profiles, NEW q \in Profiles, NEW fault, NEW also,
         Dismiss(p, q, fault, also)
  PROVE  /\ messages' \subseteq messages
         /\ issued' = issued
         /\ week' \in [ClanIds -> Profiles \cup {NoProfile}]
         /\ faulted' \subseteq ClanIds \cup {NoClan}
         /\ strayed' \subseteq ClanIds \cup {NoClan}
<1>1. Note(p, q, fault, Fits(p, q, 0)) /\ messages' \subseteq messages /\ issued' = issued
  BY DEF Dismiss
<1>2. week' \in [ClanIds -> Profiles \cup {NoProfile}]
  BY DEF Dismiss, TypeOK
<1>. QED
  BY <1>1, <1>2, NoteTypes

\* Every heir is a profile.
LEMMA HeirIsProfile ==
  ASSUME NEW p, NEW fault, NEW s \in Seen(p, fault), NEW h \in Heirs(s)
  PROVE  h \in Profiles
BY DEF Seen, Heirs, FullInfo, Members

\* Types are preserved by what a message makes a handler do.
LEMMA RanksTypes ==
  ASSUME TypeOK, NEW p \in Profiles, NEW q \in Profiles, ModifyRanks(p, q)
  PROVE  TypeOK'
<1>. USE DEF Ranks, Leader, Officer, Grunt
<1>1. ASSUME NEW fault, Kick(p, q, fault)
      PROVE  TypeOK'
  BY <1>1, SetClanIdTypes, DismissTypes DEF Kick, TypeOK, Copies
<1>2. ASSUME NEW fault, Leave(p, fault)
      PROVE  TypeOK'
  BY <1>2, SetClanIdTypes, DismissTypes DEF Leave, TypeOK, Copies
<1>3. ASSUME NEW fault, LeaveToHeir(p, fault)
      PROVE  TypeOK'
  <2>1. \E h \in Profiles, failed \in SUBSET Profiles : Succeed(p, h, failed)
    BY <1>3, HeirIsProfile DEF LeaveToHeir, Failed
  <2>2. Copies' /\ (lost \subseteq online)'
    BY <1>3, <2>1 DEF LeaveToHeir, Succeed, Write, Played, TypeOK, Copies, Membership, Clanless, NoClan
  <2>3. \E also : Dismiss(p, p, fault, also)
    BY <1>3 DEF LeaveToHeir
  <2>. QED
    BY <1>3, <2>2, <2>3, DismissTypes DEF LeaveToHeir, TypeOK, Copies
<1>4. ASSUME NEW fault, LeaveToNobody(p, fault)
      PROVE  TypeOK'
  <2>1. Copies' /\ (lost \subseteq online)'
    BY <1>4, LogOutTypes DEF LeaveToNobody
  <2>2. Dismiss(p, p, fault, {}) /\ UNCHANGED clans
    BY <1>4 DEF LeaveToNobody
  <2>. QED
    BY <2>1, <2>2, DismissTypes DEF TypeOK, Copies
<1>5. ASSUME NEW fault, LeaveAsLast(p, fault)
      PROVE  TypeOK'
  <2>1. Copies' /\ (lost \subseteq online)'
    BY <1>5, SetClanIdTypes DEF LeaveAsLast
  <2>2. (\E also : Dismiss(p, p, fault, also)) /\ clans' \subseteq clans
    BY <1>5 DEF LeaveAsLast
  <2>. QED
    BY <2>1, <2>2, DismissTypes DEF TypeOK, Copies
<1>6. ASSUME NEW fault, HandOver(p, q, fault)
      PROVE  TypeOK'
  <2>1. Copies' /\ (lost \subseteq online)'
    BY <1>6 DEF HandOver, Write, Played, TypeOK, Copies, Membership
  <2>. QED
    BY <1>6, <2>1, NoteTypes DEF HandOver, TypeOK, Copies
<1>7. ASSUME NEW fault, NEW option \in {Leader, Officer, Grunt}, SetRank(p, q, option, fault)
      PROVE  TypeOK'
  <2>1. Copies' /\ (lost \subseteq online)'
    BY <1>7, SetRankTypes DEF SetRank
  <2>2. Note(p, q, fault, Fits(p, q, option)) /\ messages' \subseteq messages
    BY <1>7 DEF SetRank
  <2>. QED
    BY <1>7, <2>1, <2>2, NoteTypes DEF SetRank, TypeOK, Copies
<1>. QED
  BY <1>1, <1>2, <1>3, <1>4, <1>5, <1>6, <1>7 DEF ModifyRanks

LEMMA TypeStep == TypeOK /\ [Next]_vars => TypeOK'
<1>. SUFFICES ASSUME TypeOK, [Next]_vars
              PROVE  TypeOK'
  OBVIOUS
<1>. USE DEF Ranks
<1>1. ASSUME NEW p \in Profiles, Login(p)
      PROVE  TypeOK'
  BY <1>1 DEF Login, TypeOK
<1>2. ASSUME NEW p \in Profiles, Disconnect(p)
      PROVE  TypeOK'
  BY <1>2, LogOutTypes DEF Disconnect, TypeOK, Copies
<1>3. CASE Crash
  BY <1>3, LogOutTypes DEF Crash, TypeOK, Copies
<1>4. ASSUME NEW p \in Profiles, NEW c \in ClanIds, NEW fault,
             CreateClan(p, c, fault) \/ Accept(p, c, fault)
      PROVE  TypeOK'
  <2>1. Copies' /\ (lost \subseteq online)'
    BY <1>4, SetClanIdTypes DEF CreateClan, Accept
  <2>2. mem[p].clan \in ClanIds \cup {NoClan} /\ row[p].clan \in ClanIds \cup {NoClan}
    BY DEF TypeOK, Membership
  <2>3. /\ faulted' \subseteq ClanIds \cup {NoClan}
        /\ strayed' \subseteq ClanIds \cup {NoClan}
    BY <1>4, <2>2 DEF CreateClan, Accept, NoteClans, TypeOK
  <2>. QED
    BY <1>4, <2>1, <2>3 DEF CreateClan, Accept, TypeOK, Copies
<1>5. ASSUME NEW p \in Profiles, NEW q \in Profiles \cup {NoProfile}, ModifyClan(p, q)
      PROVE  TypeOK'
  BY <1>5 DEF ModifyClan, NoteClans, TypeOK
<1>6. ASSUME NEW p \in Profiles, NEW q \in Profiles, NEW fault, Invite(p, q, fault)
      PROVE  TypeOK'
  <2>1. PICK c \in {mem[p].clan, NoClan} :
          messages' = messages \cup {[kind |-> "invite", from |-> p, to |-> q, clan |-> c,
                                    fit |-> mem[p].rank \in {Leader, Officer}]}
    BY <1>6 DEF Invite
  <2>. DEFINE fit == mem[p].rank \in {Leader, Officer}
  <2>2. fit \in BOOLEAN
    OBVIOUS
  <2>3. messages' = messages \cup {[kind |-> "invite", from |-> p, to |-> q, clan |-> c, fit |-> fit]}
    BY <2>1
  <2>. HIDE DEF fit
  <2>4. mem[p].clan \in ClanIds \cup {NoClan}
    BY DEF TypeOK, Membership
  <2>5. messages' \subseteq Message
    BY <2>2, <2>3, <2>4 DEF TypeOK, Message
  <2>. QED
    BY <1>6, <2>5 DEF Invite, TypeOK
<1>7. ASSUME NEW p \in Profiles, SendClanMessage(p)
      PROVE  TypeOK'
  <2>1. PICK to \in SUBSET (FullInfo(p, "none").members \ {p}) :
          messages' = messages \cup {[kind |-> "clms", from |-> p, to |-> q, clan |-> mem[p].clan,
                                    fit |-> mem[p].rank = Leader] : q \in to}
    BY <1>7 DEF SendClanMessage
  <2>2. to \subseteq Profiles /\ mem[p].clan \in ClanIds \cup {NoClan}
    BY DEF TypeOK, Membership, FullInfo, Members
  <2>. DEFINE fit == mem[p].rank = Leader
  <2>3. fit \in BOOLEAN
    OBVIOUS
  <2>. HIDE DEF fit
  <2>4. \A q \in to : [kind |-> "clms", from |-> p, to |-> q, clan |-> mem[p].clan, fit |-> fit]
                        \in Message
    BY <2>2, <2>3 DEF Message
  <2>5. messages' = messages \cup
           {[kind |-> "clms", from |-> p, to |-> q, clan |-> mem[p].clan, fit |-> fit] : q \in to}
    BY <2>1 DEF fit
  <2>6. messages' \subseteq Message
    BY <2>4, <2>5 DEF TypeOK
  <2>. QED
    BY <1>7, <2>6 DEF SendClanMessage, TypeOK
<1>8. ASSUME NEW m \in messages, Acknowledge(m)
      PROVE  TypeOK'
  BY <1>8 DEF Acknowledge, TypeOK
<1>9. CASE UNCHANGED vars
  BY <1>9 DEF vars, TypeOK
<1>. QED
  BY <1>1, <1>2, <1>3, <1>4, <1>5, <1>6, <1>7, <1>8, <1>9, RanksTypes DEF Next, HandleMessage

\* The tables and the copies in memory are what they are taken for.
THEOREM TypeCorrect == Spec => []TypeOK
<1>1. Init => TypeOK
  BY DEF Init, TypeOK, Clanless, Membership, NoClan
<1>. QED
  BY <1>1, TypeStep, PTL DEF Spec

\* Whatever copy a handler works on, whatever write the database refuses and
\* whoever comes and goes: a played profile is the member its row says it is,
\* unless one of its own writes was refused.
THEOREM MemoryCorrect == Spec => []MemoryMatchesRow
<1>1. Init => MemoryMatchesRow
  BY DEF Init, MemoryMatchesRow
<1>2. TypeOK /\ MemoryMatchesRow /\ [Next]_vars => MemoryMatchesRow'
  BY AgreementStep, TypeGivesCopies
<1>. QED
  BY <1>1, <1>2, TypeCorrect, PTL DEF Spec

-----------------------------------------------------------------------------
(* Invitations *)

\* What a dismissal leaves of the messages was there before.
LEMMA DismissKeeps ==
  ASSUME NEW p, NEW q, NEW fault, NEW also, Dismiss(p, q, fault, also)
  PROVE  messages' \subseteq messages \ also
BY DEF Dismiss

LEMMA InvitesStep == TypeOK /\ InvitesNameClans /\ [Next]_vars => InvitesNameClans'
<1>. SUFFICES ASSUME TypeOK, InvitesNameClans, [Next]_vars
              PROVE  InvitesNameClans'
  OBVIOUS
<1>1. ASSUME clans \subseteq clans', messages' \subseteq messages
      PROVE  InvitesNameClans'
  BY <1>1 DEF InvitesNameClans
<1>2. ASSUME NEW p \in Profiles, Login(p) \/ Disconnect(p)
      PROVE  InvitesNameClans'
  BY <1>1, <1>2 DEF Login, Disconnect
<1>3. ASSUME NEW p \in Profiles, NEW c, NEW fault,
             CreateClan(p, c, fault) \/ Accept(p, c, fault)
      PROVE  InvitesNameClans'
  BY <1>1, <1>3 DEF CreateClan, Accept
<1>4. ASSUME NEW p \in Profiles, NEW q, ModifyClan(p, q)
      PROVE  InvitesNameClans'
  BY <1>1, <1>4 DEF ModifyClan
<1>5. ASSUME NEW p \in Profiles, NEW q \in Profiles, ModifyRanks(p, q)
      PROVE  InvitesNameClans'
  <2>1. ASSUME NEW fault, \/ Kick(p, q, fault) \/ Leave(p, fault)
                          \/ LeaveToHeir(p, fault) \/ LeaveToNobody(p, fault)
        PROVE  InvitesNameClans'
    BY <1>1, <2>1, DismissKeeps DEF Kick, Leave, LeaveToHeir, LeaveToNobody
  <2>2. ASSUME NEW fault, LeaveAsLast(p, fault)
        PROVE  InvitesNameClans'
    <3>. DEFINE id == FullInfo(p, fault).id
    <3>1. CASE fault = "dissolve"
      BY <1>1, <2>2, <3>1, DismissKeeps DEF LeaveAsLast
    <3>2. CASE fault # "dissolve"
      <4>1. clans' = clans \ {id} /\ messages' \subseteq messages \ InvitesLike(id)
        BY <2>2, <3>2, DismissKeeps DEF LeaveAsLast
      <4>2. \A m \in messages : m.kind = "invite" /\ m.clan = id => m \in InvitesLike(id)
        BY DEF InvitesLike, LikeClan
      <4>. HIDE DEF id
      <4>. QED
        BY <4>1, <4>2 DEF InvitesNameClans
    <3>. QED
      BY <3>1, <3>2
  <2>3. ASSUME NEW fault, NEW option,
               HandOver(p, q, fault) \/ SetRank(p, q, option, fault)
        PROVE  InvitesNameClans'
    BY <1>1, <2>3 DEF HandOver, SetRank
  <2>. QED
    BY <1>5, <2>1, <2>2, <2>3 DEF ModifyRanks
<1>6. ASSUME NEW p \in Profiles, NEW q, NEW fault, Invite(p, q, fault)
      PROVE  InvitesNameClans'
  BY <1>6 DEF Invite, InvitesNameClans
<1>7. ASSUME NEW p \in Profiles, SendClanMessage(p)
      PROVE  InvitesNameClans'
  BY <1>7 DEF SendClanMessage, InvitesNameClans
<1>8. ASSUME NEW m, Acknowledge(m)
      PROVE  InvitesNameClans'
  BY <1>1, <1>8 DEF Acknowledge
<1>9. CASE Crash \/ UNCHANGED vars
  BY <1>1, <1>9 DEF Crash, vars
<1>. QED
  BY <1>2, <1>3, <1>4, <1>5, <1>6, <1>7, <1>8, <1>9 DEF Next, HandleMessage

\* No invitation outlives its clan, also when some of the queries that dissolve
\* it fail.
THEOREM InvitesCorrect == Spec => []InvitesNameClans
<1>1. Init => InvitesNameClans
  BY DEF Init, InvitesNameClans
<1>. QED
  BY <1>1, InvitesStep, TypeCorrect, PTL DEF Spec

-----------------------------------------------------------------------------
(* What the two copies have in common where a write was refused *)

\* Where memory and row differ, a failed query is on record for both clans.
CopiesAgree ==
    \A p \in online : \/ mem[p] = row[p]
                      \/ {mem[p].clan, row[p].clan} \subseteq faulted \cup {NoClan}

\* setClanId makes the copies alike, or the query that failed is on record.
LEMMA SetClanIdRecords ==
  ASSUME TypeOK, CopiesAgree, NEW p \in Profiles, NEW c \in ClanIds \cup {NoClan},
         NEW r, NEW failed \in SUBSET {p},
         UNCHANGED online, faulted \subseteq faulted',
         SetClanId(p, c, r, failed),
         failed # {} => {row[p].clan, c} \subseteq faulted' \cup {NoClan}
  PROVE  CopiesAgree'
<1>1. \A q \in Profiles : /\ q # p => mem'[q] = mem[q] /\ row'[q] = row[q]
                          /\ p \in online => mem'[p] = [clan |-> c, rank |-> r]
                          /\ failed = {} => row'[p] = [clan |-> c, rank |-> r]
                          /\ failed # {} => row'[p] = row[p]
  BY DEF TypeOK, SetClanId, Write, Played
<1>2. ASSUME NEW q \in online
      PROVE  \/ mem'[q] = row'[q]
             \/ {mem'[q].clan, row'[q].clan} \subseteq faulted' \cup {NoClan}
  <2>1. q \in Profiles
    BY DEF TypeOK
  <2>2. CASE q # p
    BY <1>1, <2>1, <2>2 DEF CopiesAgree
  <2>3. CASE q = p /\ failed = {}
    BY <1>1, <2>1, <2>3
  <2>4. CASE q = p /\ failed # {}
    BY <1>1, <2>1, <2>4
  <2>. QED
    BY <2>2, <2>3, <2>4
<1>. QED
  BY <1>2 DEF CopiesAgree

\* A change of ranks leaves the clans alone, in both copies.
LEMMA RankChangeRecords ==
  ASSUME TypeOK, CopiesAgree, UNCHANGED online, faulted \subseteq faulted',
         \A q \in Profiles : /\ mem'[q].clan = mem[q].clan
                             /\ row'[q].clan = row[q].clan
                             /\ \/ mem[q] = row[q] /\ q \in online => mem'[q] = row'[q]
                                \/ {mem[q].clan, row[q].clan} \subseteq faulted' \cup {NoClan}
  PROVE  CopiesAgree'
BY DEF TypeOK, CopiesAgree

LEMMA RecordsKept ==
  ASSUME CopiesAgree, UNCHANGED <<online, mem, row>>, faulted \subseteq faulted'
  PROVE  CopiesAgree'
BY DEF CopiesAgree

LEMMA LogOutRecords ==
  ASSUME TypeOK, CopiesAgree, NEW ps, UNCHANGED row, faulted \subseteq faulted', LogOut(ps)
  PROVE  CopiesAgree'
BY DEF TypeOK, CopiesAgree, LogOut

\* The queries of a dismissal are on record for the clans of both profiles.
LEMMA DismissNotes ==
  ASSUME NEW p, NEW q, NEW fault, NEW also, Dismiss(p, q, fault, also)
  PROVE  /\ faulted \subseteq faulted' /\ strayed \subseteq strayed'
         /\ fault # "none" =>
              {mem[p].clan, row[p].clan, mem[q].clan, row[q].clan} \subseteq faulted'
         /\ ~Fits(p, q, 0) =>
              {mem[p].clan, row[p].clan, mem[q].clan, row[q].clan} \subseteq strayed'
BY DEF Dismiss, Note, NoteClans

\* An heir is found among the members of the clan, and is not its leader.
LEMMA HeirIsMember ==
  ASSUME NEW p, NEW fault, NEW s \in Seen(p, fault), NEW h \in Heirs(s)
  PROVE  h \in Profiles /\ row[h].clan = mem[p].clan /\ row[h].rank \in {Officer, Grunt}
BY DEF Seen, Heirs, FullInfo, Members

\* A change of rank or clan leaves the copies alike, or is on record.
LEMMA RanksRecord ==
  ASSUME TypeOK, CopiesAgree, NEW p \in Profiles, NEW q \in Profiles, ModifyRanks(p, q)
  PROVE  CopiesAgree'
<1>. USE DEF Ranks, Leader, Officer, Grunt
<1>1. ASSUME NEW fault, Kick(p, q, fault)
      PROVE  CopiesAgree'
  BY <1>1, SetClanIdRecords, DismissNotes DEF Kick, Failed
<1>2. ASSUME NEW fault, Leave(p, fault) \/ LeaveAsLast(p, fault)
      PROVE  CopiesAgree'
  <2>1. \E also : Dismiss(p, p, fault, also)
    BY <1>2 DEF Leave, LeaveAsLast
  <2>2. SetClanId(p, NoClan, 0, Failed(fault, "own", p)) /\ UNCHANGED online
    BY <1>2 DEF Leave, LeaveAsLast
  <2>. QED
    BY <2>1, <2>2, SetClanIdRecords, DismissNotes DEF Failed
<1>3. ASSUME NEW fault, LeaveToHeir(p, fault)
      PROVE  CopiesAgree'
  <2>1. \E also : Dismiss(p, p, fault, also)
    BY <1>3 DEF LeaveToHeir
  <2>2. ASSUME NEW h \in Profiles, row[h].clan = mem[p].clan, fault = "heir" => h # p,
               Succeed(p, h, Failed(fault, "own", p) \cup Failed(fault, "heir", h))
        PROVE  CopiesAgree'
    <3>1. UNCHANGED online
      BY <1>3 DEF LeaveToHeir
    <3>2. ASSUME NEW o \in online
          PROVE  \/ mem'[o] = row'[o]
                 \/ {mem'[o].clan, row'[o].clan} \subseteq faulted' \cup {NoClan}
      <4>1. o \in Profiles
        BY DEF TypeOK
      <4>2. CASE o = p
        BY <2>1, <2>2, <4>1, <4>2, DismissNotes
           DEF Succeed, Write, Played, Failed, Clanless
      <4>3. CASE o = h /\ o # p
        <5>1. /\ mem'[o].clan = mem[o].clan /\ row'[o].clan = row[o].clan
              /\ fault # "heir" /\ mem[o] = row[o] => mem'[o] = row'[o]
          BY <2>2, <4>1, <4>3 DEF Succeed, Write, Played, Failed, TypeOK, Membership
        <5>. QED
          BY <2>1, <2>2, <4>3, <5>1, DismissNotes DEF CopiesAgree
      <4>4. CASE o # h /\ o # p
        <5>1. mem'[o] = mem[o] /\ row'[o] = row[o]
          BY <2>2, <4>1, <4>4 DEF Succeed, Write, Played
        <5>. QED
          BY <2>1, <5>1, DismissNotes DEF CopiesAgree
      <4>. QED
        BY <4>2, <4>3, <4>4
    <3>. QED
      BY <3>1, <3>2 DEF CopiesAgree
  <2>. QED
    BY <1>3, <2>2, HeirIsMember DEF LeaveToHeir
<1>4. ASSUME NEW fault, LeaveToNobody(p, fault)
      PROVE  CopiesAgree'
  BY <1>4, LogOutRecords, DismissNotes DEF LeaveToNobody
<1>5. ASSUME NEW fault, HandOver(p, q, fault)
      PROVE  CopiesAgree'
  <2>1. faulted \subseteq faulted' /\ UNCHANGED online
    BY <1>5 DEF HandOver, Note, NoteClans
  <2>2. fault # "none" =>
          {mem[p].clan, row[p].clan, mem[q].clan, row[q].clan} \subseteq faulted'
    BY <1>5 DEF HandOver, Note, NoteClans
  <2>3. ASSUME NEW o \in Profiles
        PROVE  /\ mem'[o].clan = mem[o].clan /\ row'[o].clan = row[o].clan
               /\ \/ mem[o] = row[o] /\ o \in online => mem'[o] = row'[o]
                  \/ {mem[o].clan, row[o].clan} \subseteq faulted' \cup {NoClan}
    <3>1. CASE fault = "none" \/ o \notin {p, q}
      BY <1>5, <3>1 DEF HandOver, Write, Played, Failed, TypeOK, Membership
    <3>2. CASE fault # "none" /\ o \in {p, q}
      BY <1>5, <2>2, <3>2 DEF HandOver, Write, Played, Failed, TypeOK, Membership
    <3>. QED
      BY <3>1, <3>2
  <2>. QED
    BY <2>1, <2>3, RankChangeRecords
<1>6. ASSUME NEW fault, NEW option, SetRank(p, q, option, fault)
      PROVE  CopiesAgree'
  <2>1. faulted \subseteq faulted' /\ UNCHANGED online
    BY <1>6 DEF SetRank, Note, NoteClans
  <2>2. fault # "none" => {mem[q].clan, row[q].clan} \subseteq faulted'
    BY <1>6 DEF SetRank, Note, NoteClans
  <2>3. ASSUME NEW o \in Profiles
        PROVE  /\ mem'[o].clan = mem[o].clan /\ row'[o].clan = row[o].clan
               /\ \/ mem[o] = row[o] /\ o \in online => mem'[o] = row'[o]
                  \/ {mem[o].clan, row[o].clan} \subseteq faulted' \cup {NoClan}
    BY <1>6, <2>2 DEF SetRank, SetRankInClan, Write, Played, Failed, TypeOK, Membership
  <2>. QED
    BY <2>1, <2>3, RankChangeRecords
<1>. QED
  BY <1>1, <1>2, <1>3, <1>4, <1>5, <1>6 DEF ModifyRanks

\* CopiesAgree is inductive, given the types.
LEMMA RecordsStep == TypeOK /\ CopiesAgree /\ [Next]_vars => CopiesAgree'
<1>. SUFFICES ASSUME TypeOK, CopiesAgree, [Next]_vars
              PROVE  CopiesAgree'
  OBVIOUS
<1>1. ASSUME NEW p \in Profiles, Login(p)
      PROVE  CopiesAgree'
  BY <1>1 DEF Login, TypeOK, CopiesAgree
<1>2. ASSUME NEW p \in Profiles, Disconnect(p)
      PROVE  CopiesAgree'
  BY <1>2, LogOutRecords DEF Disconnect
<1>3. CASE Crash
  BY <1>3, LogOutRecords DEF Crash
<1>4. ASSUME NEW p \in Profiles, NEW c \in ClanIds, NEW fault, NEW rank \in {Leader, Grunt},
             /\ SetClanId(p, c, rank, Failed(fault, "own", p))
             /\ UNCHANGED online
             /\ faulted \subseteq faulted'
             /\ fault # "none" => {row[p].clan, c} \subseteq faulted'
      PROVE  CopiesAgree'
  BY <1>4, SetClanIdRecords DEF Failed, Ranks, Leader, Grunt
<1>5. ASSUME NEW p \in Profiles, NEW c \in ClanIds, NEW fault,
             CreateClan(p, c, fault) \/ Accept(p, c, fault)
      PROVE  CopiesAgree'
  BY <1>4, <1>5 DEF CreateClan, Accept, NoteClans
<1>6. ASSUME NEW p \in Profiles, NEW q, ModifyClan(p, q)
      PROVE  CopiesAgree'
  BY <1>6, RecordsKept DEF ModifyClan, NoteClans
<1>7. ASSUME NEW p \in Profiles, NEW q \in Profiles, NEW fault, Invite(p, q, fault)
      PROVE  CopiesAgree'
  BY <1>7, RecordsKept DEF Invite
<1>8. ASSUME NEW p \in Profiles, SendClanMessage(p)
      PROVE  CopiesAgree'
  BY <1>8, RecordsKept DEF SendClanMessage
<1>9. ASSUME NEW m \in messages, Acknowledge(m)
      PROVE  CopiesAgree'
  BY <1>9, RecordsKept DEF Acknowledge
<1>10. CASE UNCHANGED vars
  BY <1>10, RecordsKept DEF vars
<1>. QED
  BY <1>1, <1>2, <1>3, <1>5, <1>6, <1>7, <1>8, <1>9, <1>10, RanksRecord DEF Next, HandleMessage

-----------------------------------------------------------------------------
(* Clans that are gone *)

\* A clan has gone only with its last member.
LEMMA LastMemberStep ==
  ASSUME TypeOK, CopiesAgree, NobodyInAGoneClan, NEW p \in Profiles, NEW fault,
         LeaveAsLast(p, fault)
  PROVE  NobodyInAGoneClan'
<1>. DEFINE c == mem[p].clan
<1>1. /\ faulted \subseteq faulted'
      /\ fault # "none" => c \in faulted'
  BY DismissNotes DEF LeaveAsLast
<1>2. /\ \A q \in Profiles : row'[q].clan \in {row[q].clan, NoClan}
      /\ fault = "none" => row'[p].clan = NoClan
  BY DEF LeaveAsLast, SetClanId, Write, Failed
<1>3. clans \ {c} \subseteq clans'
  BY ClanIdAssumption DEF LeaveAsLast, FullInfo, TypeOK, NoClan
<1>4. ASSUME c \in clans, c \notin faulted', NEW q \in Profiles, row'[q].clan = c
      PROVE  FALSE
  <2>1. c # NoClan
    BY <1>4, ClanIdAssumption DEF TypeOK, NoClan
  <2>2. fault = "none" /\ FullInfo(p, fault).members = Members(c)
    BY <1>1, <1>4 DEF FullInfo
  <2>3. row[q].clan = c /\ q # p
    BY <1>2, <1>4, <2>1, <2>2
  <2>4. row[p].clan = c
    BY <1>1, <1>4, <2>1 DEF LeaveAsLast, CopiesAgree
  <2>5. IsFiniteSet(Members(c)) /\ {p, q} \subseteq Members(c)
    BY <2>3, <2>4, FS_Subset, ProfileAssumption DEF Members
  <2>6. Cardinality({p, q}) = 2
    <3>1. {p, q} = {p} \cup {q} /\ q \notin {p}
      BY <2>3
    <3>2. IsFiniteSet({p}) /\ Cardinality({p}) = 1
      BY FS_Singleton
    <3>. QED
      BY <3>1, <3>2, FS_AddElement
  <2>7. Cardinality(Members(c)) \in Nat /\ 2 <= Cardinality(Members(c))
    BY <2>5, <2>6, FS_Subset, FS_CardinalityType
  <2>. QED
    BY <2>2, <2>7 DEF LeaveAsLast
<1>. QED
  BY <1>1, <1>2, <1>3, <1>4 DEF NobodyInAGoneClan

\* A row is given only a clan there is, and clans go only with a last member.
LEMMA RowsKept ==
  ASSUME TypeOK, [Next]_vars
  PROVE  /\ issued \subseteq issued' /\ faulted \subseteq faulted' /\ strayed \subseteq strayed'
         /\ \A o \in Profiles : row'[o].clan \in {row[o].clan, NoClan} \cup clans'
         /\ \/ clans \subseteq clans'
            \/ \E p \in Profiles : \E fault : LeaveAsLast(p, fault)
<1>. DEFINE Kept == /\ issued \subseteq issued' /\ faulted \subseteq faulted'
                    /\ strayed \subseteq strayed'
                    /\ \A o \in Profiles : row'[o].clan \in {row[o].clan, NoClan} \cup clans'
<1>1. ASSUME \/ \E p \in Profiles : Login(p) \/ Disconnect(p) \/ SendClanMessage(p)
             \/ \E p \in Profiles : \E q : ModifyClan(p, q)
             \/ \E p \in Profiles : \E q, fault : Invite(p, q, fault)
             \/ \E m : Acknowledge(m)
             \/ Crash
             \/ UNCHANGED vars
      PROVE  Kept /\ clans \subseteq clans'
  BY <1>1 DEF Login, Disconnect, SendClanMessage, ModifyClan, NoteClans, Invite,
              Acknowledge, Crash, vars
<1>2. ASSUME NEW p \in Profiles, NEW c \in ClanIds, NEW fault,
             CreateClan(p, c, fault) \/ Accept(p, c, fault)
      PROVE  Kept /\ clans \subseteq clans'
  BY <1>2 DEF CreateClan, Accept, SetClanId, Write, NoteClans
<1>3. ASSUME NEW p \in Profiles, NEW q \in Profiles, ModifyRanks(p, q)
      PROVE  /\ Kept
             /\ clans \subseteq clans' \/ \E fault : LeaveAsLast(p, fault)
  <2>1. ASSUME NEW fault, NEW also, Dismiss(p, q, fault, also)
        PROVE  issued \subseteq issued' /\ faulted \subseteq faulted' /\ strayed \subseteq strayed'
    <3>1. issued' = issued
      BY <2>1 DEF Dismiss
    <3>. QED
      BY <2>1, <3>1, DismissNotes
  <2>2. ASSUME NEW fault, Kick(p, q, fault)
        PROVE  Kept /\ clans \subseteq clans'
    BY <2>1, <2>2 DEF Kick, SetClanId, Write
  <2>3. ASSUME NEW fault, p = q, Leave(p, fault) \/ LeaveAsLast(p, fault)
        PROVE  Kept /\ (clans \subseteq clans' \/ LeaveAsLast(p, fault))
    BY <2>1, <2>3 DEF Leave, LeaveAsLast, SetClanId, Write
  <2>4. ASSUME NEW fault, p = q, LeaveToHeir(p, fault)
        PROVE  Kept /\ clans \subseteq clans'
    <3>1. \E h, failed : Succeed(p, h, failed)
      BY <2>4 DEF LeaveToHeir
    <3>2. \A o \in Profiles : row'[o].clan \in {row[o].clan, NoClan}
      BY <3>1 DEF Succeed, Write, TypeOK, Membership, Clanless
    <3>. QED
      BY <2>1, <2>4, <3>2 DEF LeaveToHeir
  <2>5. ASSUME NEW fault, p = q, LeaveToNobody(p, fault)
        PROVE  Kept /\ clans \subseteq clans'
    BY <2>1, <2>5 DEF LeaveToNobody
  <2>6. ASSUME NEW fault, HandOver(p, q, fault)
        PROVE  Kept /\ clans \subseteq clans'
    <3>1. \A o \in Profiles : row'[o].clan = row[o].clan
      BY <2>6 DEF HandOver, Write, TypeOK, Membership
    <3>. QED
      BY <2>6, <3>1 DEF HandOver, Note, NoteClans
  <2>7. ASSUME NEW fault, NEW option, SetRank(p, q, option, fault)
        PROVE  Kept /\ clans \subseteq clans'
    <3>1. \A o \in Profiles : row'[o].clan = row[o].clan
      BY <2>7 DEF SetRank, SetRankInClan, Write, TypeOK, Membership
    <3>. QED
      BY <2>7, <3>1 DEF SetRank, Note, NoteClans
  <2>. HIDE DEF Kept
  <2>. QED
    BY <1>3, <2>2, <2>3, <2>4, <2>5, <2>6, <2>7 DEF ModifyRanks
<1>. HIDE DEF Kept
<1>4. Kept /\ (clans \subseteq clans' \/ \E p \in Profiles : \E fault : LeaveAsLast(p, fault))
  BY <1>1, <1>2, <1>3 DEF Next, HandleMessage
<1>. QED
  BY <1>4 DEF Kept

\* NobodyInAGoneClan is inductive, given CopiesAgree.
LEMMA NobodyStep ==
  TypeOK /\ CopiesAgree /\ NobodyInAGoneClan /\ [Next]_vars => NobodyInAGoneClan'
<1>. SUFFICES ASSUME TypeOK, CopiesAgree, NobodyInAGoneClan, [Next]_vars
              PROVE  NobodyInAGoneClan'
  OBVIOUS
<1>1. CASE clans \subseteq clans'
  BY <1>1, RowsKept DEF NobodyInAGoneClan
<1>2. CASE \E p \in Profiles : \E fault : LeaveAsLast(p, fault)
  BY <1>2, LastMemberStep
<1>. QED
  BY <1>1, <1>2, RowsKept

\* Where memory and row differ there is a record of a failed query.
THEOREM RecordsCorrect == Spec => []CopiesAgree
<1>1. Init => CopiesAgree
  BY DEF Init, CopiesAgree
<1>. QED
  BY <1>1, RecordsStep, TypeCorrect, PTL DEF Spec

\* Though the last member is found by counting rows, and the clan it leaves is
\* the one in memory: a clan that no failed query had to do with is dissolved
\* only when nobody is left in it.
THEOREM NobodyCorrect == Spec => []NobodyInAGoneClan
<1>1. Init => NobodyInAGoneClan
  BY DEF Init, NobodyInAGoneClan, Clanless
<1>. QED
  BY <1>1, NobodyStep, RecordsCorrect, TypeCorrect, PTL DEF Spec

\* A clan that was dissolved leaves no traces, neither in the rows of profiles
\* nor in the messages that wait, whatever queries failed for other clans.
THEOREM TracesCorrect == Spec => []NoTracesOfGoneClans
<1>1. NobodyInAGoneClan /\ InvitesNameClans => NoTracesOfGoneClans
  BY DEF NoTracesOfGoneClans
<1>. QED
  BY <1>1, NobodyCorrect, InvitesCorrect, PTL

-----------------------------------------------------------------------------
(* Leaders *)

\* Who is in a clan has a rank in it.
MembersRanked ==
    \A p \in Profiles : /\ row[p].clan # NoClan => row[p].rank # 0
                        /\ p \in online /\ mem[p].clan # NoClan => mem[p].rank # 0

\* Rows name only clans the table has handed out: a new clan has no members.
ClansIssued == \A p \in Profiles : row[p].clan \in issued \cup {NoClan}

HasOneLeader(c) ==
    \E p \in Profiles : \A q \in Profiles :
       row[q].clan = c /\ row[q].rank = Leader <=> q = p

Led == \A c \in clans \ Upset : HasOneLeader(c)

\* A change of rank, or of clan with the rank that goes with it, keeps ranks.
LEMMA RankedKept ==
  ASSUME TypeOK, MembersRanked, online' \subseteq online,
         \A o \in Profiles : /\ \/ row'[o].clan = row[o].clan /\ row'[o].rank = row[o].rank
                                \/ row'[o].clan = NoClan \/ row'[o].rank # 0
                             /\ \/ mem'[o].clan = mem[o].clan /\ mem'[o].rank = mem[o].rank
                                \/ mem'[o].clan = NoClan \/ mem'[o].rank # 0
  PROVE  MembersRanked'
BY DEF MembersRanked, NoClan

LEMMA RankedStep == TypeOK /\ MembersRanked /\ [Next]_vars => MembersRanked'
<1>. SUFFICES ASSUME TypeOK, MembersRanked, [Next]_vars
              PROVE  MembersRanked'
  OBVIOUS
<1>. USE DEF Leader, Officer, Grunt
<1>1. ASSUME NEW p \in Profiles, Login(p)
      PROVE  MembersRanked'
  BY <1>1 DEF Login, MembersRanked, TypeOK
<1>2. ASSUME NEW ps, UNCHANGED row, LogOut(ps)
      PROVE  MembersRanked'
  BY <1>2 DEF LogOut, MembersRanked, TypeOK
<1>3. ASSUME NEW p \in Profiles, NEW c, NEW r, NEW failed, c = NoClan \/ r # 0,
             UNCHANGED online, SetClanId(p, c, r, failed)
      PROVE  MembersRanked'
  BY <1>3 DEF SetClanId, Write, Played, MembersRanked, TypeOK
<1>4. ASSUME NEW p \in Profiles, NEW c, NEW fault,
             CreateClan(p, c, fault) \/ Accept(p, c, fault)
      PROVE  MembersRanked'
  BY <1>3, <1>4 DEF CreateClan, Accept
<1>5. ASSUME UNCHANGED <<row, mem, online>>
      PROVE  MembersRanked'
  BY <1>5 DEF MembersRanked
<1>6. ASSUME NEW p \in Profiles, NEW q \in Profiles, ModifyRanks(p, q)
      PROVE  MembersRanked'
  <2>1. ASSUME NEW fault, Kick(p, q, fault) \/ Leave(p, fault) \/ LeaveAsLast(p, fault)
        PROVE  MembersRanked'
    BY <1>3, <2>1 DEF Kick, Leave, LeaveAsLast
  <2>2. ASSUME NEW fault, LeaveToHeir(p, fault)
        PROVE  MembersRanked'
    <3>1. UNCHANGED online /\ \E h, failed : Succeed(p, h, failed)
      BY <2>2 DEF LeaveToHeir
    <3>. QED
      BY <3>1, RankedKept DEF Succeed, Write, Played, TypeOK, Membership, Clanless
  <2>3. ASSUME NEW fault, LeaveToNobody(p, fault)
        PROVE  MembersRanked'
    BY <1>2, <2>3 DEF LeaveToNobody
  <2>4. ASSUME NEW fault, HandOver(p, q, fault)
        PROVE  MembersRanked'
    BY <2>4, RankedKept DEF HandOver, Write, Played, TypeOK, Membership
  <2>5. ASSUME NEW fault, NEW option \in {Leader, Officer, Grunt}, SetRank(p, q, option, fault)
        PROVE  MembersRanked'
    BY <2>5, RankedKept DEF SetRank, SetRankInClan, Write, Played, TypeOK, Membership
  <2>. QED
    BY <1>6, <2>1, <2>2, <2>3, <2>4, <2>5 DEF ModifyRanks
<1>7. ASSUME \/ \E p \in Profiles : SendClanMessage(p) \/ \E q : ModifyClan(p, q)
             \/ \E p \in Profiles : \E q, fault : Invite(p, q, fault)
             \/ \E m : Acknowledge(m)
             \/ UNCHANGED vars
      PROVE  MembersRanked'
  BY <1>5, <1>7 DEF SendClanMessage, ModifyClan, Invite, Acknowledge, vars
<1>. QED
  BY <1>1, <1>2, <1>4, <1>6, <1>7 DEF Next, HandleMessage, Disconnect, Crash

LEMMA IssuedStep == TypeOK /\ ClansIssued /\ [Next]_vars => ClansIssued'
<1>. SUFFICES ASSUME TypeOK, ClansIssued, [Next]_vars
              PROVE  ClansIssued'
  OBVIOUS
<1>1. clans' \subseteq issued'
  BY TypeStep DEF TypeOK
<1>. QED
  BY <1>1, RowsKept DEF ClansIssued

\* The copy a handler works on is the row, for a clan no failed query had to do with.
LEMMA CurrentIsRow ==
  ASSUME CopiesAgree, NEW c, c \notin faulted \cup {NoClan}, NEW q \in Profiles,
         row[q].clan = c \/ Current(q).clan = c
  PROVE  Current(q) = row[q]
BY DEF CopiesAgree, Current

\* Who leads c stays the one who does, unless a leader of c comes or goes.
LEMMA LeaderKept ==
  ASSUME NEW c, HasOneLeader(c),
         \A q \in Profiles : row'[q].clan = c /\ row'[q].rank = Leader
                         <=> row[q].clan = c /\ row[q].rank = Leader
  PROVE  HasOneLeader(c)'
BY DEF HasOneLeader

\* Who founds a clan leads it, and who joins one does not.
LEMMA JoinLed ==
  ASSUME TypeOK, CopiesAgree, ClansIssued, Led, NEW p \in Profiles, NEW d \in ClanIds, NEW fault,
         CreateClan(p, d, fault) \/ Accept(p, d, fault), NEW c \in clans' \ Upset'
  PROVE  HasOneLeader(c)'
<1>1. /\ faulted \subseteq faulted' /\ strayed \subseteq strayed'
      /\ mem[p].clan = NoClan \/ row[p].clan \in strayed'
      /\ fault # "none" => d \in faulted'
  BY DEF CreateClan, Accept, NoteClans
<1>2. c # NoClan /\ c \notin faulted /\ c \notin strayed
  <2>1. clans' \subseteq ClanIds
    BY DEF CreateClan, Accept, TypeOK
  <2>. QED
    BY <1>1, <2>1, ClanIdAssumption DEF Upset, NoClan
<1>3. p \in online /\ row[p].clan # c
  BY <1>1, <1>2, CurrentIsRow DEF CreateClan, Accept, Current, Upset
<1>4. CASE c \in clans /\ ~(CreateClan(p, d, fault) /\ c = d)
  <2>1. HasOneLeader(c)
    BY <1>2, <1>4 DEF Led, Upset
  <2>2. \A q \in Profiles : row'[q] = row[q] \/ (q = p /\ ~(row'[q].clan = c /\ row'[q].rank = Leader))
    BY <1>4 DEF CreateClan, Accept, SetClanId, Write, Leader, Grunt
  <2>. QED
    BY <1>3, <2>1, <2>2, LeaderKept
<1>5. CASE CreateClan(p, d, fault) /\ c = d
  <2>1. \A q \in Profiles : row[q].clan # c
    BY <1>2, <1>5, ClanIdAssumption DEF CreateClan, ClansIssued, TypeOK
  <2>2. \A q \in Profiles : row'[q] = IF q = p THEN [clan |-> c, rank |-> Leader] ELSE row[q]
    BY <1>1, <1>5 DEF CreateClan, SetClanId, Write, Failed, Upset
  <2>. QED
    BY <2>1, <2>2 DEF HasOneLeader
<1>6. c \in clans \/ (CreateClan(p, d, fault) /\ c = d)
  BY DEF CreateClan, Accept
<1>. QED
  BY <1>4, <1>5, <1>6

\* A request that fits and a leader that leaves take the place of a leader only
\* to fill it again.
LEMMA ModifyLed ==
  ASSUME TypeOK, CopiesAgree, MembersRanked, Led,
         NEW p \in Profiles, NEW q \in Profiles, ModifyRanks(p, q), NEW c \in clans' \ Upset'
  PROVE  HasOneLeader(c)'
<1>1. /\ c \in clans /\ c \in ClanIds /\ c # NoClan
      /\ c \notin faulted' \cup faulted \cup strayed' \cup strayed
  <2>1. /\ faulted \subseteq faulted' /\ strayed \subseteq strayed'
    BY RowsKept DEF Next, HandleMessage
  <2>2. clans' \subseteq clans
    BY DEF ModifyRanks, Kick, Leave, LeaveToHeir, LeaveToNobody, LeaveAsLast, HandOver, SetRank
  <2>. QED
    BY <2>1, <2>2, ClanIdAssumption DEF Upset, TypeOK, NoClan
<1>2. HasOneLeader(c)
  BY <1>1 DEF Led, Upset
<1>3. \A o \in Profiles : row[o].clan = c \/ Current(o).clan = c => Current(o) = row[o]
  BY <1>1, CurrentIsRow
<1>4. ASSUME NEW fault, Kick(p, q, fault)
      PROVE  HasOneLeader(c)'
  <2>1. row[q].clan = c => row[q].rank # Leader
    BY <1>1, <1>3, <1>4, DismissNotes
       DEF Kick, Fits, Current, MembersRanked, TypeOK, Membership, Leader, Officer, Grunt, NoClan
  <2>2. \A o \in Profiles : row'[o] = row[o] \/ (o = q /\ row'[o].clan = NoClan)
    BY <1>4 DEF Kick, SetClanId, Write
  <2>. QED
    BY <1>1, <1>2, <2>1, <2>2, LeaderKept
<1>5. ASSUME NEW fault, Leave(p, fault)
      PROVE  HasOneLeader(c)'
  <2>1. row[p].clan = c => row[p].rank # Leader
    BY <1>3, <1>5 DEF Leave, Current
  <2>2. \A o \in Profiles : row'[o] = row[o] \/ (o = p /\ row'[o].clan = NoClan)
    BY <1>5 DEF Leave, SetClanId, Write
  <2>. QED
    BY <1>1, <1>2, <2>1, <2>2, LeaderKept
<1>6. ASSUME NEW fault, LeaveToHeir(p, fault)
      PROVE  HasOneLeader(c)'
  <2>1. fault # "none" => {mem[p].clan, row[p].clan} \subseteq faulted'
    BY <1>6, DismissNotes DEF LeaveToHeir
  <2>2. PICK h \in Profiles :
          /\ row[h].clan = mem[p].clan /\ row[h].rank \in {Officer, Grunt}
          /\ Succeed(p, h, Failed(fault, "own", p) \cup Failed(fault, "heir", h))
    BY <1>6, HeirIsMember DEF LeaveToHeir
  <2>3. \A o \in Profiles \ {p, h} : row'[o] = row[o]
    BY <2>2 DEF Succeed, Write
  <2>4. CASE row[p].clan = c \/ mem[p].clan = c
    <3>1. row[p] = mem[p] /\ mem[p].clan = c /\ row[p].rank = Leader /\ fault = "none"
      BY <1>1, <1>3, <1>6, <2>1, <2>4 DEF LeaveToHeir, LeaderLeaves, Current
    <3>2. h # p /\ row[h].clan = c
      BY <2>2, <3>1 DEF Leader, Officer, Grunt
    <3>3. row'[p] = Clanless /\ row'[h] = [row[h] EXCEPT !.rank = Leader]
      BY <2>2, <3>1, <3>2 DEF Succeed, Write, Failed
    <3>4. row'[p].clan # c /\ row'[h].clan = c /\ row'[h].rank = Leader
      BY <1>1, <3>2, <3>3 DEF Clanless, TypeOK, Membership
    <3>5. \A o \in Profiles : row[o].clan = c /\ row[o].rank = Leader <=> o = p
      BY <1>2, <3>1 DEF HasOneLeader
    <3>. QED
      BY <2>3, <3>2, <3>4, <3>5 DEF HasOneLeader
  <2>5. CASE row[p].clan # c /\ mem[p].clan # c
    <3>1. row'[p].clan # c /\ row'[h].clan # c
      BY <1>1, <2>2, <2>5 DEF Succeed, Write, Clanless, TypeOK, Membership
    <3>. QED
      BY <1>2, <2>2, <2>3, <2>5, <3>1, LeaderKept
  <2>. QED
    BY <2>4, <2>5
<1>7. ASSUME NEW fault, LeaveToNobody(p, fault)
      PROVE  HasOneLeader(c)'
  BY <1>2, <1>7, LeaderKept DEF LeaveToNobody
<1>8. ASSUME NEW fault, LeaveAsLast(p, fault)
      PROVE  HasOneLeader(c)'
  <2>1. row[p].clan # c
    <3>. SUFFICES ASSUME row[p].clan = c
                  PROVE  FALSE
      OBVIOUS
    <3>1. mem[p].clan = c
      BY <1>3, <1>8 DEF LeaveAsLast, Current
    <3>2. fault = "none"
      BY <1>1, <1>8, <3>1, DismissNotes DEF LeaveAsLast
    <3>. QED
      BY <1>1, <1>8, <3>1, <3>2 DEF LeaveAsLast, FullInfo
  <2>2. \A o \in Profiles : row'[o] = row[o] \/ (o = p /\ row'[o].clan = NoClan)
    BY <1>8 DEF LeaveAsLast, SetClanId, Write
  <2>. QED
    BY <1>1, <1>2, <2>1, <2>2, LeaderKept
<1>9. ASSUME NEW fault, HandOver(p, q, fault)
      PROVE  HasOneLeader(c)'
  <2>1. /\ p \in online /\ mem[p].rank = Leader
        /\ fault # "none" => {mem[p].clan, row[p].clan, row[q].clan} \subseteq faulted'
        /\ ~Fits(p, q, Leader) => {mem[p].clan, row[p].clan, row[q].clan} \subseteq strayed'
    BY <1>9 DEF HandOver, Note, NoteClans
  <2>2. \A o \in Profiles \ {p, q} : row'[o] = row[o]
    BY <1>9 DEF HandOver, Write
  <2>3. CASE row[p].clan = c \/ row[q].clan = c
    <3>1. fault = "none" /\ Fits(p, q, Leader)
      BY <1>1, <2>1, <2>3
    <3>2. p # q /\ Current(q).clan = mem[p].clan /\ mem[p] = Current(p)
      BY <2>1, <3>1 DEF Fits, Leader, Current
    <3>3. row[p] = mem[p] /\ row[p].clan = c /\ row[q].clan = c
      BY <1>3, <2>3, <3>2
    <3>4. /\ row'[p] = [row[p] EXCEPT !.rank = Officer]
          /\ row'[q] = [row[q] EXCEPT !.rank = Leader]
      BY <1>9, <3>1, <3>2 DEF HandOver, Write, Failed
    <3>5. row'[p].rank # Leader /\ row'[q].clan = c /\ row'[q].rank = Leader
      BY <3>3, <3>4 DEF TypeOK, Membership, Leader, Officer
    <3>6. \A o \in Profiles : row[o].clan = c /\ row[o].rank = Leader <=> o = p
      BY <1>2, <2>1, <3>3 DEF HasOneLeader
    <3>. QED
      BY <2>2, <3>2, <3>5, <3>6 DEF HasOneLeader
  <2>4. CASE row[p].clan # c /\ row[q].clan # c
    <3>1. row'[p].clan # c /\ row'[q].clan # c
      BY <1>9, <2>4 DEF HandOver, Write, TypeOK, Membership
    <3>. QED
      BY <1>2, <2>2, <2>4, <3>1, LeaderKept
  <2>. QED
    BY <2>3, <2>4
<1>10. ASSUME NEW fault, NEW option \in {Leader, Officer, Grunt}, SetRank(p, q, option, fault)
       PROVE  HasOneLeader(c)'
  <2>1. ~Fits(p, q, option) => row[q].clan \in strayed'
    BY <1>10 DEF SetRank, Note, NoteClans
  <2>2. p \in online /\ (option = Leader => mem[p].rank # Leader)
    BY <1>10 DEF SetRank
  <2>3. ASSUME row[q].clan = c
        PROVE  row[q].rank # Leader /\ option # Leader
    <3>1. Fits(p, q, option) /\ Current(q) = row[q]
      BY <1>1, <1>3, <2>1, <2>3
    <3>2. /\ mem[p].clan = c /\ p # q /\ mem[p].rank < row[q].rank
          /\ option = Leader => mem[p].rank = Leader
      BY <1>10, <2>3, <3>1 DEF Fits, Leader, Officer, Grunt
    <3>3. mem[p].rank \in {Leader, Officer, Grunt}
      BY <1>1, <2>2, <3>2 DEF MembersRanked, TypeOK, Membership
    <3>. QED
      BY <2>2, <3>2, <3>3 DEF Leader, Officer, Grunt
  <2>4. \A o \in Profiles : /\ o # q => row'[o] = row[o]
                            /\ row'[o].clan = row[o].clan
                            /\ row'[o].rank \in {row[o].rank, option}
    BY <1>10 DEF SetRank, SetRankInClan, Write, TypeOK, Membership
  <2>. QED
    BY <1>2, <2>3, <2>4, LeaderKept
<1>. QED
  BY <1>4, <1>5, <1>6, <1>7, <1>8, <1>9, <1>10 DEF ModifyRanks

LEMMA LedStep ==
  TypeOK /\ CopiesAgree /\ MembersRanked /\ ClansIssued /\ Led /\ [Next]_vars => Led'
<1>. SUFFICES ASSUME TypeOK, CopiesAgree, MembersRanked, ClansIssued, Led, [Next]_vars,
                     NEW c \in clans' \ Upset'
              PROVE  HasOneLeader(c)'
  BY DEF Led
<1>1. c \in clans => HasOneLeader(c)
  BY RowsKept DEF Led, Upset
<1>2. ASSUME UNCHANGED <<row, clans>>
      PROVE  HasOneLeader(c)'
  BY <1>1, <1>2, LeaderKept
<1>3. ASSUME \/ \E p \in Profiles : Login(p) \/ Disconnect(p) \/ SendClanMessage(p)
             \/ \E p \in Profiles : \E q : ModifyClan(p, q)
             \/ \E p \in Profiles : \E q, fault : Invite(p, q, fault)
             \/ \E m : Acknowledge(m)
             \/ Crash
             \/ UNCHANGED vars
      PROVE  HasOneLeader(c)'
  BY <1>2, <1>3 DEF Login, Disconnect, SendClanMessage, ModifyClan, Invite,
                    Acknowledge, Crash, vars
<1>4. ASSUME NEW p \in Profiles, NEW d \in ClanIds, NEW fault,
             CreateClan(p, d, fault) \/ Accept(p, d, fault)
      PROVE  HasOneLeader(c)'
  BY <1>4, JoinLed
<1>5. ASSUME NEW p \in Profiles, NEW q \in Profiles, ModifyRanks(p, q)
      PROVE  HasOneLeader(c)'
  BY <1>5, ModifyLed
<1>. QED
  BY <1>3, <1>4, <1>5 DEF Next, HandleMessage

\* Exactly one leader makes a set of leaders with one element.
LEMMA LedMeansOneLeader == Led => OneLeader
<1>. SUFFICES ASSUME Led, NEW c \in clans \ Upset
              PROVE  Cardinality({p \in Members(c) : row[p].rank = Leader}) = 1
  BY DEF OneLeader
<1>1. PICK p \in Profiles : \A q \in Profiles : row[q].clan = c /\ row[q].rank = Leader <=> q = p
  BY DEF Led, HasOneLeader
<1>2. {q \in Members(c) : row[q].rank = Leader} = {p}
  BY <1>1 DEF Members
<1>. QED
  BY <1>2, FS_Singleton

\* What makes the leaders of the clans inductive: the types, copies that agree,
\* members with a rank, and new ids for new clans.
IInv == TypeOK /\ CopiesAgree /\ MembersRanked /\ ClansIssued /\ Led

\* Exactly one member leads a clan, whoever hands it over, is kicked or leaves,
\* as long as the requests fit what is stored and their queries do not fail.
THEOREM LeaderCorrect == Spec => []OneLeader
<1>1. Init => IInv
  <2>1. Init => MembersRanked /\ ClansIssued /\ Led
    BY DEF Init, MembersRanked, ClansIssued, Led, Clanless, NoClan
  <2>2. Init => TypeOK /\ CopiesAgree
    BY DEF Init, TypeOK, CopiesAgree, Clanless, Membership, NoClan
  <2>. QED
    BY <2>1, <2>2 DEF IInv
<1>2. IInv /\ [Next]_vars => IInv'
  BY TypeStep, RecordsStep, RankedStep, IssuedStep, LedStep DEF IInv
<1>3. IInv => OneLeader
  BY LedMeansOneLeader DEF IInv
<1>. QED
  BY <1>1, <1>2, <1>3, PTL DEF Spec

-----------------------------------------------------------------------------
(* Rights *)

\* A clan that is gone has no player of the week; a new one starts without.
WeeksOver == \A c \in ClanIds \ clans : week[c] = NoProfile

Rights ==
    /\ TypeOK /\ CopiesAgree /\ NobodyInAGoneClan /\ MembersRanked /\ ClansIssued
    /\ WeeksOver /\ RightsAreCurrent

\* What rights the members of c have is not disturbed by records of other clans.
LEMMA Undisturbed ==
  ASSUME Rights, NEW c, c \notin Upset' \cup {NoClan},
         faulted \subseteq faulted', strayed \subseteq strayed'
  PROVE  /\ c \notin faulted \cup strayed \cup {NoClan}
         /\ \A m \in messages : m.fit /\ m.clan = c =>
               /\ m.from \in Profiles /\ row[m.from].clan = c
               /\ row[m.from].rank <= IF m.kind = "invite" THEN Officer ELSE Leader
         /\ c \in clans /\ week[c] # NoProfile => row[week[c]].clan = c
         /\ \A q \in Profiles : row[q].clan = c => c \in clans
         /\ \A q \in Profiles : row[q].clan = c \/ Current(q).clan = c => Current(q) = row[q]
<1>1. c \notin faulted \cup strayed \cup {NoClan}
  BY DEF Upset
<1>2. \A m \in messages : m.from \in Profiles
  BY DEF Rights, TypeOK, Message
<1>. QED
  BY <1>1, <1>2, CurrentIsRow
     DEF Rights, RightsAreCurrent, MessagesAreEntitled, PlayerOfWeekIsMember, NobodyInAGoneClan,
         Upset

\* Who is dismissed by a request that fits and does not fail leaves neither
\* messages of the clan nor its honour behind.
LEMMA DismissTakesBack ==
  ASSUME Rights, NEW p \in Profiles, NEW q \in Profiles, NEW fault, NEW also,
         Dismiss(p, q, fault, also), NEW c, c \notin Upset' \cup {NoClan}, row[q].clan = c
  PROVE  /\ \A m \in messages' : m.fit /\ m.clan = c => m.from # q
         /\ c \in clans' => week'[c] # q
<1>. USE DEF Leader, Officer, Grunt
<1>1. faulted \subseteq faulted' /\ strayed \subseteq strayed' /\ fault = "none" /\ Fits(p, q, 0)
  BY DismissNotes DEF Upset
<1>2. c \in clans /\ Current(q) = row[q] /\ mem[p].clan = c
  BY <1>1, Undisturbed DEF Fits
<1>3. FullInfo(p, fault).id = c /\ FullInfo(p, fault).week = week[c]
  BY <1>1, <1>2 DEF FullInfo
<1>4. ASSUME NEW m \in messages', m.fit, m.clan = c, m.from = q
      PROVE  FALSE
  <2>1. m \in messages /\ m.kind \in {"invite", "clms"}
    BY <1>4 DEF Dismiss, Rights, TypeOK, Message
  <2>2. row[q].rank <= IF m.kind = "invite" THEN Officer ELSE Leader
    BY <1>1, <1>4, <2>1, Undisturbed
  <2>3. row[q].rank \in Nat
    BY DEF Rights, TypeOK, Membership
  <2>4. CASE m.kind = "invite"
    <3>1. m \in Of(q, InvitesLike(c))
      BY <1>4, <2>1, <2>4 DEF Of, InvitesLike, LikeClan
    <3>2. Current(q).rank < Grunt
      BY <1>2, <2>2, <2>3, <2>4
    <3>. QED
      BY <1>1, <1>3, <1>4, <3>1, <3>2 DEF Dismiss
  <2>5. CASE m.kind = "clms"
    <3>1. m \in Of(q, ClanMessages)
      BY <1>4, <2>1, <2>5 DEF Of, ClanMessages
    <3>2. Current(q).rank < Officer
      BY <1>2, <2>2, <2>3, <2>5
    <3>. QED
      BY <1>1, <1>4, <3>1, <3>2 DEF Dismiss
  <2>. QED
    BY <2>1, <2>4, <2>5
<1>5. c \in clans' => week'[c] # q
  <2>1. c \in ClanIds /\ q # NoProfile
    BY <1>2, ProfileAssumption DEF Rights, TypeOK
  <2>. QED
    BY <1>1, <1>3, <2>1 DEF Dismiss
<1>. QED
  BY <1>4, <1>5

\* Nobody but q loses a rank or a clan.
LEMMA DismissRights ==
  ASSUME Rights, NEW p \in Profiles, NEW q \in Profiles, NEW fault, NEW also,
         Dismiss(p, q, fault, also), clans' \subseteq clans,
         \A o \in Profiles \ {q} : /\ row'[o].clan = row[o].clan
                                   /\ row'[o].rank \in {row[o].rank, Leader}
  PROVE  RightsAreCurrent' /\ WeeksOver'
<1>1. /\ faulted \subseteq faulted' /\ strayed \subseteq strayed'
      /\ messages' \subseteq messages
      /\ \A c \in ClanIds : week'[c] \in {week[c], NoProfile} /\ (c \notin clans' => week'[c] = NoProfile)
  <2>1. faulted \subseteq faulted' /\ strayed \subseteq strayed'
    BY DismissNotes
  <2>2. messages' \subseteq messages
    BY DEF Dismiss
  <2>3. ASSUME NEW c \in ClanIds
        PROVE  week'[c] \in {week[c], NoProfile} /\ (c \notin clans' => week'[c] = NoProfile)
    BY <2>3 DEF Dismiss
  <2>. QED
    BY <2>1, <2>2, <2>3
<1>2. \A o \in Profiles : row[o].rank \in Nat
  BY DEF Rights, TypeOK, Membership, Leader, Officer, Grunt
<1>3. ASSUME NEW m \in messages', m.fit, m.clan \notin Upset' \cup {NoClan}
      PROVE  /\ row'[m.from].clan = m.clan
             /\ row'[m.from].rank <= IF m.kind = "invite" THEN Officer ELSE Leader
  <2>1. /\ m \in messages /\ m.from \in Profiles /\ row[m.from].clan = m.clan
        /\ row[m.from].rank <= IF m.kind = "invite" THEN Officer ELSE Leader
    BY <1>1, <1>3, Undisturbed
  <2>2. m.from # q
    BY <1>3, <2>1, DismissTakesBack
  <2>. QED
    BY <1>2, <2>1, <2>2 DEF Leader, Officer
<1>4. ASSUME NEW c \in clans' \ Upset', week'[c] # NoProfile
      PROVE  row'[week'[c]].clan = c
  <2>1. c \in clans /\ c \in ClanIds /\ c # NoClan
    BY ClanIdAssumption DEF Rights, TypeOK, NoClan
  <2>2. week'[c] = week[c] /\ week[c] \in Profiles
    BY <1>1, <1>4, <2>1 DEF Rights, TypeOK
  <2>3. row[week[c]].clan = c
    BY <1>1, <1>4, <2>1, <2>2, Undisturbed
  <2>4. week[c] # q
    BY <1>4, <2>1, <2>2, <2>3, DismissTakesBack
  <2>. QED
    BY <2>2, <2>3, <2>4
<1>5. WeeksOver'
  BY <1>1 DEF WeeksOver
<1>. QED
  BY <1>3, <1>4, <1>5 DEF RightsAreCurrent, MessagesAreEntitled, PlayerOfWeekIsMember

\* As long as a clan is not upset, a change of rank finds who it meant, and takes
\* back what the new rank does not cover.
LEMMA RankRights ==
  ASSUME Rights, NEW p \in Profiles, NEW q \in Profiles, NEW fault,
         HandOver(p, q, fault) \/ \E option \in {Leader, Officer, Grunt} : SetRank(p, q, option, fault)
  PROVE  RightsAreCurrent' /\ WeeksOver'
<1>. USE DEF Leader, Officer, Grunt
<1>1. /\ faulted \subseteq faulted' /\ strayed \subseteq strayed'
      /\ messages' \subseteq messages /\ UNCHANGED <<week, clans>>
  BY DEF HandOver, SetRank, Note, NoteClans
<1>2. \A o \in Profiles : row'[o].clan = row[o].clan
  BY DEF HandOver, SetRank, SetRankInClan, Write, Rights, TypeOK, Membership
<1>3. \A o \in Profiles : row[o].rank \in Nat
  BY DEF Rights, TypeOK, Membership
<1>4. ASSUME NEW m \in messages', m.fit, m.clan \notin Upset' \cup {NoClan}
      PROVE  row'[m.from].rank <= IF m.kind = "invite" THEN Officer ELSE Leader
  <2>. DEFINE c == m.clan
  <2>1. /\ m \in messages /\ m.from \in Profiles /\ row[m.from].clan = c
        /\ row[m.from].rank <= IF m.kind = "invite" THEN Officer ELSE Leader
        /\ m.kind \in {"invite", "clms"}
        /\ c \in clans /\ Current(m.from) = row[m.from]
    <3>1. m \in messages /\ m.kind \in {"invite", "clms"}
      BY <1>1 DEF Rights, TypeOK, Message
    <3>. QED
      BY <1>1, <1>4, <3>1, Undisturbed
  <2>2. CASE HandOver(p, q, fault)
    <3>1. CASE m.from \notin {p, q}
      BY <2>1, <2>2, <3>1 DEF HandOver, Write
    <3>2. CASE m.from \in {p, q}
      <4>1. fault = "none" /\ Fits(p, q, Leader)
        BY <1>4, <2>1, <2>2, <3>2 DEF HandOver, Note, NoteClans, Upset
      <4>2. p # q
        BY <4>1 DEF Fits
      <4>3. m \notin Of(p, ClanMessages)
        BY <2>2, <4>1 DEF HandOver
      <4>4. row'[p].rank = Officer /\ row'[q].rank = Leader
        BY <2>2, <4>1, <4>2 DEF HandOver, Write, Failed, Rights, TypeOK, Membership
      <4>5. m.from = p => m.kind = "invite"
        BY <2>1, <4>3 DEF Of, ClanMessages
      <4>. QED
        BY <3>2, <4>4, <4>5
    <3>. QED
      BY <3>1, <3>2
  <2>3. ASSUME NEW option \in {Leader, Officer, Grunt}, SetRank(p, q, option, fault)
        PROVE  row'[m.from].rank <= IF m.kind = "invite" THEN Officer ELSE Leader
    <3>1. CASE m.from # q
      BY <2>1, <2>3, <3>1 DEF SetRank, SetRankInClan, Write
    <3>2. CASE m.from = q
      <4>1. fault = "none" /\ Fits(p, q, option)
        BY <1>4, <2>1, <2>3, <3>2 DEF SetRank, Note, NoteClans, Upset
      <4>2. /\ p \in online /\ mem[p].clan = c /\ mem[p].rank < row[q].rank
            /\ option # Leader
        BY <2>1, <2>3, <3>2, <4>1 DEF Fits, SetRank
      <4>3. mem[p].rank \in Nat \ {0}
        BY <1>4, <4>2 DEF Rights, TypeOK, Membership, MembersRanked
      <4>4. m.kind = "invite"
        BY <1>3, <2>1, <3>2, <4>2, <4>3
      <4>5. option # Grunt
        <5>1. FullInfo(p, fault).id = c
          BY <2>1, <4>1, <4>2 DEF FullInfo
        <5>2. m \in Of(q, InvitesLike(c))
          BY <2>1, <3>2, <4>4 DEF Of, InvitesLike, LikeClan
        <5>. QED
          BY <2>3, <4>1, <5>1, <5>2 DEF SetRank
      <4>6. row'[q].rank = option
        BY <2>3, <4>1 DEF SetRank, SetRankInClan, Write, Failed, Rights, TypeOK, Membership
      <4>. QED
        BY <2>3, <3>2, <4>2, <4>4, <4>5, <4>6
    <3>. QED
      BY <3>1, <3>2
  <2>. QED
    BY <2>2, <2>3
<1>5. MessagesAreEntitled'
  <2>1. \A m \in messages' : m.fit /\ m.clan \notin Upset' \cup {NoClan} => row'[m.from].clan = m.clan
    BY <1>1, <1>2, Undisturbed
  <2>. QED
    BY <1>4, <2>1 DEF MessagesAreEntitled
<1>6. PlayerOfWeekIsMember'
  <2>1. \A c \in clans : c # NoClan /\ week[c] \in Profiles \cup {NoProfile}
    BY ClanIdAssumption DEF Rights, TypeOK, NoClan
  <2>. QED
    BY <1>1, <1>2, <2>1, Undisturbed DEF PlayerOfWeekIsMember
<1>. QED
  BY <1>1, <1>5, <1>6 DEF RightsAreCurrent, WeeksOver, Rights

LEMMA ModifyRights ==
  ASSUME Rights, NEW p \in Profiles, NEW q \in Profiles, ModifyRanks(p, q)
  PROVE  RightsAreCurrent' /\ WeeksOver'
<1>1. ASSUME NEW fault, Kick(p, q, fault)
      PROVE  RightsAreCurrent' /\ WeeksOver'
  <2>1. \A o \in Profiles \ {q} : row'[o] = row[o]
    BY <1>1 DEF Kick, SetClanId, Write
  <2>. QED
    BY <1>1, <2>1, DismissRights DEF Kick
<1>2. ASSUME NEW fault, Leave(p, fault) \/ LeaveAsLast(p, fault)
      PROVE  RightsAreCurrent' /\ WeeksOver'
  <2>1. \A o \in Profiles \ {p} : row'[o] = row[o]
    BY <1>2 DEF Leave, LeaveAsLast, SetClanId, Write
  <2>2. \E also : Dismiss(p, p, fault, also)
    BY <1>2 DEF Leave, LeaveAsLast
  <2>3. clans' \subseteq clans
    BY <1>2 DEF Leave, LeaveAsLast
  <2>. QED
    BY <2>1, <2>2, <2>3, DismissRights
<1>3. ASSUME NEW fault, LeaveToHeir(p, fault)
      PROVE  RightsAreCurrent' /\ WeeksOver'
  <2>1. \E h, failed : Succeed(p, h, failed)
    BY <1>3 DEF LeaveToHeir
  <2>2. \A o \in Profiles \ {p} : row'[o].clan = row[o].clan /\ row'[o].rank \in {row[o].rank, Leader}
    BY <2>1 DEF Succeed, Write, Rights, TypeOK, Membership
  <2>. QED
    BY <1>3, <2>2, DismissRights DEF LeaveToHeir
<1>4. ASSUME NEW fault, LeaveToNobody(p, fault)
      PROVE  RightsAreCurrent' /\ WeeksOver'
  BY <1>4, DismissRights DEF LeaveToNobody
<1>. QED
  BY <1>1, <1>2, <1>3, <1>4, RankRights DEF ModifyRanks

\* Who founds or joins a clan leaves none behind that is not upset.
LEMMA JoinRights ==
  ASSUME Rights, NEW p \in Profiles, NEW d \in ClanIds, NEW fault,
         CreateClan(p, d, fault) \/ Accept(p, d, fault)
  PROVE  RightsAreCurrent' /\ WeeksOver'
<1>1. /\ faulted \subseteq faulted' /\ strayed \subseteq strayed'
      /\ mem[p].clan = NoClan \/ row[p].clan \in strayed'
      /\ UNCHANGED <<messages, week>> /\ p \in online
      /\ clans \subseteq clans' /\ clans' \subseteq clans \cup {d}
  BY DEF CreateClan, Accept, NoteClans
<1>2. \A o \in Profiles \ {p} : row'[o] = row[o]
  BY DEF CreateClan, Accept, SetClanId, Write
<1>3. ASSUME NEW c, c \notin Upset' \cup {NoClan} PROVE row[p].clan # c
  BY <1>1, <1>3, Undisturbed DEF Current, Upset
<1>4. MessagesAreEntitled'
  <2>1. ASSUME NEW m \in messages', m.fit, m.clan \notin Upset' \cup {NoClan}
        PROVE  /\ row'[m.from].clan = m.clan
               /\ row'[m.from].rank <= IF m.kind = "invite" THEN Officer ELSE Leader
    <3>1. /\ m.from \in Profiles /\ row[m.from].clan = m.clan
          /\ row[m.from].rank <= IF m.kind = "invite" THEN Officer ELSE Leader
      BY <1>1, <2>1, Undisturbed
    <3>. QED
      BY <1>2, <1>3, <2>1, <3>1
  <2>. QED
    BY <2>1 DEF MessagesAreEntitled
<1>5. PlayerOfWeekIsMember'
  <2>1. ASSUME NEW c \in clans' \ Upset', week'[c] # NoProfile
        PROVE  row'[week'[c]].clan = c
    <3>1. c \in ClanIds /\ c # NoClan /\ week[c] \in Profiles \cup {NoProfile}
      BY <1>1, ClanIdAssumption DEF Rights, TypeOK, NoClan
    <3>2. c \in clans
      BY <1>1, <2>1, <3>1 DEF Rights, WeeksOver
    <3>3. row[week[c]].clan = c
      BY <1>1, <2>1, <3>1, <3>2, Undisturbed
    <3>. QED
      BY <1>1, <1>2, <1>3, <2>1, <3>1, <3>3
  <2>. QED
    BY <2>1 DEF PlayerOfWeekIsMember
<1>6. WeeksOver'
  BY <1>1 DEF Rights, WeeksOver
<1>. QED
  BY <1>4, <1>5, <1>6 DEF RightsAreCurrent

\* The rights to invite, to write to a clan and to name its player of the week
\* are those of the row, for a clan no failed query had to do with.
LEMMA GrantRights ==
  ASSUME Rights, NEW p \in Profiles,
         \/ \E q \in Profiles, fault \in {"none", "clan", "invites"} : Invite(p, q, fault)
         \/ SendClanMessage(p)
         \/ \E q \in Profiles \cup {NoProfile} : ModifyClan(p, q)
  PROVE  RightsAreCurrent' /\ WeeksOver'
<1>. USE DEF Leader, Officer, Grunt
<1>1. p \in online /\ faulted' = faulted /\ strayed \subseteq strayed' /\ UNCHANGED <<row, clans>>
  BY DEF Invite, SendClanMessage, ModifyClan, NoteClans
<1>2. ASSUME NEW m \in messages', m.fit, m.clan \notin Upset' \cup {NoClan}
      PROVE  /\ row[m.from].clan = m.clan
             /\ row[m.from].rank <= IF m.kind = "invite" THEN Officer ELSE Leader
  <2>1. CASE m \in messages
    BY <1>1, <1>2, <2>1, Undisturbed
  <2>2. CASE m \notin messages
    <3>1. /\ m.from = p /\ m.clan = mem[p].clan
          /\ \/ m.kind = "invite" /\ mem[p].rank \in {Leader, Officer}
             \/ m.kind = "clms" /\ mem[p].rank = Leader
      <4>1. ASSUME NEW q \in Profiles, NEW fault, Invite(p, q, fault)
            PROVE  m.from = p /\ m.clan = mem[p].clan /\ m.kind = "invite" /\ mem[p].rank \in {Leader, Officer}
        <5>1. PICK c \in {mem[p].clan, NoClan} :
                 messages' = messages \cup {[kind |-> "invite", from |-> p, to |-> q, clan |-> c,
                                           fit |-> mem[p].rank \in {Leader, Officer}]}
          BY <4>1 DEF Invite
        <5>2. m = [kind |-> "invite", from |-> p, to |-> q, clan |-> c,
                   fit |-> mem[p].rank \in {Leader, Officer}]
          BY <2>2, <5>1
        <5>3. m.from = p /\ m.clan = c /\ m.kind = "invite"
          BY <5>2
        <5>4. m.fit = (mem[p].rank \in {Leader, Officer})
          BY <5>2, Zenon
        <5>5. mem[p].rank \in {Leader, Officer}
          BY <1>2, <5>4, Zenon
        <5>. QED
          BY <1>2, <5>3, <5>5
      <4>2. ASSUME SendClanMessage(p)
            PROVE  m.from = p /\ m.clan = mem[p].clan /\ m.kind = "clms" /\ mem[p].rank = Leader
        <5>1. PICK q : m = [kind |-> "clms", from |-> p, to |-> q, clan |-> mem[p].clan,
                            fit |-> mem[p].rank = Leader]
          BY <2>2, <4>2 DEF SendClanMessage
        <5>2. m.from = p /\ m.clan = mem[p].clan /\ m.kind = "clms"
          BY <5>1
        <5>3. m.fit = (mem[p].rank = Leader)
          BY <5>1, Zenon
        <5>4. mem[p].rank = Leader
          BY <1>2, <5>3, Zenon
        <5>. QED
          BY <5>2, <5>4
      <4>3. ASSUME NEW q, ModifyClan(p, q) PROVE FALSE
        BY <2>2, <4>3 DEF ModifyClan
      <4>. QED
        BY <4>1, <4>2, <4>3
    <3>2. mem[p] = row[p]
      BY <1>1, <1>2, <3>1, Undisturbed DEF Current
    <3>. QED
      BY <3>1, <3>2
  <2>. QED
    BY <2>1, <2>2
<1>3. ASSUME NEW c \in clans \ Upset', week'[c] # NoProfile
      PROVE  row[week'[c]].clan = c
  <2>1. c \in ClanIds /\ c # NoClan /\ c \notin Upset' \cup {NoClan}
    BY <1>3, ClanIdAssumption DEF Rights, TypeOK, NoClan
  <2>2. CASE week'[c] = week[c]
    BY <1>1, <1>3, <2>1, <2>2, Undisturbed
  <2>3. CASE week'[c] # week[c]
    <3>1. PICK q \in Profiles \cup {NoProfile} : ModifyClan(p, q)
      BY <2>3 DEF Invite, SendClanMessage
    <3>2. mem[p].clan = c /\ week'[c] = q
      BY <2>1, <2>3, <3>1 DEF ModifyClan, Rights, TypeOK
    <3>3. Current(q).clan = c /\ q \in Profiles
      BY <1>3, <3>1, <3>2 DEF ModifyClan, NoteClans, Upset
    <3>. QED
      BY <1>1, <2>1, <3>2, <3>3, Undisturbed
  <2>. QED
    BY <2>2, <2>3
<1>4. WeeksOver'
  BY <1>1 DEF Rights, WeeksOver, TypeOK, Invite, SendClanMessage, ModifyClan
<1>. QED
  BY <1>1, <1>2, <1>3, <1>4 DEF RightsAreCurrent, MessagesAreEntitled, PlayerOfWeekIsMember

LEMMA RightsStep == Rights /\ [Next]_vars => RightsAreCurrent' /\ WeeksOver'
<1>. SUFFICES ASSUME Rights, [Next]_vars
              PROVE  RightsAreCurrent' /\ WeeksOver'
  OBVIOUS
<1>1. ASSUME \/ \E p \in Profiles : Login(p) \/ Disconnect(p)
             \/ \E m \in messages : Acknowledge(m)
             \/ Crash
             \/ UNCHANGED vars
      PROVE  RightsAreCurrent' /\ WeeksOver'
  <2>1. messages' \subseteq messages /\ UNCHANGED <<row, clans, week, faulted, strayed>>
    BY <1>1 DEF Login, Disconnect, Acknowledge, Crash, vars
  <2>. QED
    BY <2>1 DEF Rights, RightsAreCurrent, MessagesAreEntitled, PlayerOfWeekIsMember, WeeksOver,
                Upset
<1>. QED
  BY <1>1, JoinRights, ModifyRights, GrantRights DEF Next, HandleMessage

\* Whoever leads, kicks, leaves, joins or demotes: the messages that wait were
\* sent by members who still may send them, and the player of the week is a
\* member, in every clan that no failed query or late request had to do with.
THEOREM RightsCorrect == Spec => []RightsAreCurrent
<1>1. Init => Rights
  <2>1. Init => TypeOK /\ CopiesAgree /\ NobodyInAGoneClan /\ MembersRanked /\ ClansIssued
    BY DEF Init, TypeOK, CopiesAgree, NobodyInAGoneClan, MembersRanked, ClansIssued, Clanless,
           Membership, NoClan
  <2>2. Init => WeeksOver /\ RightsAreCurrent
    BY DEF Init, WeeksOver, RightsAreCurrent, MessagesAreEntitled, PlayerOfWeekIsMember
  <2>. QED
    BY <2>1, <2>2 DEF Rights
<1>2. Rights /\ [Next]_vars => Rights'
  BY TypeStep, RecordsStep, NobodyStep, RankedStep, IssuedStep, RightsStep DEF Rights
<1>3. Rights => RightsAreCurrent
  BY DEF Rights
<1>. QED
  BY <1>1, <1>2, <1>3, PTL DEF Spec
=============================================================================
