-------------------------------- MODULE Clans --------------------------------
(***************************************************************************)
(* Clans: the CLAN handlers of MMG_Messaging, the observer that writes a   *)
(* profile when its clan or rank changes, and the tables in MySQLDatabase. *)
(*                                                                         *)
(* Who is in which clan, and with which rank, is kept twice: in the        *)
(* profile's row, and in the memory of the client that plays the profile.  *)
(* setClanId and setRankInClan change the copy they are called on, which   *)
(* for a profile nobody plays is a temporary one, and then write the row;  *)
(* a failed write is rolled back, and nobody is told.  The handlers check  *)
(* no rights, ignore the results of their queries, and take the clan and   *)
(* the rank of the requester from memory when the request is handled,      *)
(* which may not be what the player saw when it was made.                  *)
(*                                                                         *)
(* A handler is one action: it runs on the main thread, under the lock of  *)
(* the client manager.  Two bounds: at most one query of a handler fails,  *)
(* and of all requests about clans at most MaxTroubles meet a failed query *)
(* or no longer fit.                                                       *)
(***************************************************************************)
EXTENDS Naturals, FiniteSets

CONSTANTS
    Profiles,     \* rows of the profiles table, all of different accounts
    NoProfile,    \* profile id 0
    ClanIds,      \* bound: the ids the clans table may hand out
    MaxMessages,  \* bound: messages that wait for their recipients
    MaxTroubles   \* bound: clans that failed queries and late requests upset

ASSUME ProfileAssumption == IsFiniteSet(Profiles) /\ NoProfile \notin Profiles

ASSUME BoundAssumption == MaxMessages \in Nat /\ MaxTroubles \in Nat

ASSUME ClanIdAssumption == ClanIds \subseteq Nat \ {0}

VARIABLES
    clans,      \* the ids in the clans table
    issued,     \* history: ids the table has handed out
    week,       \* clans.playeroftheweekid
    row,        \* profiles.clanid and profiles.rankinclan
    online,     \* profiles a client plays
    mem,        \* m_ClanId and m_RankInClan in the memory of that client
    messages,   \* the messages table, as far as clans write it
    lost,       \* history: played profiles with a failed write of their row
    faulted,    \* history: clans a failed query had to do with, 0 for none
    strayed     \* history: clans of a request that no longer fitted, 0 for none

vars == <<clans, issued, week, row, online, mem, messages, lost, faulted, strayed>>

NoClan == 0
Leader == 1
Officer == 2
Grunt == 3

Membership == [clan : ClanIds \cup {NoClan}, rank : {0, Leader, Officer, Grunt}]
Clanless == [clan |-> NoClan, rank |-> 0]

\* "|clan|<id>|..." and "|clms|..."; the clan of the latter is not stored, and
\* whether the sender had the rank for it is history.
Message == [kind : {"invite", "clms"}, from : Profiles, to : Profiles,
            clan : ClanIds \cup {NoClan}, fit : BOOLEAN]

TypeOK ==
    /\ issued \subseteq ClanIds /\ clans \subseteq issued
    /\ week \in [ClanIds -> Profiles \cup {NoProfile}]
    /\ row \in [Profiles -> Membership]
    /\ online \subseteq Profiles /\ lost \subseteq online
    /\ mem \in [Profiles -> Membership]
    /\ messages \subseteq Message
    /\ faulted \subseteq ClanIds \cup {NoClan} /\ strayed \subseteq ClanIds \cup {NoClan}

Init ==
    /\ clans = {} /\ issued = {}
    /\ week = [c \in ClanIds |-> NoProfile]
    /\ row = [p \in Profiles |-> Clanless]
    /\ online = {}
    /\ mem = [p \in Profiles |-> Clanless]
    /\ messages = {}
    /\ lost = {} /\ faulted = {} /\ strayed = {}

-----------------------------------------------------------------------------
(* Helpers *)

\* Mutant: only members who are online are counted.
MembersOnline(c) == {p \in online : row[p].clan = c}

Members(c) == {p \in Profiles : row[p].clan = c}

\* The copy a handler works on.
Current(p) == IF p \in online THEN mem[p] ELSE row[p]

\* Mutant: always a temporary copy.
NonePlayed(ps) == {}

\* Those of ps whose copy in the memory of a client is the one that is changed.
Played(ps) == ps \cap online

\* setClanId and setRankInClan change the copies in memory of the profiles ps to
\* those of newMem, and their rows to those of newRow, unless a write fails.
Write(newRow, newMem, ps, failed) ==
    /\ row' = [p \in Profiles |-> IF p \in ps \ failed THEN newRow[p] ELSE row[p]]
    /\ mem' = [p \in Profiles |-> IF p \in Played(ps) THEN newMem[p] ELSE mem[p]]
    /\ lost' = lost \cup (failed \cap online)

SetClanId(p, c, r, failed) ==
    LET new == [q \in Profiles |-> [clan |-> c, rank |-> r]] IN Write(new, new, {p}, failed)

SetRankInClan(p, r, failed) ==
    LET ranked(ms) == [q \in Profiles |-> [ms[q] EXCEPT !.rank = r]]
    IN Write(ranked(row), ranked(mem), {p}, failed)

\* Whose write a fault named what hits.
Failed(fault, what, p) == IF fault = what THEN {p} ELSE {}

\* message LIKE '|clan|<c>%': the id that is stored begins with the digits of c.
LikeClan(c, d) == d = c \/ (c # NoClan /\ (d \div 10 = c \/ d \div 100 = c))

InvitesLike(c) == {m \in messages : m.kind = "invite" /\ LikeClan(c, m.clan)}
ClanMessages == {m \in messages : m.kind = "clms"}

\* Mutant: only what p is to receive.
Received(p, ms) == {m \in ms : m.to = p}

\* Those of ms that p has sent or is to receive.
Of(p, ms) == {m \in ms : m.from = p \/ m.to = p}

\* What QueryClanFullInfo returns for the clan of p.
FullInfo(p, fault) ==
    LET c == mem[p].clan IN
    [id |-> IF c \in clans /\ fault # "clan" THEN c ELSE NoClan,
     members |-> IF fault \in {"clan", "members"} THEN {} ELSE Members(c),
     week |-> IF c \in clans /\ fault # "clan" THEN week[c] ELSE NoProfile]

Upset == faulted \cup strayed

\* What the history keeps of a request that has to do with the clans cs.
NoteClans(cs, fault, fits) ==
    /\ fault # "none" \/ ~fits => Cardinality(Upset) < MaxTroubles
    /\ faulted' = IF fault = "none" THEN faulted ELSE faulted \cup cs
    /\ strayed' = IF fits THEN strayed ELSE strayed \cup cs

Note(p, q, fault, fits) ==
    NoteClans({mem[p].clan, row[p].clan, mem[q].clan, row[q].clan}, fault, fits)

\* A member may leave, and rank its inferiors; only a leader makes leaders.
Fits(p, q, option) ==
    /\ mem[p].clan # NoClan
    /\ Current(q).clan = mem[p].clan
    /\ IF p = q THEN option = 0
       ELSE mem[p].rank < Current(q).rank /\ (option = Leader => mem[p].rank = Leader)

-----------------------------------------------------------------------------
(* Logins, as far as they matter here; Sessions has the rest *)

Login(p) ==
    /\ p \notin online
    /\ online' = online \cup {p}
    /\ mem' = [mem EXCEPT ![p] = row[p]]
    /\ UNCHANGED <<clans, issued, week, row, messages, lost, faulted, strayed>>

\* Mutant: the failed write outlives the copy in memory.
LogOutKeepLost(ps) ==
    /\ online' = online \ ps
    /\ mem' = [p \in Profiles |-> IF p \in ps THEN Clanless ELSE mem[p]]
    /\ UNCHANGED lost

LogOut(ps) ==
    /\ online' = online \ ps
    /\ mem' = [p \in Profiles |-> IF p \in ps THEN Clanless ELSE mem[p]]
    /\ lost' = lost \ ps

Disconnect(p) ==
    /\ p \in online
    /\ LogOut({p})
    /\ UNCHANGED <<clans, issued, week, row, messages, faulted, strayed>>

Crash ==
    /\ online # {}
    /\ LogOut(online)
    /\ UNCHANGED <<clans, issued, week, row, messages, faulted, strayed>>

-----------------------------------------------------------------------------
(* MESSAGING_CLAN_CREATE_REQUEST and MESSAGING_CLAN_MODIFY_REQUEST *)

\* For a name and a tag that are free.  The ids the table hands out only grow.
CreateClan(p, c, fault) ==
    /\ p \in online
    /\ c \in ClanIds /\ \A d \in issued : d < c
    /\ fault \in {"none", "own"}
    /\ issued' = issued \cup {c}
    /\ clans' = clans \cup {c}
    /\ SetClanId(p, c, Leader, Failed(fault, "own", p))
    /\ NoteClans({mem[p].clan, row[p].clan} \cup (IF fault = "none" THEN {} ELSE {c}),
                 fault, mem[p].clan = NoClan)
    /\ UNCHANGED <<week, online, messages>>

\* SaveClanEditableVariables; q is NoProfile when there is no player of the week.
ModifyClan(p, q) ==
    LET c == mem[p].clan IN
    /\ p \in online
    /\ c \in clans
    /\ week' = [week EXCEPT ![c] = q]
    /\ NoteClans({c}, "none", mem[p].rank = Leader /\ (q # NoProfile => Current(q).clan = c))
    /\ UNCHANGED <<clans, issued, row, online, mem, messages, lost>>

-----------------------------------------------------------------------------
(* MESSAGING_CLAN_MODIFY_RANKS_REQUEST *)

\* What is done first when q is dismissed; also are messages deleted later on.
Dismiss(p, q, fault, also) ==
    LET info == FullInfo(p, fault)
        gone == also
                \cup (IF Current(q).rank < Grunt /\ fault # "invites"
                      THEN Of(q, InvitesLike(info.id)) ELSE {})
                \cup (IF Current(q).rank < Officer /\ fault # "messages"
                      THEN Of(q, ClanMessages) ELSE {})
    IN /\ fault = "week" => info.week = q
       /\ fault = "invites" => Current(q).rank < Grunt
       /\ fault = "messages" => Current(q).rank < Officer
       /\ messages' = messages \ gone
       /\ week' = [c \in ClanIds |->
                     IF c \notin clans' \/ (c = info.id /\ info.week = q /\ fault # "week")
                     THEN NoProfile ELSE week[c]]
       /\ Note(p, q, fault, Fits(p, q, 0))
       /\ UNCHANGED issued

DismissFaults == {"none", "clan", "members", "week", "invites", "messages", "own"}

Kick(p, q, fault) ==
    /\ p \in online
    /\ p # q
    /\ fault \in DismissFaults
    /\ SetClanId(q, NoClan, 0, Failed(fault, "own", q))
    /\ UNCHANGED <<clans, online>>
    /\ Dismiss(p, q, fault, {})

Leave(p, fault) ==
    /\ p \in online
    /\ mem[p].rank # Leader
    /\ fault \in DismissFaults
    /\ SetClanId(p, NoClan, 0, Failed(fault, "own", p))
    /\ UNCHANGED <<clans, online>>
    /\ Dismiss(p, p, fault, {})

\* Mutant: any member is an heir.
AnyHeir(seen) == seen

\* The members, by rank, whose profiles have been read: officers, else grunts.
Heirs(seen) ==
    LET ranked(r) == {q \in seen : row[q].rank = r}
    IN IF ranked(Officer) # {} THEN ranked(Officer) ELSE ranked(Grunt)

Seen(p, fault) == IF fault = "candidates" THEN SUBSET FullInfo(p, fault).members
                  ELSE {FullInfo(p, fault).members}

LeaderLeaves(p, fault) ==
    /\ p \in online
    /\ mem[p].rank = Leader
    /\ Cardinality(FullInfo(p, fault).members) > 1

\* setRankInClan for the heir h, and then setClanId for the leader p.
Succeed(p, h, failed) ==
    LET new(ms) == [q \in Profiles |->
                      IF q = p THEN Clanless ELSE [ms[q] EXCEPT !.rank = Leader]]
    IN Write(new(row), new(mem), {p, h}, failed)

\* One of the heirs becomes the leader.
LeaveToHeir(p, fault) ==
    /\ LeaderLeaves(p, fault)
    /\ fault \in DismissFaults \cup {"candidates", "heir"}
    /\ \E seen \in Seen(p, fault) : \E h \in Heirs(seen) :
          /\ fault = "heir" => h # p
          /\ Succeed(p, h, Failed(fault, "own", p) \cup Failed(fault, "heir", h))
    /\ UNCHANGED <<clans, online>>
    /\ Dismiss(p, p, fault, {})

\* There is none: the heir is drawn from an interval of length 0, and the
\* division by it ends the process.
LeaveToNobody(p, fault) ==
    /\ LeaderLeaves(p, fault)
    /\ fault \in DismissFaults \cup {"candidates"}
    /\ \E seen \in Seen(p, fault) : Heirs(seen) = {}
    /\ LogOut(online)
    /\ UNCHANGED <<clans, row>>
    /\ Dismiss(p, p, fault, {})

\* The last member takes the clan, and all that invites to it, along.
LeaveAsLast(p, fault) ==
    LET info == FullInfo(p, fault) IN
    /\ p \in online
    /\ mem[p].rank = Leader
    /\ Cardinality(info.members) <= 1
    /\ fault \in DismissFaults \cup {"dissolve"}
    /\ clans' = IF fault = "dissolve" THEN clans ELSE clans \ {info.id}
    /\ SetClanId(p, NoClan, 0, Failed(fault, "own", p))
    /\ UNCHANGED online
    /\ Dismiss(p, p, fault, IF fault = "dissolve" THEN {} ELSE InvitesLike(info.id))

\* A leader makes q the leader, and itself an officer; the query that finds q
\* may fail, or one of the writes.
HandOver(p, q, fault) ==
    /\ p \in online
    /\ mem[p].rank = Leader
    /\ fault \in {"none", "profile", "messages", "own"} \cup (IF p = q THEN {} ELSE {"theirs"})
    /\ LET new(ms) == [o \in Profiles |->
                         [ms[o] EXCEPT !.rank = IF o = p THEN Officer ELSE Leader]]
       IN Write(new(row), new(mem), {p} \cup (IF fault = "profile" THEN {} ELSE {q}),
                Failed(fault, "own", p) \cup Failed(fault, "theirs", q))
    /\ messages' = IF fault = "messages" THEN messages ELSE messages \ Of(p, ClanMessages)
    /\ Note(p, q, fault, Fits(p, q, Leader))
    /\ UNCHANGED <<clans, issued, week, online>>

\* Any other change of rank, also to Leader by one who no longer is the leader.
SetRank(p, q, option, fault) ==
    /\ p \in online
    /\ option = Leader => mem[p].rank # Leader
    /\ fault \in {"none", "clan", "theirs"} \cup (IF option = Grunt THEN {"invites"} ELSE {})
    /\ messages' = IF option = Grunt /\ fault # "invites"
                   THEN messages \ Of(q, InvitesLike(FullInfo(p, fault).id)) ELSE messages
    /\ SetRankInClan(q, option, Failed(fault, "theirs", q))
    /\ Note(p, q, fault, Fits(p, q, option))
    /\ UNCHANGED <<clans, issued, week, online>>

Faults == DismissFaults \cup {"candidates", "heir", "dissolve", "profile", "theirs"}

ModifyRanks(p, q) ==
    \E fault \in IF Cardinality(Upset) < MaxTroubles THEN Faults ELSE {"none"} :
       \/ Kick(p, q, fault)
       \/ p = q /\ \/ Leave(p, fault)
                   \/ LeaveToHeir(p, fault)
                   \/ LeaveToNobody(p, fault)
                   \/ LeaveAsLast(p, fault)
       \/ HandOver(p, q, fault)
       \/ \E option \in {Leader, Officer, Grunt} : SetRank(p, q, option, fault)

-----------------------------------------------------------------------------
(* Invitations and clan messages *)

\* The game lets leaders and officers invite; the handler has its check of that
\* commented out, and invites for whoever asks, who may have lost the rank by
\* then.  A failed query finds no earlier invitation, or clan 0.
Invite(p, q, fault) ==
    LET c == IF mem[p].clan \in clans /\ fault # "clan" THEN mem[p].clan ELSE NoClan IN
    /\ p \in online
    /\ fault \in {"none", "clan", "invites"}
    /\ Cardinality(messages) < MaxMessages
    /\ row[q].clan = NoClan
    /\ fault = "invites" \/ ~\E m \in messages : m.kind = "invite" /\ m.to = q
    /\ messages' = messages \cup {[kind |-> "invite", from |-> p, to |-> q, clan |-> c,
                                fit |-> mem[p].rank \in {Leader, Officer}]}
    /\ UNCHANGED <<clans, issued, week, row, online, mem, lost, faulted, strayed>>

\* The answer to an invitation, which may have been withdrawn or be an old one:
\* it is enough that there is the clan.
Accept(p, c, fault) ==
    /\ p \in online
    /\ c \in clans
    /\ fault \in {"none", "own"}
    /\ SetClanId(p, c, Grunt, Failed(fault, "own", p))
    /\ NoteClans({mem[p].clan, row[p].clan} \cup (IF fault = "none" THEN {} ELSE {c}),
                 fault, mem[p].clan = NoClan)
    /\ UNCHANGED <<clans, issued, week, online, messages>>

\* A player writes to the members of its clan, as the game lets only its leader,
\* or to all who have none; each of the messages may fail to be stored.
SendClanMessage(p) ==
    /\ p \in online
    /\ \E to \in SUBSET (FullInfo(p, "none").members \ {p}) :
          LET sent == {[kind |-> "clms", from |-> p, to |-> q, clan |-> mem[p].clan,
                       fit |-> mem[p].rank = Leader] : q \in to}
          IN /\ Cardinality(messages \cup sent) <= MaxMessages
             /\ messages' = messages \cup sent
    /\ UNCHANGED <<clans, issued, week, row, online, mem, lost, faulted, strayed>>

\* MESSAGING_IM_ACK
Acknowledge(m) ==
    /\ m \in messages
    /\ m.to \in online
    /\ messages' = messages \ {m}
    /\ UNCHANGED <<clans, issued, week, row, online, mem, lost, faulted, strayed>>

-----------------------------------------------------------------------------

HandleMessage(p) ==
    \/ \E c \in ClanIds, fault \in {"none", "own"} :
          CreateClan(p, c, fault) \/ Accept(p, c, fault)
    \/ \E q \in Profiles \cup {NoProfile} : ModifyClan(p, q)
    \/ \E q \in Profiles : ModifyRanks(p, q)
    \/ \E q \in Profiles, fault \in {"none", "clan", "invites"} : Invite(p, q, fault)
    \/ SendClanMessage(p)

Next ==
    \/ \E p \in Profiles : Login(p) \/ Disconnect(p) \/ HandleMessage(p)
    \/ \E m \in messages : Acknowledge(m)
    \/ Crash

Spec == Init /\ [][Next]_vars

-----------------------------------------------------------------------------
(* Safety *)

\* The two copies agree: whichever copy a handler worked on, and whoever came
\* online or left in between, a played profile is in the clan, and of the rank,
\* that its row says, unless the database refused one of its writes.
MemoryMatchesRow == \A p \in online \ lost : mem[p] = row[p]

\* A clan is dissolved only when its last member leaves it: no row names a clan
\* that is gone, though who is the last is decided by counting rows, while the
\* leaving profile and its rank are those in memory.
NobodyInAGoneClan == \A p \in Profiles : row[p].clan \in clans \cup {NoClan} \cup faulted

\* Every clan has exactly one leader, through handovers, kicks and leaders that
\* leave, members being online or not; given that the requests still fitted
\* when they were handled, and their queries did not fail.
OneLeader ==
    \A c \in clans \ Upset :
       Cardinality({p \in Members(c) : row[p].rank = Leader}) = 1

\* Who has lost the right to send a message that still waits has had it taken
\* back: invitations come from leaders and officers of the clan they are for,
\* clan messages from its leader.  Only those do not that were sent without it.
MessagesAreEntitled ==
    \A m \in messages : m.fit /\ m.clan \notin Upset \cup {NoClan} =>
       /\ row[m.from].clan = m.clan
       /\ row[m.from].rank <= IF m.kind = "invite" THEN Officer ELSE Leader

\* An invitation names a clan there is, whatever fails; 0 is that of a query
\* that failed.
InvitesNameClans ==
    \A m \in messages : m.kind = "invite" => m.clan \in clans \cup {NoClan}

\* The player of the week of a clan is one of its members.
PlayerOfWeekIsMember ==
    \A c \in clans \ Upset : week[c] # NoProfile => row[week[c]].clan = c

\* A clan that is gone leaves no traces: neither members nor invitations.
NoTracesOfGoneClans == NobodyInAGoneClan /\ InvitesNameClans

\* What the clan has granted is held by those it is for: the messages that wait,
\* and were sent by members of the rank they take, by such members still, the
\* honour of the week by a member.
RightsAreCurrent == MessagesAreEntitled /\ PlayerOfWeekIsMember
=============================================================================
