---------------------------- MODULE MatchReports ----------------------------
(***************************************************************************)
(* What the report of a finished match does to the database: a row and new *)
(* totals for every player, the ladder of the last three weeks, the ranks  *)
(* of the players, and who has played with whom.  The first, the second    *)
(* and the last of these are transactions; of the ranks each is one of its *)
(* own, of the observer of the player's profile, whose failure the report  *)
(* does not notice.  The same observer writes when a player joins a clan.  *)
(*                                                                         *)
(* Each statement is a step, so that the connection can be lost and the    *)
(* process can die between any two.                                        *)
(***************************************************************************)
EXTENDS DatabaseSession, Sequences, SequencesExt, FiniteSets, FiniteSetsExt

CONSTANTS
    Profiles,
    Results,       \* what a player may bring home: a score, and whether it won
    History,       \* each player's earlier scores, all from day 0
    LadderMatches, \* 20: matches a place on the ladder is made of
    LadderDays,    \* 21: how long they count
    MaxDay,        \* bound: the last day
    MaxReports,    \* bound: reports
    MaxFaults      \* bound: lost connections, failed statements, crashes

ASSUME MatchAssumption ==
    /\ IsFiniteSet(Profiles)
    /\ Results \subseteq [score : Nat, won : BOOLEAN]
    /\ History \in [Profiles -> Seq(Nat)]
    /\ LadderMatches \in Nat \ {0} /\ LadderDays \in Nat
    /\ MaxDay \in Nat /\ MaxReports \in Nat /\ MaxFaults \in Nat

VARIABLES
    at,        \* the statement that is next
    part,      \* the transaction, or the ranks, the report is in
    i,         \* the player, or the pair of players, that is next
    rising,    \* the rank that is to be written
    report,    \* the results of the match: one for each player
    today,     \* the day the last report came in
    reports,   \* how many reports there have been
    faults,    \* how many faults
    bare       \* history: something was written outside a transaction

progress == <<at, part, i, rising, report, today, reports>>
matchVars == <<session, progress, faults, bare>>

Statements == {"idle", "test", "auto0", "start", "insert", "update", "award", "delete",
               "fill", "rank", "promote", "meet", "join", "joinrank", "name",
               "commit", "auto1", "rollback"}

Parts == {"stats", "ladder", "ranks", "friends", "clan"}

-----------------------------------------------------------------------------
(* Totals, ranks *)

Total(rows) == MapThenSumSet(LAMBDA r : r.score, rows)

RowsOf(p, rows) == {r \in rows : r.profile = p}

\* What it takes to leave each rank: a score, and a place among the best.
RankScore == <<600, 2000, 5000, 9000, 15000, 25000, 40000, 58000, 77000, 110000,
               145000, 180000, 215000, 260000, 310000, 365000, 430000, 500000>>
RankPerc  == <<0, 0, 0, 0, 0, 0, 0, 0, 0, 33, 55, 70, 80, 87, 91, 95, 98, 99>>

Ranks == 0 .. Len(RankScore)

\* 100 - floor(position * 100 / count + 0.5).  Nobody is position 0; an empty
\* ladder divides zero by zero, and the conversion may give anything.
Percents(position, count) ==
    IF count = 0 THEN {0, 100}
    ELSE {100 - ((200 * position + count) \div (2 * count))}

\* Mutant: the score is that of the rank before.
RankTooSoon(rank, score, perc) ==
    Max({r \in rank .. Max(Ranks) : \A k \in rank + 1 .. r :
            score >= (IF k = 1 THEN 0 ELSE RankScore[k - 1]) /\ perc >= RankPerc[k]})

NewRank(rank, score, perc) ==
    Max({r \in rank .. Max(Ranks) : \A k \in rank + 1 .. r :
            score >= RankScore[k] /\ perc >= RankPerc[k]})

-----------------------------------------------------------------------------
(* The ladder *)

Recent(rows, day) == {r \in rows : r.day + LadderDays >= day}

\* Mutant: the best matches are counted without their equals.
LadderRowsTies(p, rows, day) ==
    LET mine == RowsOf(p, Recent(rows, day))
    IN  {a \in mine : a.score > 0 /\
            Cardinality({b \in mine : b.score > a.score}) < LadderMatches}

\* The matches the ladder score of p is made of: no more than LadderMatches of
\* its matches are as good.
LadderRows(p, rows, day) ==
    LET mine == RowsOf(p, Recent(rows, day))
    IN  {a \in mine : a.score > 0 /\
            Cardinality({b \in mine : b.score >= a.score}) <= LadderMatches}

\* A match that was won counts half as much again; the sum is rounded up.
LadderScore(rows) ==
    (MapThenSumSet(LAMBDA r : IF r.won THEN 3 * r.score ELSE 2 * r.score, rows) + 1) \div 2

\* Who is still to be put on the ladder, and the best of them.
Remaining(ladder, rows, day) ==
    {p \in Profiles : LadderRows(p, rows, day) # {}} \ {ladder[k].profile : k \in DOMAIN ladder}

Best(ladder, rows, day) ==
    {p \in Remaining(ladder, rows, day) : \A q \in Remaining(ladder, rows, day) :
        LadderScore(LadderRows(p, rows, day)) >= LadderScore(LadderRows(q, rows, day))}

Entry(p, rows, day) == [profile |-> p, score |-> LadderScore(LadderRows(p, rows, day))]

\* A whole ladder, best first.
Ladders(rows, day) ==
    {ladder \in UNION {[1 .. n -> {Entry(p, rows, day) : p \in Remaining(<<>>, rows, day)}] :
                          n \in {Cardinality(Remaining(<<>>, rows, day))}} :
        /\ Remaining(ladder, rows, day) = {}
        /\ \A j, k \in DOMAIN ladder : j < k => ladder[j].score >= ladder[k].score}

Position(p, ladder) ==
    LET places == {k \in DOMAIN ladder : ladder[k].profile = p}
    IN  IF places = {} THEN 0 ELSE Max(places)

MatchTypeOK ==
    /\ SessionTypeOK
    /\ at \in Statements /\ part \in Parts
    /\ i \in Nat /\ (at \in {"insert", "update", "award", "rank", "promote"} => i \in DOMAIN report)
    /\ rising \in Ranks
    /\ \A p \in Profiles : stored.rank[p] \in Ranks /\ work.rank[p] \in Ranks
    /\ today \in 0 .. MaxDay /\ reports \in 0 .. MaxReports
    /\ faults \in 0 .. MaxFaults
    /\ bare \in BOOLEAN

-----------------------------------------------------------------------------
(* The tables when the model starts: the players' histories, and what      *)
(* earlier reports have made of them.                                      *)

Past ==
    UNION {{[id |-> 0 - k, profile |-> p, day |-> 0, score |-> History[p][k], won |-> FALSE] :
               k \in DOMAIN History[p]} : p \in Profiles}

MatchInit ==
    /\ auto_reconnect \in BOOLEAN
    /\ \E ladder \in Ladders(Past, 0) :
        LET total == [p \in Profiles |-> Total(RowsOf(p, Past))]
        IN  Connected([rows |-> Past, total |-> total, awards |-> total,
                       ladder |-> ladder,
                       rank |-> [p \in Profiles |-> NewRank(0, total[p], 0)],
                       met |-> [q \in Profiles \X Profiles |-> 0],
                       clan |-> FALSE, clanrank |-> FALSE])
    /\ at = "idle" /\ part = "stats" /\ i = 1 /\ rising = 0
    /\ report = <<>>
    /\ today = 0 /\ reports = 0 /\ faults = 0
    /\ bare = FALSE

-----------------------------------------------------------------------------
(* Steps of a report *)

Player == report[i]

\* The pair of players the two loops over a report come to as number k; a player
\* does not meet itself.
Pair(k) ==
    LET n == Len(report)
    IN  <<report[((k - 1) \div n) + 1].profile, report[((k - 1) % n) + 1].profile>>

Meets(k) == k <= Len(report) * Len(report) /\ Pair(k)[1] # Pair(k)[2]

\* The first statement of each transaction, once it has been started.
FirstOf(p) ==
    CASE p = "stats" -> "insert" [] p = "ladder" -> "delete" [] p = "ranks" -> "promote"
      [] p = "friends" -> "meet" [] p = "clan" -> "join"

Goto(next, index) ==
    /\ at' = next /\ i' = index
    /\ UNCHANGED <<part, rising, report, today, reports>>

\* The next part of a report.
GotoPart(next, first) ==
    /\ part' = next /\ at' = first /\ i' = 1 /\ rising' = 0
    /\ UNCHANGED <<report, today, reports>>

Ended ==
    /\ at' = "idle" /\ part' = "stats" /\ i' = 1 /\ rising' = 0 /\ report' = <<>>
    /\ UNCHANGED <<today, reports>>

\* CalculatePlayerRanks is done with a player, whatever its observer has done.
NextPlayer ==
    IF i < Len(report)
    THEN /\ at' = "rank" /\ i' = i + 1 /\ rising' = 0
         /\ UNCHANGED <<part, report, today, reports>>
    ELSE GotoPart("friends", "auto0")

\* What follows a transaction: its COMMIT is not looked at, or it was rolled back.
AfterCommit ==
    CASE part = "stats" -> GotoPart("ladder", "auto0")
      [] part = "ladder" -> GotoPart("ranks", "rank")
      [] part = "ranks" -> NextPlayer
      [] OTHER -> Ended

AfterRollback == IF part = "ranks" THEN NextPlayer ELSE Ended

\* A statement on tables goes through.
Write(new) ==
    /\ Execute(new)
    /\ bare' = (bare \/ ~open')
    /\ UNCHANGED faults

\* Any step of a report can be preceded by a fault: the server refuses the
\* statement, or the connection turns out to be gone.
Refuse ==
    \/ /\ link = "up" /\ faults < MaxFaults
       /\ faults' = faults + 1
       /\ UNCHANGED session
    \/ /\ FailsOnLink
       /\ UNCHANGED faults

\* The players of a match, in the order of the report.
Permuted(profiles) ==
    UNION {SetToSeqs(s) : s \in (SUBSET profiles) \ {{}}}

\* A report: the database is tested, and the first transaction begins.
Report ==
    /\ at = "idle" /\ reports < MaxReports
    /\ Touch
    /\ \E players \in Permuted(Profiles) : \E result \in [Range(players) -> Results] :
        report' = [k \in DOMAIN players |-> [profile |-> players[k],
                      score |-> result[players[k]].score, won |-> result[players[k]].won]]
    /\ today' \in today .. MaxDay
    /\ reports' = reports + 1
    /\ at' = "auto0" /\ part' = "stats" /\ i' = 1
    /\ UNCHANGED <<rising, faults, bare>>

\* The observer of a profile tests the database first; where it is gone everyone
\* is disconnected, and nothing is written.
TestDatabase ==
    /\ at = "test"
    /\ \/ Touch /\ Goto("auto0", i)
       \/ FailsOnLink /\ AfterRollback
    /\ UNCHANGED <<faults, bare>>

\* BeginTransaction, whose results are ignored.
BeginOff ==
    /\ at = "auto0"
    /\ SetAutocommitOff \/ FailsOnLink
    /\ Goto("start", i)
    /\ UNCHANGED <<faults, bare>>

BeginStart ==
    /\ at = "start"
    /\ StartTransaction \/ FailsOnLink
    /\ Goto(FirstOf(part), i)
    /\ UNCHANGED <<faults, bare>>

\* InsertPlayerMatchStats.
Insert ==
    /\ at = "insert"
    /\ Write([work EXCEPT !.rows = @ \union {[id |-> reports, profile |-> Player.profile,
                 day |-> today, score |-> Player.score, won |-> Player.won]}])
    /\ Goto("update", i)

\* UpdateProfileMatchStats.
Update ==
    /\ at = "update"
    /\ Write([work EXCEPT !.total[Player.profile] = @ + Player.score])
    /\ Goto("award", i)

\* Mutant: one player more than the report has.
AwardOneMore ==
    /\ at = "award"
    /\ Write([work EXCEPT !.awards[Player.profile] = work.total[Player.profile]])
    /\ IF i <= Len(report) THEN Goto("insert", i + 1) ELSE Goto("commit", i)

\* The awards follow from the totals: see Awards for what becomes of them.
Award ==
    /\ at = "award"
    /\ Write([work EXCEPT !.awards[Player.profile] = work.total[Player.profile]])
    /\ IF i < Len(report) THEN Goto("insert", i + 1) ELSE Goto("commit", i)

DeleteLadder ==
    /\ at = "delete"
    /\ Write([work EXCEPT !.ladder = <<>>])
    /\ Goto("fill", 1)

\* GeneratePlayerLadderData: the query and its first insertion, or one of the
\* others, or the end of the result.
FillLadder ==
    /\ at = "fill"
    /\ \/ /\ \E p \in Best(work.ladder, work.rows, today) :
                Write([work EXCEPT !.ladder = Append(@, Entry(p, work.rows, today))])
          /\ Goto("fill", i + 1)
       \/ /\ Remaining(work.ladder, work.rows, today) = {}
          /\ Write(work)
          /\ Goto("commit", 1)

\* One player of CalculatePlayerRanks: what is read decides the rank, and a new
\* one is left to the profile's observer.
Rank ==
    /\ at = "rank"
    /\ Execute(work)
    /\ LET p == Player.profile
       IN  \E perc \in Percents(Position(p, work.ladder), Len(work.ladder)) :
            LET rank == NewRank(work.rank[p], work.total[p], perc)
            IN  IF rank = work.rank[p]
                THEN NextPlayer
                ELSE /\ at' = "test" /\ rising' = rank
                     /\ UNCHANGED <<part, i, report, today, reports>>
    /\ UNCHANGED <<faults, bare>>

\* UpdateProfileRank
Promote ==
    /\ at = "promote"
    /\ Write([work EXCEPT !.rank[Player.profile] = rising])
    /\ Goto("commit", i)

\* One pair of InsertAcquaintances.
Meet ==
    /\ at = "meet"
    /\ IF Meets(i) THEN Write([work EXCEPT !.met[Pair(i)] = @ + 1])
                   ELSE UNCHANGED <<session, faults, bare>>
    /\ IF i <= Len(report) * Len(report) THEN Goto("meet", i + 1) ELSE Goto("commit", i)

\* CommitTransaction, whose results are ignored: the report goes on.
CommitFirst ==
    /\ at = "commit"
    /\ Commit \/ FailsOnLink
    /\ Goto("auto1", i)
    /\ UNCHANGED <<faults, bare>>

CommitSecond ==
    /\ at = "auto1"
    /\ SetAutocommitOn \/ FailsOnLink
    /\ AfterCommit
    /\ UNCHANGED <<faults, bare>>

\* Mutant: the handler gives up as it would on a failed query.
FailAndReturn ==
    /\ \/ at \in {"insert", "update", "award", "delete", "fill", "rank", "promote",
                  "join", "joinrank", "name"}
       \/ at = "meet" /\ Meets(i)
    /\ Refuse
    /\ Ended
    /\ UNCHANGED bare

\* A statement fails: the handler gives up, after a rollback where there was a
\* transaction.
Fail ==
    /\ \/ at \in {"insert", "update", "award", "delete", "fill", "rank", "promote",
                  "join", "joinrank", "name"}
       \/ at = "meet" /\ Meets(i)
    /\ Refuse
    /\ IF at = "rank" THEN Ended ELSE Goto("rollback", i)
    /\ UNCHANGED bare

RollbackTransaction ==
    /\ at = "rollback"
    /\ Rollback \/ FailsOnLink
    /\ AfterRollback
    /\ UNCHANGED <<faults, bare>>

-----------------------------------------------------------------------------
(* The rest of the world *)

\* A player joins a clan: its profile's observer writes the clan and the rank in
\* it, and reads the name again.
Join ==
    /\ at = "idle"
    /\ at' = "test" /\ part' = "clan"
    /\ UNCHANGED <<session, i, rising, report, today, reports, faults, bare>>

JoinClan ==
    /\ at = "join"
    /\ Write([work EXCEPT !.clan = TRUE])
    /\ Goto("joinrank", i)

JoinRank ==
    /\ at = "joinrank"
    /\ Write([work EXCEPT !.clanrank = TRUE])
    /\ Goto("name", i)

ReadName ==
    /\ at = "name"
    /\ Execute(work)
    /\ Goto("commit", i)
    /\ UNCHANGED <<faults, bare>>

Lose ==
    /\ faults < MaxFaults
    /\ LinkLost
    /\ faults' = faults + 1
    /\ UNCHANGED <<progress, bare>>

Crash ==
    /\ faults < MaxFaults
    /\ NewSession
    /\ faults' = faults + 1
    /\ Ended
    /\ UNCHANGED bare

MatchNext ==
    \/ Report \/ TestDatabase \/ BeginOff \/ BeginStart
    \/ Insert \/ Update \/ Award
    \/ DeleteLadder \/ FillLadder
    \/ Rank \/ Promote
    \/ Meet
    \/ Join \/ JoinClan \/ JoinRank \/ ReadName
    \/ CommitFirst \/ CommitSecond
    \/ Fail \/ RollbackTransaction
    \/ Lose \/ Crash

MatchSpec == MatchInit /\ [][MatchNext]_matchVars

-----------------------------------------------------------------------------
(* Properties *)

\* Whatever fails, a report is in the database as a whole or not at all: the
\* totals of a player are the sum of its matches, its awards are those of its
\* totals, and two players have met each other equally often.  So is a clan with
\* the rank in it.  Only where a BEGIN got lost unnoticed can either be torn.
ReportsAreWhole ==
    ~bare =>
        /\ stored.clan = stored.clanrank
        /\ \A p \in Profiles :
            /\ stored.total[p] = Total(RowsOf(p, stored.rows))
            /\ stored.awards[p] = stored.total[p]
            /\ \A q \in Profiles : stored.met[<<p, q>>] = stored.met[<<q, p>>]

\* The matches a place on the ladder should be made of: as many of the best as
\* there is room for, and all of those that are equally good or none.
BestMatches(p, rows, day) ==
    LET mine == {r \in RowsOf(p, rows) : r.score > 0 /\ day - r.day <= LadderDays}
        Leading == {s \in SUBSET mine : /\ Cardinality(s) <= LadderMatches
                                         /\ \A a \in s, b \in mine \ s : a.score > b.score}
    IN  CHOOSE s \in Leading : \A t \in Leading : Cardinality(t) <= Cardinality(s)

\* Players never see half a ladder, whenever the connection is lost or the
\* process dies: what is stored is the ladder of the reports up to one of them,
\* everyone's best matches, best player first.
LadderIsWhole ==
    ~bare =>
        \E n \in 0 .. reports, day \in 0 .. today :
            LET rows == {r \in stored.rows : r.id <= n}
                listed == {p \in Profiles : BestMatches(p, rows, day) # {}}
            IN  /\ {e.profile : e \in Range(stored.ladder)} = listed
                /\ Len(stored.ladder) = Cardinality(listed)
                /\ \A e \in Range(stored.ladder) :
                    e.score = LadderScore(BestMatches(e.profile, rows, day))
                /\ \A j, k \in DOMAIN stored.ladder :
                    j < k => stored.ladder[j].score >= stored.ladder[k].score

\* Between two messages nothing waits to be committed, wherever a transaction was
\* given up: no COMMIT of another handler stores what this one could not finish,
\* although a rollback leaves AUTOCOMMIT off.
NothingPending == at = "idle" => stored = work

\* A rank is never taken back and never given before its score is stored; from
\* rank 10 on it also takes a place in the best part of the ladder, or none.
RanksAreEarned ==
    [][\A p \in Profiles :
        stored'.rank[p] # stored.rank[p] =>
            LET rank == stored'.rank[p]
                place == Position(p, stored.ladder)
            IN  /\ rank > stored.rank[p]
                /\ stored.total[p] >= RankScore[rank]
                /\ rank >= 10 =>
                    \/ place = 0
                    \/ 200 * place < (201 - 2 * RankPerc[rank]) * Len(stored.ladder)]_matchVars
=============================================================================
