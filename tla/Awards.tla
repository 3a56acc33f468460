------------------------------- MODULE Awards -------------------------------
(***************************************************************************)
(* The medals and badges of one player.  ProcessMatchStatistics adds what  *)
(* a match has brought to the player's statistics and then judges every    *)
(* award by them; a login judges the badges for membership.                *)
(*                                                                         *)
(* An award has a level from 0 to 3 and, on levels 1 and 2, up to 3 stars, *)
(* two bits each.  No award depends on another one, except for the medal   *)
(* "highly decorated", so that a behaviour follows one award and knows of  *)
(* the others only whether the player has them all.                        *)
(***************************************************************************)
EXTENDS Integers, FiniteSets

CONSTANT Rules   \* the awards that are followed: a subset of AllRules

VARIABLES
    rule,        \* the award that is followed
    award,       \* its level and stars
    total,       \* what the player's matches have brought
    streak,      \* in how many matches in a row they have brought something
    others,      \* all the other awards have a level
    decorated,   \* the player has been highly decorated
    best,        \* history: the best match or streak
    deeds,       \* history: the matches that were worth a star, for both levels
    feat,        \* history: what level 3 takes has been done
    still        \* history: the award stayed as it was when last judged

statistics == <<total, streak>>
history == <<best, deeds, feat, still>>
vars == <<rule, award, statistics, others, decorated, history>>

-----------------------------------------------------------------------------
(* The rules.  Levels 1 and 2 take a value of "enter" and "rise", their    *)
(* stars the values of "star", where the value is the total, or the match  *)
(* itself, or the streak.  Level 3 takes "top", perhaps of something else, *)
(* and perhaps another level before it.  The gains of a match and the last *)
(* total are bounds.                                                       *)

Usual ==
    [by |-> "total", unit |-> 1, enter |-> 1, rise |-> 10,
     star |-> <<<<2, 3, 4>>, <<20, 30, 40>>>>, multiple |-> FALSE,
     topBy |-> "streak", top |-> 10, topFrom |-> 1,
     flagged |-> FALSE, atLogin |-> FALSE, counts |-> TRUE,
     gains |-> {0, 1}, last |-> 42]

\* Best at infantry, air, armor, support, or of all: judged by the matches that
\* say so.
SkillMedal == [Usual EXCEPT !.flagged = TRUE]

AidMedal ==
    [Usual EXCEPT !.enter = 25, !.rise = 125, !.star = <<<<50, 75, 100>>, <<250, 375, 500>>>>,
                  !.topBy = "match", !.top = 15, !.topFrom = 0,
                  !.gains = {0, 14, 15}, !.last = 510]

\* Infantry, air, armor, support.
CombatMedal ==
    [Usual EXCEPT !.by = "match", !.enter = 500, !.rise = 1200,
                  !.star = <<<<500, 500, 500>>, <<1200, 1200, 1200>>>>,
                  !.topBy = "match", !.top = 2000, !.topFrom = 0,
                  !.gains = {0, 499, 500, 1200, 2000}, !.last = 9000]

StreakMedal ==
    [Usual EXCEPT !.by = "streak", !.enter = 5, !.rise = 10, !.multiple = TRUE,
                  !.star = <<<<5, 5, 5>>, <<10, 10, 10>>>>, !.top = 20, !.topFrom = 2]

\* Domination, assault, tug of war; won, and won perfectly.  A match of another
\* mode ends the streak.
SpecialistMedal ==
    [Usual EXCEPT !.enter = 10, !.rise = 100, !.star = <<<<20, 30, 40>>, <<200, 300, 400>>>>,
                  !.topFrom = 0, !.last = 402]

ExcellencyMedal == [Usual EXCEPT !.top = 5]

NukeMedal == [Usual EXCEPT !.top = 8, !.gains = {0, 1, 3}]

Badge ==
    [Usual EXCEPT !.topBy = "total", !.topFrom = 2]

\* Infantry, air, armor, support.
RoleBadge ==
    [Badge EXCEPT !.enter = 8000, !.rise = 50000, !.top = 400000,
                  !.star = <<<<16000, 24000, 32000>>, <<100000, 150000, 200000>>>>,
                  !.gains = {0, 4000, 60000}, !.last = 410000]

ScoreBadge ==
    [Badge EXCEPT !.enter = 10000, !.rise = 100000, !.top = 800000,
                  !.star = <<<<20000, 30000, 40000>>, <<200000, 300000, 400000>>>>,
                  !.gains = {0, 5000, 65000}, !.last = 820000]

CaptureBadge ==
    [Badge EXCEPT !.enter = 25, !.rise = 250, !.top = 1200,
                  !.star = <<<<25, 50, 75>>, <<500, 750, 1000>>>>,
                  !.gains = {0, 5, 130}, !.last = 1250]

FortifyBadge ==
    [Badge EXCEPT !.enter = 500, !.rise = 3500, !.top = 15000,
                  !.star = <<<<1000, 1500, 2000>>, <<7000, 10500, 14000>>>>,
                  !.gains = {0, 250, 4000}, !.last = 15500]

MatchBadge ==
    [Badge EXCEPT !.enter = 10, !.rise = 200, !.top = 1500,
                  !.star = <<<<20, 30, 40>>, <<400, 600, 800>>>>, !.gains = {1}, !.last = 1501]

\* Hours as USA, USSR, NATO; the total is in seconds.
HoursBadge ==
    [Badge EXCEPT !.unit = 3600, !.enter = 1, !.rise = 24, !.top = 100,
                  !.star = <<<<2, 3, 4>>, <<48, 72, 96>>>>,
                  !.gains = {0, 3599, 14400}, !.last = 362000]

Never == 1000000000

\* Days of membership; editions bought in advance; friends recruited.
MemberBadge ==
    [Badge EXCEPT !.atLogin = TRUE, !.enter = 30, !.rise = 90, !.top = 365,
                  !.star = <<<<60, Never, Never>>, <<180, 270, 360>>>>,
                  !.gains = {0, 1, 30, 80}, !.last = 400]

PreorderBadge ==
    [Badge EXCEPT !.atLogin = TRUE, !.counts = FALSE, !.rise = Never, !.top = Never, !.last = 5]

RecruitBadge ==
    [Badge EXCEPT !.atLogin = TRUE, !.rise = 6, !.top = 16,
                  !.star = <<<<Never, Never, Never>>, <<Never, Never, Never>>>>,
                  !.gains = {0, 1, 4}, !.last = 20]

AllRules ==
    {SkillMedal, AidMedal, CombatMedal, StreakMedal, SpecialistMedal, ExcellencyMedal, NukeMedal,
     RoleBadge, ScoreBadge, CaptureBadge, FortifyBadge, MatchBadge, HoursBadge,
     MemberBadge, PreorderBadge, RecruitBadge}

ASSUME RulesAssumption == Rules \subseteq AllRules

-----------------------------------------------------------------------------
(* How an award is judged *)

\* Mutant: the stars are counted from 1.
IsStarFromOne(r, level, stars, value) ==
    IF r.multiple
    THEN value > 0 /\ value % r.star[level][1] = 0
    ELSE value >= r.star[level][IF stars = 0 THEN 1 ELSE stars]

\* A value is worth the star after the given ones.
IsStar(r, level, stars, value) ==
    IF r.multiple
    THEN value > 0 /\ value % r.star[level][stars + 1] = 0
    ELSE value >= r.star[level][stars + 1]

LevelAfter(r, level, value, peak) ==
    CASE peak >= r.top /\ level >= r.topFrom -> 3
      [] level \in {0, 1} /\ value >= r.rise /\ (level = 1 \/ r.by = "match")
            /\ ~(peak >= r.top /\ level >= r.topFrom) -> 2
      [] level = 0 /\ value >= r.enter
            /\ ~(value >= r.rise /\ r.by = "match")
            /\ ~(peak >= r.top /\ level >= r.topFrom) -> 1
      [] OTHER -> level

\* Mutant: a level 3 is judged like a level 1.
AfterTopAgain(r, a, value, peak) ==
    LET level == LevelAfter(r, IF a.level = 3 THEN 1 ELSE a.level, value, peak)
    IN  [level |-> level,
         stars |-> CASE level # a.level -> 0
                     [] /\ level = a.level
                        /\ level \in {1, 2} /\ a.stars < 3
                        /\ IsStar(r, level, a.stars, value) -> a.stars + 1
                     [] OTHER -> a.stars]

\* One star at a time; a new level begins without stars.
After(r, a, value, peak) ==
    LET level == LevelAfter(r, a.level, value, peak)
    IN  [level |-> level,
         stars |-> CASE level # a.level -> 0
                     [] /\ level = a.level
                        /\ level \in {1, 2} /\ a.stars < 3
                        /\ IsStar(r, level, a.stars, value) -> a.stars + 1
                     [] OTHER -> a.stars]

\* What a value is worth by itself, as UpdateMembershipBadges works it out.
Entitled(r, value) ==
    LET level == CASE value >= r.top /\ r.topBy = "total" -> 3
                   [] value >= r.rise /\ ~(value >= r.top /\ r.topBy = "total") -> 2
                   [] value >= r.enter /\ value < r.rise -> 1
                   [] value < r.enter -> 0
    IN  [level |-> level,
         stars |-> IF level \in {1, 2}
                   THEN Cardinality({k \in 1 .. 3 : value >= r.star[level][k]}) ELSE 0]

-----------------------------------------------------------------------------

TypeOK ==
    /\ rule \in Rules
    /\ award \in [level : 0 .. 3, stars : 0 .. 3]
    /\ award.level \in {0, 3} => award.stars = 0
    /\ total \in 0 .. rule.last /\ streak \in 0 .. rule.last
    /\ best \in 0 .. rule.last /\ deeds \in [1 .. 2 -> Nat]
    /\ others \in BOOLEAN /\ decorated \in BOOLEAN
    /\ feat \in BOOLEAN /\ still \in BOOLEAN

Init ==
    /\ rule \in Rules
    /\ award = [level |-> 0, stars |-> 0]
    /\ total = 0 /\ streak = 0
    /\ others \in BOOLEAN /\ decorated = FALSE
    /\ best = 0 /\ deeds = [level \in 1 .. 2 |-> 0] /\ feat = FALSE /\ still = TRUE

\* UpdateProfileMatchStats; the streak is left out where no level looks at it.
Gain(gain) ==
    /\ total + gain <= rule.last
    /\ total' = total + gain
    /\ streak' = IF gain > 0 /\ "streak" \in {rule.by, rule.topBy} THEN streak + 1 ELSE 0

\* Mutant: the statistics are read before they are updated.
MeasureBefore(by, gain) ==
    CASE by = "total" -> total \div rule.unit
      [] by = "match" -> gain
      [] by = "streak" -> streak

\* What a statistic is after a match.
Measure(by, gain) ==
    CASE by = "total" -> total' \div rule.unit
      [] by = "match" -> gain
      [] by = "streak" -> streak'

\* A match that leaves the flag of a skill medal unset leaves the medal alone.
\* The medal for all the others comes last.
Match(gain) ==
    /\ ~rule.atLogin
    /\ Gain(gain)
    /\ LET value == Measure(rule.by, gain)
           peak == Measure(rule.topBy, gain)
       IN  IF rule.flagged /\ gain = 0
           THEN UNCHANGED <<award, history>>
           ELSE /\ award' = After(rule, award, value, peak)
                /\ best' = IF rule.by # "total" /\ value > best THEN value ELSE best
                /\ deeds' = [level \in 1 .. 2 |->
                       IF rule.by # "total" /\ IsStar(rule, level, 0, value)
                       THEN deeds[level] + 1 ELSE deeds[level]]
                /\ feat' = (feat \/ peak >= rule.top)
                /\ still' = (award' = award)
    /\ others' \in {others, TRUE}
    /\ decorated' = (decorated \/ (others' /\ award'.level > 0))
    /\ UNCHANGED rule

\* A match while a badge for membership is followed: it only counts for the
\* medal for all the others.
OtherMatch ==
    /\ rule.atLogin
    /\ others' \in {others, TRUE}
    /\ decorated' = (decorated \/ (others' /\ (award.level > 0 \/ ~rule.counts)))
    /\ UNCHANGED <<rule, award, statistics, history>>

\* UpdateMembershipBadges, some time after the last login.
Login(gain) ==
    /\ rule.atLogin
    /\ total + gain <= rule.last
    /\ total' = total + gain
    /\ award' = IF award.level = 3 \/ (award.stars = 3 /\ ~rule.counts)
                THEN award ELSE Entitled(rule, total')
    /\ feat' = (feat \/ total' >= rule.top)
    /\ still' = (award' = award)
    /\ UNCHANGED <<rule, streak, others, decorated, best, deeds>>

Next ==
    \/ \E gain \in rule.gains : Match(gain) \/ Login(gain)
    \/ OtherMatch

Spec == Init /\ [][Next]_vars

-----------------------------------------------------------------------------
(* Properties *)

\* Nobody has what it has not earned, however far a match reaches: each level
\* and each star has been reached by the totals, or by one match or streak, and
\* stars that take a match each have had as many besides the one for the level.
\* Who is highly decorated has a level of the award.
Deserved ==
    LET reached == IF rule.by = "total" THEN total \div rule.unit ELSE best
    IN  /\ award.level >= 1 => reached >= rule.enter \/ feat
        /\ award.level = 2 => reached >= rule.rise
        /\ award.level = 3 => feat
        /\ award.stars > 0 =>
            IF rule.by = "total"
            THEN reached >= rule.star[award.level][award.stars]
            ELSE deeds[award.level] > award.stars
        /\ decorated => others /\ (award.level > 0 \/ ~rule.counts)

\* No feat is missed: a match or a streak that is worth level 3 finds the award
\* on a level from which it is given.  Totals that one match has carried over
\* several thresholds catch up one level or star at a time, until a match
\* leaves the award as it is: then it is all the total is worth.
NothingMissed ==
    /\ feat /\ rule.topBy # "total" => award.level = 3
    /\ still /\ rule.by = "total" /\ award.level < 3 =>
        award = Entitled(rule, total \div rule.unit)

\* What has been awarded is never taken back.
NeverTaken ==
    [][/\ award'.level >= award.level
       /\ award'.level = award.level => award'.stars >= award.stars
       /\ decorated => decorated']_vars
=============================================================================
