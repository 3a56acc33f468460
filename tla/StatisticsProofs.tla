-------------------------- MODULE StatisticsProofs --------------------------
(***************************************************************************)
(* What holds of the statistics, however many matches are played and by    *)
(* whomever.                                                               *)
(*                                                                         *)
(* First the awards of the program: an award is deserved, it is complete,  *)
(* and it is never taken back.                                             *)
(*                                                                         *)
(* Then what the reports of matches leave in the database, with the        *)
(* connection lost and the process killed between any two statements: the  *)
(* totals are those of the stored matches, the ladder is that of some      *)
(* earlier report, and a rank never falls and is only given to who has the *)
(* score and the place for it.                                             *)
(***************************************************************************)
EXTENDS Awards, MatchReports, FiniteSetTheorems, TLAPS

\* What the properties rest on in the thresholds of an award.
Numbers(r) ==
    /\ r.unit \in {1, 3600}
    /\ r.enter \in Nat \ {0} /\ r.rise \in Nat \ {0} /\ r.top \in Nat \ {0}
    /\ r.topFrom \in Nat /\ r.last \in Nat
    /\ r.enter <= r.rise
    /\ r.gains \subseteq Nat
    /\ \A level \in 1 .. 2 : \A k \in 1 .. 3 : r.star[level][k] \in Nat \ {0}
    /\ \A level \in 1 .. 2 : /\ r.star[level][1] <= r.star[level][2]
                             /\ r.star[level][2] <= r.star[level][3]

Kinds(r) ==
    /\ r.by \in {"total", "match", "streak"} /\ r.topBy \in {"total", "match", "streak"}
    /\ r.multiple \in BOOLEAN /\ r.flagged \in BOOLEAN
    /\ r.atLogin \in BOOLEAN /\ r.counts \in BOOLEAN
    /\ r.multiple <=> r.by = "streak"
    /\ r.atLogin => r.by = "total" /\ r.topBy = "total" /\ r.unit = 1
    /\ ~r.atLogin => r.counts
    /\ ~r.counts => r.last < r.rise
    /\ r.flagged => r.by = "total" /\ r.topBy = "streak"

\* Level 3 is out of reach before the other levels have been passed, or takes
\* something else than what they take.
Tops(r) ==
    /\ r.topBy = "total" => r.by = "total" /\ (r.atLogin \/ r.topFrom = 2) /\ r.rise <= r.top
    /\ r.topBy = "match" => r.topFrom = 0
    /\ r.topBy = "streak" /\ r.by = "match" => r.topFrom = 0
    /\ r.topBy = "streak" /\ r.by = "total" =>
        r.topFrom = 0 \/ (r.topFrom = 1 /\ r.unit = 1 /\ r.enter < r.top)
    /\ r.by = "streak" =>
        /\ r.topBy = "streak" /\ r.topFrom = 2
        /\ r.enter = 5 /\ r.rise = 10 /\ r.top = 20
        /\ \A k \in 1 .. 3 : r.star[1][k] = 5 /\ r.star[2][k] = 10
    /\ r.by = "match" =>
        \A k \in 1 .. 3 : r.star[1][k] = r.enter /\ r.star[2][k] = r.rise

Shape(r) == Numbers(r) /\ Kinds(r) /\ Tops(r)

\* Every award of the program is of this shape.
LEMMA Shapes == \A r \in AllRules : Shape(r)
<1>1. Shape(SkillMedal)
  BY DEF Shape, Numbers, Kinds, Tops, SkillMedal, Usual
<1>2. Shape(AidMedal)
  BY DEF Shape, Numbers, Kinds, Tops, AidMedal, Usual
<1>3. Shape(CombatMedal)
  BY DEF Shape, Numbers, Kinds, Tops, CombatMedal, Usual
<1>4. Shape(StreakMedal)
  BY DEF Shape, Numbers, Kinds, Tops, StreakMedal, Usual
<1>5. Shape(SpecialistMedal)
  BY DEF Shape, Numbers, Kinds, Tops, SpecialistMedal, Usual
<1>6. Shape(ExcellencyMedal)
  BY DEF Shape, Numbers, Kinds, Tops, ExcellencyMedal, Usual
<1>7. Shape(NukeMedal)
  BY DEF Shape, Numbers, Kinds, Tops, NukeMedal, Usual
<1>8. Shape(RoleBadge)
  BY DEF Shape, Numbers, Kinds, Tops, RoleBadge, Badge, Usual
<1>9. Shape(ScoreBadge)
  BY DEF Shape, Numbers, Kinds, Tops, ScoreBadge, Badge, Usual
<1>10. Shape(CaptureBadge)
  BY DEF Shape, Numbers, Kinds, Tops, CaptureBadge, Badge, Usual
<1>11. Shape(FortifyBadge)
  BY DEF Shape, Numbers, Kinds, Tops, FortifyBadge, Badge, Usual
<1>12. Shape(MatchBadge)
  BY DEF Shape, Numbers, Kinds, Tops, MatchBadge, Badge, Usual
<1>13. Shape(HoursBadge)
  BY DEF Shape, Numbers, Kinds, Tops, HoursBadge, Badge, Usual
<1>14. Shape(MemberBadge)
  BY DEF Shape, Numbers, Kinds, Tops, MemberBadge, Badge, Usual, Never
<1>15. Shape(PreorderBadge)
  BY DEF Shape, Numbers, Kinds, Tops, PreorderBadge, Badge, Usual, Never
<1>16. Shape(RecruitBadge)
  BY DEF Shape, Numbers, Kinds, Tops, RecruitBadge, Badge, Usual, Never
<1>. QED
  BY <1>1, <1>2, <1>3, <1>4, <1>5, <1>6, <1>7, <1>8, <1>9, <1>10, <1>11, <1>12, <1>13, <1>14, <1>15, <1>16 DEF AllRules

-----------------------------------------------------------------------------
(* Arithmetic, and how an award is judged *)

\* Units of a total.
LEMMA Units ==
  ASSUME NEW u \in {1, 3600}, NEW m \in Nat, NEW n \in Nat, m <= n
  PROVE  /\ m \div u \in Nat /\ n \div u \in Nat
         /\ m \div u <= n \div u
         /\ n \div u <= n
         /\ n \div 1 = n
<1>1. CASE u = 1
  BY <1>1
<1>2. CASE u = 3600
  BY <1>2
<1>. QED
  BY <1>1, <1>2

\* Sets of the first thresholds.
LEMMA Sizes == Cardinality({1, 2}) = 2 /\ Cardinality({1, 2, 3}) = 3
<1>1. IsFiniteSet({1}) /\ Cardinality({1}) = 1
  BY FS_Singleton
<1>2. {1, 2} = {1} \cup {2} /\ 2 \notin {1}
  OBVIOUS
<1>3. IsFiniteSet({1, 2}) /\ Cardinality({1, 2}) = 2
  BY <1>1, <1>2, FS_AddElement
<1>4. {1, 2, 3} = {1, 2} \cup {3} /\ 3 \notin {1, 2}
  OBVIOUS
<1>. QED
  BY <1>3, <1>4, FS_AddElement

\* Thresholds that have been reached, when they do not fall.
LEMMA Reaching ==
  ASSUME NEW f, \A k \in 1 .. 3 : f[k] \in Nat, f[1] <= f[2], f[2] <= f[3],
         NEW v \in Nat
  PROVE  LET n == Cardinality({k \in 1 .. 3 : v >= f[k]})
         IN  /\ n \in 0 .. 3
             /\ n > 0 => v >= f[n]
             /\ n < 3 => v < f[n + 1]
<1>. DEFINE S == {k \in 1 .. 3 : v >= f[k]}
<1>1. CASE v < f[1]
  <2>1. S = {} /\ Cardinality({}) = 0
    BY <1>1, FS_EmptySet
  <2>. QED
    BY <2>1, <1>1
<1>2. CASE f[1] <= v /\ v < f[2]
  <2>1. S = {1} /\ Cardinality({1}) = 1
    BY <1>2, FS_Singleton
  <2>. QED
    BY <2>1, <1>2
<1>3. CASE f[2] <= v /\ v < f[3]
  <2>1. S = {1, 2} /\ Cardinality({1, 2}) = 2
    BY <1>3, Sizes
  <2>. QED
    BY <2>1, <1>3
<1>4. CASE f[3] <= v
  <2>1. S = {1, 2, 3} /\ Cardinality({1, 2, 3}) = 3
    BY <1>4, Sizes
  <2>. QED
    BY <2>1, <1>4
<1>. QED
  BY <1>1, <1>2, <1>3, <1>4

\* What a value is worth.
LEMMA Worth ==
  ASSUME NEW r, Shape(r), NEW v \in Nat
  PROVE  LET e == Entitled(r, v)
         IN  /\ e = [level |-> e.level, stars |-> e.stars]
             /\ e.level \in 0 .. 3 /\ e.stars \in 0 .. 3
             /\ e.level \in {0, 3} => e.stars = 0
             /\ (e.level = 3) <=> (v >= r.top /\ r.topBy = "total")
             /\ e.level = 2 => v >= r.rise
             /\ e.level = 1 => v >= r.enter /\ v < r.rise
             /\ e.level = 0 => v < r.enter
             /\ e.stars > 0 => v >= r.star[e.level][e.stars]
             /\ e.level \in {1, 2} /\ e.stars < 3 => v < r.star[e.level][e.stars + 1]
<1>. DEFINE L == Entitled(r, v).level
<1>. DEFINE C(l) == Cardinality({k \in 1 .. 3 : v >= r.star[l][k]})
<1>1. /\ L \in 0 .. 3
      /\ (L = 3) <=> (v >= r.top /\ r.topBy = "total")
      /\ L = 2 => v >= r.rise
      /\ L = 1 => v >= r.enter /\ v < r.rise
      /\ L = 0 => v < r.enter
  BY DEF Entitled, Shape, Numbers, Tops
<1>2. /\ Entitled(r, v) = [level |-> L, stars |-> Entitled(r, v).stars]
      /\ L \in {1, 2} => Entitled(r, v).stars = C(L)
      /\ L \notin {1, 2} => Entitled(r, v).stars = 0
  <2>. DEFINE level ==
         CASE v >= r.top /\ r.topBy = "total" -> 3
           [] v >= r.rise /\ ~(v >= r.top /\ r.topBy = "total") -> 2
           [] v >= r.enter /\ v < r.rise -> 1
           [] v < r.enter -> 0
  <2>1. Entitled(r, v) = [level |-> level, stars |-> IF level \in {1, 2} THEN C(level) ELSE 0]
    BY Zenon DEF Entitled
  <2>. HIDE DEF level, C
  <2>. QED
    BY <2>1
<1>3. ASSUME NEW l \in 1 .. 2
      PROVE  C(l) \in 0 .. 3 /\ (C(l) > 0 => v >= r.star[l][C(l)])
                             /\ (C(l) < 3 => v < r.star[l][C(l) + 1])
  <2>. DEFINE f == r.star[l]
  <2>1. (\A k \in 1 .. 3 : f[k] \in Nat) /\ f[1] <= f[2] /\ f[2] <= f[3]
    BY DEF Shape, Numbers
  <2>2. C(l) = Cardinality({k \in 1 .. 3 : v >= f[k]})
    OBVIOUS
  <2>. HIDE DEF f, C
  <2>3. C(l) \in 0 .. 3 /\ (C(l) > 0 => v >= f[C(l)]) /\ (C(l) < 3 => v < f[C(l) + 1])
    BY <2>1, <2>2, Reaching
  <2>. QED
    BY <2>3 DEF f
<1>. HIDE DEF L, C
<1>4. CASE L \in {1, 2}
  <2>1. L \in 1 .. 2 /\ Entitled(r, v).stars = C(L)
    BY <1>2, <1>4
  <2>. QED
    BY <1>1, <1>2, <2>1, <1>3 DEF L
<1>5. CASE L \notin {1, 2}
  BY <1>1, <1>2, <1>5 DEF L
<1>. QED
  BY <1>4, <1>5

\* The thresholds of the stars of a level.
LEMMA Rising ==
  ASSUME NEW r, Shape(r), NEW l \in 1 .. 2, NEW m \in 1 .. 3, NEW n \in 1 .. 3, m <= n
  PROVE  /\ r.star[l][m] \in Nat /\ r.star[l][n] \in Nat
         /\ r.star[l][m] <= r.star[l][n]
<1>1. r.star[l][1] \in Nat /\ r.star[l][2] \in Nat /\ r.star[l][3] \in Nat
  BY DEF Shape, Numbers
<1>2. r.star[l][1] <= r.star[l][2] /\ r.star[l][2] <= r.star[l][3]
  BY DEF Shape, Numbers
<1>3. (m = 1 \/ m = 2 \/ m = 3) /\ (n = 1 \/ n = 2 \/ n = 3)
  OBVIOUS
<1>. QED
  BY <1>1, <1>2, <1>3

\* An award that can neither rise nor get a star is what its value is worth.
LEMMA Settled ==
  ASSUME NEW r, Shape(r), NEW v \in Nat,
         NEW a, a \in [level : 0 .. 3, stars : 0 .. 3],
         a.level < 3, ~(v >= r.top /\ r.topBy = "total"),
         a.level = 0 => v < r.enter /\ a.stars = 0,
         a.level = 1 => v >= r.enter /\ v < r.rise,
         a.level = 2 => v >= r.rise,
         a.level \in {1, 2} /\ a.stars > 0 => v >= r.star[a.level][a.stars],
         a.level \in {1, 2} /\ a.stars < 3 => v < r.star[a.level][a.stars + 1]
  PROVE  a = Entitled(r, v)
<1>. DEFINE e == Entitled(r, v)
<1>1. /\ e = [level |-> e.level, stars |-> e.stars]
      /\ e.level \in 0 .. 3 /\ e.stars \in 0 .. 3
      /\ e.level \in {0, 3} => e.stars = 0
      /\ (e.level = 3) <=> (v >= r.top /\ r.topBy = "total")
      /\ e.level = 2 => v >= r.rise
      /\ e.level = 1 => v >= r.enter /\ v < r.rise
      /\ e.level = 0 => v < r.enter
      /\ e.stars > 0 => v >= r.star[e.level][e.stars]
      /\ e.level \in {1, 2} /\ e.stars < 3 => v < r.star[e.level][e.stars + 1]
  BY Worth
<1>. HIDE DEF e
<1>2. e.level = a.level
  BY <1>1 DEF Shape, Numbers
<1>3. e.stars = a.stars
  <2>1. CASE a.level = 0
    BY <2>1, <1>1, <1>2
  <2>2. CASE a.level \in 1 .. 2
    <3>1. ~(e.stars < a.stars)
      <4>. SUFFICES ASSUME e.stars < a.stars PROVE FALSE
        OBVIOUS
      <4>1. /\ r.star[a.level][e.stars + 1] \in Nat /\ r.star[a.level][a.stars] \in Nat
            /\ r.star[a.level][e.stars + 1] <= r.star[a.level][a.stars]
        BY <2>2, <1>1, Rising
      <4>. QED
        BY <4>1, <1>1, <1>2, <2>2
    <3>2. ~(a.stars < e.stars)
      <4>. SUFFICES ASSUME a.stars < e.stars PROVE FALSE
        OBVIOUS
      <4>1. /\ r.star[a.level][a.stars + 1] \in Nat /\ r.star[a.level][e.stars] \in Nat
            /\ r.star[a.level][a.stars + 1] <= r.star[a.level][e.stars]
        BY <2>2, <1>1, Rising
      <4>. QED
        BY <4>1, <1>1, <1>2, <2>2
    <3>. QED
      BY <3>1, <3>2, <1>1
  <2>. QED
    BY <2>1, <2>2
<1>. QED
  BY <1>1, <1>2, <1>3 DEF e

\* More is worth no less.
LEMMA WorthRises ==
  ASSUME NEW r, Shape(r), NEW v \in Nat, NEW w \in Nat, v <= w
  PROVE  /\ Entitled(r, v).level <= Entitled(r, w).level
         /\ Entitled(r, v).level = Entitled(r, w).level =>
               Entitled(r, v).stars <= Entitled(r, w).stars
<1>. DEFINE d == Entitled(r, v)
            e == Entitled(r, w)
<1>1. /\ d.level \in 0 .. 3 /\ d.stars \in 0 .. 3
      /\ d.level \in {0, 3} => d.stars = 0
      /\ (d.level = 3) <=> (v >= r.top /\ r.topBy = "total")
      /\ d.level = 2 => v >= r.rise
      /\ d.level = 1 => v >= r.enter /\ v < r.rise
      /\ d.level = 0 => v < r.enter
      /\ d.stars > 0 => v >= r.star[d.level][d.stars]
  BY Worth
<1>2. /\ e.level \in 0 .. 3 /\ e.stars \in 0 .. 3
      /\ (e.level = 3) <=> (w >= r.top /\ r.topBy = "total")
      /\ e.level = 2 => w >= r.rise
      /\ e.level = 1 => w >= r.enter /\ w < r.rise
      /\ e.level = 0 => w < r.enter
      /\ e.level \in {1, 2} /\ e.stars < 3 => w < r.star[e.level][e.stars + 1]
  BY Worth
<1>. HIDE DEF d, e
<1>3. d.level <= e.level
  BY <1>1, <1>2 DEF Shape, Numbers
<1>4. ASSUME d.level = e.level, e.stars < d.stars PROVE FALSE
  <2>1. e.level \in 1 .. 2
    BY <1>1, <1>2, <1>4
  <2>2. /\ r.star[e.level][e.stars + 1] \in Nat /\ r.star[e.level][d.stars] \in Nat
        /\ r.star[e.level][e.stars + 1] <= r.star[e.level][d.stars]
    BY <2>1, <1>1, <1>2, <1>4, Rising
  <2>. QED
    BY <2>1, <2>2, <1>1, <1>2, <1>4
<1>. QED
  BY <1>3, <1>4, <1>1, <1>2 DEF d, e

\* The level after a match.
LEMMA Levels ==
  ASSUME NEW r, Shape(r), NEW l \in 0 .. 3, NEW value \in Nat, NEW peak \in Nat
  PROVE  LET n == LevelAfter(r, l, value, peak)
         IN  /\ n \in 0 .. 3 /\ n >= l
             /\ peak >= r.top /\ l >= r.topFrom => n = 3
             /\ n = 3 /\ l # 3 => peak >= r.top
             /\ n = 2 /\ l < 2 => value >= r.rise /\ (l = 1 \/ r.by = "match")
             /\ n = 1 /\ l = 0 => value >= r.enter
             /\ n = 0 => value < r.enter
             /\ n = 1 /\ l = 1 => value < r.rise
BY DEF LevelAfter, Shape, Numbers

\* An award after a match: it moves by one level or one star.
LEMMA Judged ==
  ASSUME NEW r, NEW a \in [level : 0 .. 3, stars : 0 .. 3], NEW value \in Nat, NEW peak \in Nat
  PROVE  LET b == After(r, a, value, peak)
             n == LevelAfter(r, a.level, value, peak)
         IN  /\ b = [level |-> n, stars |-> b.stars]
             /\ b.level = n
             /\ n # a.level => b.stars = 0
             /\ n = a.level => b.stars \in {a.stars, a.stars + 1}
             /\ b.stars = a.stars + 1 => b.stars = 0 \/
                   (n = a.level /\ n \in {1, 2} /\ a.stars < 3 /\ IsStar(r, n, a.stars, value))
             /\ n = a.level /\ n \in {1, 2} /\ a.stars < 3 /\ IsStar(r, n, a.stars, value)
                   => b.stars = a.stars + 1
<1>. DEFINE n == LevelAfter(r, a.level, value, peak)
            s == CASE n # a.level -> 0
                   [] n = a.level /\ n \in {1, 2} /\ a.stars < 3 /\ IsStar(r, n, a.stars, value)
                        -> a.stars + 1
                   [] OTHER -> a.stars
<1>1. After(r, a, value, peak) = [level |-> n, stars |-> s]
  BY Zenon DEF After
<1>. HIDE DEF n
<1>. QED
  BY <1>1 DEF n

-----------------------------------------------------------------------------
(* The inductive invariant *)

\* What a level and its stars are given for.
Reached == IF rule.by = "total" THEN total \div rule.unit ELSE best

\* Where an award stands to the statistics.  A total has brought a level as
\* soon as it is enough for the first one; a streak, which grows by one, meets
\* the levels one by one; stars that take a match each are outnumbered by the
\* matches that were worth one.
Standing ==
    /\ streak <= total
    /\ award.level \in {1, 2} => Reached >= rule.enter
    /\ award.level = 0 /\ rule.by = "total" /\ ~rule.atLogin => Reached < rule.enter
    /\ rule.by = "streak" =>
        /\ award.level = 0 => streak <= 4
        /\ award.level = 1 => streak <= 9
    /\ rule.by # "total" /\ award.level \in {1, 2} => deeds[award.level] > award.stars
    /\ rule.atLogin => award.level = 3 \/ award = Entitled(rule, total)

IInv == TypeOK /\ Deserved /\ NothingMissed /\ Standing

\* The awards that are followed have the shape of the program's.
LEMMA Followed ==
  ASSUME TypeOK
  PROVE  /\ Shape(rule)
         /\ award \in [level : 0 .. 3, stars : 0 .. 3]
         /\ award.level \in 0 .. 3 /\ award.stars \in 0 .. 3
         /\ total \in Nat /\ streak \in Nat /\ best \in Nat
         /\ deeds[1] \in Nat /\ deeds[2] \in Nat
BY Shapes, RulesAssumption DEF TypeOK, Shape, Numbers

\* The statistics after a match.
LEMMA Measured ==
  ASSUME TypeOK, streak <= total, NEW gain \in rule.gains, Gain(gain)
  PROVE  /\ gain \in Nat
         /\ total' \in 0 .. rule.last /\ streak' \in 0 .. rule.last
         /\ total <= total' /\ streak' <= total' /\ streak' <= streak + 1
         /\ \A by \in {"total", "match", "streak"} : Measure(by, gain) \in 0 .. rule.last
         /\ Measure("total", gain) = total' \div rule.unit
         /\ Measure("match", gain) = gain /\ Measure("streak", gain) = streak'
         /\ total \div rule.unit \in Nat /\ total \div rule.unit <= total' \div rule.unit
         /\ rule.unit = 1 => total' \div rule.unit = total'
<1>1. Shape(rule) /\ rule.last \in Nat /\ gain \in Nat /\ total \in Nat /\ streak \in Nat
  BY Followed DEF Shape, Numbers
<1>2. /\ total' = total + gain /\ total + gain <= rule.last
      /\ (streak' = streak + 1 /\ gain > 0) \/ streak' = 0
  BY DEF Gain
<1>3. /\ total' \in 0 .. rule.last /\ streak' \in 0 .. rule.last
      /\ total <= total' /\ streak' <= total' /\ streak' <= streak + 1 /\ gain <= rule.last
  BY <1>1, <1>2
<1>4. rule.unit \in {1, 3600}
  BY <1>1 DEF Shape, Numbers
<1>5. /\ total \div rule.unit \in Nat /\ total' \div rule.unit \in Nat
      /\ total \div rule.unit <= total' \div rule.unit
      /\ total' \div rule.unit <= total'
      /\ total' \div 1 = total'
  <2>. DEFINE u == rule.unit
              n == total'
  <2>1. u \in {1, 3600} /\ total \in Nat /\ n \in Nat /\ total <= n
    BY <1>1, <1>3, <1>4
  <2>. HIDE DEF u, n
  <2>2. /\ total \div u \in Nat /\ n \div u \in Nat /\ total \div u <= n \div u
        /\ n \div u <= n /\ n \div 1 = n
    BY <2>1, Units
  <2>. QED
    BY <2>2 DEF u, n
<1>6. /\ Measure("total", gain) = total' \div rule.unit
      /\ Measure("match", gain) = gain /\ Measure("streak", gain) = streak'
  BY DEF Measure
<1>7. \A by \in {"total", "match", "streak"} : Measure(by, gain) \in 0 .. rule.last
  <2>. HIDE DEF Measure
  <2>. QED
    BY <1>1, <1>3, <1>5, <1>6
<1>. QED
  BY <1>1, <1>3, <1>5, <1>6, <1>7

\* Nothing is awarded to begin with.
LEMMA Beginning == Init => IInv
<1>. SUFFICES ASSUME Init PROVE IInv
  OBVIOUS
<1>1. rule \in AllRules /\ Shape(rule)
  BY Shapes, RulesAssumption DEF Init
<1>2. /\ rule.last \in Nat /\ rule.enter \in Nat \ {0} /\ rule.top \in Nat \ {0}
      /\ rule.unit \in {1, 3600} /\ 0 \div rule.unit = 0
  <2>1. rule.unit \in {1, 3600}
    BY <1>1 DEF Shape, Numbers
  <2>2. 0 \div rule.unit = 0
    <3>1. CASE rule.unit = 1
      BY <3>1
    <3>2. CASE rule.unit = 3600
      BY <3>2
    <3>. QED
      BY <2>1, <3>1, <3>2
  <2>. QED
    BY <2>1, <2>2, <1>1 DEF Shape, Numbers
<1>3. TypeOK
  <2>1. rule \in Rules /\ 0 \in 0 .. rule.last
    BY <1>2 DEF Init
  <2>2. award \in [level : 0 .. 3, stars : 0 .. 3] /\ award.stars = 0
    BY DEF Init
  <2>3. deeds \in [1 .. 2 -> Nat]
    BY DEF Init
  <2>. QED
    BY <2>1, <2>2, <2>3 DEF Init, TypeOK
<1>4. award = Entitled(rule, 0)
  <2>1. award.level = 0 /\ award.stars = 0 /\ award \in [level : 0 .. 3, stars : 0 .. 3]
    BY DEF Init
  <2>. QED
    BY <2>1, <1>1, <1>2, Settled
<1>5. Deserved
  BY DEF Init, Deserved
<1>6. NothingMissed
  BY <1>2, <1>4 DEF Init, NothingMissed
<1>7. Standing
  BY <1>2, <1>4 DEF Init, Standing, Reached
<1>. QED
  BY <1>3, <1>5, <1>6, <1>7 DEF IInv

-----------------------------------------------------------------------------
(* A match that an award is judged by *)

\* What the properties need of it, whatever the award is judged by: the award
\* moves by one level or one star, and the history follows.
Moves(value, peak, n) ==
    /\ award' \in [level : 0 .. 3, stars : 0 .. 3] /\ award'.level = n
    /\ award' = [level |-> n, stars |-> award'.stars]
    /\ n # award.level => award'.stars = 0
    /\ n = award.level => award'.stars \in {award.stars, award.stars + 1}
    /\ award'.stars > award.stars =>
        n = award.level /\ n \in 1 .. 2 /\ IsStar(rule, n, award.stars, value)
    /\ n = award.level /\ n \in 1 .. 2 /\ award.stars < 3 /\ IsStar(rule, n, award.stars, value) =>
        award'.stars > award.stars
    /\ feat' = (feat \/ peak >= rule.top)
    /\ still' = (award' = award)
    /\ best' \in 0 .. rule.last /\ best' >= best /\ (rule.by # "total" => best' >= value)
    /\ deeds' \in [1 .. 2 -> Nat]
    /\ \A level \in 1 .. 2 :
        /\ deeds'[level] >= deeds[level]
        /\ rule.by # "total" /\ IsStar(rule, level, 0, value) => deeds'[level] > deeds[level]

\* How the award and its level move.
LEMMA Moving ==
  ASSUME IInv, NEW gain \in rule.gains, Match(gain), ~(rule.flagged /\ gain = 0)
  PROVE  LET value == Measure(rule.by, gain)
             peak == Measure(rule.topBy, gain)
         IN  Moves(value, peak, LevelAfter(rule, award.level, value, peak))
<1>. DEFINE value == Measure(rule.by, gain)
            peak == Measure(rule.topBy, gain)
            n == LevelAfter(rule, award.level, value, peak)
<1>1. /\ award' = After(rule, award, value, peak)
      /\ best' = IF rule.by # "total" /\ value > best THEN value ELSE best
      /\ deeds' = [level \in 1 .. 2 |->
             IF rule.by # "total" /\ IsStar(rule, level, 0, value)
             THEN deeds[level] + 1 ELSE deeds[level]]
      /\ feat' = (feat \/ peak >= rule.top)
      /\ still' = (award' = award)
  BY Zenon DEF Match
<1>2. /\ TypeOK /\ streak <= total /\ Gain(gain)
  BY DEF IInv, Standing, Match
<1>3. /\ Shape(rule)
      /\ award \in [level : 0 .. 3, stars : 0 .. 3] /\ award.level \in 0 .. 3
      /\ award.stars \in 0 .. 3 /\ (award.level \in {0, 3} => award.stars = 0)
      /\ best \in 0 .. rule.last /\ deeds \in [1 .. 2 -> Nat] /\ rule.last \in Nat
  BY <1>2, Followed DEF TypeOK, Shape, Numbers
<1>4. value \in 0 .. rule.last /\ peak \in 0 .. rule.last
  <2>1. rule.by \in {"total", "match", "streak"} /\ rule.topBy \in {"total", "match", "streak"}
    BY <1>3 DEF Shape, Kinds
  <2>2. \A by \in {"total", "match", "streak"} : Measure(by, gain) \in 0 .. rule.last
    BY <1>2, Measured
  <2>. QED
    BY <2>1, <2>2
<1>. HIDE DEF value, peak
<1>5. /\ n \in 0 .. 3 /\ n >= award.level
  BY <1>3, <1>4, Levels
<1>6. /\ award' = [level |-> n, stars |-> award'.stars]
      /\ award'.level = n
      /\ n # award.level => award'.stars = 0
      /\ n = award.level => award'.stars \in {award.stars, award.stars + 1}
      /\ award'.stars = award.stars + 1 => award'.stars = 0 \/
            (n = award.level /\ n \in {1, 2} /\ award.stars < 3 /\ IsStar(rule, n, award.stars, value))
      /\ n = award.level /\ n \in {1, 2} /\ award.stars < 3 /\ IsStar(rule, n, award.stars, value)
            => award'.stars = award.stars + 1
  BY <1>1, <1>3, <1>4, Judged
<1>. HIDE DEF n
<1>7. /\ award' \in [level : 0 .. 3, stars : 0 .. 3]
      /\ award'.stars > award.stars =>
            n = award.level /\ n \in 1 .. 2 /\ IsStar(rule, n, award.stars, value)
      /\ n = award.level /\ n \in 1 .. 2 /\ award.stars < 3 /\ IsStar(rule, n, award.stars, value)
            => award'.stars > award.stars
  <2>1. award'.stars \in 0 .. 3
    BY <1>3, <1>5, <1>6
  <2>2. award' \in [level : 0 .. 3, stars : 0 .. 3]
    BY <1>5, <1>6, <2>1
  <2>. QED
    BY <1>3, <1>5, <1>6, <2>1, <2>2
<1>8. best' \in 0 .. rule.last /\ best' >= best /\ (rule.by # "total" => best' >= value)
  BY <1>1, <1>3, <1>4
<1>9. /\ deeds' \in [1 .. 2 -> Nat]
      /\ \A level \in 1 .. 2 :
            /\ deeds'[level] >= deeds[level]
            /\ rule.by # "total" /\ IsStar(rule, level, 0, value) => deeds'[level] > deeds[level]
  BY <1>1, <1>3
<1>. QED
  BY <1>1, <1>6, <1>7, <1>8, <1>9 DEF Moves, n, value, peak

\* Where every match or streak counts for itself, each star takes the same.
LEMMA SameForAllStars ==
  ASSUME NEW r, Shape(r), NEW level \in 1 .. 2, NEW stars \in 0 .. 2, NEW value \in Nat
  PROVE  /\ r.by # "total" => (IsStar(r, level, stars, value) <=> IsStar(r, level, 0, value))
         /\ r.by = "total" => (IsStar(r, level, stars, value) <=> value >= r.star[level][stars + 1])
         /\ r.by = "match" => (IsStar(r, level, 0, value)
                                 <=> value >= IF level = 1 THEN r.enter ELSE r.rise)
         /\ r.by = "streak" /\ value = (IF level = 1 THEN 5 ELSE 10) => IsStar(r, level, 0, value)
<1>. stars + 1 \in 1 .. 3 /\ level \in {1, 2}
  OBVIOUS
<1>1. CASE r.by = "total"
  BY <1>1 DEF Shape, Kinds, IsStar
<1>2. CASE r.by = "match"
  <2>1. r.multiple = FALSE /\ \A k \in 1 .. 3 : r.star[1][k] = r.enter /\ r.star[2][k] = r.rise
    BY <1>2 DEF Shape, Kinds, Tops
  <2>. QED
    BY <1>2, <2>1 DEF IsStar
<1>3. CASE r.by = "streak"
  <2>1. r.multiple = TRUE /\ \A k \in 1 .. 3 : r.star[1][k] = 5 /\ r.star[2][k] = 10
    BY <1>3 DEF Shape, Kinds, Tops
  <2>2. IsStar(r, level, stars, value) <=> IsStar(r, level, 0, value)
    BY <2>1 DEF IsStar
  <2>3. ASSUME value = (IF level = 1 THEN 5 ELSE 10) PROVE IsStar(r, level, 0, value)
    BY <2>1, <2>3 DEF IsStar
  <2>. QED
    BY <1>3, <2>2, <2>3
<1>. QED
  BY <1>1, <1>2, <1>3 DEF Shape, Kinds

\* A match by which an award is judged keeps the invariant.
LEMMA JudgedMatchKeeps ==
  ASSUME IInv, NEW gain \in rule.gains, Match(gain), ~(rule.flagged /\ gain = 0)
  PROVE  IInv' /\ award'.level >= award.level
               /\ (award'.level = award.level => award'.stars >= award.stars)
               /\ (decorated => decorated')
<1>. DEFINE value == Measure(rule.by, gain)
            peak == Measure(rule.topBy, gain)
            n == LevelAfter(rule, award.level, value, peak)
            l == award.level
            s == award.stars
            t == award'.stars
            old == Reached
            new == IF rule.by = "total" THEN total' \div rule.unit ELSE best'
<1>1. /\ TypeOK /\ streak <= total /\ Gain(gain) /\ ~rule.atLogin /\ rule' = rule
      /\ others' \in {others, TRUE} /\ decorated' = (decorated \/ (others' /\ award'.level > 0))
  BY Zenon DEF IInv, Standing, Match
<1>2. /\ Shape(rule) /\ rule.by \in {"total", "match", "streak"}
      /\ l \in 0 .. 3 /\ s \in 0 .. 3 /\ (l \in {0, 3} => s = 0)
      /\ rule.enter \in Nat \ {0} /\ rule.rise \in Nat \ {0} /\ rule.top \in Nat \ {0}
      /\ rule.topFrom \in Nat /\ rule.enter <= rule.rise /\ rule.last \in Nat
      /\ award \in [level : 0 .. 3, stars : 0 .. 3]
      /\ deeds[1] \in Nat /\ deeds[2] \in Nat /\ best \in Nat
      /\ others \in BOOLEAN /\ decorated \in BOOLEAN /\ feat \in BOOLEAN
  <2>1. Shape(rule)
    BY <1>1, Followed
  <2>. QED
    BY <2>1, <1>1, Followed DEF Shape, Numbers, Kinds, TypeOK
<1>3. /\ total' \in 0 .. rule.last /\ streak' \in 0 .. rule.last
      /\ streak' <= total' /\ streak' <= streak + 1 /\ streak \in Nat
      /\ value \in Nat /\ peak \in Nat
      /\ rule.by = "total" => value = total' \div rule.unit
      /\ rule.by = "streak" => value = streak'
      /\ rule.topBy = "total" => peak = total' \div rule.unit
      /\ rule.topBy = "streak" => peak = streak'
      /\ total \div rule.unit \in Nat /\ total \div rule.unit <= total' \div rule.unit
      /\ (rule.unit = 1 => total \div rule.unit = total) /\ total \in Nat
  <2>1. /\ \A by \in {"total", "match", "streak"} : Measure(by, gain) \in 0 .. rule.last
        /\ Measure("total", gain) = total' \div rule.unit /\ Measure("streak", gain) = streak'
        /\ total' \in 0 .. rule.last /\ streak' \in 0 .. rule.last
        /\ streak' <= total' /\ streak' <= streak + 1
        /\ total \div rule.unit \in Nat /\ total \div rule.unit <= total' \div rule.unit
    BY <1>1, Measured
  <2>2. rule.by \in {"total", "match", "streak"} /\ rule.topBy \in {"total", "match", "streak"}
    BY <1>2 DEF Shape, Kinds
  <2>3. total \in Nat /\ streak \in Nat
    BY <1>1, Followed
  <2>4. rule.unit = 1 => total \div rule.unit = total
    BY <2>3
  <2>. HIDE DEF Measure
  <2>. QED
    BY <2>1, <2>2, <2>3, <2>4
<1>4. Moves(value, peak, n)
  BY Moving
<1>. HIDE DEF value, peak
<1>5. /\ n \in 0 .. 3 /\ n >= l
      /\ peak >= rule.top /\ l >= rule.topFrom => n = 3
      /\ n = 3 /\ l # 3 => peak >= rule.top
      /\ n = 2 /\ l < 2 => value >= rule.rise /\ (l = 1 \/ rule.by = "match")
      /\ n = 1 /\ l = 0 => value >= rule.enter
      /\ n = 0 => value < rule.enter
      /\ n = 1 /\ l = 1 => value < rule.rise
  BY <1>2, <1>3, Levels
<1>. HIDE DEF n
<1>6. /\ award'.level = n /\ award' \in [level : 0 .. 3, stars : 0 .. 3] /\ t \in 0 .. 3
      /\ n # l => t = 0
      /\ n = l => t \in {s, s + 1}
      /\ t > s => n = l /\ n \in 1 .. 2 /\ IsStar(rule, n, s, value)
      /\ n = l /\ n \in 1 .. 2 /\ s < 3 /\ IsStar(rule, n, s, value) => t > s
      /\ n \in {0, 3} => t = 0
  BY <1>2, <1>4 DEF Moves
<1>7. /\ feat' = (feat \/ peak >= rule.top) /\ still' = (award' = award)
      /\ best' \in 0 .. rule.last /\ best' >= best /\ (rule.by # "total" => best' >= value)
      /\ deeds' \in [1 .. 2 -> Nat] /\ deeds'[1] \in Nat /\ deeds'[2] \in Nat
      /\ \A level \in 1 .. 2 :
            /\ deeds'[level] >= deeds[level]
            /\ rule.by # "total" /\ IsStar(rule, level, 0, value) => deeds'[level] > deeds[level]
  BY <1>4 DEF Moves
<1>8. /\ old \in Nat /\ new \in Nat /\ old <= new /\ value <= new
      /\ rule.by = "total" => new = value /\ old = total \div rule.unit
  BY <1>2, <1>3, <1>7 DEF Reached
<1>9. /\ l >= 1 => old >= rule.enter \/ feat
      /\ l = 2 => old >= rule.rise
      /\ l = 3 => feat
      /\ s > 0 => IF rule.by = "total" THEN old >= rule.star[l][s] ELSE deeds[l] > s
      /\ decorated => others /\ (l > 0 \/ ~rule.counts)
  BY DEF IInv, Deserved, Reached
<1>10. /\ l \in {1, 2} => old >= rule.enter
       /\ l = 0 /\ rule.by = "total" => old < rule.enter
       /\ rule.by = "streak" => (l = 0 => streak <= 4) /\ (l = 1 => streak <= 9)
       /\ rule.by # "total" /\ l \in {1, 2} => deeds[l] > s
  BY <1>1 DEF IInv, Standing
<1>. HIDE DEF old
<1>11. new = Reached'
  BY <1>1 DEF Reached
<1>. HIDE DEF new
<1>12. TypeOK'
  <2>1. award'.level \in {0, 3} => award'.stars = 0
    BY <1>6
  <2>2. others' \in BOOLEAN /\ decorated' \in BOOLEAN /\ feat' \in BOOLEAN /\ still' \in BOOLEAN
    BY <1>1, <1>2, <1>7
  <2>3. rule' \in Rules
    BY <1>1 DEF TypeOK
  <2>. QED
    BY <1>1, <1>3, <1>6, <1>7, <2>1, <2>2, <2>3 DEF TypeOK
<1>13. Standing'
  <2>1. n \in {1, 2} => new >= rule.enter
    BY <1>2, <1>3, <1>5, <1>8, <1>10
  <2>2. n = 0 /\ rule.by = "total" => new < rule.enter
    BY <1>5, <1>8
  <2>3. ASSUME rule.by = "streak"
        PROVE  (n = 0 => streak' <= 4) /\ (n = 1 => streak' <= 9)
    <3>1. rule.enter = 5 /\ rule.rise = 10 /\ rule.topBy = "streak" /\ rule.topFrom = 2
      BY <2>3, <1>2 DEF Shape, Tops
    <3>2. value = streak'
      BY <2>3, <1>3
    <3>. QED
      BY <2>3, <3>1, <3>2, <1>2, <1>3, <1>5, <1>10
  <2>4. ASSUME rule.by # "total", n \in {1, 2} PROVE deeds'[n] > t
    <3>1. CASE n # l
      <4>1. IsStar(rule, n, 0, value)
        <5>1. CASE rule.by = "match"
          <6>1. value >= IF n = 1 THEN rule.enter ELSE rule.rise
            BY <3>1, <2>4, <1>2, <1>3, <1>5
          <6>. QED
            BY <5>1, <6>1, <2>4, <1>2, <1>3, SameForAllStars
        <5>2. CASE rule.by = "streak"
          <6>1. rule.enter = 5 /\ rule.rise = 10
            BY <5>2, <1>2 DEF Shape, Tops
          <6>2. value = streak'
            BY <5>2, <1>3
          <6>3. value = IF n = 1 THEN 5 ELSE 10
            BY <5>2, <3>1, <2>4, <6>1, <6>2, <1>2, <1>3, <1>5, <1>10
          <6>. QED
            BY <5>2, <6>3, <2>4, <1>2, <1>3, SameForAllStars
        <5>. QED
          BY <5>1, <5>2, <2>4, <1>2
      <4>2. deeds'[n] > deeds[n] /\ deeds[n] \in Nat /\ deeds'[n] \in Nat
        BY <4>1, <2>4, <1>2, <1>7
      <4>. QED
        BY <4>2, <3>1, <1>6
    <3>2. CASE n = l
      <4>1. deeds[n] > s /\ deeds[n] \in Nat /\ deeds'[n] \in Nat /\ deeds'[n] >= deeds[n]
        BY <3>2, <2>4, <1>2, <1>7, <1>10
      <4>2. CASE t = s
        BY <4>1, <4>2, <1>2
      <4>3. CASE t = s + 1
        <5>1. IsStar(rule, n, s, value) /\ s \in 0 .. 2
          BY <4>3, <1>2, <1>6
        <5>2. IsStar(rule, n, 0, value)
          BY <5>1, <2>4, <1>2, <1>3, SameForAllStars
        <5>3. deeds'[n] > deeds[n]
          BY <5>2, <2>4, <1>7
        <5>. QED
          BY <5>3, <4>1, <4>3, <1>2
      <4>. QED
        BY <4>2, <4>3, <3>2, <1>6
    <3>. QED
      BY <3>1, <3>2
  <2>. QED
    BY <2>1, <2>2, <2>3, <2>4, <1>1, <1>3, <1>6, <1>11 DEF Standing
<1>14. Deserved'
  <2>1. n >= 1 => new >= rule.enter \/ feat'
    <3>1. n \in {1, 2} => new >= rule.enter
      BY <1>2, <1>3, <1>5, <1>8, <1>10
    <3>2. n = 3 => feat'
      BY <1>2, <1>5, <1>7, <1>9
    <3>. QED
      BY <3>1, <3>2, <1>5
  <2>2. n = 2 => new >= rule.rise
    BY <1>2, <1>3, <1>5, <1>8, <1>9
  <2>3. n = 3 => feat'
    BY <1>2, <1>5, <1>7, <1>9
  <2>4. ASSUME t > 0 PROVE IF rule.by = "total" THEN new >= rule.star[n][t] ELSE deeds'[n] > t
    <3>1. n = l /\ n \in 1 .. 2
      BY <2>4, <1>2, <1>6
    <3>2. CASE rule.by # "total"
      BY <3>1, <3>2, <1>1, <1>6, <1>13 DEF Standing
    <3>3. CASE rule.by = "total" /\ t = s
      <4>1. rule.star[l][s] \in Nat
        BY <2>4, <3>1, <3>3, <1>2, Rising
      <4>. QED
        BY <4>1, <2>4, <3>1, <3>3, <1>8, <1>9
    <3>4. CASE rule.by = "total" /\ t = s + 1
      <4>1. IsStar(rule, n, s, value) /\ s \in 0 .. 2
        BY <3>4, <1>2, <1>6
      <4>2. value >= rule.star[n][s + 1]
        BY <4>1, <3>1, <3>4, <1>2, <1>3, SameForAllStars
      <4>. QED
        BY <4>2, <3>4, <1>8
    <3>. QED
      BY <3>1, <3>2, <3>3, <3>4, <1>6
  <2>5. decorated' => others' /\ (n > 0 \/ ~rule.counts)
    <3>1. (l > 0 => n > 0) /\ (award'.level > 0 => n > 0)
      BY <1>2, <1>5, <1>6
    <3>2. others => others'
      BY <1>1, <1>2
    <3>3. CASE decorated
      BY <3>1, <3>2, <3>3, <1>9, Zenon
    <3>4. CASE others' /\ award'.level > 0
      BY <3>1, <3>4, Zenon
    <3>. QED
      BY <3>3, <3>4, <1>1, Zenon
  <2>. QED
    BY <2>1, <2>2, <2>3, <2>4, <2>5, <1>1, <1>6, <1>11 DEF Deserved, Reached
<1>15. NothingMissed'
  <2>1. ASSUME feat', rule.topBy # "total" PROVE n = 3
    <3>1. CASE feat
      <4>1. l = 3
        BY <2>1, <3>1 DEF IInv, NothingMissed
      <4>. QED
        BY <4>1, <1>5
    <3>2. CASE peak >= rule.top
      <4>1. l >= rule.topFrom
        <5>1. CASE rule.by = "streak"
          <6>1. rule.enter = 5 /\ rule.rise = 10 /\ rule.top = 20 /\ rule.topBy = "streak"
                /\ rule.topFrom = 2
            BY <5>1, <1>2 DEF Shape, Tops
          <6>. QED
            BY <5>1, <6>1, <3>2, <1>2, <1>3, <1>10
        <5>2. CASE rule.by # "streak"
          <6>1. \/ rule.topFrom = 0
                \/ /\ rule.by = "total" /\ rule.topBy = "streak" /\ rule.topFrom = 1
                   /\ rule.unit = 1 /\ rule.enter < rule.top
            BY <5>2, <2>1, <1>2 DEF Shape, Tops, Kinds
          <6>2. CASE rule.topFrom = 0
            BY <6>2, <1>2
          <6>3. CASE rule.by = "total" /\ rule.topBy = "streak" /\ rule.topFrom = 1
                     /\ rule.unit = 1 /\ rule.enter < rule.top
            <7>1. ASSUME l = 0 PROVE FALSE
              <8>1. old = total /\ old < rule.enter
                BY <7>1, <6>3, <1>3, <1>8, <1>10
              <8>. QED
                BY <8>1, <6>3, <3>2, <1>1, <1>2, <1>3
            <7>. QED
              BY <7>1, <6>3, <1>2
          <6>. QED
            BY <6>1, <6>2, <6>3
        <5>. QED
          BY <5>1, <5>2
      <4>. QED
        BY <4>1, <3>2, <1>5
    <3>. QED
      BY <3>1, <3>2, <2>1, <1>7
  <2>2. ASSUME still', rule.by = "total", n < 3
        PROVE  award' = Entitled(rule, value)
    <3>1. award' = award /\ n = l /\ t = s
      BY <2>2, <1>6, <1>7
    <3>2. l = 0 => value < rule.enter /\ s = 0
      BY <3>1, <1>2, <1>5
    <3>3. l = 1 => value >= rule.enter /\ value < rule.rise
      BY <2>2, <3>1, <1>2, <1>5, <1>8, <1>10
    <3>4. l = 2 => value >= rule.rise
      BY <2>2, <3>1, <1>2, <1>8, <1>9
    <3>5. ~(value >= rule.top /\ rule.topBy = "total")
      <4>. SUFFICES ASSUME value >= rule.top, rule.topBy = "total" PROVE FALSE
        OBVIOUS
      <4>1. rule.topFrom = 2 /\ rule.rise <= rule.top
        BY <1>1, <1>2 DEF Shape, Tops
      <4>2. peak = value
        BY <2>2, <1>3
      <4>. QED
        BY <4>1, <4>2, <2>2, <3>1, <3>2, <3>3, <1>2, <1>3, <1>5
    <3>6. l \in {1, 2} /\ s > 0 => value >= rule.star[l][s]
      <4>1. ASSUME l \in {1, 2}, s > 0 PROVE value >= rule.star[l][s]
        <5>1. rule.star[l][s] \in Nat
          BY <4>1, <1>2, Rising
        <5>. QED
          BY <5>1, <4>1, <2>2, <1>3, <1>8, <1>9
      <4>. QED
        BY <4>1
    <3>7. l \in {1, 2} /\ s < 3 => value < rule.star[l][s + 1]
      <4>1. ASSUME l \in {1, 2}, s < 3 PROVE value < rule.star[l][s + 1]
        <5>1. ~IsStar(rule, l, s, value)
          BY <4>1, <3>1, <1>2, <1>6
        <5>2. ~(value >= rule.star[l][s + 1])
          BY <5>1, <4>1, <2>2, <1>2, <1>3, SameForAllStars
        <5>3. rule.star[l][s + 1] \in Nat
          BY <4>1, <1>2, Rising
        <5>. QED
          BY <5>2, <5>3, <1>3
      <4>. QED
        BY <4>1
    <3>8. award = Entitled(rule, value)
      BY <2>2, <3>1, <3>2, <3>3, <3>4, <3>5, <3>6, <3>7, <1>2, <1>3, Settled
    <3>. QED
      BY <3>1, <3>8
  <2>. QED
    BY <2>1, <2>2, <1>1, <1>3, <1>6 DEF NothingMissed
<1>16. /\ award'.level >= award.level /\ (award'.level = award.level => award'.stars >= award.stars)
       /\ (decorated => decorated')
  BY <1>1, <1>2, <1>5, <1>6
<1>. QED
  BY <1>12, <1>13, <1>14, <1>15, <1>16 DEF IInv

-----------------------------------------------------------------------------
(* The other steps *)

\* A match that leaves a skill medal alone keeps the invariant.
LEMMA UnflaggedMatchKeeps ==
  ASSUME IInv, NEW gain \in rule.gains, Match(gain), rule.flagged /\ gain = 0
  PROVE  IInv' /\ award' = award /\ (decorated => decorated')
<1>1. /\ TypeOK /\ streak <= total /\ Gain(gain) /\ ~rule.atLogin
      /\ rule' = rule /\ UNCHANGED <<award, best, deeds, feat, still>>
      /\ others' \in {others, TRUE} /\ decorated' = (decorated \/ (others' /\ award'.level > 0))
  BY DEF IInv, Standing, Match, history
<1>2. total' = total /\ streak' = 0 /\ total \in Nat /\ streak \in Nat
  BY <1>1, Followed DEF Gain
<1>3. TypeOK'
  <2>1. others' \in BOOLEAN /\ decorated' \in BOOLEAN
    BY <1>1 DEF TypeOK
  <2>2. total' \in 0 .. rule.last /\ streak' \in 0 .. rule.last
    <3>1. rule.last \in Nat
      BY <1>1, Followed DEF Shape, Numbers
    <3>. QED
      BY <3>1, <1>1, <1>2 DEF TypeOK
  <2>. QED
    BY <2>1, <2>2, <1>1 DEF TypeOK
<1>4. Standing'
  BY <1>1, <1>2 DEF IInv, Standing, Reached
<1>5. Deserved'
  <2>1. others => others'
    BY <1>1 DEF TypeOK
  <2>2. decorated' => others' /\ (award'.level > 0 \/ ~rule'.counts)
    <3>1. decorated => others /\ (award.level > 0 \/ ~rule.counts)
      BY Zenon DEF IInv, Deserved
    <3>. QED
      BY <3>1, <2>1, <1>1, Zenon
  <2>3. /\ award.level >= 1 => Reached >= rule.enter \/ feat
        /\ award.level = 2 => Reached >= rule.rise
        /\ award.level = 3 => feat
        /\ award.stars > 0 =>
            IF rule.by = "total"
            THEN Reached >= rule.star[award.level][award.stars]
            ELSE deeds[award.level] > award.stars
    BY Zenon DEF IInv, Deserved, Reached
  <2>4. Reached' = Reached
    BY <1>1, <1>2 DEF Reached
  <2>. QED
    BY <2>2, <2>3, <2>4, <1>1, Zenon DEF Deserved, Reached
<1>6. NothingMissed'
  BY <1>1, <1>2 DEF IInv, NothingMissed
<1>. QED
  BY <1>1, <1>3, <1>4, <1>5, <1>6 DEF IInv

\* A match does not touch a badge for membership.
LEMMA OtherMatchKeeps ==
  ASSUME IInv, OtherMatch
  PROVE  IInv' /\ award' = award /\ (decorated => decorated')
<1>1. /\ UNCHANGED <<rule, award, total, streak, best, deeds, feat, still>>
      /\ others' \in {others, TRUE}
      /\ decorated' = (decorated \/ (others' /\ (award.level > 0 \/ ~rule.counts)))
      /\ others \in BOOLEAN
  BY DEF IInv, TypeOK, OtherMatch, statistics, history
<1>2. TypeOK'
  BY <1>1 DEF IInv, TypeOK
<1>3. Standing'
  BY <1>1 DEF IInv, Standing, Reached
<1>4. Deserved'
  <2>1. decorated => others /\ (award.level > 0 \/ ~rule.counts)
    BY Zenon DEF IInv, Deserved
  <2>2. others => others'
    BY <1>1
  <2>3. decorated' => others' /\ (award'.level > 0 \/ ~rule'.counts)
    BY <2>1, <2>2, <1>1, Zenon
  <2>. QED
    BY <2>3, <1>1, Zenon DEF IInv, Deserved
<1>5. NothingMissed'
  BY <1>1 DEF IInv, NothingMissed
<1>. QED
  BY <1>1, <1>2, <1>3, <1>4, <1>5 DEF IInv

\* A login that judges a badge keeps the invariant.
LEMMA LoginKeeps ==
  ASSUME IInv, NEW gain \in rule.gains, Login(gain)
  PROVE  IInv' /\ award'.level >= award.level
               /\ (award'.level = award.level => award'.stars >= award.stars)
               /\ (decorated => decorated')
<1>. DEFINE e == Entitled(rule, total')
            d == Entitled(rule, total)
<1>1. /\ rule.atLogin /\ total + gain <= rule.last /\ total' = total + gain
      /\ award' = IF award.level = 3 \/ (award.stars = 3 /\ ~rule.counts) THEN award ELSE e
      /\ feat' = (feat \/ total' >= rule.top)
      /\ still' = (award' = award)
      /\ UNCHANGED <<rule, streak, others, decorated, best, deeds>>
  BY DEF Login
<1>2. /\ TypeOK /\ Shape(rule) /\ award \in [level : 0 .. 3, stars : 0 .. 3]
      /\ award.level \in 0 .. 3 /\ award.stars \in 0 .. 3
      /\ (award.level \in {0, 3} => award.stars = 0)
      /\ rule.by = "total" /\ rule.topBy = "total" /\ rule.unit = 1
      /\ gain \in Nat /\ total \in Nat /\ streak \in Nat /\ total' \in Nat /\ total <= total'
      /\ rule.enter \in Nat /\ rule.rise \in Nat /\ rule.top \in Nat /\ rule.last \in Nat
      /\ rule.enter <= rule.rise /\ rule.rise <= rule.top /\ total' \in 0 .. rule.last
      /\ total \div rule.unit = total /\ total' \div rule.unit = total'
  <2>1. TypeOK
    BY DEF IInv
  <2>2. Shape(rule) /\ total \in Nat /\ streak \in Nat
    BY <2>1, Followed
  <2>3. /\ rule.by = "total" /\ rule.topBy = "total" /\ rule.unit = 1
        /\ gain \in Nat /\ rule.enter \in Nat /\ rule.rise \in Nat /\ rule.top \in Nat
        /\ rule.last \in Nat /\ rule.enter <= rule.rise /\ rule.rise <= rule.top
    BY <2>2, <1>1 DEF Shape, Numbers, Kinds, Tops
  <2>4. total' \in Nat /\ total <= total' /\ total' \in 0 .. rule.last
    BY <2>2, <2>3, <1>1
  <2>5. \A m \in Nat : m \div 1 = m
    OBVIOUS
  <2>. QED
    BY <2>1, <2>2, <2>3, <2>4, <2>5, Followed DEF TypeOK
<1>3. /\ e = [level |-> e.level, stars |-> e.stars]
      /\ e.level \in 0 .. 3 /\ e.stars \in 0 .. 3
      /\ e.level \in {0, 3} => e.stars = 0
      /\ (e.level = 3) <=> (total' >= rule.top)
      /\ e.level = 2 => total' >= rule.rise
      /\ e.level = 1 => total' >= rule.enter /\ total' < rule.rise
      /\ e.stars > 0 => total' >= rule.star[e.level][e.stars]
  BY <1>2, Worth
<1>4. /\ d.level \in 0 .. 3 /\ d.stars \in 0 .. 3
      /\ d.level <= e.level /\ (d.level = e.level => d.stars <= e.stars)
      /\ d.level \in {0, 3} => d.stars = 0
      /\ d.level = 1 \/ d.level = 2 \/ d.level = 3 => e.level >= 1
  BY <1>2, <1>3, Worth, WorthRises
<1>5. award.level = 3 \/ award = d
  BY <1>1 DEF IInv, Standing
<1>. HIDE DEF d, e
<1>6. award.level = 3 \/ award' = e
  <2>1. CASE award.level # 3 /\ award.stars = 3 /\ ~rule.counts
    <3>1. award' = d /\ rule.last < rule.rise
      BY <2>1, <1>1, <1>2, <1>5 DEF Shape, Kinds
    <3>2. e.level = 1 /\ d.level = 1 /\ d.stars = 3
      BY <2>1, <3>1, <1>2, <1>3, <1>4, <1>5
    <3>3. e.stars = 3
      BY <3>2, <1>3, <1>4
    <3>4. d = [level |-> d.level, stars |-> d.stars]
      BY <1>2, <1>5, <2>1
    <3>. QED
      BY <3>1, <3>2, <3>3, <3>4, <1>3
  <2>. QED
    BY <2>1, <1>1
<1>7. award.level = 3 => award' = award
  BY <1>1
<1>8. /\ award' \in [level : 0 .. 3, stars : 0 .. 3] /\ (award'.level \in {0, 3} => award'.stars = 0)
  BY <1>2, <1>3, <1>6, <1>7
<1>9. award'.level >= award.level /\ (award'.level = award.level => award'.stars >= award.stars)
  <2>1. CASE award.level = 3
    BY <2>1, <1>2, <1>7
  <2>2. CASE award = d /\ award' = e
    BY <2>2, <1>3, <1>4
  <2>. QED
    BY <2>1, <2>2, <1>5, <1>6
<1>10. TypeOK'
  <2>1. feat' \in BOOLEAN /\ still' \in BOOLEAN
    BY <1>1, <1>2 DEF TypeOK
  <2>. QED
    BY <2>1, <1>1, <1>2, <1>8 DEF TypeOK
<1>11. Standing'
  <2>1. rule' = rule /\ streak' = streak /\ streak <= total'
    BY <1>1, <1>2 DEF IInv, Standing
  <2>2. award'.level \in {1, 2} => total' >= rule.enter
    BY <1>2, <1>3, <1>6, <1>7
  <2>3. award'.level = 3 \/ award' = Entitled(rule, total')
    BY <1>6, <1>7 DEF e
  <2>. QED
    BY <2>1, <2>2, <2>3, <1>1, <1>2 DEF Standing, Reached
<1>12. Deserved'
  <2>1. award'.level = 3 => feat'
    <3>1. award.level = 3 => feat
      BY Zenon DEF IInv, Deserved
    <3>. QED
      BY <3>1, <1>1, <1>2, <1>3, <1>6
  <2>2. /\ award'.level >= 1 => total' >= rule.enter \/ feat'
        /\ award'.level = 2 => total' >= rule.rise
        /\ award'.stars > 0 => total' >= rule.star[award'.level][award'.stars]
    BY <2>1, <1>2, <1>3, <1>6, <1>7
  <2>3. decorated' => others' /\ (award'.level > 0 \/ ~rule.counts)
    <3>1. decorated => others /\ (award.level > 0 \/ ~rule.counts)
      BY Zenon DEF IInv, Deserved
    <3>2. award.level > 0 => award'.level > 0
      BY <1>2, <1>8, <1>9
    <3>. QED
      BY <3>1, <3>2, <1>1, Zenon
  <2>. QED
    BY <2>1, <2>2, <2>3, <1>1, <1>2 DEF Deserved
<1>13. NothingMissed'
  BY <1>1, <1>2, <1>6, <1>7 DEF NothingMissed, e
<1>. QED
  BY <1>1, <1>9, <1>10, <1>11, <1>12, <1>13 DEF IInv

-----------------------------------------------------------------------------

\* Every step keeps the invariant, and takes nothing back.
LEMMA StepKeeps ==
  ASSUME IInv, [Next]_vars
  PROVE  IInv' /\ award'.level >= award.level
               /\ (award'.level = award.level => award'.stars >= award.stars)
               /\ (decorated => decorated')
<1>1. ASSUME NEW gain \in rule.gains, Match(gain), ~(rule.flagged /\ gain = 0)
      PROVE  IInv' /\ award'.level >= award.level
                   /\ (award'.level = award.level => award'.stars >= award.stars)
                   /\ (decorated => decorated')
  BY <1>1, JudgedMatchKeeps
<1>. award.level \in 0 .. 3 /\ award.stars \in 0 .. 3
  BY Followed DEF IInv
<1>2. ASSUME NEW gain \in rule.gains, Match(gain), rule.flagged /\ gain = 0
      PROVE  IInv' /\ award' = award /\ (decorated => decorated')
  BY <1>2, UnflaggedMatchKeeps
<1>3. ASSUME NEW gain \in rule.gains, Login(gain)
      PROVE  IInv' /\ award'.level >= award.level
                   /\ (award'.level = award.level => award'.stars >= award.stars)
                   /\ (decorated => decorated')
  BY <1>3, LoginKeeps
<1>4. CASE OtherMatch
  BY <1>4, OtherMatchKeeps
<1>5. CASE UNCHANGED vars
  BY <1>5 DEF vars, statistics, history, IInv, TypeOK, Deserved, NothingMissed, Standing, Reached
<1>. QED
  BY <1>1, <1>2, <1>3, <1>4, <1>5 DEF Next

\* The invariant holds in every state.
LEMMA Invariant == Spec => []IInv
<1>1. IInv /\ [Next]_vars => IInv'
  BY StepKeeps
<1>. QED
  BY Beginning, <1>1, PTL DEF Spec

\* An award, its statistics and its history are of their types: no level beyond
\* 3, no fourth star, and no star on level 3 or without a level.
THEOREM TypeCorrect == Spec => []TypeOK
<1>1. IInv => TypeOK
  BY DEF IInv
<1>. QED
  BY <1>1, Invariant, PTL

\* Nobody has a level, a star or the medal for all the others without what it
\* takes, for every set of the program's awards.
THEOREM DeservedCorrect == Spec => []Deserved
<1>1. IInv => Deserved
  BY DEF IInv
<1>. QED
  BY <1>1, Invariant, PTL

\* A feat finds the award on a level from which level 3 is given, and an award
\* that a match has left alone is all the total is worth.
THEOREM NothingMissedCorrect == Spec => []NothingMissed
<1>1. IInv => NothingMissed
  BY DEF IInv
<1>. QED
  BY <1>1, Invariant, PTL

\* No match and no login takes back a level, a star of a level, or the medal for
\* all the others.
THEOREM NeverTakenCorrect == Spec => NeverTaken
<1>1. IInv /\ [Next]_vars =>
        [/\ award'.level >= award.level
         /\ award'.level = award.level => award'.stars >= award.stars
         /\ decorated => decorated']_vars
  BY StepKeeps
<1>. QED
  BY <1>1, Invariant, PTL DEF Spec, NeverTaken

-----------------------------------------------------------------------------
(* Totals.  The sum over a set is a fold, which takes the rows in an order *)
(* nobody knows; it is the one function that satisfies SumsUp.  Sets of    *)
(* rows are handled smallest first: a statement that fails for some finite *)
(* set fails for one of least cardinality.                                 *)

\* A set of naturals has a least element.
LEMMA LeastNatural ==
    ASSUME NEW T, T \subseteq Nat, T # {}
    PROVE  \E n \in T : \A m \in T : n <= m
<1>. DEFINE R == {ss \in Nat \X Nat : ss[1] < ss[2]}
<1>1. IsWellFoundedOn(R, Nat)
  BY NatLessThanWellFounded, Zenon DEF OpToRel
<1>2. PICK n \in T : \A m \in T : ~(<<m, n>> \in R)
  BY <1>1, WFMin, Zenon
<1>3. ASSUME NEW m \in T
      PROVE  n <= m
  <2>1. m \in Nat /\ n \in Nat /\ <<m, n>> \notin R
    BY <1>2
  <2>2. <<m, n>> \in Nat \X Nat /\ <<m, n>>[1] = m /\ <<m, n>>[2] = n
    BY <2>1
  <2>3. ~(m < n)
    BY <2>1, <2>2
  <2>. QED
    BY <2>1, <2>3
<1>. QED
  BY <1>3

Chosen(s) == CHOOSE x \in s : TRUE

SumsUp(f, S) ==
    f = [s \in SUBSET S |-> IF s = {} THEN 0 ELSE Chosen(s).score + f[s \ {Chosen(s)}]]

\* The fold takes out one row after the other.
LEMMA TotalSumsUp ==
    ASSUME NEW S
    PROVE  Total(S) = (CHOOSE f : SumsUp(f, S))[S]
BY DEF Total, MapThenSumSet, MapThenFoldSet, SumsUp, Chosen

\* What is taken out of a set was in it.
LEMMA ChosenIn ==
    ASSUME NEW S, S # {}
    PROVE  Chosen(S) \in S
BY DEF Chosen

\* Of the finite sets in a family one is smallest.
LEMMA SmallestSet ==
    ASSUME NEW F, F # {}, \A s \in F : IsFiniteSet(s)
    PROVE  \E s \in F : \A t \in F : Cardinality(s) <= Cardinality(t)
<1>. DEFINE N == {Cardinality(s) : s \in F}
<1>1. PICK u \in F : TRUE
  OBVIOUS
<1>2. N \subseteq Nat
  BY FS_CardinalityType
<1>3. N # {}
  BY <1>1
<1>4. PICK n \in N : \A m \in N : n <= m
  BY <1>2, <1>3, LeastNatural
<1>. QED
  BY <1>4

\* Two such functions agree on the finite sets both have.
LEMMA SumsAgree ==
    ASSUME NEW S, NEW R, NEW f, NEW g, SumsUp(f, S), SumsUp(g, R),
           NEW T \in SUBSET (S \cap R), IsFiniteSet(T)
    PROVE  f[T] = g[T]
<1>. DEFINE Bad == {s \in SUBSET T : f[s] # g[s]}
<1>1. SUFFICES ASSUME Bad # {} PROVE FALSE
  OBVIOUS
<1>2. \A s \in Bad : IsFiniteSet(s)
  BY FS_Subset
<1>3. PICK s \in Bad : \A t \in Bad : Cardinality(s) <= Cardinality(t)
  BY <1>1, <1>2, SmallestSet
<1>4. s \in SUBSET S /\ s \in SUBSET R /\ IsFiniteSet(s) /\ f[s] # g[s]
  BY <1>2, <1>3
<1>5. /\ f[s] = IF s = {} THEN 0 ELSE Chosen(s).score + f[s \ {Chosen(s)}]
      /\ g[s] = IF s = {} THEN 0 ELSE Chosen(s).score + g[s \ {Chosen(s)}]
  BY <1>4 DEF SumsUp
<1>6. s # {}
  BY <1>4, <1>5
<1>7. s \ {Chosen(s)} \in Bad
  BY <1>3, <1>4, <1>5, <1>6
<1>8. Cardinality(s \ {Chosen(s)}) = Cardinality(s) - 1 /\ Cardinality(s) \in Nat
  BY <1>4, <1>6, ChosenIn, FS_RemoveElement, FS_CardinalityType
<1>. QED
  BY <1>3, <1>7, <1>8

\* Every finite set has such a function: what it gives for a subset is made of
\* the function of a smaller set.
LEMMA SumExists ==
    ASSUME NEW S, IsFiniteSet(S)
    PROVE  \E f : SumsUp(f, S)
<1>. DEFINE Bad == {s \in SUBSET S : ~ \E f : SumsUp(f, s)}
<1>1. SUFFICES ASSUME Bad # {} PROVE FALSE
  OBVIOUS
<1>2. \A s \in Bad : IsFiniteSet(s)
  BY FS_Subset
<1>3. PICK U \in Bad : \A t \in Bad : Cardinality(U) <= Cardinality(t)
  BY <1>1, <1>2, SmallestSet
<1>4. IsFiniteSet(U) /\ Cardinality(U) \in Nat
  BY <1>2, FS_CardinalityType
<1>. DEFINE Less(s) == s \ {Chosen(s)}
            fun(s) == CHOOSE f : SumsUp(f, s)
            h == [s \in SUBSET U |-> IF s = {} THEN 0 ELSE Chosen(s).score + fun(Less(s))[Less(s)]]
<1>5. ASSUME NEW s \in SUBSET U, s # {}
      PROVE  /\ SumsUp(fun(Less(s)), Less(s))
             /\ Less(s) \in SUBSET U /\ IsFiniteSet(Less(s))
  <2>1. IsFiniteSet(s) /\ Cardinality(s) <= Cardinality(U) /\ Cardinality(s) \in Nat
    BY <1>4, FS_Subset, FS_CardinalityType
  <2>2. IsFiniteSet(Less(s)) /\ Cardinality(Less(s)) = Cardinality(s) - 1
    BY <1>5, <2>1, ChosenIn, FS_RemoveElement
  <2>3. Less(s) \in SUBSET S /\ Less(s) \notin Bad
    BY <1>3, <1>4, <2>1, <2>2
  <2>. QED
    BY <2>2, <2>3
<1>6. ASSUME NEW s \in SUBSET U, s # {}
      PROVE  h[Less(s)] = fun(Less(s))[Less(s)]
  <2>. DEFINE t == Less(s)
  <2>1. SumsUp(fun(t), t) /\ t \in SUBSET U /\ IsFiniteSet(t)
    BY <1>5, <1>6
  <2>. HIDE DEF t
  <2>2. fun(t)[t] = IF t = {} THEN 0 ELSE Chosen(t).score + fun(t)[Less(t)]
    BY <2>1 DEF SumsUp
  <2>3. h[t] = IF t = {} THEN 0 ELSE Chosen(t).score + fun(Less(t))[Less(t)]
    BY <2>1
  <2>4. CASE t = {}
    BY <2>2, <2>3, <2>4 DEF t
  <2>5. CASE t # {}
    <3>1. SumsUp(fun(Less(t)), Less(t)) /\ IsFiniteSet(Less(t))
      BY <1>5, <2>1, <2>5
    <3>2. Less(t) \in SUBSET (t \cap Less(t))
      OBVIOUS
    <3>3. fun(t)[Less(t)] = fun(Less(t))[Less(t)]
      BY <2>1, <3>1, <3>2, SumsAgree
    <3>. QED
      BY <2>2, <2>3, <3>3 DEF t
  <2>. QED
    BY <2>4, <2>5
<1>7. \A s \in SUBSET U : s # {} => Less(s) \in SUBSET U
  OBVIOUS
<1>8. SumsUp(h, U)
  <2>1. ASSUME NEW s \in SUBSET U
        PROVE  h[s] = IF s = {} THEN 0 ELSE Chosen(s).score + h[Less(s)]
    <3>1. h[s] = IF s = {} THEN 0 ELSE Chosen(s).score + fun(Less(s))[Less(s)]
      OBVIOUS
    <3>2. s # {} => h[Less(s)] = fun(Less(s))[Less(s)]
      BY <1>6
    <3>. HIDE DEF h, fun, Less
    <3>. QED
      BY <3>1, <3>2
  <2>2. h = [s \in SUBSET U |-> h[s]]
    OBVIOUS
  <2>. HIDE DEF h
  <2>3. h = [s \in SUBSET U |-> IF s = {} THEN 0 ELSE Chosen(s).score + h[Less(s)]]
    BY <2>1, <2>2
  <2>. QED
    BY <2>3 DEF SumsUp
<1>. QED
  BY <1>3, <1>8

\* So it is a sum: nothing for no rows, ...
LEMMA TotalEmpty == Total({}) = 0
<1>1. PICK f : SumsUp(f, {})
  BY SumExists, FS_EmptySet
<1>2. SumsUp(CHOOSE g : SumsUp(g, {}), {})
  BY <1>1
<1>. QED
  BY <1>2, TotalSumsUp DEF SumsUp

\* ... whatever row is taken first, ...
LEMMA SumTakes ==
    ASSUME NEW S, IsFiniteSet(S), \A r \in S : r.score \in Int, NEW f, SumsUp(f, S)
    PROVE  \A T \in SUBSET S : f[T] \in Int /\ \A x \in T : f[T] = x.score + f[T \ {x}]
<1>. DEFINE Good(s) == f[s] \in Int /\ \A x \in s : f[s] = x.score + f[s \ {x}]
            Bad == {s \in SUBSET S : ~Good(s)}
<1>1. SUFFICES ASSUME Bad # {} PROVE FALSE
  OBVIOUS
<1>2. \A s \in Bad : IsFiniteSet(s)
  BY FS_Subset
<1>3. PICK s \in Bad : \A t \in Bad : Cardinality(s) <= Cardinality(t)
  BY <1>1, <1>2, SmallestSet
<1>4. IsFiniteSet(s) /\ Cardinality(s) \in Nat /\ s \in SUBSET S /\ ~Good(s)
  BY <1>2, FS_CardinalityType
<1>. HIDE DEF Good
<1>5. ASSUME NEW t \in SUBSET s, t # s
      PROVE  Good(t)
  <2>1. IsFiniteSet(t) /\ Cardinality(t) <= Cardinality(s) /\ Cardinality(s) # Cardinality(t)
    BY <1>4, <1>5, FS_Subset
  <2>2. Cardinality(t) \in Nat
    BY <2>1, FS_CardinalityType
  <2>3. t \notin Bad /\ t \in SUBSET S
    BY <1>3, <1>4, <2>1, <2>2
  <2>. QED
    BY <2>3
<1>6. f[s] = IF s = {} THEN 0 ELSE Chosen(s).score + f[s \ {Chosen(s)}]
  BY <1>4 DEF SumsUp
<1>7. CASE s = {}
  BY <1>4, <1>6, <1>7 DEF Good
<1>8. CASE s # {}
  <2>. DEFINE c == Chosen(s)
  <2>1. c \in s /\ c.score \in Int /\ f[s] = c.score + f[s \ {c}]
    BY <1>4, <1>6, <1>8, ChosenIn
  <2>. HIDE DEF c
  <2>2. f[s \ {c}] \in Int
    BY <1>5, <2>1 DEF Good
  <2>3. ASSUME NEW x \in s
        PROVE  f[s] = x.score + f[s \ {x}]
    <3>1. CASE x = c
      BY <2>1, <3>1, Zenon
    <3>2. CASE x # c
      <4>1. Good(s \ {c}) /\ Good(s \ {x}) /\ Good((s \ {x}) \ {c})
        BY <1>5, <2>1
      <4>2. f[s \ {c}] = x.score + f[(s \ {c}) \ {x}]
        BY <3>2, <4>1 DEF Good
      <4>3. f[s \ {x}] = c.score + f[(s \ {x}) \ {c}]
        BY <2>1, <3>2, <4>1 DEF Good
      <4>4. f[(s \ {x}) \ {c}] \in Int
        BY <4>1 DEF Good
      <4>. DEFINE rest == f[(s \ {x}) \ {c}]
      <4>5. (s \ {c}) \ {x} = (s \ {x}) \ {c}
        OBVIOUS
      <4>6. f[s \ {c}] = x.score + rest /\ f[s \ {x}] = c.score + rest
        BY <4>2, <4>3, <4>5
      <4>7. x.score \in Int /\ c.score \in Int /\ rest \in Int
        BY <1>4, <2>1, <4>4
      <4>. HIDE DEF rest
      <4>. QED
        BY <2>1, <4>6, <4>7
    <3>. QED
      BY <3>1, <3>2
  <2>4. f[s] \in Int
    BY <2>1, <2>2
  <2>5. Good(s)
    BY <2>3, <2>4 DEF Good
  <2>. QED
    BY <1>4, <2>5
<1>. QED
  BY <1>7, <1>8

\* ... and with another row as much more as its score.
LEMMA TotalAdds ==
    ASSUME NEW S, IsFiniteSet(S), \A r \in S : r.score \in Int, NEW x, x \notin S, x.score \in Int
    PROVE  /\ Total(S) \in Int
           /\ Total(S \union {x}) = Total(S) + x.score
<1>. DEFINE U == S \union {x}
            f == CHOOSE f : SumsUp(f, U)
            g == CHOOSE g : SumsUp(g, S)
<1>1. IsFiniteSet(U) /\ \A r \in U : r.score \in Int
  BY FS_AddElement
<1>2. SumsUp(f, U) /\ SumsUp(g, S)
  BY <1>1, SumExists
<1>3. Total(U) = f[U] /\ Total(S) = g[S]
  BY TotalSumsUp
<1>. HIDE DEF f, g
<1>4. U \ {x} = S /\ x \in U /\ S \in SUBSET (U \cap S)
  OBVIOUS
<1>5. f[U] = x.score + f[S] /\ f[S] \in Int
  <2>1. \A T \in SUBSET U : f[T] \in Int /\ \A y \in T : f[T] = y.score + f[T \ {y}]
    <3>. HIDE DEF U
    <3>. QED
      BY <1>1, <1>2, SumTakes
  <2>. QED
    BY <1>4, <2>1
<1>6. f[S] = g[S]
  BY <1>2, <1>4, SumsAgree
<1>. QED
  BY <1>3, <1>5, <1>6

-----------------------------------------------------------------------------
(* The inductive invariant: types, the session, where the handler is *)

Mark == [profile : Profiles, score : Nat, won : BOOLEAN]
Row == [id : Int, profile : Profiles, day : Nat, score : Nat, won : BOOLEAN]
Place == [profile : Profiles, score : {LadderScore(rows) : rows \in SUBSET Row}]

Tables == [rows : SUBSET Row, total : [Profiles -> Int], awards : [Profiles -> Int],
           ladder : Seq(Place), rank : [Profiles -> Ranks],
           met : [Profiles \X Profiles -> Nat], clan : BOOLEAN, clanrank : BOOLEAN]

TablesTyped == stored \in Tables /\ work \in Tables

ProgressTyped ==
    /\ at \in Statements /\ part \in Parts
    /\ i \in Nat \ {0} /\ report \in Seq(Mark) /\ rising \in Ranks
    /\ today \in 0 .. MaxDay /\ reports \in 0 .. MaxReports
    /\ faults \in 0 .. MaxFaults
    /\ bare \in BOOLEAN

\* The session sees what is stored unless a transaction is open, and whenever it
\* has lost the connection.
SessionAgrees ==
    /\ link = "lost" => work = stored
    /\ ~open => work = stored

\* Which statements make up which part; nobody is in a report twice.
Stages ==
    /\ at \in {"idle", "insert", "update", "award"} => part = "stats"
    /\ at \in {"delete", "fill"} => part = "ladder"
    /\ at \in {"rank", "promote"} => part = "ranks"
    /\ at = "meet" => part = "friends"
    /\ at \in {"join", "joinrank", "name"} => part = "clan"
    /\ at = "test" => part \in {"ranks", "clan"}
    /\ at # "idle" /\ part # "clan" => Len(report) > 0
    /\ part = "ranks" => i \in DOMAIN report
    /\ at \in {"insert", "update", "award"} => i \in DOMAIN report
    /\ at \in {"idle", "test", "auto0", "start"} /\ part # "ranks" => i = 1
    /\ \A j, k \in DOMAIN report : report[j].profile = report[k].profile => j = k

Sound == SessionTypeOK /\ TablesTyped /\ ProgressTyped /\ SessionAgrees /\ Stages

-----------------------------------------------------------------------------
(* The greatest number of a set, and ranks *)

\* The greatest element of a bounded set of naturals.
LEMMA Greatest ==
    ASSUME NEW n \in Nat, NEW T \in SUBSET (0 .. n), T # {}
    PROVE  Max(T) \in T /\ \A m \in T : Max(T) >= m
<1>. DEFINE D == {n - m : m \in T}
<1>1. D \subseteq Nat /\ D # {}
  OBVIOUS
<1>2. PICK d \in D : \A e \in D : d <= e
  BY <1>1, LeastNatural
<1>3. PICK g \in T : d = n - g
  BY <1>2
<1>4. \A m \in T : g >= m
  <2>. TAKE m \in T
  <2>1. n - m \in D /\ m \in 0 .. n /\ g \in 0 .. n
    OBVIOUS
  <2>2. n - g <= n - m
    BY <1>2, <1>3, <2>1
  <2>. QED
    BY <2>1, <2>2
<1>5. \E x \in T : \A y \in T : x >= y
  BY <1>4
<1>. QED
  BY <1>5 DEF Max

\* There are ranks 0 to 18.
LEMMA TopRank == Ranks = 0 .. 18 /\ Max(Ranks) = 18
<1>1. Ranks = 0 .. 18
  BY DEF Ranks, RankScore
<1>2. Max(0 .. 18) \in 0 .. 18 /\ Max(0 .. 18) >= 18
  BY Greatest
<1>3. Max(0 .. 18) = 18
  BY <1>2
<1>. QED
  BY <1>1, <1>3

\* The new rank is no lower than the old one, and everything up to it is earned.
LEMMA RankIsEarned ==
    ASSUME NEW old \in Ranks, NEW score, NEW perc
    PROVE  LET new == NewRank(old, score, perc)
           IN  /\ new \in Ranks /\ new >= old
               /\ \A k \in old + 1 .. new : score >= RankScore[k] /\ perc >= RankPerc[k]
<1>. DEFINE Earned == {r \in old .. 18 : \A k \in old + 1 .. r :
                          score >= RankScore[k] /\ perc >= RankPerc[k]}
<1>1. NewRank(old, score, perc) = Max(Earned)
  BY TopRank DEF NewRank
<1>2. old \in Earned /\ Earned \in SUBSET (0 .. 18)
  BY TopRank
<1>3. Max(Earned) \in Earned
  BY <1>2, Greatest
<1>. QED
  BY <1>1, <1>3, TopRank

-----------------------------------------------------------------------------
(* The session *)

\* A statement that writes nothing leaves the tables as they are.
LEMMA QuietStep ==
    ASSUME SessionTypeOK, SessionAgrees,
           Touch \/ SetAutocommitOff \/ FailsOnLink \/ UNCHANGED session
    PROVE  /\ SessionTypeOK' /\ SessionAgrees'
           /\ work' = work /\ stored' = stored
BY DEF SessionTypeOK, SessionAgrees, Touch, SetAutocommitOff, FailsOnLink, Reaches, session

\* The end of a transaction commits or forgets what the session has seen.
LEMMA BoundaryStep ==
    ASSUME SessionTypeOK, SessionAgrees,
           StartTransaction \/ Commit \/ SetAutocommitOn \/ Rollback \/ LinkLost \/ NewSession
    PROVE  /\ SessionTypeOK' /\ SessionAgrees'
           /\ work' = stored' /\ stored' \in {stored, work}
           /\ StartTransaction \/ Commit \/ SetAutocommitOn => stored' = work
BY DEF SessionTypeOK, SessionAgrees, StartTransaction, Commit, SetAutocommitOn, Rollback,
       LinkLost, NewSession, Reaches

\* A write is stored at once, or with the transaction.
LEMMA WriteStep ==
    ASSUME NEW new, SessionTypeOK, SessionAgrees, Execute(new)
    PROVE  /\ SessionTypeOK' /\ SessionAgrees'
           /\ work' = new /\ stored' = IF open' THEN stored ELSE new
           /\ open' => link = "up"
           /\ link' = "up"
BY DEF SessionTypeOK, SessionAgrees, Execute, Reaches

\* The tables stay tables.
LEMMA TablesKept ==
    ASSUME TablesTyped, stored' \in {stored, work}, work' \in {stored, work}
    PROVE  TablesTyped'
BY DEF TablesTyped

-----------------------------------------------------------------------------
(* Where the handler goes *)

\* A handler that goes on to another statement of the same part.
LEMMA GoesOn ==
    ASSUME Sound, NEW next \in Statements \ {"idle"}, NEW index \in Nat \ {0}, Goto(next, index),
           at # "idle", faults' \in 0 .. MaxFaults, bare' \in BOOLEAN,
           next \in {"insert", "update", "award"} => part = "stats" /\ index \in DOMAIN report,
           next \in {"delete", "fill"} => part = "ladder",
           next \in {"rank", "promote"} => part = "ranks",
           next = "meet" => part = "friends",
           next \in {"join", "joinrank", "name"} => part = "clan",
           next = "test" => part \in {"ranks", "clan"},
           part = "ranks" => index = i,
           next \in {"test", "auto0", "start"} /\ part # "ranks" => index = 1
    PROVE  ProgressTyped' /\ Stages'
<1>1. /\ at' = next /\ i' = index /\ part' = part /\ rising' = rising
      /\ report' = report /\ today' = today /\ reports' = reports
  BY DEF Goto
<1>2. ProgressTyped'
  BY <1>1 DEF Sound, ProgressTyped
<1>3. Stages'
  BY <1>1 DEF Sound, Stages
<1>. QED
  BY <1>2, <1>3

\* A handler that ends, with or without an error.
LEMMA Ends ==
    ASSUME Sound, Ended, faults' \in 0 .. MaxFaults, bare' \in BOOLEAN
    PROVE  ProgressTyped' /\ Stages'
<1>1. <<>> \in Seq(Mark) /\ DOMAIN <<>> = {} /\ 0 \in Ranks
  BY TopRank
<1>2. ProgressTyped'
  BY <1>1 DEF Sound, ProgressTyped, Ended, Statements, Parts
<1>3. Stages'
  BY <1>1 DEF Stages, Ended
<1>. QED
  BY <1>2, <1>3

\* A report is never empty.
LEMMA FirstPlayer ==
    ASSUME Sound, at # "idle", part # "clan"
    PROVE  1 \in DOMAIN report
<1>1. Len(report) \in Nat /\ DOMAIN report = 1 .. Len(report) /\ Len(report) > 0
  BY DEF Sound, ProgressTyped, Stages
<1>. QED
  BY <1>1

\* A report that goes on to its next part.
LEMMA PartBegins ==
    ASSUME Sound, at # "idle", part # "clan", faults' \in 0 .. MaxFaults, bare' \in BOOLEAN,
           GotoPart("ladder", "auto0") \/ GotoPart("ranks", "rank") \/ GotoPart("friends", "auto0")
    PROVE  ProgressTyped' /\ Stages'
<1>1. /\ i' = 1 /\ rising' = 0 /\ UNCHANGED <<report, today, reports>>
      /\ \/ part' = "ladder" /\ at' = "auto0"
         \/ part' = "ranks" /\ at' = "rank"
         \/ part' = "friends" /\ at' = "auto0"
  BY DEF GotoPart
<1>2. ProgressTyped'
  BY <1>1, TopRank DEF Sound, ProgressTyped, Statements, Parts
<1>3. Stages'
  BY <1>1, FirstPlayer DEF Sound, Stages
<1>. QED
  BY <1>2, <1>3

\* Another player, or nobody, is left to be given a rank.
LEMMA PlayerIsNext ==
    ASSUME Sound, part = "ranks", NextPlayer, faults' \in 0 .. MaxFaults, bare' \in BOOLEAN
    PROVE  /\ ProgressTyped' /\ Stages'
           /\ at' = "rank" \/ part' = "friends"
<1>1. /\ at # "idle" /\ i \in Nat \ {0}
      /\ Len(report) \in Nat /\ DOMAIN report = 1 .. Len(report)
  BY DEF Sound, Stages, ProgressTyped
<1>2. CASE i < Len(report)
  <2>1. at' = "rank" /\ i' = i + 1 /\ rising' = 0 /\ UNCHANGED <<part, report, today, reports>>
    BY <1>2 DEF NextPlayer
  <2>2. i + 1 \in DOMAIN report
    BY <1>1, <1>2
  <2>3. ProgressTyped'
    BY <1>1, <2>1, TopRank DEF Sound, ProgressTyped, Statements
  <2>4. Stages'
    BY <1>1, <2>1, <2>2 DEF Sound, Stages
  <2>. QED
    BY <2>1, <2>3, <2>4
<1>3. CASE ~(i < Len(report))
  <2>1. GotoPart("friends", "auto0")
    BY <1>3 DEF NextPlayer
  <2>. QED
    BY <1>1, <2>1, PartBegins DEF GotoPart
<1>. QED
  BY <1>2, <1>3

\* A transaction is over: what follows is never in the midst of one.
LEMMA TransactionEnds ==
    ASSUME Sound, at # "idle", AfterCommit \/ AfterRollback,
           faults' \in 0 .. MaxFaults, bare' \in BOOLEAN
    PROVE  /\ ProgressTyped' /\ Stages'
           /\ at' \in {"idle", "auto0", "rank"}
           /\ at' = "auto0" => part' \in {"ladder", "friends"}
           /\ reports' = reports /\ today' = today
<1>1. part \in Parts
  BY DEF Sound, ProgressTyped
<1>2. CASE part = "ranks"
  <2>1. NextPlayer
    BY <1>2 DEF AfterCommit, AfterRollback
  <2>. QED
    BY <1>2, <2>1, PlayerIsNext DEF NextPlayer, GotoPart
<1>3. CASE Ended
  BY <1>3, Ends DEF Ended
<1>4. CASE part # "ranks" /\ ~Ended
  <2>1. \/ part = "stats" /\ GotoPart("ladder", "auto0")
        \/ part = "ladder" /\ GotoPart("ranks", "rank")
    BY <1>1, <1>4 DEF AfterCommit, AfterRollback, Parts
  <2>2. /\ at' \in {"auto0", "rank"} /\ (at' = "auto0" => part' = "ladder")
        /\ reports' = reports /\ today' = today
    BY <2>1 DEF GotoPart
  <2>. QED
    BY <2>1, <2>2, PartBegins
<1>. QED
  BY <1>2, <1>3, <1>4

\* A step of the session that writes nothing.
LEMMA SessionKept ==
    ASSUME Sound,
           \/ Touch \/ SetAutocommitOff \/ FailsOnLink \/ UNCHANGED session
           \/ StartTransaction \/ Commit \/ SetAutocommitOn \/ Rollback \/ LinkLost \/ NewSession
    PROVE  SessionTypeOK' /\ SessionAgrees' /\ TablesTyped'
<1>1. SessionTypeOK /\ SessionAgrees /\ TablesTyped
  BY DEF Sound
<1>2. /\ SessionTypeOK' /\ SessionAgrees'
      /\ stored' \in {stored, work} /\ work' \in {stored, work}
  BY <1>1, QuietStep, BoundaryStep
<1>. QED
  BY <1>1, <1>2, TablesKept

\* A write in a transaction, or where one should be.
LEMMA Written ==
    ASSUME Sound, NEW new \in Tables, Write(new)
    PROVE  /\ SessionTypeOK' /\ SessionAgrees' /\ TablesTyped'
           /\ faults' \in 0 .. MaxFaults /\ bare' \in BOOLEAN
           /\ work' = new /\ stored' \in {stored, new}
           /\ ~bare' => ~bare /\ link = "up" /\ link' = "up" /\ stored' = stored
<1>1. SessionTypeOK /\ SessionAgrees /\ TablesTyped /\ ProgressTyped
  BY DEF Sound
<1>2. Execute(new) /\ bare' = (bare \/ ~open') /\ UNCHANGED faults
  BY DEF Write
<1>3. /\ SessionTypeOK' /\ SessionAgrees'
      /\ work' = new /\ stored' = IF open' THEN stored ELSE new
      /\ open' => link = "up"
      /\ link' = "up"
  BY <1>1, <1>2, WriteStep
<1>4. TablesTyped'
  BY <1>1, <1>3 DEF TablesTyped
<1>5. bare \in BOOLEAN /\ faults \in 0 .. MaxFaults /\ open' \in BOOLEAN
  BY <1>1, <1>3 DEF ProgressTyped, SessionTypeOK
<1>6. bare' \in BOOLEAN /\ (~bare' => ~bare /\ open')
  BY <1>2, <1>5
<1>. QED
  BY <1>2, <1>3, <1>4, <1>5, <1>6

\* A query shows what is there, and may open a transaction.
LEMMA Queried ==
    ASSUME Sound, Execute(work)
    PROVE  /\ SessionTypeOK' /\ SessionAgrees' /\ TablesTyped'
           /\ work' = work /\ stored' \in {stored, work}
           /\ link = "lost" => stored' = work
<1>1. SessionTypeOK /\ SessionAgrees /\ TablesTyped
  BY DEF Sound
<1>2. /\ SessionTypeOK' /\ SessionAgrees'
      /\ work' = work /\ stored' = IF open' THEN stored ELSE work
      /\ open' => link = "up"
  BY <1>1, WriteStep
<1>. QED
  BY <1>1, <1>2 DEF TablesTyped

\* A refused statement leaves the session as it was, or finds the connection lost.
LEMMA Refused ==
    ASSUME ProgressTyped, Refuse
    PROVE  /\ FailsOnLink \/ UNCHANGED session
           /\ faults' \in 0 .. MaxFaults
<1>1. MaxFaults \in Nat /\ faults \in 0 .. MaxFaults
  BY MatchAssumption DEF ProgressTyped
<1>2. CASE link = "up" /\ faults < MaxFaults /\ faults' = faults + 1 /\ UNCHANGED session
  BY <1>1, <1>2
<1>3. CASE FailsOnLink /\ UNCHANGED faults
  BY <1>1, <1>3
<1>. QED
  BY <1>2, <1>3 DEF Refuse

-----------------------------------------------------------------------------
(* What is written *)

\* The player the report has come to.
LEMMA PlayerTyped ==
    ASSUME Sound, i \in DOMAIN report
    PROVE  Player \in Mark /\ Player.profile \in Profiles /\ Player.score \in Nat /\ Player.won \in BOOLEAN
<1>1. report \in [1 .. Len(report) -> Mark] /\ i \in 1 .. Len(report)
  BY DEF Sound, ProgressTyped
<1>2. Player \in Mark
  BY <1>1 DEF Player
<1>. QED
  BY <1>2 DEF Mark

Clan(T) == <<T.clan, T.clanrank>>

NewRow == [id |-> reports, profile |-> Player.profile, day |-> today, score |-> Player.score,
           won |-> Player.won]

\* The statements, one by one, and what each leaves as it is: the new row,
LEMMA Inserted ==
    ASSUME Sound, i \in DOMAIN report
    PROVE  LET new == [work EXCEPT !.rows = @ \union {NewRow}]
           IN  /\ NewRow \in Row
               /\ new \in Tables /\ new.rank = work.rank /\ Clan(new) = Clan(work)
               /\ new.rows = work.rows \union {NewRow}
               /\ new.total = work.total /\ new.awards = work.awards
               /\ new.ladder = work.ladder /\ new.met = work.met
<1>1. NewRow \in Row
  <2>1. reports \in Int /\ today \in Nat
    BY MatchAssumption DEF Sound, ProgressTyped
  <2>. QED
    BY <2>1, PlayerTyped DEF NewRow, Row
<1>. HIDE DEF NewRow
<1>. QED
  BY <1>1 DEF Sound, TablesTyped, Tables, Clan

\* the total,
LEMMA Updated ==
    ASSUME Sound, i \in DOMAIN report
    PROVE  LET new == [work EXCEPT !.total[Player.profile] = @ + Player.score]
           IN  /\ new \in Tables /\ new.rank = work.rank /\ Clan(new) = Clan(work)
               /\ new.rows = work.rows
               /\ new.total = [work.total EXCEPT ![Player.profile] = @ + Player.score]
               /\ new.awards = work.awards
               /\ new.ladder = work.ladder /\ new.met = work.met
<1>1. Player.profile \in Profiles /\ Player.score \in Nat /\ work \in Tables
  BY PlayerTyped DEF Sound, TablesTyped
<1>. DEFINE t == [work.total EXCEPT ![Player.profile] = @ + Player.score]
<1>2. t \in [Profiles -> Int]
  BY <1>1 DEF Tables
<1>. HIDE DEF t
<1>3. LET new == [work EXCEPT !.total = t]
      IN  /\ new \in Tables /\ new.rank = work.rank /\ Clan(new) = Clan(work)
          /\ new.rows = work.rows /\ new.total = t /\ new.awards = work.awards
          /\ new.ladder = work.ladder /\ new.met = work.met
  BY <1>1, <1>2 DEF Tables, Clan
<1>4. [work EXCEPT !.total[Player.profile] = @ + Player.score] = [work EXCEPT !.total = t]
  BY <1>1 DEF t
<1>. QED
  BY <1>3, <1>4 DEF t

\* the award,
LEMMA Awarded ==
    ASSUME Sound, i \in DOMAIN report
    PROVE  LET new == [work EXCEPT !.awards[Player.profile] = work.total[Player.profile]]
           IN  /\ new \in Tables /\ new.rank = work.rank /\ Clan(new) = Clan(work)
               /\ new.rows = work.rows /\ new.total = work.total
               /\ new.awards = [work.awards EXCEPT ![Player.profile] = work.total[Player.profile]]
               /\ new.ladder = work.ladder /\ new.met = work.met
<1>1. Player.profile \in Profiles /\ work \in Tables
  BY PlayerTyped DEF Sound, TablesTyped
<1>. DEFINE a == [work.awards EXCEPT ![Player.profile] = work.total[Player.profile]]
<1>2. a \in [Profiles -> Int]
  BY <1>1 DEF Tables
<1>. HIDE DEF a
<1>3. LET new == [work EXCEPT !.awards = a]
      IN  /\ new \in Tables /\ new.rank = work.rank /\ Clan(new) = Clan(work)
          /\ new.rows = work.rows /\ new.total = work.total /\ new.awards = a
          /\ new.ladder = work.ladder /\ new.met = work.met
  BY <1>1, <1>2 DEF Tables, Clan
<1>4. [work EXCEPT !.awards[Player.profile] = work.total[Player.profile]] = [work EXCEPT !.awards = a]
  BY <1>1 DEF a
<1>. QED
  BY <1>3, <1>4 DEF a

\* The ladder query returns rows, and they make a place on the ladder.
LEMMA RowsTyped ==
    ASSUME NEW p \in Profiles, NEW rows \in SUBSET Row, NEW day
    PROVE  /\ LadderRows(p, rows, day) \in SUBSET rows
           /\ Entry(p, rows, day) \in Place
<1>1. LadderRows(p, rows, day) \in SUBSET rows
  BY DEF LadderRows, RowsOf, Recent
<1>. QED
  BY <1>1 DEF Entry, Place

\* the empty ladder,
LEMMA Cleared ==
    ASSUME Sound
    PROVE  LET new == [work EXCEPT !.ladder = <<>>]
           IN  /\ new \in Tables /\ new.rank = work.rank /\ Clan(new) = Clan(work)
               /\ new.rows = work.rows /\ new.total = work.total /\ new.awards = work.awards
               /\ new.ladder = <<>> /\ new.met = work.met
<1>1. <<>> \in Seq(Place)
  OBVIOUS
<1>. QED
  BY <1>1 DEF Sound, TablesTyped, Tables, Clan

\* the next place on the ladder,
LEMMA Filled ==
    ASSUME Sound, NEW p \in Profiles
    PROVE  LET new == [work EXCEPT !.ladder = Append(@, Entry(p, work.rows, today))]
           IN  /\ new \in Tables /\ new.rank = work.rank /\ Clan(new) = Clan(work)
               /\ new.rows = work.rows /\ new.total = work.total /\ new.awards = work.awards
               /\ new.ladder = Append(work.ladder, Entry(p, work.rows, today)) /\ new.met = work.met
<1>1. work \in Tables
  BY DEF Sound, TablesTyped
<1>2. Entry(p, work.rows, today) \in Place /\ work.ladder \in Seq(Place)
  BY <1>1, RowsTyped DEF Tables
<1>. DEFINE longer == Append(work.ladder, Entry(p, work.rows, today))
<1>3. longer \in Seq(Place)
  BY <1>2
<1>. HIDE DEF longer
<1>4. LET new == [work EXCEPT !.ladder = longer]
      IN  /\ new \in Tables /\ new.rank = work.rank /\ Clan(new) = Clan(work)
          /\ new.rows = work.rows /\ new.total = work.total /\ new.awards = work.awards
          /\ new.ladder = longer /\ new.met = work.met
  BY <1>1, <1>3 DEF Tables, Clan
<1>. QED
  BY <1>4 DEF longer

\* the rank,
LEMMA Ranked ==
    ASSUME Sound, NEW p \in Profiles, NEW r \in Ranks
    PROVE  LET new == [work EXCEPT !.rank[p] = r]
           IN  /\ new \in Tables /\ Clan(new) = Clan(work)
               /\ new.rank = [work.rank EXCEPT ![p] = r]
               /\ new.rows = work.rows /\ new.total = work.total /\ new.awards = work.awards
               /\ new.ladder = work.ladder /\ new.met = work.met
<1>1. work \in Tables
  BY DEF Sound, TablesTyped
<1>. DEFINE ranks == [work.rank EXCEPT ![p] = r]
<1>2. ranks \in [Profiles -> Ranks]
  BY <1>1 DEF Tables
<1>. HIDE DEF ranks
<1>3. LET new == [work EXCEPT !.rank = ranks]
      IN  /\ new \in Tables /\ new.rank = ranks /\ Clan(new) = Clan(work)
          /\ new.rows = work.rows /\ new.total = work.total /\ new.awards = work.awards
          /\ new.ladder = work.ladder /\ new.met = work.met
  BY <1>1, <1>2 DEF Tables, Clan
<1>4. [work EXCEPT !.rank[p] = r] = [work EXCEPT !.rank = ranks]
  BY <1>1 DEF ranks
<1>. QED
  BY <1>3, <1>4 DEF ranks

\* the number of matches together,
LEMMA MetAgain ==
    ASSUME Sound, NEW pair \in Profiles \X Profiles
    PROVE  LET new == [work EXCEPT !.met[pair] = @ + 1]
           IN  /\ new \in Tables /\ new.rank = work.rank /\ Clan(new) = Clan(work)
               /\ new.rows = work.rows /\ new.total = work.total /\ new.awards = work.awards
               /\ new.ladder = work.ladder
               /\ new.met = [work.met EXCEPT ![pair] = @ + 1]
<1>1. work \in Tables
  BY DEF Sound, TablesTyped
<1>. DEFINE m == [work.met EXCEPT ![pair] = @ + 1]
<1>2. m \in [Profiles \X Profiles -> Nat]
  BY <1>1 DEF Tables
<1>. HIDE DEF m
<1>3. LET new == [work EXCEPT !.met = m]
      IN  /\ new \in Tables /\ new.rank = work.rank /\ Clan(new) = Clan(work)
          /\ new.rows = work.rows /\ new.total = work.total /\ new.awards = work.awards
          /\ new.ladder = work.ladder /\ new.met = m
  BY <1>1, <1>2 DEF Tables, Clan
<1>4. [work EXCEPT !.met[pair] = @ + 1] = [work EXCEPT !.met = m]
  BY <1>1 DEF m
<1>. QED
  BY <1>3, <1>4 DEF m

\* and the clan, then the rank in it.
LEMMA Joined ==
    ASSUME Sound
    PROVE  /\ LET new == [work EXCEPT !.clan = TRUE]
              IN  /\ new \in Tables
                  /\ new.rows = work.rows /\ new.total = work.total /\ new.awards = work.awards
                  /\ new.ladder = work.ladder /\ new.met = work.met
                  /\ new.clan = TRUE /\ new.clanrank = work.clanrank
           /\ LET new == [work EXCEPT !.clanrank = TRUE]
              IN  /\ new \in Tables
                  /\ new.rows = work.rows /\ new.total = work.total /\ new.awards = work.awards
                  /\ new.ladder = work.ladder /\ new.met = work.met
                  /\ new.clan = work.clan /\ new.clanrank = TRUE
BY DEF Sound, TablesTyped, Tables

\* Whole parts and remainders.
LEMMA Division ==
    ASSUME NEW n \in Nat \ {0}, NEW k \in Nat
    PROVE  /\ k \div n \in Nat /\ k % n \in 0 .. n - 1
           /\ k = n * (k \div n) + (k % n)
OBVIOUS

\* The number of a pair is in the square exactly if its first part is in the side.
LEMMA Product ==
    ASSUME NEW n \in Nat \ {0}, NEW q \in Nat, NEW r \in 0 .. n - 1
    PROVE  /\ n * q + r < n * n => q < n
           /\ q < n => n * q + r < n * n
<1>1. ASSUME q >= n PROVE n * q >= n * n
  BY <1>1
<1>2. ASSUME q < n PROVE n * q + n <= n * n
  <2>1. q + 1 <= n /\ n * (q + 1) = n * q + n
    BY <1>2
  <2>2. n * (q + 1) <= n * n
    BY <2>1
  <2>. QED
    BY <2>1, <2>2
<1>3. n * q \in Nat /\ n * n \in Nat
  OBVIOUS
<1>. QED
  BY <1>1, <1>2, <1>3

\* The pairs of the two loops are pairs of players of the report.
LEMMA PairTyped ==
    ASSUME Sound, NEW k \in Nat \ {0}, k <= Len(report) * Len(report)
    PROVE  \E a, b \in DOMAIN report :
              /\ a = ((k - 1) \div Len(report)) + 1 /\ b = ((k - 1) % Len(report)) + 1
              /\ Pair(k) = <<report[a].profile, report[b].profile>>
              /\ Pair(k) \in Profiles \X Profiles
<1>. DEFINE n == Len(report)
            q == (k - 1) \div n
            r == (k - 1) % n
<1>1. n \in Nat /\ report \in [1 .. n -> Mark]
  BY DEF Sound, ProgressTyped
<1>2. n # 0
  BY <1>1
<1>. HIDE DEF n
<1>3. q \in Nat /\ r \in 0 .. n - 1 /\ k - 1 = n * q + r
  <2>1. n \in Nat \ {0} /\ k - 1 \in Nat
    BY <1>1, <1>2
  <2>2. \A m \in Nat \ {0}, j \in Nat :
           /\ j \div m \in Nat /\ j % m \in 0 .. m - 1
           /\ j = m * (j \div m) + (j % m)
    BY Division
  <2>. QED
    BY <2>1, <2>2, Zenon
<1>4. n * q + r < n * n
  BY <1>1, <1>3 DEF n
<1>5. q < n
  BY <1>1, <1>2, <1>3, <1>4, Product
<1>. HIDE DEF q, r
<1>6. q + 1 \in DOMAIN report /\ r + 1 \in DOMAIN report
  BY <1>1, <1>3, <1>5
<1>7. Pair(k) = <<report[q + 1].profile, report[r + 1].profile>>
  BY DEF Pair, q, r, n
<1>8. \A j \in DOMAIN report : report[j].profile \in Profiles
  BY <1>1 DEF Mark
<1>. QED
  BY <1>6, <1>7, <1>8 DEF q, r, n


-----------------------------------------------------------------------------
(* The steps that keep Sound *)

\* Every step keeps Sound: a report comes in,
LEMMA ReportKeeps ==
    ASSUME Sound, Report
    PROVE  Sound'
<1>1. SessionTypeOK' /\ SessionAgrees' /\ TablesTyped'
  BY SessionKept DEF Report
<1>2. PICK players \in Permuted(Profiles) : \E result \in [Range(players) -> Results] :
         report' = [k \in DOMAIN players |-> [profile |-> players[k],
                      score |-> result[players[k]].score, won |-> result[players[k]].won]]
  BY DEF Report
<1>13. PICK result \in [Range(players) -> Results] :
         report' = [k \in DOMAIN players |-> [profile |-> players[k],
                      score |-> result[players[k]].score, won |-> result[players[k]].won]]
  BY <1>2
<1>3. PICK s \in SUBSET Profiles : s # {} /\ players \in SetToSeqs(s)
  BY DEF Permuted
<1>. DEFINE n == Cardinality(s)
<1>4. n \in Nat \ {0}
  BY <1>3, MatchAssumption, FS_Subset, FS_CardinalityType, FS_EmptySet
<1>5. players \in [1 .. n -> s] /\ \A j, k \in 1 .. n : j # k => players[j] # players[k]
  BY <1>3 DEF SetToSeqs
<1>. HIDE DEF n
<1>6. ASSUME NEW k \in 1 .. n
      PROVE  /\ result[players[k]].score \in Nat /\ result[players[k]].won \in BOOLEAN
             /\ players[k] \in Profiles
  <2>1. players[k] \in Range(players)
    BY <1>5, <1>6 DEF Range
  <2>2. result[players[k]] \in [score : Nat, won : BOOLEAN]
    BY <2>1, MatchAssumption
  <2>. QED
    BY <1>5, <1>6, <2>2
<1>7. report' \in [1 .. n -> Mark] /\ \A k \in 1 .. n : report'[k].profile = players[k]
  BY <1>13, <1>5, <1>6 DEF Mark
<1>8. report' \in Seq(Mark) /\ DOMAIN report' = 1 .. n /\ Len(report') = n
  BY <1>4, <1>7
<1>9. /\ at' = "auto0" /\ part' = "stats" /\ i' = 1 /\ today' \in today .. MaxDay
      /\ reports' = reports + 1 /\ reports < MaxReports
      /\ UNCHANGED <<rising, faults, bare>>
  BY DEF Report
<1>10. ProgressTyped'
  <2>1. reports' \in 0 .. MaxReports /\ today' \in 0 .. MaxDay
    BY <1>9, MatchAssumption DEF Sound, ProgressTyped
  <2>. QED
    BY <1>8, <1>9, <2>1 DEF Sound, ProgressTyped, Statements, Parts
<1>11. Stages'
  BY <1>4, <1>5, <1>7, <1>8, <1>9 DEF Stages
<1>. QED
  BY <1>1, <1>10, <1>11 DEF Sound

\* the observer of a profile tests the database, or is told of a clan,
LEMMA TestKeeps ==
    ASSUME Sound, TestDatabase \/ Join
    PROVE  Sound'
<1>. USE DEF Statements
<1>1. SessionTypeOK' /\ SessionAgrees' /\ TablesTyped'
  BY SessionKept DEF TestDatabase, Join
<1>2. faults' \in 0 .. MaxFaults /\ bare' \in BOOLEAN /\ i \in Nat \ {0}
  BY DEF TestDatabase, Join, Sound, ProgressTyped
<1>3. CASE Join
  <2>1. at = "idle" /\ at' = "test" /\ part' = "clan" /\ UNCHANGED <<i, rising, report, today, reports>>
    BY <1>3 DEF Join
  <2>2. ProgressTyped'
    BY <1>2, <2>1 DEF Sound, ProgressTyped, Parts
  <2>3. Stages'
    BY <2>1 DEF Sound, Stages
  <2>. QED
    BY <1>1, <2>2, <2>3 DEF Sound
<1>4. CASE TestDatabase /\ Goto("auto0", i)
  <2>1. ProgressTyped' /\ Stages'
    BY <1>2, <1>4, GoesOn DEF TestDatabase, Sound, Stages
  <2>. QED
    BY <1>1, <2>1 DEF Sound
<1>5. CASE TestDatabase /\ AfterRollback
  <2>1. ProgressTyped' /\ Stages'
    BY <1>2, <1>5, TransactionEnds DEF TestDatabase
  <2>. QED
    BY <1>1, <2>1 DEF Sound
<1>. QED
  BY <1>3, <1>4, <1>5 DEF TestDatabase

\* a transaction begins,
LEMMA BeginKeeps ==
    ASSUME Sound, BeginOff \/ BeginStart
    PROVE  Sound'
<1>. USE DEF Statements
<1>1. SessionTypeOK' /\ SessionAgrees' /\ TablesTyped'
  BY SessionKept DEF BeginOff, BeginStart
<1>2. at \in {"auto0", "start"} /\ UNCHANGED <<faults, bare>>
  BY DEF BeginOff, BeginStart
<1>3. /\ part \in Parts /\ at # "idle" /\ i \in Nat \ {0}
      /\ faults' \in 0 .. MaxFaults /\ bare' \in BOOLEAN
      /\ part # "ranks" => i = 1
      /\ part = "ranks" => i \in DOMAIN report
  BY <1>2 DEF Sound, ProgressTyped, Stages
<1>4. CASE BeginOff
  <2>1. Goto("start", i)
    BY <1>4 DEF BeginOff
  <2>2. ProgressTyped' /\ Stages'
    BY <1>3, <2>1, GoesOn
  <2>. QED
    BY <1>1, <2>2 DEF Sound
<1>5. CASE BeginStart
  <2>. DEFINE next == FirstOf(part)
  <2>1. Goto(next, i)
    BY <1>5 DEF BeginStart
  <2>2. /\ next \in {"insert", "delete", "promote", "meet", "join"}
        /\ next = "insert" => part = "stats"
        /\ next = "delete" => part = "ladder"
        /\ next = "promote" => part = "ranks"
        /\ next = "meet" => part = "friends"
        /\ next = "join" => part = "clan"
    BY <1>3 DEF FirstOf, Parts
  <2>. HIDE DEF next
  <2>3. next = "insert" => i \in DOMAIN report
    BY <1>3, <2>2, FirstPlayer
  <2>4. ProgressTyped' /\ Stages'
    BY <1>3, <2>1, <2>2, <2>3, GoesOn
  <2>. QED
    BY <1>1, <2>4 DEF Sound
<1>. QED
  BY <1>4, <1>5

\* rows, totals and awards are written,
LEMMA StatsKeep ==
    ASSUME Sound, Insert \/ Update \/ Award
    PROVE  Sound'
<1>. USE DEF Statements
<1>1. /\ part = "stats" /\ i \in DOMAIN report /\ at # "idle"
      /\ i \in Nat \ {0} /\ Len(report) \in Nat /\ DOMAIN report = 1 .. Len(report)
  BY DEF Insert, Update, Award, Sound, ProgressTyped, Stages
<1>2. \E new \in Tables : Write(new)
  <2>1. CASE Insert
    BY <1>1, <2>1, Inserted DEF Insert, NewRow
  <2>2. CASE Update
    BY <1>1, <2>2, Updated DEF Update
  <2>3. CASE Award
    BY <1>1, <2>3, Awarded DEF Award
  <2>. QED
    BY <2>1, <2>2, <2>3
<1>3. /\ SessionTypeOK' /\ SessionAgrees' /\ TablesTyped'
      /\ faults' \in 0 .. MaxFaults /\ bare' \in BOOLEAN
  BY <1>2, Written
<1>4. \E next \in {"update", "award", "insert", "commit"}, index \in Nat \ {0} :
         Goto(next, index) /\ (next # "commit" => index \in DOMAIN report)
  <2>1. CASE Insert
    BY <1>1, <2>1 DEF Insert
  <2>2. CASE Update
    BY <1>1, <2>2 DEF Update
  <2>3. CASE Award
    <3>1. CASE i < Len(report)
      BY <1>1, <2>3, <3>1 DEF Award
    <3>2. CASE ~(i < Len(report))
      BY <1>1, <2>3, <3>2 DEF Award
    <3>. QED
      BY <3>1, <3>2
  <2>. QED
    BY <2>1, <2>2, <2>3
<1>5. ProgressTyped' /\ Stages'
  BY <1>1, <1>3, <1>4, GoesOn
<1>. QED
  BY <1>3, <1>5 DEF Sound

\* the ladder is emptied and filled,
LEMMA LadderKeeps ==
    ASSUME Sound, DeleteLadder \/ FillLadder
    PROVE  Sound'
<1>. USE DEF Statements
<1>1. part = "ladder" /\ at # "idle" /\ i \in Nat \ {0}
  BY DEF DeleteLadder, FillLadder, Sound, ProgressTyped, Stages
<1>2. \E new \in Tables : Write(new)
  <2>1. CASE DeleteLadder
    BY <2>1, Cleared DEF DeleteLadder
  <2>2. ASSUME NEW p \in Best(work.ladder, work.rows, today),
               Write([work EXCEPT !.ladder = Append(@, Entry(p, work.rows, today))])
        PROVE  \E new \in Tables : Write(new)
    <3>1. p \in Profiles
      BY DEF Best, Remaining
    <3>. QED
      BY <2>2, <3>1, Filled
  <2>3. ASSUME Write(work)
        PROVE  \E new \in Tables : Write(new)
    BY <2>3 DEF Sound, TablesTyped
  <2>. QED
    BY <2>1, <2>2, <2>3 DEF FillLadder
<1>4. \E next \in {"fill", "commit"}, index \in Nat \ {0} : Goto(next, index)
  BY <1>1 DEF DeleteLadder, FillLadder
<1>3. /\ SessionTypeOK' /\ SessionAgrees' /\ TablesTyped'
      /\ faults' \in 0 .. MaxFaults /\ bare' \in BOOLEAN
  BY <1>2, Written
<1>5. ProgressTyped' /\ Stages'
  BY <1>1, <1>3, <1>4, GoesOn
<1>. QED
  BY <1>3, <1>5 DEF Sound

\* a pair is counted,
LEMMA MeetKeeps ==
    ASSUME Sound, Meet
    PROVE  Sound'
<1>. USE DEF Statements
<1>1. part = "friends" /\ at # "idle" /\ i \in Nat \ {0}
  BY DEF Meet, Sound, ProgressTyped, Stages
<1>2. /\ SessionTypeOK' /\ SessionAgrees' /\ TablesTyped'
      /\ faults' \in 0 .. MaxFaults /\ bare' \in BOOLEAN
  <2>1. CASE Meets(i)
    <3>1. Pair(i) \in Profiles \X Profiles
      BY <1>1, <2>1, PairTyped DEF Meets
    <3>2. Write([work EXCEPT !.met[Pair(i)] = @ + 1])
      BY <2>1 DEF Meet
    <3>. QED
      BY <3>1, <3>2, MetAgain, Written
  <2>2. CASE ~Meets(i)
    <3>1. UNCHANGED <<session, faults, bare>>
      BY <2>2 DEF Meet
    <3>. QED
      BY <3>1, SessionKept DEF Sound, ProgressTyped
  <2>. QED
    BY <2>1, <2>2
<1>3. \E next \in {"meet", "commit"}, index \in Nat \ {0} : Goto(next, index)
  BY <1>1 DEF Meet
<1>4. ProgressTyped' /\ Stages'
  BY <1>1, <1>2, <1>3, GoesOn
<1>. QED
  BY <1>2, <1>4 DEF Sound

\* a player joins a clan,
LEMMA JoinKeeps ==
    ASSUME Sound, JoinClan \/ JoinRank \/ ReadName
    PROVE  Sound'
<1>. USE DEF Statements
<1>1. part = "clan" /\ at # "idle" /\ i \in Nat \ {0}
  BY DEF JoinClan, JoinRank, ReadName, Sound, ProgressTyped, Stages
<1>2. /\ SessionTypeOK' /\ SessionAgrees' /\ TablesTyped'
      /\ faults' \in 0 .. MaxFaults /\ bare' \in BOOLEAN
  <2>1. CASE JoinClan
    BY <2>1, Joined, Written DEF JoinClan
  <2>2. CASE JoinRank
    BY <2>2, Joined, Written DEF JoinRank
  <2>3. CASE ReadName
    BY <2>3, Queried DEF ReadName, Sound, ProgressTyped
  <2>. QED
    BY <2>1, <2>2, <2>3
<1>3. \E next \in {"joinrank", "name", "commit"} : Goto(next, i)
  BY DEF JoinClan, JoinRank, ReadName
<1>4. ProgressTyped' /\ Stages'
  BY <1>1, <1>2, <1>3, GoesOn
<1>. QED
  BY <1>2, <1>4 DEF Sound

\* What a player's rank is found to be.
LEMMA RankFound ==
    ASSUME Sound, Rank
    PROVE  /\ part = "ranks" /\ at = "rank" /\ i \in DOMAIN report /\ i \in Nat \ {0}
           /\ UNCHANGED <<faults, bare>> /\ Execute(work)
           /\ \/ NextPlayer
              \/ \E perc \in Percents(Position(Player.profile, work.ladder), Len(work.ladder)) :
                    LET better == NewRank(work.rank[Player.profile], work.total[Player.profile], perc)
                    IN  /\ better # work.rank[Player.profile] /\ better \in Ranks
                        /\ at' = "test" /\ rising' = better
                        /\ UNCHANGED <<part, i, report, today, reports>>
<1>. DEFINE p == Player.profile
            better(perc) == NewRank(work.rank[p], work.total[p], perc)
<1>1. part = "ranks" /\ at = "rank" /\ i \in DOMAIN report /\ i \in Nat \ {0}
  BY DEF Rank, Sound, Stages, ProgressTyped
<1>2. p \in Profiles
  BY <1>1, PlayerTyped
<1>. HIDE DEF p
<1>3. work.rank[p] \in Ranks
  BY <1>2 DEF Sound, TablesTyped, Tables
<1>4. \A perc : better(perc) \in Ranks
  BY <1>3, RankIsEarned
<1>. QED
  BY <1>1, <1>4 DEF Rank, p

\* a player's rank is found, and written,
LEMMA RankKeeps ==
    ASSUME Sound, Rank \/ Promote
    PROVE  Sound'
<1>. USE DEF Statements
<1>1. CASE Rank
  <2>1. SessionTypeOK' /\ SessionAgrees' /\ TablesTyped'
    BY <1>1, RankFound, Queried
  <2>2. faults' \in 0 .. MaxFaults /\ bare' \in BOOLEAN
    BY <1>1, RankFound DEF Sound, ProgressTyped
  <2>3. CASE NextPlayer
    BY <1>1, <2>1, <2>2, <2>3, RankFound, PlayerIsNext DEF Sound
  <2>4. CASE at' = "test" /\ rising' \in Ranks /\ UNCHANGED <<part, i, report, today, reports>>
    <3>1. ProgressTyped'
      BY <2>2, <2>4 DEF Sound, ProgressTyped
    <3>2. Stages'
      BY <1>1, <2>4, RankFound DEF Sound, Stages
    <3>. QED
      BY <2>1, <3>1, <3>2 DEF Sound
  <2>. QED
    BY <1>1, <2>3, <2>4, RankFound
<1>2. CASE Promote
  <2>1. part = "ranks" /\ i \in DOMAIN report /\ at # "idle" /\ i \in Nat \ {0} /\ rising \in Ranks
    BY <1>2 DEF Promote, Sound, Stages, ProgressTyped
  <2>2. Player.profile \in Profiles
    BY <2>1, PlayerTyped
  <2>3. /\ SessionTypeOK' /\ SessionAgrees' /\ TablesTyped'
        /\ faults' \in 0 .. MaxFaults /\ bare' \in BOOLEAN
    BY <1>2, <2>1, <2>2, Ranked, Written DEF Promote
  <2>4. Goto("commit", i)
    BY <1>2 DEF Promote
  <2>5. ProgressTyped' /\ Stages'
    BY <2>1, <2>3, <2>4, GoesOn
  <2>. QED
    BY <2>3, <2>5 DEF Sound
<1>. QED
  BY <1>1, <1>2

\* a transaction is committed,
LEMMA CommitKeeps ==
    ASSUME Sound, CommitFirst \/ CommitSecond
    PROVE  Sound'
<1>. USE DEF Statements
<1>1. SessionTypeOK' /\ SessionAgrees' /\ TablesTyped'
  BY SessionKept DEF CommitFirst, CommitSecond
<1>2. at \in {"commit", "auto1"} /\ UNCHANGED <<faults, bare>>
  BY DEF CommitFirst, CommitSecond
<1>3. /\ at # "idle" /\ i \in Nat \ {0}
      /\ faults' \in 0 .. MaxFaults /\ bare' \in BOOLEAN
  BY <1>2 DEF Sound, ProgressTyped
<1>4. ProgressTyped' /\ Stages'
  <2>1. CASE CommitFirst
    BY <1>3, <2>1, GoesOn DEF CommitFirst
  <2>2. CASE CommitSecond
    BY <1>3, <2>2, TransactionEnds DEF CommitSecond
  <2>. QED
    BY <2>1, <2>2
<1>. QED
  BY <1>1, <1>4 DEF Sound

\* or fails and is rolled back,
LEMMA FailKeeps ==
    ASSUME Sound, Fail \/ RollbackTransaction
    PROVE  Sound'
<1>. USE DEF Statements
<1>1. /\ FailsOnLink \/ UNCHANGED session \/ Rollback
      /\ faults' \in 0 .. MaxFaults /\ UNCHANGED bare
      /\ at # "idle"
  BY Refused DEF Fail, RollbackTransaction, Sound, ProgressTyped
<1>2. SessionTypeOK' /\ SessionAgrees' /\ TablesTyped'
  BY <1>1, SessionKept
<1>3. bare' \in BOOLEAN /\ i \in Nat \ {0}
  BY <1>1 DEF Sound, ProgressTyped
<1>4. ProgressTyped' /\ Stages'
  <2>1. CASE Fail /\ Ended
    BY <1>1, <1>3, <2>1, Ends
  <2>2. CASE Fail /\ Goto("rollback", i)
    BY <1>1, <1>3, <2>2, GoesOn
  <2>3. CASE RollbackTransaction
    BY <1>1, <1>3, <2>3, TransactionEnds DEF RollbackTransaction
  <2>. QED
    BY <2>1, <2>2, <2>3 DEF Fail
<1>. QED
  BY <1>2, <1>4 DEF Sound

\* and the connection is lost, or the process dies.
LEMMA WorldKeeps ==
    ASSUME Sound, Lose \/ Crash
    PROVE  Sound'
<1>1. SessionTypeOK' /\ SessionAgrees' /\ TablesTyped'
  BY SessionKept DEF Lose, Crash
<1>2. UNCHANGED bare /\ faults' \in 0 .. MaxFaults
  BY MatchAssumption DEF Lose, Crash, Sound, ProgressTyped
<1>3. ProgressTyped' /\ Stages'
  <2>1. CASE Lose
    BY <1>2, <2>1 DEF Lose, progress, Sound, ProgressTyped, Stages
  <2>2. CASE Crash
    BY <1>2, <2>2, Ends DEF Crash, Sound, ProgressTyped
  <2>. QED
    BY <2>1, <2>2
<1>. QED
  BY <1>1, <1>3 DEF Sound

\* All of these together.
LEMMA SoundKept == Sound /\ [MatchNext]_matchVars => Sound'
<1>. SUFFICES ASSUME Sound, [MatchNext]_matchVars PROVE Sound'
  OBVIOUS
<1>1. CASE UNCHANGED matchVars
  <2>1. UNCHANGED session /\ UNCHANGED <<at, part, i, rising, report, today, reports, faults, bare>>
    BY <1>1 DEF matchVars, progress
  <2>2. SessionTypeOK' /\ SessionAgrees' /\ TablesTyped'
    BY <2>1, SessionKept
  <2>3. ProgressTyped' /\ Stages'
    BY <2>1 DEF Sound, ProgressTyped, Stages
  <2>. QED
    BY <2>2, <2>3 DEF Sound
<1>. QED
  BY <1>1, ReportKeeps, TestKeeps, BeginKeeps, StatsKeep, LadderKeeps, MeetKeeps, JoinKeeps, RankKeeps,
     CommitKeeps, FailKeeps, WorldKeeps DEF MatchNext


-----------------------------------------------------------------------------
(* The tables when the model starts *)

\* The matches from before the server was started, whose ids are negative.
LEMMA PastTyped ==
    /\ Past \in SUBSET Row
    /\ \A r \in Past : r.id < 0
    /\ \A p \in Profiles : IsFiniteSet(RowsOf(p, Past))
<1>. DEFINE Game(p, k) == [id |-> 0 - k, profile |-> p, day |-> 0, score |-> History[p][k], won |-> FALSE]
<1>1. ASSUME NEW p \in Profiles
      PROVE  Len(History[p]) \in Nat /\ History[p] \in [1 .. Len(History[p]) -> Nat]
  BY MatchAssumption
<1>2. ASSUME NEW p \in Profiles, NEW k \in DOMAIN History[p]
      PROVE  Game(p, k) \in Row /\ Game(p, k).id < 0 /\ Game(p, k).profile = p
  <2>1. k \in Nat \ {0} /\ History[p][k] \in Nat
    BY <1>1
  <2>. QED
    BY <2>1 DEF Row
<1>. HIDE DEF Game
<1>3. Past = UNION {{Game(p, k) : k \in DOMAIN History[p]} : p \in Profiles}
  BY DEF Past, Game
<1>4. Past \in SUBSET Row /\ \A r \in Past : r.id < 0
  BY <1>2, <1>3
<1>5. ASSUME NEW p \in Profiles
      PROVE  IsFiniteSet(RowsOf(p, Past))
  <2>. DEFINE n == Len(History[p])
              f == [k \in 1 .. n |-> Game(p, k)]
  <2>1. RowsOf(p, Past) = {Game(p, k) : k \in 1 .. n}
    BY <1>1, <1>2, <1>3 DEF RowsOf
  <2>2. f \in Surjection(1 .. n, RowsOf(p, Past))
    BY <2>1 DEF Surjection
  <2>4. n \in Int /\ 1 \in Int
    BY <1>1
  <2>3. IsFiniteSet(1 .. n)
    BY <2>4, FS_Interval, Zenon
  <2>. HIDE DEF f, n
  <2>. QED
    BY <2>2, <2>3, FS_Surjection
<1>. QED
  BY <1>4, <1>5

\* A total is a number.
LEMMA TotalTyped ==
    ASSUME NEW S \in SUBSET Row, IsFiniteSet(S)
    PROVE  Total(S) \in Int
<1>1. \A r \in S : r.score \in Int
  BY DEF Row
<1>2. PICK f : SumsUp(f, S)
  BY SumExists
<1>3. SumsUp(CHOOSE g : SumsUp(g, S), S)
  BY <1>2
<1>. QED
  BY <1>1, <1>3, SumTakes, TotalSumsUp

\* The server is started on tables that agree with each other.
LEMMA MatchBegins ==
    ASSUME MatchInit
    PROVE  /\ Sound
           /\ stored = work
           /\ stored.rows = Past
           /\ \A p \in Profiles : /\ stored.total[p] = Total(RowsOf(p, Past))
                                  /\ stored.awards[p] = stored.total[p]
                                  /\ \A q \in Profiles : stored.met[<<p, q>>] = 0
           /\ stored.ladder \in Ladders(Past, 0)
           /\ stored.clan = stored.clanrank
<1>. DEFINE sums == [p \in Profiles |-> Total(RowsOf(p, Past))]
            ranks == [p \in Profiles |-> NewRank(0, sums[p], 0)]
            nobody == [q \in Profiles \X Profiles |-> 0]
<1>1. PICK ladder \in Ladders(Past, 0) :
         Connected([rows |-> Past, total |-> sums, awards |-> sums, ladder |-> ladder,
                    rank |-> ranks, met |-> nobody, clan |-> FALSE, clanrank |-> FALSE])
  BY DEF MatchInit
<1>2. sums \in [Profiles -> Int]
  <2>1. \A p \in Profiles : RowsOf(p, Past) \in SUBSET Row
    BY PastTyped DEF RowsOf
  <2>. QED
    BY <2>1, PastTyped, TotalTyped
<1>3. ranks \in [Profiles -> Ranks]
  BY RankIsEarned, TopRank
<1>4. nobody \in [Profiles \X Profiles -> Nat]
  OBVIOUS
<1>5. \A p \in Profiles : sums[p] = Total(RowsOf(p, Past)) /\ \A q \in Profiles : nobody[<<p, q>>] = 0
  OBVIOUS
<1>6. ladder \in Seq(Place)
  <2>. DEFINE listed == Remaining(<<>>, Past, 0)
  <2>1. listed \in SUBSET Profiles
    BY DEF Remaining
  <2>2. Cardinality(listed) \in Nat
    BY <2>1, MatchAssumption, FS_Subset, FS_CardinalityType
  <2>3. {Entry(p, Past, 0) : p \in listed} \in SUBSET Place
    BY <2>1, PastTyped, RowsTyped
  <2>4. ladder \in [1 .. Cardinality(listed) -> {Entry(p, Past, 0) : p \in listed}]
    BY <1>1 DEF Ladders
  <2>. HIDE DEF listed
  <2>5. ladder \in [1 .. Cardinality(listed) -> Place]
    BY <2>3, <2>4
  <2>. QED
    BY <2>2, <2>5
<1>. HIDE DEF sums, ranks, nobody
<1>7. TablesTyped
  BY <1>1, <1>2, <1>3, <1>4, <1>6, PastTyped DEF TablesTyped, Tables, Connected
<1>8. SessionTypeOK /\ SessionAgrees /\ stored = work
  BY <1>1 DEF SessionTypeOK, SessionAgrees, Connected, MatchInit
<1>9. ProgressTyped
  <2>1. 0 \in 0 .. MaxDay /\ 0 \in 0 .. MaxReports /\ 0 \in 0 .. MaxFaults
    BY MatchAssumption
  <2>2. <<>> \in Seq(Mark)
    OBVIOUS
  <2>3. /\ at = "idle" /\ part = "stats" /\ i = 1 /\ rising = 0 /\ report = <<>>
        /\ today = 0 /\ reports = 0 /\ faults = 0
        /\ bare = FALSE
    BY DEF MatchInit
  <2>4. at \in Statements /\ part \in Parts /\ bare \in BOOLEAN
    BY <2>3 DEF Statements, Parts
  <2>5. i \in Nat \ {0} /\ report \in Seq(Mark) /\ rising \in Ranks
    BY <2>2, <2>3, TopRank
  <2>6. today \in 0 .. MaxDay /\ reports \in 0 .. MaxReports /\ faults \in 0 .. MaxFaults
    BY <2>1, <2>3
  <2>. QED
    BY <2>4, <2>5, <2>6 DEF ProgressTyped
<1>10. Stages
  BY DEF MatchInit, Stages
<1>12. stored.rows = Past /\ stored.total = sums /\ stored.awards = sums /\ stored.met = nobody
       /\ stored.ladder = ladder /\ stored.clan = stored.clanrank
  BY <1>1 DEF Connected
<1>. QED
  BY <1>5, <1>7, <1>8, <1>9, <1>10, <1>12 DEF Sound

\* The first layer of the invariant holds in every reachable state.
LEMMA AlwaysSound == MatchSpec => []Sound
<1>1. MatchInit => Sound
  BY MatchBegins
<1>. QED
  BY <1>1, SoundKept, PTL DEF MatchSpec

\* The session and the handler are of their types, and every rank is one.
THEOREM ReportTypeCorrect == MatchSpec => []MatchTypeOK
<1>1. Sound => MatchTypeOK
  BY DEF Sound, TablesTyped, Tables, ProgressTyped, Stages, MatchTypeOK
<1>. QED
  BY AlwaysSound, <1>1, PTL

-----------------------------------------------------------------------------
(* What a step does to the tables.  Statistics are written by three        *)
(* actions, the ladder and clans by two others each, and one each writes   *)
(* ranks and counts who has met.                                           *)

Stats(T) == <<T.rows, T.total, T.awards>>

Rest(old, new) ==
    /\ ~(Insert \/ Update \/ Award) => Stats(new) = Stats(old)
    /\ ~(DeleteLadder \/ FillLadder) => new.ladder = old.ladder
    /\ ~Meet => new.met = old.met
    /\ ~Promote => new.rank = old.rank
    /\ ~(JoinClan \/ JoinRank) => Clan(new) = Clan(old)
    /\ new.rows \in {old.rows, old.rows \union {NewRow}}

\* Nothing gets into the tables but by such a write.
LEMMA StepForms ==
    ASSUME Sound, [MatchNext]_matchVars
    PROVE  \E new : /\ stored' \in {stored, work, new} /\ work' \in {stored, work, new}
                    /\ Rest(work, new)
<1>. DEFINE Goal == \E new : /\ stored' \in {stored, work, new} /\ work' \in {stored, work, new}
                             /\ Rest(work, new)
<1>1. SessionTypeOK /\ SessionAgrees
  BY DEF Sound
<1>2. Rest(work, work)
  BY DEF Rest
<1>3. ASSUME \/ Touch \/ SetAutocommitOff \/ FailsOnLink \/ UNCHANGED session
             \/ StartTransaction \/ Commit \/ SetAutocommitOn \/ Rollback \/ LinkLost \/ NewSession
      PROVE  Goal
  BY <1>1, <1>2, <1>3, QuietStep, BoundaryStep
<1>4. ASSUME NEW new, Execute(new), Rest(work, new)
      PROVE  Goal
  BY <1>1, <1>4, WriteStep
<1>5. ASSUME NEW new, Write(new), Rest(work, new)
      PROVE  Goal
  BY <1>4, <1>5 DEF Write
<1>6. i \in DOMAIN report => Player.profile \in Profiles
  BY PlayerTyped
<1>7. CASE UNCHANGED matchVars
  BY <1>3, <1>7 DEF matchVars
<1>8. CASE Report \/ TestDatabase \/ Join \/ BeginOff \/ BeginStart \/ CommitFirst \/ CommitSecond
           \/ RollbackTransaction \/ Lose \/ Crash
  BY <1>3, <1>8 DEF Report, TestDatabase, Join, BeginOff, BeginStart, CommitFirst, CommitSecond,
                    RollbackTransaction, Lose, Crash
<1>9. CASE Fail
  BY <1>3, <1>9 DEF Fail, Refuse
<1>10. CASE Insert
  <2>1. i \in DOMAIN report /\ Write([work EXCEPT !.rows = @ \union {NewRow}])
    BY <1>10 DEF Insert, NewRow, Sound, Stages
  <2>2. LET new == [work EXCEPT !.rows = @ \union {NewRow}] IN Rest(work, new)
    BY <1>10, <2>1, Inserted DEF Rest
  <2>. QED
    BY <1>5, <2>1, <2>2
<1>11. CASE Update
  <2>1. i \in DOMAIN report /\ Write([work EXCEPT !.total[Player.profile] = @ + Player.score])
    BY <1>11 DEF Update, Sound, Stages
  <2>2. LET new == [work EXCEPT !.total[Player.profile] = @ + Player.score] IN Rest(work, new)
    BY <1>11, <2>1, Updated DEF Rest
  <2>. QED
    BY <1>5, <2>1, <2>2
<1>12. CASE Award
  <2>1. i \in DOMAIN report /\ Write([work EXCEPT !.awards[Player.profile] = work.total[Player.profile]])
    BY <1>12 DEF Award, Sound, Stages
  <2>2. LET new == [work EXCEPT !.awards[Player.profile] = work.total[Player.profile]] IN Rest(work, new)
    BY <1>12, <2>1, Awarded DEF Rest
  <2>. QED
    BY <1>5, <2>1, <2>2
<1>13. CASE DeleteLadder
  <2>1. Write([work EXCEPT !.ladder = <<>>])
    BY <1>13 DEF DeleteLadder
  <2>2. LET new == [work EXCEPT !.ladder = <<>>] IN Rest(work, new)
    BY <1>13, Cleared DEF Rest, Stats
  <2>. QED
    BY <1>5, <2>1, <2>2
<1>14. CASE FillLadder
  <2>1. CASE Write(work)
    BY <1>2, <1>5, <2>1
  <2>2. ASSUME NEW p \in Best(work.ladder, work.rows, today),
               Write([work EXCEPT !.ladder = Append(@, Entry(p, work.rows, today))])
        PROVE  Goal
    <3>1. p \in Profiles
      BY DEF Best, Remaining
    <3>2. LET new == [work EXCEPT !.ladder = Append(@, Entry(p, work.rows, today))] IN Rest(work, new)
      BY <1>14, <3>1, Filled DEF Rest, Stats
    <3>. QED
      BY <1>5, <2>2, <3>2
  <2>. QED
    BY <1>14, <2>1, <2>2 DEF FillLadder
<1>15. CASE Rank \/ ReadName
  BY <1>2, <1>4, <1>15, RankFound DEF ReadName
<1>18. CASE Promote
  <2>1. i \in DOMAIN report /\ rising \in Ranks /\ Write([work EXCEPT !.rank[Player.profile] = rising])
    BY <1>18 DEF Promote, Sound, Stages, ProgressTyped
  <2>2. LET new == [work EXCEPT !.rank[Player.profile] = rising] IN Rest(work, new)
    BY <1>6, <1>18, <2>1, Ranked DEF Rest, Stats
  <2>. QED
    BY <1>5, <2>1, <2>2
<1>16. CASE Meet
  <2>1. CASE Meets(i)
    <3>1. Pair(i) \in Profiles \X Profiles
      BY <2>1, PairTyped DEF Meets, Sound, ProgressTyped
    <3>2. Write([work EXCEPT !.met[Pair(i)] = @ + 1])
      BY <1>16, <2>1 DEF Meet
    <3>3. LET new == [work EXCEPT !.met[Pair(i)] = @ + 1] IN Rest(work, new)
      BY <1>16, <3>1, MetAgain DEF Rest, Stats
    <3>. QED
      BY <1>5, <3>2, <3>3
  <2>2. CASE ~Meets(i)
    BY <1>3, <1>16, <2>2 DEF Meet
  <2>. QED
    BY <2>1, <2>2
<1>17. CASE JoinClan
  <2>1. LET new == [work EXCEPT !.clan = TRUE] IN Rest(work, new)
    BY <1>17, Joined DEF Rest, Stats
  <2>. QED
    BY <1>5, <1>17, <2>1 DEF JoinClan
<1>19. CASE JoinRank
  <2>1. LET new == [work EXCEPT !.clanrank = TRUE] IN Rest(work, new)
    BY <1>19, Joined DEF Rest, Stats
  <2>. QED
    BY <1>5, <1>19, <2>1 DEF JoinRank
<1>. QED
  BY <1>7, <1>8, <1>9, <1>10, <1>11, <1>12, <1>13, <1>14, <1>15, <1>16, <1>17, <1>18, <1>19 DEF MatchNext

\* So what is the same in both tables stays so but for those writes.
LEMMA Untouched ==
    ASSUME Sound, [MatchNext]_matchVars
    PROVE  /\ Stats(work) = Stats(stored) /\ ~(Insert \/ Update \/ Award)
                => Stats(work') = Stats(stored) /\ Stats(stored') = Stats(stored)
           /\ work.ladder = stored.ladder /\ ~(DeleteLadder \/ FillLadder)
                => work'.ladder = stored.ladder /\ stored'.ladder = stored.ladder
           /\ work.met = stored.met /\ ~Meet
                => work'.met = stored.met /\ stored'.met = stored.met
           /\ work.rank = stored.rank /\ ~Promote
                => work'.rank = stored.rank /\ stored'.rank = stored.rank
           /\ Clan(work) = Clan(stored) /\ ~(JoinClan \/ JoinRank)
                => Clan(work') = Clan(stored) /\ Clan(stored') = Clan(stored)
BY StepForms DEF Rest

-----------------------------------------------------------------------------
(* Ranks, and what is left pending *)

\* The place of a listed player is one of the ladder.
LEMMA PlaceTyped ==
    ASSUME NEW p, NEW ladder \in Seq(Place)
    PROVE  Position(p, ladder) \in 0 .. Len(ladder) /\ Len(ladder) \in Nat
<1>. DEFINE places == {k \in DOMAIN ladder : ladder[k].profile = p}
<1>1. Len(ladder) \in Nat /\ DOMAIN ladder = 1 .. Len(ladder)
  OBVIOUS
<1>2. places \in SUBSET (0 .. Len(ladder))
  BY <1>1
<1>3. Position(p, ladder) = IF places = {} THEN 0 ELSE Max(places)
  BY DEF Position
<1>4. places # {} => Max(places) \in places
  BY <1>1, <1>2, Greatest
<1>. QED
  BY <1>1, <1>2, <1>3, <1>4

\* The percentage a rank takes means a place in the best part of the ladder.
LEMMA PercentsMean ==
    ASSUME NEW count \in Nat, NEW place \in 1 .. count, NEW perc \in Percents(place, count),
           NEW least \in Nat, perc >= least
    PROVE  200 * place < (201 - 2 * least) * count
<1>. DEFINE d == (200 * place + count) \div (2 * count)
            rest == (200 * place + count) % (2 * count)
<1>1. count \in Nat \ {0} /\ perc = 100 - d
  BY DEF Percents
<1>2. 2 * count \in Nat \ {0} /\ 200 * place + count \in Nat
  BY <1>1
<1>3. \A m \in Nat \ {0}, j \in Nat :
         /\ j \div m \in Nat /\ j % m \in 0 .. m - 1
         /\ j = m * (j \div m) + (j % m)
  BY Division
<1>4. d \in Nat /\ rest \in 0 .. 2 * count - 1 /\ 200 * place + count = 2 * count * d + rest
  BY <1>2, <1>3, Zenon
<1>. HIDE DEF d, rest
<1>5. d <= 100 - least
  BY <1>1, <1>4
<1>6. 200 * place < 2 * count * d + count
  BY <1>1, <1>4
<1>7. count * d <= count * (100 - least)
  BY <1>1, <1>4, <1>5
<1>8. 2 * (count * (100 - least)) + count = (201 - 2 * least) * count
  BY <1>1
<1>9. 2 * count * d = 2 * (count * d)
  BY <1>1, <1>4
<1>. QED
  BY <1>1, <1>4, <1>6, <1>7, <1>8, <1>9

\* What RanksAreEarned says of a rank that player p is to have.
Merits(p, rank) ==
    LET place == Position(p, stored.ladder)
    IN  /\ rank > stored.rank[p]
        /\ stored.total[p] >= RankScore[rank]
        /\ rank >= 10 =>
            \/ place = 0
            \/ 200 * place < (201 - 2 * RankPerc[rank]) * Len(stored.ladder)

\* Where no transaction has begun, everything is stored.
AllStored == at \in {"idle", "test", "auto0", "start", "rank"} => work = stored

\* From where a rank is found until it is stored, the player is entitled to it.
RankUnderway ==
    /\ work.rank = stored.rank \/ (part = "ranks" /\ at = "commit")
    /\ part = "ranks" /\ at \in {"test", "auto0", "start", "promote"} =>
           Merits(Player.profile, rising)
    /\ part = "ranks" /\ at = "commit" /\ work.rank # stored.rank =>
           /\ Merits(Player.profile, rising)
           /\ work.rank = [stored.rank EXCEPT ![Player.profile] = rising]

RanksSound == AllStored /\ RankUnderway

\* The rank that is found has been earned.
LEMMA FoundIsEarned ==
    ASSUME Sound, work = stored, i \in DOMAIN report,
           NEW perc \in Percents(Position(Player.profile, stored.ladder), Len(stored.ladder)),
           NEW r, r = NewRank(stored.rank[Player.profile], stored.total[Player.profile], perc),
           r # stored.rank[Player.profile]
    PROVE  Merits(Player.profile, r)
<1>. DEFINE player == Player.profile
            place == Position(player, stored.ladder)
            count == Len(stored.ladder)
            old == stored.rank[player]
<1>1. player \in Profiles /\ stored \in Tables
  BY PlayerTyped DEF Sound, TablesTyped
<1>2. old \in Ranks
  BY <1>1 DEF Tables
<1>3. /\ r \in Ranks /\ r >= old
      /\ \A k \in old + 1 .. r : stored.total[player] >= RankScore[k] /\ perc >= RankPerc[k]
  BY <1>2, RankIsEarned
<1>4. place \in 0 .. count /\ count \in Nat
  <2>1. stored.ladder \in Seq(Place)
    BY <1>1 DEF Tables
  <2>. QED
    BY <2>1, PlaceTyped
<1>5. r > old /\ r \in 1 .. 18 /\ r \in old + 1 .. r
  <2>1. old \in 0 .. 18 /\ r \in 0 .. 18 /\ r >= old /\ r # old
    BY <1>2, <1>3, TopRank
  <2>. HIDE DEF old
  <2>. QED
    BY <2>1
<1>6. stored.total[player] >= RankScore[r] /\ perc >= RankPerc[r]
  BY <1>3, <1>5
<1>7. RankPerc[r] \in Nat
  <2>1. RankPerc \in Seq(Nat) /\ Len(RankPerc) = 18
    BY DEF RankPerc
  <2>2. \A s \in Seq(Nat) : s \in [1 .. Len(s) -> Nat]
    OBVIOUS
  <2>3. RankPerc \in [1 .. 18 -> Nat]
    BY <2>1, <2>2, Zenon
  <2>. QED
    BY <1>5, <2>3
<1>8. place # 0 => 200 * place < (201 - 2 * RankPerc[r]) * count
  <2>1. perc \in Percents(place, count)
    OBVIOUS
  <2>. HIDE DEF place, count
  <2>2. place # 0 => place \in 1 .. count
    BY <1>4
  <2>. QED
    BY <1>4, <1>6, <1>7, <2>1, <2>2, PercentsMean
<1>. QED
  BY <1>5, <1>6, <1>8 DEF Merits

\* Where a step leaves everything stored and no rank to be written, all is well;
LEMMA LevelKeeps ==
    ASSUME work' = stored',
           ~(part' = "ranks" /\ at' \in {"test", "auto0", "start", "promote"})
    PROVE  RanksSound'
BY DEF RanksSound, AllStored, RankUnderway

\* and where it goes on to write one without touching a table.
LEMMA WaitingKeeps ==
    ASSUME RanksSound, stored' = stored, work' = stored, UNCHANGED <<part, i, rising, report>>,
           part = "ranks" /\ at' \in {"test", "auto0", "start", "promote"} =>
               at \in {"test", "auto0", "start", "promote"}
    PROVE  RanksSound'
<1>1. /\ part' = part /\ rising' = rising /\ Player' = Player /\ work'.rank = stored'.rank
      /\ \A r : Merits(Player.profile, r) => Merits(Player.profile, r)'
  BY DEF Player, Merits
<1>2. AllStored'
  BY DEF AllStored
<1>3. RankUnderway'
  BY <1>1 DEF RanksSound, RankUnderway
<1>. QED
  BY <1>2, <1>3 DEF RanksSound

\* The steps of a player's rank keep this layer of the invariant,
LEMMA RankingKeeps ==
    ASSUME Sound, RanksSound, Rank \/ Promote
    PROVE  RanksSound'
<1>1. CASE Rank /\ NextPlayer
  <2>1. work = stored /\ work' = work /\ stored' \in {stored, work}
    BY <1>1, RankFound, Queried DEF RanksSound, AllStored
  <2>2. at' = "rank" \/ part' = "friends"
    BY <1>1, RankFound, PlayerIsNext DEF NextPlayer, GotoPart
  <2>. QED
    BY <2>1, <2>2, LevelKeeps
<1>2. CASE Rank /\ ~NextPlayer
  <2>1. PICK perc \in Percents(Position(Player.profile, work.ladder), Len(work.ladder)) :
           LET better == NewRank(work.rank[Player.profile], work.total[Player.profile], perc)
           IN  /\ better # work.rank[Player.profile]
               /\ at' = "test" /\ rising' = better
               /\ UNCHANGED <<part, i, report, today, reports>>
    BY <1>2, RankFound
  <2>2. work = stored /\ work' = work /\ stored' = stored /\ i \in DOMAIN report
    BY <1>2, RankFound, Queried DEF RanksSound, AllStored
  <2>3. Merits(Player.profile, rising')
    BY <2>1, <2>2, FoundIsEarned
  <2>4. Player' = Player /\ (Merits(Player.profile, rising') => Merits(Player.profile, rising)')
    BY <2>1, <2>2 DEF Player, Merits
  <2>. QED
    BY <2>1, <2>2, <2>3, <2>4 DEF RanksSound, AllStored, RankUnderway
<1>3. CASE Promote
  <2>1. /\ part = "ranks" /\ i \in DOMAIN report /\ rising \in Ranks /\ at = "promote"
        /\ Write([work EXCEPT !.rank[Player.profile] = rising]) /\ Goto("commit", i)
    BY <1>3 DEF Promote, Sound, Stages, ProgressTyped
  <2>2. Player.profile \in Profiles /\ work.rank = stored.rank /\ Merits(Player.profile, rising)
    BY <2>1, PlayerTyped DEF RanksSound, RankUnderway
  <2>. DEFINE new == [work EXCEPT !.rank[Player.profile] = rising]
  <2>3. new \in Tables /\ new.rank = [work.rank EXCEPT ![Player.profile] = rising]
    BY <2>1, <2>2, Ranked
  <2>. HIDE DEF new
  <2>4. work' = new /\ stored' \in {stored, new}
    BY <2>1, <2>3, Written DEF new
  <2>5. at' = "commit" /\ UNCHANGED <<part, i, rising, report>>
    BY <2>1 DEF Goto
  <2>6. CASE stored' = new
    BY <2>4, <2>5, <2>6, LevelKeeps
  <2>7. CASE stored' = stored
    <3>1. Player' = Player /\ (Merits(Player.profile, rising) => Merits(Player.profile, rising)')
      BY <2>5, <2>7 DEF Player, Merits
    <3>2. work'.rank = [stored'.rank EXCEPT ![Player'.profile] = rising']
      BY <2>2, <2>3, <2>4, <2>5, <2>7, <3>1
    <3>. QED
      BY <2>1, <2>2, <2>5, <3>1, <3>2 DEF RanksSound, AllStored, RankUnderway
  <2>. QED
    BY <2>4, <2>6, <2>7
<1>. QED
  BY <1>1, <1>2, <1>3

\* those that write other tables do,
LEMMA OthersKeepRanks ==
    ASSUME Sound, RanksSound,
           \/ Insert \/ Update \/ Award \/ DeleteLadder \/ FillLadder \/ Meet
           \/ JoinClan \/ JoinRank \/ ReadName
    PROVE  RanksSound'
<1>1. /\ part # "ranks" /\ part' = part
      /\ at' \notin {"idle", "test", "auto0", "start", "rank"}
  BY DEF Insert, Update, Award, DeleteLadder, FillLadder, Meet, JoinClan, JoinRank, ReadName, Goto,
         Sound, Stages
<1>2. PICK new : /\ stored' \in {stored, work, new} /\ work' \in {stored, work, new}
                 /\ Rest(work, new)
  BY StepForms DEF MatchNext
<1>3. ~Promote
  BY DEF Promote, Insert, Update, Award, DeleteLadder, FillLadder, Meet, JoinClan, JoinRank, ReadName
<1>4. new.rank = work.rank /\ work.rank = stored.rank
  BY <1>1, <1>2, <1>3 DEF Rest, RanksSound, RankUnderway
<1>. QED
  BY <1>1, <1>2, <1>4 DEF RanksSound, AllStored, RankUnderway

\* and so do all the others.
LEMMA RanksKept == Sound /\ RanksSound /\ [MatchNext]_matchVars => RanksSound'
<1>. SUFFICES ASSUME Sound, RanksSound, [MatchNext]_matchVars PROVE RanksSound'
  OBVIOUS
<1>0. SessionTypeOK /\ SessionAgrees /\ part \in Parts
  BY DEF Sound, ProgressTyped
<1>1. CASE UNCHANGED matchVars
  <2>1. /\ AllStored' = AllStored /\ RankUnderway' = RankUnderway
    BY <1>1 DEF AllStored, RankUnderway, Merits, Player, matchVars, session, progress
  <2>. QED
    BY <2>1 DEF RanksSound
<1>2. CASE Report \/ Join
  <2>1. work' = stored' /\ part' # "ranks"
    BY <1>0, <1>2, QuietStep DEF Report, Join, RanksSound, AllStored
  <2>. QED
    BY <2>1, LevelKeeps
<1>3. CASE TestDatabase \/ BeginOff \/ BeginStart
  <2>1. work = stored /\ at \in {"test", "auto0", "start"}
    BY <1>3 DEF TestDatabase, BeginOff, BeginStart, RanksSound, AllStored
  <2>2. work' = stored /\ stored' = stored
    BY <1>0, <1>3, <2>1, QuietStep, BoundaryStep DEF TestDatabase, BeginOff, BeginStart
  <2>3. CASE \E next, index : Goto(next, index) /\ index = i
    BY <2>1, <2>2, <2>3, WaitingKeeps DEF Goto
  <2>4. CASE TestDatabase /\ AfterRollback
    <3>1. at' = "auto0" => part' \in {"ladder", "friends"}
      BY <2>4, TransactionEnds DEF TestDatabase, Sound, ProgressTyped
    <3>2. at' \in {"idle", "auto0", "rank"}
      BY <2>4, TransactionEnds DEF TestDatabase, Sound, ProgressTyped
    <3>. QED
      BY <2>2, <3>1, <3>2, LevelKeeps
  <2>. QED
    BY <1>3, <2>3, <2>4 DEF TestDatabase, BeginOff, BeginStart
<1>4. CASE CommitFirst
  <2>1. work' = stored'
    BY <1>0, <1>4, QuietStep, BoundaryStep DEF CommitFirst, FailsOnLink, SessionAgrees
  <2>2. at' = "auto1"
    BY <1>4 DEF CommitFirst, Goto
  <2>. QED
    BY <2>1, <2>2, LevelKeeps
<1>5. CASE CommitSecond \/ RollbackTransaction
  <2>1. work' = stored'
    BY <1>0, <1>5, QuietStep, BoundaryStep DEF CommitSecond, RollbackTransaction, FailsOnLink, SessionAgrees
  <2>2. at' \in {"idle", "auto0", "rank"} /\ (at' = "auto0" => part' \in {"ladder", "friends"})
    BY <1>5, TransactionEnds DEF CommitSecond, RollbackTransaction, Sound, ProgressTyped
  <2>. QED
    BY <2>1, <2>2, LevelKeeps
<1>6. CASE Fail
  <2>1. stored' = stored /\ work' = work /\ (link = "lost" \/ UNCHANGED session)
    BY <1>6 DEF Fail, Refuse, FailsOnLink, session
  <2>2. CASE at = "rank"
    <3>1. work = stored
      BY <2>2 DEF RanksSound, AllStored
    <3>2. part' = "stats"
      BY <1>6, <2>2 DEF Fail, Ended
    <3>. QED
      BY <2>1, <3>1, <3>2, LevelKeeps
  <2>3. CASE at # "rank"
    <3>1. at' = "rollback" /\ at # "commit"
      BY <1>6, <2>3 DEF Fail, Goto
    <3>. QED
      BY <2>1, <3>1 DEF RanksSound, AllStored, RankUnderway
  <2>. QED
    BY <2>2, <2>3
<1>7. CASE Lose
  <2>1. work' = stored /\ stored' = stored /\ at' = at /\ UNCHANGED <<part, i, rising, report>>
    BY <1>7 DEF Lose, LinkLost, progress
  <2>. QED
    BY <2>1, WaitingKeeps
<1>8. CASE Crash
  <2>1. work' = stored' /\ part' = "stats"
    BY <1>8 DEF Crash, NewSession, Ended
  <2>. QED
    BY <2>1, LevelKeeps
<1>. QED
  BY <1>1, <1>2, <1>3, <1>4, <1>5, <1>6, <1>7, <1>8, RankingKeeps, OthersKeepRanks DEF MatchNext

\* The layer of the ranks holds in every reachable state.
LEMMA AlwaysRanked == MatchSpec => [](Sound /\ RanksSound)
<1>1. MatchInit => Sound /\ RanksSound
  <2>1. ASSUME MatchInit PROVE Sound /\ work = stored /\ part = "stats"
    BY <2>1, MatchBegins DEF MatchInit
  <2>. QED
    BY <2>1 DEF RanksSound, AllStored, RankUnderway
<1>. QED
  BY <1>1, SoundKept, RanksKept, PTL DEF MatchSpec

\* Between two messages nothing waits to be committed, wherever a transaction was
\* given up: no COMMIT of another handler stores what this one could not finish,
\* although a rollback leaves AUTOCOMMIT off.
THEOREM PendingCorrect == MatchSpec => []NothingPending
<1>1. RanksSound => NothingPending
  BY DEF RanksSound, AllStored, NothingPending
<1>. QED
  BY AlwaysRanked, <1>1, PTL

\* A rank that is stored is one its player is entitled to.
LEMMA RankChanges ==
    ASSUME Sound, RanksSound, MatchNext, NEW p \in Profiles, stored'.rank[p] # stored.rank[p]
    PROVE  Merits(p, stored'.rank[p])
<1>1. work.rank \in [Profiles -> Ranks] /\ stored.rank \in [Profiles -> Ranks]
  BY DEF Sound, TablesTyped, Tables
<1>2. CASE Promote
  <2>1. /\ part = "ranks" /\ i \in DOMAIN report /\ rising \in Ranks /\ at = "promote"
        /\ Write([work EXCEPT !.rank[Player.profile] = rising])
    BY <1>2 DEF Promote, Sound, Stages, ProgressTyped
  <2>2. Player.profile \in Profiles /\ work.rank = stored.rank /\ Merits(Player.profile, rising)
    BY <2>1, PlayerTyped DEF RanksSound, RankUnderway
  <2>. DEFINE new == [work EXCEPT !.rank[Player.profile] = rising]
  <2>3. new \in Tables /\ new.rank = [work.rank EXCEPT ![Player.profile] = rising]
    BY <2>1, <2>2, Ranked
  <2>. HIDE DEF new
  <2>4. stored' \in {stored, new}
    BY <2>1, <2>3, Written DEF new
  <2>. QED
    BY <1>1, <2>2, <2>3, <2>4
<1>3. CASE ~Promote /\ ~(part = "ranks" /\ at = "commit")
  <2>1. work.rank = stored.rank
    BY <1>3 DEF RanksSound, RankUnderway
  <2>. QED
    BY <1>3, <2>1, Untouched
<1>4. CASE part = "ranks" /\ at = "commit"
  <2>1. CommitFirst \/ Lose \/ Crash
    BY <1>4 DEF MatchNext, Report, TestDatabase, BeginOff, BeginStart, Insert, Update, Award,
                DeleteLadder, FillLadder, Rank, Promote, Meet, Join, JoinClan, JoinRank, ReadName,
                CommitSecond, Fail, RollbackTransaction
  <2>2. stored' \in {stored, work}
    BY <2>1 DEF CommitFirst, Commit, FailsOnLink, Lose, LinkLost, Crash, NewSession
  <2>3. /\ Merits(Player.profile, rising)
        /\ work.rank = [stored.rank EXCEPT ![Player.profile] = rising]
    BY <1>4, <2>2 DEF RanksSound, RankUnderway
  <2>4. stored'.rank[p] = rising /\ p = Player.profile
    BY <1>1, <2>2, <2>3
  <2>. QED
    BY <2>3, <2>4
<1>. QED
  BY <1>2, <1>3, <1>4

\* A rank is never taken back and never given before its score is stored; from
\* rank 10 on it also takes a place in the best part of the ladder, or none.
THEOREM RanksCorrect == MatchSpec => RanksAreEarned
<1>1. ASSUME Sound, RanksSound, [MatchNext]_matchVars
      PROVE  [\A p \in Profiles :
                 stored'.rank[p] # stored.rank[p] => Merits(p, stored'.rank[p])]_matchVars
  BY <1>1, RankChanges
<1>2. RanksAreEarned <=> [][\A p \in Profiles :
          stored'.rank[p] # stored.rank[p] => Merits(p, stored'.rank[p])]_matchVars
  BY PTL DEF RanksAreEarned, Merits
<1>. QED
  BY AlwaysRanked, <1>1, <1>2, PTL DEF MatchSpec


-----------------------------------------------------------------------------
(* The inductive invariant of the statistics *)

Kept(T) == \A p \in Profiles : IsFiniteSet(RowsOf(p, T.rows))

Sums(T) ==
    \A p \in Profiles : T.total[p] = Total(RowsOf(p, T.rows)) /\ T.awards[p] = T.total[p]

\* The report is not stored yet.
Reporting == part = "stats" /\ at \notin {"idle", "auto1"}

Dated == \A r \in stored.rows : r.id <= reports /\ (Reporting => r.id < reports)

\* The session has added rows of this report.
Added ==
    /\ stored.rows \subseteq work.rows
    /\ \A r \in work.rows \ stored.rows : r.id = reports

\* Between the statements for a player: the rows are those of the players so far,
\* and no more than the total or the award of the last of them is to come.
Halfway ==
    /\ Added
    /\ \A r \in work.rows \ stored.rows : \E k \in DOMAIN report :
          r.profile = report[k].profile /\ (IF at = "insert" THEN k < i ELSE k <= i)
    /\ \A p \in Profiles :
          /\ work.total[p] + (IF at = "update" /\ p = Player.profile THEN Player.score ELSE 0)
                = Total(RowsOf(p, work.rows))
          /\ work.awards[p] = work.total[p] \/ (at = "award" /\ p = Player.profile)

StatsStage ==
    /\ at \in {"insert", "update", "award"} => link = "lost" \/ Halfway
    /\ at = "commit" /\ part = "stats" => link = "lost" \/ (Sums(work) /\ Added)
    /\ at \notin {"insert", "update", "award", "rollback"} /\ ~(at = "commit" /\ part = "stats")
          => Stats(work) = Stats(stored)

StatsSound ==
    /\ Kept(stored) /\ Kept(work)
    /\ ~bare => Sums(stored) /\ Dated /\ StatsStage

-----------------------------------------------------------------------------
(* The steps that keep it *)

\* No player ever has more than finitely many rows.
LEMMA KeptStays ==
    ASSUME Sound, Kept(stored), Kept(work), [MatchNext]_matchVars
    PROVE  Kept(stored') /\ Kept(work')
<1>1. PICK new : /\ stored' \in {stored, work, new} /\ work' \in {stored, work, new}
                 /\ new.rows \in {work.rows, work.rows \union {NewRow}}
  BY StepForms DEF Rest
<1>2. Kept(new)
  <2>1. ASSUME NEW p \in Profiles
        PROVE  IsFiniteSet(RowsOf(p, work.rows)) /\ IsFiniteSet(RowsOf(p, work.rows) \union {NewRow})
    BY FS_AddElement DEF Kept
  <2>2. ASSUME NEW p \in Profiles
        PROVE  RowsOf(p, work.rows \union {NewRow})
                  \in {RowsOf(p, work.rows), RowsOf(p, work.rows) \union {NewRow}}
    BY DEF RowsOf
  <2>. QED
    BY <1>1, <2>1, <2>2 DEF Kept
<1>. QED
  BY <1>1, <1>2

\* What the tables of rows, totals and awards say depends on nothing else.
LEMMA SumsOf ==
    ASSUME NEW T, NEW U, Stats(T) = Stats(U)
    PROVE  /\ T.rows = U.rows /\ T.total = U.total /\ T.awards = U.awards
           /\ Sums(T) <=> Sums(U)
<1>1. T.rows = U.rows /\ T.total = U.total /\ T.awards = U.awards
  BY DEF Stats
<1>. QED
  BY <1>1 DEF Sums

\* What was written without a transaction is not forgotten.
LEMMA BareStays ==
    ASSUME [MatchNext]_matchVars, ~bare'
    PROVE  ~bare
BY DEF MatchNext, matchVars, Report, BeginOff, BeginStart, Insert, Update, Award, DeleteLadder,
       FillLadder, Rank, Meet, CommitFirst, CommitSecond, Fail, RollbackTransaction, TestDatabase, Promote,
       Join, JoinClan, JoinRank, ReadName, Lose, Crash, Write

\* A step between the statements of transactions leads to the first of one at most.
LEMMA BetweenStatements ==
    ASSUME Sound,
           \/ Report \/ TestDatabase \/ BeginOff \/ BeginStart \/ Rank \/ Join
           \/ CommitFirst \/ CommitSecond \/ Fail \/ RollbackTransaction \/ Crash
    PROVE  /\ at' \notin {"update", "award", "fill", "joinrank", "name", "commit"}
           /\ at' \in {"insert", "meet"} => i' = 1
           /\ ~Report => reports' = reports /\ today' = today /\ (Reporting' => Reporting)
<1>1. part \in Parts /\ faults \in 0 .. MaxFaults /\ bare \in BOOLEAN
  BY DEF Sound, ProgressTyped
<1>2. CASE Report \/ Join
  BY <1>2 DEF Report, Join, Reporting
<1>3. CASE CommitSecond \/ RollbackTransaction \/ (TestDatabase /\ AfterRollback)
  <2>1. /\ at # "idle" /\ at' \in {"idle", "auto0", "rank"} /\ Stages'
        /\ at' = "auto0" => part' \in {"ladder", "friends"}
        /\ reports' = reports /\ today' = today
    BY <1>1, <1>3, TransactionEnds DEF CommitSecond, RollbackTransaction, TestDatabase
  <2>. QED
    BY <2>1 DEF Stages, Reporting
<1>4. CASE BeginOff \/ CommitFirst \/ (TestDatabase /\ Goto("auto0", i))
  BY <1>4 DEF BeginOff, CommitFirst, TestDatabase, Goto, Reporting
<1>5. CASE BeginStart
  <2>1. /\ FirstOf(part) \in {"insert", "delete", "promote", "meet", "join"}
        /\ FirstOf(part) \in {"insert", "meet"} => part # "ranks"
    BY <1>1 DEF FirstOf, Parts
  <2>2. part # "ranks" => i = 1
    BY <1>5 DEF BeginStart, Sound, Stages
  <2>. QED
    BY <1>5, <2>1, <2>2 DEF BeginStart, Goto, Reporting
<1>6. CASE Rank
  BY <1>6, RankFound DEF NextPlayer, GotoPart, Reporting
<1>7. CASE Fail \/ Crash
  BY <1>7 DEF Fail, Crash, Ended, Goto, Reporting
<1>. QED
  BY <1>2, <1>3, <1>4, <1>5, <1>6, <1>7 DEF TestDatabase

\* A transaction that is rolled back, or dies with the process, leaves nothing.
LEMMA Undone ==
    ASSUME Sound, RollbackTransaction \/ Crash
    PROVE  /\ at' \in {"idle", "auto0", "rank"} /\ reports' = reports /\ ~Reporting'
           /\ stored' = stored /\ work' = stored
<1>1. stored' = stored /\ work' = stored
  BY DEF Sound, SessionAgrees, RollbackTransaction, Crash, Rollback, FailsOnLink, NewSession
<1>2. CASE RollbackTransaction
  <2>1. /\ at' \in {"idle", "auto0", "rank"} /\ Stages'
        /\ at' = "auto0" => part' \in {"ladder", "friends"}
        /\ reports' = reports
    BY <1>2, TransactionEnds DEF RollbackTransaction, Sound, ProgressTyped
  <2>. QED
    BY <1>1, <2>1 DEF Stages, Reporting
<1>3. CASE Crash
  BY <1>1, <1>3 DEF Crash, Ended, Reporting
<1>. QED
  BY <1>2, <1>3

\* How the handler gets into and out of the first transaction.
LEMMA Course ==
    ASSUME Sound, MatchNext, ~(Insert \/ Update \/ Award)
    PROVE  /\ reports' \in Nat /\ reports \in Nat
           /\ reports' = reports \/ reports' = reports + 1
           /\ Reporting' => Reporting \/ reports' = reports + 1
           /\ link' = "up" /\ at' \in {"insert", "update", "award"}
                => at' = "insert" /\ i' = 1
           /\ at' = "commit" /\ part' = "stats" => link' = "lost"
<1>1. reports \in Nat
  BY MatchAssumption DEF Sound, ProgressTyped
<1>2. CASE Report
  BY <1>1, <1>2, BetweenStatements DEF Report
<1>3. CASE \/ TestDatabase \/ BeginOff \/ BeginStart \/ Rank \/ Join
           \/ CommitFirst \/ CommitSecond \/ Fail \/ RollbackTransaction \/ Crash
  <2>1. ~Report
    BY <1>3 DEF Report, TestDatabase, BeginOff, BeginStart, Rank, Join, CommitFirst, CommitSecond, Fail,
                RollbackTransaction, Crash, Ended
  <2>. QED
    BY <1>1, <1>3, <2>1, BetweenStatements
<1>4. CASE DeleteLadder \/ FillLadder \/ Meet \/ Promote \/ JoinClan \/ JoinRank \/ ReadName
  BY <1>1, <1>4 DEF DeleteLadder, FillLadder, Meet, Promote, JoinClan, JoinRank, ReadName, Goto,
                    Sound, Stages, Reporting
<1>5. CASE Lose
  BY <1>1, <1>5 DEF Lose, LinkLost, progress, Reporting
<1>. QED
  BY <1>2, <1>3, <1>4, <1>5 DEF MatchNext

\* A step after which what is stored has not changed is no trouble for Dated.
LEMMA StillDated ==
    ASSUME Sound, MatchNext, ~(Insert \/ Update \/ Award), Dated, stored'.rows = stored.rows
    PROVE  Dated'
<1>1. \A r \in stored.rows : r.id \in Int
  BY DEF Sound, TablesTyped, Tables, Row
<1>2. /\ reports' \in Nat /\ reports \in Nat
      /\ reports' = reports \/ reports' = reports + 1
      /\ Reporting' => Reporting \/ reports' = reports + 1
  BY Course
<1>. QED
  BY <1>1, <1>2 DEF Dated

\* A step that finds the statistics as they are stored.
LEMMA SameKeeps ==
    ASSUME Sound, MatchNext, ~(Insert \/ Update \/ Award), ~bare',
           Sums(stored), Dated, Stats(work) = Stats(stored)
    PROVE  Sums(stored') /\ Dated' /\ StatsStage'
<1>1. Stats(work') = Stats(stored) /\ Stats(stored') = Stats(stored)
  BY Untouched
<1>2. stored'.rows = stored.rows /\ work'.rows = stored'.rows /\ work'.total = stored'.total
      /\ work'.awards = stored'.awards /\ Sums(stored') /\ Sums(work')
  BY <1>1, SumsOf
<1>3. Dated'
  BY <1>2, StillDated
<1>4. at' = "commit" /\ part' = "stats" => link' = "lost"
  BY Course
<1>5. ASSUME link' = "up", at' \in {"insert", "update", "award"}
      PROVE  Halfway'
  <2>1. at' = "insert"
    BY <1>5, Course
  <2>2. Added'
    BY <1>2 DEF Added
  <2>3. \A p \in Profiles : work'.total[p] \in Int
    BY <1>1, SumsOf DEF Sound, TablesTyped, Tables
  <2>4. \A p \in Profiles : work'.total[p] = Total(RowsOf(p, work'.rows)) /\ work'.awards[p] = work'.total[p]
    BY <1>2 DEF Sums
  <2>. QED
    BY <1>2, <2>1, <2>2, <2>3, <2>4 DEF Halfway
<1>6. SessionTypeOK'
  BY SoundKept DEF Sound
<1>7. link' = "up" \/ link' = "lost"
  BY <1>6 DEF SessionTypeOK
<1>. QED
  BY <1>1, <1>2, <1>3, <1>4, <1>5, <1>7 DEF StatsStage


\* Between the statements of a player, with the total and the award of no one to come.
LEMMA HalfwayFacts ==
    ASSUME Sound, at \in {"insert", "update", "award"}, StatsStage, link = "up"
    PROVE  /\ Halfway /\ i \in DOMAIN report /\ part = "stats"
           /\ Player.profile \in Profiles /\ Player.score \in Nat
           /\ work.rows \in SUBSET Row
           /\ work.total \in [Profiles -> Int] /\ work.awards \in [Profiles -> Int]
<1>1. i \in DOMAIN report /\ part = "stats" /\ work \in Tables
  BY DEF Sound, Stages, TablesTyped
<1>2. Halfway
  BY DEF StatsStage
<1>. QED
  BY <1>1, <1>2, PlayerTyped DEF Tables

\* The row is new: a player is in a report once.
LEMMA RowIsNew ==
    ASSUME Sound, at = "insert", Halfway, Dated
    PROVE  NewRow \notin work.rows
<1>1. part = "stats" /\ i \in DOMAIN report
  BY DEF Sound, Stages
<1>2. NewRow.id = reports /\ NewRow.profile = report[i].profile
  BY DEF NewRow, Player
<1>3. reports \in Nat
  BY DEF Sound, ProgressTyped
<1>4. ASSUME NewRow \in stored.rows PROVE FALSE
  <2>1. NewRow.id < reports
    BY <1>1, <1>4 DEF Dated, Reporting
  <2>. QED
    BY <1>2, <1>3, <2>1
<1>5. ASSUME NewRow \in work.rows \ stored.rows PROVE FALSE
  <2>1. PICK k \in DOMAIN report : NewRow.profile = report[k].profile /\ k < i
    BY <1>5 DEF Halfway
  <2>2. k = i
    BY <1>1, <1>2, <2>1 DEF Sound, Stages
  <2>. QED
    BY <2>1, <2>2 DEF Sound, ProgressTyped
<1>. QED
  BY <1>4, <1>5

\* One row more.
LEMMA OneMore ==
    ASSUME NEW rows \in SUBSET Row, NEW x \in Row, x \notin rows, NEW p \in Profiles,
           IsFiniteSet(RowsOf(p, rows))
    PROVE  /\ Total(RowsOf(p, rows)) \in Int
           /\ Total(RowsOf(p, rows \union {x})) =
                 Total(RowsOf(p, rows)) + (IF p = x.profile THEN x.score ELSE 0)
<1>. DEFINE mine == RowsOf(p, rows)
<1>1. mine \in SUBSET Row /\ x \notin mine /\ x.score \in Int /\ \A r \in mine : r.score \in Int
  BY DEF RowsOf, Row
<1>2. Total(mine) \in Int
  BY <1>1, TotalTyped
<1>3. CASE p = x.profile
  <2>1. RowsOf(p, rows \union {x}) = mine \union {x}
    BY <1>3 DEF RowsOf
  <2>. HIDE DEF mine
  <2>2. Total(mine \union {x}) = Total(mine) + x.score
    BY <1>1, TotalAdds DEF mine
  <2>. QED
    BY <1>2, <1>3, <2>1, <2>2 DEF mine
<1>4. CASE p # x.profile
  <2>1. RowsOf(p, rows \union {x}) = mine
    BY <1>4 DEF RowsOf
  <2>. QED
    BY <1>2, <1>4, <2>1
<1>. QED
  BY <1>3, <1>4

\* A row is written: its score is missing in the total.
LEMMA InsertKeeps ==
    ASSUME Sound, StatsSound, Insert, ~bare'
    PROVE  Sums(stored') /\ Dated' /\ StatsStage'
<1>. DEFINE new == [work EXCEPT !.rows = @ \union {NewRow}]
<1>1. at = "insert" /\ Write(new) /\ Goto("update", i)
  BY DEF Insert, NewRow
<1>2. i \in DOMAIN report
  BY <1>1 DEF Sound, Stages
<1>3. /\ NewRow \in Row /\ new \in Tables
      /\ new.rows = work.rows \union {NewRow}
      /\ new.total = work.total /\ new.awards = work.awards
  BY <1>2, Inserted
<1>. HIDE DEF new
<1>4. ~bare /\ link = "up" /\ stored' = stored /\ work' = new
  BY <1>1, <1>3, Written
<1>5. Sums(stored) /\ Dated /\ StatsStage /\ Kept(work)
  BY <1>4 DEF StatsSound
<1>6. /\ Halfway /\ part = "stats" /\ work.rows \in SUBSET Row
      /\ work.total \in [Profiles -> Int] /\ Player.score \in Nat
  BY <1>1, <1>4, <1>5, HalfwayFacts
<1>7. at' = "update" /\ i' = i /\ part' = part /\ report' = report /\ reports' = reports /\ Player' = Player
  BY <1>1 DEF Goto, Player
<1>8. Sums(stored')
  BY <1>4, <1>5
<1>9. Dated'
  BY <1>1, <1>4, <1>5, <1>7 DEF Dated, Reporting
<1>10. NewRow \notin work.rows
  BY <1>1, <1>5, <1>6, RowIsNew
<1>11. NewRow.id = reports /\ NewRow.profile = Player.profile /\ NewRow.score = Player.score
       /\ Player.profile = report[i].profile
  BY DEF NewRow, Player
<1>12. Added'
  BY <1>3, <1>4, <1>6, <1>7, <1>11 DEF Added, Halfway
<1>13. ASSUME NEW r \in work'.rows \ stored'.rows
       PROVE  \E k \in DOMAIN report' : r.profile = report'[k].profile /\ k <= i'
  <2>1. CASE r = NewRow
    BY <1>2, <1>7, <1>11, <2>1 DEF Sound, ProgressTyped
  <2>2. CASE r # NewRow
    <3>1. r \in work.rows \ stored.rows
      BY <1>3, <1>4, <2>2
    <3>2. PICK k \in DOMAIN report : r.profile = report[k].profile /\ k < i
      BY <1>1, <1>6, <3>1 DEF Halfway
    <3>. QED
      BY <1>7, <3>2 DEF Sound, ProgressTyped
  <2>. QED
    BY <2>1, <2>2
<1>14. ASSUME NEW p \in Profiles
       PROVE  /\ work'.total[p] + (IF p = Player.profile THEN Player.score ELSE 0)
                    = Total(RowsOf(p, work'.rows))
              /\ work'.awards[p] = work'.total[p]
  <2>1. IsFiniteSet(RowsOf(p, work.rows))
    BY <1>5 DEF Kept
  <2>2. Total(RowsOf(p, work.rows \union {NewRow})) =
           Total(RowsOf(p, work.rows)) + (IF p = Player.profile THEN Player.score ELSE 0)
    <3>. HIDE DEF NewRow
    <3>1. Total(RowsOf(p, work.rows \union {NewRow})) =
             Total(RowsOf(p, work.rows)) + (IF p = NewRow.profile THEN NewRow.score ELSE 0)
      BY <1>3, <1>6, <1>10, <2>1, OneMore
    <3>. QED
      BY <1>11, <3>1, Zenon
  <2>3. work.total[p] = Total(RowsOf(p, work.rows)) /\ work.awards[p] = work.total[p]
    <3>1. work.total[p] + 0 = Total(RowsOf(p, work.rows)) /\ work.awards[p] = work.total[p]
      BY <1>1, <1>6 DEF Halfway
    <3>. QED
      BY <1>6, <3>1
  <2>. QED
    BY <1>3, <1>4, <2>2, <2>3
<1>15. Halfway'
  BY <1>7, <1>12, <1>13, <1>14 DEF Halfway
<1>. QED
  BY <1>7, <1>8, <1>9, <1>15 DEF StatsStage

\* The total is written: the award is behind.
LEMMA UpdateKeeps ==
    ASSUME Sound, StatsSound, Update, ~bare'
    PROVE  Sums(stored') /\ Dated' /\ StatsStage'
<1>. DEFINE new == [work EXCEPT !.total[Player.profile] = @ + Player.score]
<1>1. at = "update" /\ Write(new) /\ Goto("award", i)
  BY DEF Update
<1>2. i \in DOMAIN report
  BY <1>1 DEF Sound, Stages
<1>3. /\ new \in Tables
      /\ new.rows = work.rows
      /\ new.total = [work.total EXCEPT ![Player.profile] = @ + Player.score]
      /\ new.awards = work.awards
  BY <1>2, Updated
<1>. HIDE DEF new
<1>4. ~bare /\ link = "up" /\ stored' = stored /\ work' = new
  BY <1>1, <1>3, Written
<1>5. Sums(stored) /\ Dated /\ StatsStage
  BY <1>4 DEF StatsSound
<1>6. /\ Halfway /\ part = "stats" /\ work.rows \in SUBSET Row
      /\ work.total \in [Profiles -> Int] /\ Player.profile \in Profiles
  BY <1>1, <1>4, <1>5, HalfwayFacts
<1>7. at' = "award" /\ i' = i /\ part' = part /\ report' = report /\ reports' = reports /\ Player' = Player
  BY <1>1 DEF Goto, Player
<1>8. Sums(stored')
  BY <1>4, <1>5
<1>9. Dated'
  BY <1>1, <1>4, <1>5, <1>7 DEF Dated, Reporting
<1>10. Added'
  BY <1>3, <1>4, <1>6, <1>7 DEF Added, Halfway
<1>11. \A r \in work'.rows \ stored'.rows :
           \E k \in DOMAIN report' : r.profile = report'[k].profile /\ k <= i'
  BY <1>1, <1>3, <1>4, <1>6, <1>7 DEF Halfway
<1>12. ASSUME NEW p \in Profiles
       PROVE  /\ work'.total[p] + 0 = Total(RowsOf(p, work'.rows))
              /\ work'.awards[p] = work'.total[p] \/ p = Player.profile
  <2>1. /\ work.total[p] + (IF p = Player.profile THEN Player.score ELSE 0) = Total(RowsOf(p, work.rows))
        /\ work.awards[p] = work.total[p]
    BY <1>1, <1>6 DEF Halfway
  <2>2. work'.total[p] = IF p = Player.profile THEN work.total[p] + Player.score ELSE work.total[p]
    BY <1>3, <1>4, <1>6
  <2>3. work'.total[p] \in Int /\ work'.rows = work.rows /\ work'.awards = work.awards
    BY <1>3, <1>4 DEF Tables
  <2>4. CASE p = Player.profile
    BY <2>1, <2>2, <2>3, <2>4
  <2>5. CASE p # Player.profile
    BY <1>6, <2>1, <2>2, <2>3, <2>5
  <2>. QED
    BY <2>4, <2>5
<1>13. Halfway'
  BY <1>7, <1>10, <1>11, <1>12 DEF Halfway
<1>. QED
  BY <1>7, <1>8, <1>9, <1>13 DEF StatsStage

\* The award is written: the player is done.
LEMMA AwardKeeps ==
    ASSUME Sound, StatsSound, Award, ~bare'
    PROVE  Sums(stored') /\ Dated' /\ StatsStage'
<1>. DEFINE new == [work EXCEPT !.awards[Player.profile] = work.total[Player.profile]]
<1>1. at = "award" /\ Write(new)
      /\ (Goto("insert", i + 1) \/ Goto("commit", i))
  BY DEF Award
<1>2. i \in DOMAIN report /\ i \in Nat
  BY <1>1 DEF Sound, Stages, ProgressTyped
<1>3. /\ new \in Tables
      /\ new.rows = work.rows /\ new.total = work.total
      /\ new.awards = [work.awards EXCEPT ![Player.profile] = work.total[Player.profile]]
  BY <1>2, Awarded
<1>. HIDE DEF new
<1>4. ~bare /\ link = "up" /\ stored' = stored /\ work' = new
  BY <1>1, <1>3, Written
<1>5. Sums(stored) /\ Dated /\ StatsStage
  BY <1>4 DEF StatsSound
<1>6. /\ Halfway /\ part = "stats" /\ work.rows \in SUBSET Row
      /\ work.total \in [Profiles -> Int] /\ work.awards \in [Profiles -> Int]
      /\ Player.profile \in Profiles
  BY <1>1, <1>4, <1>5, HalfwayFacts
<1>7. /\ (at' = "insert" /\ i' = i + 1) \/ at' = "commit"
      /\ part' = part /\ report' = report /\ reports' = reports
  BY <1>1 DEF Goto
<1>8. Sums(stored')
  BY <1>4, <1>5
<1>9. Dated'
  BY <1>1, <1>4, <1>5, <1>6, <1>7 DEF Dated, Reporting
<1>10. Added'
  BY <1>3, <1>4, <1>6, <1>7 DEF Added, Halfway
<1>11. ASSUME NEW p \in Profiles
       PROVE  /\ work'.total[p] \in Int
              /\ work'.total[p] = Total(RowsOf(p, work'.rows))
              /\ work'.awards[p] = work'.total[p]
  <2>1. /\ work.total[p] + 0 = Total(RowsOf(p, work.rows))
        /\ work.awards[p] = work.total[p] \/ p = Player.profile
    BY <1>1, <1>6 DEF Halfway
  <2>2. work'.awards[p] = IF p = Player.profile THEN work.total[p] ELSE work.awards[p]
    BY <1>3, <1>4, <1>6
  <2>3. work.total[p] \in Int /\ work'.rows = work.rows /\ work'.total = work.total
    BY <1>3, <1>4, <1>6
  <2>. QED
    BY <2>1, <2>2, <2>3
<1>12. CASE at' = "insert" /\ i' = i + 1
  <2>1. ASSUME NEW r \in work'.rows \ stored'.rows
        PROVE  \E k \in DOMAIN report' : r.profile = report'[k].profile /\ k < i'
    <3>1. PICK k \in DOMAIN report : r.profile = report[k].profile /\ k <= i
      BY <1>1, <1>3, <1>4, <1>6 DEF Halfway
    <3>2. k \in Nat
      BY DEF Sound, ProgressTyped
    <3>3. k < i + 1
      BY <1>2, <3>1, <3>2
    <3>. QED
      BY <1>7, <1>12, <3>1, <3>3
  <2>2. \A p \in Profiles : work'.total[p] + 0 = Total(RowsOf(p, work'.rows))
    BY <1>11
  <2>3. Halfway'
    BY <1>10, <1>11, <1>12, <2>1, <2>2 DEF Halfway
  <2>. QED
    BY <1>8, <1>9, <1>12, <2>3 DEF StatsStage
<1>13. CASE at' = "commit"
  <2>1. Sums(work')
    BY <1>11 DEF Sums
  <2>. QED
    BY <1>6, <1>7, <1>8, <1>9, <1>10, <1>13, <2>1 DEF StatsStage
<1>. QED
  BY <1>7, <1>12, <1>13

\* The ways out of the first transaction.
LEMMA OutKeeps ==
    ASSUME Sound, StatsSound, ~bare, link = "up",
           \/ Fail /\ at \in {"insert", "update", "award"}
           \/ RollbackTransaction \/ Lose \/ Crash
           \/ CommitFirst /\ part = "stats"
    PROVE  Sums(stored') /\ Dated' /\ StatsStage'
<1>1. Sums(stored) /\ Dated /\ StatsStage
  BY DEF StatsSound
<1>2. reports \in Nat /\ \A r \in stored.rows : r.id \in Int
  BY DEF Sound, ProgressTyped, TablesTyped, Tables, Row
<1>3. CASE Fail /\ at \in {"insert", "update", "award"}
  <2>1. part = "stats"
    BY <1>3 DEF Sound, Stages
  <2>2. at' = "rollback" /\ part' = part /\ reports' = reports /\ stored' = stored
    BY <1>3 DEF Fail, Goto, Refuse, FailsOnLink, session
  <2>3. Dated'
    BY <1>1, <1>3, <2>1, <2>2 DEF Dated, Reporting
  <2>. QED
    BY <1>1, <2>2, <2>3 DEF StatsStage
<1>4. CASE RollbackTransaction \/ Crash
  <2>1. at' \in {"idle", "auto0", "rank"} /\ reports' = reports /\ ~Reporting'
        /\ stored' = stored /\ work' = stored
    BY <1>4, Undone
  <2>2. Dated'
    BY <1>1, <2>1 DEF Dated
  <2>. QED
    BY <1>1, <2>1, <2>2 DEF StatsStage
<1>5. CASE Lose
  <2>1. link' = "lost" /\ stored' = stored /\ work' = stored
        /\ at' = at /\ part' = part /\ reports' = reports
    BY <1>5 DEF Lose, LinkLost, progress
  <2>2. Dated'
    BY <1>1, <2>1 DEF Dated, Reporting
  <2>. QED
    BY <1>1, <2>1, <2>2 DEF StatsStage
<1>6. CASE CommitFirst /\ part = "stats"
  <2>1. /\ at = "commit" /\ at' = "auto1" /\ reports' = reports
        /\ stored' = work /\ work' = work
    BY <1>6 DEF CommitFirst, Goto, Commit, FailsOnLink
  <2>2. Sums(work) /\ Added
    BY <1>1, <1>6, <2>1 DEF StatsStage
  <2>3. \A r \in work.rows : r.id <= reports
    BY <1>1, <1>2, <2>2 DEF Added, Dated
  <2>4. Dated'
    BY <2>1, <2>3 DEF Dated, Reporting
  <2>. QED
    BY <2>1, <2>2, <2>4 DEF StatsStage
<1>. QED
  BY <1>3, <1>4, <1>5, <1>6

\* Every step keeps the second layer of the invariant.
LEMMA StatsKept == Sound /\ StatsSound /\ [MatchNext]_matchVars => StatsSound'
<1>. SUFFICES ASSUME Sound, StatsSound, [MatchNext]_matchVars PROVE StatsSound'
  OBVIOUS
<1>1. Kept(stored') /\ Kept(work')
  BY KeptStays DEF StatsSound
<1>2. ASSUME ~bare' PROVE Sums(stored') /\ Dated' /\ StatsStage'
  <2>1. ~bare /\ Sums(stored) /\ Dated /\ StatsStage
    BY <1>2, BareStays DEF StatsSound
  <2>2. CASE UNCHANGED matchVars
    <3>1. UNCHANGED <<stored, work, link, at, part, i, report, reports>>
      BY <2>2 DEF matchVars, session, progress
    <3>2. Dated' /\ Added' = Added
      BY <2>1, <3>1 DEF Dated, Reporting, Added
    <3>3. Halfway' = Halfway
      BY <3>1, <3>2 DEF Halfway, Player
    <3>. QED
      BY <2>1, <3>1, <3>2, <3>3 DEF StatsStage
  <2>3. CASE MatchNext /\ ~(Insert \/ Update \/ Award) /\ Stats(work) = Stats(stored)
    BY <1>2, <2>1, <2>3, SameKeeps
  <2>4. CASE Insert \/ Update \/ Award
    BY <1>2, <2>4, InsertKeeps, UpdateKeeps, AwardKeeps
  <2>5. CASE MatchNext /\ ~(Insert \/ Update \/ Award) /\ Stats(work) # Stats(stored)
    <3>1. link = "up"
      BY <2>5 DEF Sound, SessionAgrees, SessionTypeOK
    <3>2. at \in {"insert", "update", "award", "rollback"} \/ (at = "commit" /\ part = "stats")
      BY <2>1, <2>5 DEF StatsStage
    <3>3. \/ Fail /\ at \in {"insert", "update", "award"}
          \/ RollbackTransaction \/ Lose \/ Crash
          \/ CommitFirst /\ part = "stats"
      BY <2>5, <3>2 DEF MatchNext, Report, BeginOff, BeginStart, DeleteLadder, FillLadder, Rank, Meet,
                        CommitFirst, CommitSecond, Fail, RollbackTransaction, TestDatabase, Promote,
                        Join, JoinClan, JoinRank, ReadName
    <3>. QED
      BY <2>1, <3>1, <3>3, OutKeeps
  <2>. QED
    BY <2>2, <2>3, <2>4, <2>5
<1>. QED
  BY <1>1, <1>2 DEF StatsSound

\* It holds when the server is started.
LEMMA StatsBegin == MatchInit => StatsSound
<1>. SUFFICES ASSUME MatchInit PROVE StatsSound
  OBVIOUS
<1>1. /\ stored = work /\ stored.rows = Past
      /\ \A p \in Profiles : stored.total[p] = Total(RowsOf(p, Past)) /\ stored.awards[p] = stored.total[p]
  BY MatchBegins
<1>2. at = "idle" /\ reports = 0
  BY DEF MatchInit
<1>3. Kept(stored) /\ Kept(work)
  BY <1>1, PastTyped DEF Kept
<1>4. Sums(stored)
  BY <1>1 DEF Sums
<1>5. \A r \in Past : r.id \in Int /\ r.id < 0
  BY PastTyped DEF Row
<1>6. Dated
  BY <1>1, <1>2, <1>5 DEF Dated, Reporting
<1>7. StatsStage
  BY <1>1, <1>2 DEF StatsStage
<1>. QED
  BY <1>3, <1>4, <1>6, <1>7 DEF StatsSound

\* It holds in every reachable state.
LEMMA AlwaysSums == MatchSpec => []StatsSound
BY StatsBegin, AlwaysSound, StatsKept, PTL DEF MatchSpec


-----------------------------------------------------------------------------
(* The pairs of players two loops over a report come to *)

\* The number of a pair tells its two parts.
LEMMA DivisionIsUnique ==
    ASSUME NEW n \in Nat \ {0}, NEW q \in Nat, NEW d \in Nat, NEW r \in 0 .. n - 1, NEW m \in 0 .. n - 1,
           n * q + r = n * d + m
    PROVE  q = d /\ r = m
<1>1. ASSUME NEW x \in Nat, NEW y \in Nat, x < y
      PROVE  n * x + n <= n * y
  <2>1. x + 1 <= y /\ n * (x + 1) = n * x + n
    BY <1>1
  <2>2. n * (x + 1) <= n * y
    BY <2>1
  <2>. QED
    BY <2>1, <2>2
<1>2. n * q \in Nat /\ n * d \in Nat
  OBVIOUS
<1>3. ~(q < d) /\ ~(d < q)
  BY <1>1, <1>2
<1>. QED
  BY <1>2, <1>3

\* Every pair of places in the report is the pair of one number.
LEMMA PairExists ==
    ASSUME Sound, NEW a \in DOMAIN report, NEW b \in DOMAIN report
    PROVE  \E k \in Nat \ {0} : /\ k <= Len(report) * Len(report)
                                /\ Pair(k) = <<report[a].profile, report[b].profile>>
<1>. DEFINE n == Len(report)
            j == n * (a - 1) + (b - 1)
            q == j \div n
            r == j % n
<1>1. n \in Nat /\ a \in 1 .. n /\ b \in 1 .. n
  BY DEF Sound, ProgressTyped
<1>. HIDE DEF n
<1>2. n \in Nat \ {0} /\ a - 1 \in Nat /\ a - 1 < n /\ b - 1 \in 0 .. n - 1
  BY <1>1
<1>3. j \in Nat /\ j < n * n
  <2>1. n * (a - 1) \in Nat
    BY <1>2
  <2>2. n * (a - 1) + (b - 1) < n * n
    BY <1>2, Product
  <2>. QED
    BY <1>2, <2>1, <2>2
<1>4. q \in Nat /\ r \in 0 .. n - 1 /\ j = n * q + r
  <2>. HIDE DEF j
  <2>1. \A m \in Nat \ {0}, x \in Nat :
           /\ x \div m \in Nat /\ x % m \in 0 .. m - 1
           /\ x = m * (x \div m) + (x % m)
    BY Division
  <2>. QED
    BY <1>2, <1>3, <2>1, Zenon
<1>. HIDE DEF q, r
<1>5. q = a - 1 /\ r = b - 1
  BY <1>2, <1>4, DivisionIsUnique
<1>6. q + 1 = a /\ r + 1 = b
  BY <1>1, <1>5
<1>7. (j + 1) - 1 = j /\ j + 1 \in Nat \ {0} /\ j + 1 <= n * n
  <2>1. n * n \in Nat
    BY <1>2
  <2>. HIDE DEF j
  <2>. QED
    BY <1>3, <2>1
<1>. HIDE DEF j
<1>8. Pair(j + 1) = <<report[q + 1].profile, report[r + 1].profile>>
  BY <1>7 DEF Pair, q, r, n
<1>. QED
  BY <1>6, <1>7, <1>8 DEF n

\* Two players are met as one pair only, whatever others there are.
LEMMA PairOnce ==
    ASSUME Sound, NEW j \in Nat \ {0}, NEW k \in Nat \ {0}, Meets(j), Meets(k), Pair(j) = Pair(k)
    PROVE  j = k
<1>. DEFINE n == Len(report)
            q(x) == (x - 1) \div n
            r(x) == (x - 1) % n
<1>1. n \in Nat \ {0}
  <2>1. PICK a \in DOMAIN report : TRUE
    BY PairTyped DEF Meets
  <2>. QED
    BY <2>1 DEF Sound, ProgressTyped
<1>2. ASSUME NEW x \in Nat \ {0}, Meets(x)
      PROVE  /\ q(x) + 1 \in DOMAIN report /\ r(x) + 1 \in DOMAIN report
             /\ Pair(x) = <<report[q(x) + 1].profile, report[r(x) + 1].profile>>
             /\ q(x) \in Nat /\ r(x) \in 0 .. n - 1 /\ x - 1 = n * q(x) + r(x)
  <2>1. x <= n * n
    BY <1>2 DEF Meets
  <2>2. PICK a, b \in DOMAIN report :
           /\ a = q(x) + 1 /\ b = r(x) + 1
           /\ Pair(x) = <<report[a].profile, report[b].profile>>
    BY <2>1, PairTyped
  <2>3. x - 1 \in Nat
    OBVIOUS
  <2>4. \A m \in Nat \ {0}, y \in Nat :
           /\ y \div m \in Nat /\ y % m \in 0 .. m - 1
           /\ y = m * (y \div m) + (y % m)
    BY Division
  <2>5. q(x) \in Nat /\ r(x) \in 0 .. n - 1 /\ x - 1 = n * q(x) + r(x)
    BY <1>1, <2>3, <2>4, Zenon
  <2>. QED
    BY <2>2, <2>5
<1>. HIDE DEF n, q, r
<1>3. \A a, b \in DOMAIN report : report[a].profile = report[b].profile => a = b
  BY DEF Sound, Stages
<1>4. q(j) + 1 = q(k) + 1 /\ r(j) + 1 = r(k) + 1
  BY <1>2, <1>3
<1>5. q(j) = q(k) /\ r(j) = r(k)
  BY <1>1, <1>2, <1>4
<1>6. j - 1 = k - 1
  BY <1>2, <1>5
<1>. QED
  BY <1>6

\* Who has met another one has been met by it.
LEMMA PairsMutual ==
    ASSUME Sound, NEW k \in Nat \ {0}, Meets(k)
    PROVE  \E j \in Nat \ {0} : Meets(j) /\ Pair(j) = <<Pair(k)[2], Pair(k)[1]>>
<1>1. PICK a, b \in DOMAIN report : Pair(k) = <<report[a].profile, report[b].profile>>
  BY PairTyped DEF Meets
<1>2. PICK j \in Nat \ {0} : /\ j <= Len(report) * Len(report)
                             /\ Pair(j) = <<report[b].profile, report[a].profile>>
  BY PairExists
<1>. QED
  BY <1>1, <1>2 DEF Meets

-----------------------------------------------------------------------------
(* The inductive invariant of who has met whom *)

Mutual(T) == \A p, q \in Profiles : T.met[<<p, q>>] = T.met[<<q, p>>]

Met(pair) == \E k \in Nat \ {0} : k < i /\ Meets(k) /\ Pair(k) = pair

Meeting ==
    \A pair \in Profiles \X Profiles :
        work.met[pair] = stored.met[pair] + (IF Met(pair) THEN 1 ELSE 0)

FriendsStage ==
    /\ at = "meet" => link = "lost" \/ Meeting
    /\ at = "commit" /\ part = "friends" => link = "lost" \/ Mutual(work)
    /\ at \notin {"meet", "rollback"} /\ ~(at = "commit" /\ part = "friends")
          => work.met = stored.met

FriendsSound == ~bare => Mutual(stored) /\ FriendsStage

\* A step that finds the meetings as they are stored.
LEMMA SameMetKeeps ==
    ASSUME Sound, MatchNext, ~Meet, Mutual(stored), work.met = stored.met
    PROVE  Mutual(stored') /\ FriendsStage'
<1>1. work'.met = stored.met /\ stored'.met = stored.met
  BY Untouched
<1>2. Mutual(stored') /\ Mutual(work')
  BY <1>1 DEF Mutual
<1>3. Sound'
  BY SoundKept
<1>4. stored' \in Tables
  BY <1>3 DEF Sound, TablesTyped
<1>5. at' = "meet" => i' = 1 \/ link' = "lost"
  <2>1. CASE \/ Report \/ TestDatabase \/ BeginOff \/ BeginStart \/ Rank \/ Join
             \/ CommitFirst \/ CommitSecond \/ Fail \/ RollbackTransaction \/ Crash
    BY <2>1, BetweenStatements
  <2>2. CASE \/ Insert \/ Update \/ Award \/ DeleteLadder \/ FillLadder \/ Promote
             \/ JoinClan \/ JoinRank \/ ReadName \/ Lose
    BY <2>2 DEF Insert, Update, Award, DeleteLadder, FillLadder, Promote, JoinClan, JoinRank, ReadName,
                Goto, Lose, LinkLost
  <2>. QED
    BY <2>1, <2>2 DEF MatchNext
<1>6. i' = 1 => Meeting'
  <2>1. ASSUME i' = 1, NEW pair \in Profiles \X Profiles
        PROVE  work'.met[pair] = stored'.met[pair] + (IF Met(pair)' THEN 1 ELSE 0)
    <3>1. ~Met(pair)'
      BY <2>1 DEF Met
    <3>2. stored'.met[pair] \in Nat
      BY <1>4 DEF Tables
    <3>. QED
      BY <1>1, <3>1, <3>2
  <2>. QED
    BY <2>1 DEF Meeting
<1>. QED
  BY <1>1, <1>2, <1>5, <1>6 DEF FriendsStage

\* A pair is counted, and the last of them makes the numbers mutual.
LEMMA MeetCounts ==
    ASSUME Sound, FriendsSound, Meet, ~bare'
    PROVE  Mutual(stored') /\ FriendsStage'
<1>1. at = "meet" /\ i \in Nat \ {0} /\ part = "friends" /\ work \in Tables /\ stored \in Tables
  BY DEF Meet, Sound, ProgressTyped, Stages, TablesTyped
<1>2. ~bare
  BY BareStays DEF MatchNext
<1>3. Mutual(stored) /\ FriendsStage
  BY <1>2 DEF FriendsSound
<1>4. /\ stored' = stored
      /\ Pair(i) \in Profiles \X Profiles \/ ~Meets(i)
      /\ \/ link' = "lost"
         \/ /\ Meeting
            /\ work'.met = IF Meets(i) THEN [work.met EXCEPT ![Pair(i)] = @ + 1] ELSE work.met
  <2>1. CASE Meets(i)
    <3>1. Pair(i) \in Profiles \X Profiles
      BY <1>1, <2>1, PairTyped DEF Meets
    <3>. DEFINE new == [work EXCEPT !.met[Pair(i)] = @ + 1]
    <3>2. Write(new)
      BY <2>1 DEF Meet
    <3>3. /\ new \in Tables
          /\ new.met = [work.met EXCEPT ![Pair(i)] = @ + 1]
      BY <3>1, MetAgain
    <3>. HIDE DEF new
    <3>4. link = "up" /\ stored' = stored /\ work' = new
      BY <3>2, <3>3, Written
    <3>. QED
      BY <1>1, <1>3, <2>1, <3>1, <3>3, <3>4 DEF FriendsStage
  <2>2. CASE ~Meets(i)
    <3>1. UNCHANGED <<stored, work, link>>
      BY <2>2 DEF Meet, session
    <3>. QED
      BY <1>1, <1>3, <2>2, <3>1 DEF FriendsStage
  <2>. QED
    BY <2>1, <2>2
<1>5. Mutual(stored')
  BY <1>3, <1>4
<1>6. CASE link' = "lost"
  <2>1. Sound'
    BY SoundKept DEF MatchNext
  <2>2. work' = stored'
    BY <1>6, <2>1 DEF Sound, SessionAgrees
  <2>. QED
    BY <1>5, <1>6, <2>2 DEF FriendsStage
<1>7. CASE link' # "lost"
  <2>1. Meeting
    BY <1>4, <1>7
  <2>. DEFINE Now(pair) == Met(pair) \/ (Meets(i) /\ Pair(i) = pair)
  <2>2. \A pair : ~(Met(pair) /\ Meets(i) /\ Pair(i) = pair)
    BY <1>1, PairOnce DEF Met
  <2>3. ASSUME NEW pair \in Profiles \X Profiles
        PROVE  work'.met[pair] = stored'.met[pair] + (IF Now(pair) THEN 1 ELSE 0)
    <3>1. work.met \in [Profiles \X Profiles -> Nat] /\ stored.met[pair] \in Nat
      BY <1>1 DEF Tables
    <3>2. work.met[pair] = stored.met[pair] + (IF Met(pair) THEN 1 ELSE 0)
      BY <2>1 DEF Meeting
    <3>3. work'.met[pair] = IF Meets(i) /\ Pair(i) = pair THEN work.met[pair] + 1 ELSE work.met[pair]
      BY <1>4, <1>7, <3>1
    <3>4. CASE Meets(i) /\ Pair(i) = pair
      <4>1. ~Met(pair)
        BY <2>2, <3>4
      <4>. QED
        BY <1>4, <3>1, <3>2, <3>3, <3>4, <4>1
    <3>5. CASE ~(Meets(i) /\ Pair(i) = pair)
      BY <1>4, <3>1, <3>2, <3>3, <3>5
    <3>. QED
      BY <3>4, <3>5
  <2>4. CASE i <= Len(report) * Len(report)
    <3>1. at' = "meet" /\ i' = i + 1 /\ report' = report
      BY <2>4 DEF Meet, Goto
    <3>2. \A k : Meets(k)' = Meets(k) /\ Pair(k)' = Pair(k)
      BY <3>1 DEF Meets, Pair
    <3>3. ASSUME NEW pair PROVE Met(pair)' <=> Now(pair)
      <4>1. Met(pair)' <=> \E k \in Nat \ {0} : k < i + 1 /\ Meets(k) /\ Pair(k) = pair
        BY <3>1, <3>2 DEF Met
      <4>2. \A k \in Nat \ {0} : k < i + 1 <=> k < i \/ k = i
        BY <1>1
      <4>. QED
        BY <1>1, <4>1, <4>2 DEF Met
    <3>4. Meeting'
      BY <2>3, <3>3 DEF Meeting
    <3>. QED
      BY <1>5, <3>1, <3>4 DEF FriendsStage
  <2>5. CASE ~(i <= Len(report) * Len(report))
    <3>1. at' = "commit" /\ part' = part /\ ~Meets(i)
      BY <2>5 DEF Meet, Goto, Meets
    <3>2. \A k \in Nat \ {0} : Meets(k) => k < i
      <4>1. Len(report) * Len(report) \in Nat
        BY DEF Sound, ProgressTyped
      <4>. QED
        BY <1>1, <2>5, <4>1 DEF Meets
    <3>3. \A p, q : Met(<<p, q>>) => Met(<<q, p>>)
      <4>1. ASSUME NEW p, NEW q, Met(<<p, q>>) PROVE Met(<<q, p>>)
        <5>1. PICK k \in Nat \ {0} : Meets(k) /\ Pair(k) = <<p, q>>
          BY <4>1 DEF Met
        <5>2. PICK j \in Nat \ {0} : Meets(j) /\ Pair(j) = <<q, p>>
          BY <5>1, PairsMutual
        <5>. QED
          BY <3>2, <5>2 DEF Met
      <4>. QED
        BY <4>1
    <3>4. \A p, q \in Profiles : Now(<<p, q>>) <=> Now(<<q, p>>)
      BY <3>1, <3>3
    <3>5. \A p, q \in Profiles : stored'.met[<<p, q>>] = stored'.met[<<q, p>>]
      BY <1>5 DEF Mutual
    <3>. HIDE DEF Now
    <3>6. Mutual(work')
      <4>. SUFFICES ASSUME NEW p \in Profiles, NEW q \in Profiles
                    PROVE  work'.met[<<p, q>>] = work'.met[<<q, p>>]
        BY DEF Mutual
      <4>1. <<p, q>> \in Profiles \X Profiles /\ <<q, p>> \in Profiles \X Profiles
        OBVIOUS
      <4>2. /\ work'.met[<<p, q>>] = stored'.met[<<p, q>>] + (IF Now(<<p, q>>) THEN 1 ELSE 0)
            /\ work'.met[<<q, p>>] = stored'.met[<<q, p>>] + (IF Now(<<q, p>>) THEN 1 ELSE 0)
        BY <2>3, <4>1
      <4>. QED
        BY <3>4, <3>5, <4>2, Zenon
    <3>. QED
      BY <1>1, <1>5, <3>1, <3>6 DEF FriendsStage
  <2>. QED
    BY <2>4, <2>5
<1>. QED
  BY <1>6, <1>7

\* Every step keeps the third layer of the invariant.
LEMMA FriendsKept == Sound /\ FriendsSound /\ [MatchNext]_matchVars => FriendsSound'
<1>. SUFFICES ASSUME Sound, FriendsSound, [MatchNext]_matchVars, ~bare'
              PROVE  Mutual(stored') /\ FriendsStage'
  BY DEF FriendsSound
<1>1. Mutual(stored) /\ FriendsStage
  BY BareStays DEF FriendsSound
<1>2. CASE UNCHANGED matchVars
  <2>1. UNCHANGED <<stored, work, link, at, part, i, report>>
    BY <1>2 DEF matchVars, session, progress
  <2>2. Meeting' = Meeting
    BY <2>1 DEF Meeting, Met, Meets, Pair
  <2>. QED
    BY <1>1, <2>1, <2>2 DEF FriendsStage
<1>3. CASE Meet
  BY <1>3, MeetCounts
<1>4. CASE MatchNext /\ ~Meet /\ work.met = stored.met
  BY <1>1, <1>4, SameMetKeeps
<1>5. CASE MatchNext /\ ~Meet /\ work.met # stored.met
  <2>1. link = "up"
    BY <1>5 DEF Sound, SessionAgrees, SessionTypeOK
  <2>2. at \in {"meet", "rollback"} \/ (at = "commit" /\ part = "friends")
    BY <1>1, <1>5 DEF FriendsStage
  <2>3. at = "meet" => part = "friends"
    BY DEF Sound, Stages
  <2>4. CASE Fail /\ at = "meet"
    <3>1. at' = "rollback" /\ stored' = stored
      BY <2>1, <2>3, <2>4 DEF Fail, Goto, Refuse, FailsOnLink, session
    <3>. QED
      BY <1>1, <3>1 DEF FriendsStage
  <2>5. CASE RollbackTransaction \/ Crash
    <3>1. at' \in {"idle", "auto0", "rank"} /\ stored' = stored /\ work' = stored
      BY <2>5, Undone
    <3>. QED
      BY <1>1, <3>1 DEF FriendsStage
  <2>6. CASE Lose
    <3>1. link' = "lost" /\ stored' = stored /\ work' = stored
      BY <2>6 DEF Lose, LinkLost
    <3>. QED
      BY <1>1, <3>1 DEF FriendsStage
  <2>7. CASE CommitFirst /\ part = "friends"
    <3>1. at = "commit" /\ at' = "auto1" /\ stored' = work /\ work' = work
      BY <2>1, <2>7 DEF CommitFirst, Goto, Commit, FailsOnLink
    <3>2. Mutual(work)
      BY <1>1, <2>1, <2>7, <3>1 DEF FriendsStage
    <3>. QED
      BY <3>1, <3>2 DEF FriendsStage
  <2>8. \/ Fail /\ at = "meet"
        \/ RollbackTransaction \/ Lose \/ Crash
        \/ CommitFirst /\ part = "friends"
    BY <1>5, <2>2 DEF MatchNext, Report, BeginOff, BeginStart, Insert, Update, Award, DeleteLadder,
                      FillLadder, Rank, CommitFirst, CommitSecond, Fail, RollbackTransaction, TestDatabase, Promote,
                      Join, JoinClan, JoinRank, ReadName
  <2>. QED
    BY <2>4, <2>5, <2>6, <2>7, <2>8
<1>. QED
  BY <1>2, <1>3, <1>4, <1>5

\* It holds in every reachable state.
LEMMA AlwaysMutual == MatchSpec => []FriendsSound
<1>1. MatchInit => FriendsSound
  <2>1. ASSUME MatchInit PROVE Mutual(stored) /\ work = stored /\ at = "idle"
    BY <2>1, MatchBegins DEF Mutual, MatchInit
  <2>. QED
    BY <2>1 DEF FriendsSound, FriendsStage
<1>. QED
  BY <1>1, AlwaysSound, FriendsKept, PTL DEF MatchSpec

-----------------------------------------------------------------------------
(* Clans *)

ClanStage ==
    /\ at = "joinrank" => link = "lost" \/ work.clan
    /\ at # "joinrank" /\ ~(at = "rollback" /\ part = "clan") => work.clan = work.clanrank

ClanSound == ~bare => stored.clan = stored.clanrank /\ ClanStage

\* Every step keeps this layer of the invariant.
LEMMA ClanKept == Sound /\ ClanSound /\ [MatchNext]_matchVars => ClanSound'
<1>. SUFFICES ASSUME Sound, ClanSound, [MatchNext]_matchVars, ~bare'
              PROVE  stored'.clan = stored'.clanrank /\ ClanStage'
  BY DEF ClanSound
<1>1. stored.clan = stored.clanrank /\ ClanStage
  BY BareStays DEF ClanSound
<1>2. SessionTypeOK /\ SessionAgrees
  BY DEF Sound
<1>3. CASE UNCHANGED matchVars
  BY <1>1, <1>3 DEF ClanStage, matchVars, session, progress
<1>4. CASE JoinClan
  <2>1. work' = [work EXCEPT !.clan = TRUE] /\ stored' = stored /\ at' = "joinrank"
    BY <1>4, Joined, Written DEF JoinClan, Goto
  <2>. QED
    BY <1>1, <2>1, Joined DEF ClanStage
<1>5. CASE JoinRank
  <2>1. /\ work' = [work EXCEPT !.clanrank = TRUE] /\ stored' = stored /\ at' = "name" /\ link = "up"
    BY <1>5, Joined, Written DEF JoinRank, Goto
  <2>2. work.clan
    BY <1>1, <1>5, <2>1 DEF JoinRank, ClanStage
  <2>3. work.clan \in BOOLEAN
    BY DEF Sound, TablesTyped, Tables
  <2>. QED
    BY <1>1, <2>1, <2>2, <2>3, Joined DEF ClanStage
<1>6. CASE MatchNext /\ ~(JoinClan \/ JoinRank) /\ at \notin {"joinrank", "rollback"}
  <2>1. PICK new : /\ stored' \in {stored, work, new} /\ work' \in {stored, work, new}
                   /\ Rest(work, new)
    BY StepForms
  <2>2. work.clan = work.clanrank /\ new.clan = work.clan /\ new.clanrank = work.clanrank
    BY <1>1, <1>6, <2>1 DEF ClanStage, Rest, Clan
  <2>3. at' # "joinrank"
    <3>1. CASE \/ Report \/ TestDatabase \/ BeginOff \/ BeginStart \/ Rank \/ Join
               \/ CommitFirst \/ CommitSecond \/ Fail \/ RollbackTransaction \/ Crash
      BY <3>1, BetweenStatements
    <3>2. CASE \/ Insert \/ Update \/ Award \/ DeleteLadder \/ FillLadder \/ Meet \/ Promote
               \/ ReadName \/ Lose
      BY <1>6, <3>2 DEF Insert, Update, Award, DeleteLadder, FillLadder, Meet, Promote, ReadName,
                        Goto, Lose, progress
    <3>. QED
      BY <1>6, <3>1, <3>2 DEF MatchNext
  <2>. QED
    BY <1>1, <2>1, <2>2, <2>3 DEF ClanStage
<1>7. CASE MatchNext /\ ~(JoinClan \/ JoinRank) /\ at \in {"joinrank", "rollback"}
  <2>1. Fail \/ RollbackTransaction \/ Lose \/ Crash
    BY <1>7 DEF MatchNext, Report, TestDatabase, BeginOff, BeginStart, Insert, Update, Award,
                DeleteLadder, FillLadder, Rank, Promote, Meet, Join, ReadName, CommitFirst, CommitSecond
  <2>2. CASE Fail
    <3>1. /\ at = "joinrank" /\ part = "clan" /\ at' = "rollback" /\ part' = part
          /\ stored' = stored
      BY <1>7, <2>2 DEF Fail, Goto, Refuse, FailsOnLink, session, Sound, Stages
    <3>. QED
      BY <1>1, <3>1 DEF ClanStage
  <2>3. CASE RollbackTransaction \/ Crash
    BY <1>1, <2>3, Undone DEF ClanStage
  <2>4. CASE Lose
    BY <1>1, <2>4 DEF Lose, LinkLost, progress, ClanStage
  <2>. QED
    BY <2>1, <2>2, <2>3, <2>4
<1>. QED
  BY <1>3, <1>4, <1>5, <1>6, <1>7

\* It holds in every reachable state.
LEMMA AlwaysJoined == MatchSpec => []ClanSound
<1>1. MatchInit => ClanSound
  <2>1. ASSUME MatchInit PROVE stored.clan = stored.clanrank /\ work = stored /\ at = "idle"
    BY <2>1, MatchBegins DEF MatchInit
  <2>. QED
    BY <2>1 DEF ClanSound, ClanStage
<1>. QED
  BY <1>1, AlwaysSound, ClanKept, PTL DEF MatchSpec

\* Whatever fails, a report is in the database as a whole or not at all, and so is
\* a clan with the rank in it, unless the BEGIN of a transaction got lost unnoticed.
THEOREM WholeCorrect == MatchSpec => []ReportsAreWhole
<1>1. StatsSound /\ FriendsSound /\ ClanSound => ReportsAreWhole
  BY DEF StatsSound, FriendsSound, ClanSound, Sums, Mutual, ReportsAreWhole
<1>. QED
  BY AlwaysSums, AlwaysMutual, AlwaysJoined, <1>1, PTL


-----------------------------------------------------------------------------
(* The matches of a player that count: those no more than LadderMatches    *)
(* are as good as are the largest set of leading ones                      *)

Leading(mine) ==
    {s \in SUBSET mine : /\ Cardinality(s) <= LadderMatches
                         /\ \A a \in s, b \in mine \ s : a.score > b.score}

AsGood(a, mine) == {b \in mine : b.score >= a.score}

\* The matches with few as good as they are lead all others, and no set that leads is larger.
LEMMA LeadersLead ==
    ASSUME NEW mine, IsFiniteSet(mine), \A r \in mine : r.score \in Nat
    PROVE  LET few == {a \in mine : Cardinality(AsGood(a, mine)) <= LadderMatches}
           IN  few \in Leading(mine) /\ \A s \in Leading(mine) : s \in SUBSET few
<1>. DEFINE few == {a \in mine : Cardinality(AsGood(a, mine)) <= LadderMatches}
<1>1. LadderMatches \in Nat
  BY MatchAssumption
<1>2. ASSUME NEW a
      PROVE  IsFiniteSet(AsGood(a, mine)) /\ Cardinality(AsGood(a, mine)) \in Nat
  <2>1. AsGood(a, mine) \in SUBSET mine
    BY DEF AsGood
  <2>. QED
    BY <2>1, FS_Subset, FS_CardinalityType
<1>3. ASSUME NEW s \in Leading(mine), NEW a \in s
      PROVE  a \in few
  <2>1. s \in SUBSET mine /\ Cardinality(s) <= LadderMatches /\ IsFiniteSet(s)
    BY FS_Subset DEF Leading
  <2>2. \A b \in mine \ s : a.score > b.score /\ a.score \in Nat /\ b.score \in Nat
    BY <2>1 DEF Leading
  <2>3. AsGood(a, mine) \in SUBSET s
    BY <2>2 DEF AsGood
  <2>4. Cardinality(AsGood(a, mine)) <= Cardinality(s) /\ Cardinality(s) \in Nat
    BY <2>1, <2>3, FS_Subset, FS_CardinalityType
  <2>5. Cardinality(AsGood(a, mine)) <= LadderMatches
    BY <1>1, <1>2, <2>1, <2>4
  <2>. QED
    BY <2>1, <2>5
<1>4. ASSUME NEW a \in few, NEW b \in mine \ few
      PROVE  a.score > b.score
  <2>1. SUFFICES ASSUME b.score >= a.score PROVE FALSE
    OBVIOUS
  <2>2. \A c \in mine : c.score >= b.score => c.score >= a.score
    BY <2>1
  <2>3. AsGood(b, mine) \in SUBSET AsGood(a, mine)
    BY <2>2 DEF AsGood
  <2>4. Cardinality(AsGood(b, mine)) <= Cardinality(AsGood(a, mine))
    BY <1>2, <2>3, FS_Subset
  <2>5. Cardinality(AsGood(b, mine)) <= LadderMatches
    BY <1>1, <1>2, <2>4
  <2>. QED
    BY <2>5
<1>5. Cardinality(few) <= LadderMatches
  <2>1. CASE few = {}
    BY <1>1, <2>1, FS_EmptySet
  <2>2. CASE few # {}
    <3>. DEFINE scores == {a.score : a \in few}
    <3>1. scores \subseteq Nat /\ scores # {}
      BY <2>2
    <3>2. PICK least \in scores : \A m \in scores : least <= m
      BY <3>1, LeastNatural
    <3>3. PICK a \in few : least = a.score
      OBVIOUS
    <3>4. few \in SUBSET AsGood(a, mine)
      BY <3>2, <3>3 DEF AsGood
    <3>5. Cardinality(few) <= Cardinality(AsGood(a, mine)) /\ Cardinality(few) \in Nat
      BY <1>2, <3>4, FS_Subset, FS_CardinalityType
    <3>. QED
      BY <1>1, <1>2, <3>5
  <2>. QED
    BY <2>1, <2>2
<1>6. few \in Leading(mine)
  BY <1>4, <1>5 DEF Leading
<1>. QED
  BY <1>3, <1>6

\* The ladder query asks for the best matches.
LEMMA QueryIsBest ==
    ASSUME NEW rows \in SUBSET Row, NEW p \in Profiles, NEW day \in Nat, IsFiniteSet(RowsOf(p, rows))
    PROVE  LadderRows(p, rows, day) = BestMatches(p, rows, day)
<1>. DEFINE recent == RowsOf(p, Recent(rows, day))
            mine == {r \in RowsOf(p, rows) : r.score > 0 /\ day - r.day <= LadderDays}
            few == {a \in mine : Cardinality(AsGood(a, mine)) <= LadderMatches}
            top == CHOOSE s \in Leading(mine) : \A t \in Leading(mine) : Cardinality(t) <= Cardinality(s)
<1>1. \A r \in rows : r.day \in Nat /\ r.score \in Nat
  BY DEF Row
<1>2. recent = {r \in RowsOf(p, rows) : r.day + LadderDays >= day}
  BY DEF RowsOf, Recent
<1>3. mine = {r \in recent : r.score > 0}
  <2>1. LadderDays \in Nat
    BY MatchAssumption
  <2>2. \A r \in RowsOf(p, rows) : (r.day + LadderDays >= day) <=> (day - r.day <= LadderDays)
    BY <1>1, <2>1 DEF RowsOf
  <2>. QED
    BY <1>2, <2>2
<1>4. \A r \in recent : r.score \in Nat
  BY <1>1, <1>2 DEF RowsOf
<1>5. LadderRows(p, rows, day) = few
  <2>1. ASSUME NEW a \in recent, a.score > 0
        PROVE  {b \in recent : b.score >= a.score} = AsGood(a, mine)
    <3>1. \A b \in recent : b.score >= a.score => b.score > 0
      BY <1>4, <2>1
    <3>. QED
      BY <1>3, <3>1 DEF AsGood
  <2>2. LadderRows(p, rows, day) = {a \in recent : a.score > 0 /\
            Cardinality({b \in recent : b.score >= a.score}) <= LadderMatches}
    BY DEF LadderRows
  <2>3. few = {a \in recent : a.score > 0 /\ Cardinality(AsGood(a, mine)) <= LadderMatches}
    BY <1>3
  <2>. HIDE DEF recent, mine, few
  <2>. QED
    BY <2>1, <2>2, <2>3
<1>6. BestMatches(p, rows, day) = top
  BY DEF BestMatches, Leading
<1>7. IsFiniteSet(mine) /\ \A r \in mine : r.score \in Nat
  <2>1. mine \in SUBSET RowsOf(p, rows)
    OBVIOUS
  <2>2. IsFiniteSet(mine)
    BY <2>1, FS_Subset
  <2>. QED
    BY <1>3, <1>4, <2>2
<1>. HIDE DEF mine
<1>8. few \in Leading(mine) /\ \A s \in Leading(mine) : s \in SUBSET few
  BY <1>7, LeadersLead
<1>. HIDE DEF few
<1>9. IsFiniteSet(few)
  <2>1. few \in SUBSET mine
    BY <1>8 DEF Leading
  <2>. QED
    BY <1>7, <2>1, FS_Subset
<1>10. \A t \in Leading(mine) : Cardinality(t) <= Cardinality(few)
  BY <1>8, <1>9, FS_Subset
<1>11. top \in Leading(mine) /\ Cardinality(few) <= Cardinality(top)
  BY <1>8, <1>10
<1>. HIDE DEF top
<1>12. top \in SUBSET few /\ Cardinality(top) <= Cardinality(few) /\ IsFiniteSet(top)
  BY <1>8, <1>9, <1>11, FS_Subset
<1>13. Cardinality(top) \in Nat /\ Cardinality(few) \in Nat
  BY <1>9, <1>12, FS_CardinalityType
<1>14. Cardinality(few) = Cardinality(top)
  BY <1>11, <1>12, <1>13
<1>15. few = top
  BY <1>9, <1>12, <1>14, FS_Subset
<1>. QED
  BY <1>5, <1>6, <1>15

-----------------------------------------------------------------------------
(* Ladders, as far as they have been filled *)

Listed(ladder, rows, day) ==
    /\ \A j, k \in DOMAIN ladder : ladder[j].profile = ladder[k].profile => j = k
    /\ \A k \in DOMAIN ladder : /\ ladder[k] = Entry(ladder[k].profile, rows, day)
                                /\ LadderRows(ladder[k].profile, rows, day) # {}
    /\ \A j, k \in DOMAIN ladder : j < k => ladder[j].score >= ladder[k].score
    /\ \A k \in DOMAIN ladder, q \in Remaining(ladder, rows, day) :
          ladder[k].score >= LadderScore(LadderRows(q, rows, day))

Full(ladder, rows, day) == Listed(ladder, rows, day) /\ Remaining(ladder, rows, day) = {}

\* An empty ladder is sorted.
LEMMA NobodyListed ==
    ASSUME NEW rows, NEW day
    PROVE  Listed(<<>>, rows, day)
BY DEF Listed

\* Who is best of those left comes next on the ladder.
LEMMA BestIsNext ==
    ASSUME NEW ladder \in Seq(Place), NEW rows \in SUBSET Row, NEW day, Listed(ladder, rows, day),
           NEW p \in Best(ladder, rows, day)
    PROVE  Listed(Append(ladder, Entry(p, rows, day)), rows, day)
<1>. DEFINE n == Len(ladder)
            longer == Append(ladder, Entry(p, rows, day))
<1>1. /\ p \in Remaining(ladder, rows, day) /\ p \in Profiles
      /\ LadderRows(p, rows, day) # {}
      /\ \A k \in DOMAIN ladder : ladder[k].profile # p
      /\ \A q \in Remaining(ladder, rows, day) :
            LadderScore(LadderRows(p, rows, day)) >= LadderScore(LadderRows(q, rows, day))
  BY DEF Best, Remaining
<1>2. n \in Nat /\ DOMAIN ladder = 1 .. n /\ Entry(p, rows, day) \in Place
  BY <1>1, RowsTyped
<1>3. /\ DOMAIN longer = 1 .. n + 1
      /\ longer[n + 1] = Entry(p, rows, day)
      /\ \A k \in 1 .. n : longer[k] = ladder[k]
  BY <1>2
<1>4. Entry(p, rows, day).profile = p /\ Entry(p, rows, day).score = LadderScore(LadderRows(p, rows, day))
  BY DEF Entry
<1>. HIDE DEF longer
<1>5. \A k \in DOMAIN longer : k \in 1 .. n \/ k = n + 1
  BY <1>2, <1>3
<1>6. \A j, k \in DOMAIN longer : longer[j].profile = longer[k].profile => j = k
  BY <1>1, <1>2, <1>3, <1>4, <1>5 DEF Listed
<1>7. \A k \in DOMAIN longer : /\ longer[k] = Entry(longer[k].profile, rows, day)
                               /\ LadderRows(longer[k].profile, rows, day) # {}
  BY <1>1, <1>2, <1>3, <1>4, <1>5 DEF Listed
<1>8. Remaining(longer, rows, day) \subseteq Remaining(ladder, rows, day)
  <2>1. \A k \in DOMAIN ladder : k \in DOMAIN longer /\ longer[k] = ladder[k]
    BY <1>2, <1>3
  <2>. QED
    BY <2>1 DEF Remaining
<1>9. \A k \in 1 .. n : ladder[k].score >= Entry(p, rows, day).score
  BY <1>1, <1>2, <1>4 DEF Listed
<1>10. \A j, k \in DOMAIN longer : j < k => longer[j].score >= longer[k].score
  <2>. SUFFICES ASSUME NEW j \in DOMAIN longer, NEW k \in DOMAIN longer, j < k
                PROVE  longer[j].score >= longer[k].score
    OBVIOUS
  <2>1. j \in 1 .. n
    BY <1>2, <1>3
  <2>2. CASE k \in 1 .. n
    BY <1>2, <1>3, <2>1, <2>2 DEF Listed
  <2>3. CASE k = n + 1
    BY <1>3, <1>9, <2>1, <2>3
  <2>. QED
    BY <1>5, <2>2, <2>3
<1>11. \A k \in DOMAIN longer, q \in Remaining(longer, rows, day) :
           longer[k].score >= LadderScore(LadderRows(q, rows, day))
  <2>. SUFFICES ASSUME NEW k \in DOMAIN longer, NEW q \in Remaining(longer, rows, day)
                PROVE  longer[k].score >= LadderScore(LadderRows(q, rows, day))
    OBVIOUS
  <2>1. q \in Remaining(ladder, rows, day)
    BY <1>8
  <2>2. CASE k \in 1 .. n
    BY <1>2, <1>3, <2>1, <2>2 DEF Listed
  <2>3. CASE k = n + 1
    BY <1>1, <1>3, <1>4, <2>1, <2>3
  <2>. QED
    BY <1>5, <2>2, <2>3
<1>. QED
  BY <1>6, <1>7, <1>10, <1>11 DEF Listed, longer

\* One of the ladders the model may start with is full.
LEMMA LaddersAreFull ==
    ASSUME NEW rows \in SUBSET Row, NEW day, NEW ladder \in Ladders(rows, day)
    PROVE  Full(ladder, rows, day)
<1>. DEFINE everyone == Remaining(<<>>, rows, day)
            n == Cardinality(everyone)
            names == [k \in 1 .. n |-> ladder[k].profile]
<1>1. /\ ladder \in [1 .. n -> {Entry(p, rows, day) : p \in everyone}]
      /\ Remaining(ladder, rows, day) = {}
      /\ \A j, k \in DOMAIN ladder : j < k => ladder[j].score >= ladder[k].score
  BY DEF Ladders
<1>2. everyone = {p \in Profiles : LadderRows(p, rows, day) # {}}
  BY DEF Remaining
<1>3. IsFiniteSet(everyone) /\ n \in Nat
  <2>1. everyone \in SUBSET Profiles
    BY <1>2
  <2>2. IsFiniteSet(everyone)
    BY <2>1, MatchAssumption, FS_Subset, Zenon
  <2>. QED
    BY <2>2, FS_CardinalityType, Zenon
<1>. HIDE DEF n
<1>4. ASSUME NEW k \in 1 .. n
      PROVE  /\ ladder[k].profile \in everyone
             /\ ladder[k] = Entry(ladder[k].profile, rows, day)
  BY <1>1 DEF Entry
<1>5. \A p \in everyone : \E k \in 1 .. n : ladder[k].profile = p
  BY <1>1, <1>2 DEF Remaining
<1>. HIDE DEF everyone
<1>6. names \in Surjection(1 .. n, everyone)
  BY <1>4, <1>5 DEF Surjection
<1>7. IsFiniteSet(1 .. n) /\ Cardinality(1 .. n) = n
  <2>1. 1 \in Int /\ n \in Int
    BY <1>3
  <2>2. IsFiniteSet(1 .. n) /\ Cardinality(1 .. n) = IF 1 > n THEN 0 ELSE n - 1 + 1
    BY <2>1, FS_Interval, Zenon
  <2>. QED
    BY <1>3, <2>2
<1>8. names \in Injection(1 .. n, everyone)
  <2>. HIDE DEF names
  <2>. QED
    BY <1>3, <1>6, <1>7, FS_SurjSameCardinalityImpliesInj DEF n
<1>9. \A j, k \in 1 .. n : ladder[j].profile = ladder[k].profile => j = k
  BY <1>8 DEF Injection, IsInjective
<1>10. DOMAIN ladder = 1 .. n
  BY <1>1
<1>11. \A k \in 1 .. n : LadderRows(ladder[k].profile, rows, day) # {}
  BY <1>2, <1>4
<1>12. Listed(ladder, rows, day)
  BY <1>1, <1>4, <1>9, <1>10, <1>11 DEF Listed
<1>. QED
  BY <1>1, <1>12 DEF Full

\* A full ladder is the ladder of everyone's best matches.
LEMMA FullIsWhole ==
    ASSUME NEW rows \in SUBSET Row, NEW day \in Nat, NEW ladder \in Seq(Place),
           \A p \in Profiles : IsFiniteSet(RowsOf(p, rows)),
           Full(ladder, rows, day)
    PROVE  LET listed == {p \in Profiles : BestMatches(p, rows, day) # {}}
           IN  /\ {e.profile : e \in Range(ladder)} = listed
               /\ Len(ladder) = Cardinality(listed)
               /\ \A e \in Range(ladder) : e.score = LadderScore(BestMatches(e.profile, rows, day))
               /\ \A j, k \in DOMAIN ladder : j < k => ladder[j].score >= ladder[k].score
<1>. DEFINE listed == {p \in Profiles : BestMatches(p, rows, day) # {}}
            n == Len(ladder)
            names == [k \in 1 .. n |-> ladder[k].profile]
<1>1. \A p \in Profiles : LadderRows(p, rows, day) = BestMatches(p, rows, day)
  BY QueryIsBest
<1>2. n \in Nat /\ DOMAIN ladder = 1 .. n /\ ladder \in [1 .. n -> Place]
  OBVIOUS
<1>. HIDE DEF n
<1>3. \A k \in 1 .. n : ladder[k].profile \in Profiles
  BY <1>2 DEF Place
<1>4. \A k \in 1 .. n : ladder[k].profile \in listed
  BY <1>1, <1>2, <1>3 DEF Full, Listed
<1>5. \A p \in listed : \E k \in 1 .. n : ladder[k].profile = p
  BY <1>1, <1>2 DEF Full, Remaining
<1>6. \A j, k \in 1 .. n : ladder[j].profile = ladder[k].profile => j = k
  BY <1>2 DEF Full, Listed
<1>7. \A k \in 1 .. n : ladder[k].score = LadderScore(BestMatches(ladder[k].profile, rows, day))
  <2>1. \A k \in 1 .. n : ladder[k] = Entry(ladder[k].profile, rows, day)
    BY <1>2 DEF Full, Listed
  <2>2. \A p : Entry(p, rows, day).score = LadderScore(LadderRows(p, rows, day))
    BY DEF Entry
  <2>. QED
    BY <1>1, <1>3, <2>1, <2>2
<1>. HIDE DEF listed
<1>8. names \in Bijection(1 .. n, listed)
  BY <1>4, <1>5, <1>6 DEF Bijection, Injection, Surjection, IsInjective
<1>9. Cardinality(listed) = n
  <2>. HIDE DEF names
  <2>1. ExistsBijection(1 .. n, listed)
    BY <1>8 DEF ExistsBijection
  <2>. QED
    BY <1>2, <2>1, FS_CountingElements
<1>10. Range(ladder) = {ladder[k] : k \in 1 .. n}
  BY <1>2 DEF Range
<1>11. {e.profile : e \in Range(ladder)} = listed
  BY <1>4, <1>5, <1>10
<1>12. \A e \in Range(ladder) : e.score = LadderScore(BestMatches(e.profile, rows, day))
  BY <1>7, <1>10
<1>13. \A j, k \in DOMAIN ladder : j < k => ladder[j].score >= ladder[k].score
  BY DEF Full, Listed
<1>. QED
  BY <1>9, <1>11, <1>12, <1>13 DEF n, listed


-----------------------------------------------------------------------------
(* The inductive invariant of the ladder *)

Upto(rows, n) == {r \in rows : r.id <= n}

\* A ladder of the reports up to one of them, and not of the one being written.
Current(ladder, rows) ==
    \E n \in 0 .. reports, day \in 0 .. today :
        Full(ladder, Upto(rows, n), day) /\ (Reporting => n < reports)

LadderStage ==
    /\ at = "fill" => link = "lost" \/ Listed(work.ladder, work.rows, today)
    /\ at = "commit" /\ part = "ladder" => link = "lost" \/ Full(work.ladder, work.rows, today)
    /\ at \notin {"fill", "rollback"} /\ ~(at = "commit" /\ part = "ladder")
          => work.ladder = stored.ladder

LadderSound == ~bare => Current(stored.ladder, stored.rows) /\ LadderStage

-----------------------------------------------------------------------------
(* The steps that keep it *)

\* Rows get stored by the commit of the first transaction, and then they are new.
LEMMA RowsCommitted ==
    ASSUME Sound, StatsSound, [MatchNext]_matchVars, ~bare'
    PROVE  \/ stored'.rows = stored.rows
           \/ CommitFirst /\ part = "stats" /\ Added /\ Reporting /\ stored'.rows = work.rows
<1>1. ~bare /\ StatsStage
  BY BareStays DEF StatsSound
<1>2. CASE UNCHANGED matchVars
  BY <1>2 DEF matchVars, session
<1>3. CASE Insert \/ Update \/ Award
  <2>1. i \in DOMAIN report
    BY <1>3 DEF Insert, Update, Award, Sound, Stages
  <2>2. \E new \in Tables : Write(new)
    <3>1. CASE Insert
      BY <2>1, <3>1, Inserted DEF Insert, NewRow
    <3>2. CASE Update
      BY <2>1, <3>2, Updated DEF Update
    <3>3. CASE Award
      BY <2>1, <3>3, Awarded DEF Award
    <3>. QED
      BY <1>3, <3>1, <3>2, <3>3
  <2>. QED
    BY <2>2, Written
<1>4. CASE MatchNext /\ ~(Insert \/ Update \/ Award) /\ Stats(work) = Stats(stored)
  <2>1. Stats(stored') = Stats(stored)
    BY <1>4, Untouched
  <2>. QED
    BY <2>1, SumsOf
<1>5. CASE MatchNext /\ ~(Insert \/ Update \/ Award) /\ Stats(work) # Stats(stored)
  <2>1. link = "up"
    BY <1>5 DEF Sound, SessionAgrees, SessionTypeOK
  <2>2. at \in {"insert", "update", "award", "rollback"} \/ (at = "commit" /\ part = "stats")
    BY <1>1, <1>5 DEF StatsStage
  <2>3. \/ Fail \/ RollbackTransaction \/ Lose \/ Crash
        \/ CommitFirst /\ part = "stats"
    BY <1>5, <2>2 DEF MatchNext, Report, BeginOff, BeginStart, DeleteLadder, FillLadder, Rank, Meet,
                      CommitFirst, CommitSecond, Fail, RollbackTransaction, TestDatabase, Promote,
                      Join, JoinClan, JoinRank, ReadName
  <2>4. CASE Fail
    BY <2>4 DEF Fail, Refuse, FailsOnLink, session
  <2>5. CASE RollbackTransaction \/ Lose \/ Crash
    BY <2>5 DEF RollbackTransaction, Rollback, FailsOnLink, Lose, LinkLost, Crash, NewSession
  <2>6. CASE CommitFirst /\ part = "stats"
    <3>1. at = "commit" /\ stored' = work
      BY <2>1, <2>6 DEF CommitFirst, Commit, FailsOnLink
    <3>2. Added
      BY <1>1, <2>1, <2>6, <3>1 DEF StatsStage
    <3>. QED
      BY <2>6, <3>1, <3>2 DEF Reporting
  <2>. QED
    BY <2>3, <2>4, <2>5, <2>6
<1>. QED
  BY <1>2, <1>3, <1>4, <1>5

\* Reports are counted, and days go by.
LEMMA Later ==
    ASSUME Sound, [MatchNext]_matchVars
    PROVE  /\ reports \in Nat /\ reports' \in Nat /\ reports <= reports'
           /\ today \in Nat /\ today' \in Nat /\ today <= today'
           /\ Reporting' => Reporting \/ reports < reports'
<1>1. reports \in Nat /\ today \in 0 .. MaxDay /\ MaxDay \in Nat
  BY MatchAssumption DEF Sound, ProgressTyped
<1>2. CASE UNCHANGED matchVars
  BY <1>1, <1>2 DEF matchVars, progress, Reporting
<1>3. CASE Report
  BY <1>1, <1>3 DEF Report
<1>4. CASE Insert \/ Update \/ Award
  <2>1. Reporting /\ reports' = reports /\ today' = today
    BY <1>4 DEF Insert, Update, Award, Goto, Reporting, Sound, Stages
  <2>. QED
    BY <1>1, <2>1
<1>5. CASE MatchNext /\ ~Report /\ ~(Insert \/ Update \/ Award)
  <2>1. reports' = reports /\ today' = today
    <3>1. CASE \/ TestDatabase \/ BeginOff \/ BeginStart \/ Rank \/ Join
               \/ CommitFirst \/ CommitSecond \/ Fail \/ RollbackTransaction \/ Crash
      BY <1>5, <3>1, BetweenStatements
    <3>2. CASE DeleteLadder \/ FillLadder \/ Promote \/ Meet \/ JoinClan \/ JoinRank \/ ReadName \/ Lose
      BY <3>2 DEF DeleteLadder, FillLadder, Promote, Meet, JoinClan, JoinRank, ReadName, Lose, Goto, progress
    <3>. QED
      BY <1>5, <3>1, <3>2 DEF MatchNext
  <2>2. Reporting' => Reporting \/ reports' = reports + 1
    BY <1>5, Course
  <2>. QED
    BY <1>1, <2>1, <2>2
<1>. QED
  BY <1>2, <1>3, <1>4, <1>5

\* A stored ladder stays one of earlier reports.
LEMMA CurrentStays ==
    ASSUME Sound, StatsSound, [MatchNext]_matchVars, ~bare',
           Current(stored.ladder, stored.rows), stored'.ladder = stored.ladder
    PROVE  Current(stored.ladder, stored.rows)'
<1>1. PICK n \in 0 .. reports, day \in 0 .. today :
         Full(stored.ladder, Upto(stored.rows, n), day) /\ (Reporting => n < reports)
  BY DEF Current
<1>2. /\ reports \in Nat /\ reports' \in Nat /\ reports <= reports'
      /\ today \in Nat /\ today' \in Nat /\ today <= today'
      /\ Reporting' => Reporting \/ reports < reports'
  BY Later
<1>3. n \in 0 .. reports' /\ day \in 0 .. today' /\ (Reporting' => n < reports')
  BY <1>1, <1>2
<1>4. Upto(stored'.rows, n) = Upto(stored.rows, n)
  <2>1. CASE stored'.rows = stored.rows
    BY <2>1
  <2>2. CASE Added /\ Reporting /\ stored'.rows = work.rows
    <3>1. n \in Nat /\ n < reports
      BY <1>1, <1>2, <2>2
    <3>2. \A r \in work.rows \ stored.rows : ~(r.id <= n)
      BY <1>2, <2>2, <3>1 DEF Added
    <3>. QED
      BY <2>2, <3>2 DEF Added, Upto
  <2>. QED
    BY <2>1, <2>2, RowsCommitted
<1>5. Full(stored'.ladder, Upto(stored'.rows, n), day)
  BY <1>1, <1>4
<1>6. \E m \in 0 .. reports', d \in 0 .. today' :
         Full(stored'.ladder, Upto(stored'.rows, m), d) /\ (Reporting' => m < reports')
  BY <1>3, <1>5
<1>. QED
  BY <1>6 DEF Current

\* No other step writes the ladder.
LEMMA SameLadderKeeps ==
    ASSUME Sound, MatchNext, ~(DeleteLadder \/ FillLadder), work.ladder = stored.ladder
    PROVE  stored'.ladder = stored.ladder /\ LadderStage'
<1>1. work'.ladder = stored.ladder /\ stored'.ladder = stored.ladder
  BY Untouched
<1>2. at' = "fill" \/ (at' = "commit" /\ part' = "ladder") => link' = "lost"
  <2>1. CASE \/ Report \/ TestDatabase \/ BeginOff \/ BeginStart \/ Rank \/ Join
             \/ CommitFirst \/ CommitSecond \/ Fail \/ RollbackTransaction \/ Crash
    BY <2>1, BetweenStatements
  <2>2. CASE \/ Insert \/ Update \/ Award \/ Meet \/ Promote
             \/ JoinClan \/ JoinRank \/ ReadName \/ Lose
    BY <2>2 DEF Insert, Update, Award, Meet, Promote, JoinClan, JoinRank, ReadName,
                Goto, Lose, LinkLost, Sound, Stages
  <2>. QED
    BY <2>1, <2>2 DEF MatchNext
<1>. QED
  BY <1>1, <1>2 DEF LadderStage

\* The second transaction takes the ladder down and puts up another one.
LEMMA LadderWritten ==
    ASSUME Sound, StatsSound, LadderSound, DeleteLadder \/ FillLadder, ~bare'
    PROVE  stored' = stored /\ LadderStage'
<1>1. work \in Tables /\ part = "ladder"
  BY DEF DeleteLadder, FillLadder, Sound, TablesTyped, Stages
<1>2. ~bare /\ LadderStage
  BY BareStays DEF MatchNext, LadderSound
<1>3. work.ladder \in Seq(Place) /\ work.rows \in SUBSET Row
  BY <1>1 DEF Tables
<1>4. CASE DeleteLadder
  <2>. DEFINE new == [work EXCEPT !.ladder = <<>>]
  <2>1. Write(new) /\ Goto("fill", 1)
    BY <1>4 DEF DeleteLadder
  <2>2. new \in Tables /\ new.ladder = <<>>
    BY Cleared
  <2>. HIDE DEF new
  <2>3. stored' = stored /\ work' = new
    BY <2>1, <2>2, Written
  <2>4. at' = "fill" /\ part' = part
    BY <2>1 DEF Goto
  <2>5. Listed(work'.ladder, work'.rows, today')
    BY <2>2, <2>3, NobodyListed
  <2>. QED
    BY <2>3, <2>4, <2>5 DEF LadderStage
<1>5. CASE FillLadder
  <2>1. at = "fill"
    BY <1>5 DEF FillLadder
  <2>2. ASSUME NEW p \in Best(work.ladder, work.rows, today),
               Write([work EXCEPT !.ladder = Append(@, Entry(p, work.rows, today))]),
               Goto("fill", i + 1)
        PROVE  stored' = stored /\ LadderStage'
    <3>. DEFINE new == [work EXCEPT !.ladder = Append(@, Entry(p, work.rows, today))]
    <3>1. p \in Profiles
      BY DEF Best, Remaining
    <3>2. /\ new \in Tables /\ new.rows = work.rows
          /\ new.ladder = Append(work.ladder, Entry(p, work.rows, today))
      BY <3>1, Filled
    <3>3. Write(new)
      BY <2>2
    <3>. HIDE DEF new
    <3>4. stored' = stored /\ work' = new /\ link = "up"
      BY <3>2, <3>3, Written
    <3>5. at' = "fill" /\ part' = part /\ today' = today
      BY <2>2 DEF Goto
    <3>6. Listed(work.ladder, work.rows, today)
      BY <1>2, <2>1, <3>4 DEF LadderStage
    <3>7. Listed(work'.ladder, work'.rows, today')
      BY <1>3, <3>2, <3>4, <3>5, <3>6, BestIsNext
    <3>. QED
      BY <3>4, <3>5, <3>7 DEF LadderStage
  <2>3. ASSUME Remaining(work.ladder, work.rows, today) = {}, Write(work), Goto("commit", 1)
        PROVE  stored' = stored /\ LadderStage'
    <3>1. stored' = stored /\ work' = work /\ link = "up"
      BY <1>1, <2>3, Written
    <3>2. at' = "commit" /\ part' = part /\ today' = today
      BY <2>3 DEF Goto
    <3>3. Listed(work.ladder, work.rows, today)
      BY <1>2, <2>1, <3>1 DEF LadderStage
    <3>4. Full(work'.ladder, work'.rows, today')
      BY <2>3, <3>1, <3>2, <3>3 DEF Full
    <3>. QED
      BY <1>1, <3>1, <3>2, <3>4 DEF LadderStage
  <2>. QED
    BY <1>5, <2>2, <2>3 DEF FillLadder
<1>. QED
  BY <1>4, <1>5

\* The ladder that is committed is one of all the reports there have been.
LEMMA LadderCommitted ==
    ASSUME Sound, StatsSound, LadderSound, CommitFirst, part = "ladder", link = "up", ~bare
    PROVE  Current(stored.ladder, stored.rows)' /\ LadderStage'
<1>1. /\ at = "commit" /\ at' = "auto1" /\ part' = part /\ stored' = work /\ work' = work
      /\ reports' = reports /\ today' = today
  BY DEF CommitFirst, Goto, Commit, FailsOnLink
<1>2. Full(work.ladder, work.rows, today)
  BY <1>1 DEF LadderSound, LadderStage
<1>3. Stats(work) = Stats(stored) /\ Dated
  BY <1>1 DEF StatsSound, StatsStage
<1>4. work.rows = stored.rows
  BY <1>3, SumsOf
<1>5. Upto(work.rows, reports) = work.rows
  BY <1>3, <1>4 DEF Dated, Upto
<1>6. reports \in 0 .. reports /\ today \in 0 .. today /\ ~Reporting'
  <2>1. reports \in Nat /\ today \in Nat
    BY MatchAssumption DEF Sound, ProgressTyped
  <2>. QED
    BY <1>1, <2>1 DEF Reporting
<1>7. \E n \in 0 .. reports', day \in 0 .. today' :
         Full(stored'.ladder, Upto(stored'.rows, n), day) /\ (Reporting' => n < reports')
  BY <1>1, <1>2, <1>5, <1>6
<1>8. Current(stored.ladder, stored.rows)'
  BY <1>7 DEF Current
<1>. QED
  BY <1>1, <1>8 DEF LadderStage

\* Every step keeps the last layer of the invariant.
LEMMA LadderKept == Sound /\ StatsSound /\ LadderSound /\ [MatchNext]_matchVars => LadderSound'
<1>. SUFFICES ASSUME Sound, StatsSound, LadderSound, [MatchNext]_matchVars, ~bare'
              PROVE  Current(stored.ladder, stored.rows)' /\ LadderStage'
  BY DEF LadderSound
<1>1. ~bare /\ Current(stored.ladder, stored.rows) /\ LadderStage
  BY BareStays DEF LadderSound
<1>2. CASE UNCHANGED matchVars
  <2>1. UNCHANGED <<stored, work, link, at, part, today>>
    BY <1>2 DEF matchVars, session, progress
  <2>2. Current(stored.ladder, stored.rows)'
    BY <1>1, <2>1, CurrentStays
  <2>. QED
    BY <1>1, <2>1, <2>2 DEF LadderStage
<1>3. CASE DeleteLadder \/ FillLadder
  <2>1. stored' = stored /\ LadderStage'
    BY <1>3, LadderWritten
  <2>. QED
    BY <1>1, <2>1, CurrentStays
<1>4. CASE MatchNext /\ ~(DeleteLadder \/ FillLadder) /\ work.ladder = stored.ladder
  <2>1. stored'.ladder = stored.ladder /\ LadderStage'
    BY <1>4, SameLadderKeeps
  <2>. QED
    BY <1>1, <2>1, CurrentStays
<1>5. CASE MatchNext /\ ~(DeleteLadder \/ FillLadder) /\ work.ladder # stored.ladder
  <2>1. link = "up"
    BY <1>5 DEF Sound, SessionAgrees, SessionTypeOK
  <2>2. at \in {"fill", "rollback"} \/ (at = "commit" /\ part = "ladder")
    BY <1>1, <1>5 DEF LadderStage
  <2>3. at = "fill" => part = "ladder"
    BY DEF Sound, Stages
  <2>4. \/ Fail /\ at = "fill"
        \/ RollbackTransaction \/ Lose \/ Crash
        \/ CommitFirst /\ part = "ladder"
    BY <1>5, <2>2 DEF MatchNext, Report, BeginOff, BeginStart, Insert, Update, Award, Rank, Meet,
                      CommitFirst, CommitSecond, Fail, RollbackTransaction, TestDatabase, Promote,
                      Join, JoinClan, JoinRank, ReadName
  <2>5. CASE CommitFirst /\ part = "ladder"
    BY <1>1, <2>1, <2>5, LadderCommitted
  <2>6. CASE ~(CommitFirst /\ part = "ladder")
    <3>1. CASE Fail /\ at = "fill"
      <4>1. at' = "rollback" /\ stored' = stored
        BY <2>1, <2>3, <3>1 DEF Fail, Goto, Refuse, FailsOnLink, session
      <4>. QED
        BY <1>1, <4>1, CurrentStays DEF LadderStage
    <3>2. CASE RollbackTransaction \/ Crash
      <4>1. at' \in {"idle", "auto0", "rank"} /\ stored' = stored /\ work' = stored
        BY <3>2, Undone
      <4>. QED
        BY <1>1, <4>1, CurrentStays DEF LadderStage
    <3>3. CASE Lose
      <4>1. link' = "lost" /\ stored' = stored /\ work' = stored
        BY <3>3 DEF Lose, LinkLost
      <4>. QED
        BY <1>1, <4>1, CurrentStays DEF LadderStage
    <3>. QED
      BY <2>4, <2>6, <3>1, <3>2, <3>3
  <2>. QED
    BY <2>5, <2>6
<1>. QED
  BY <1>2, <1>3, <1>4, <1>5

\* The ladder the server is started with is a whole one.
LEMMA LadderBegin == MatchInit => LadderSound
<1>. SUFFICES ASSUME MatchInit PROVE LadderSound
  OBVIOUS
<1>1. stored = work /\ stored.rows = Past /\ stored.ladder \in Ladders(Past, 0)
  BY MatchBegins
<1>2. at = "idle" /\ reports = 0 /\ today = 0
  BY DEF MatchInit
<1>3. Full(stored.ladder, Past, 0)
  BY <1>1, PastTyped, LaddersAreFull
<1>4. Upto(Past, 0) = Past
  <2>1. \A r \in Past : r.id \in Int /\ r.id < 0
    BY PastTyped DEF Row
  <2>. QED
    BY <2>1 DEF Upto
<1>5. 0 \in 0 .. reports /\ 0 \in 0 .. today /\ ~Reporting
  BY <1>2 DEF Reporting
<1>6. Current(stored.ladder, stored.rows)
  BY <1>1, <1>3, <1>4, <1>5 DEF Current
<1>7. LadderStage
  BY <1>1, <1>2 DEF LadderStage
<1>. QED
  BY <1>6, <1>7 DEF LadderSound

\* The last layer holds in every reachable state.
LEMMA AlwaysListed == MatchSpec => []LadderSound
BY LadderBegin, AlwaysSound, AlwaysSums, LadderKept, PTL DEF MatchSpec

\* Players never see half a ladder: what is stored is the ladder of the reports up
\* to one of them, everyone's best matches, best player first.
THEOREM LadderCorrect == MatchSpec => []LadderIsWhole
<1>1. ASSUME Sound, StatsSound, LadderSound, ~bare
      PROVE  \E n \in 0 .. reports, day \in 0 .. today :
                LET rows == {r \in stored.rows : r.id <= n}
                    listed == {p \in Profiles : BestMatches(p, rows, day) # {}}
                IN  /\ {e.profile : e \in Range(stored.ladder)} = listed
                    /\ Len(stored.ladder) = Cardinality(listed)
                    /\ \A e \in Range(stored.ladder) :
                        e.score = LadderScore(BestMatches(e.profile, rows, day))
                    /\ \A j, k \in DOMAIN stored.ladder :
                        j < k => stored.ladder[j].score >= stored.ladder[k].score
  <2>1. PICK n \in 0 .. reports, day \in 0 .. today : Full(stored.ladder, Upto(stored.rows, n), day)
    BY <1>1 DEF LadderSound, Current
  <2>. DEFINE rows == Upto(stored.rows, n)
  <2>2. stored \in Tables
    BY <1>1 DEF Sound, TablesTyped
  <2>3. rows \in SUBSET Row /\ stored.ladder \in Seq(Place) /\ day \in Nat
    <3>1. today \in Nat
      BY <1>1, MatchAssumption DEF Sound, ProgressTyped
    <3>. QED
      BY <2>2, <3>1 DEF Tables, Upto
  <2>4. \A p \in Profiles : IsFiniteSet(RowsOf(p, rows))
    <3>1. ASSUME NEW p \in Profiles PROVE IsFiniteSet(RowsOf(p, rows))
      <4>1. IsFiniteSet(RowsOf(p, stored.rows))
        BY <1>1 DEF StatsSound, Kept
      <4>2. RowsOf(p, rows) \in SUBSET RowsOf(p, stored.rows)
        BY DEF RowsOf, Upto
      <4>. QED
        BY <4>1, <4>2, FS_Subset
    <3>. QED
      BY <3>1
  <2>5. rows = {r \in stored.rows : r.id <= n}
    BY DEF Upto
  <2>. HIDE DEF rows
  <2>6. LET listed == {p \in Profiles : BestMatches(p, rows, day) # {}}
        IN  /\ {e.profile : e \in Range(stored.ladder)} = listed
            /\ Len(stored.ladder) = Cardinality(listed)
            /\ \A e \in Range(stored.ladder) : e.score = LadderScore(BestMatches(e.profile, rows, day))
            /\ \A j, k \in DOMAIN stored.ladder : j < k => stored.ladder[j].score >= stored.ladder[k].score
    <3>1. Full(stored.ladder, rows, day)
      BY <2>1 DEF rows
    <3>. QED
      BY <2>3, <2>4, <3>1, FullIsWhole
  <2>. QED
    BY <2>5, <2>6, Zenon
<1>2. Sound /\ StatsSound /\ LadderSound => LadderIsWhole
  BY <1>1 DEF LadderIsWhole
<1>. QED
  BY AlwaysSound, AlwaysSums, AlwaysListed, <1>2, PTL

=============================================================================
