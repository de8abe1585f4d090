-------------------------- MODULE RiskScoring_proofs --------------------------
(***************************************************************************)
(* Theorems about RiskScoring, for all suppliers, observations and         *)
(* earthquakes, and whichever way floats break ties.                       *)
(*                                                                         *)
(* The inductive invariant is that the assessment is one that the engine   *)
(* makes of the present window; the properties then follow from what       *)
(* rounding does to one number (RoundNear, RoundMonotone).                 *)
(***************************************************************************)
EXTENDS RiskScoring, TLAPS

-------------------------------------------------------------------------------
(* Rounding.                                                               *)

Denominator == {40, 100, 365}

(* A score s over d is at most half a hundredth from the fraction n/d.     *)
NearHalf(s, n, d) == 2 * (d * s - n) <= d /\ 2 * (n - d * s) <= d

(* A rounded score is at most half a hundredth from the fraction.          *)
LEMMA RoundNear ==
  \A n \in Int, d \in Denominator, up \in BOOLEAN :
    Round(n, d, up) \in Int /\ NearHalf(Round(n, d, up), n, d)
<1> SUFFICES ASSUME NEW n \in Int, NEW d \in Denominator, NEW up \in BOOLEAN
             PROVE  Round(n, d, up) \in Int /\ NearHalf(Round(n, d, up), n, d)
  OBVIOUS
<1>1. CASE d = 40
  BY <1>1, SMTT(30) DEF Round, NearHalf
<1>2. CASE d = 100
  BY <1>2, SMTT(30) DEF Round, NearHalf
<1>3. CASE d = 365
  BY <1>3, SMTT(30) DEF Round, NearHalf
<1> QED
  BY <1>1, <1>2, <1>3 DEF Denominator

(* A smaller fraction never rounds to a larger score, whatever the ties.   *)
LEMMA RoundMonotone ==
  \A n, m \in Int, d \in Denominator, u, v \in BOOLEAN :
    n < m => Round(n, d, u) <= Round(m, d, v)
<1> SUFFICES ASSUME NEW n \in Int, NEW m \in Int, NEW d \in Denominator,
                    NEW u \in BOOLEAN, NEW v \in BOOLEAN, n < m
             PROVE  Round(n, d, u) <= Round(m, d, v)
  OBVIOUS
<1>1. CASE d = 40
  BY <1>1, SMTT(30) DEF Round
<1>2. CASE d = 100
  BY <1>2, SMTT(30) DEF Round
<1>3. CASE d = 365
  BY <1>3, SMTT(30) DEF Round
<1> QED
  BY <1>1, <1>2, <1>3 DEF Denominator

(* A fraction over d between 0 and 100 points.                             *)
Scored(n, d) == n \in Int /\ 0 <= n /\ n <= 10000 * d

(* What lies between 0 and 100 points rounds to a score.                   *)
LEMMA RoundScore ==
  \A n \in Int, d \in Denominator, up \in BOOLEAN :
    Scored(n, d) => Round(n, d, up) \in Score
<1> SUFFICES ASSUME NEW n \in Int, NEW d \in Denominator, NEW up \in BOOLEAN,
                    Scored(n, d)
             PROVE  Round(n, d, up) \in Score
  OBVIOUS
<1>1. CASE d = 40
  BY <1>1, SMTT(30) DEF Round, Score, Scored
<1>2. CASE d = 100
  BY <1>2, SMTT(30) DEF Round, Score, Scored
<1>3. CASE d = 365
  BY <1>3, SMTT(30) DEF Round, Score, Scored
<1> QED
  BY <1>1, <1>2, <1>3 DEF Denominator

LEMMA ScoreMeaning ==
  \A x \in Score : x \in Int /\ 0 <= x /\ x <= 10000
BY SMT DEF Score

-------------------------------------------------------------------------------
(* Hazards.                                                                *)

Between(x, top) == x \in Int /\ 0 <= x /\ x <= top

LEMMA ClampBounds ==
  ASSUME NEW x \in Int, NEW top \in Nat
  PROVE  Between(Clamp(x, top), top)
BY DEF Clamp, Between

LEMMA StructuralBounds ==
  \A s \in Profile : Scored(Structural(s), 365)
<1> SUFFICES ASSUME NEW s \in Profile PROVE Scored(Structural(s), 365)
  OBVIOUS
<1>1. s \in [criticality : Criticality, dependency : 0..100,
             single : 0..1, leadTime : Nat]
  BY ScoringAssumption
<1>2. /\ s.criticality \in Criticality /\ s.dependency \in 0..100
      /\ s.single \in 0..1 /\ s.leadTime \in Nat
  BY <1>1
<1>3. Between(s.criticality, 100) /\ Between(s.dependency, 100) /\ Between(s.single, 1)
  BY <1>2, SMT DEF Between, Criticality
<1>4. Between(Clamp(s.leadTime, 365), 365)
  BY <1>2, ClampBounds
<1> DEFINE c == s.criticality  d == s.dependency  o == s.single  l == Clamp(s.leadTime, 365)
<1>5. Structural(s) = 365 * (30 * c + 35 * d + 2000 * o) + 1500 * l
  BY DEF Structural
<1>6. Between(c, 100) /\ Between(d, 100) /\ Between(o, 1) /\ Between(l, 365)
  BY <1>3, <1>4
<1> HIDE DEF c, d, o, l
<1> QED
  BY <1>5, <1>6, SMT DEF Between, Scored

LEMMA WeatherBounds ==
  \A o \in Weather : Scored(WeatherHazard(o), 100) /\ o.up \in BOOLEAN
<1> SUFFICES ASSUME NEW o \in Weather
             PROVE  Scored(WeatherHazard(o), 100) /\ o.up \in BOOLEAN
  OBVIOUS
<1>1. o \in [wind : Nat, gust : Nat, rain : Nat, snow : Nat, up : BOOLEAN]
  BY ScoringAssumption
<1>2. /\ o.wind \in Nat /\ o.gust \in Nat /\ o.rain \in Nat /\ o.snow \in Nat
      /\ o.up \in BOOLEAN
  BY <1>1
<1> DEFINE w == Clamp(o.wind, 10000)  g == Clamp(o.gust, 14000)
           r == Clamp(o.rain, 5000)   n == Clamp(o.snow, 3000)
<1>3. Between(w, 10000) /\ Between(g, 14000) /\ Between(r, 5000) /\ Between(n, 3000)
  <2>1. Between(w, 10000)
    BY <1>2, ClampBounds
  <2>2. Between(g, 14000)
    BY <1>2, ClampBounds
  <2>3. Between(r, 5000)
    BY <1>2, ClampBounds
  <2>4. Between(n, 3000)
    BY <1>2, ClampBounds
  <2> QED
    BY <2>1, <2>2, <2>3, <2>4, SMT
<1>4. WeatherHazard(o) = 25 * w + 25 * g + 50 * r + 50 * n
  BY SMT DEF WeatherHazard
<1> HIDE DEF w, g, r, n
<1>5. Scored(WeatherHazard(o), 100)
  BY <1>3, <1>4, SMT DEF Between, Scored
<1> QED
  BY <1>2, <1>5

LEMMA ProductBounds ==
  ASSUME NEW a, NEW b, Between(a, 400), Between(b, 1000)
  PROVE  Scored(a * b, 40)
<1>1. /\ a \in Int /\ 0 <= a /\ 0 <= 400 - a
      /\ b \in Int /\ 0 <= b /\ b <= 1000
  BY SMT DEF Between
<1>2. \A x, y \in Int : 0 <= x /\ 0 <= y => 0 <= x * y
  BY SMT
<1>3. 0 <= a * b /\ 0 <= (400 - a) * b
  BY <1>1, <1>2, SMT
<1>4. (400 - a) * b = 400 * b - a * b /\ a * b \in Int
  BY <1>1, SMT
<1> QED
  BY <1>1, <1>3, <1>4, SMT DEF Scored

LEMMA SeismicBounds ==
  \A q \in Quake : Scored(SeismicHazard(q), 40) /\ q.up \in BOOLEAN
<1> SUFFICES ASSUME NEW q \in Quake
             PROVE  Scored(SeismicHazard(q), 40) /\ q.up \in BOOLEAN
  OBVIOUS
<1>1. q \in [magnitude : Int, distance : 0..1000, up : BOOLEAN]
  BY ScoringAssumption
<1>2. q.magnitude \in Int /\ q.distance \in 0..1000 /\ q.up \in BOOLEAN
  BY <1>1
<1>3. q.magnitude - 300 \in Int /\ 400 \in Nat
  BY <1>2
<1>4. Between(1000 - q.distance, 1000)
  <2> DEFINE d == q.distance
  <2>1. d \in 0..1000
    BY <1>2
  <2> HIDE DEF d
  <2>2. Between(1000 - d, 1000)
    BY <2>1, SMT DEF Between
  <2> QED
    BY <2>2 DEF d
<1>5. Between(Clamp(q.magnitude - 300, 400), 400)
  BY <1>3, ClampBounds
<1>6. Scored(SeismicHazard(q), 40)
  BY <1>4, <1>5, ProductBounds DEF SeismicHazard
<1> QED
  BY <1>2, <1>6

-------------------------------------------------------------------------------
(* Assessments.                                                            *)

LEMMA FamilyScores ==
  /\ \A s \in Profile : StructuralScore(s) \in Score
  /\ \A W \in SUBSET Weather : Highest(WeatherScores(W)) \subseteq Score
  /\ \A Q \in SUBSET Quake : Highest(SeismicScores(Q)) \subseteq Score
<1>1. ASSUME NEW s \in Profile PROVE StructuralScore(s) \in Score
  <2>1. Scored(Structural(s), 365) /\ Structural(s) \in Int
    BY StructuralBounds DEF Scored
  <2> DEFINE n == Structural(s)
  <2>2. Scored(n, 365) /\ n \in Int
    BY <2>1
  <2> HIDE DEF n
  <2>3. Round(n, 365, FALSE) \in Score
    BY <2>2, SMTT(30) DEF Round, Scored, Score
  <2> QED
    BY <2>3 DEF StructuralScore, n
<1>2. ASSUME NEW o \in Weather PROVE Round(WeatherHazard(o), 100, o.up) \in Score
  <2>1. Scored(WeatherHazard(o), 100) /\ WeatherHazard(o) \in Int /\ o.up \in BOOLEAN
    BY WeatherBounds DEF Scored
  <2> QED
    BY <2>1, RoundScore DEF Denominator
<1>3. ASSUME NEW q \in Quake PROVE Round(SeismicHazard(q), 40, q.up) \in Score
  <2>1. Scored(SeismicHazard(q), 40) /\ SeismicHazard(q) \in Int /\ q.up \in BOOLEAN
    BY SeismicBounds DEF Scored
  <2> QED
    BY <2>1, RoundScore DEF Denominator
<1>4. 0 \in Score
  BY SMT DEF Score
<1>5. ASSUME NEW W \in SUBSET Weather PROVE WeatherScores(W) \subseteq Score
  BY <1>2, <1>4 DEF WeatherScores
<1>6. ASSUME NEW Q \in SUBSET Quake PROVE SeismicScores(Q) \subseteq Score
  BY <1>3, <1>4 DEF SeismicScores
<1> QED
  BY <1>1, <1>5, <1>6 DEF Highest

LEMMA WeightedBounds ==
  \A s, w, e \in Score : Scored(Weighted(s, w, e), 100)
BY ScoreMeaning, SMT DEF Weighted, Scored

(* The engine makes a valid record of family scores.                       *)
LEMMA AssessedIsAssessment ==
  \A s, w, e \in Score : \A a \in Assessed(s, w, e) :
    /\ a \in Assessment
    /\ a.structural = s /\ a.weather = w /\ a.seismic = e
    /\ a.risk = Round(Weighted(s, w, e), 100, <<s, w, e>> \in TiesUp)
    /\ a.dominant \in DominantFactors(s, w, e)
<1> SUFFICES ASSUME NEW s \in Score, NEW w \in Score, NEW e \in Score,
                    NEW a \in Assessed(s, w, e)
             PROVE  /\ a \in Assessment
                    /\ a.structural = s /\ a.weather = w /\ a.seismic = e
                    /\ a.risk = Round(Weighted(s, w, e), 100, <<s, w, e>> \in TiesUp)
                    /\ a.dominant \in DominantFactors(s, w, e)
  OBVIOUS
<1> DEFINE score == Round(Weighted(s, w, e), 100, <<s, w, e>> \in TiesUp)
<1>1. Scored(Weighted(s, w, e), 100) /\ Weighted(s, w, e) \in Int
  BY WeightedBounds DEF Scored
<1>2. score \in Score
  <2>1. 100 \in Denominator /\ (<<s, w, e>> \in TiesUp) \in BOOLEAN
    BY DEF Denominator
  <2> QED
    BY <1>1, <2>1, RoundScore
<1>3. PICK f \in DominantFactors(s, w, e) :
        a = [structural |-> s, weather |-> w, seismic |-> e,
             risk |-> score, level |-> RiskLevel(score), dominant |-> f]
  BY DEF Assessed
<1>4. f \in Family
  BY DEF DominantFactors
<1> HIDE DEF score
<1>5. RiskLevel(score) \in Level
  BY DEF RiskLevel, Level
<1>6. a \in Assessment
  BY <1>2, <1>3, <1>4, <1>5 DEF Assessment
<1> QED
  BY <1>3, <1>6 DEF score

-------------------------------------------------------------------------------
(* Rounding the worst event is the same as rounding the worst hazard.      *)

Raw(O, h) == {0} \cup {h[o] : o \in O}
Rounded(O, h, up, d) == {0} \cup {Round(h[o], d, up[o]) : o \in O}

LEMMA HighestNear ==
  ASSUME NEW O, NEW d \in Denominator, NEW h \in [O -> Int], NEW up \in [O -> BOOLEAN],
         NEW w \in Highest(Rounded(O, h, up, d)), NEW x \in Highest(Raw(O, h))
  PROVE  w \in Int /\ x \in Int /\ NearHalf(w, x, d)
<1> DEFINE R(o) == Round(h[o], d, up[o])
<1>1. \A o \in O : h[o] \in Int /\ up[o] \in BOOLEAN
  OBVIOUS
<1>2. \A o \in O : R(o) \in Int /\ NearHalf(R(o), h[o], d)
  BY <1>1, RoundNear
<1>3. /\ w \in {0} \cup {R(o) : o \in O} /\ \A o \in O : R(o) <= w
      /\ 0 <= w
  BY DEF Highest, Rounded
<1>4. /\ x \in {0} \cup {h[o] : o \in O} /\ \A o \in O : h[o] <= x
      /\ 0 <= x
  BY DEF Highest, Raw
<1> HIDE DEF R
<1>5. d \in Int /\ 0 < d
  BY SMT DEF Denominator
<1>6. w \in Int /\ x \in Int
  BY <1>1, <1>2, <1>3, <1>4
<1>7. 2 * (d * w - x) <= d
  <2>1. CASE w = 0
    BY <2>1, <1>4, <1>5, <1>6, SMT
  <2>2. ASSUME NEW o \in O, w = R(o) PROVE 2 * (d * w - x) <= d
    <3>1. 2 * (d * w - h[o]) <= d /\ h[o] <= x /\ h[o] \in Int
      BY <2>2, <1>1, <1>2, <1>4 DEF NearHalf
    <3>2. d * w \in Int
      BY <1>5, <1>6
    <3> QED
      BY <3>1, <3>2, <1>5, <1>6, SMT
  <2> QED
    BY <2>1, <2>2, <1>3
<1>8. 2 * (x - d * w) <= d
  <2>1. \A a \in Int : d * a \in Int
    BY <1>5, SMT
  <2>2. \A a, b \in Int : a <= b => d * a <= d * b
    <3>1. CASE d = 40
      BY <3>1, SMT
    <3>2. CASE d = 100
      BY <3>2, SMT
    <3>3. CASE d = 365
      BY <3>3, SMT
    <3> QED
      BY <3>1, <3>2, <3>3 DEF Denominator
  <2>3. CASE x = 0
    <3>1. 0 <= d * w
      BY <2>2, <1>3, <1>5, <1>6, SMT
    <3> QED
      BY <3>1, <2>1, <2>3, <1>5, <1>6, SMT
  <2>4. ASSUME NEW o \in O, x = h[o] PROVE 2 * (x - d * w) <= d
    <3>1. 2 * (x - d * R(o)) <= d /\ R(o) \in Int /\ R(o) <= w
      BY <2>4, <1>2, <1>3 DEF NearHalf
    <3>2. d * R(o) <= d * w /\ d * R(o) \in Int /\ d * w \in Int
      BY <3>1, <2>1, <2>2, <1>6
    <3> QED
      BY <3>1, <3>2, <1>5, <1>6, SMT
  <2> QED
    BY <2>3, <2>4, <1>4
<1> QED
  BY <1>6, <1>7, <1>8 DEF NearHalf

LEMMA WeatherNear ==
  \A W \in SUBSET Weather :
    \A w \in Highest(WeatherScores(W)),
       x \in Highest({0} \cup {WeatherHazard(o) : o \in W}) :
      x \in Int /\ NearHalf(w, x, 100)
<1> SUFFICES ASSUME NEW W \in SUBSET Weather, NEW w \in Highest(WeatherScores(W)),
                    NEW x \in Highest({0} \cup {WeatherHazard(o) : o \in W})
             PROVE  x \in Int /\ NearHalf(w, x, 100)
  OBVIOUS
<1> DEFINE h == [o \in W |-> WeatherHazard(o)]
           u == [o \in W |-> o.up]
<1>1. h \in [W -> Int] /\ u \in [W -> BOOLEAN]
  BY WeatherBounds DEF Scored
<1>2. {0} \cup {WeatherHazard(o) : o \in W} = Raw(W, h)
  BY DEF Raw
<1>3. WeatherScores(W) = Rounded(W, h, u, 100)
  BY DEF WeatherScores, Rounded
<1>4. 100 \in Denominator
  BY DEF Denominator
<1> HIDE DEF h, u
<1>5. w \in Highest(Rounded(W, h, u, 100)) /\ x \in Highest(Raw(W, h))
  BY <1>2, <1>3
<1> QED
  BY <1>1, <1>4, <1>5, HighestNear

LEMMA SeismicNear ==
  \A Q \in SUBSET Quake :
    \A e \in Highest(SeismicScores(Q)),
       x \in Highest({0} \cup {SeismicHazard(q) : q \in Q}) :
      x \in Int /\ NearHalf(e, x, 40)
<1> SUFFICES ASSUME NEW Q \in SUBSET Quake, NEW e \in Highest(SeismicScores(Q)),
                    NEW x \in Highest({0} \cup {SeismicHazard(q) : q \in Q})
             PROVE  x \in Int /\ NearHalf(e, x, 40)
  OBVIOUS
<1> DEFINE h == [q \in Q |-> SeismicHazard(q)]
           u == [q \in Q |-> q.up]
<1>1. h \in [Q -> Int] /\ u \in [Q -> BOOLEAN]
  BY SeismicBounds DEF Scored
<1>2. {0} \cup {SeismicHazard(q) : q \in Q} = Raw(Q, h)
  BY DEF Raw
<1>3. SeismicScores(Q) = Rounded(Q, h, u, 40)
  BY DEF SeismicScores, Rounded
<1>4. 40 \in Denominator
  BY DEF Denominator
<1> HIDE DEF h, u
<1>5. e \in Highest(Rounded(Q, h, u, 40)) /\ x \in Highest(Raw(Q, h))
  BY <1>2, <1>3
<1> QED
  BY <1>1, <1>4, <1>5, HighestNear

-------------------------------------------------------------------------------
(* The inductive invariant.                                                *)

Inputs == supplier \in Profile /\ weather \subseteq Weather /\ quakes \subseteq Quake

(* The assessment is one the engine makes of the present window.           *)
ScoringInv == Inputs /\ assessment \in Assess(supplier, weather, quakes)

(* Every reachable assessment is up to date with its window.               *)
THEOREM InvCorrect == Spec => []ScoringInv
<1>1. Init => ScoringInv
  BY DEF Init, ScoringInv, Inputs
<1>2. ScoringInv /\ [Next]_vars => ScoringInv'
  <2> SUFFICES ASSUME ScoringInv, [Next]_vars PROVE ScoringInv'
    OBVIOUS
  <2> USE DEF ScoringInv, Inputs
  <2>1. ASSUME NEW o \in Weather \ weather, ObserveWeather(o) PROVE ScoringInv'
    BY <2>1 DEF ObserveWeather, Reassess
  <2>2. ASSUME NEW q \in Quake \ quakes, ObserveQuake(q) PROVE ScoringInv'
    BY <2>2 DEF ObserveQuake, Reassess
  <2>3. CASE Lapse
    BY <2>3 DEF Lapse, Reassess
  <2>4. CASE UNCHANGED vars
    BY <2>4 DEF vars
  <2> QED
    BY <2>1, <2>2, <2>3, <2>4 DEF Next
<1> QED
  BY <1>1, <1>2, PTL DEF Spec

(* What the invariant says of the parts of an assessment.                  *)
Parts ==
  LET s == assessment.structural
      w == assessment.weather
      e == assessment.seismic
  IN  /\ assessment \in Assessment
      /\ s = StructuralScore(supplier)
      /\ w \in Highest(WeatherScores(weather))
      /\ e \in Highest(SeismicScores(quakes))
      /\ assessment.risk = Round(Weighted(s, w, e), 100, <<s, w, e>> \in TiesUp)
      /\ assessment.dominant \in DominantFactors(s, w, e)

LEMMA AssessmentParts == ScoringInv => Parts
<1> SUFFICES ASSUME ScoringInv PROVE Parts
  OBVIOUS
<1>1. PICK w \in Highest(WeatherScores(weather)), e \in Highest(SeismicScores(quakes)) :
        assessment \in Assessed(StructuralScore(supplier), w, e)
  BY DEF ScoringInv, Assess
<1>2. StructuralScore(supplier) \in Score /\ w \in Score /\ e \in Score
  BY <1>1, FamilyScores DEF ScoringInv, Inputs
<1>3. /\ assessment \in Assessment
      /\ assessment.structural = StructuralScore(supplier)
      /\ assessment.weather = w /\ assessment.seismic = e
      /\ assessment.risk =
           Round(Weighted(StructuralScore(supplier), w, e), 100,
                 <<StructuralScore(supplier), w, e>> \in TiesUp)
      /\ assessment.dominant \in DominantFactors(StructuralScore(supplier), w, e)
  BY <1>1, <1>2, AssessedIsAssessment
<1> QED
  BY <1>1, <1>3 DEF Parts

(* Every assessment the engine makes is accepted by the record it is put   *)
(* into: all scores lie between 0 and 100.                                 *)
THEOREM TypeCorrect == Spec => []TypeOK
<1>1. ScoringInv => TypeOK
  BY AssessmentParts DEF Parts, ScoringInv, Inputs, TypeOK
<1> QED
  BY <1>1, InvCorrect, PTL

-------------------------------------------------------------------------------
(* Properties.                                                             *)

(* The exact hazards of a window and the scores the engine gave them.      *)
LEMMA PartsNear ==
  ASSUME ScoringInv, NEW w \in ExactWeather, NEW e \in ExactSeismic
  PROVE  /\ w \in Int /\ e \in Int /\ Structural(supplier) \in Int
         /\ NearHalf(assessment.structural, Structural(supplier), 365)
         /\ NearHalf(assessment.weather, w, 100)
         /\ NearHalf(assessment.seismic, e, 40)
<1>1. /\ assessment.structural = StructuralScore(supplier)
      /\ assessment.weather \in Highest(WeatherScores(weather))
      /\ assessment.seismic \in Highest(SeismicScores(quakes))
  BY AssessmentParts DEF Parts
<1>2. Structural(supplier) \in Int
  BY StructuralBounds DEF Scored, ScoringInv, Inputs
<1>3. NearHalf(assessment.structural, Structural(supplier), 365)
  <2> DEFINE n == Structural(supplier)
  <2>1. n \in Int
    BY <1>2
  <2> HIDE DEF n
  <2>2. NearHalf(Round(n, 365, FALSE), n, 365)
    BY <2>1, SMTT(30) DEF Round, NearHalf
  <2> QED
    BY <1>1, <2>2 DEF StructuralScore, n
<1>4. w \in Int /\ NearHalf(assessment.weather, w, 100)
  BY <1>1, WeatherNear DEF ExactWeather, ScoringInv, Inputs
<1>5. e \in Int /\ NearHalf(assessment.seismic, e, 40)
  BY <1>1, SeismicNear DEF ExactSeismic, ScoringInv, Inputs
<1> QED
  BY <1>2, <1>3, <1>4, <1>5

(* Rounding twice moves a risk score by at most one hundredth.             *)
THEOREM NearExact == Spec => []ScoreNearExact
<1>1. ScoringInv => ScoreNearExact
  <2> SUFFICES ASSUME ScoringInv, NEW w \in ExactWeather, NEW e \in ExactSeismic
               PROVE  Near(73000 * assessment.risk,
                           100 * Structural(supplier) + 219 * w + 365 * e, 73000)
    BY DEF ScoreNearExact
  <2> DEFINE x == Structural(supplier)
             s == assessment.structural  a == assessment.weather
             b == assessment.seismic     r == assessment.risk
  <2>1. /\ s \in Score /\ a \in Score /\ b \in Score /\ r \in Score
        /\ r = Round(Weighted(s, a, b), 100, <<s, a, b>> \in TiesUp)
    BY AssessmentParts DEF Parts, Assessment
  <2>2. /\ w \in Int /\ e \in Int /\ x \in Int
        /\ NearHalf(s, x, 365) /\ NearHalf(a, w, 100) /\ NearHalf(b, e, 40)
    BY PartsNear
  <2>3. s \in Int /\ a \in Int /\ b \in Int /\ r \in Int
    BY <2>1, ScoreMeaning
  <2>4. NearHalf(r, Weighted(s, a, b), 100)
    <3>1. Weighted(s, a, b) \in Int
      BY <2>3 DEF Weighted
    <3>2. 100 \in Denominator /\ (<<s, a, b>> \in TiesUp) \in BOOLEAN
      BY DEF Denominator
    <3> HIDE DEF s, a, b, r
    <3> QED
      BY <2>1, <3>1, <3>2, RoundNear
  <2> HIDE DEF x, s, a, b, r
  <2>5. Near(73000 * r, 100 * x + 219 * w + 365 * e, 73000)
    BY <2>2, <2>3, <2>4, SMT DEF NearHalf, Weighted, Near
  <2> QED
    BY <2>5 DEF x, r
<1> QED
  BY <1>1, InvCorrect, PTL

(* The dominant factor is within half a hundredth of the largest exact     *)
(* contribution.                                                           *)
THEOREM DominantCorrect == Spec => []DominantContributesMost
<1>1. ScoringInv => DominantContributesMost
  <2> SUFFICES ASSUME ScoringInv, NEW w \in ExactWeather, NEW e \in ExactSeismic
               PROVE  LET exact == [structural |-> 100 * Structural(supplier),
                                    weather |-> 219 * w, seismic |-> 365 * e]
                      IN  \A f \in Family :
                            exact[f] - exact[assessment.dominant] < 36500
    BY DEF DominantContributesMost
  <2> DEFINE x == Structural(supplier)
             s == assessment.structural  a == assessment.weather
             b == assessment.seismic     d == assessment.dominant
             exact == [structural |-> 100 * x, weather |-> 219 * w, seismic |-> 365 * e]
             c == Contribution(s, a, b)
  <2>1. /\ s \in Int /\ a \in Int /\ b \in Int
        /\ d \in Family /\ \A g \in Family : c[g] <= c[d]
    BY AssessmentParts, ScoreMeaning DEF Parts, Assessment, DominantFactors
  <2>2. /\ w \in Int /\ e \in Int /\ x \in Int
        /\ NearHalf(s, x, 365) /\ NearHalf(a, w, 100) /\ NearHalf(b, e, 40)
    BY PartsNear
  <2>3. /\ c["structural"] = 50 * s /\ c["weather"] = 30 * a /\ c["seismic"] = 20 * b
        /\ exact["structural"] = 100 * x /\ exact["weather"] = 219 * w
        /\ exact["seismic"] = 365 * e
    BY DEF Contribution
  <2> HIDE DEF x, s, a, b, d, exact, c
  <2>4. \A f \in Family : exact[f] - exact[d] < 36500
    <3>1. CASE d = "structural"
      <4>1. 30 * a <= 50 * s /\ 20 * b <= 50 * s
        BY <2>1, <2>3, <3>1 DEF Family
      <4>2. /\ 100 * x - 100 * x < 36500 /\ 219 * w - 100 * x < 36500
            /\ 365 * e - 100 * x < 36500
        BY <2>1, <2>2, <4>1, SMT DEF NearHalf
      <4> QED
        BY <2>3, <3>1, <4>2, SMT DEF Family
    <3>2. CASE d = "weather"
      <4>1. 50 * s <= 30 * a /\ 20 * b <= 30 * a
        BY <2>1, <2>3, <3>2 DEF Family
      <4>2. /\ 100 * x - 219 * w < 36500 /\ 219 * w - 219 * w < 36500
            /\ 365 * e - 219 * w < 36500
        BY <2>1, <2>2, <4>1, SMT DEF NearHalf
      <4> QED
        BY <2>3, <3>2, <4>2, SMT DEF Family
    <3>3. CASE d = "seismic"
      <4>1. 50 * s <= 20 * b /\ 30 * a <= 20 * b
        BY <2>1, <2>3, <3>3 DEF Family
      <4>2. /\ 100 * x - 365 * e < 36500 /\ 219 * w - 365 * e < 36500
            /\ 365 * e - 365 * e < 36500
        BY <2>1, <2>2, <4>1, SMT DEF NearHalf
      <4> QED
        BY <2>3, <3>3, <4>2, SMT DEF Family
    <3> QED
      BY <2>1, <3>1, <3>2, <3>3 DEF Family
  <2> QED
    BY <2>4 DEF exact, x, d
<1> QED
  BY <1>1, InvCorrect, PTL

(* A larger set has no smaller maximum.                                    *)
LEMMA HighestGrows ==
  ASSUME NEW S, NEW T, S \subseteq T, NEW x \in Highest(S), NEW y \in Highest(T)
  PROVE  x <= y
BY DEF Highest

LEMMA ScoresGrow ==
  /\ \A V, W \in SUBSET Weather :
       V \subseteq W => WeatherScores(V) \subseteq WeatherScores(W)
  /\ \A P, Q \in SUBSET Quake :
       P \subseteq Q => SeismicScores(P) \subseteq SeismicScores(Q)
BY DEF WeatherScores, SeismicScores

(* The weighted sum rounds monotonically: it either grows, or no family    *)
(* has changed and the tie falls as before.                                *)
LEMMA RiskGrows ==
  \A s, a, b, w, e \in Score :
    a <= w /\ b <= e =>
      Round(Weighted(s, a, b), 100, <<s, a, b>> \in TiesUp)
        <= Round(Weighted(s, w, e), 100, <<s, w, e>> \in TiesUp)
<1> SUFFICES ASSUME NEW s \in Score, NEW a \in Score, NEW b \in Score,
                    NEW w \in Score, NEW e \in Score, a <= w, b <= e
             PROVE  Round(Weighted(s, a, b), 100, <<s, a, b>> \in TiesUp)
                      <= Round(Weighted(s, w, e), 100, <<s, w, e>> \in TiesUp)
  OBVIOUS
<1>1. s \in Int /\ a \in Int /\ b \in Int /\ w \in Int /\ e \in Int
  BY ScoreMeaning
<1>2. /\ Weighted(s, a, b) \in Int /\ Weighted(s, w, e) \in Int
      /\ Weighted(s, a, b) < Weighted(s, w, e) \/ (a = w /\ b = e)
  BY <1>1, SMT DEF Weighted
<1>3. /\ 100 \in Denominator
      /\ (<<s, a, b>> \in TiesUp) \in BOOLEAN /\ (<<s, w, e>> \in TiesUp) \in BOOLEAN
  BY DEF Denominator
<1>4. CASE Weighted(s, a, b) < Weighted(s, w, e)
  <2> DEFINE n == Weighted(s, a, b)
             m == Weighted(s, w, e)
             u == <<s, a, b>> \in TiesUp
             v == <<s, w, e>> \in TiesUp
  <2>1. n \in Int /\ m \in Int /\ n < m
    BY <1>2, <1>4
  <2>2. u \in BOOLEAN /\ v \in BOOLEAN
    BY <1>3
  <2> HIDE DEF n, m, u, v
  <2>3. Round(n, 100, u) <= Round(m, 100, v)
    BY <1>3, <2>1, <2>2, RoundMonotone, SMT
  <2> QED
    BY <2>3 DEF n, m, u, v
<1>5. CASE a = w /\ b = e
  <2>1. Round(Weighted(s, w, e), 100, <<s, w, e>> \in TiesUp) \in Int
    BY <1>2, <1>3, RoundNear
  <2>2. \A i \in Int : i <= i
    OBVIOUS
  <2> QED
    BY <1>5, <2>1, <2>2
<1> QED
  BY <1>2, <1>4, <1>5

(* As long as no event lapses, an event more lowers neither the score of a *)
(* family nor the risk score.                                              *)
THEOREM EvidenceNeverLowers == Spec => MoreEvidenceNeverLowers
<1>1. /\ ScoringInv /\ ScoringInv' /\ supplier' = supplier
      /\ weather \subseteq weather' /\ quakes \subseteq quakes'
      => /\ assessment.weather <= assessment'.weather
         /\ assessment.seismic <= assessment'.seismic
         /\ assessment.risk <= assessment'.risk
  <2> SUFFICES ASSUME ScoringInv, ScoringInv', supplier' = supplier,
                      weather \subseteq weather', quakes \subseteq quakes'
               PROVE  /\ assessment.weather <= assessment'.weather
                      /\ assessment.seismic <= assessment'.seismic
                      /\ assessment.risk <= assessment'.risk
    OBVIOUS
  <2> DEFINE s == assessment.structural
             a == assessment.weather  b == assessment.seismic
             w == assessment'.weather e == assessment'.seismic
  <2>1. /\ s \in Score /\ a \in Score /\ b \in Score
        /\ s = StructuralScore(supplier)
        /\ a \in Highest(WeatherScores(weather)) /\ b \in Highest(SeismicScores(quakes))
        /\ assessment.risk = Round(Weighted(s, a, b), 100, <<s, a, b>> \in TiesUp)
    BY AssessmentParts DEF Parts, Assessment
  <2>2. /\ w \in Score /\ e \in Score /\ assessment'.structural = s
        /\ w \in Highest(WeatherScores(weather')) /\ e \in Highest(SeismicScores(quakes'))
        /\ assessment'.risk = Round(Weighted(s, w, e), 100, <<s, w, e>> \in TiesUp)
    <3>1. Parts'
      BY AssessmentParts, PTL
    <3> QED
      BY <3>1, <2>1 DEF Parts, Assessment
  <2>3. /\ WeatherScores(weather) \subseteq WeatherScores(weather')
        /\ SeismicScores(quakes) \subseteq SeismicScores(quakes')
    BY ScoresGrow DEF ScoringInv, Inputs
  <2> HIDE DEF s, a, b, w, e
  <2>4. a <= w /\ b <= e
    BY <2>1, <2>2, <2>3, HighestGrows
  <2>5. assessment.risk <= assessment'.risk
    BY <2>1, <2>2, <2>4, RiskGrows
  <2> QED
    BY <2>4, <2>5 DEF a, b, w, e
<1>2. [Next]_vars => supplier' = supplier
  BY DEF Next, ObserveWeather, ObserveQuake, Lapse, Reassess, vars
<1>3. ScoringInv /\ ScoringInv' /\ [Next]_vars =>
        [weather \subseteq weather' /\ quakes \subseteq quakes' =>
           /\ assessment.weather <= assessment'.weather
           /\ assessment.seismic <= assessment'.seismic
           /\ assessment.risk <= assessment'.risk]_vars
  BY <1>1, <1>2
<1> QED
  BY <1>3, InvCorrect, PTL DEF Spec, MoreEvidenceNeverLowers

===============================================================================
