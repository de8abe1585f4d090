----------------------------- MODULE RiskScoring ------------------------------
(***************************************************************************)
(* The arithmetic of the supplier risk model (SupplierRiskEngine.assess).  *)
(* Scores are in hundredths of a point.  Inputs are decimals with two      *)
(* places, distances whole kilometres, so that every score is an exact     *)
(* fraction before it is rounded; the code computes it in floats, whose    *)
(* error is far smaller than the distance of any such fraction to a        *)
(* rounding boundary, except on the boundary itself.  There the float      *)
(* decides: every input says in "up" which way it falls.                   *)
(***************************************************************************)
EXTENDS Integers

CONSTANTS Profile,  \* what a supplier's record says about the supplier
          Weather,  \* weather observations relevant to it, with their tie
          Quake,    \* earthquakes within the radius, with their tie
          TiesUp    \* the family scores whose weighted sum ties and goes up

Score == 0..10000
Criticality == {25, 50, 75, 100}
Family == {"structural", "weather", "seismic"}
Level  == {"low", "medium", "high", "critical"}

ASSUME ScoringAssumption ==
  /\ Profile \subseteq [criticality : Criticality, dependency : 0..100,
                        single : 0..1, leadTime : Nat]
  /\ Weather \subseteq [wind : Nat, gust : Nat, rain : Nat, snow : Nat, up : BOOLEAN]
  /\ Quake \subseteq [magnitude : Int, distance : 0..1000, up : BOOLEAN]

Assessment ==
  [structural : Score, weather : Score, seismic : Score,
   risk : Score, level : Level, dominant : Family]

VARIABLES supplier,    \* the supplier assessed
          weather,     \* the relevant observations in the window
          quakes,      \* the relevant earthquakes in the window
          assessment   \* what the engine says of them

vars == <<supplier, weather, quakes, assessment>>

TypeOK ==
  /\ supplier \in Profile
  /\ weather \subseteq Weather
  /\ quakes \subseteq Quake
  /\ assessment \in Assessment

-------------------------------------------------------------------------------
(* Exact hazards, as numerators of a score.                                *)

(* Variant: the values are not clamped at their thresholds.                *)
ClampBelow(x, top) == IF x < 0 THEN 0 ELSE x

Clamp(x, top) == IF x < 0 THEN 0 ELSE IF x > top THEN top ELSE x

Structural(s) ==  \* over 365
  365 * (30 * s.criticality + 35 * s.dependency + 2000 * s.single)
    + 1500 * Clamp(s.leadTime, 365)

WeatherHazard(o) ==  \* over 100
  25 * Clamp(o.wind, 10000) + 25 * Clamp(o.gust, 14000)
    + 50 * Clamp(o.rain, 5000) + 50 * Clamp(o.snow, 3000)

SeismicHazard(q) ==  \* over 40
  Clamp(q.magnitude - 300, 400) * (1000 - q.distance)

Weighted(structural, w, e) ==  \* over 100
  50 * structural + 30 * w + 20 * e

-------------------------------------------------------------------------------
(* Rounding.                                                               *)

(* Variant: scores are truncated.                                          *)
Truncated(n, d, up) == n \div d

(* The integer nearest to n/d.                                             *)
Round(n, d, up) ==
  IF 2 * (n % d) > d \/ (2 * (n % d) = d /\ up) THEN n \div d + 1 ELSE n \div d

(* Variant: the last event of the window stands for it, not the worst.     *)
AnyOf(S) == S

Highest(S) == {x \in S : \A y \in S : y <= x}

StructuralScore(s) == Round(Structural(s), 365, FALSE)  \* never a tie: 365 is odd

(* Rounding is monotone: the score of the worst event is the worst of the  *)
(* events' scores.                                                         *)
WeatherScores(W) == {0} \cup {Round(WeatherHazard(o), 100, o.up) : o \in W}
SeismicScores(Q) == {0} \cup {Round(SeismicHazard(q), 40, q.up) : q \in Q}

RiskLevel(score) ==
  IF score < 2500 THEN "low" ELSE
  IF score < 5000 THEN "medium" ELSE
  IF score < 7500 THEN "high" ELSE "critical"

(* Variant: the families are compared before they are weighted.            *)
Unweighted(structural, w, e) ==
  [structural |-> structural, weather |-> w, seismic |-> e]

Contribution(structural, w, e) ==
  [structural |-> 50 * structural, weather |-> 30 * w, seismic |-> 20 * e]

(* Products of floats are compared: families that contribute exactly the   *)
(* same may compare either way.                                            *)
DominantFactors(structural, w, e) ==
  LET c == Contribution(structural, w, e)
  IN  {f \in Family : \A g \in Family : c[g] <= c[f]}

(* The families are rounded before they are weighted, and their sum again. *)
Assessed(structural, w, e) ==
  LET score == Round(Weighted(structural, w, e), 100, <<structural, w, e>> \in TiesUp)
  IN  {[structural |-> structural, weather |-> w, seismic |-> e,
        risk |-> score, level |-> RiskLevel(score), dominant |-> f] :
          f \in DominantFactors(structural, w, e)}

Assess(s, W, Q) ==
  UNION {Assessed(StructuralScore(s), w, e) :
           w \in Highest(WeatherScores(W)), e \in Highest(SeismicScores(Q))}

-------------------------------------------------------------------------------
Init ==
  /\ supplier \in Profile
  /\ weather = {}
  /\ quakes = {}
  /\ assessment \in Assess(supplier, {}, {})

(* The engine is pure: whenever the window holds other events it is run    *)
(* again on all of them.                                                   *)
Reassess ==
  /\ assessment' \in Assess(supplier, weather', quakes')
  /\ UNCHANGED supplier

ObserveWeather(o) ==
  /\ weather' = weather \cup {o}
  /\ UNCHANGED quakes
  /\ Reassess

ObserveQuake(q) ==
  /\ quakes' = quakes \cup {q}
  /\ UNCHANGED weather
  /\ Reassess

(* Events leave the window of their family.                                *)
Lapse ==
  /\ weather' \in SUBSET weather
  /\ quakes' \in SUBSET quakes
  /\ Reassess

Next ==
  \/ \E o \in Weather \ weather : ObserveWeather(o)
  \/ \E q \in Quake \ quakes : ObserveQuake(q)
  \/ Lapse

Spec == Init /\ [][Next]_vars

-------------------------------------------------------------------------------
(* Properties.                                                             *)

Near(x, y, distance) == x - y <= distance /\ y - x <= distance

(* The hazards of the window before any rounding.                          *)
ExactWeather == Highest({0} \cup {WeatherHazard(o) : o \in weather})
ExactSeismic == Highest({0} \cup {SeismicHazard(q) : q \in quakes})

(* Rounding the families (assess, round_risk_score) and then their sum     *)
(* moves the risk score by at most one hundredth from the score that is    *)
(* not rounded at all, so a level is at most that far from its threshold.  *)
(* 73000 is a common denominator of the weighted families.                 *)
ScoreNearExact ==
  \A w \in ExactWeather, e \in ExactSeismic :
    Near(73000 * assessment.risk,
         100 * Structural(supplier) + 219 * w + 365 * e, 73000)

(* As long as no event lapses, an event more never lowers the risk score   *)
(* or the score of a family, whichever way the floats break ties.          *)
MoreEvidenceNeverLowers ==
  [][weather \subseteq weather' /\ quakes \subseteq quakes' =>
       /\ assessment.weather <= assessment'.weather
       /\ assessment.seismic <= assessment'.seismic
       /\ assessment.risk <= assessment'.risk]_vars

(* The family an assessment names as dominant (_dominant_factor compares   *)
(* rounded scores) is less than half a hundredth behind any other family   *)
(* in what it contributes before rounding.                                 *)
DominantContributesMost ==
  \A w \in ExactWeather, e \in ExactSeismic :
    LET exact == [structural |-> 100 * Structural(supplier),
                  weather |-> 219 * w, seismic |-> 365 * e]
    IN  \A f \in Family : exact[f] - exact[assessment.dominant] < 36500

===============================================================================
