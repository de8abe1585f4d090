---------------------------- MODULE MCRiskScoring -----------------------------
(***************************************************************************)
(* Suppliers, observations and earthquakes for TLC: the extremes, ordinary *)
(* values, and values that tie when they are rounded.                      *)
(***************************************************************************)
EXTENDS RiskScoring

Supply(c, d, s, l) == [criticality |-> c, dependency |-> d, single |-> s, leadTime |-> l]
Obs(w, g, r, s, up) == [wind |-> w, gust |-> g, rain |-> r, snow |-> s, up |-> up]
Tremor(m, d, up) == [magnitude |-> m, distance |-> d, up |-> up]

MCProfile ==
  {Supply(25, 0, 0, 1), Supply(50, 37, 0, 45), Supply(75, 60, 1, 90),
   Supply(100, 100, 1, 400), Supply(100, 55, 0, 13), Supply(25, 98, 1, 200)}

MCWeather ==
  {Obs(2, 0, 0, 0, FALSE), Obs(0, 0, 1, 0, TRUE), Obs(4300, 7150, 1240, 0, FALSE),
   Obs(15000, 20000, 9000, 9000, FALSE)}

MCQuake ==
  {Tremor(250, 10, FALSE), Tremor(301, 980, TRUE), Tremor(570, 333, FALSE),
   Tremor(930, 0, FALSE), Tremor(413, 120, TRUE)}

MCTiesUp == {t \in Score \X {0, 1, 4700, 10000} \X {0, 1, 10000} : t[1] % 2 = 0}
===============================================================================
