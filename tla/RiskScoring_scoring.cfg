\* Six suppliers, four observations, five earthquakes, in every order and window.
SPECIFICATION Spec
CONSTANTS
  Profile <- MCProfile
  Weather <- MCWeather
  Quake <- MCQuake
  TiesUp <- MCTiesUp
INVARIANTS TypeOK ScoreNearExact DominantContributesMost
PROPERTIES MoreEvidenceNeverLowers
