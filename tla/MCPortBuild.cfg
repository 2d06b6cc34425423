\* A port with two patches that is built, and a release directory
CONSTANTS
  NPatches = 2
  NoBuild = FALSE
  HasReleaseDir = TRUE
  KeepGoing = FALSE
  Goals <- AllGoals
SPECIFICATION Spec
INVARIANTS CookiesTruthful CookiesInOrder NoStageOnTornInput
PROPERTIES InstalledSurvives StaleUntilWiped SlotSpec SessionsEnd
