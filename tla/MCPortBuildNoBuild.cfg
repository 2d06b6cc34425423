\* A NO_BUILD port without patches, and no release directory
CONSTANTS
  NPatches = 0
  NoBuild = TRUE
  HasReleaseDir = FALSE
  KeepGoing = FALSE
  Goals <- AllGoals
SPECIFICATION Spec
INVARIANTS CookiesTruthful
