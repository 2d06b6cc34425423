\* make -k: does a stage run although the one before it failed?
CONSTANTS
  NPatches = 1
  NoBuild = FALSE
  HasReleaseDir = TRUE
  KeepGoing = TRUE
  Goals <- AllGoals
SPECIFICATION Spec
INVARIANTS NoStageOnTornInput
