\* make -k -j 2, .ORDER x y, and a ^Z
SPECIFICATION FairSpec
CONSTANTS
  all = all
  prog = prog
  x = x
  y = y
  z = z
  h = h
  Nodes <- ProgNodes
  Sources <- ProgSources
  Preds <- FirstX
  Commands <- ProgCommands
  Forced = {z}
  Plain = {h}
  Precious = {x}
  MaxJobs = 2
  KeepGoing = TRUE
  Now = 1
  Last = 1
  MaxStops = 1
INVARIANTS DroppedComesBack ExaminedOnce LeftForAReason SourcesQuiet PartialKnown
PROPERTIES GraphSpec Ends
