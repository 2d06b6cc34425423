\* make -k of a graph with a cycle
SPECIFICATION FairSpec
CONSTANTS
  all = all
  prog = prog
  x = x
  y = y
  gen = gen
  h = h
  Nodes <- ProgNodes
  Sources <- RoundSources
  Targs <- ProgGoals
  Commands <- ProgCommands
  Forced = {gen}
  Plain = {h}
  Precious = {}
  KeepGoing = TRUE
  Now = 1
  Last = 2
INVARIANTS AbortedForAReason AllTried MutualNotMade
PROPERTIES Ends
