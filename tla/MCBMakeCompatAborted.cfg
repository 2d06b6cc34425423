SPECIFICATION Spec
CONSTANTS
  all = all
  prog = prog
  x = x
  y = y
  gen = gen
  h = h
  Nodes <- ProgNodes
  Sources <- ProgSources
  Targs <- ProgGoals
  Commands <- ProgCommands
  Forced = {}
  Plain = {h}
  Precious = {}
  KeepGoing = TRUE
  Now = 1
  Last = 2
INVARIANTS DependentsSkipped
