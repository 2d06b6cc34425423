SPECIFICATION Spec
CONSTANTS
  all = all
  prog = prog
  x = x
  y = y
  gen = gen
  h = h
  Nodes <- BareNodes
  Sources <- BareSources
  Targs <- BareGoals
  Commands <- BareCommands
  Forced = {}
  Plain = {h}
  Precious = {x}
  KeepGoing = FALSE
  Now = 3
  Last = 4
INVARIANTS TypeOK FreshIfPassed PartialRemoved
PROPERTIES GraphSpec
