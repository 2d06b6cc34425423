SPECIFICATION Spec
CONSTANTS
  all = all
  prog = prog
  x = x
  y = y
  z = z
  h = h
  Nodes <- BareNodes
  Sources <- BareSources
  Preds <- Unordered
  Commands <- ProgCommands
  Forced = {}
  Plain = {h}
  Precious = {x}
  MaxJobs = 2
  KeepGoing = FALSE
  Now = 3
  Last = 3
  MaxStops = 0
INVARIANTS SlotFree LimitKept FreshIfPassed
PROPERTIES GraphSpec
