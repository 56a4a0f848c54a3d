SPECIFICATION Spec
CONSTANTS
  Names = {f, g}
  Main = main
  Detached = HEAD
  Procs = {p, q}
  OneDir = FALSE
  LxcFirst = g
  NoName = none
  MaxCommands = 3
  MaxOutside = 1
INVARIANTS
  HeadRestored
  CreateMakesTree
  NothingLeft
  ListShowsRunning
CHECK_DEADLOCK FALSE
SYMMETRY ProcsAreAlike
