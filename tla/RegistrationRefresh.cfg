SPECIFICATION Spec
CONSTANTS
  r1 = r1
  r2 = r2
  h1 = h1
  h2 = h2
  Repo <- MCRepo
  Handler <- MCHandler
  NoRepo = NoRepo
  MaxWaiting = 1
  MaxInits = 3
SYMMETRY Symmetry
INVARIANT AcceptedHasLoop
