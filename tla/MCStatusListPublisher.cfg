SPECIFICATION Spec
CONSTANTS
  c1 = c1
  c2 = c2
  p1 = p1
  p2 = p2
  Creds = {c1, c2}
  NoCred = NoCred
  Publishers = {p1, p2}
  MayFail = TRUE
  MaxTime = 1
CHECK_DEADLOCK FALSE
SYMMETRY MCSymmetry
INVARIANTS TypeOK RevocationsAccumulate OnlyEndedListed ListsAreAnchored
