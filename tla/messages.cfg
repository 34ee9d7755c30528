CONSTANTS
  m1 = m1
  m2 = m2
  r1 = r1
  r2 = r2
  w1 = w1
  w2 = w2
  NoObject = NoObject
  Objects = {m1, m2}
  Readers = {r1, r2}
  Writers = {w1, w2}
  MaxRefs = 2
  MaxQueued = 2
SPECIFICATION Spec
SYMMETRY Symmetry
INVARIANTS
  TypeOK
  RawBalance
  CountBalance
  OriginalsFindMessage
\* A message is made once, and a fault ends the process: the system may stop.
CHECK_DEADLOCK FALSE
