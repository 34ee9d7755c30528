CONSTANTS
  s1 = s1
  s2 = s2
  h1 = h1
  h2 = h2
  NoSlot = NoSlot
  Slots = {s1, s2}
  Handles = {h1, h2}
  AutoHandles = {h1}
  MaxDepth = 2
SPECIFICATION Spec
INVARIANTS
  NoEmptyCall
\* Callbacks are connected once and the signal may be destroyed: the program
\* may stop.
CHECK_DEADLOCK FALSE
