CONSTANTS
  MaxMessages = 5
  MaxShortages = 2
SPECIFICATION FairSpec
INVARIANTS
  NoLostWakeup
  ClosuresBounded
  PumpInv
PROPERTIES
  EventuallyDispatched
  ReactorSleeps
\* A fault ends the process, and with it the system.
CHECK_DEADLOCK FALSE
