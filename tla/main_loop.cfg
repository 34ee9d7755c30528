CONSTANTS
  w1 = w1
  w2 = w2
  t1 = t1
  NoHandle = NoHandle
  Watches = {w1, w2}
  Timeouts = {t1}
  MaxDispatches = 2
SPECIFICATION FairSpec
INVARIANTS
  TypeOK
  WrapperOutlivesItsUsers
  RegistrationFollows
  OnlyKnownFaults
  NothingLeaks
PROPERTIES
  AdapterMayGo
  EventuallyPolled
\* A handle is added once, and a fault ends the process: the system may stop.
CHECK_DEADLOCK FALSE
