CONSTANTS
  c1 = c1
  c2 = c2
  NoCall = NoCall
  Calls = {c1, c2}
  MaxRefs = 2
  MaxQueue = 2
  ErrorNames = {"NO_REPLY", "com.example.Failed"}
  LateCalls = {c2}
SPECIFICATION FairSpec
INVARIANTS
  TypeOK
  NoDangling
  NotifyNeverAborts
  RawBalance
  ReplyBalance
  IInv
PROPERTIES
  OutcomeStable
  ImplementsAsyncCall
  EventuallySettled
\* Calls are made once and the process may abort: the system may stop.
CHECK_DEADLOCK FALSE
