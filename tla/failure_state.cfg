CONSTANTS
  c1 = c1
  NoCall = NoCall
  Calls = {c1}
  MaxRefs = 2
  MaxQueue = 2
  ErrorNames = {"NO_REPLY", "FAILED", "com.example.Failed"}
  LateCalls = {}
SPECIFICATION Spec
INVARIANTS
  FailureStateReported
\* Calls are made once and the process may abort: the system may stop.
CHECK_DEADLOCK FALSE
