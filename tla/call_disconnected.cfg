CONSTANTS
  c1 = c1
  NoCall = NoCall
  Calls = {c1}
  MaxRefs = 2
  MaxQueue = 2
  ErrorNames = {"NO_REPLY"}
  LateCalls = {}
SPECIFICATION Spec
INVARIANTS
  CallGetsPending
\* Calls are made once and the process may abort: the system may stop.
CHECK_DEADLOCK FALSE
