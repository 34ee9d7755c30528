CONSTANT
  MaxReceived = 5
SPECIFICATION FairSpec
INVARIANTS
  TypeOK
  LocalsOutliveTheirUsers
  NothingLeaks
PROPERTIES
  Terminates
  ImplementsPump
\* The program ends: the system stops.
CHECK_DEADLOCK FALSE
