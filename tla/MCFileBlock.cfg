SPECIFICATION Spec
CONSTANTS
  MaxCalls = 3
  MaxRestarts = 1
  MaxLate = 2
INVARIANTS TypeOK OwnAnswer ReadsSeeWrites GenTold
PROPERTIES KeepsPromise CallsReturn
CHECK_DEADLOCK FALSE
