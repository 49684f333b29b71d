SPECIFICATION Spec
CONSTANTS
  MaxCalls = 2
  MaxRestarts = 1
  MaxLate = 2
INVARIANT AnswersTrue
CHECK_DEADLOCK FALSE
