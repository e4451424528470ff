CONSTANTS
  Words = {"w1", "w2", ""}
  Blanks = {""}
  Fields <- MCFields
  Images = {"i1"}
  MaxRequests = 2
SPECIFICATION Spec
INVARIANT FailureMeansNotStarted
CHECK_DEADLOCK FALSE
