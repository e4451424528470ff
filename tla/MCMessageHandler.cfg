CONSTANTS
  Words = {"w1", "w2", ""}
  Blanks = {""}
  Fields <- MCFields
  Images = {"i1"}
  MaxRequests = 3
SPECIFICATION FairSpec
INVARIANTS TypeOK SuccessIsOwnStart NameIsSpent OneWordFieldsAreRead
PROPERTY RequestIsAnswered
CHECK_DEADLOCK FALSE
