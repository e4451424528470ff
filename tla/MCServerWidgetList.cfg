CONSTANTS
  Words = {"w1", "w2"}
  Blanks = {}
  Fields <- MCFields
  Images = {"i1"}
  MaxRequests = 7
  Indexes <- MCIndexes
SPECIFICATION WidgetSpec
INVARIANT RunTableShowsRunning
CHECK_DEADLOCK FALSE
