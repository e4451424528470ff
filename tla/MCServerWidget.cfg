CONSTANTS
  Words = {"w1", "w2"}
  Blanks = {}
  Fields <- MCFields
  Images = {"i1"}
  MaxRequests = 7
  Indexes <- MCIndexes
SPECIFICATION WidgetFairSpec
INVARIANTS WidgetTypeOK HiddenRunsWereFailures ImagesOutdatedByFailureOnly
PROPERTIES ImplementsHandler ImplementsRequestReply SlotsReturn
CHECK_DEADLOCK FALSE
