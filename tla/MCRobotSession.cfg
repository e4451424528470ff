CONSTANTS
  MaxCalls = 3
  BodyLens <- MCBodyLens
  Endpoints = 2
SPECIFICATION FairSpec
INVARIANTS TypeOK SingleSlot FramesWhole OwnAnswer LostRequestIsSilent NobodyStuck
PROPERTIES BufferNotOverwritten ImplementsRequestReply EveryStepNearer AnsweredOrDead
CHECK_DEADLOCK FALSE
