CONSTANTS
  MaxCalls = 1
  BodyLens = {0}
  Endpoints = 1
SPECIFICATION FairSpec
PROPERTY DeadClientEndsServer
CHECK_DEADLOCK FALSE
