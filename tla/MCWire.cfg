CONSTANTS
  Radix = 2
  MaxFrames = 2
  Payloads <- MCPayloads
SPECIFICATION FairSpec
INVARIANTS TypeOK MessagesSurvive BodyFits InStep NoReadStarves
PROPERTIES ImplementsFifo MessagesArrive
CHECK_DEADLOCK FALSE
