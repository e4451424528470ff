CONSTANTS
  Guis = {g1, g2}
  Robots = {r1}
  MaxConnections = 3
  MaxStarts = 2
  MaxCalls = 2
SPECIFICATION FairSpec
INVARIANTS TypeOK ServedBySrv OneEntryInALife NobodyStuck
PROPERTIES NeverSetBack AnsweredOrKnown
CHECK_DEADLOCK FALSE
