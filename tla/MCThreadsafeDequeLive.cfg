CONSTANTS
  p1 = p1
  p2 = p2
  c1 = c1
  c2 = c2
  c3 = c3
  Producers = {p1}
  Consumers = {c1, c2}
  ConsumerOps = {"wait", "try"}
  MaxPushes = 3
SPECIFICATION FairSpec
PROPERTY MessagesAreTaken
CHECK_DEADLOCK FALSE
