\* A reader empties the queue between the test and the receive of an eviction.
SPECIFICATION FairSpec
CONSTANTS
  w1 = w1
  w2 = w2
  h1 = h1
  h2 = h2
  Workers <- MCWorkers
  Streams <- MCStreams
  MaxSessions = 2
  MaxPushes = 2
  Buffer = 2
  MaxFired = 1
  ByteCap = 3
  SizeOf <- MCSizeOf
PROPERTY PushReturns
CHECK_DEADLOCK FALSE
