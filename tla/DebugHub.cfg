\* Two sessions, two streams and three requests, two of them at a time.
SPECIFICATION FairSpec
CONSTANTS
  w1 = w1
  w2 = w2
  h1 = h1
  h2 = h2
  Workers <- MCWorkers
  Streams <- MCStreams
  MaxSessions = 2
  MaxPushes = 3
  Buffer = 2
  MaxFired = 1
  ByteCap = 3
  SizeOf <- MCSizeOf
INVARIANTS
  TypeOK
  GapsAnnounced
PROPERTIES
  TimersCurrent
  SessionsEnd
CHECK_DEADLOCK FALSE
