\* Up to six events through the channel of four that the client makes.
SPECIFICATION FairSpec
CONSTANTS
  Buffer = 4
  MaxEvents = 6
INVARIANTS
  TypeOK
  AccountedOnce
  OneAnswer
  TransferComplete
PROPERTY CallEnds
CHECK_DEADLOCK FALSE
