\* Two calls and room for one hint, so that the queue is full at times.
SPECIFICATION Spec
CONSTANTS
  c1 = c1
  c2 = c2
  u1 = u1
  d1 = d1
  NoUser = NoUser
  NoTerms = NoTerms
  Worker = Worker
  Calls <- MCCalls
  Users <- MCUsers
  Donations <- MCDonations
  Prices = {1}
  Rewards = {2}
  StartCredits = {2}
  Deltas = {}
  MaxOutside = 2
  MaxTotal = 2
  QueueSize = 1
  RequestTimeout = 1
  Grace = 1
  ReservedStale = 1
  MaxRequests = 1
  MaxFaults = 1
  MaxExits = 1
SYMMETRY Symmetry
INVARIANTS
  TypeOK
  NoFreeCall
  HintsConsistent
PROPERTY RecoveredFirst
CHECK_DEADLOCK FALSE
