\* Fair behaviours: every reservation ends up settled while the process stays up.
SPECIFICATION FairSpec
CONSTANTS
  c1 = c1
  c2 = c2
  u1 = u1
  d1 = d1
  NoUser = NoUser
  NoTerms = NoTerms
  Worker = Worker
  Calls <- MCCalls
  Users <- MCUsers
  Donations <- MCDonations
  Prices = {1}
  Rewards = {2}
  StartCredits = {2}
  Deltas = {}
  MaxOutside = 2
  MaxTotal = 2
  QueueSize = 1
  RequestTimeout = 1
  Grace = 1
  ReservedStale = 1
  MaxRequests = 1
  MaxFaults = 1
  MaxExits = 1
PROPERTY EventuallySettled
CHECK_DEADLOCK FALSE
ACTION_CONSTRAINT Quiet
