\* A call with one upload and one workflow request.
SPECIFICATION Spec
CONSTANTS
  c1 = c1
  c2 = c2
  u1 = u1
  d1 = d1
  NoUser = NoUser
  NoTerms = NoTerms
  Worker = Worker
  Calls <- MCCalls
  Users <- MCUsers
  Donations <- MCDonations
  Prices = {1}
  Rewards = {2}
  StartCredits = {2}
  Deltas = {}
  MaxOutside = 2
  MaxTotal = 2
  QueueSize = 1
  RequestTimeout = 1
  Grace = 1
  ReservedStale = 4
  MaxRequests = 2
  MaxFaults = 0
  MaxExits = 0
PROPERTY ActiveCallsUntouched
CHECK_DEADLOCK FALSE
