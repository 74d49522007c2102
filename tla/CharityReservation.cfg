\* Two calls, a consumer and a donor, one donation.
SPECIFICATION Spec
CONSTANTS
  c1 = c1
  c2 = c2
  u1 = u1
  u2 = u2
  d1 = d1
  NoUser = NoUser
  NoTerms = NoTerms
  Calls <- MCCalls
  Users <- MCUsers
  Donations <- MCDonations
  Prices = {1}
  Rewards = {2}
  StartCredits <- MCStart
  Deltas <- MCDeltas
  MaxOutside = 2
  MaxTotal = 2
SYMMETRY Symmetry
INVARIANTS
  TypeOK
  InFlightBacked
  CapacityConserved
  NoStrandedCapacity
  MoneyConserved
PROPERTY LedgerSpec
CHECK_DEADLOCK FALSE
