\* Two slots, one donation, a window of two seconds on a clock of three.
SPECIFICATION Spec
CONSTANTS
  s1 = s1
  s2 = s2
  d1 = d1
  Slots <- MCSlots
  Donations <- MCDonations
  DonationLimit <- MCDonationLimit
  Overrides <- MCOverrides
  Limits <- MCLimits
  Window = 2
  MaxTime = 2
SYMMETRY Symmetry
CONSTRAINT MissesInTurn
INVARIANTS
  TypeOK
  OverrunBounded
  LeaseHeld
