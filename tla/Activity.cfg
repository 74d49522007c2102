\* Two users, three days, two events, one ban.
SPECIFICATION Spec
CONSTANTS
  u1 = u1
  u2 = u2
  r1 = r1
  Never = Never
  Users <- MCUsers
  Rounds <- MCRounds
  Catches <- MCCatches
  Treasure = 0
  LastDay = 2
  MaxActs = 2
  MaxBans = 1
  Retention = 2
  RoundRetention = 1
  K = 2
  StartCredits = 1
  Price = 1
  Bonus = 1
  Cap = 2
SYMMETRY Symmetry
INVARIANTS
  TypeOK
  OpenDayExact
  RoundsSettledOnce
  CheckinOnce
PROPERTY FrozenDays
