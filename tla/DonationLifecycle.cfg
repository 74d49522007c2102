\* Two applications of one donor, two donations, one template pair.
SPECIFICATION Spec
CONSTANTS
  a1 = a1
  a2 = a2
  d1 = d1
  d2 = d2
  u1 = u1
  p1 = p1
  NoUser = NoUser
  NoApplication = NoApplication
  Users <- MCUsers
  Applications <- MCApplications
  Donations <- MCDonations
  Pairs <- MCPairs
  Service <- MCService
  Templates <- MCTemplates
  MaxLimit = 2
  MaxGenerations = 2
SYMMETRY Symmetry
CONSTRAINTS
  FewRequests
  Limited
  Aside
INVARIANTS
  TypeOK
  ApprovedOnce
  PendingBounded
  ApplicantExists
PROPERTIES
  OutcomeFinal
  SnapshotKept
  ActivationGated
CHECK_DEADLOCK FALSE
