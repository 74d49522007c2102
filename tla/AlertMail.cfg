\* Three events of two categories, one of them about a user.
SPECIFICATION FairSpec
CONSTANTS
  e1 = e1
  e2 = e2
  e3 = e3
  banned = banned
  locked = locked
  u1 = u1
  None = None
  Events <- MCEvents
  Types <- MCTypes
  Personal <- MCPersonal
  Users <- MCUsers
CONSTRAINT InOrder
ACTION_CONSTRAINT FewSwitches
INVARIANTS
  TypeOK
  MailedOnce
  AlertsOfUsers
  NothingLeft
PROPERTY EventuallyTaken
CHECK_DEADLOCK FALSE
