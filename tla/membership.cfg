SPECIFICATION FairSpec
CONSTANTS
  o = o
  a = a
  r1 = r1
  r2 = r2
  Emails = {o, a}
  Owner = o
  None = None
  Requests = {r1, r2}
  MaxMembers = 2
  Attempts = 2
  MaxFaults = 2
INVARIANTS
  OneOwner
  NoPendingMember
  Consistent
PROPERTIES
  LateInvitesSettle
