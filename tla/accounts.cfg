SPECIFICATION FairSpec
CONSTANTS
  a = a
  b = b
  r1 = r1
  r2 = r2
  Emails = {a, b}
  None = None
  Requests = {r1, r2}
  MaxSecrets = 4
  MaxFailures = 1
CHECK_DEADLOCK FALSE
INVARIANTS
  Consistent
  WorkspacesApart
  RegistrationComplete
  TokenDelivered
  RevokedStaysRevoked
PROPERTIES
  RequestsEnd
