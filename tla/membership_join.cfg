SPECIFICATION FairSpec
CONSTANTS
  o = o
  a = a
  r1 = r1
  r2 = r2
  Emails = {o, a}
  Owner = o
  None = None
  Requests = {r1}
  MaxMembers = 2
  Attempts = 3
  MaxFaults = 0
PROPERTIES
  AcceptanceJoins
