SPECIFICATION Spec
CONSTANTS
  s1 = s1
  s2 = s2
  w1 = w1
  w2 = w2
  h1 = h1
  h2 = h2
  r1 = r1
  Workspaces = {w1}
  Subs = {s1, s2}
  None = None
  WorkspaceOf <- SameWorkspace
  Handlers = {h1, h2}
  Requests = {}
  OpenSessions = {s1, s2}
  StripeStatuses = {"active", "past_due"}
  Notices = {"other"}
  ReplayWired = TRUE
  MaxEvents = 2
  MaxFaults = 0
  MaxCrashes = 1
SYMMETRY HandlerSymmetry
INVARIANTS
  ProHasSubscription
  Consistent
PROPERTIES
  DowngradeJustified
  ImplementsEntitlement
