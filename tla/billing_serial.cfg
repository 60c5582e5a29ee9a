SPECIFICATION FairSpec
CONSTANTS
  s1 = s1
  s2 = s2
  w1 = w1
  w2 = w2
  h1 = h1
  h2 = h2
  r1 = r1
  Workspaces = {w1}
  Subs = {s1}
  None = None
  WorkspaceOf <- OneSub
  Handlers = {h1}
  Requests = {}
  OpenSessions = {s1}
  StripeStatuses = {"active", "past_due"}
  Notices = {}
  ReplayWired = FALSE
  MaxEvents = 3
  MaxFaults = 1
  MaxCrashes = 0
PROPERTIES
  EverySettled
  DriftRepaired
  TimestampsAdvance
  ProcessedIsFinal
