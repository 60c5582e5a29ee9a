SPECIFICATION FairSpec
CONSTANTS
  Emitted = {"member.invited", "member.joined", "task.deleted"}
  Attempts = 2
  ReplayAttempts = 1
  MaxEvents = 2
  MaxJobs = 4
  MaxFailures = 3
INVARIANTS Consistent SentOnce DeadLettered Isolated
PROPERTIES OutputsSettle
CHECK_DEADLOCK FALSE
