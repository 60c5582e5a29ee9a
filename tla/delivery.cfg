SPECIFICATION Spec
CONSTANTS
  e1 = e1
  e2 = e2
  d1 = d1
  d2 = d2
  r1 = r1
  x1 = x1
  Endpoints = {e1, e2}
  Deliveries = {d1, d2}
  None = None
  Requests = {r1}
  Runners = {x1}
  Attempts = 2
  MaxFaults = 1
  MaxCrashes = 2
SYMMETRY IdSymmetry
INVARIANTS
  SuccessIsReal
  FailedIsExhausted
  PendingPursued
  Consistent
PROPERTIES
  OutcomeIsFinal
  ImplementsCourier
CHECK_DEADLOCK FALSE
