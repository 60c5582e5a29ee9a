SPECIFICATION FairSpec
CONSTANTS
  p1 = p1
  t1 = t1
  u1 = u1
  r1 = r1
  r2 = r2
  Projects = {p1}
  Tasks = {t1}
  Users = {u1}
  None = None
  Statuses = {"TODO", "DONE"}
  Requests = {r1, r2}
  MaxProjects = 1
  MaxVersion = 2
  MaxFaults = 1
INVARIANTS
  EventsTrue
  NoOrphan
  Consistent
PROPERTIES
  NoLostUpdate
  ChangesReported
