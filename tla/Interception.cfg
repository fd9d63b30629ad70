SPECIFICATION Spec
CONSTANTS
  Requests = {r1, r2}
  Secured = {r1}
  Intercepts = {i1}
  PhaseSets = {{"beforeRequestSent", "authRequired"}, {"responseStarted"}}
  None = None
  Off = Off
  Capacity = 1
INVARIANTS RequestsAreKnown RegisteredIsGuarded
PROPERTIES PausedResumes
CHECK_DEADLOCK FALSE
