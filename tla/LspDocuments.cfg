SPECIFICATION Spec
CONSTANTS
  Uris = {u1}
  Requests = {r1, r2}
  Notifications = 3
  Faults = 4
  None = None
INVARIANTS WorkAccounted ShownTrue
PROPERTIES LatestShown WaitsEnd
CHECK_DEADLOCK FALSE
