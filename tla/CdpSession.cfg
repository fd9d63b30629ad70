SPECIFICATION Spec
CONSTANTS
  Tasks = {t1, t2}
  network = network
  Domains = {network}
  Enables = {network}
  AllOfSession = AllOfSession
  AllOfConnection = AllOfConnection
  None = None
  Mine = mine
  Other = other
  Traffic <- MCTraffic
  Capacity = 1
  MaxEvents = 2
  MaxCalls = 3
INVARIANTS Delivered StreamsAreEnabled
PROPERTIES StreamEnds
CHECK_DEADLOCK FALSE
