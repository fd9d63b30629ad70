CONSTANTS
  Launchers = {l1, l2, l3}
  Keys = {k1}
  NoKey = NoKey
  Manual = {}
  Ports = {x1, x2}
  NoPort = NoPort
  MaxProcs = 3
SPECIFICATION FairSpec
INVARIANTS DriversAreOwned
PROPERTIES ImplementsDriverLease NothingLeftRunning
CHECK_DEADLOCK FALSE
