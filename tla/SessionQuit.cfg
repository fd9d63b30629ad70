CONSTANTS
  Drivers = {d1, d2, d3}
  Handles = {h1, h2}
  NoHandle = NoHandle
  SingleThread = FALSE
SPECIFICATION FairSpec
INVARIANTS OneDelete DriverOutlivesDelete NothingIsLeft
PROPERTIES QuitEnds
CHECK_DEADLOCK FALSE
