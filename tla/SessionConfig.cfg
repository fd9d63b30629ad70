\* Chrome and Firefox, installed in one place, with a second binary that
\* capabilities may name; two handles and two threads.
CONSTANTS
  None = None
  System = System
  Refused = Refused
  Values <- MCValues
  Browsers = {"chrome", "firefox"}
  Paths = {"google-chrome", "google-chrome-stable", "chromium", "chromium-browser", "firefox", "firefox-esr", "microsoft-edge", "microsoft-edge-stable", "custom"}
  Installable = {"chromium", "custom"}
  Custom = {"custom"}
  Versions <- MCVersions
  Requests <- MCRequests
  Builders <- MCBuilders
  Setters = {t1, t2}
  Handles = {h1, h2}
  Scripts <- MCScripts
  Pollers = {"p1", "p2"}
  MaxStores = 3
SPECIFICATION SessionSpec
CONSTRAINT Bounded
INVARIANTS ConfigIsAsSet
PROPERTIES LaunchFits LaunchIsAsBuilt
