SPECIFICATION RunSpec
CONSTANTS
  Omitted = 3
  None = None
  Listeners = {c, l1}
  Collector = c
  Sessions = {s1, s2}
  Lines <- MCLines
  MaxLines = 3
  MaxFaults = 1
  ProcessLimits <- MCProcessLimits
  BrowserLimits <- MCBrowserLimits
  SourceMax = 6
  Pages <- MCPages
  BrowserLogs <- MCBrowserLogs
CONSTRAINT Focused
INVARIANTS FailureIsReported SubscribedHears EvidenceIsKept
CHECK_DEADLOCK FALSE
