CONSTANTS
  Callers = {c1, c2}
  NoCaller = NoCaller
  MaxCalls = 3
SPECIFICATION FairSpec
INVARIANTS RepliesAreRouted
PROPERTIES ImplementsRequestReply EarlyCallReturns
CHECK_DEADLOCK FALSE
