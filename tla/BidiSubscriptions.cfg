CONSTANTS
  Tasks = {t1, t2, t3}
  Methods = {m1}
  NoMethod = NoMethod
  Job = Job
  Free = Free
  MaxBacklog = 2
SPECIFICATION FairSpec
INVARIANTS SubscriptionsAreCounted
PROPERTIES LastDropUnsubscribes SubscribeReturns
CHECK_DEADLOCK FALSE
