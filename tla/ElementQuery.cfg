CONSTANTS
    e1 = e1
    e2 = e2
    shown = shown
    enabled = enabled
    Parts = {shown, enabled}
    Looks <- MCLooks
    Elements = {e1, e2}
    Selects <- TwoBranches
    FilterLists <- Lists
    ConditionLists <- Conditions
    Subject = e1
    Modes = {"first", "single", "gone", "wait"}
    Timeout = 3
    Interval = 2
    MaxTime = 5
    MaxChanges = 1
SPECIFICATION Spec
INVARIANTS AnswersAreTrue GoneWasGone NotEarly
PROPERTIES QueryEnds
CHECK_DEADLOCK FALSE
