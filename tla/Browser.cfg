CONSTANTS
    t1 = t1
    w1 = w1
    w2 = w2
    w3 = w3
    main = main
    e1 = e1
    e2 = e2
    k1 = k1
    Tasks = {t1}
    Windows = {w1, w2, w3}
    Home = w1
    Names = {main}
    NoName = NoName
    Source = e1
    Target = e2
    Chars = {k1}
    NoWindow = NoWindow
    u1 = u1
    Users = {u1}
    Default = Default
    Lists <- MCLists
    Picks <- MCPicks
    Quotes <- MCQuotes
    Unset = Unset
    MaxDocs = 2
    MaxFaults = 1
    MaxOthers = 1
    MaxCalls = 2
SPECIFICATION BrowserSpec
CONSTRAINT Focused
INVARIANTS ChainsAreInOrder SettingIsAsAsked
PROPERTIES WindowsAreRestored GesturesLetGo 
CHECK_DEADLOCK FALSE
