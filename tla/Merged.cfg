SPECIFICATION MergeFairSpec
CHECK_DEADLOCK FALSE
CONSTANTS
    h1 = h1
    h2 = h2
    handler1 = handler1
    handler2 = handler2
    renewer1 = renewer1
    renewer2 = renewer2
    Host <- MCHost
    Goroutine <- MCGoroutine
    HostOf <- MCHostOf
    Handler <- MCHandler
    CatSeq <- MCCatSeq
    ServiceCat <- MCServiceCat
    Name <- MCName
    Key <- MCKey
    Silent = {}
    ServerField <- MCServerField
    ServerSeq <- MCServerSeq
    Rank <- MCRank
    Value = {"addr1", "addr2"}
    Absent = Absent
    Confs <- Steady
    MergeName = {"a"}
    NoConf = NoConf
    NoMerge = NoMerge
    Free = Free
    HasTTL = TRUE
    Fault = {"error", "flush", "crash"}
    MaxFaults = 1
    MaxChanges = 2
INVARIANTS
    InstalledWhenIdle
PROPERTIES
    MergedInTurn
    StaysHome
    ImplementsMergedPublication
