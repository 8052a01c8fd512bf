SPECIFICATION FairSpec
CONSTANTS
    h1 = h1
    h2 = h2
    handler1 = handler1
    handler2 = handler2
    renewer1 = renewer1
    renewer2 = renewer2
    Host <- SoloHost
    Goroutine <- SoloGoroutine
    HostOf <- SoloHostOf
    Handler <- SoloHandler
    CatSeq <- MCCatSeq
    ServiceCat <- MCServiceCat
    Name <- MCName
    Key <- MCKey
    Silent <- MCSilent
    ServerField <- MCServerField
    Rank <- MCRank
    Value = {"v1", "v2"}
    Absent = Absent
    Confs <- HealConfs
    NoConf = NoConf
    Free = Free
    HasTTL = TRUE
    Fault = {"error", "retry", "flush", "crash", "expire"}
    MaxFaults = 2
PROPERTIES
    SelfHealing
CHECK_DEADLOCK FALSE
