SPECIFICATION Spec
CONSTANTS
    h1 = h1
    h2 = h2
    handler1 = handler1
    handler2 = handler2
    renewer1 = renewer1
    renewer2 = renewer2
    Host <- PairHost
    Goroutine <- PairGoroutine
    HostOf <- PairHostOf
    Handler <- PairHandler
    CatSeq <- MCCatSeq
    ServiceCat <- MCServiceCat
    Name <- MCName
    Key <- MCKey
    Silent <- MCSilent
    ServerField <- MCServerField
    Rank <- MCRank
    Value = {"v1", "v2"}
    Absent = Absent
    Confs <- SharedConfs
    NoConf = NoConf
    Free = Free
    HasTTL = TRUE
    Fault = {"flush"}
    MaxFaults = 1
PROPERTIES
    OwnKeysOnly
