SPECIFICATION Spec
CONSTANTS
    Service <- MCService
    Router <- MCRouter
    Lower <- MCLower
    Container <- MCContainer
    Gone = Gone
    Inspect <- MCInspect
    NotFound = NotFound
    NoRouter = NoRouter
    Unset = Unset
    Blank = ""
    Zero = "0"
    BindIP = "host"
    LocalIP = "local"
    Input <- MCInput
    Settings <- MCSettings
    Peers <- MCPeers
    Dockers <- MCDockers
    Fault = {"change", "expire", "docker"}
    MaxFaults = 2
INVARIANTS
    TypeOK
    NamespaceRespected
    RoutersResolve
    ServersReal
