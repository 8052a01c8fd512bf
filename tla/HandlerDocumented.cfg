SPECIFICATION Spec
CONSTANTS
    Service <- MCService
    Router <- MCRouter
    Lower <- MCLower
    Container <- MCContainer
    Gone = Gone
    Inspect <- BindInspect
    NotFound = NotFound
    NoRouter = NoRouter
    Unset = Unset
    Blank = ""
    Zero = "0"
    BindIP = "host"
    LocalIP = "local"
    Input <- BindInput
    Settings <- MCSettings
    Peers <- MCPeers
    Dockers <- BindDockers
    Fault = {}
    MaxFaults = 0
INVARIANTS
    DocumentedIP
