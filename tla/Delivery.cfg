SPECIFICATION DeliverySpec
CONSTANTS
    web = web
    other = other
    Container <- MCContainer
    Labels <- MCLabels
    LabelName = {"traefik.enable", "kop.namespace"}
    TraefikName = {"traefik.enable"}
    LabelValue = {"true", "false", "other"}
    LabelPrefix = TRUE
    ExposedByDefault = FALSE
    Initially = {other}
    MaxChanges = 2
    MaxFaults = 1
    EntryPoints <- MCEntryPoints
    DefaultEntryPoint = "traefik-kop-default-internal"
    None = None
    ChanCap = 1
INVARIANTS
    TypeOK
    NoMissedChange
    PollsInOrder
PROPERTIES
    PollerRenews
    EventuallyStored
CHECK_DEADLOCK FALSE
