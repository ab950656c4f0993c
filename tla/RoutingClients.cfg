SPECIFICATION ClientsSpec
CONSTANTS
    d1 = d1
    d2 = d2
    e1 = e1
    e2 = e2
    x1 = x1
    c1 = c1
    a1 = a1
    a2 = a2
    NONE = NONE
    Parts = {"capi", "dbus", "handshake", "command", "messages"}
    Domains = {d1, d2}
    Elements = {e1, e2, x1}
    HomeOf <- MCHomeOf
    Connections = {c1}
    Handles = {1, 2}
    HandlesWrap = FALSE
    Crossfaders = {x1}
    SourceOf <- MCSourceOf
    VolumeLists <- MCVolumeLists
    Addresses = {a1, a2}
    Plugins = {"capi", "dbus"}
    Clients = {"d1", "d2", "d3"}
    Second = "d2"
    ElementIds = {1}
    Data = {"a", "b"}
    EarlyFetch = FALSE
    MaxUpdates = 2
    MaxMismatches = 1
    ArraySizes = {0, 1, 2}
    MaxExchanges = 2
INVARIANTS
    CapiStaysInReach
    DbusStaysInReach
    RundownNotEarly
    CapiClientsFollow
    MessagesMatch
\* A daemon that has no requests left and clients that have all left may stop.
CHECK_DEADLOCK FALSE
