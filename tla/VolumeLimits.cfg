SPECIFICATION ControllersSpec
CONSTANTS
    Parts = {"volume"}
    Sources = {1, 2, 3}
    ClassOf <- MCClassOf
    SegmentsOf <- MCSegmentsOf
    Mains = {1, 2, 3}
    RequestHandles = {1, 2, 3, 4}
    Volumes = {0, 1}
    MaxVolumeChanges = 1
    MaxDisconnects = 2
    CallsAreAccepted = TRUE
    RundownDomains <- MCRundownDomains
    RundownConnections <- MCRundownConnections
    VolumeElements = {1, 2, 3, 4}
    VConnections = {1, 2}
    ElementsOf <- MCElementsOf
    VClassOf <- MCVClassOf
    LimitPatterns <- MCLimitPatterns
    Levels <- MCLevels
    StartVolumes <- MCStartVolumes
    MinVolume <- MCMinVolume
    VolumeOfMain <- MCVolumeOfMain
    DirectTargets = {}
    MaxActions = 3
    UndoIsRefused = FALSE
    PClasses <- MCPClasses
    Ends <- MCEnds
    Links <- MCLinks
    ClassOfLink <- MCClassOfLink
    ClassOfEnd <- MCClassOfEnd
    KeepsVolumes = {"BASE", "PHONE"}
    PerSink = {"PHONE"}
    KeepsLinks <- MCKeepsLinks
    KeepsLinkVolumes <- MCLinks
    PDomains = {"d1", "d2"}
    DomainOfEnd <- MCDomainOfEnd
    KeptVolumes = {5}
    PropTypes = {1}
    PropValues = {12}
    MaxChanges = 2
    MaxRuns = 2
    RegDomains = {"d1", "d2"}
    StaticDomains = {}
    RegEnds = {"a", "b", "x", "k"}
    StaticEnds = {"x", "k"}
    HomeOf <- MCHomeOf
    GatewayOrder <- MCGatewayOrder
    GatewayEnds <- MCGatewayEnds
    GatewaySink <- MCGatewaySink
    GatewayHome <- MCGatewayHome
    NameWithin = {}
    RegConnections = {"c1", "c2"}
    RouteOf <- MCRouteOf
    AbsentIsOk = FALSE
    MaxHooks = 8
    Configurations <- MCConfigurations
    ConnectAnswers = {"ok", "failed", "unavailable"}
    DisconnectAnswers = {"ok", "failed"}
    MaxUserRequests = 4
    SoundSinks = {"k"}
    SoundSources = {"s"}
    MainTypes = {1, 2, 3}
    MappedTypes = {1, 2}
    RegisteredTypes = {1}
    LowValue = 0
    HighValue = 1
    AskedValues = {1, 2}
    PlayedValues = {0, 1}
    PolicyTargets <- MCPolicyTargets
    MaxPropertyRequests = 2
    MaxReports = 1
    MaxAborts = 1
INVARIANT AbsoluteLimitHolds
CHECK_DEADLOCK FALSE
