SPECIFICATION FairConnectionSpec
CONSTANTS
    Containers <- MCContainers
    Leaves <- MCLeaves
    Root <- MCRoot
    Parent <- MCParent
    Plans <- MCPlans
    Synchronous = {}
    UndoRequired <- MCUndoRequired
    OwnTimeout <- MCTimeouts
    Triggers <- MCTriggers
    PolicyActions <- MCPolicyActions
    StateTriggers <- MCStateTriggers
    Failures = {1, 2}
    E_ABORTED = 1
    MaxTimer = 0
    MaxTime = 0
    Latency = 0
    Connections <- MCConnections
    Class <- OneClass
    Route <- ShortRoutes
    Segments <- MCSegments
    Source <- OwnSources
    Stateless = {}
    Kind <- MCKind
    Subject <- MCSubject
    StateTrigger <- MCStateTrigger
    ConnectTrigger <- MCConnectTrigger
    DisconnectTrigger <- MCDisconnectTrigger
    Errors <- TeardownWorks
    E_NOT_POSSIBLE = 1
    E_DATABASE_ERROR = 2
    MayBeUnavailable = TRUE
    DisconnectStates = {"CONNECTED"}
    MaxQueued = 1
PROPERTIES
    EveryTransitionEnds
