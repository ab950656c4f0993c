SPECIFICATION ConnectionSpec
CONSTANTS
    Containers <- MCContainers
    Leaves <- MCLeaves
    Root <- MCRoot
    Parent <- MCParent
    Plans <- MCPlans
    Synchronous = {}
    UndoRequired <- MCUndoRequired
    OwnTimeout <- MCTimeouts
    Triggers <- MCTriggers
    PolicyActions <- MCPolicyActions
    StateTriggers <- MCStateTriggers
    Failures = {1, 2}
    E_ABORTED = 1
    MaxTimer = 0
    MaxTime = 0
    Latency = 0
    Connections <- MCConnections
    Class <- TwoClasses
    Route <- SharedRoutes
    Segments <- MCSegments
    Source <- SharedSources
    Stateless = {"g"}
    Kind <- MCKind
    Subject <- MCSubject
    StateTrigger <- MCStateTrigger
    ConnectTrigger <- MCConnectTrigger
    DisconnectTrigger <- MCDisconnectTrigger
    Errors <- TeardownFails
    E_NOT_POSSIBLE = 1
    E_DATABASE_ERROR = 2
    MayBeUnavailable = FALSE
    DisconnectStates = {"CONNECTED"}
    MaxQueued = 1
INVARIANTS
    ConnectedMeansInForce
    NoSegmentLeftUp
