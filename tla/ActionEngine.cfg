SPECIFICATION FairSpec
CONSTANTS
    Containers <- MCContainers
    Leaves <- MCLeaves
    Root = "Root"
    Parent <- MCParent
    Plans <- MCPlans
    Synchronous <- MCSynchronous
    UndoRequired <- MCUndoRequired
    OwnTimeout <- MCShortTimeouts
    Triggers <- MCTriggers
    PolicyActions <- MCPolicyActions
    StateTriggers <- MCStateTriggers
    Failures = {1}
    E_ABORTED = 1
    MaxTimer = 1
    MaxTime = 1
    Latency = 0
INVARIANTS
    TypeOK
    HandlesMatchWaitingLeaves
    NothingLeftBehind
    RollbackIsComplete
PROPERTIES
    ImplementsSaga
    EveryTriggerIsHandled
