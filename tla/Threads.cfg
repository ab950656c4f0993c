SPECIFICATION ThreadsSpec
CONSTANTS
    Parts = {"pool", "streams", "volumes", "cards"}
    Workers <- MCWorkers
    Jobs <- MCJobs
    Kind <- VolumeKind
    Subject <- VolumeSubject
    Target <- VolumeTarget
    MaxTokens = 1
    AConnections = {1, 2}
    ASources = {"s"}
    SourceOf <- MCSourceOf
    HasProxy = {1, 2}
    AHandles = {1, 2}
    AEnds = {"e"}
    AVolumes = {1}
    MaxRounds = 1
    MaxVolumes = 1
    MaxStates = 3
    Threads <- MCThreads
    Cards = {"u1", "u2"}
    Captures = {"u1", "u2"}
    Playbacks = {"u1", "u2"}
    EarlyPlugs = FALSE
    MaxPlugs = 6
INVARIANTS
    VolumesMatchAnswers
    SilentWhenOff
    NoThreadLeftBehind
    OpsAreAlive
    ElementsFollowCards
PROPERTIES
    EveryJobIsAnswered
    CallsReturn
\* Nothing may be asked for any more, and nothing plugged in or pulled out.
CHECK_DEADLOCK FALSE
