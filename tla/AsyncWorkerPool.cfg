SPECIFICATION Spec
CONSTANTS
    Workers <- MCWorkers
    Jobs <- MCJobs
    Kind <- ConnectKind
    Subject <- ConnectSubject
    Target <- ConnectTarget
    MaxTokens = 1
INVARIANTS
    AnsweredOnce
PROPERTY ImplementsService
CHECK_DEADLOCK FALSE
