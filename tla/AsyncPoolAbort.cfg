SPECIFICATION Spec
CONSTANTS
    Workers <- MCWorkers
    Jobs <- MCJobs
    Kind <- ConnectKind
    Subject <- ConnectSubject
    Target <- ConnectTarget
    MaxTokens = 1
INVARIANT OnlyAbortedJobsAreCancelled
CHECK_DEADLOCK FALSE
