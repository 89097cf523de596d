\* The daemon dies between a record and its item.
SPECIFICATION RunSpec
CONSTANTS
    MaxWorkers = 2
    MaxLog = 2
    CloseBudget = 2
    ResumeBudget = 1
    MaxCrashes = 1
    Outlives = FALSE
INVARIANTS EndsAreTold
CHECK_DEADLOCK FALSE
