\* One run, two workers, two events in its log, one crash of the daemon.
SPECIFICATION RunFairSpec
CONSTANTS
    MaxWorkers = 2
    MaxLog = 2
    CloseBudget = 2
    ResumeBudget = 1
    MaxCrashes = 1
    Outlives = FALSE
INVARIANTS OneWorker OutcomeTold
PROPERTIES ReportBeatsLost KeptTabStays EndedStays  TabCloses
CHECK_DEADLOCK FALSE
