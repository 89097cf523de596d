\* One spawn, one crash of the daemon, either order of its two request files.
SPECIFICATION ClawSpec
CONSTANTS
    Spawns = {s1}
    Sends = {}
    NoFile = NoFile
    MaxCrashes = 1
    ClockGoesBack = TRUE
    MaxIntentAttempts = 1
    OrphanWorkers = FALSE
INVARIANTS NoRunAbandoned
PROPERTIES NothingStarts
