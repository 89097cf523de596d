\* One run, one crash, every outcome of Hoja and Tern.
CONSTANTS
    Runs = {r1}
    MaxIntentAttempts = 2
    MaxCrashes = 1
    OrphanWorkers = FALSE
SPECIFICATION FairSpec
INVARIANTS AtMostOneIssue NotStartedMeansNothing AtMostOneWorker LostMeansGone
PROPERTIES CancelIsFinal LaunchSettles
CHECK_DEADLOCK FALSE
