SPECIFICATION FairSpec
CONSTANTS
  Spawns = {s1}
  Sends = {m1}
  NoFile = NoFile
  MaxCrashes = 1
  ClockGoesBack = TRUE
INVARIANTS AnswersAreTrue
PROPERTIES ExpiredSpawnNeverStarts WaitingIsAnswered
