\* Two tasks come to wait for each other in one update.
SPECIFICATION Spec
CONSTANTS
    Keys = {k1}
    MaxTasks = 3
    MaxOps = 2
PROPERTIES CyclesAreRefused
