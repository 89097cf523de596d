\* Three tasks, the first of an old journal, in two operations at most.
SPECIFICATION Spec
CONSTANTS
    Keys = {k1}
    MaxTasks = 3
    MaxOps = 2
INVARIANTS TasksAreWhole JournalAgrees
PROPERTIES CycleTakesTwoEnds IdsAreFresh
