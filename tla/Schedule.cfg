\* A durable task that recurs every tick, a durable one and a wakeup for
\* once, in one session that may end anywhere.
SPECIFICATION FairSpec
CONSTANTS
    Sessions = {s1}
    Ids = {daily, once, wakeup}
    Durable = {daily, once}
    Recurring = {daily}
    Wakeups = {wakeup}
    Every = 1
    MaxTimer = 1
    MaxTime = 2
    MaxWaiting = 1
INVARIANTS FiresOnce ToldIsTrue
PROPERTIES DueFires
