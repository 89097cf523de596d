\* Three commands, one of them started in the background.
SPECIFICATION FairSpec
CONSTANTS
    Cmds = {c1, c2, c3}
    Explicit = {c3}
INVARIANTS ToldOneWay
PROPERTIES CancelEnds MovedIsTold
