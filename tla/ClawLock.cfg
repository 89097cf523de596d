\* Two process numbers, two boots, two versions of the code and one fault.
SPECIFICATION FairSpec
CONSTANTS
    Pids = {p1, p2}
    MaxBoots = 2
    MaxEdits = 2
    MaxFaults = 1
PROPERTIES StrangersLive OverlapEnds OldCodeLeaves CallAnswered
