\* Three notices of two owners, three triggers, the outbox of one run; four of
\* notices, reports, hours, moves, switches, failures and crashes.
SPECIFICATION FairSpec
CONSTANTS
    Owners = {ann, nobody}
    MaxNotices = 3
    Crons = {cron}
    Ats = {at}
    OnExits = {onexit}
    Once = {}
    Spawns = {cron, onexit}
    MaxTime = 3
    Reports = {"completed", "needs_user"}
    MaxReports = 2
    MaxInputs = 4
INVARIANTS DoneOnce
PROPERTIES NothingSkipped ReportsPosted DueFires
