------------------------------- MODULE Schedule -------------------------------
(***************************************************************************)
(* The scheduler of prompts (packages/tools/schedule/src/scheduler.ts over *)
(* store.ts): sessions of one workspace keep their tasks in memory, write  *)
(* the durable ones to one file and wait for the next with one timer.      *)
(*                                                                         *)
(* A task is a pair of its id and the time it is due.  A scheduler's       *)
(* operations run one after the other (exclusive); each changes the memory,*)
(* then saves, then answers, and a save may fail before or after the file  *)
(* has been replaced.                                                      *)
(***************************************************************************)
EXTENDS Integers, FiniteSets

CONSTANTS
    Sessions,
    Ids, Durable, Recurring, Wakeups,   \* the tasks there may be
    Every,      \* the period of the recurring ones
    MaxTimer,   \* the longest delay a timer takes
    MaxTime,    \* bound: the clock
    MaxWaiting  \* bound: firings that wait for their turn

ASSUME ScheduleAssumption ==
    /\ Durable \subseteq Ids /\ Recurring \subseteq Ids
    /\ Wakeups \subseteq Ids \ (Durable \cup Recurring)
    /\ Every \in Nat \ {0} /\ MaxTimer \in Nat \ {0}
    /\ MaxTime \in Nat /\ MaxWaiting \in Nat

VARIABLES
    clock,
    file,       \* scheduled_tasks.json
    up,         \* started
    mem,        \* this.tasks
    timer,      \* when the timer rings, or nothing
    waiting,    \* firings that wait for the operation before them
    op,         \* the operation, the tasks it is about and how far it is
    troubled,   \* a firing of this scheduler could not be saved
    said,       \* what the caller was told of a task
    torn,       \* told of an error, though the file had been replaced
    overruled,  \* of these, the ones of which a later start took the file's word
    fired,      \* how often a task's prompt was given to the session
    lost        \* the prompts that the session rejected

sessionVars == <<up, mem, timer, waiting, op, troubled>>

toldVars == <<said, torn, overruled>>

promptVars == <<fired, lost>>

vars == <<clock, file, sessionVars, toldVars, promptVars>>

Times == 0..(MaxTime + Every)

Tasks == Ids \X Times

NoOp == [kind |-> "none", tasks |-> {}, step |-> "none"]

Init ==
    /\ clock = 0 /\ file = {}
    /\ up = [s \in Sessions |-> FALSE] /\ mem = [s \in Sessions |-> {}]
    /\ timer = [s \in Sessions |-> {}] /\ waiting = [s \in Sessions |-> 0]
    /\ op = [s \in Sessions |-> NoOp] /\ troubled = [s \in Sessions |-> FALSE]
    /\ said = [i \in Ids |-> "nothing"] /\ torn = {} /\ overruled = {}
    /\ fired = [x \in Tasks |-> 0] /\ lost = {}

Put(f, s, v) == [f EXCEPT ![s] = v]

\* nextCronTime: the first time of the pattern after now.
NextTime == (clock \div Every + 1) * Every

IdsOf(tasks) == {x[1] : x \in tasks}

-----------------------------------------------------------------------------
\* No later than the next task, nor than the longest delay, nor in the past.
Wake(tasks) ==
    {t \in clock..(clock + MaxTimer) :
        /\ \A x \in tasks : t <= x[2] \/ t = clock
        /\ t = clock + MaxTimer \/ \E x \in tasks : x[2] <= t}

\* arm: the timer is set for the next task, or for as late as it can be.
Arm(s, tasks) == timer' = Put(timer, s, IF tasks = {} THEN {} ELSE Wake(tasks))

Free(s) == up[s] /\ op[s] = NoOp

Begin(s, kind, tasks) ==
    op' = Put(op, s, [kind |-> kind, tasks |-> tasks, step |-> "save"])

\* start.
Start(s) ==
    /\ ~up[s] /\ op[s] = NoOp
    /\ up' = Put(up, s, TRUE) /\ mem' = Put(mem, s, file) /\ Arm(s, file)
    /\ troubled' = Put(troubled, s, FALSE)
    /\ overruled' = overruled \cup torn /\ torn' = {}
    /\ UNCHANGED <<clock, file, waiting, op, said, promptVars>>

\* stop, which waits for its turn.
Stop(s) ==
    /\ Free(s)
    /\ up' = Put(up, s, FALSE) /\ mem' = Put(mem, s, {}) /\ timer' = Put(timer, s, {})
    /\ UNCHANGED <<clock, file, waiting, op, troubled, toldVars, promptVars>>

\* The process of the session ends.
Crash(s) ==
    /\ up' = Put(up, s, FALSE) /\ mem' = Put(mem, s, {}) /\ timer' = Put(timer, s, {})
    /\ waiting' = Put(waiting, s, 0) /\ op' = Put(op, s, NoOp)
    /\ UNCHANGED <<clock, file, troubled, toldVars, promptVars>>

\* create.
Create(s, i) ==
    /\ Free(s) /\ said[i] = "nothing" /\ i \notin Wakeups
    /\ \E t \in IF i \in Recurring THEN {NextTime} ELSE (clock + 1)..MaxTime :
         /\ mem' = Put(mem, s, mem[s] \cup {<<i, t>>})
         /\ Begin(s, "create", {<<i, t>>})
    /\ said' = [said EXCEPT ![i] = "asked"]
    /\ UNCHANGED <<clock, file, up, timer, waiting, troubled, torn, overruled, promptVars>>

\* scheduleWakeup: nothing to save.
ScheduleWakeup(s, i) ==
    /\ Free(s) /\ said[i] = "nothing" /\ i \in Wakeups
    /\ \E t \in (clock + 1)..MaxTime :
         LET tasks == mem[s] \cup {<<i, t>>}
         IN  mem' = Put(mem, s, tasks) /\ Arm(s, tasks)
    /\ said' = [said EXCEPT ![i] = "created"]
    /\ UNCHANGED <<clock, file, up, waiting, op, troubled, torn, overruled, promptVars>>

\* remove.
Remove(s, i) ==
    LET its == {x \in mem[s] : x[1] = i}
    IN  /\ Free(s) /\ its # {}
        /\ mem' = Put(mem, s, mem[s] \ its) /\ Begin(s, "remove", its)
        /\ said' = [said EXCEPT ![i] = "leaving"] /\ overruled' = overruled \ {i}
        /\ UNCHANGED <<clock, file, up, timer, waiting, troubled, torn, promptVars>>

-----------------------------------------------------------------------------
\* The timer rings, and its firing waits for its turn.
Ring(s) ==
    /\ \E t \in timer[s] : t <= clock
    /\ waiting[s] < MaxWaiting /\ waiting' = [waiting EXCEPT ![s] = @ + 1]
    /\ timer' = Put(timer, s, {})
    /\ UNCHANGED <<clock, file, up, mem, op, troubled, toldVars, promptVars>>

Due(s) == {x \in mem[s] : x[2] <= clock}

\* A slip: the next time is not after the one that is due.
Repeated(x) == <<x[1], x[2]>>

Following(x) == <<x[1], NextTime>>

\* What is left when the due tasks are claimed.
Rest(s) ==
    (mem[s] \ Due(s)) \cup {Following(x) : x \in {y \in Due(s) : y[1] \in Recurring}}

\* A slip: a firing that finds nothing due is over.
ArmsIfDue(s) == {}

ArmsAnyway(s) == mem[s]

\* fireDue: the due tasks are claimed.
FireDue(s) ==
    /\ op[s] = NoOp /\ waiting[s] > 0
    /\ waiting' = [waiting EXCEPT ![s] = @ - 1]
    /\ IF up[s] /\ Due(s) # {}
       THEN /\ mem' = Put(mem, s, Rest(s)) /\ Begin(s, "fire", Due(s))
            /\ UNCHANGED timer
       ELSE /\ IF up[s] THEN Arm(s, ArmsAnyway(s)) ELSE UNCHANGED timer
            /\ UNCHANGED <<mem, op>>
    /\ UNCHANGED <<clock, file, up, troubled, toldVars, promptVars>>

-----------------------------------------------------------------------------
Saved(s) == {x \in mem[s] : x[1] \in Durable}

To(s, step) == op' = [op EXCEPT ![s].step = step]

\* persist: the file is replaced or it is not, and an error may follow both.  What
\* replaces it holds the memory, whatever it held before.
Save(s) ==
    /\ op[s].step = "save"
    /\ \/ \E step \in {"saved", "half"} : To(s, step) /\ file' = Saved(s) /\ torn' = {}
       \/ To(s, "failed") /\ UNCHANGED <<file, torn>>
    /\ UNCHANGED <<clock, up, mem, timer, waiting, troubled, said, overruled, promptVars>>

Ends(s, kind, step) ==
    /\ op[s].kind = kind /\ op[s].step = step /\ op' = Put(op, s, NoOp)

Tell(s, what) ==
    said' = [i \in Ids |-> IF i \in IdsOf(op[s].tasks) THEN what ELSE said[i]]

Answer(s) ==
    /\ \/ Ends(s, "create", "saved") /\ Tell(s, "created")
       \/ Ends(s, "remove", "saved") /\ Tell(s, "removed")
    /\ Arm(s, mem[s])
    /\ UNCHANGED <<clock, file, up, mem, waiting, troubled, torn, overruled, promptVars>>

\* A slip: the error is answered and what was done in memory stays.
Kept(s) == mem[s]

\* What could not be saved is taken back.
Undone(s) ==
    IF op[s].kind = "create" THEN mem[s] \ op[s].tasks ELSE mem[s] \cup op[s].tasks

\* The caller gets the error: a task is not made, or not removed.
TakeBack(s) ==
    /\ \E step \in {"failed", "half"} :
         /\ \/ Ends(s, "create", step) /\ Tell(s, "refused")
            \/ Ends(s, "remove", step) /\ Tell(s, "created")
         /\ torn' = IF step = "half" THEN torn \cup IdsOf(op[s].tasks) ELSE torn
    /\ mem' = Put(mem, s, Undone(s))
    /\ UNCHANGED <<clock, file, up, timer, waiting, troubled, overruled, promptVars>>

\* The claimed prompts are given to the session.  One that it rejects is reported
\* (onError) and given no more.
Deliver(s) ==
    /\ Ends(s, "fire", "saved")
    /\ \E taken \in SUBSET op[s].tasks :
         /\ fired' = [x \in Tasks |-> IF x \in taken THEN fired[x] + 1 ELSE fired[x]]
         /\ lost' = lost \cup (op[s].tasks \ taken)
    /\ Arm(s, mem[s])
    /\ UNCHANGED <<clock, file, up, mem, waiting, troubled, toldVars>>

\* onError: nothing is taken back, no prompt is given and no timer is set.
FiringFails(s) ==
    /\ Ends(s, "fire", "failed") \/ Ends(s, "fire", "half")
    /\ troubled' = Put(troubled, s, TRUE)
    /\ UNCHANGED <<clock, file, up, mem, timer, waiting, toldVars, promptVars>>

\* An operation goes on.
Goes(s) == Save(s) \/ Answer(s) \/ TakeBack(s) \/ Deliver(s) \/ FiringFails(s)

Asks(s) ==
    \/ Start(s) \/ Stop(s) \/ Crash(s)
    \/ \E i \in Ids : Create(s, i) \/ ScheduleWakeup(s, i) \/ Remove(s, i)

TimePasses ==
    /\ clock < MaxTime /\ clock' = clock + 1
    /\ UNCHANGED <<file, sessionVars, toldVars, promptVars>>

Next == (\E s \in Sessions : Ring(s) \/ FireDue(s) \/ Goes(s) \/ Asks(s)) \/ TimePasses

Spec == Init /\ [][Next]_vars

\* The timer rings and promises go on, each operation after those that were asked
\* for before it: a firing that waits has its turn.
FairSpec ==
    Spec /\ \A s \in Sessions : WF_vars(Ring(s)) /\ SF_vars(FireDue(s)) /\ WF_vars(Goes(s))

-----------------------------------------------------------------------------
Steps == {"none", "save", "saved", "failed", "half"}

TypeOK ==
    /\ clock \in 0..MaxTime /\ file \subseteq Tasks
    /\ up \in [Sessions -> BOOLEAN] /\ mem \in [Sessions -> SUBSET Tasks]
    /\ timer \in [Sessions -> SUBSET Nat] /\ waiting \in [Sessions -> 0..MaxWaiting]
    /\ op \in [Sessions -> [kind : {"none", "create", "remove", "fire"},
                            tasks : SUBSET Tasks, step : Steps]]
    /\ troubled \in [Sessions -> BOOLEAN]
    /\ said \in [Ids -> {"nothing", "asked", "created", "refused", "leaving", "removed"}]
    /\ torn \subseteq Ids /\ overruled \subseteq Ids
    /\ fired \in [Tasks -> Nat] /\ lost \subseteq Tasks

\* One timer at most, and it never sleeps past a task that is in memory while no
\* operation is under way.
SleepsNoLonger ==
    \A s \in Sessions :
        /\ Cardinality(timer[s]) <= 1
        /\ op[s] = NoOp => \A t \in timer[s], x \in mem[s] : t <= x[2] \/ t <= clock

\* The prompt of one scheduled time is given once, whatever fails and whenever
\* the session ends and is begun again; one that was rejected is not given again.
FiresOnce == \A x \in Tasks : fired[x] <= 1 /\ (x \in lost => fired[x] = 0)

\* A task whose removal was confirmed is in no memory and no file again.
RemovedStaysRemoved ==
    \A i \in Ids : said[i] = "removed" =>
        i \notin IdsOf(file) /\ \A s \in Sessions : i \notin IdsOf(mem[s])

\* A durable recurring task is on disk from its confirmation until its removal is
\* asked for, and again when that was answered with an error.  A removal whose save
\* failed after it replaced the file is the exception: until the next save that
\* replaces it, or for good if a session starts before that.
KeptOnDisk ==
    \A i \in (Durable \cap Recurring) \ (torn \cup overruled) :
        said[i] = "created" => i \in IdsOf(file)

\* A task whose creation was answered with an error is in no memory, and in no file
\* but in one that was replaced before its save failed.  From there, and only from
\* there, a later start of the session has it again.
RefusedStaysOut ==
    \A i \in Ids \ overruled : said[i] = "refused" =>
        /\ i \in IdsOf(file) => i \in torn
        /\ \A s \in Sessions : i \notin IdsOf(mem[s])

\* What a caller was told of a task, made, refused, kept or removed, is what memory
\* and file hold, whatever save fails later; where a save reported an error after it
\* had replaced the file, the file says the opposite until the next save, and is
\* believed if the session begins again before it.
ToldIsTrue == RemovedStaysRemoved /\ KeptOnDisk /\ RefusedStaysOut

\* The plain claim: a task that was refused is never scheduled.
RefusedNeverRuns ==
    \A i \in Ids, s \in Sessions : said[i] = "refused" => i \notin IdsOf(mem[s])

\* A task that is due is given to the session, unless the session rejects it or
\* ends, its removal was confirmed, its creation was answered with an error, or a
\* firing could not be saved.
DueFires ==
    \A s \in Sessions, x \in Ids \X (1..MaxTime) :
        (x \in Due(s)) ~>
            \/ fired[x] > 0 \/ x \in lost \/ said[x[1]] = "removed"
            \/ said[x[1]] = "refused" /\ x[1] \notin overruled
            \/ ~up[s] \/ troubled[s]

\* No task waits for ever in a session that goes on.
DueIsNotForgotten ==
    \A s \in Sessions, x \in Ids \X (1..MaxTime) : x \in Due(s) ~> x \notin Due(s)
=============================================================================
