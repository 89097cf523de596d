----------------------------- MODULE ClawLaunch -----------------------------
(***************************************************************************)
(* The launch of a Claw run: .pi/lib/claw/spawn.ts (startRun, dispatchCreate,*)
(* reconcileCreate, continueRun), and the parts of daemon.ts and           *)
(* supervisor.ts that judge a launch afterwards (reconcileRun, cancel,      *)
(* superviseTabClose, superviseRecovery, relaunchLaunch).                   *)
(*                                                                         *)
(* One daemon serves every run.  A run is a JSON file (disk); a handler    *)
(* reads it, works on its copy (mem) and saves it.  Every call that leaves *)
(* the process (Hoja, the issue tracker; Tern, the terminal) and every     *)
(* save is a step of its own, so a crash may fall between any two of them. *)
(* A Hoja create or a Tern tab call that was sent may take effect after    *)
(* its caller gave up, or never.                                           *)
(*                                                                         *)
(* Launch attempts are numbered: the i-th tab call of run r creates tab i, *)
(* in which worker process i runs.  0 stands for "none".                   *)
(*                                                                         *)
(* Abstracted: a worker of this module never settles a turn, asks or       *)
(* finishes (what happens to a run that does is not a launch matter), no   *)
(* run is kept open, and the identity of a process can always be read.     *)
(* Pacing (reconcileAt, backoff) is a free choice of when a step is taken. *)
(***************************************************************************)
EXTENDS Naturals

CONSTANTS
    Runs,               \* ids of the runs; each comes from one spawn request
    MaxIntentAttempts,  \* MAX_INTENT_ATTEMPTS, the budget of "hoja-resolve"
    MaxCrashes,         \* bound: how often the daemon may die
    OrphanWorkers       \* TRUE: a worker may outlive its tab (tabMissingAt)

ASSUME LaunchAssumption ==
    /\ MaxIntentAttempts \in Nat \ {0}
    /\ MaxCrashes \in Nat
    /\ OrphanWorkers \in BOOLEAN

VARIABLES
    disk,           \* runs/<id>.json
    taskFile,       \* runs/<id>.task.md exists
    step, mem,      \* what the daemon is doing for a run, and its copy of it
    crashes,
    creates,        \* Hoja: create requests sent ...
    pendingCreates, \*   ... of which these may still commit
    issues,         \*   issues that carry the run's marker
    launches,       \* Tern: tab calls sent ...
    pendingTabs,    \*   ... of which these may still open a tab
    opened,         \*   tabs that did open
    tabs,           \*   blocks whose command carries the run id, open now
    workers,        \* live worker processes
    started,        \* workers that appended their `started` event
    expired,        \* the request's expiresAt has passed
    age             \* time since launchStartedAt: 0 fresh, 1 past the lost
                    \* grace (60 s), 2 past the launch timeout (300 s)

daemonVars == <<disk, mem, step>>
hojaVars   == <<creates, pendingCreates, issues>>
ternVars   == <<launches, pendingTabs, opened, tabs, workers, started>>
timeVars   == <<expired, age>>
vars == <<daemonVars, taskFile, crashes, hojaVars, ternVars, timeVars>>

Status   == {"absent", "launching", "running", "failed", "lost", "cancelled"}
Terminal == {"failed", "lost", "cancelled"}
Active   == {"launching", "running"}
Phase    == {"intent", "create_dispatched", "issue_created", "tab_opening",
             "tab_open"}
Step     == {"idle", "dispatch", "resolve", "create", "await", "reconcile",
             "task", "launch", "gate", "tab", "tabwait", "interrupted",
             "dead", "supervise", "close", "recover", "cancel", "verify"}

RunRec == [status : Status, phase : Phase, hoja : BOOLEAN, attempts : Nat,
           launchFailure : BOOLEAN, deadline : BOOLEAN, block : Nat,
           tabClosed : BOOLEAN, pid : Nat, seen : SUBSET Nat,
           relaunchCount : Nat, relaunchSpent : BOOLEAN, confirmed : BOOLEAN]

NewRun == [status |-> "absent", phase |-> "intent", hoja |-> FALSE,
           attempts |-> 0, launchFailure |-> FALSE, deadline |-> TRUE,
           block |-> 0, tabClosed |-> FALSE, pid |-> 0, seen |-> {},
           relaunchCount |-> 0, relaunchSpent |-> FALSE, confirmed |-> FALSE]

Init ==
    /\ disk = [r \in Runs |-> NewRun]
    /\ mem  = [r \in Runs |-> NewRun]
    /\ step = [r \in Runs |-> "idle"]
    /\ taskFile = [r \in Runs |-> FALSE]
    /\ crashes = 0
    /\ creates  = [r \in Runs |-> 0]
    /\ launches = [r \in Runs |-> 0]
    /\ pendingCreates = [r \in Runs |-> {}]
    /\ issues  = [r \in Runs |-> {}]
    /\ pendingTabs = [r \in Runs |-> {}]
    /\ opened  = [r \in Runs |-> {}]
    /\ tabs    = [r \in Runs |-> {}]
    /\ workers = [r \in Runs |-> {}]
    /\ started = [r \in Runs |-> {}]
    /\ expired = [r \in Runs |-> FALSE]
    /\ age     = [r \in Runs |-> 0]

-----------------------------------------------------------------------------
(* The daemon is sequential: one handler runs at a time.                   *)

Idle == \A q \in Runs : step[q] = "idle"

Goto(r, s)   == step' = [step EXCEPT ![r] = s]
Change(r, m) == mem' = [mem EXCEPT ![r] = m] /\ UNCHANGED disk
SaveRun(r, m) ==
    /\ mem'  = [mem EXCEPT ![r] = m]
    /\ disk' = [disk EXCEPT ![r] = m]

\* A slip: the deadline is looked at when the request is taken up only.
NeverPast(r) == FALSE

PastDeadline(r) == mem[r].deadline /\ expired[r]

Failed(m) == [m EXCEPT !.status = "failed", !.launchFailure = TRUE]

FailRun(r, s) ==
    /\ SaveRun(r, Failed(mem[r]))
    /\ Goto(r, s)

\* A step that touches neither Hoja nor Tern nor the task file.
Local == UNCHANGED <<taskFile, crashes, hojaVars, ternVars, timeVars>>

(* startRun: a request that has no run yet gets one, persisted as an       *)
(* intent before anything leaves the process.  The deadline was looked at  *)
(* before (processRequests), and may have passed since.                    *)
StartRun(r) ==
    /\ Idle /\ disk[r].status = "absent"
    /\ \E d \in BOOLEAN : \* a trigger's run has no deadline
          SaveRun(r, [NewRun EXCEPT !.status = "launching", !.deadline = d])
    /\ Goto(r, "dispatch")
    /\ Local

(* continueRun, from the tick: unfinished launches resume at their phase.  *)
ContinueRun(r) ==
    /\ Idle /\ disk[r].status \in Active /\ disk[r].phase # "tab_open"
    /\ Goto(r, CASE disk[r].phase = "intent" -> "dispatch"
                 [] disk[r].phase = "create_dispatched" -> "reconcile"
                 [] disk[r].phase = "issue_created" -> "launch"
                 [] disk[r].phase = "tab_opening" -> "interrupted")
    /\ UNCHANGED <<disk, mem>>
    /\ Local

-----------------------------------------------------------------------------
(* dispatchCreate: phase intent.                                           *)

CheckDispatch(r) ==
    /\ step[r] = "dispatch"
    /\ IF PastDeadline(r) THEN FailRun(r, "idle")
       ELSE Goto(r, "resolve") /\ UNCHANGED <<disk, mem>>
    /\ Local

\* hoja.resolve failed: one attempt of the budget; the last one gives up.
ResolveFails(r) ==
    /\ step[r] = "resolve"
    /\ LET m == [mem[r] EXCEPT !.attempts = @ + 1]
       IN SaveRun(r, IF m.attempts >= MaxIntentAttempts THEN Failed(m) ELSE m)
    /\ Goto(r, "idle")
    /\ Local

\* findIssueByMarker failed: nothing was sent, the run stays in intent.
LookupFails(r) ==
    /\ step[r] = "resolve"
    /\ Goto(r, "idle")
    /\ UNCHANGED <<disk, mem>>
    /\ Local

\* A slip: the phase changes in memory only, and is saved with the answer.
DispatchUnsaved(r) ==
    /\ step[r] = "resolve"
    /\ LET found == issues[r] # {}
       IN /\ Change(r, [mem[r] EXCEPT !.phase = "create_dispatched",
                                      !.hoja = found])
          /\ Goto(r, IF found THEN "reconcile" ELSE "create")
    /\ Local

\* The phase is persisted before the create leaves the process.
Dispatch(r) ==
    /\ step[r] = "resolve"
    /\ LET found == issues[r] # {}
       IN /\ SaveRun(r, [mem[r] EXCEPT !.phase = "create_dispatched",
                                       !.hoja = found])
          /\ Goto(r, IF found THEN "reconcile" ELSE "create")
    /\ Local

SendCreate(r) ==
    /\ step[r] = "create"
    /\ creates' = [creates EXCEPT ![r] = @ + 1]
    /\ pendingCreates' = [pendingCreates EXCEPT ![r] = @ \cup {creates[r] + 1}]
    /\ Goto(r, "await")
    /\ UNCHANGED <<disk, mem, taskFile, crashes, issues, ternVars, timeVars>>

CreateAnswered(r) ==
    /\ step[r] = "await" /\ creates[r] \in issues[r]
    /\ SaveRun(r, [mem[r] EXCEPT !.hoja = TRUE])
    /\ Goto(r, "reconcile")
    /\ Local

\* A slip: the ambiguous create goes back to the intent phase, to be re-sent.
CreateUnknownResends(r) ==
    /\ step[r] = "await"
    /\ SaveRun(r, [mem[r] EXCEPT !.phase = "intent"])
    /\ Goto(r, "idle")
    /\ Local

\* An ambiguous error (timeout, lost answer): never re-sent.
CreateUnknown(r) ==
    /\ step[r] = "await"
    /\ SaveRun(r, mem[r])
    /\ Goto(r, "idle")
    /\ Local

\* A definitive rejection: the server committed nothing and never will.
CreateRejected(r) ==
    /\ step[r] = "await" /\ creates[r] \in pendingCreates[r]
    /\ pendingCreates' = [pendingCreates EXCEPT ![r] = @ \ {creates[r]}]
    /\ FailRun(r, "idle")
    /\ UNCHANGED <<taskFile, crashes, creates, issues, ternVars, timeVars>>

-----------------------------------------------------------------------------
(* reconcileCreate: phase create_dispatched.  Never creates.               *)

\* The lookup or the read failed, or no issue is visible yet: retry later.
IssueNotSeen(r) ==
    /\ step[r] = "reconcile"
    /\ SaveRun(r, mem[r])
    /\ Goto(r, "idle")
    /\ Local

\* verifyIssue: the stored issue is not the one that was asked for.
IssueMismatch(r) ==
    /\ step[r] = "reconcile" /\ issues[r] # {}
    /\ FailRun(r, "idle")
    /\ Local

IssueVerified(r) ==
    /\ step[r] = "reconcile" /\ issues[r] # {}
    /\ SaveRun(r, [mem[r] EXCEPT !.hoja = TRUE, !.phase = "issue_created"])
    /\ Goto(r, "task")
    /\ Local

WriteTaskFile(r) ==
    /\ step[r] = "task"
    /\ taskFile' = [taskFile EXCEPT ![r] = TRUE]
    /\ Goto(r, "idle")
    /\ UNCHANGED <<disk, mem, crashes, hojaVars, ternVars, timeVars>>

-----------------------------------------------------------------------------
(* continueRun, phases issue_created and tab_opening.                      *)

CheckLaunch(r) ==
    /\ step[r] = "launch"
    /\ IF PastDeadline(r) THEN FailRun(r, "idle")
       ELSE Goto(r, "gate") /\ UNCHANGED <<disk, mem>>
    /\ Local

GateRefuses(r) ==
    /\ step[r] = "gate"
    /\ FailRun(r, "idle")
    /\ Local

\* clawSession failed before any tab call: safe to repeat.
SessionFails(r) ==
    /\ step[r] = "gate"
    /\ SaveRun(r, mem[r])
    /\ Goto(r, "idle")
    /\ Local

OpenTab(r) ==
    /\ step[r] = "gate"
    /\ SaveRun(r, [mem[r] EXCEPT !.phase = "tab_opening"])
    /\ Goto(r, "tab")
    /\ Local

SendTab(r) ==
    /\ step[r] = "tab"
    /\ launches' = [launches EXCEPT ![r] = @ + 1]
    /\ pendingTabs' = [pendingTabs EXCEPT ![r] = @ \cup {launches[r] + 1}]
    /\ Goto(r, "tabwait")
    /\ UNCHANGED <<disk, mem, taskFile, crashes, hojaVars, opened, tabs,
                   workers, started, timeVars>>

TabAnswered(r) ==
    /\ step[r] = "tabwait" /\ launches[r] \in opened[r]
    /\ SaveRun(r, [mem[r] EXCEPT !.phase = "tab_open", !.block = launches[r]])
    /\ Goto(r, "idle")
    /\ Local

\* locateTab records a block that carries the run id; there may be none, and
\* Tern may be unable to say.
Located(r, m) == {m} \cup {[m EXCEPT !.block = b] : b \in tabs[r]}

TabFails(r) ==
    /\ step[r] = "tabwait"
    /\ \E m \in Located(r, Failed(mem[r])) : SaveRun(r, m)
    /\ Goto(r, "idle")
    /\ Local

\* A restart found the run in tab_opening: reported, never retried.
AfterInterrupt(r) ==
    Located(r, [mem[r] EXCEPT !.status = "failed"])

Interrupted(r) ==
    /\ step[r] = "interrupted"
    /\ \E m \in AfterInterrupt(r) : SaveRun(r, m)
    /\ Goto(r, "idle")
    /\ Local

-----------------------------------------------------------------------------
(* reconcileRun: apply the worker's events, judge its liveness, time the   *)
(* launch out, close the tab of a terminal run, relaunch once.             *)

\* applyEvent of the `started` events not seen yet; p is the last of them.
ApplyStarted(m, new, p) ==
    [m EXCEPT !.seen = @ \cup new, !.pid = p, !.deadline = FALSE,
              !.status = IF @ \in Terminal THEN @ ELSE "running"]

AfterEvents(r, m) ==
    LET new == started[r] \ m.seen
    IN IF new = {} THEN {m} ELSE {ApplyStarted(m, new, p) : p \in new}

\* A slip: a process that was never reported counts as a process that is gone.
DeadIgnoresMissingPid(r, m) == m.pid \notin workers[r]

\* runLiveness says dead: the recorded process is gone, or no process was
\* ever reported, the grace is over and its block is not in Tern's snapshot.
Dead(r, m) ==
    IF m.pid # 0 THEN m.pid \notin workers[r]
    ELSE m.block # 0 /\ m.block \notin tabs[r] /\ age[r] > 0

\* The tick continues an interrupted tab call before it reconciles the run;
\* in the other phases a retry may be scheduled for later (reconcileAt).
ReconcileRun(r) ==
    /\ Idle /\ disk[r].status # "absent"
    /\ disk[r].status \in Active => disk[r].phase # "tab_opening"
    /\ \E m \in AfterEvents(r, disk[r]) :
          /\ Change(r, m)
          /\ \/ m.status \in Active /\ Dead(r, m) /\ Goto(r, "dead")
             \/ /\ \/ m.status \notin Active
                   \/ ~Dead(r, m)
                   \/ m.pid = 0     \* the Tern snapshot may be missing
                /\ Goto(r, "supervise")
    /\ Local

\* The events are read again before the verdict: failStartup, or lost.
Verdict(m) ==
    IF m.pid = 0 /\ m.seen = {} /\ m.phase = "tab_open"
    THEN "failed" ELSE "lost"

JudgeDead(r) ==
    /\ step[r] = "dead"
    /\ \E m \in AfterEvents(r, mem[r]) :
          Change(r, [m EXCEPT !.status = Verdict(m)])
    /\ Goto(r, "supervise")
    /\ Local

\* A slip: an issue that never appears is waited for without a bound.
TimedOutOnceCreated(r) ==
    /\ mem[r].status = "launching" /\ age[r] = 2
    /\ mem[r].phase # "create_dispatched"

TimedOut(r) == mem[r].status = "launching" /\ age[r] = 2

Supervise(r) ==
    /\ step[r] = "supervise"
    /\ IF TimedOut(r) THEN FailRun(r, "close")
       ELSE Goto(r, "close") /\ UNCHANGED <<disk, mem>>
    /\ Local

\* Tern closes block b; its worker dies with it, or outlives it.
Closes(r, b) ==
    /\ tabs' = [tabs EXCEPT ![r] = @ \ {b}]
    /\ \/ workers' = [workers EXCEPT ![r] = @ \ {b}]
       \/ OrphanWorkers /\ UNCHANGED workers
    /\ UNCHANGED <<launches, pendingTabs, opened, started>>

CloseDue(m) == m.block # 0 /\ ~m.tabClosed

CloseTab(r) ==
    /\ step[r] = "close"
    /\ mem[r].status \in Terminal /\ CloseDue(mem[r])
    /\ Closes(r, mem[r].block)
    /\ Change(r, [mem[r] EXCEPT !.tabClosed = TRUE])
    /\ Goto(r, "recover")
    /\ UNCHANGED <<taskFile, crashes, hojaVars, timeVars>>

\* Nothing to close, or the close failed and is retried on a later tick.
LeaveTab(r) ==
    /\ step[r] = "close"
    /\ Goto(r, "recover")
    /\ UNCHANGED <<disk, mem>>
    /\ Local

\* A slip: the phase, which tells what the launch may have left, is ignored.
RecoverableInAnyPhase(m) ==
    /\ m.relaunchCount = 0 /\ ~m.relaunchSpent
    /\ \/ m.status = "failed" /\ m.launchFailure
       \/ m.status = "lost"

\* A slip: any terminal run that had an issue may be launched again.
RecoverableWhenTerminal(m) ==
    /\ m.relaunchCount = 0 /\ ~m.relaunchSpent
    /\ m.status \in Terminal /\ m.phase \in {"issue_created", "tab_open"}

\* recoveryReason: a launch that failed before any tab call, or a worker
\* lost before its first settled turn.  One attempt.
Recoverable(m) ==
    /\ m.relaunchCount = 0 /\ ~m.relaunchSpent
    /\ \/ m.status = "failed" /\ m.launchFailure /\ m.phase = "issue_created"
       \/ m.status = "lost" /\ m.phase = "tab_open"

TooLate(r) == mem[r].status = "failed" /\ PastDeadline(r)

\* No remedy is due, or Tern could not be asked: the pass ends with its save.
NoRecovery(r) ==
    /\ step[r] = "recover"
    /\ Recoverable(mem[r]) => ~TooLate(r)
    /\ SaveRun(r, mem[r])
    /\ Goto(r, "idle")
    /\ Local

\* The deadline passed, or a block still carries the run id: budget spent.
RecoverySpent(r) ==
    /\ step[r] = "recover" /\ Recoverable(mem[r])
    /\ TooLate(r) \/ tabs[r] # {}
    /\ SaveRun(r, [mem[r] EXCEPT !.relaunchSpent = TRUE])
    /\ Goto(r, "idle")
    /\ Local

Relaunched(m) ==
    [m EXCEPT !.status = "launching", !.phase = "issue_created", !.block = 0,
              !.pid = 0, !.relaunchCount = @ + 1, !.relaunchSpent = TRUE]

RelaunchLaunch(r) ==
    /\ step[r] = "recover" /\ Recoverable(mem[r])
    /\ ~TooLate(r) /\ tabs[r] = {}
    /\ SaveRun(r, Relaunched(mem[r]))
    /\ Goto(r, "idle")
    /\ age' = [age EXCEPT ![r] = 0]
    /\ UNCHANGED <<taskFile, crashes, hojaVars, ternVars, expired>>

-----------------------------------------------------------------------------
(* handleRequest "cancel": signal, close, verify, record.                  *)

\* SIGTERM to the recorded process, which may take its time to exit.
Cancel(r) ==
    /\ Idle /\ disk[r].status \in Active
    /\ workers' \in {workers, [workers EXCEPT ![r] = @ \ {disk[r].pid}]}
    /\ Goto(r, "cancel")
    /\ UNCHANGED <<disk, mem, taskFile, crashes, hojaVars, launches,
                   pendingTabs, opened, tabs, started, timeVars>>

CancelCloses(r) ==
    /\ step[r] = "cancel" /\ CloseDue(mem[r])
    /\ Closes(r, mem[r].block)
    /\ Change(r, [mem[r] EXCEPT !.tabClosed = TRUE])
    /\ Goto(r, "verify")
    /\ UNCHANGED <<taskFile, crashes, hojaVars, timeVars>>

CancelLeaves(r) ==
    /\ step[r] = "cancel"
    /\ Goto(r, "verify")
    /\ UNCHANGED <<disk, mem>>
    /\ Local

\* verifyCancelled: the recorded process and the recorded block are gone.
Gone(r, m) ==
    /\ m.pid # 0 => m.pid \notin workers[r]
    /\ m.block # 0 => m.block \notin tabs[r]

\* Without Tern's snapshot a recorded block is never confirmed gone.  Only a
\* verified cancel moves the Hoja issue (confirmed).
CancelRecords(r) ==
    /\ step[r] = "verify"
    /\ \E verified \in BOOLEAN :
          /\ verified => Gone(r, mem[r])
          /\ ~verified => ~Gone(r, mem[r]) \/ mem[r].block # 0
          /\ SaveRun(r, [mem[r] EXCEPT !.status = "cancelled",
                                       !.confirmed = verified /\ mem[r].hoja])
    /\ Goto(r, "idle")
    /\ Local

-----------------------------------------------------------------------------
(* The daemon dies: its copies are gone, the files and the calls that were *)
(* sent remain.  The next daemon starts from the files.                    *)
Crash ==
    /\ crashes < MaxCrashes
    /\ crashes' = crashes + 1
    /\ mem' = disk
    /\ step' = [r \in Runs |-> "idle"]
    /\ UNCHANGED <<disk, taskFile, hojaVars, ternVars, timeVars>>

(* Hoja, Tern, the workers and the clock.                                  *)

Env == UNCHANGED <<daemonVars, taskFile, crashes>>

CommitCreate(r) ==
    /\ \E i \in pendingCreates[r] :
          /\ pendingCreates' = [pendingCreates EXCEPT ![r] = @ \ {i}]
          /\ issues' = [issues EXCEPT ![r] = @ \cup {i}]
    /\ UNCHANGED <<creates, ternVars, timeVars>> /\ Env

DropCreate(r) ==
    /\ \E i \in pendingCreates[r] :
          pendingCreates' = [pendingCreates EXCEPT ![r] = @ \ {i}]
    /\ UNCHANGED <<creates, issues, ternVars, timeVars>> /\ Env

TabOpens(r) ==
    /\ \E i \in pendingTabs[r] :
          /\ pendingTabs' = [pendingTabs EXCEPT ![r] = @ \ {i}]
          /\ opened'  = [opened EXCEPT ![r] = @ \cup {i}]
          /\ tabs'    = [tabs EXCEPT ![r] = @ \cup {i}]
          /\ workers' = [workers EXCEPT ![r] = @ \cup {i}]
    /\ UNCHANGED <<launches, started, hojaVars, timeVars>> /\ Env

TabNeverOpens(r) ==
    /\ \E i \in pendingTabs[r] :
          pendingTabs' = [pendingTabs EXCEPT ![r] = @ \ {i}]
    /\ UNCHANGED <<launches, opened, tabs, workers, started, hojaVars,
                   timeVars>>
    /\ Env

WorkerStarts(r) ==
    /\ \E i \in workers[r] \ started[r] :
          started' = [started EXCEPT ![r] = @ \cup {i}]
    /\ UNCHANGED <<launches, pendingTabs, opened, tabs, workers, hojaVars,
                   timeVars>>
    /\ Env

\* `--keep-open`: the block stays when the process exits; or Tern drops it.
WorkerDies(r) ==
    /\ \E i \in workers[r] :
          /\ workers' = [workers EXCEPT ![r] = @ \ {i}]
          /\ tabs' \in {tabs, [tabs EXCEPT ![r] = @ \ {i}]}
    /\ UNCHANGED <<launches, pendingTabs, opened, started, hojaVars, timeVars>>
    /\ Env

\* A human closes the tab.
TabClosedByHand(r) ==
    /\ \E i \in tabs[r] : Closes(r, i)
    /\ UNCHANGED <<hojaVars, timeVars>> /\ Env

Expire(r) ==
    /\ ~expired[r]
    /\ expired' = [expired EXCEPT ![r] = TRUE]
    /\ UNCHANGED <<age, hojaVars, ternVars>> /\ Env

\* A request's deadline is nearer than the launch timeout.
Age(r) ==
    /\ disk[r].status \in Active /\ age[r] < 2
    /\ age[r] = 1 /\ disk[r].deadline => expired[r]
    /\ age' = [age EXCEPT ![r] = @ + 1]
    /\ UNCHANGED <<expired, hojaVars, ternVars>> /\ Env

DispatchStep(r) ==
    \/ CheckDispatch(r) \/ ResolveFails(r) \/ LookupFails(r) \/ Dispatch(r)
    \/ SendCreate(r) \/ CreateAnswered(r) \/ CreateUnknown(r)
    \/ CreateRejected(r) \/ IssueNotSeen(r) \/ IssueMismatch(r)
    \/ IssueVerified(r) \/ WriteTaskFile(r)

LaunchStep(r) ==
    \/ CheckLaunch(r) \/ GateRefuses(r) \/ SessionFails(r) \/ OpenTab(r)
    \/ SendTab(r) \/ TabAnswered(r) \/ TabFails(r) \/ Interrupted(r)

ReconcileStep(r) ==
    \/ JudgeDead(r) \/ Supervise(r) \/ CloseTab(r) \/ LeaveTab(r)
    \/ NoRecovery(r) \/ RecoverySpent(r) \/ RelaunchLaunch(r)

CancelStep(r) == CancelCloses(r) \/ CancelLeaves(r) \/ CancelRecords(r)

DaemonStep(r) ==
    DispatchStep(r) \/ LaunchStep(r) \/ ReconcileStep(r) \/ CancelStep(r)

EnvStep(r) ==
    \/ CommitCreate(r) \/ DropCreate(r) \/ TabOpens(r) \/ TabNeverOpens(r)
    \/ WorkerStarts(r) \/ WorkerDies(r) \/ TabClosedByHand(r) \/ Expire(r)
    \/ Age(r)

Next ==
    \/ \E r \in Runs : \/ StartRun(r) \/ ContinueRun(r) \/ ReconcileRun(r)
                       \/ Cancel(r) \/ DaemonStep(r) \/ EnvStep(r)
    \/ Crash

Spec == Init /\ [][Next]_vars

(* Fairness.  Every await of the daemon ends (Hoja and Tern calls have       *)
(* time limits), each tick visits every unfinished run, and time passes.   *)
(* Nothing is assumed of Hoja, of Tern, of the workers or of the users.    *)
FairSpec ==
    /\ Spec
    /\ \A r \in Runs : /\ WF_vars(DaemonStep(r))
                       /\ SF_vars(ContinueRun(r))
                       /\ SF_vars(ReconcileRun(r))
                       /\ WF_vars(Expire(r) \/ Age(r))

-----------------------------------------------------------------------------
TypeOK ==
    /\ disk \in [Runs -> RunRec]
    /\ mem \in [Runs -> RunRec]
    /\ step \in [Runs -> Step]
    /\ taskFile \in [Runs -> BOOLEAN]
    /\ crashes \in 0..MaxCrashes
    /\ creates \in [Runs -> Nat]
    /\ pendingCreates \in [Runs -> SUBSET Nat]
    /\ issues \in [Runs -> SUBSET Nat]
    /\ launches \in [Runs -> Nat]
    /\ pendingTabs \in [Runs -> SUBSET Nat]
    /\ opened \in [Runs -> SUBSET Nat]
    /\ tabs \in [Runs -> SUBSET Nat]
    /\ workers \in [Runs -> SUBSET Nat]
    /\ started \in [Runs -> SUBSET Nat]
    /\ expired \in [Runs -> BOOLEAN]
    /\ age \in [Runs -> 0..2]

(* No crash, lost answer or retry makes a second Hoja issue for a run.     *)
AtMostOneIssue ==
    \A r \in Runs : /\ creates[r] <= 1
                    /\ \A i, j \in issues[r] \cup pendingCreates[r] : i = j

(* The message "no Hoja issue was created" of a launch that ended before   *)
(* its create is true, and no later step can make it false.                *)
NotStartedMeansNothing ==
    \A r \in Runs : disk[r].status \in Terminal /\ disk[r].phase = "intent"
                        => issues[r] = {} /\ pendingCreates[r] = {}

(* A worker tab is only ever asked for after the run's issue was read back *)
(* from Hoja and recorded, and each (re)launch asks for one tab at most.   *)
TabsAreEarned ==
    \A r \in Runs : /\ launches[r] > 0 => issues[r] # {} /\ disk[r].hoja
                    /\ launches[r] <= 1 + disk[r].relaunchCount
                    /\ disk[r].relaunchCount <= 1

(* Two workers never work on one run at the same time.                     *)
AtMostOneWorker == \A r \in Runs : \A i, j \in workers[r] : i = j

(* A run the daemon reports lost has no live worker left.                  *)
LostMeansGone ==
    \A r \in Runs : disk[r].status = "lost" => workers[r] = {}

(* A cancelled run stays cancelled, and nothing is created for it again.   *)
CancelIsFinal ==
    [][\A r \in Runs : disk[r].status = "cancelled" =>
          /\ disk'[r].status = "cancelled"
          /\ creates'[r] = creates[r] /\ launches'[r] = launches[r]]_vars

(* A launch always ends: the worker reports in, or the run is terminal.    *)
LaunchSettles ==
    \A r \in Runs : disk[r].status = "launching" ~>
                        disk[r].status # "launching"

-----------------------------------------------------------------------------
(* What comments of the code say of it, and the code does not keep.        *)

(* spawn.ts:328 "Redo only what is safe. Idempotent: callable again after  *)
(* any crash": the task file a worker is told to read exists.              *)
TaskBeforeTab == \A r \in Runs : launches[r] > 0 => taskFile[r]

(* spawn.ts:344 "no worker starts after expiry".                           *)
NoLaunchAfterExpiry ==
    [][\A r \in Runs : launches'[r] > launches[r] => ~PastDeadline(r)]_vars

(* daemon.ts:66 "A cancel is verified only when the worker process and its *)
(* tab are both confirmed gone".                                           *)
ConfirmedMeansGone ==
    [][\A r \in Runs : disk'[r].confirmed /\ ~disk[r].confirmed =>
          workers[r] = {} /\ tabs[r] = {}]_vars

(* spawn.ts:394 "The supervisor retries once, and only if no Tern block    *)
(* carries this run id".                                                   *)
TernFairRecovery ==
    FairSpec /\ \A r \in Runs : SF_vars(CloseTab(r)) /\ SF_vars(RelaunchLaunch(r))

TabCallFailed(r) ==
    /\ disk[r].status = "failed" /\ disk[r].phase = "tab_opening"
    /\ disk[r].launchFailure /\ disk[r].relaunchCount = 0
    /\ tabs[r] = {} /\ pendingTabs[r] = {}

FailedTabRetried ==
    \A r \in Runs : TabCallFailed(r) /\ ~disk[r].deadline
                        ~> disk[r].relaunchCount = 1

(* daemon.ts:340 "A worker that died before its first session event is     *)
(* failed with the reason, never reported as lost".                        *)
StartupDeathIsFailed ==
    \A r \in Runs : disk[r].status = "lost" => disk[r].pid # 0
=============================================================================
