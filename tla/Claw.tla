-------------------------------- MODULE Claw --------------------------------
(***************************************************************************)
(* A spawn from its caller to its worker: ClawRequests and ClawLaunch as   *)
(* one system, the way daemon.ts runs them (tick, processRequests,          *)
(* handleRequest, hasWork, runDaemon).                                     *)
(*                                                                         *)
(* The daemon is one sequential process.  A launch is served inside the    *)
(* request that asks for it: the response is written after the launch has  *)
(* gone as far as it can.  What is left of a launch is continued and judged *)
(* in the rest of the tick, after the requests.  The deadline a caller      *)
(* waits for is the one the launch compares with the clock.                *)
(***************************************************************************)
EXTENDS ClawRequests

CONSTANTS
    MaxIntentAttempts,  \* as in ClawLaunch
    OrphanWorkers       \* as in ClawLaunch

ASSUME ClawAssumption ==
    /\ MaxIntentAttempts \in Nat \ {0}
    /\ OrphanWorkers \in BOOLEAN

VARIABLES
    disk, taskFile, step, mem, creates, pendingCreates, issues, launches,
    pendingTabs, opened, tabs, workers, started, age    \* as in ClawLaunch

\* The runs are those of the spawn requests, under ids made of theirs.
Launch == INSTANCE ClawLaunch
              WITH Runs <- Spawns, expired <- [q \in Spawns |-> late[q]]

launchVars == <<disk, mem, step, taskFile, creates, pendingCreates, issues,
                launches, pendingTabs, opened, tabs, workers, started, age>>

clawVars == <<vars, launchVars>>

ClawInit == Init /\ Launch!Init

-----------------------------------------------------------------------------
(* The steps that are the protocol's alone.                                *)

CallerStep ==
    /\ \/ \E q \in Requests : ClientStep(q) \/ Expire(q)
       \/ Toggle
    /\ UNCHANGED launchVars

\* A slip: the daemon looks for request files only before it exits.
WaitsForRequestsOnly(q) == FALSE

\* hasWork: isActive.  What supervisionPending adds may be exhausted.
HasWork(q) == disk[q].status \in Launch!Active

\* processRequests but for the start of a run, the end of a tick, and the
\* idle exit of runDaemon.  No launch is under way when a request is taken
\* up, nor when its response is written.
ServeStep ==
    /\ Launch!Idle
    /\ DaemonStep \/ Exit
    /\ run' = run
    /\ daemon' = "exiting" => \A q \in Spawns : ~HasWork(q)
    /\ UNCHANGED launchVars

-----------------------------------------------------------------------------
(* The steps that both take.                                               *)

\* startRun: the run is recorded with the deadline of its request.
RunStarts(q) ==
    /\ StartRun(q) /\ q \in run'
    /\ Launch!StartRun(q) /\ disk'[q].deadline

DaemonDies == Crash /\ Launch!Crash

-----------------------------------------------------------------------------
(* The steps that are the launch's alone.                                  *)

\* tick: what is not finished is continued and judged after the requests.
TickStep(q) ==
    /\ daemon = "pass" /\ serving.at = "next" /\ todo = {}
    /\ UNCHANGED vars
    /\ Launch!ContinueRun(q) \/ Launch!ReconcileRun(q)

\* handleRequest of a cancel, which is a request of its own.
CancelServed(q) ==
    /\ daemon = "pass" /\ serving.at = "next"
    /\ UNCHANGED vars
    /\ Launch!Cancel(q)

LaunchGoesOn(q) ==
    /\ daemon = "pass"
    /\ UNCHANGED vars
    /\ Launch!DaemonStep(q)

\* Hoja, Tern, the workers and the time since the launch began.
WorldStep(q) == UNCHANGED vars /\ Launch!EnvStep(q)

ClawNext ==
    \/ CallerStep \/ ServeStep \/ DaemonDies
    \/ \E q \in Spawns :
          \/ RunStarts(q) \/ TickStep(q) \/ CancelServed(q)
          \/ LaunchGoesOn(q) \/ WorldStep(q)

ClawSpec == ClawInit /\ [][ClawNext]_clawVars

-----------------------------------------------------------------------------
\* Nothing was done for a spawn in Hoja or in Tern.
Untouched(q) ==
    /\ creates[q] = 0 /\ pendingCreates[q] = {} /\ issues[q] = {}
    /\ launches[q] = 0 /\ pendingTabs[q] = {} /\ tabs[q] = {}
    /\ workers[q] = {}

(* A caller told that nothing was started, and a caller whose deadline      *)
(* passed before its run was recorded, rely on it up to Hoja and Tern: no   *)
(* issue is created for the spawn and no tab is opened, now or ever, by     *)
(* this daemon or the next, though the deadline may pass while the request  *)
(* is being served and the run is recorded after it.                       *)
NothingStarts ==
    \A q \in Spawns :
        [](client[q] = "not_started" \/ (late[q] /\ q \notin run)
               => []Untouched(q))

(* A daemon that was not killed leaves no launch unfinished behind it: it   *)
(* exits for want of work only when every run is over or, as here it never *)
(* is, handed to a human, and nothing brings one back after its last tick. *)
NoRunAbandoned ==
    crashes = 0 /\ daemon \in {"down", "exiting"} =>
        \A q \in Spawns : disk[q].status \notin Launch!Active
=============================================================================
