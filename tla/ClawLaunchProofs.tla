-------------------------- MODULE ClawLaunchProofs --------------------------
(***************************************************************************)
(* Proofs about ClawLaunch, for every set of runs and every bound: first   *)
(* what a launch does once, then what a run that ended can rely on.        *)
(***************************************************************************)
EXTENDS ClawLaunch, TLAPS

-----------------------------------------------------------------------------
(* Type correctness.                                                       *)

DaemonType ==
    /\ disk \in [Runs -> RunRec]
    /\ mem \in [Runs -> RunRec]
    /\ step \in [Runs -> Step]

LEMMA InitType == Init => TypeOK
  BY LaunchAssumption
     DEF Init, TypeOK, NewRun, RunRec, Status, Phase, Step

LEMMA FailedType ==
    ASSUME NEW m \in RunRec
    PROVE  Failed(m) \in RunRec
  BY DEF Failed, RunRec, Status

(* A handler that saves its copy, or only changes it, and goes to a step.  *)
LEMMA WriteType ==
    ASSUME DaemonType, NEW r \in Runs, NEW m \in RunRec, NEW s \in Step,
           SaveRun(r, m) \/ Change(r, m) \/ UNCHANGED <<disk, mem>>,
           Goto(r, s)
    PROVE  DaemonType'
  BY DEF DaemonType, SaveRun, Change, Goto

LEMMA FailRunType ==
    ASSUME DaemonType, NEW r \in Runs, NEW s \in Step, FailRun(r, s)
    PROVE  DaemonType'
  <1>1. mem[r] \in RunRec
    BY DEF DaemonType
  <1> QED
    BY <1>1, FailedType, WriteType DEF FailRun

(* dispatchCreate and reconcileCreate.                                     *)
LEMMA DispatchDaemonType ==
    ASSUME DaemonType, NEW r \in Runs, DispatchStep(r)
    PROVE  DaemonType'
  <1>0. mem[r] \in RunRec
    BY DEF DaemonType
  <1>s. /\ {"idle", "resolve", "reconcile", "create", "await", "task"}
              \subseteq Step
        /\ {"intent", "create_dispatched", "issue_created"} \subseteq Phase
    BY DEF Step, Phase
  <1>1. CASE CheckDispatch(r)
    BY <1>0, <1>s, <1>1, FailRunType, WriteType DEF CheckDispatch
  <1>2. CASE ResolveFails(r)
    <2> DEFINE m == [mem[r] EXCEPT !.attempts = @ + 1]
               n == IF m.attempts >= MaxIntentAttempts THEN Failed(m) ELSE m
    <2>1. m \in RunRec
      BY <1>0 DEF RunRec
    <2>2. n \in RunRec
      BY <2>1, FailedType
    <2>3. SaveRun(r, n) /\ Goto(r, "idle")
      BY <1>2 DEF ResolveFails
    <2> QED
      BY <1>s, <2>2, <2>3, WriteType
  <1>3. CASE LookupFails(r)
    BY <1>0, <1>s, <1>3, WriteType DEF LookupFails
  <1>4. CASE Dispatch(r)
    <2> DEFINE m == [mem[r] EXCEPT !.phase = "create_dispatched",
                                   !.hoja = (issues[r] # {})]
    <2>1. m \in RunRec
      BY <1>0, <1>s DEF RunRec
    <2>2. SaveRun(r, m) /\ \E s \in Step : Goto(r, s)
      BY <1>4, <1>s DEF Dispatch
    <2> QED
      BY <2>1, <2>2, WriteType
  <1>5. CASE SendCreate(r)
    BY <1>0, <1>s, <1>5, WriteType DEF SendCreate
  <1>6. CASE CreateAnswered(r)
    <2>1. [mem[r] EXCEPT !.hoja = TRUE] \in RunRec
      BY <1>0 DEF RunRec
    <2> QED
      BY <1>6, <1>s, <2>1, WriteType DEF CreateAnswered
  <1>7. CASE CreateUnknown(r)
    BY <1>0, <1>s, <1>7, WriteType DEF CreateUnknown
  <1>8. CASE CreateRejected(r)
    BY <1>0, <1>s, <1>8, FailRunType DEF CreateRejected
  <1>9. CASE IssueNotSeen(r)
    BY <1>0, <1>s, <1>9, WriteType DEF IssueNotSeen
  <1>10. CASE IssueMismatch(r)
    BY <1>0, <1>s, <1>10, FailRunType DEF IssueMismatch
  <1>11. CASE IssueVerified(r)
    <2>1. [mem[r] EXCEPT !.hoja = TRUE, !.phase = "issue_created"] \in RunRec
      BY <1>0, <1>s DEF RunRec
    <2> QED
      BY <1>11, <1>s, <2>1, WriteType DEF IssueVerified
  <1>12. CASE WriteTaskFile(r)
    BY <1>0, <1>s, <1>12, WriteType DEF WriteTaskFile
  <1> QED
    BY <1>1, <1>2, <1>3, <1>4, <1>5, <1>6, <1>7, <1>8, <1>9, <1>10, <1>11,
       <1>12 DEF DispatchStep

LEMMA LocatedType ==
    ASSUME tabs \in [Runs -> SUBSET Nat], NEW r \in Runs, NEW m \in RunRec,
           NEW n \in Located(r, m)
    PROVE  n \in RunRec
  BY DEF Located, RunRec

(* continueRun from issue_created on.                                      *)
LEMMA LaunchDaemonType ==
    ASSUME TypeOK, NEW r \in Runs, LaunchStep(r)
    PROVE  DaemonType'
  <1>0. mem[r] \in RunRec /\ launches[r] \in Nat /\ DaemonType
        /\ tabs \in [Runs -> SUBSET Nat]
    BY DEF TypeOK, DaemonType
  <1>s. /\ {"idle", "gate", "tab", "tabwait"} \subseteq Step
        /\ {"tab_opening", "tab_open"} \subseteq Phase
        /\ "failed" \in Status
    BY DEF Step, Phase, Status
  <1>1. CASE CheckLaunch(r)
    BY <1>0, <1>s, <1>1, FailRunType, WriteType DEF CheckLaunch
  <1>2. CASE GateRefuses(r)
    BY <1>0, <1>s, <1>2, FailRunType DEF GateRefuses
  <1>3. CASE SessionFails(r)
    BY <1>0, <1>s, <1>3, WriteType DEF SessionFails
  <1>4. CASE OpenTab(r)
    <2>1. [mem[r] EXCEPT !.phase = "tab_opening"] \in RunRec
      BY <1>0, <1>s DEF RunRec
    <2> QED
      BY <1>0, <1>4, <1>s, <2>1, WriteType DEF OpenTab
  <1>5. CASE SendTab(r)
    BY <1>0, <1>s, <1>5, WriteType DEF SendTab
  <1>6. CASE TabAnswered(r)
    <2>1. [mem[r] EXCEPT !.phase = "tab_open", !.block = launches[r]]
             \in RunRec
      BY <1>0, <1>s DEF RunRec
    <2> QED
      BY <1>0, <1>6, <1>s, <2>1, WriteType DEF TabAnswered
  <1>7. CASE TabFails(r)
    <2>1. PICK m \in Located(r, Failed(mem[r])) : SaveRun(r, m)
      BY <1>7 DEF TabFails
    <2>2. m \in RunRec
      BY <1>0, <2>1, FailedType, LocatedType
    <2> QED
      BY <1>0, <1>7, <1>s, <2>1, <2>2, WriteType DEF TabFails
  <1>8. CASE Interrupted(r)
    <2>1. PICK m \in AfterInterrupt(r) : SaveRun(r, m)
      BY <1>8 DEF Interrupted
    <2>2. [mem[r] EXCEPT !.status = "failed"] \in RunRec
      BY <1>0, <1>s DEF RunRec
    <2>3. m \in RunRec
      BY <1>0, <2>1, <2>2, LocatedType DEF AfterInterrupt
    <2> QED
      BY <1>0, <1>8, <1>s, <2>1, <2>3, WriteType DEF Interrupted
  <1> QED
    BY <1>1, <1>2, <1>3, <1>4, <1>5, <1>6, <1>7, <1>8 DEF LaunchStep

LEMMA AfterEventsType ==
    ASSUME started \in [Runs -> SUBSET Nat], NEW r \in Runs, NEW m \in RunRec,
           NEW n \in AfterEvents(r, m)
    PROVE  n \in RunRec
  <1> DEFINE new == started[r] \ m.seen
  <1>1. CASE new = {}
    BY <1>1 DEF AfterEvents
  <1>2. CASE new # {}
    <2>1. PICK p \in new : n = ApplyStarted(m, new, p)
      BY <1>2 DEF AfterEvents
    <2>2. p \in Nat /\ (m.seen \cup new) \in SUBSET Nat
      BY <2>1 DEF RunRec
    <2>3. (IF m.status \in Terminal THEN m.status ELSE "running") \in Status
      BY DEF RunRec, Status
    <2> QED
      BY <2>1, <2>2, <2>3 DEF ApplyStarted, RunRec
  <1> QED
    BY <1>1, <1>2

(* reconcileRun with superviseRun.                                         *)
LEMMA ReconcileDaemonType ==
    ASSUME TypeOK, NEW r \in Runs, ReconcileRun(r) \/ ReconcileStep(r)
    PROVE  DaemonType'
  <1>0. /\ mem[r] \in RunRec /\ disk[r] \in RunRec /\ DaemonType
        /\ started \in [Runs -> SUBSET Nat]
    BY DEF TypeOK, DaemonType
  <1>s. /\ {"idle", "dead", "supervise", "close", "recover"} \subseteq Step
        /\ "issue_created" \in Phase
        /\ {"launching", "failed", "lost"} \subseteq Status
    BY DEF Step, Phase, Status
  <1>1. CASE ReconcileRun(r)
    <2>1. PICK m \in AfterEvents(r, disk[r]) :
              Change(r, m) /\ \E s \in Step : Goto(r, s)
      BY <1>1, <1>s DEF ReconcileRun
    <2> QED
      BY <1>0, <2>1, AfterEventsType, WriteType
  <1>2. CASE JudgeDead(r)
    <2>1. PICK m \in AfterEvents(r, mem[r]) :
              Change(r, [m EXCEPT !.status = Verdict(m)])
      BY <1>2 DEF JudgeDead
    <2>2. m \in RunRec
      BY <1>0, <2>1, AfterEventsType
    <2>3. [m EXCEPT !.status = Verdict(m)] \in RunRec
      BY <1>s, <2>2 DEF RunRec, Verdict
    <2> QED
      BY <1>0, <1>2, <1>s, <2>1, <2>3, WriteType DEF JudgeDead
  <1>3. CASE Supervise(r)
    BY <1>0, <1>s, <1>3, FailRunType, WriteType DEF Supervise
  <1>4. CASE CloseTab(r)
    <2>1. [mem[r] EXCEPT !.tabClosed = TRUE] \in RunRec
      BY <1>0 DEF RunRec
    <2> QED
      BY <1>0, <1>4, <1>s, <2>1, WriteType DEF CloseTab
  <1>5. CASE LeaveTab(r)
    BY <1>0, <1>s, <1>5, WriteType DEF LeaveTab
  <1>6. CASE NoRecovery(r)
    BY <1>0, <1>s, <1>6, WriteType DEF NoRecovery
  <1>7. CASE RecoverySpent(r)
    <2>1. [mem[r] EXCEPT !.relaunchSpent = TRUE] \in RunRec
      BY <1>0 DEF RunRec
    <2> QED
      BY <1>0, <1>7, <1>s, <2>1, WriteType DEF RecoverySpent
  <1>8. CASE RelaunchLaunch(r)
    <2>0. mem[r].relaunchCount + 1 \in Nat
      BY <1>0 DEF RunRec
    <2>1. Relaunched(mem[r]) \in RunRec
      BY <1>0, <1>s, <2>0 DEF Relaunched, RunRec
    <2> QED
      BY <1>0, <1>8, <1>s, <2>1, WriteType DEF RelaunchLaunch
  <1> QED
    BY <1>1, <1>2, <1>3, <1>4, <1>5, <1>6, <1>7, <1>8 DEF ReconcileStep

(* startRun, the tick's continueRun, and the cancel request.               *)
LEMMA RequestDaemonType ==
    ASSUME TypeOK, NEW r \in Runs,
           StartRun(r) \/ ContinueRun(r) \/ Cancel(r) \/ CancelStep(r)
    PROVE  DaemonType'
  <1>0. mem[r] \in RunRec /\ disk[r] \in RunRec /\ DaemonType
    BY DEF TypeOK, DaemonType
  <1>s. /\ {"idle", "dispatch", "reconcile", "launch", "interrupted", "cancel",
            "verify"} \subseteq Step
        /\ {"launching", "cancelled"} \subseteq Status
    BY DEF Step, Status
  <1>1. CASE StartRun(r)
    <2>1. PICK d \in BOOLEAN :
              SaveRun(r, [NewRun EXCEPT !.status = "launching", !.deadline = d])
      BY <1>1 DEF StartRun
    <2>2. [NewRun EXCEPT !.status = "launching", !.deadline = d] \in RunRec
      BY <1>s, <2>1 DEF NewRun, RunRec, Phase
    <2> QED
      BY <1>0, <1>1, <1>s, <2>1, <2>2, WriteType DEF StartRun
  <1>2. CASE ContinueRun(r)
    <2>1. disk[r].phase \in Phase \ {"tab_open"}
      BY <1>0, <1>2 DEF ContinueRun, RunRec
    <2>2. \E s \in Step : Goto(r, s)
      BY <1>2, <1>s, <2>1 DEF ContinueRun, Phase
    <2> QED
      BY <1>0, <1>2, <2>2, WriteType DEF ContinueRun
  <1>3. CASE Cancel(r)
    BY <1>0, <1>3, <1>s, WriteType DEF Cancel
  <1>4. CASE CancelCloses(r)
    <2>1. [mem[r] EXCEPT !.tabClosed = TRUE] \in RunRec
      BY <1>0 DEF RunRec
    <2> QED
      BY <1>0, <1>4, <1>s, <2>1, WriteType DEF CancelCloses
  <1>5. CASE CancelLeaves(r)
    BY <1>0, <1>5, <1>s, WriteType DEF CancelLeaves
  <1>6. CASE CancelRecords(r)
    <2>1. PICK v \in BOOLEAN :
              SaveRun(r, [mem[r] EXCEPT !.status = "cancelled",
                                        !.confirmed = v /\ mem[r].hoja])
      BY <1>6 DEF CancelRecords
    <2>2. (v /\ mem[r].hoja) \in BOOLEAN
      OBVIOUS
    <2>3. [mem[r] EXCEPT !.status = "cancelled",
                         !.confirmed = v /\ mem[r].hoja] \in RunRec
      BY <1>0, <1>s, <2>2 DEF RunRec
    <2> QED
      BY <1>0, <1>6, <1>s, <2>1, <2>3, WriteType DEF CancelRecords
  <1> QED
    BY <1>1, <1>2, <1>3, <1>4, <1>5, <1>6 DEF CancelStep

WorldType ==
    /\ taskFile \in [Runs -> BOOLEAN]
    /\ crashes \in 0..MaxCrashes
    /\ creates \in [Runs -> Nat]
    /\ pendingCreates \in [Runs -> SUBSET Nat]
    /\ issues \in [Runs -> SUBSET Nat]
    /\ launches \in [Runs -> Nat]
    /\ pendingTabs \in [Runs -> SUBSET Nat]
    /\ opened \in [Runs -> SUBSET Nat]
    /\ tabs \in [Runs -> SUBSET Nat]
    /\ workers \in [Runs -> SUBSET Nat]
    /\ started \in [Runs -> SUBSET Nat]
    /\ expired \in [Runs -> BOOLEAN]
    /\ age \in [Runs -> 0..2]

LEMMA TypeSplit == /\ TypeOK <=> DaemonType /\ WorldType
                   /\ TypeOK' <=> DaemonType' /\ WorldType'
  BY DEF TypeOK, DaemonType, WorldType

LEMMA LocalWorldType ==
    ASSUME WorldType, Local
    PROVE  WorldType'
  BY DEF WorldType, Local, hojaVars, ternVars, timeVars

LEMMA ClosesType ==
    ASSUME WorldType, NEW r \in Runs, NEW b, Closes(r, b)
    PROVE  /\ launches' \in [Runs -> Nat]
           /\ pendingTabs' \in [Runs -> SUBSET Nat]
           /\ opened' \in [Runs -> SUBSET Nat]
           /\ tabs' \in [Runs -> SUBSET Nat]
           /\ workers' \in [Runs -> SUBSET Nat]
           /\ started' \in [Runs -> SUBSET Nat]
  BY DEF WorldType, Closes

(* What the daemon's steps do to the world outside it.                     *)
LEMMA DaemonWorldType ==
    ASSUME WorldType, NEW r \in Runs,
           \/ StartRun(r) \/ ContinueRun(r) \/ ReconcileRun(r) \/ Cancel(r)
           \/ DaemonStep(r)
    PROVE  WorldType'
  <1>1. CASE Local
    BY <1>1, LocalWorldType
  <1>2. CASE SendCreate(r)
    BY <1>2 DEF SendCreate, WorldType, ternVars, timeVars
  <1>3. CASE CreateRejected(r)
    BY <1>3 DEF CreateRejected, WorldType, ternVars, timeVars
  <1>4. CASE WriteTaskFile(r)
    BY <1>4 DEF WriteTaskFile, WorldType, hojaVars, ternVars, timeVars
  <1>5. CASE SendTab(r)
    BY <1>5 DEF SendTab, WorldType, hojaVars, timeVars
  <1>6. CASE CloseTab(r)
    BY <1>6, ClosesType DEF CloseTab, WorldType, hojaVars, timeVars
  <1>7. CASE CancelCloses(r)
    BY <1>7, ClosesType DEF CancelCloses, WorldType, hojaVars, timeVars
  <1>8. CASE RelaunchLaunch(r)
    BY <1>8 DEF RelaunchLaunch, WorldType, hojaVars, ternVars
  <1>9. CASE Cancel(r)
    BY <1>9 DEF Cancel, WorldType, hojaVars, timeVars
  <1>10. CASE StartRun(r) \/ ContinueRun(r) \/ ReconcileRun(r)
    BY <1>1, <1>10 DEF StartRun, ContinueRun, ReconcileRun
  <1>11. CASE DispatchStep(r)
    BY <1>1, <1>2, <1>3, <1>4, <1>11
       DEF DispatchStep, CheckDispatch, ResolveFails, LookupFails, Dispatch,
           CreateAnswered, CreateUnknown, IssueNotSeen, IssueMismatch,
           IssueVerified
  <1>12. CASE LaunchStep(r)
    BY <1>1, <1>5, <1>12
       DEF LaunchStep, CheckLaunch, GateRefuses, SessionFails, OpenTab,
           TabAnswered, TabFails, Interrupted
  <1>13. CASE ReconcileStep(r)
    BY <1>1, <1>6, <1>8, <1>13
       DEF ReconcileStep, JudgeDead, Supervise, LeaveTab, NoRecovery,
           RecoverySpent
  <1>14. CASE CancelStep(r)
    BY <1>1, <1>7, <1>14 DEF CancelStep, CancelLeaves, CancelRecords
  <1> QED
    BY <1>9, <1>10, <1>11, <1>12, <1>13, <1>14 DEF DaemonStep

LEMMA EnvWorldType ==
    ASSUME WorldType, NEW r \in Runs, EnvStep(r)
    PROVE  WorldType'
  <1> USE DEF Env, WorldType, hojaVars, ternVars, timeVars
  <1>1. CASE CommitCreate(r) \/ DropCreate(r)
    BY <1>1 DEF CommitCreate, DropCreate
  <1>2. CASE TabOpens(r)
    BY <1>2 DEF TabOpens
  <1>6. CASE TabNeverOpens(r)
    BY <1>6 DEF TabNeverOpens
  <1>3. CASE WorkerStarts(r) \/ WorkerDies(r)
    BY <1>3 DEF WorkerStarts, WorkerDies
  <1>4. CASE TabClosedByHand(r)
    BY <1>4, ClosesType DEF TabClosedByHand
  <1>5. CASE Expire(r)
    BY <1>5 DEF Expire
  <1>7. CASE Age(r)
    <2>1. age[r] + 1 \in 0..2
      BY <1>7 DEF Age
    <2>2. age' \in [Runs -> 0..2]
      BY <1>7, <2>1 DEF Age
    <2> QED
      BY <1>7, <2>2 DEF Age
  <1> QED
    BY <1>1, <1>2, <1>3, <1>4, <1>5, <1>6, <1>7 DEF EnvStep

LEMMA CrashType ==
    ASSUME TypeOK, Crash
    PROVE  TypeOK'
  BY LaunchAssumption
     DEF Crash, TypeOK, Step, hojaVars, ternVars, timeVars

LEMMA NextType ==
    ASSUME TypeOK, [Next]_vars
    PROVE  TypeOK'
  <1> USE TypeSplit
  <1>1. CASE Crash
    BY <1>1, CrashType
  <1>2. CASE UNCHANGED vars
    BY <1>2 DEF TypeOK, vars, daemonVars, hojaVars, ternVars, timeVars
  <1>3. ASSUME NEW r \in Runs,
               \/ StartRun(r) \/ ContinueRun(r) \/ ReconcileRun(r)
               \/ Cancel(r) \/ DaemonStep(r)
        PROVE  TypeOK'
    <2>1. DaemonType'
      BY <1>3, DispatchDaemonType, LaunchDaemonType, ReconcileDaemonType,
         RequestDaemonType DEF DaemonStep
    <2> QED
      BY <1>3, <2>1, DaemonWorldType
  <1>4. ASSUME NEW r \in Runs, EnvStep(r)
        PROVE  TypeOK'
    <2>1. UNCHANGED <<disk, mem, step>>
      BY <1>4 DEF EnvStep, CommitCreate, DropCreate, TabOpens, TabNeverOpens,
                  WorkerStarts, WorkerDies, TabClosedByHand, Expire, Age, Env,
                  daemonVars
    <2>2. DaemonType'
      BY <2>1 DEF DaemonType
    <2> QED
      BY <1>4, <2>2, EnvWorldType
  <1> QED
    BY <1>1, <1>2, <1>3, <1>4 DEF Next

(* Every reachable state is well typed: in particular the budgets, the     *)
(* launch numbers and the ages stay in their ranges whatever crashes.      *)
THEOREM TypeCorrect == Spec => []TypeOK
  BY InitType, NextType, PTL DEF Spec

-----------------------------------------------------------------------------
(* The inductive invariant.  It says, run by run, what a phase of the saved *)
(* record proves about Hoja and Tern, whichever step a crash interrupts.   *)

Before == {"intent", "create_dispatched", "issue_created"}

\* No tab of the current launch attempt has been asked for.
NoTabYet(r) == disk[r].phase \in Before \/ step[r] = "tab"

\* A handler's copy never runs ahead of the file in what was sent.
CopyInv(r) ==
    /\ mem[r].phase = disk[r].phase
    /\ mem[r].hoja = disk[r].hoja
    /\ mem[r].relaunchCount = disk[r].relaunchCount
    /\ mem[r].status = "absent" => disk[r].status = "absent"

\* Where a handler stands tells the phase it saved.
StepFits(s, p) ==
    /\ s \in {"dispatch", "resolve"} => p = "intent"
    /\ s \in {"create", "await", "reconcile"} => p = "create_dispatched"
    /\ s \in {"task", "launch", "gate"} => p = "issue_created"
    /\ s \in {"tab", "tabwait", "interrupted"} => p = "tab_opening"

StepInv(r) ==
    /\ disk[r].status = "absent" => disk[r].phase = "intent"
                                    /\ step[r] = "idle"
    /\ StepFits(step[r], disk[r].phase)

\* One create, and none while the run is still an intent.
IssueInv(r) ==
    /\ creates[r] \in 0..1
    /\ pendingCreates[r] \subseteq {1} /\ issues[r] \subseteq {1}
    /\ disk[r].phase = "intent" \/ step[r] = "create"
           => creates[r] = 0 /\ pendingCreates[r] = {} /\ issues[r] = {}

\* One tab call per launch attempt, after the issue was verified.
TabInv(r) ==
    /\ disk[r].relaunchCount \in 0..1
    /\ launches[r] <= 1 + disk[r].relaunchCount
    /\ NoTabYet(r) => launches[r] <= disk[r].relaunchCount
    /\ disk[r].phase \in {"intent", "create_dispatched"}
           => disk[r].relaunchCount = 0
    /\ disk[r].phase \in {"issue_created", "tab_opening", "tab_open"}
           => disk[r].hoja /\ issues[r] # {}

RunInv(r) == CopyInv(r) /\ StepInv(r) /\ IssueInv(r) /\ TabInv(r)

LaunchInv == \A r \in Runs : RunInv(r)

\* Only the latest tab can be open, and only while its attempt lasts.
OpenInv(r) ==
    /\ opened[r] \subseteq 1..launches[r]
    /\ pendingTabs[r] \subseteq {launches[r]} \ (opened[r] \cup {0})
    /\ tabs[r] \subseteq {launches[r]} /\ workers[r] \subseteq tabs[r]
    /\ NoTabYet(r) => tabs[r] = {} /\ pendingTabs[r] = {}
    /\ disk[r].phase = "tab_open" => pendingTabs[r] = {}

OpenInvs == \A r \in Runs : OpenInv(r)

-----------------------------------------------------------------------------
(* A step of run r leaves every other run alone.                           *)

Step1(r) == \/ StartRun(r) \/ ContinueRun(r) \/ ReconcileRun(r) \/ Cancel(r)
            \/ DaemonStep(r) \/ EnvStep(r)

Same(q) ==
    /\ disk'[q] = disk[q] /\ mem'[q] = mem[q] /\ step'[q] = step[q]
    /\ creates'[q] = creates[q] /\ pendingCreates'[q] = pendingCreates[q]
    /\ issues'[q] = issues[q]
    /\ launches'[q] = launches[q] /\ pendingTabs'[q] = pendingTabs[q]
    /\ opened'[q] = opened[q] /\ tabs'[q] = tabs[q]
    /\ workers'[q] = workers[q] /\ started'[q] = started[q]

LEMMA OthersSame ==
    ASSUME TypeOK, NEW r \in Runs, NEW q \in Runs, q # r, Step1(r)
    PROVE  Same(q)
  <1> USE DEF TypeOK, Same, SaveRun, Change, FailRun, Goto, Local, Closes, Env,
              daemonVars, hojaVars, ternVars, timeVars
  <1>1. CASE StartRun(r) \/ ContinueRun(r) \/ ReconcileRun(r) \/ Cancel(r)
    BY <1>1 DEF StartRun, ContinueRun, ReconcileRun, Cancel
  <1>2. CASE DispatchStep(r)
    BY <1>2 DEF DispatchStep, CheckDispatch, ResolveFails, LookupFails,
                Dispatch, SendCreate, CreateAnswered, CreateUnknown,
                CreateRejected, IssueNotSeen, IssueMismatch, IssueVerified,
                WriteTaskFile
  <1>3. CASE LaunchStep(r)
    BY <1>3 DEF LaunchStep, CheckLaunch, GateRefuses, SessionFails, OpenTab,
                SendTab, TabAnswered, TabFails, Interrupted
  <1>4. CASE ReconcileStep(r)
    BY <1>4 DEF ReconcileStep, JudgeDead, Supervise, CloseTab, LeaveTab,
                NoRecovery, RecoverySpent, RelaunchLaunch
  <1>5. CASE CancelStep(r)
    BY <1>5 DEF CancelStep, CancelCloses, CancelLeaves, CancelRecords
  <1>6. CASE EnvStep(r)
    BY <1>6 DEF EnvStep, CommitCreate, DropCreate, TabOpens, TabNeverOpens,
                WorkerStarts, WorkerDies, TabClosedByHand, Expire, Age
  <1> QED
    BY <1>1, <1>2, <1>3, <1>4, <1>5, <1>6 DEF Step1, DaemonStep

LEMMA SameRunInv ==
    ASSUME NEW q \in Runs, Same(q), RunInv(q)
    PROVE  RunInv(q)'
  BY DEF Same, RunInv, CopyInv, StepInv, IssueInv, TabInv, NoTabYet

LEMMA AfterEventsKeeps ==
    ASSUME NEW r \in Runs, NEW m \in RunRec, NEW n \in AfterEvents(r, m)
    PROVE  /\ n.phase = m.phase /\ n.hoja = m.hoja
           /\ n.relaunchCount = m.relaunchCount
           /\ m.status # "absent" => n.status # "absent"
  BY DEF AfterEvents, ApplyStarted, RunRec, Terminal

-----------------------------------------------------------------------------
(* The invariant is inductive: one lemma per handler.                      *)

LEMMA InitInv == Init => LaunchInv
  <1> SUFFICES ASSUME Init, NEW r \in Runs
               PROVE  RunInv(r)
    BY DEF LaunchInv
  <1>1. /\ disk[r] = NewRun /\ mem[r] = NewRun /\ step[r] = "idle"
        /\ creates[r] = 0 /\ pendingCreates[r] = {} /\ issues[r] = {}
        /\ launches[r] = 0
    BY DEF Init
  <1>2. CopyInv(r)
    BY <1>1 DEF CopyInv
  <1>3. StepInv(r)
    BY <1>1 DEF StepInv, StepFits, NewRun
  <1>4. IssueInv(r)
    BY <1>1 DEF IssueInv, NewRun
  <1>5. TabInv(r)
    BY <1>1 DEF TabInv, NoTabYet, NewRun, Before
  <1> QED
    BY <1>2, <1>3, <1>4, <1>5 DEF RunInv

\* What was sent, and what came of it, is not changed by the step.
Quiet(r) ==
    /\ creates'[r] = creates[r] /\ pendingCreates'[r] = pendingCreates[r]
    /\ issues'[r] = issues[r] /\ launches'[r] = launches[r]

LEMMA LocalQuiet ==
    ASSUME NEW r \in Runs, Local
    PROVE  Quiet(r)
  BY DEF Local, Quiet, hojaVars, ternVars

\* The record keeps its phase, its issue and its relaunches.
KeepsLaunch(m, d) ==
    /\ m.phase = d.phase /\ m.hoja = d.hoja
    /\ m.relaunchCount = d.relaunchCount
    /\ m.status = "absent" => d.status = "absent"

(* After a save, a change of the copy, or neither, and a jump.             *)
LEMMA WrittenAt ==
    ASSUME TypeOK, NEW r \in Runs, NEW m, NEW s, Goto(r, s)
    PROVE  /\ step'[r] = s
           /\ SaveRun(r, m) => disk'[r] = m /\ mem'[r] = m
           /\ Change(r, m) => disk'[r] = disk[r] /\ mem'[r] = m
           /\ UNCHANGED <<disk, mem>> => disk'[r] = disk[r] /\ mem'[r] = mem[r]
  BY DEF TypeOK, Goto, SaveRun, Change

(* A step that keeps the launch facts of the record keeps the invariant.   *)
LEMMA KeepInv ==
    ASSUME TypeOK, NEW r \in Runs, RunInv(r), Quiet(r),
           KeepsLaunch(disk'[r], disk[r]), KeepsLaunch(mem'[r], disk'[r]),
           disk[r].status # "absent",
           StepFits(step'[r], disk[r].phase),
           step'[r] \notin {"create", "tab"}
    PROVE  RunInv(r)'
  BY DEF KeepsLaunch, Quiet, RunInv, CopyInv, StepInv, IssueInv, TabInv,
         NoTabYet

(* A handler that only judges, defers, fails or ends the launch.           *)
LEMMA SaveKeeps ==
    ASSUME TypeOK, NEW r \in Runs, RunInv(r), Quiet(r), NEW m, NEW s,
           \/ SaveRun(r, m) \/ Change(r, m)
           \/ UNCHANGED <<disk, mem>> /\ m = mem[r],
           Goto(r, s), KeepsLaunch(m, mem[r]), disk[r].status # "absent",
           StepFits(s, disk[r].phase), s \notin {"create", "tab"}
    PROVE  RunInv(r)'
  <1>1. KeepsLaunch(mem[r], disk[r])
    BY DEF RunInv, CopyInv, KeepsLaunch
  <1>2. KeepsLaunch(disk'[r], disk[r]) /\ KeepsLaunch(mem'[r], disk'[r])
    BY <1>1, WrittenAt DEF KeepsLaunch
  <1> QED
    BY <1>2, KeepInv, WrittenAt

LEMMA FailedKeeps ==
    ASSUME NEW m \in RunRec
    PROVE  KeepsLaunch(Failed(m), m)
  BY DEF Failed, KeepsLaunch, RunRec

LEMMA SelfKeeps == \A m : KeepsLaunch(m, m)
  BY DEF KeepsLaunch

LEMMA FailRunInv ==
    ASSUME TypeOK, NEW r \in Runs, RunInv(r), Quiet(r), NEW s, FailRun(r, s),
           disk[r].status # "absent",
           StepFits(s, disk[r].phase), s \notin {"create", "tab"}
    PROVE  RunInv(r)'
  BY SaveKeeps, FailedKeeps DEF FailRun, TypeOK

\* What the invariant says where a handler stands.
LEMMA StepPhase ==
    ASSUME TypeOK, NEW r \in Runs, RunInv(r)
    PROVE  /\ mem[r] \in RunRec /\ disk[r] \in RunRec
           /\ StepFits(step[r], disk[r].phase)
           /\ mem[r].phase = disk[r].phase /\ mem[r].hoja = disk[r].hoja
           /\ mem[r].relaunchCount = disk[r].relaunchCount
           /\ mem[r].status = "absent" => disk[r].status = "absent"
           /\ step[r] # "idle" => disk[r].status # "absent"
  BY DEF RunInv, StepInv, CopyInv, TypeOK

\* A handler's step happens while the handler runs.
LEMMA Busy ==
    ASSUME NEW r \in Runs, DaemonStep(r)
    PROVE  step[r] # "idle"
  BY DEF DaemonStep, DispatchStep, CheckDispatch, ResolveFails, LookupFails,
         Dispatch, SendCreate, CreateAnswered, CreateUnknown, CreateRejected,
         IssueNotSeen, IssueMismatch, IssueVerified, WriteTaskFile, LaunchStep,
         CheckLaunch, GateRefuses, SessionFails, OpenTab, SendTab, TabAnswered,
         TabFails, Interrupted, ReconcileStep, JudgeDead, Supervise, CloseTab,
         LeaveTab, NoRecovery, RecoverySpent, RelaunchLaunch, CancelStep,
         CancelCloses, CancelLeaves, CancelRecords

LEMMA IdleFits == \A p : /\ StepFits("idle", p) /\ StepFits("dead", p)
                         /\ StepFits("supervise", p) /\ StepFits("close", p)
                         /\ StepFits("recover", p) /\ StepFits("cancel", p)
                         /\ StepFits("verify", p)
  BY DEF StepFits

(* dispatchCreate and reconcileCreate.  The create leaves the process only *)
(* after the phase that forbids a second one was saved.                    *)
LEMMA DispatchInv ==
    ASSUME TypeOK, NEW r \in Runs, RunInv(r), DispatchStep(r)
    PROVE  RunInv(r)'
  <1> USE IdleFits
  <1>0. /\ mem[r] \in RunRec /\ disk[r] \in RunRec
        /\ StepFits(step[r], disk[r].phase)
        /\ mem[r].phase = disk[r].phase /\ mem[r].hoja = disk[r].hoja
        /\ mem[r].status # "absent" /\ disk[r].status # "absent"
    BY StepPhase, Busy DEF DaemonStep
  <1>1. CASE CheckDispatch(r)
    <2>1. Quiet(r) /\ StepFits("resolve", disk[r].phase)
      BY <1>0, <1>1, LocalQuiet DEF CheckDispatch, StepFits
    <2>2. CASE FailRun(r, "idle")
      BY <1>0, <2>1, <2>2, FailRunInv
    <2>3. CASE Goto(r, "resolve") /\ UNCHANGED <<disk, mem>>
      BY <1>0, <2>1, <2>3, SaveKeeps, SelfKeeps
    <2> QED
      BY <1>1, <2>2, <2>3 DEF CheckDispatch
  <1>2. CASE ResolveFails(r)
    <2> DEFINE m == [mem[r] EXCEPT !.attempts = @ + 1]
               n == IF m.attempts >= MaxIntentAttempts THEN Failed(m) ELSE m
    <2>1. KeepsLaunch(m, mem[r]) /\ m \in RunRec
      BY <1>0 DEF KeepsLaunch, RunRec
    <2>2. KeepsLaunch(n, mem[r])
      BY <2>1, FailedKeeps DEF KeepsLaunch
    <2>3. SaveRun(r, n) /\ Goto(r, "idle") /\ Quiet(r)
      BY <1>2, LocalQuiet DEF ResolveFails
    <2> QED
      BY <1>0, <2>2, <2>3, SaveKeeps
  <1>3. CASE LookupFails(r)
    BY <1>0, <1>3, LocalQuiet, SaveKeeps, SelfKeeps DEF LookupFails
  <1>4. CASE Dispatch(r)
    <2> DEFINE found == issues[r] # {}
               m == [mem[r] EXCEPT !.phase = "create_dispatched",
                                   !.hoja = found]
               s == IF found THEN "reconcile" ELSE "create"
    <2>1. SaveRun(r, m) /\ Goto(r, s) /\ Quiet(r)
      BY <1>4, LocalQuiet DEF Dispatch
    <2>2. disk'[r] = m /\ mem'[r] = m /\ step'[r] = s
      BY <2>1, WrittenAt
    <2>3. disk[r].phase = "intent"
      BY <1>0, <1>4 DEF Dispatch, StepFits
    <2>4. found = FALSE /\ creates[r] = 0 /\ pendingCreates[r] = {}
      BY <2>3 DEF RunInv, IssueInv
    <2>5. /\ m.phase = "create_dispatched" /\ m.status = mem[r].status
          /\ m.relaunchCount = mem[r].relaunchCount
      BY <1>0 DEF RunRec
    <2>7. CopyInv(r)'
      BY <2>2 DEF CopyInv
    <2>8. StepInv(r)'
      BY <1>0, <2>2, <2>5 DEF StepInv, StepFits
    <2>9. IssueInv(r)'
      BY <2>1, <2>2, <2>4, <2>5 DEF IssueInv, Quiet, RunInv
    <2>10. TabInv(r)'
      BY <2>1, <2>2, <2>3, <2>5, <1>0
         DEF TabInv, Quiet, RunInv, CopyInv, NoTabYet, Before
    <2> QED
      BY <2>7, <2>8, <2>9, <2>10 DEF RunInv
  <1>5. CASE SendCreate(r)
    <2>1. /\ creates'[r] = creates[r] + 1
          /\ pendingCreates'[r] = pendingCreates[r] \cup {creates[r] + 1}
          /\ issues'[r] = issues[r] /\ launches'[r] = launches[r]
          /\ disk'[r] = disk[r] /\ mem'[r] = mem[r] /\ step'[r] = "await"
      BY <1>5 DEF SendCreate, TypeOK, Goto, ternVars
    <2>2. /\ disk[r].phase = "create_dispatched"
          /\ creates[r] = 0 /\ pendingCreates[r] = {} /\ issues[r] = {}
      BY <1>0, <1>5 DEF SendCreate, StepFits, RunInv, IssueInv
    <2> QED
      BY <2>1, <2>2 DEF RunInv, CopyInv, StepInv, StepFits, IssueInv, TabInv,
                        NoTabYet
  <1>6. CASE CreateAnswered(r)
    <2> DEFINE m == [mem[r] EXCEPT !.hoja = TRUE]
    <2>1. /\ disk'[r] = m /\ mem'[r] = m /\ step'[r] = "reconcile"
          /\ Quiet(r)
      BY <1>6, LocalQuiet, WrittenAt DEF CreateAnswered
    <2>2. /\ m.phase = "create_dispatched" /\ m.status = mem[r].status
          /\ m.relaunchCount = disk[r].relaunchCount /\ m.hoja
          /\ disk[r].phase = "create_dispatched"
      BY <1>0, <1>6 DEF CreateAnswered, StepFits, RunRec, RunInv, CopyInv
    <2>3. CopyInv(r)' /\ IssueInv(r)' /\ TabInv(r)'
      BY <2>1, <2>2 DEF RunInv, CopyInv, IssueInv, TabInv, NoTabYet, Quiet,
                        Before
    <2>4. StepInv(r)'
      BY <1>0, <2>1, <2>2 DEF RunInv, CopyInv, StepInv, StepFits
    <2> QED
      BY <2>3, <2>4 DEF RunInv
  <1>7. CASE CreateUnknown(r) \/ IssueNotSeen(r)
    BY <1>0, <1>7, LocalQuiet, SaveKeeps, SelfKeeps DEF CreateUnknown, IssueNotSeen
  <1>8. CASE CreateRejected(r)
    <2>1. /\ creates'[r] = creates[r] /\ issues'[r] = issues[r]
          /\ pendingCreates'[r] \subseteq pendingCreates[r]
          /\ launches'[r] = launches[r]
      BY <1>8 DEF CreateRejected, TypeOK, ternVars
    <2>2. /\ disk'[r] = Failed(mem[r]) /\ mem'[r] = Failed(mem[r])
          /\ step'[r] = "idle"
      BY <1>8, WrittenAt DEF CreateRejected, FailRun
    <2>3. KeepsLaunch(Failed(mem[r]), mem[r]) /\ Failed(mem[r]).status # "absent"
      BY <1>0, FailedKeeps DEF Failed, RunRec
    <2>4. CopyInv(r)'
      BY <2>2 DEF CopyInv
    <2>5. StepInv(r)'
      BY <2>2, <2>3 DEF StepInv
    <2>6. IssueInv(r)' /\ TabInv(r)'
      BY <2>1, <2>2, <2>3, <1>8 DEF RunInv, CopyInv, IssueInv, TabInv, NoTabYet,
                               KeepsLaunch, CreateRejected
    <2> QED
      BY <2>4, <2>5, <2>6 DEF RunInv
  <1>9. CASE IssueMismatch(r)
    BY <1>0, <1>9, LocalQuiet, FailRunInv DEF IssueMismatch
  <1>10. CASE IssueVerified(r)
    <2> DEFINE m == [mem[r] EXCEPT !.hoja = TRUE, !.phase = "issue_created"]
    <2>1. /\ disk'[r] = m /\ mem'[r] = m /\ step'[r] = "task" /\ Quiet(r)
      BY <1>10, LocalQuiet, WrittenAt DEF IssueVerified
    <2>2. /\ m.phase = "issue_created" /\ m.status = mem[r].status
          /\ m.relaunchCount = disk[r].relaunchCount /\ m.hoja
          /\ disk[r].phase = "create_dispatched" /\ issues[r] # {}
      BY <1>0, <1>10 DEF IssueVerified, StepFits, RunRec, RunInv, CopyInv
    <2>3. CopyInv(r)' /\ IssueInv(r)' /\ TabInv(r)'
      BY <2>1, <2>2 DEF RunInv, CopyInv, IssueInv, TabInv, NoTabYet, Quiet,
                        Before
    <2>4. StepInv(r)'
      BY <1>0, <2>1, <2>2 DEF RunInv, CopyInv, StepInv, StepFits
    <2> QED
      BY <2>3, <2>4 DEF RunInv
  <1>11. CASE WriteTaskFile(r)
    <2>1. Quiet(r)
      BY <1>11 DEF WriteTaskFile, Quiet, hojaVars, ternVars
    <2> QED
      BY <1>0, <1>11, <2>1, SaveKeeps, SelfKeeps DEF WriteTaskFile
  <1> QED
    BY <1>1, <1>2, <1>3, <1>4, <1>5, <1>6, <1>7, <1>8, <1>9, <1>10, <1>11
       DEF DispatchStep

(* continueRun from issue_created on.  A tab is asked for only after the   *)
(* phase that forbids a second call was saved.                             *)
LEMMA LaunchStepInv ==
    ASSUME TypeOK, NEW r \in Runs, RunInv(r), LaunchStep(r)
    PROVE  RunInv(r)'
  <1> USE IdleFits
  <1>0. /\ mem[r] \in RunRec /\ disk[r] \in RunRec
        /\ StepFits(step[r], disk[r].phase)
        /\ mem[r].phase = disk[r].phase /\ mem[r].hoja = disk[r].hoja
        /\ mem[r].relaunchCount = disk[r].relaunchCount
        /\ mem[r].status # "absent" /\ disk[r].status # "absent"
    BY StepPhase, Busy DEF DaemonStep
  <1>1. CASE CheckLaunch(r)
    <2>1. Quiet(r) /\ StepFits("gate", disk[r].phase)
      BY <1>0, <1>1, LocalQuiet DEF CheckLaunch, StepFits
    <2>2. CASE FailRun(r, "idle")
      BY <1>0, <2>1, <2>2, FailRunInv
    <2>3. CASE Goto(r, "gate") /\ UNCHANGED <<disk, mem>>
      BY <1>0, <2>1, <2>3, SaveKeeps, SelfKeeps
    <2> QED
      BY <1>1, <2>2, <2>3 DEF CheckLaunch
  <1>2. CASE GateRefuses(r)
    BY <1>0, <1>2, LocalQuiet, FailRunInv DEF GateRefuses
  <1>3. CASE SessionFails(r)
    BY <1>0, <1>3, LocalQuiet, SaveKeeps, SelfKeeps DEF SessionFails
  <1>4. CASE OpenTab(r)
    <2> DEFINE m == [mem[r] EXCEPT !.phase = "tab_opening"]
    <2>1. /\ disk'[r] = m /\ mem'[r] = m /\ step'[r] = "tab" /\ Quiet(r)
      BY <1>4, LocalQuiet, WrittenAt DEF OpenTab
    <2>2. /\ m.phase = "tab_opening" /\ m.status = mem[r].status
          /\ m.relaunchCount = disk[r].relaunchCount /\ m.hoja = disk[r].hoja
          /\ disk[r].phase = "issue_created"
      BY <1>0, <1>4 DEF OpenTab, StepFits, RunRec
    <2>3. CopyInv(r)' /\ IssueInv(r)' /\ TabInv(r)'
      BY <2>1, <2>2 DEF RunInv, CopyInv, IssueInv, TabInv, NoTabYet, Quiet,
                        Before
    <2>4. StepInv(r)'
      BY <1>0, <2>1, <2>2 DEF StepInv, StepFits
    <2> QED
      BY <2>3, <2>4 DEF RunInv
  <1>5. CASE SendTab(r)
    <2>1. /\ launches'[r] = launches[r] + 1
          /\ creates'[r] = creates[r] /\ pendingCreates'[r] = pendingCreates[r]
          /\ issues'[r] = issues[r]
          /\ disk'[r] = disk[r] /\ mem'[r] = mem[r] /\ step'[r] = "tabwait"
      BY <1>5 DEF SendTab, TypeOK, Goto, hojaVars
    <2>2. disk[r].phase = "tab_opening" /\ NoTabYet(r)
      BY <1>0, <1>5 DEF SendTab, StepFits, NoTabYet
    <2>3. CopyInv(r)' /\ StepInv(r)' /\ IssueInv(r)'
      BY <1>0, <2>1, <2>2 DEF RunInv, CopyInv, StepInv, StepFits, IssueInv
    <2>4. ~NoTabYet(r)'
      BY <2>1, <2>2 DEF NoTabYet, Before
    <2>5. launches[r] \in Nat /\ disk[r].relaunchCount \in 0..1
      BY DEF TypeOK, RunInv, TabInv
    <2>6. TabInv(r)'
      BY <2>1, <2>2, <2>4, <2>5 DEF RunInv, TabInv
    <2> QED
      BY <2>3, <2>6 DEF RunInv
  <1>6. CASE TabAnswered(r)
    <2> DEFINE m == [mem[r] EXCEPT !.phase = "tab_open", !.block = launches[r]]
    <2>1. /\ disk'[r] = m /\ mem'[r] = m /\ step'[r] = "idle" /\ Quiet(r)
      BY <1>6, LocalQuiet, WrittenAt DEF TabAnswered
    <2>2. /\ m.phase = "tab_open" /\ m.status = mem[r].status
          /\ m.relaunchCount = disk[r].relaunchCount /\ m.hoja = disk[r].hoja
          /\ disk[r].phase = "tab_opening" /\ step[r] # "create"
      BY <1>0, <1>6 DEF TabAnswered, StepFits, RunRec
    <2>3. CopyInv(r)' /\ IssueInv(r)' /\ TabInv(r)'
      BY <2>1, <2>2 DEF RunInv, CopyInv, IssueInv, TabInv, NoTabYet, Quiet,
                        Before
    <2>4. StepInv(r)'
      BY <1>0, <2>1, <2>2 DEF StepInv
    <2> QED
      BY <2>3, <2>4 DEF RunInv
  <1>7. CASE TabFails(r)
    <2>1. PICK m \in Located(r, Failed(mem[r])) : SaveRun(r, m)
      BY <1>7 DEF TabFails
    <2>2. KeepsLaunch(m, mem[r])
      BY <1>0, <2>1 DEF Located, Failed, KeepsLaunch, RunRec
    <2> QED
      BY <1>0, <1>7, <2>1, <2>2, LocalQuiet, SaveKeeps DEF TabFails
  <1>8. CASE Interrupted(r)
    <2>1. PICK m \in AfterInterrupt(r) : SaveRun(r, m)
      BY <1>8 DEF Interrupted
    <2>2. KeepsLaunch(m, mem[r])
      BY <1>0, <2>1 DEF AfterInterrupt, Located, KeepsLaunch, RunRec
    <2> QED
      BY <1>0, <1>8, <2>1, <2>2, LocalQuiet, SaveKeeps DEF Interrupted
  <1> QED
    BY <1>1, <1>2, <1>3, <1>4, <1>5, <1>6, <1>7, <1>8 DEF LaunchStep

(* reconcileRun with superviseRun: only relaunchLaunch moves the phase     *)
(* back, and it buys one more tab.                                         *)
LEMMA ReconcileInv ==
    ASSUME TypeOK, NEW r \in Runs, RunInv(r), ReconcileRun(r) \/ ReconcileStep(r)
    PROVE  RunInv(r)'
  <1> USE IdleFits
  <1>0. /\ mem[r] \in RunRec /\ disk[r] \in RunRec
        /\ StepFits(step[r], disk[r].phase)
        /\ mem[r].phase = disk[r].phase /\ mem[r].hoja = disk[r].hoja
        /\ mem[r].relaunchCount = disk[r].relaunchCount
        /\ disk[r].status # "absent"
    BY StepPhase, Busy DEF DaemonStep, ReconcileRun
  <1>1. CASE ReconcileRun(r)
    <2>1. PICK m \in AfterEvents(r, disk[r]), s \in {"dead", "supervise"} :
              Change(r, m) /\ Goto(r, s)
      BY <1>1 DEF ReconcileRun
    <2>2. KeepsLaunch(m, disk[r])
      BY <1>0, <2>1, AfterEventsKeeps DEF KeepsLaunch
    <2>3. Quiet(r)
      BY <1>1, LocalQuiet DEF ReconcileRun
    <2>4. /\ disk'[r] = disk[r] /\ mem'[r] = m /\ step'[r] = s
      BY <2>1, WrittenAt
    <2>5. KeepsLaunch(disk'[r], disk[r]) /\ KeepsLaunch(mem'[r], disk'[r])
      BY <2>2, <2>4, SelfKeeps
    <2>6. StepFits(s, disk[r].phase) /\ s \notin {"create", "tab"}
      BY <2>1
    <2> QED
      BY <1>0, <2>3, <2>4, <2>5, <2>6, KeepInv
  <1>2. CASE JudgeDead(r)
    <2>1. PICK m \in AfterEvents(r, mem[r]) :
              Change(r, [m EXCEPT !.status = Verdict(m)])
      BY <1>2 DEF JudgeDead
    <2>2. started \in [Runs -> SUBSET Nat]
      BY DEF TypeOK
    <2>3. m \in RunRec
      BY <1>0, <2>1, <2>2, AfterEventsType
    <2>4. KeepsLaunch([m EXCEPT !.status = Verdict(m)], mem[r])
      BY <1>0, <2>1, <2>3, AfterEventsKeeps DEF KeepsLaunch, RunRec, Verdict
    <2> QED
      BY <1>0, <1>2, <2>1, <2>4, LocalQuiet, SaveKeeps DEF JudgeDead
  <1>3. CASE Supervise(r)
    BY <1>0, <1>3, LocalQuiet, SaveKeeps, SelfKeeps, FailRunInv DEF Supervise
  <1>4. CASE CloseTab(r)
    <2>1. KeepsLaunch([mem[r] EXCEPT !.tabClosed = TRUE], mem[r])
      BY <1>0 DEF KeepsLaunch, RunRec
    <2>2. Quiet(r)
      BY <1>4 DEF CloseTab, Closes, Quiet, hojaVars
    <2> QED
      BY <1>0, <1>4, <2>1, <2>2, SaveKeeps DEF CloseTab
  <1>5. CASE LeaveTab(r) \/ NoRecovery(r)
    BY <1>0, <1>5, LocalQuiet, SaveKeeps, SelfKeeps DEF LeaveTab, NoRecovery
  <1>6. CASE RecoverySpent(r)
    <2>1. KeepsLaunch([mem[r] EXCEPT !.relaunchSpent = TRUE], mem[r])
      BY <1>0 DEF KeepsLaunch, RunRec
    <2> QED
      BY <1>0, <1>6, <2>1, LocalQuiet, SaveKeeps DEF RecoverySpent
  <1>7. CASE RelaunchLaunch(r)
    <2> DEFINE m == Relaunched(mem[r])
    <2>1. /\ disk'[r] = m /\ mem'[r] = m /\ step'[r] = "idle"
      BY <1>7, WrittenAt DEF RelaunchLaunch
    <2>2. Quiet(r) /\ step[r] = "recover"
      BY <1>7 DEF RelaunchLaunch, Quiet, hojaVars, ternVars
    <2>3. /\ m.phase = "issue_created" /\ m.status = "launching"
          /\ m.relaunchCount = 1 /\ m.hoja = disk[r].hoja
          /\ disk[r].relaunchCount = 0
          /\ disk[r].phase \in {"issue_created", "tab_open"}
      BY <1>0, <1>7 DEF RelaunchLaunch, Relaunched, Recoverable, RunRec
    <2>4. CopyInv(r)' /\ StepInv(r)'
      BY <2>1, <2>3 DEF CopyInv, StepInv
    <2>5. IssueInv(r)'
      BY <2>1, <2>2, <2>3 DEF RunInv, IssueInv, Quiet
    <2>6. launches'[r] <= 1 /\ launches'[r] \in Nat
      BY <2>2, <2>3 DEF RunInv, TabInv, Quiet, TypeOK
    <2>7. TabInv(r)'
      BY <2>1, <2>2, <2>3, <2>6 DEF RunInv, TabInv, Quiet
    <2> QED
      BY <2>4, <2>5, <2>7 DEF RunInv
  <1> QED
    BY <1>1, <1>2, <1>3, <1>4, <1>5, <1>6, <1>7 DEF ReconcileStep

(* startRun, the tick's continueRun, and the cancel request.               *)
LEMMA RequestInv ==
    ASSUME TypeOK, NEW r \in Runs, RunInv(r),
           StartRun(r) \/ ContinueRun(r) \/ Cancel(r) \/ CancelStep(r)
    PROVE  RunInv(r)'
  <1> USE IdleFits
  <1>0. /\ mem[r] \in RunRec /\ disk[r] \in RunRec
        /\ mem[r].phase = disk[r].phase
    BY StepPhase
  <1>1. CASE StartRun(r)
    <2>1. PICK d \in BOOLEAN :
              SaveRun(r, [NewRun EXCEPT !.status = "launching", !.deadline = d])
      BY <1>1 DEF StartRun
    <2> DEFINE m == [NewRun EXCEPT !.status = "launching", !.deadline = d]
    <2>2. /\ disk'[r] = m /\ mem'[r] = m /\ step'[r] = "dispatch" /\ Quiet(r)
      BY <1>1, <2>1, LocalQuiet, WrittenAt DEF StartRun
    <2>3. /\ m.phase = "intent" /\ m.status = "launching" /\ ~m.hoja
          /\ m.relaunchCount = 0
      BY DEF NewRun
    <2>4. disk[r].phase = "intent" /\ disk[r].relaunchCount = 0
      BY <1>1 DEF StartRun, RunInv, StepInv, TabInv
    <2>5. CopyInv(r)' /\ StepInv(r)'
      BY <2>2, <2>3 DEF CopyInv, StepInv, StepFits
    <2>6. IssueInv(r)' /\ TabInv(r)'
      BY <2>2, <2>3, <2>4 DEF RunInv, IssueInv, TabInv, NoTabYet, Quiet, Before
    <2> QED
      BY <2>5, <2>6 DEF RunInv
  <1>2. CASE ContinueRun(r)
    <2>1. PICK s \in {"dispatch", "reconcile", "launch", "interrupted"} :
              Goto(r, s) /\ StepFits(s, disk[r].phase)
      <3>1. disk[r].phase \in Phase \ {"tab_open"}
        BY <1>0, <1>2 DEF ContinueRun, RunRec
      <3> QED
        BY <1>2, <3>1 DEF ContinueRun, Phase, StepFits
    <2>2. disk[r].status # "absent" /\ Quiet(r)
      BY <1>2, LocalQuiet DEF ContinueRun, Active
    <2>3. UNCHANGED <<disk, mem>>
      BY <1>2 DEF ContinueRun
    <2> QED
      BY <2>1, <2>2, <2>3, SaveKeeps, SelfKeeps
  <1>3. CASE Cancel(r)
    <2>1. disk[r].status # "absent" /\ Quiet(r)
      BY <1>3 DEF Cancel, Active, Quiet, hojaVars
    <2> QED
      BY <1>3, <2>1, SaveKeeps, SelfKeeps DEF Cancel
  <1>4. CASE CancelStep(r)
    <2>0. disk[r].status # "absent" /\ mem[r].status # "absent"
      BY <1>4, StepPhase, Busy DEF DaemonStep
    <2>1. CASE CancelCloses(r)
      <3>1. KeepsLaunch([mem[r] EXCEPT !.tabClosed = TRUE], mem[r])
        BY <1>0 DEF KeepsLaunch, RunRec
      <3>2. Quiet(r)
        BY <2>1 DEF CancelCloses, Closes, Quiet, hojaVars
      <3> QED
        BY <2>0, <2>1, <3>1, <3>2, SaveKeeps DEF CancelCloses
    <2>2. CASE CancelLeaves(r)
      BY <2>0, <2>2, LocalQuiet, SaveKeeps, SelfKeeps DEF CancelLeaves
    <2>3. CASE CancelRecords(r)
      <3>1. PICK v \in BOOLEAN :
                SaveRun(r, [mem[r] EXCEPT !.status = "cancelled",
                                          !.confirmed = v /\ mem[r].hoja])
        BY <2>3 DEF CancelRecords
      <3>2. KeepsLaunch([mem[r] EXCEPT !.status = "cancelled",
                                       !.confirmed = v /\ mem[r].hoja], mem[r])
        BY <1>0 DEF KeepsLaunch, RunRec
      <3> QED
        BY <2>0, <2>3, <3>1, <3>2, LocalQuiet, SaveKeeps DEF CancelRecords
    <2> QED
      BY <1>4, <2>1, <2>2, <2>3 DEF CancelStep
  <1> QED
    BY <1>1, <1>2, <1>3, <1>4

(* Hoja and Tern act late, but only on what was sent.                      *)
LEMMA EnvInv ==
    ASSUME TypeOK, NEW r \in Runs, RunInv(r), EnvStep(r)
    PROVE  RunInv(r)'
  <1>1. /\ disk' = disk /\ mem' = mem /\ step' = step
        /\ creates' = creates /\ launches' = launches
    BY DEF EnvStep, CommitCreate, DropCreate, TabOpens, TabNeverOpens,
           WorkerStarts, WorkerDies, TabClosedByHand, Closes, Expire, Age, Env,
           daemonVars, hojaVars, ternVars
  <1>2. CopyInv(r)' /\ StepInv(r)'
    BY <1>1 DEF RunInv, CopyInv, StepInv
  <1>3. CASE CommitCreate(r) \/ DropCreate(r)
    <2>1. PICK i \in pendingCreates[r] :
              /\ pendingCreates'[r] = pendingCreates[r] \ {i}
              /\ issues'[r] \in {issues[r], issues[r] \cup {i}}
      BY <1>3 DEF CommitCreate, DropCreate, TypeOK
    <2>2. IssueInv(r)' /\ TabInv(r)'
      BY <1>1, <2>1 DEF RunInv, IssueInv, TabInv, NoTabYet
    <2> QED
      BY <1>2, <2>2 DEF RunInv
  <1>4. CASE UNCHANGED <<pendingCreates, issues>>
    <2>1. IssueInv(r)' /\ TabInv(r)'
      BY <1>1, <1>4 DEF RunInv, IssueInv, TabInv, NoTabYet
    <2> QED
      BY <1>2, <2>1 DEF RunInv
  <1> QED
    BY <1>3, <1>4
       DEF EnvStep, TabOpens, TabNeverOpens, WorkerStarts, WorkerDies,
           TabClosedByHand, Expire, Age, hojaVars

(* A crash drops the copies and the steps, never what was saved or sent.   *)
LEMMA CrashInv ==
    ASSUME TypeOK, NEW r \in Runs, RunInv(r), Crash
    PROVE  RunInv(r)'
  <1>1. disk'[r] = disk[r] /\ mem'[r] = disk[r] /\ step'[r] = "idle"
    BY DEF Crash
  <1>2. Quiet(r)
    BY DEF Crash, Quiet, hojaVars, ternVars
  <1>3. CASE disk[r].status # "absent"
    BY <1>1, <1>2, <1>3, KeepInv, SelfKeeps, IdleFits
  <1>4. CASE disk[r].status = "absent"
    BY <1>1, <1>2, <1>4, IdleFits
       DEF Quiet, RunInv, CopyInv, StepInv, IssueInv, TabInv, NoTabYet
  <1> QED
    BY <1>3, <1>4

LEMMA NextInv ==
    ASSUME TypeOK, LaunchInv, [Next]_vars
    PROVE  LaunchInv'
  <1> SUFFICES ASSUME NEW q \in Runs
               PROVE  RunInv(q)'
    BY DEF LaunchInv
  <1>0. RunInv(q)
    BY DEF LaunchInv
  <1>1. CASE Crash
    BY <1>0, <1>1, CrashInv
  <1>2. CASE UNCHANGED vars
    BY <1>0, <1>2, SameRunInv
       DEF Same, vars, daemonVars, hojaVars, ternVars
  <1>3. ASSUME NEW r \in Runs, Step1(r)
        PROVE  RunInv(q)'
    <2>1. CASE q # r
      BY <1>0, <1>3, <2>1, OthersSame, SameRunInv
    <2>2. CASE q = r
      BY <1>0, <1>3, <2>2, DispatchInv, LaunchStepInv, ReconcileInv,
         RequestInv, EnvInv DEF Step1, DaemonStep
    <2> QED
      BY <2>1, <2>2
  <1> QED
    BY <1>1, <1>2, <1>3 DEF Next, Step1

THEOREM LaunchInvariant == Spec => []LaunchInv
  BY TypeCorrect, InitInv, NextInv, PTL DEF Spec

-----------------------------------------------------------------------------
(* What the invariant gives, for every set of runs, every budget and every *)
(* number of crashes.                                                      *)

(* Exactly-once creation: dispatchCreate sends at most one create for a    *)
(* run, so that at most one Hoja issue can ever carry its marker.          *)
THEOREM OneIssue == Spec => []AtMostOneIssue
  <1>1. ASSUME TypeOK, LaunchInv
        PROVE  AtMostOneIssue
    <2> SUFFICES ASSUME NEW r \in Runs
                 PROVE  /\ creates[r] <= 1
                        /\ \A i, j \in issues[r] \cup pendingCreates[r] : i = j
      BY DEF AtMostOneIssue
    <2>1. IssueInv(r)
      BY <1>1 DEF LaunchInv, RunInv
    <2>2. creates[r] <= 1
      BY <2>1 DEF IssueInv
    <2>3. issues[r] \cup pendingCreates[r] \subseteq {1}
      BY <2>1 DEF IssueInv
    <2> QED
      BY <2>2, <2>3
  <1> QED
    BY TypeCorrect, LaunchInvariant, <1>1, PTL

(* "No Hoja issue was created" is said only of runs for which none exists  *)
(* and none is on its way.                                                 *)
THEOREM NothingStarted == Spec => []NotStartedMeansNothing
  <1>1. LaunchInv => NotStartedMeansNothing
    BY DEF LaunchInv, RunInv, IssueInv, NotStartedMeansNothing
  <1> QED
    BY LaunchInvariant, <1>1, PTL

(* Every tab call was preceded by the verification of the run's issue, and *)
(* a run gets one tab call, or two with the one relaunch.                  *)
THEOREM TabsEarned == Spec => []TabsAreEarned
  <1>1. ASSUME TypeOK, LaunchInv
        PROVE  TabsAreEarned
    <2> SUFFICES ASSUME NEW r \in Runs
                 PROVE  /\ launches[r] > 0 => issues[r] # {} /\ disk[r].hoja
                        /\ launches[r] <= 1 + disk[r].relaunchCount
                        /\ disk[r].relaunchCount <= 1
      BY DEF TabsAreEarned
    <2>1. TabInv(r) /\ launches[r] \in Nat /\ disk[r].phase \in Phase
      BY <1>1 DEF LaunchInv, RunInv, TypeOK, RunRec
    <2>2. CASE disk[r].phase \in {"intent", "create_dispatched"}
      BY <2>1, <2>2 DEF TabInv, NoTabYet, Before
    <2>3. CASE disk[r].phase \in {"issue_created", "tab_opening", "tab_open"}
      BY <2>1, <2>3 DEF TabInv
    <2> QED
      BY <2>1, <2>2, <2>3 DEF Phase
  <1> QED
    BY TypeCorrect, LaunchInvariant, <1>1, PTL

-----------------------------------------------------------------------------
(* One worker.  This needs Tern to end a worker with its tab.              *)

\* The steps that move the phase, or stand right before a tab call.
PhaseStep(r) ==
    \/ StartRun(r) \/ Dispatch(r) \/ IssueVerified(r) \/ OpenTab(r)
    \/ TabAnswered(r) \/ RelaunchLaunch(r)

KeepsPhase(r) == disk'[r].phase = disk[r].phase /\ step'[r] # "tab"

LEMMA SavePhase ==
    ASSUME TypeOK, NEW r \in Runs, RunInv(r), NEW m, NEW s,
           SaveRun(r, m) \/ Change(r, m) \/ UNCHANGED <<disk, mem>>,
           m.phase = mem[r].phase, Goto(r, s), s # "tab"
    PROVE  KeepsPhase(r)
  BY WrittenAt DEF KeepsPhase, RunInv, CopyInv

LEMMA ChangePhase ==
    ASSUME TypeOK, NEW r \in Runs, NEW m, NEW s, Change(r, m), Goto(r, s), s # "tab"
    PROVE  KeepsPhase(r)
  <1>1. step'[r] = s /\ disk'[r] = disk[r]
    BY WrittenAt
  <1> QED
    BY <1>1 DEF KeepsPhase

LEMMA FailPhase ==
    ASSUME TypeOK, NEW r \in Runs, RunInv(r), NEW s, FailRun(r, s), s # "tab"
    PROVE  KeepsPhase(r)
  <1>1. Failed(mem[r]).phase = mem[r].phase
    BY DEF TypeOK, RunRec, Failed
  <1> QED
    BY <1>1, SavePhase DEF FailRun

LEMMA DispatchPhase ==
    ASSUME TypeOK, NEW r \in Runs, RunInv(r), DispatchStep(r)
    PROVE  PhaseStep(r) \/ KeepsPhase(r)
  <1>0. mem[r] \in RunRec
    BY DEF TypeOK
  <1>1. CASE CheckDispatch(r) \/ LookupFails(r) \/ SendCreate(r)
             \/ CreateUnknown(r) \/ IssueNotSeen(r) \/ WriteTaskFile(r)
    BY <1>1, SavePhase, FailPhase
       DEF CheckDispatch, LookupFails, SendCreate, CreateUnknown,
           IssueNotSeen, WriteTaskFile
  <1>2. CASE CreateRejected(r) \/ IssueMismatch(r)
    BY <1>2, FailPhase DEF CreateRejected, IssueMismatch
  <1>3. CASE ResolveFails(r)
    <2> DEFINE m == [mem[r] EXCEPT !.attempts = @ + 1]
               n == IF m.attempts >= MaxIntentAttempts THEN Failed(m) ELSE m
    <2>1. m.phase = mem[r].phase /\ m \in RunRec
      BY <1>0 DEF RunRec
    <2>2. n.phase = mem[r].phase
      BY <2>1 DEF Failed, RunRec
    <2>3. SaveRun(r, n) /\ Goto(r, "idle")
      BY <1>3 DEF ResolveFails
    <2> QED
      BY <2>2, <2>3, SavePhase
  <1>4. CASE CreateAnswered(r)
    <2>1. [mem[r] EXCEPT !.hoja = TRUE].phase = mem[r].phase
      BY <1>0 DEF RunRec
    <2> QED
      BY <1>4, <2>1, SavePhase DEF CreateAnswered
  <1> QED
    BY <1>1, <1>2, <1>3, <1>4 DEF DispatchStep, PhaseStep

LEMMA LaunchPhase ==
    ASSUME TypeOK, NEW r \in Runs, RunInv(r), LaunchStep(r)
    PROVE  PhaseStep(r) \/ KeepsPhase(r)
  <1>0. mem[r] \in RunRec
    BY DEF TypeOK
  <1>1. CASE CheckLaunch(r) \/ GateRefuses(r) \/ SessionFails(r) \/ SendTab(r)
    BY <1>1, SavePhase, FailPhase
       DEF CheckLaunch, GateRefuses, SessionFails, SendTab
  <1>2. CASE TabFails(r)
    <2>1. PICK m \in Located(r, Failed(mem[r])) : SaveRun(r, m)
      BY <1>2 DEF TabFails
    <2>2. m.phase = mem[r].phase
      BY <1>0, <2>1 DEF Located, Failed, RunRec
    <2> QED
      BY <1>2, <2>1, <2>2, SavePhase DEF TabFails
  <1>3. CASE Interrupted(r)
    <2>1. PICK m \in AfterInterrupt(r) : SaveRun(r, m)
      BY <1>3 DEF Interrupted
    <2>2. m.phase = mem[r].phase
      BY <1>0, <2>1 DEF AfterInterrupt, Located, RunRec
    <2> QED
      BY <1>3, <2>1, <2>2, SavePhase DEF Interrupted
  <1> QED
    BY <1>1, <1>2, <1>3 DEF LaunchStep, PhaseStep

LEMMA ReconcilePhase ==
    ASSUME TypeOK, NEW r \in Runs, RunInv(r), ReconcileRun(r) \/ ReconcileStep(r)
    PROVE  PhaseStep(r) \/ KeepsPhase(r)
  <1>0. mem[r] \in RunRec /\ started \in [Runs -> SUBSET Nat]
    BY DEF TypeOK
  <1>1. CASE ReconcileRun(r)
    <2>1. PICK m \in AfterEvents(r, disk[r]), s \in {"dead", "supervise"} :
              Change(r, m) /\ Goto(r, s)
      BY <1>1 DEF ReconcileRun
    <2> QED
      BY <2>1, ChangePhase
  <1>2. CASE JudgeDead(r)
    <2>1. PICK m \in AfterEvents(r, mem[r]) :
              Change(r, [m EXCEPT !.status = Verdict(m)])
      BY <1>2 DEF JudgeDead
    <2>2. Goto(r, "supervise")
      BY <1>2 DEF JudgeDead
    <2> QED
      BY <2>1, <2>2, ChangePhase
  <1>3. CASE Supervise(r) \/ LeaveTab(r) \/ NoRecovery(r)
    BY <1>3, SavePhase, FailPhase DEF Supervise, LeaveTab, NoRecovery
  <1>4. CASE CloseTab(r)
    BY <1>4, ChangePhase DEF CloseTab
  <1>5. CASE RecoverySpent(r)
    <2>1. [mem[r] EXCEPT !.relaunchSpent = TRUE].phase = mem[r].phase
      BY <1>0 DEF RunRec
    <2> QED
      BY <1>5, <2>1, SavePhase DEF RecoverySpent
  <1> QED
    BY <1>1, <1>2, <1>3, <1>4, <1>5 DEF ReconcileStep, PhaseStep

LEMMA RequestPhase ==
    ASSUME TypeOK, NEW r \in Runs, RunInv(r),
           StartRun(r) \/ ContinueRun(r) \/ Cancel(r) \/ CancelStep(r)
    PROVE  PhaseStep(r) \/ KeepsPhase(r)
  <1>0. mem[r] \in RunRec /\ disk[r] \in RunRec
    BY DEF TypeOK
  <1>1. CASE ContinueRun(r)
    <2>1. PICK s \in {"dispatch", "reconcile", "launch", "interrupted"} :
              Goto(r, s)
      <3>1. disk[r].phase \in Phase \ {"tab_open"}
        BY <1>0, <1>1 DEF ContinueRun, RunRec
      <3> QED
        BY <1>1, <3>1 DEF ContinueRun, Phase
    <2> QED
      BY <1>1, <2>1, SavePhase DEF ContinueRun
  <1>2. CASE Cancel(r) \/ CancelLeaves(r)
    BY <1>2, SavePhase DEF Cancel, CancelLeaves
  <1>3. CASE CancelCloses(r)
    BY <1>3, ChangePhase DEF CancelCloses
  <1>4. CASE CancelRecords(r)
    <2>1. PICK v \in BOOLEAN :
              SaveRun(r, [mem[r] EXCEPT !.status = "cancelled",
                                        !.confirmed = v /\ mem[r].hoja])
      BY <1>4 DEF CancelRecords
    <2>2. [mem[r] EXCEPT !.status = "cancelled",
                         !.confirmed = v /\ mem[r].hoja].phase = mem[r].phase
      BY <1>0 DEF RunRec
    <2> QED
      BY <1>4, <2>1, <2>2, SavePhase DEF CancelRecords
  <1> QED
    BY <1>1, <1>2, <1>3, <1>4 DEF CancelStep, PhaseStep

\* Tern only loses tabs and workers of the run, and each worker with its tab.
TernShrinks(r) ==
    /\ launches'[r] = launches[r] /\ opened'[r] = opened[r]
    /\ pendingTabs'[r] \subseteq pendingTabs[r]
    /\ tabs'[r] \subseteq tabs[r] /\ workers'[r] \subseteq tabs'[r]

LEMMA OpenKeeps ==
    ASSUME TypeOK, NEW r \in Runs, OpenInv(r), TernShrinks(r),
           NoTabYet(r)' => NoTabYet(r),
           disk'[r].phase = "tab_open"
               => disk[r].phase = "tab_open" \/ pendingTabs[r] = {}
    PROVE  OpenInv(r)'
  BY DEF OpenInv, TernShrinks

LEMMA TernLocal ==
    ASSUME NEW r \in Runs, OpenInv(r), Local \/ UNCHANGED ternVars
    PROVE  TernShrinks(r)
  BY DEF OpenInv, Local, ternVars, TernShrinks

LEMMA TernCloses ==
    ASSUME TypeOK, ~OrphanWorkers, NEW r \in Runs, NEW b, OpenInv(r),
           Closes(r, b)
    PROVE  TernShrinks(r)
  BY DEF OpenInv, Closes, TernShrinks, TypeOK

(* Steps that keep the phase.                                              *)
LEMMA OpenSteps ==
    ASSUME TypeOK, ~OrphanWorkers, NEW r \in Runs, OpenInv(r), KeepsPhase(r),
           TernShrinks(r)
    PROVE  OpenInv(r)'
  <1>1. NoTabYet(r)' => NoTabYet(r)
    BY DEF NoTabYet, KeepsPhase
  <1> QED
    BY <1>1, OpenKeeps DEF KeepsPhase

(* What the daemon's steps do to Tern.                                     *)
LEMMA TernSteps ==
    ASSUME TypeOK, ~OrphanWorkers, NEW r \in Runs, OpenInv(r),
           \/ StartRun(r) \/ ContinueRun(r) \/ ReconcileRun(r) \/ Cancel(r)
           \/ DaemonStep(r)
    PROVE  TernShrinks(r) \/ SendTab(r)
  <1>1. CASE Local \/ UNCHANGED ternVars
    BY <1>1, TernLocal
  <1>2. CASE CloseTab(r) \/ CancelCloses(r)
    BY <1>2, TernCloses DEF CloseTab, CancelCloses
  <1>3. CASE Cancel(r)
    <2>1. /\ launches' = launches /\ pendingTabs' = pendingTabs
          /\ opened' = opened /\ tabs' = tabs
          /\ workers'[r] \subseteq workers[r]
      BY <1>3 DEF Cancel, TypeOK
    <2> QED
      BY <2>1 DEF OpenInv, TernShrinks
  <1>4. CASE StartRun(r) \/ ContinueRun(r) \/ ReconcileRun(r)
    BY <1>1, <1>4 DEF StartRun, ContinueRun, ReconcileRun
  <1>5. CASE DispatchStep(r)
    BY <1>1, <1>5
       DEF DispatchStep, CheckDispatch, ResolveFails, LookupFails, Dispatch,
           SendCreate, CreateAnswered, CreateUnknown, CreateRejected,
           IssueNotSeen, IssueMismatch, IssueVerified, WriteTaskFile
  <1>6. CASE LaunchStep(r)
    BY <1>1, <1>6
       DEF LaunchStep, CheckLaunch, GateRefuses, SessionFails, OpenTab,
           TabAnswered, TabFails, Interrupted
  <1>7. CASE ReconcileStep(r)
    BY <1>1, <1>2, <1>7
       DEF ReconcileStep, JudgeDead, Supervise, LeaveTab, NoRecovery,
           RecoverySpent, RelaunchLaunch
  <1>8. CASE CancelStep(r)
    BY <1>1, <1>2, <1>8 DEF CancelStep, CancelLeaves, CancelRecords
  <1> QED
    BY <1>3, <1>4, <1>5, <1>6, <1>7, <1>8 DEF DaemonStep

(* Steps that move the phase.                                              *)
LEMMA OpenPhases ==
    ASSUME TypeOK, ~OrphanWorkers, NEW r \in Runs, RunInv(r), OpenInv(r),
           PhaseStep(r)
    PROVE  OpenInv(r)'
  <1>0. /\ mem[r] \in RunRec /\ disk[r] \in RunRec
        /\ StepFits(step[r], disk[r].phase) /\ mem[r].phase = disk[r].phase
    BY StepPhase
  <1>1. CASE StartRun(r) \/ Dispatch(r) \/ IssueVerified(r) \/ OpenTab(r)
    <2>1. NoTabYet(r)
      BY <1>0, <1>1 DEF NoTabYet, Before, StartRun, Dispatch, IssueVerified,
                        OpenTab, StepFits, RunInv, StepInv
    <2>2. PICK m \in RunRec, s \in Step :
              /\ SaveRun(r, m) /\ Goto(r, s)
              /\ m.phase # "tab_open"
      <3>1. CASE StartRun(r)
        <4>1. PICK d \in BOOLEAN :
                  SaveRun(r, [NewRun EXCEPT !.status = "launching",
                                            !.deadline = d])
          BY <3>1 DEF StartRun
        <4>2. [NewRun EXCEPT !.status = "launching", !.deadline = d] \in RunRec
          BY DEF NewRun, RunRec, Status, Phase
        <4>3. [NewRun EXCEPT !.status = "launching",
                             !.deadline = d].phase # "tab_open"
          BY DEF NewRun
        <4>4. Goto(r, "dispatch") /\ "dispatch" \in Step
          BY <3>1 DEF StartRun, Step
        <4> QED
          BY <4>1, <4>2, <4>3, <4>4
      <3>2. CASE Dispatch(r)
        <4>1. [mem[r] EXCEPT !.phase = "create_dispatched",
                             !.hoja = (issues[r] # {})] \in RunRec
          BY <1>0 DEF RunRec, Phase
        <4>2. [mem[r] EXCEPT !.phase = "create_dispatched",
                             !.hoja = (issues[r] # {})].phase # "tab_open"
          BY <1>0 DEF RunRec
        <4>3. \E s \in Step : Goto(r, s)
          BY <3>2 DEF Dispatch, Step
        <4> QED
          BY <3>2, <4>1, <4>2, <4>3 DEF Dispatch
      <3>3. CASE IssueVerified(r)
        <4> DEFINE n == [mem[r] EXCEPT !.hoja = TRUE,
                                       !.phase = "issue_created"]
        <4>1. n \in RunRec /\ n.phase # "tab_open"
          BY <1>0 DEF RunRec, Phase
        <4>2. SaveRun(r, n) /\ Goto(r, "task") /\ "task" \in Step
          BY <3>3 DEF IssueVerified, Step
        <4> QED
          BY <4>1, <4>2
      <3>4. CASE OpenTab(r)
        BY <1>0, <3>4 DEF OpenTab, RunRec, Phase, Step
      <3> QED
        BY <1>1, <3>1, <3>2, <3>3, <3>4
    <2>3. disk'[r].phase # "tab_open"
      BY <2>2, WrittenAt
    <2>4. TernShrinks(r)
      BY <1>1, TernLocal DEF StartRun, Dispatch, IssueVerified, OpenTab
    <2> QED
      BY <2>1, <2>3, <2>4, OpenKeeps
  <1>2. CASE TabAnswered(r)
    <2>1. pendingTabs[r] = {}
      BY <1>2 DEF TabAnswered, OpenInv
    <2>2. [mem[r] EXCEPT !.phase = "tab_open", !.block = launches[r]].phase
             = "tab_open"
      BY <1>0 DEF RunRec
    <2>3. disk'[r].phase = "tab_open" /\ step'[r] = "idle"
      BY <1>2, <2>2, WrittenAt DEF TabAnswered
    <2>4. ~NoTabYet(r)' /\ TernShrinks(r)
      BY <1>2, <2>3, TernLocal DEF NoTabYet, Before, TabAnswered
    <2> QED
      BY <2>1, <2>4, OpenKeeps
  <1>3. CASE RelaunchLaunch(r)
    <2>1. tabs[r] = {} /\ TernShrinks(r) /\ step[r] = "recover"
      BY <1>3, TernLocal DEF RelaunchLaunch
    <2>2. disk[r].phase \in {"issue_created", "tab_open"}
      BY <1>0, <1>3 DEF RelaunchLaunch, Recoverable
    <2>3. pendingTabs[r] = {}
      BY <2>2 DEF OpenInv, NoTabYet, Before
    <2>4. Relaunched(mem[r]).phase = "issue_created"
      BY <1>0 DEF Relaunched, RunRec
    <2>5. disk'[r].phase = "issue_created"
      BY <1>3, <2>4, WrittenAt DEF RelaunchLaunch
    <2> QED
      BY <2>1, <2>3, <2>5 DEF OpenInv, TernShrinks
  <1> QED
    BY <1>1, <1>2, <1>3 DEF PhaseStep

LEMMA OpenSend ==
    ASSUME TypeOK, NEW r \in Runs, RunInv(r), OpenInv(r), SendTab(r)
    PROVE  OpenInv(r)'
  <1>1. /\ launches'[r] = launches[r] + 1
        /\ pendingTabs'[r] = pendingTabs[r] \cup {launches[r] + 1}
        /\ opened'[r] = opened[r] /\ tabs'[r] = tabs[r]
        /\ workers'[r] = workers[r]
        /\ disk'[r] = disk[r] /\ step'[r] = "tabwait"
    BY DEF SendTab, TypeOK, Goto
  <1>2. tabs[r] = {} /\ pendingTabs[r] = {} /\ workers[r] = {}
    BY DEF SendTab, OpenInv, NoTabYet
  <1>3. disk[r].phase = "tab_opening"
    BY StepPhase DEF SendTab, StepFits
  <1>4. launches[r] \in Nat /\ opened[r] \subseteq 1..launches[r]
    BY DEF TypeOK, OpenInv
  <1>5. opened'[r] \subseteq 1..launches'[r]
    BY <1>1, <1>4
  <1>6. launches'[r] \notin opened'[r]
    BY <1>1, <1>4
  <1>7. ~NoTabYet(r)' /\ disk'[r].phase # "tab_open"
    BY <1>1, <1>3 DEF NoTabYet, Before
  <1> QED
    BY <1>1, <1>2, <1>4, <1>5, <1>6, <1>7 DEF OpenInv

LEMMA OpenEnv ==
    ASSUME TypeOK, ~OrphanWorkers, NEW r \in Runs, OpenInv(r), EnvStep(r)
    PROVE  OpenInv(r)'
  <1>1. /\ disk' = disk /\ step' = step /\ launches' = launches
    BY DEF EnvStep, CommitCreate, DropCreate, TabOpens, TabNeverOpens,
           WorkerStarts, WorkerDies, TabClosedByHand, Closes, Expire, Age, Env,
           daemonVars, ternVars
  <1>2. NoTabYet(r)' <=> NoTabYet(r)
    BY <1>1 DEF NoTabYet
  <1>3. CASE TabOpens(r)
    <2>1. PICK i \in pendingTabs[r] :
              /\ pendingTabs'[r] = pendingTabs[r] \ {i}
              /\ opened'[r] = opened[r] \cup {i}
              /\ tabs'[r] = tabs[r] \cup {i}
              /\ workers'[r] = workers[r] \cup {i}
      BY <1>3 DEF TabOpens, TypeOK
    <2>2. i = launches[r] /\ pendingTabs'[r] = {} /\ ~NoTabYet(r)
      BY <2>1 DEF OpenInv
    <2>3. launches[r] \in 1..launches[r]
      <3>1. launches[r] \in Nat /\ opened[r] \subseteq 1..launches[r]
        BY DEF TypeOK, OpenInv
      <3>2. launches[r] # 0
        BY <2>1, <2>2 DEF OpenInv
      <3> QED
        BY <3>1, <3>2
    <2> QED
      BY <1>1, <1>2, <2>1, <2>2, <2>3 DEF OpenInv
  <1>4. CASE ~TabOpens(r)
    <2>1. CASE UNCHANGED ternVars
      BY <1>1, <1>2, <2>1, TernLocal, OpenKeeps
    <2>2. CASE TabNeverOpens(r) \/ WorkerStarts(r)
      <3>1. TernShrinks(r)
        BY <2>2 DEF TabNeverOpens, WorkerStarts, TernShrinks, OpenInv, TypeOK
      <3> QED
        BY <1>1, <1>2, <3>1, OpenKeeps
    <2>3. CASE WorkerDies(r)
      <3>1. TernShrinks(r)
        BY <2>3 DEF WorkerDies, TernShrinks, OpenInv, TypeOK
      <3> QED
        BY <1>1, <1>2, <3>1, OpenKeeps
    <2>4. CASE TabClosedByHand(r)
      BY <1>1, <1>2, <2>4, TernCloses, OpenKeeps DEF TabClosedByHand
    <2> QED
      BY <1>4, <2>1, <2>2, <2>3, <2>4
         DEF EnvStep, CommitCreate, DropCreate, Expire, Age
  <1> QED
    BY <1>3, <1>4

LEMMA NextOpen ==
    ASSUME TypeOK, LaunchInv, OpenInvs, ~OrphanWorkers, [Next]_vars
    PROVE  OpenInvs'
  <1> SUFFICES ASSUME NEW q \in Runs
               PROVE  OpenInv(q)'
    BY DEF OpenInvs
  <1>0. RunInv(q) /\ OpenInv(q)
    BY DEF LaunchInv, OpenInvs
  <1>s. ASSUME Same(q)
        PROVE  OpenInv(q)'
    BY <1>0, <1>s DEF Same, OpenInv, NoTabYet
  <1>1. CASE Crash
    <2>1. NoTabYet(q)' => NoTabYet(q)
      BY <1>1 DEF Crash, NoTabYet
    <2> QED
      BY <1>0, <1>1, <2>1, TernLocal, OpenKeeps DEF Crash
  <1>2. CASE UNCHANGED vars
    BY <1>2, <1>s DEF Same, vars, daemonVars, hojaVars, ternVars
  <1>3. ASSUME NEW r \in Runs, Step1(r)
        PROVE  OpenInv(q)'
    <2>1. CASE q # r
      BY <1>3, <1>s, <2>1, OthersSame
    <2>2. CASE q = r /\ EnvStep(q)
      BY <1>0, <2>2, OpenEnv
    <2>3. CASE q = r /\ ~EnvStep(q)
      <3>1. \/ StartRun(q) \/ ContinueRun(q) \/ ReconcileRun(q) \/ Cancel(q)
            \/ DaemonStep(q)
        BY <1>3, <2>3 DEF Step1
      <3>2. PhaseStep(q) \/ KeepsPhase(q)
        BY <1>0, <3>1, DispatchPhase, LaunchPhase, ReconcilePhase, RequestPhase
           DEF DaemonStep
      <3>3. TernShrinks(q) \/ SendTab(q)
        BY <1>0, <3>1, TernSteps
      <3> QED
        BY <1>0, <3>2, <3>3, OpenPhases, OpenSteps, OpenSend
    <2> QED
      BY <2>1, <2>2, <2>3
  <1> QED
    BY <1>1, <1>2, <1>3 DEF Next, Step1

LEMMA OpenInvariant ==
    ASSUME ~OrphanWorkers
    PROVE  Spec => []OpenInvs
  <1>1. Init => OpenInvs
    <2> SUFFICES ASSUME Init, NEW r \in Runs
                 PROVE  OpenInv(r)
      BY DEF OpenInvs
    <2> QED
      BY DEF Init, OpenInv, NewRun
  <1>2. TypeOK /\ LaunchInv /\ OpenInvs /\ [Next]_vars => OpenInvs'
    BY NextOpen
  <1> QED
    BY <1>1, <1>2, TypeCorrect, LaunchInvariant, PTL DEF Spec

(* When closing a tab ends its worker, no restart, relaunch or late tab    *)
(* call ever leaves two workers on one run (relaunchLaunch: "no duplicate  *)
(* issue or duplicate worker").                                            *)
THEOREM OneWorker ==
    ASSUME ~OrphanWorkers
    PROVE  Spec => []AtMostOneWorker
  <1>1. OpenInvs => AtMostOneWorker
    BY DEF OpenInvs, OpenInv, AtMostOneWorker
  <1> QED
    BY <1>1, OpenInvariant, PTL

-----------------------------------------------------------------------------
(* What a run that ended can rely on: "cancelled" is final, and "lost" is  *)
(* said only of a run none of whose workers lives or will live.            *)

\* The part of a pass that judges a run, after its events were applied.
Judging == {"supervise", "close", "recover"}

\* The status in the daemon's copy and in the file: they differ only while a
\* pass judges the run, and never on how a run ended.
StatusInv(r) ==
    /\ step[r] \notin Judging \cup {"dead"} => mem[r].status = disk[r].status
    /\ disk[r].status \in Terminal => mem[r].status = disk[r].status
    /\ step[r] \notin Judging \cup {"idle"} => mem[r].status \in Active
    /\ disk[r].status = "absent" => step[r] = "idle"
    /\ mem[r].status = "absent" => disk[r].status = "absent"

StatusInvs == \A r \in Runs : StatusInv(r)

-----------------------------------------------------------------------------
(* A step either saves its copy, changes it in memory, or only moves on.   *)

LEMMA SaveStatus ==
    ASSUME TypeOK, NEW r \in Runs, NEW m, NEW s, SaveRun(r, m), Goto(r, s),
           m.status # "absent",
           s \in Judging \cup {"idle"} \/ m.status \in Active
    PROVE  StatusInv(r)'
  BY WrittenAt DEF StatusInv, Judging

LEMMA JumpStatus ==
    ASSUME TypeOK, NEW r \in Runs, NEW s, StatusInv(r),
           UNCHANGED <<disk, mem>>, Goto(r, s),
           step[r] \notin Judging \cup {"idle", "dead"}, s # "dead"
    PROVE  StatusInv(r)'
  BY WrittenAt DEF StatusInv, Judging, Active

LEMMA FailedStatus ==
    ASSUME TypeOK, NEW r \in Runs
    PROVE  Failed(mem[r]).status = "failed"
  BY DEF TypeOK, RunRec, Failed

LEMMA FailRunStatus ==
    ASSUME TypeOK, NEW r \in Runs, NEW s, FailRun(r, s),
           s \in Judging \cup {"idle"}
    PROVE  StatusInv(r)'
  BY FailedStatus, SaveStatus DEF FailRun

LEMMA DispatchStatus ==
    ASSUME TypeOK, NEW r \in Runs, StatusInv(r), DispatchStep(r)
    PROVE  StatusInv(r)'
  <1>0. mem[r] \in RunRec
    BY DEF TypeOK
  <1>a. mem[r].status \in Active /\ mem[r].status # "absent"
    BY DEF DispatchStep, CheckDispatch, ResolveFails, LookupFails, Dispatch,
           SendCreate, CreateAnswered, CreateUnknown, CreateRejected,
           IssueNotSeen, IssueMismatch, IssueVerified, WriteTaskFile,
           StatusInv, Judging, Active
  <1>1. CASE LookupFails(r) \/ SendCreate(r) \/ WriteTaskFile(r)
    BY <1>1, JumpStatus DEF LookupFails, SendCreate, WriteTaskFile, Judging
  <1>2. CASE CheckDispatch(r)
    BY <1>2, JumpStatus, FailRunStatus DEF CheckDispatch, Judging
  <1>3. CASE ResolveFails(r)
    <2> DEFINE m == [mem[r] EXCEPT !.attempts = @ + 1]
               n == IF m.attempts >= MaxIntentAttempts THEN Failed(m) ELSE m
    <2>1. m.status = mem[r].status /\ m \in RunRec
      BY <1>0 DEF RunRec
    <2>2. n.status # "absent"
      BY <1>a, <2>1 DEF Failed, RunRec
    <2>3. SaveRun(r, n) /\ Goto(r, "idle")
      BY <1>3 DEF ResolveFails
    <2> HIDE DEF n
    <2> QED
      BY <2>2, <2>3, SaveStatus
  <1>4. CASE Dispatch(r)
    <2> DEFINE n == [mem[r] EXCEPT !.phase = "create_dispatched",
                                   !.hoja = (issues[r] # {})]
    <2>1. n.status = mem[r].status
      BY <1>0 DEF RunRec
    <2>2. SaveRun(r, n) /\ \E s \in {"reconcile", "create"} : Goto(r, s)
      BY <1>4 DEF Dispatch
    <2> HIDE DEF n
    <2> QED
      BY <1>a, <2>1, <2>2, SaveStatus
  <1>5. CASE CreateAnswered(r)
    <2>1. [mem[r] EXCEPT !.hoja = TRUE].status = mem[r].status
      BY <1>0 DEF RunRec
    <2> QED
      BY <1>a, <1>5, <2>1, SaveStatus DEF CreateAnswered
  <1>6. CASE CreateUnknown(r) \/ IssueNotSeen(r)
    BY <1>a, <1>6, SaveStatus DEF CreateUnknown, IssueNotSeen
  <1>7. CASE CreateRejected(r) \/ IssueMismatch(r)
    BY <1>7, FailRunStatus DEF CreateRejected, IssueMismatch
  <1>8. CASE IssueVerified(r)
    <2> DEFINE n == [mem[r] EXCEPT !.hoja = TRUE, !.phase = "issue_created"]
    <2>1. n.status = mem[r].status
      BY <1>0 DEF RunRec
    <2>2. SaveRun(r, n) /\ Goto(r, "task")
      BY <1>8 DEF IssueVerified
    <2> HIDE DEF n
    <2> QED
      BY <1>a, <2>1, <2>2, SaveStatus
  <1> QED
    BY <1>1, <1>2, <1>3, <1>4, <1>5, <1>6, <1>7, <1>8 DEF DispatchStep

LEMMA LaunchStatus ==
    ASSUME TypeOK, NEW r \in Runs, StatusInv(r), LaunchStep(r)
    PROVE  StatusInv(r)'
  <1>0. mem[r] \in RunRec
    BY DEF TypeOK
  <1>a. mem[r].status \in Active /\ mem[r].status # "absent"
    BY DEF LaunchStep, CheckLaunch, GateRefuses, SessionFails, OpenTab,
           SendTab, TabAnswered, TabFails, Interrupted,
           StatusInv, Judging, Active
  <1>1. CASE CheckLaunch(r)
    BY <1>1, JumpStatus, FailRunStatus DEF CheckLaunch, Judging
  <1>2. CASE GateRefuses(r)
    BY <1>2, FailRunStatus DEF GateRefuses
  <1>3. CASE SessionFails(r)
    BY <1>a, <1>3, SaveStatus DEF SessionFails
  <1>4. CASE SendTab(r)
    BY <1>4, JumpStatus DEF SendTab, Judging
  <1>5. CASE OpenTab(r)
    <2>1. [mem[r] EXCEPT !.phase = "tab_opening"].status = mem[r].status
      BY <1>0 DEF RunRec
    <2> QED
      BY <1>a, <1>5, <2>1, SaveStatus DEF OpenTab
  <1>6. CASE TabAnswered(r)
    <2> DEFINE n == [mem[r] EXCEPT !.phase = "tab_open", !.block = launches[r]]
    <2>1. n.status = mem[r].status
      BY <1>0 DEF RunRec
    <2>2. SaveRun(r, n) /\ Goto(r, "idle")
      BY <1>6 DEF TabAnswered
    <2> HIDE DEF n
    <2> QED
      BY <1>a, <2>1, <2>2, SaveStatus
  <1>7. CASE TabFails(r)
    <2>1. PICK m \in Located(r, Failed(mem[r])) : SaveRun(r, m)
      BY <1>7 DEF TabFails
    <2>2. m.status = "failed"
      BY <1>0, <2>1 DEF Located, Failed, RunRec
    <2> QED
      BY <1>7, <2>1, <2>2, SaveStatus DEF TabFails
  <1>8. CASE Interrupted(r)
    <2>1. PICK m \in AfterInterrupt(r) : SaveRun(r, m)
      BY <1>8 DEF Interrupted
    <2>2. m.status = "failed"
      BY <1>0, <2>1 DEF AfterInterrupt, Located, RunRec
    <2> QED
      BY <1>8, <2>1, <2>2, SaveStatus DEF Interrupted
  <1> QED
    BY <1>1, <1>2, <1>3, <1>4, <1>5, <1>6, <1>7, <1>8 DEF LaunchStep

LEMMA ReconcileStatus ==
    ASSUME TypeOK, NEW r \in Runs, StatusInv(r), ReconcileRun(r) \/ ReconcileStep(r)
    PROVE  StatusInv(r)'
  <1>0. mem[r] \in RunRec /\ disk[r] \in RunRec
    BY DEF TypeOK
  <1>1. CASE ReconcileRun(r)
    <2>1. PICK m \in AfterEvents(r, disk[r]) :
              /\ Change(r, m)
              /\ \/ m.status \in Active /\ Goto(r, "dead")
                 \/ Goto(r, "supervise")
      BY <1>1 DEF ReconcileRun
    <2>2. /\ disk[r].status \in Terminal => m.status = disk[r].status
          /\ disk[r].status # "absent" /\ m.status # "absent"
      <3>1. disk[r].status # "absent"
        BY <1>1 DEF ReconcileRun
      <3>2. CASE m = disk[r]
        BY <3>1, <3>2
      <3>3. ASSUME NEW new, NEW p, m = ApplyStarted(disk[r], new, p)
            PROVE  m.status = IF disk[r].status \in Terminal
                              THEN disk[r].status ELSE "running"
        BY <1>0, <3>3 DEF ApplyStarted, RunRec
      <3> QED
        BY <2>1, <3>1, <3>2, <3>3 DEF AfterEvents
    <2> QED
      BY <2>1, <2>2, WrittenAt DEF StatusInv, Judging, Active, Terminal
  <1>2. CASE JudgeDead(r)
    <2>1. PICK m \in AfterEvents(r, mem[r]) :
              Change(r, [m EXCEPT !.status = Verdict(m)])
      BY <1>2 DEF JudgeDead
    <2>2. m \in RunRec
      BY <1>0, <2>1, AfterEventsType DEF TypeOK
    <2> DEFINE n == [m EXCEPT !.status = Verdict(m)]
    <2>3. n.status \in {"failed", "lost"}
      BY <2>2 DEF Verdict, RunRec
    <2>4. Change(r, n) /\ Goto(r, "supervise") /\ step[r] = "dead"
      BY <1>2, <2>1 DEF JudgeDead
    <2>5. disk[r].status \notin Terminal \cup {"absent"}
      BY <1>0, <2>4 DEF StatusInv, Judging, Active, Terminal, RunRec, Status
    <2> HIDE DEF n
    <2> QED
      BY <2>3, <2>4, <2>5, WrittenAt DEF StatusInv, Judging
  <1>3. CASE Supervise(r) \/ LeaveTab(r)
    <2>1. CASE UNCHANGED <<disk, mem>>
      BY <1>3, <2>1, WrittenAt
         DEF StatusInv, Judging, Supervise, LeaveTab, FailRun
    <2>2. CASE FailRun(r, "close")
      BY <2>2, FailRunStatus DEF Judging
    <2> QED
      BY <1>3, <2>1, <2>2 DEF Supervise, LeaveTab
  <1>4. CASE CloseTab(r)
    <2>1. [mem[r] EXCEPT !.tabClosed = TRUE].status = mem[r].status
      BY <1>0 DEF RunRec
    <2>2. /\ Change(r, [mem[r] EXCEPT !.tabClosed = TRUE]) /\ Goto(r, "recover")
          /\ step[r] = "close" /\ mem[r].status \in Terminal
      BY <1>4 DEF CloseTab
    <2>3. /\ disk'[r] = disk[r] /\ step'[r] = "recover"
          /\ mem'[r].status = mem[r].status
      BY <2>1, <2>2, WrittenAt
    <2> QED
      BY <2>2, <2>3 DEF StatusInv, Judging
  <1>a. CASE step[r] = "recover"
    <2>1. disk[r].status # "absent" /\ mem[r].status # "absent"
      BY <1>a DEF StatusInv
    <2>2. CASE NoRecovery(r)
      BY <2>1, <2>2, SaveStatus DEF NoRecovery
    <2>3. CASE RecoverySpent(r)
      <3>1. [mem[r] EXCEPT !.relaunchSpent = TRUE].status = mem[r].status
        BY <1>0 DEF RunRec
      <3> QED
        BY <2>1, <2>3, <3>1, SaveStatus DEF RecoverySpent
    <2>4. CASE RelaunchLaunch(r)
      <3>1. Relaunched(mem[r]).status = "launching"
        BY <1>0 DEF RunRec, Relaunched
      <3> QED
        BY <2>4, <3>1, SaveStatus DEF RelaunchLaunch
    <2>5. CASE ~(NoRecovery(r) \/ RecoverySpent(r) \/ RelaunchLaunch(r))
      BY <1>1, <1>2, <1>3, <1>4, <2>5 DEF ReconcileStep
    <2> QED
      BY <2>2, <2>3, <2>4, <2>5
  <1>b. CASE step[r] # "recover"
    BY <1>1, <1>2, <1>3, <1>4, <1>b
       DEF ReconcileStep, NoRecovery, RecoverySpent, RelaunchLaunch
  <1> QED
    BY <1>a, <1>b

LEMMA RequestStatus ==
    ASSUME TypeOK, NEW r \in Runs, StatusInv(r),
           StartRun(r) \/ ContinueRun(r) \/ Cancel(r) \/ CancelStep(r)
    PROVE  StatusInv(r)'
  <1>0. mem[r] \in RunRec
    BY DEF TypeOK
  <1>1. CASE StartRun(r)
    <2>1. PICK d \in BOOLEAN :
              SaveRun(r, [NewRun EXCEPT !.status = "launching",
                                        !.deadline = d])
      BY <1>1 DEF StartRun
    <2>2. [NewRun EXCEPT !.status = "launching",
                         !.deadline = d].status = "launching"
      BY DEF NewRun
    <2> QED
      BY <1>1, <2>1, <2>2, SaveStatus DEF StartRun, Active
  <1>2. CASE ContinueRun(r) \/ Cancel(r)
    <2>1. PICK s : Goto(r, s) /\ s \notin Judging \cup {"idle", "dead"}
      <3>1. disk[r].phase \in Phase
        BY DEF TypeOK, RunRec
      <3> QED
        BY <1>2, <3>1 DEF ContinueRun, Cancel, Phase, Judging
    <2>2. step[r] = "idle" /\ disk[r].status \in Active
      BY <1>2 DEF ContinueRun, Cancel, Idle
    <2> QED
      BY <1>2, <2>1, <2>2, WrittenAt
         DEF ContinueRun, Cancel, StatusInv, Judging, Active
  <1>3. CASE CancelCloses(r)
    <2>1. [mem[r] EXCEPT !.tabClosed = TRUE].status = mem[r].status
      BY <1>0 DEF RunRec
    <2> QED
      BY <1>3, <2>1, WrittenAt DEF CancelCloses, StatusInv, Judging, Active
  <1>4. CASE CancelLeaves(r)
    BY <1>4, JumpStatus DEF CancelLeaves, Judging
  <1>5. CASE CancelRecords(r)
    <2>1. PICK v \in BOOLEAN :
              SaveRun(r, [mem[r] EXCEPT !.status = "cancelled",
                                        !.confirmed = v /\ mem[r].hoja])
      BY <1>5 DEF CancelRecords
    <2>2. [mem[r] EXCEPT !.status = "cancelled",
             !.confirmed = v /\ mem[r].hoja].status = "cancelled"
      BY <1>0 DEF RunRec
    <2> QED
      BY <1>5, <2>1, <2>2, SaveStatus DEF CancelRecords
  <1> QED
    BY <1>1, <1>2, <1>3, <1>4, <1>5 DEF CancelStep

LEMMA NextStatus ==
    ASSUME TypeOK, StatusInvs, [Next]_vars
    PROVE  StatusInvs'
  <1> SUFFICES ASSUME NEW q \in Runs
               PROVE  StatusInv(q)'
    BY DEF StatusInvs
  <1>0. StatusInv(q)
    BY DEF StatusInvs
  <1>s. ASSUME Same(q)
        PROVE  StatusInv(q)'
    BY <1>0, <1>s DEF Same, StatusInv
  <1>1. CASE Crash
    BY <1>0, <1>1 DEF Crash, StatusInv, Judging
  <1>2. CASE UNCHANGED vars
    BY <1>2, <1>s DEF Same, vars, daemonVars, hojaVars, ternVars
  <1>3. ASSUME NEW r \in Runs, Step1(r)
        PROVE  StatusInv(q)'
    <2>1. CASE q # r
      BY <1>3, <1>s, <2>1, OthersSame
    <2>2. CASE q = r /\ EnvStep(q)
      <3>1. UNCHANGED daemonVars
        BY <2>2 DEF EnvStep, CommitCreate, DropCreate, TabOpens,
                    TabNeverOpens, WorkerStarts, WorkerDies, TabClosedByHand,
                    Expire, Age, Env
      <3> QED
        BY <1>0, <3>1 DEF daemonVars, StatusInv
    <2>3. CASE q = r /\ ~EnvStep(q)
      BY <1>0, <1>3, <2>3, DispatchStatus, LaunchStatus, ReconcileStatus,
         RequestStatus DEF Step1, DaemonStep
    <2> QED
      BY <2>1, <2>2, <2>3
  <1> QED
    BY <1>1, <1>2, <1>3 DEF Next, Step1

THEOREM StatusInvariant == Spec => []StatusInvs
  <1>1. Init => StatusInvs
    <2> SUFFICES ASSUME Init, NEW r \in Runs
                 PROVE  StatusInv(r)
      BY DEF StatusInvs
    <2>1. mem[r] = NewRun /\ disk[r] = NewRun /\ step[r] = "idle"
      BY DEF Init
    <2> QED
      BY <2>1 DEF StatusInv, NewRun, Terminal
  <1> QED
    BY <1>1, NextStatus, TypeCorrect, PTL DEF Spec

-----------------------------------------------------------------------------
(* Where a step can meet a cancelled run: only while a pass judges it.     *)

LEMMA CancelledStep ==
    ASSUME TypeOK, NEW r \in Runs, StatusInv(r), Step1(r),
           disk[r].status = "cancelled"
    PROVE  /\ disk'[r].status = "cancelled"
           /\ creates'[r] = creates[r] /\ launches'[r] = launches[r]
  <1>0. mem[r] \in RunRec
    BY DEF TypeOK
  <1>a. mem[r].status = "cancelled" /\ step[r] \in Judging \cup {"idle"}
    BY DEF StatusInv, Terminal, Active
  <1>1. ~DispatchStep(r) /\ ~LaunchStep(r) /\ ~CancelStep(r)
    BY <1>a DEF DispatchStep, CheckDispatch, ResolveFails, LookupFails,
                Dispatch, SendCreate, CreateAnswered, CreateUnknown,
                CreateRejected, IssueNotSeen, IssueMismatch, IssueVerified,
                WriteTaskFile, LaunchStep, CheckLaunch, GateRefuses,
                SessionFails, OpenTab, SendTab, TabAnswered, TabFails,
                Interrupted, CancelStep, CancelCloses, CancelLeaves,
                CancelRecords, Judging
  <1>2. ~StartRun(r) /\ ~ContinueRun(r) /\ ~Cancel(r)
    BY DEF StartRun, ContinueRun, Cancel, Active
  <1>3. CASE EnvStep(r)
    BY <1>3 DEF EnvStep, CommitCreate, DropCreate, TabOpens, TabNeverOpens,
                WorkerStarts, WorkerDies, TabClosedByHand, Closes, Expire, Age,
                Env, daemonVars, hojaVars, ternVars
  <1>4. CASE ReconcileRun(r)
    BY <1>4 DEF ReconcileRun, Change, Local, hojaVars, ternVars
  <1>5. CASE ReconcileStep(r)
    <2>1. creates' = creates /\ launches' = launches
      BY <1>5 DEF ReconcileStep, JudgeDead, Supervise, CloseTab, LeaveTab,
                  NoRecovery, RecoverySpent, RelaunchLaunch, Closes, Local,
                  hojaVars, ternVars
    <2>2. ~JudgeDead(r) /\ ~RecoverySpent(r) /\ ~RelaunchLaunch(r)
      BY <1>a DEF JudgeDead, RecoverySpent, RelaunchLaunch, Recoverable,
                  Judging
    <2>3. CASE Supervise(r)
      BY <1>a, <2>1, <2>3 DEF Supervise, TimedOut
    <2>4. CASE CloseTab(r) \/ LeaveTab(r)
      BY <2>1, <2>4 DEF CloseTab, LeaveTab, Change
    <2>5. CASE NoRecovery(r)
      BY <1>a, <2>1, <2>5, WrittenAt DEF NoRecovery
    <2> QED
      BY <1>5, <2>1, <2>2, <2>3, <2>4, <2>5 DEF ReconcileStep
  <1> QED
    BY <1>1, <1>2, <1>3, <1>4, <1>5 DEF Step1, DaemonStep

(* A cancel that was recorded is final: no handler, restart or recovery    *)
(* takes the run up again, sends a create for it or opens a tab for it     *)
(* (handleRequest "cancel", recoveryReason).                               *)
THEOREM CancelStays == Spec => CancelIsFinal
  <1>1. ASSUME TypeOK, StatusInvs, [Next]_vars, NEW q \in Runs,
               disk[q].status = "cancelled"
        PROVE  /\ disk'[q].status = "cancelled"
               /\ creates'[q] = creates[q] /\ launches'[q] = launches[q]
    <2>1. CASE Crash \/ UNCHANGED vars
      BY <1>1, <2>1 DEF Crash, vars, daemonVars, hojaVars, ternVars
    <2>2. ASSUME NEW r \in Runs, Step1(r)
          PROVE  /\ disk'[q].status = "cancelled"
                 /\ creates'[q] = creates[q] /\ launches'[q] = launches[q]
      <3>1. CASE q # r
        BY <1>1, <2>2, <3>1, OthersSame DEF Same
      <3>2. CASE q = r
        BY <1>1, <2>2, <3>2, CancelledStep DEF StatusInvs
      <3> QED
        BY <3>1, <3>2
    <2> QED
      BY <1>1, <2>1, <2>2 DEF Next, Step1
  <1>2. TypeOK /\ StatusInvs /\ [Next]_vars =>
          [\A r \in Runs : disk[r].status = "cancelled" =>
             /\ disk'[r].status = "cancelled"
             /\ creates'[r] = creates[r] /\ launches'[r] = launches[r]]_vars
    BY <1>1
  <1> QED
    BY <1>2, TypeCorrect, StatusInvariant, PTL DEF Spec, CancelIsFinal

-----------------------------------------------------------------------------
(* Lost means gone.  This needs Tern to end a worker with its tab.         *)

\* No worker of the run lives, and no tab call may still bring one.
Over(r) == workers[r] = {} /\ pendingTabs[r] = {}

\* What a copy of the record says of a worker is true of the latest one, and
\* a start that was not applied yet is that worker's.
KnownInv(r, m) ==
    /\ m.pid # 0 => m.pid = launches[r] /\ m.pid \in started[r]
    /\ m.block # 0 => m.block = launches[r] /\ m.block \in opened[r]
    /\ started[r] \ m.seen \subseteq {launches[r]}
    /\ NoTabYet(r) => m.pid = 0 /\ m.block = 0 /\ started[r] \subseteq m.seen
    /\ m.status = "lost" => Over(r) /\ started[r] \subseteq m.seen

LostInv(r) ==
    /\ KnownInv(r, disk[r]) /\ KnownInv(r, mem[r])
    /\ tabs[r] \cup started[r] \subseteq opened[r]
    /\ step[r] = "dead" => Over(r)

LostInvs == \A r \in Runs : LostInv(r)

\* The daemon's steps, but for the tab call, only end workers.
Fades(r) ==
    /\ launches'[r] = launches[r] /\ opened'[r] = opened[r]
    /\ started'[r] = started[r]
    /\ pendingTabs'[r] \subseteq pendingTabs[r]
    /\ tabs'[r] \subseteq tabs[r] /\ workers'[r] \subseteq workers[r]

Serves(r) == \/ StartRun(r) \/ ContinueRun(r) \/ ReconcileRun(r) \/ Cancel(r)
             \/ DaemonStep(r)

LEMMA FadesLocal ==
    ASSUME NEW r \in Runs, Local \/ UNCHANGED ternVars
    PROVE  Fades(r)
  BY DEF Local, ternVars, Fades

LEMMA FadesClose ==
    ASSUME TypeOK, NEW r \in Runs, NEW b, Closes(r, b)
    PROVE  Fades(r)
  BY DEF Closes, Fades, TypeOK

LEMMA FadeSteps ==
    ASSUME TypeOK, NEW r \in Runs, Serves(r), ~SendTab(r)
    PROVE  Fades(r)
  <1>1. CASE Local \/ UNCHANGED ternVars
    BY <1>1, FadesLocal
  <1>2. CASE CloseTab(r) \/ CancelCloses(r)
    BY <1>2, FadesClose DEF CloseTab, CancelCloses
  <1>3. CASE Cancel(r)
    BY <1>3 DEF Cancel, TypeOK, Fades
  <1>4. CASE StartRun(r) \/ ContinueRun(r) \/ ReconcileRun(r)
    BY <1>1, <1>4 DEF StartRun, ContinueRun, ReconcileRun
  <1>5. CASE DispatchStep(r)
    BY <1>1, <1>5
       DEF DispatchStep, CheckDispatch, ResolveFails, LookupFails, Dispatch,
           SendCreate, CreateAnswered, CreateUnknown, CreateRejected,
           IssueNotSeen, IssueMismatch, IssueVerified, WriteTaskFile
  <1>6. CASE LaunchStep(r)
    BY <1>1, <1>6
       DEF LaunchStep, CheckLaunch, GateRefuses, SessionFails, OpenTab,
           TabAnswered, TabFails, Interrupted
  <1>7. CASE ReconcileStep(r)
    BY <1>1, <1>2, <1>7
       DEF ReconcileStep, JudgeDead, Supervise, LeaveTab, NoRecovery,
           RecoverySpent, RelaunchLaunch
  <1>8. CASE CancelStep(r)
    BY <1>1, <1>2, <1>8 DEF CancelStep, CancelLeaves, CancelRecords
  <1> QED
    BY <1>3, <1>4, <1>5, <1>6, <1>7, <1>8 DEF DaemonStep, Serves

(* No step but the relaunch goes back to before a tab call.                *)
LEMMA NoTabKeeps ==
    ASSUME TypeOK, NEW r \in Runs, RunInv(r), Serves(r), ~RelaunchLaunch(r)
    PROVE  NoTabYet(r)' => NoTabYet(r)
  <1>1. PhaseStep(r) \/ KeepsPhase(r)
    BY DispatchPhase, LaunchPhase, ReconcilePhase, RequestPhase
       DEF Serves, DaemonStep
  <1>2. CASE KeepsPhase(r)
    BY <1>2 DEF KeepsPhase, NoTabYet
  <1>3. CASE TabAnswered(r)
    <2>1. [mem[r] EXCEPT !.phase = "tab_open", !.block = launches[r]].phase
             = "tab_open"
      BY DEF TypeOK, RunRec
    <2>2. disk'[r].phase = "tab_open" /\ step'[r] = "idle"
      BY <1>3, <2>1, WrittenAt DEF TabAnswered
    <2> QED
      BY <2>2 DEF NoTabYet, Before
  <1>4. CASE StartRun(r) \/ Dispatch(r) \/ IssueVerified(r) \/ OpenTab(r)
    BY <1>4, StepPhase
       DEF NoTabYet, Before, StartRun, Dispatch, IssueVerified, OpenTab,
           StepFits, RunInv, StepInv
  <1> QED
    BY <1>1, <1>2, <1>3, <1>4 DEF PhaseStep

-----------------------------------------------------------------------------
(* A step that writes a copy with the same knowledge keeps the invariant.  *)

Writes(r, m) == SaveRun(r, m) \/ Change(r, m) \/ UNCHANGED <<disk, mem>>

SameWorker(m, n) ==
    /\ m.pid = n.pid /\ m.block = n.block /\ m.seen = n.seen
    /\ m.status = "lost" => n.status = "lost"

LEMMA KnownStays ==
    ASSUME NEW r \in Runs, NEW m, KnownInv(r, m), Fades(r),
           NoTabYet(r)' => NoTabYet(r)
    PROVE  KnownInv(r, m)'
  BY DEF KnownInv, Fades, Over

LEMMA LostWrite ==
    ASSUME TypeOK, NEW r \in Runs, LostInv(r), Fades(r),
           NoTabYet(r)' => NoTabYet(r),
           NEW m, Writes(r, m), KnownInv(r, m),
           NEW s, Goto(r, s), s = "dead" => Over(r)
    PROVE  LostInv(r)'
  <1>1. KnownInv(r, m)'
    BY KnownStays
  <1>2. ASSUME NEW d, KnownInv(r, d)
        PROVE  KnownInv(r, d)'
    BY <1>2, KnownStays
  <1>3. \A d : d = disk[r] \/ d = mem[r] => KnownInv(r, d)'
    <2> SUFFICES ASSUME NEW d, d = disk[r] \/ d = mem[r]
                 PROVE  KnownInv(r, d)'
      OBVIOUS
    <2>1. KnownInv(r, d)
      BY DEF LostInv
    <2> QED
      BY <1>2, <2>1
  <1>4. disk'[r] \in {disk[r], m} /\ mem'[r] \in {mem[r], m}
    BY WrittenAt DEF Writes
  <1>5. KnownInv(r, disk[r])' /\ KnownInv(r, mem[r])'
    BY <1>1, <1>3, <1>4 DEF KnownInv
  <1>6. step'[r] = s
    BY WrittenAt
  <1>7. (tabs[r] \cup started[r] \subseteq opened[r])'
    BY DEF LostInv, Fades
  <1>8. (step[r] = "dead" => Over(r))'
    BY <1>6 DEF Over, Fades
  <1> QED
    BY <1>5, <1>7, <1>8 DEF LostInv

LEMMA LostKeeps ==
    ASSUME TypeOK, NEW r \in Runs, LostInv(r), RunInv(r), Serves(r),
           ~SendTab(r), ~RelaunchLaunch(r), NEW m, NEW s,
           Writes(r, m), SameWorker(m, mem[r]) \/ UNCHANGED <<disk, mem>>,
           Goto(r, s), s # "dead"
    PROVE  LostInv(r)'
  <1>1. Fades(r) /\ (NoTabYet(r)' => NoTabYet(r))
    BY FadeSteps, NoTabKeeps
  <1>2. KnownInv(r, mem[r])
    BY DEF LostInv
  <1>3. CASE SameWorker(m, mem[r])
    <2>1. KnownInv(r, m)
      BY <1>2, <1>3 DEF KnownInv, SameWorker
    <2> QED
      BY <1>1, <2>1, LostWrite
  <1>4. CASE UNCHANGED <<disk, mem>>
    <2>1. Writes(r, mem[r])
      BY <1>4 DEF Writes
    <2> QED
      BY <1>1, <1>2, <2>1, LostWrite
  <1> QED
    BY <1>3, <1>4

LEMMA FailRunLost ==
    ASSUME TypeOK, NEW r \in Runs, LostInv(r), RunInv(r), Serves(r),
           ~SendTab(r), ~RelaunchLaunch(r), NEW s, FailRun(r, s), s # "dead"
    PROVE  LostInv(r)'
  <1>1. SameWorker(Failed(mem[r]), mem[r])
    BY DEF SameWorker, Failed, TypeOK, RunRec
  <1> QED
    BY <1>1, LostKeeps DEF FailRun, Writes

LEMMA DispatchLost ==
    ASSUME TypeOK, NEW r \in Runs, LostInv(r), RunInv(r), DispatchStep(r)
    PROVE  LostInv(r)'
  <1>0. mem[r] \in RunRec
    BY DEF TypeOK
  <1>a. Serves(r) /\ ~SendTab(r) /\ ~RelaunchLaunch(r)
    BY DEF Serves, DaemonStep, DispatchStep, CheckDispatch, ResolveFails,
           LookupFails, Dispatch, SendCreate, CreateAnswered, CreateUnknown,
           CreateRejected, IssueNotSeen, IssueMismatch, IssueVerified,
           WriteTaskFile, SendTab, RelaunchLaunch
  <1>b. SameWorker(mem[r], mem[r])
    BY DEF SameWorker
  <1>1. CASE \/ LookupFails(r) \/ SendCreate(r) \/ WriteTaskFile(r)
             \/ CreateUnknown(r) \/ IssueNotSeen(r)
    BY <1>1, <1>a, <1>b, LostKeeps
       DEF LookupFails, SendCreate, WriteTaskFile, CreateUnknown, IssueNotSeen,
           Writes
  <1>2. CASE CheckDispatch(r) \/ CreateRejected(r) \/ IssueMismatch(r)
    BY <1>2, <1>a, <1>b, LostKeeps, FailRunLost
       DEF CheckDispatch, CreateRejected, IssueMismatch, Writes
  <1>3. CASE ResolveFails(r)
    <2> DEFINE m == [mem[r] EXCEPT !.attempts = @ + 1]
               n == IF m.attempts >= MaxIntentAttempts THEN Failed(m) ELSE m
    <2>1. SameWorker(m, mem[r]) /\ m \in RunRec
      BY <1>0 DEF RunRec, SameWorker
    <2>2. SameWorker(n, mem[r])
      BY <2>1 DEF Failed, RunRec, SameWorker
    <2>3. SaveRun(r, n) /\ Goto(r, "idle")
      BY <1>3 DEF ResolveFails
    <2> HIDE DEF n
    <2> QED
      BY <1>a, <2>2, <2>3, LostKeeps DEF Writes
  <1>4. CASE Dispatch(r)
    <2> DEFINE n == [mem[r] EXCEPT !.phase = "create_dispatched",
                                   !.hoja = (issues[r] # {})]
    <2>1. SameWorker(n, mem[r])
      BY <1>0 DEF RunRec, SameWorker
    <2>2. SaveRun(r, n) /\ \E s \in {"reconcile", "create"} : Goto(r, s)
      BY <1>4 DEF Dispatch
    <2> HIDE DEF n
    <2> QED
      BY <1>a, <2>1, <2>2, LostKeeps DEF Writes
  <1>5. CASE CreateAnswered(r)
    <2>1. SameWorker([mem[r] EXCEPT !.hoja = TRUE], mem[r])
      BY <1>0 DEF RunRec, SameWorker
    <2> QED
      BY <1>5, <1>a, <2>1, LostKeeps DEF CreateAnswered, Writes
  <1>6. CASE IssueVerified(r)
    <2> DEFINE n == [mem[r] EXCEPT !.hoja = TRUE, !.phase = "issue_created"]
    <2>1. SameWorker(n, mem[r])
      BY <1>0 DEF RunRec, SameWorker
    <2>2. SaveRun(r, n) /\ Goto(r, "task")
      BY <1>6 DEF IssueVerified
    <2> HIDE DEF n
    <2> QED
      BY <1>a, <2>1, <2>2, LostKeeps DEF Writes
  <1> QED
    BY <1>1, <1>2, <1>3, <1>4, <1>5, <1>6 DEF DispatchStep

(* locateTab finds the block of the latest call or none: the record then   *)
(* names an opened tab.                                                    *)
LEMMA LocatedKnown ==
    ASSUME NEW r \in Runs, NEW n \in RunRec, NEW m \in Located(r, n),
           KnownInv(r, n), OpenInv(r), tabs[r] \subseteq opened[r]
    PROVE  KnownInv(r, m)
  BY DEF Located, KnownInv, OpenInv, RunRec

LEMMA LaunchLost ==
    ASSUME TypeOK, NEW r \in Runs, LostInv(r), RunInv(r), OpenInv(r),
           LaunchStep(r), ~SendTab(r)
    PROVE  LostInv(r)'
  <1>0. mem[r] \in RunRec
    BY DEF TypeOK
  <1>a. Serves(r) /\ ~RelaunchLaunch(r)
    BY DEF Serves, DaemonStep, LaunchStep, CheckLaunch, GateRefuses,
           SessionFails, OpenTab, SendTab, TabAnswered, TabFails, Interrupted,
           RelaunchLaunch
  <1>b. SameWorker(mem[r], mem[r])
    BY DEF SameWorker
  <1>c. Fades(r) /\ (NoTabYet(r)' => NoTabYet(r))
    BY <1>a, FadeSteps, NoTabKeeps
  <1>1. CASE CheckLaunch(r) \/ GateRefuses(r) \/ SessionFails(r)
    BY <1>1, <1>a, <1>b, LostKeeps, FailRunLost
       DEF CheckLaunch, GateRefuses, SessionFails, Writes
  <1>2. CASE OpenTab(r)
    <2>1. SameWorker([mem[r] EXCEPT !.phase = "tab_opening"], mem[r])
      BY <1>0 DEF RunRec, SameWorker
    <2> QED
      BY <1>2, <1>a, <2>1, LostKeeps DEF OpenTab, Writes
  <1>3. CASE TabAnswered(r)
    <2> DEFINE n == [mem[r] EXCEPT !.phase = "tab_open", !.block = launches[r]]
    <2>1. /\ n.pid = mem[r].pid /\ n.seen = mem[r].seen
          /\ n.status = mem[r].status /\ n.block = launches[r]
      BY <1>0 DEF RunRec
    <2>2. /\ SaveRun(r, n) /\ Goto(r, "idle") /\ launches[r] \in opened[r]
          /\ step[r] = "tabwait"
      BY <1>3 DEF TabAnswered
    <2>3. ~NoTabYet(r)
      BY <2>2, StepPhase DEF NoTabYet, Before, StepFits
    <2>4. KnownInv(r, mem[r])
      BY DEF LostInv
    <2> HIDE DEF n
    <2>5. KnownInv(r, n)
      BY <2>1, <2>2, <2>3, <2>4 DEF KnownInv
    <2> QED
      BY <1>c, <2>2, <2>5, LostWrite DEF Writes
  <1>4. CASE TabFails(r)
    <2>1. PICK m \in Located(r, Failed(mem[r])) : SaveRun(r, m)
      BY <1>4 DEF TabFails
    <2>2. Failed(mem[r]) \in RunRec /\ SameWorker(Failed(mem[r]), mem[r])
      BY <1>0 DEF Failed, RunRec, Status, SameWorker
    <2>3. KnownInv(r, Failed(mem[r]))
      BY <2>2 DEF LostInv, KnownInv, SameWorker
    <2>4. KnownInv(r, m)
      BY <2>1, <2>2, <2>3, LocatedKnown DEF LostInv
    <2> QED
      BY <1>4, <1>c, <2>1, <2>4, LostWrite DEF TabFails, Writes
  <1>5. CASE Interrupted(r)
    <2> DEFINE n == [mem[r] EXCEPT !.status = "failed"]
    <2>1. PICK m \in Located(r, n) : SaveRun(r, m)
      BY <1>5 DEF Interrupted, AfterInterrupt
    <2>2. n \in RunRec /\ SameWorker(n, mem[r])
      BY <1>0 DEF RunRec, Status, SameWorker
    <2>3. KnownInv(r, n)
      BY <2>2 DEF LostInv, KnownInv, SameWorker
    <2>4. KnownInv(r, m)
      BY <2>1, <2>2, <2>3, LocatedKnown DEF LostInv
    <2> QED
      BY <1>5, <1>c, <2>1, <2>4, LostWrite DEF Interrupted, Writes
  <1> QED
    BY <1>1, <1>2, <1>3, <1>4, <1>5 DEF LaunchStep

LEMMA SendLost ==
    ASSUME TypeOK, NEW r \in Runs, LostInv(r), RunInv(r), OpenInv(r),
           StatusInv(r), SendTab(r)
    PROVE  LostInv(r)'
  <1>1. /\ launches'[r] = launches[r] + 1
        /\ opened'[r] = opened[r] /\ tabs'[r] = tabs[r]
        /\ started'[r] = started[r] /\ mem'[r] = mem[r]
        /\ disk'[r] = disk[r] /\ step'[r] = "tabwait"
    BY DEF SendTab, TypeOK, Goto
  <1>2. NoTabYet(r) /\ mem[r].status # "lost" /\ disk[r].status # "lost"
    BY DEF SendTab, NoTabYet, StatusInv, Judging, Active, Terminal
  <1>3. KnownInv(r, mem[r])' /\ KnownInv(r, disk[r])'
    <2>1. ~NoTabYet(r)'
      BY <1>1, StepPhase DEF NoTabYet, Before, SendTab, StepFits
    <2> QED
      BY <1>1, <1>2, <2>1 DEF LostInv, KnownInv
  <1> QED
    BY <1>1, <1>3 DEF LostInv

(* After its events are applied, a record has seen every start.            *)
LEMMA AppliedKnown ==
    ASSUME TypeOK, NEW r \in Runs, NEW n \in RunRec, NEW m \in AfterEvents(r, n),
           KnownInv(r, n)
    PROVE  KnownInv(r, m) /\ started[r] \subseteq m.seen
  <1>1. CASE m = n
    <2>1. started[r] \subseteq n.seen
      <3>1. CASE started[r] \ n.seen = {}
        BY <3>1
      <3>2. CASE started[r] \ n.seen # {}
        <4>1. PICK p \in started[r] \ n.seen :
                  m = ApplyStarted(n, started[r] \ n.seen, p)
          BY <3>2 DEF AfterEvents
        <4>2. m.seen = n.seen \cup (started[r] \ n.seen)
          BY <4>1 DEF ApplyStarted, RunRec
        <4> QED
          BY <1>1, <4>2
      <3> QED
        BY <3>1, <3>2
    <2> QED
      BY <1>1, <2>1
  <1>2. CASE m # n
    <2> DEFINE new == started[r] \ n.seen
    <2>1. PICK p \in new : m = ApplyStarted(n, new, p)
      BY <1>2 DEF AfterEvents
    <2>2. /\ m.pid = p /\ m.seen = n.seen \cup new /\ m.block = n.block
          /\ m.status = IF n.status \in Terminal THEN n.status ELSE "running"
      BY <2>1 DEF ApplyStarted, RunRec, Terminal
    <2>3. p = launches[r] /\ ~NoTabYet(r) /\ n.status # "lost"
      BY <2>1 DEF KnownInv
    <2> QED
      BY <2>1, <2>2, <2>3 DEF KnownInv
  <1> QED
    BY <1>1, <1>2

(* runLiveness is right: what it calls dead has no worker and gets none.   *)
LEMMA DeadIsOver ==
    ASSUME TypeOK, NEW r \in Runs, NEW m, KnownInv(r, m), OpenInv(r),
           tabs[r] \cup started[r] \subseteq opened[r], Dead(r, m)
    PROVE  Over(r)
  BY DEF KnownInv, OpenInv, Dead, Over

LEMMA ReconcileLost ==
    ASSUME TypeOK, NEW r \in Runs, LostInv(r), RunInv(r), OpenInv(r),
           ReconcileRun(r) \/ ReconcileStep(r)
    PROVE  LostInv(r)'
  <1>0. mem[r] \in RunRec /\ disk[r] \in RunRec
    BY DEF TypeOK
  <1>a. Serves(r)
    BY DEF Serves, DaemonStep
  <1>b. ~SendTab(r)
    BY DEF ReconcileRun, ReconcileStep, JudgeDead, Supervise, CloseTab,
           LeaveTab, NoRecovery, RecoverySpent, RelaunchLaunch, SendTab, Idle
  <1>c. ~RelaunchLaunch(r) => Fades(r) /\ (NoTabYet(r)' => NoTabYet(r))
    BY <1>a, <1>b, FadeSteps, NoTabKeeps
  <1>1. CASE ReconcileRun(r)
    <2>1. PICK m \in AfterEvents(r, disk[r]) :
              /\ Change(r, m)
              /\ \/ Dead(r, m) /\ Goto(r, "dead")
                 \/ Goto(r, "supervise")
      BY <1>1 DEF ReconcileRun
    <2>2. KnownInv(r, m)
      BY <1>0, <2>1, AppliedKnown DEF LostInv
    <2>3. Dead(r, m) => Over(r)
      BY <2>2, DeadIsOver DEF LostInv
    <2>4. ~RelaunchLaunch(r)
      BY <1>1 DEF ReconcileRun, RelaunchLaunch, Idle
    <2> QED
      BY <1>c, <2>1, <2>2, <2>3, <2>4, LostWrite DEF Writes
  <1>2. CASE JudgeDead(r)
    <2>1. PICK m \in AfterEvents(r, mem[r]) :
              Change(r, [m EXCEPT !.status = Verdict(m)])
      BY <1>2 DEF JudgeDead
    <2> DEFINE n == [m EXCEPT !.status = Verdict(m)]
    <2>2. m \in RunRec
      BY <1>0, <2>1, AfterEventsType DEF TypeOK
    <2>3. n.pid = m.pid /\ n.block = m.block /\ n.seen = m.seen
      BY <2>2 DEF RunRec
    <2>4. KnownInv(r, m) /\ started[r] \subseteq m.seen
      BY <1>0, <2>1, AppliedKnown DEF LostInv
    <2>5. Over(r) /\ Goto(r, "supervise") /\ ~RelaunchLaunch(r)
      BY <1>2 DEF JudgeDead, LostInv, RelaunchLaunch
    <2> HIDE DEF n
    <2>6. KnownInv(r, n)
      BY <2>3, <2>4, <2>5 DEF KnownInv
    <2>7. Change(r, n)
      BY <2>1 DEF n
    <2> QED
      BY <1>c, <2>5, <2>6, <2>7, LostWrite DEF Writes
  <1>3. CASE RelaunchLaunch(r)
    <2> DEFINE n == Relaunched(mem[r])
    <2>1. SaveRun(r, n) /\ Goto(r, "idle") /\ UNCHANGED ternVars
      BY <1>3 DEF RelaunchLaunch
    <2>2. /\ n.pid = 0 /\ n.block = 0 /\ n.seen = mem[r].seen
          /\ n.status = "launching"
      BY <1>0 DEF Relaunched, RunRec
    <2>3. started[r] \subseteq mem[r].seen
      <3>1. mem[r].status = "lost" \/ mem[r].phase = "issue_created"
        BY <1>3 DEF RelaunchLaunch, Recoverable
      <3>2. mem[r].phase = disk[r].phase
        BY StepPhase
      <3>3. mem[r].status = "lost" \/ NoTabYet(r)
        BY <3>1, <3>2 DEF NoTabYet, Before
      <3> QED
        BY <3>3 DEF LostInv, KnownInv
    <2>4. disk'[r] = n /\ mem'[r] = n /\ step'[r] = "idle"
      BY <2>1, WrittenAt
    <2> HIDE DEF n
    <2>5. KnownInv(r, disk[r])' /\ KnownInv(r, mem[r])'
      BY <2>1, <2>2, <2>3, <2>4 DEF KnownInv, ternVars
    <2> QED
      BY <2>1, <2>4, <2>5 DEF LostInv, ternVars
  <1>d. CASE ~RelaunchLaunch(r)
    <2>1. CASE Supervise(r) \/ LeaveTab(r) \/ NoRecovery(r)
      <3>1. SameWorker(mem[r], mem[r])
        BY DEF SameWorker
      <3> QED
        BY <1>a, <1>b, <1>d, <2>1, <3>1, LostKeeps, FailRunLost
           DEF Supervise, LeaveTab, NoRecovery, Writes
    <2>2. CASE CloseTab(r)
      <3>1. SameWorker([mem[r] EXCEPT !.tabClosed = TRUE], mem[r])
        BY <1>0 DEF SameWorker, RunRec
      <3> QED
        BY <1>a, <1>b, <1>d, <2>2, <3>1, LostKeeps DEF CloseTab, Writes
    <2>3. CASE RecoverySpent(r)
      <3>1. SameWorker([mem[r] EXCEPT !.relaunchSpent = TRUE], mem[r])
        BY <1>0 DEF SameWorker, RunRec
      <3> QED
        BY <1>a, <1>b, <1>d, <2>3, <3>1, LostKeeps DEF RecoverySpent, Writes
    <2> QED
      BY <1>1, <1>2, <1>d, <2>1, <2>2, <2>3 DEF ReconcileStep
  <1> QED
    BY <1>3, <1>d

LEMMA RequestLost ==
    ASSUME TypeOK, NEW r \in Runs, LostInv(r), RunInv(r), OpenInv(r),
           StartRun(r) \/ ContinueRun(r) \/ Cancel(r) \/ CancelStep(r)
    PROVE  LostInv(r)'
  <1>0. mem[r] \in RunRec
    BY DEF TypeOK
  <1>a. Serves(r) /\ ~SendTab(r) /\ ~RelaunchLaunch(r)
    BY DEF Serves, DaemonStep, StartRun, ContinueRun, Cancel, CancelStep,
           CancelCloses, CancelLeaves, CancelRecords, Idle, SendTab,
           RelaunchLaunch
  <1>1. CASE StartRun(r)
    <2>1. PICK d \in BOOLEAN :
              SaveRun(r, [NewRun EXCEPT !.status = "launching",
                                        !.deadline = d])
      BY <1>1 DEF StartRun
    <2> DEFINE n == [NewRun EXCEPT !.status = "launching", !.deadline = d]
    <2>2. n.pid = 0 /\ n.block = 0 /\ n.seen = {} /\ n.status = "launching"
      BY DEF NewRun
    <2>3. disk[r].status = "absent" /\ Goto(r, "dispatch")
      BY <1>1 DEF StartRun
    <2>4. disk[r].phase = "intent" /\ disk[r].relaunchCount = 0
      BY <2>3 DEF RunInv, StepInv, TabInv
    <2>5. started[r] \subseteq {}
      <3>1. launches[r] = 0
        BY <2>4 DEF TypeOK, RunInv, TabInv, NoTabYet, Before
      <3> QED
        BY <3>1 DEF LostInv, OpenInv
    <2> HIDE DEF n
    <2>6. KnownInv(r, n)
      BY <2>2, <2>5 DEF KnownInv
    <2>7. SaveRun(r, n)
      BY <2>1 DEF n
    <2>8. Fades(r) /\ (NoTabYet(r)' => NoTabYet(r))
      BY <1>a, FadeSteps, NoTabKeeps
    <2> QED
      BY <2>3, <2>6, <2>7, <2>8, LostWrite DEF Writes
  <1>2. CASE ContinueRun(r) \/ Cancel(r) \/ CancelLeaves(r)
    <2>1. PICK s : Goto(r, s) /\ s # "dead"
      <3>1. disk[r].phase \in Phase
        BY DEF TypeOK, RunRec
      <3> QED
        BY <1>2, <3>1 DEF ContinueRun, Cancel, CancelLeaves, Phase
    <2>2. UNCHANGED <<disk, mem>>
      BY <1>2 DEF ContinueRun, Cancel, CancelLeaves
    <2> QED
      BY <1>a, <2>1, <2>2, LostKeeps DEF Writes
  <1>3. CASE CancelCloses(r)
    <2>1. SameWorker([mem[r] EXCEPT !.tabClosed = TRUE], mem[r])
      BY <1>0 DEF SameWorker, RunRec
    <2> QED
      BY <1>3, <1>a, <2>1, LostKeeps DEF CancelCloses, Writes
  <1>4. CASE CancelRecords(r)
    <2>1. PICK v \in BOOLEAN :
              SaveRun(r, [mem[r] EXCEPT !.status = "cancelled",
                                        !.confirmed = v /\ mem[r].hoja])
      BY <1>4 DEF CancelRecords
    <2>2. SameWorker([mem[r] EXCEPT !.status = "cancelled",
                        !.confirmed = v /\ mem[r].hoja], mem[r])
      BY <1>0 DEF SameWorker, RunRec
    <2> QED
      BY <1>4, <1>a, <2>1, <2>2, LostKeeps DEF CancelRecords, Writes
  <1> QED
    BY <1>1, <1>2, <1>3, <1>4 DEF CancelStep

LEMMA EnvLost ==
    ASSUME TypeOK, NEW r \in Runs, LostInv(r), OpenInv(r), EnvStep(r)
    PROVE  LostInv(r)'
  <1>1. disk' = disk /\ mem' = mem /\ step' = step /\ launches' = launches
    BY DEF EnvStep, CommitCreate, DropCreate, TabOpens, TabNeverOpens,
           WorkerStarts, WorkerDies, TabClosedByHand, Closes, Expire, Age, Env,
           daemonVars, ternVars
  <1>2. NoTabYet(r)' <=> NoTabYet(r)
    BY <1>1 DEF NoTabYet
  <1>f. ASSUME Fades(r)
        PROVE  LostInv(r)'
    <2>1. KnownInv(r, disk[r])' /\ KnownInv(r, mem[r])'
      BY <1>1, <1>2, <1>f DEF LostInv, KnownInv, Fades, Over
    <2> QED
      BY <1>1, <1>f, <2>1 DEF LostInv, Fades, Over
  <1>3. CASE TabOpens(r)
    <2>1. PICK i \in pendingTabs[r] :
              /\ opened'[r] = opened[r] \cup {i}
              /\ tabs'[r] = tabs[r] \cup {i}
              /\ started'[r] = started[r]
      BY <1>3 DEF TabOpens, TypeOK
    <2>2. ~Over(r) /\ ~NoTabYet(r)
      BY <2>1 DEF Over, OpenInv
    <2>3. KnownInv(r, disk[r])' /\ KnownInv(r, mem[r])'
      BY <1>1, <1>2, <2>1, <2>2 DEF LostInv, KnownInv
    <2> QED
      BY <1>1, <2>1, <2>2, <2>3 DEF LostInv
  <1>4. CASE WorkerStarts(r)
    <2>1. PICK i \in workers[r] : started'[r] = started[r] \cup {i}
      BY <1>4 DEF WorkerStarts, TypeOK
    <2>2. i = launches[r] /\ ~Over(r) /\ ~NoTabYet(r) /\ i \in opened[r]
      BY <2>1 DEF Over, OpenInv, LostInv
    <2>3. opened' = opened /\ tabs' = tabs
      BY <1>4 DEF WorkerStarts
    <2>4. KnownInv(r, disk[r])' /\ KnownInv(r, mem[r])'
      BY <1>1, <1>2, <2>1, <2>2, <2>3 DEF LostInv, KnownInv
    <2> QED
      BY <1>1, <2>1, <2>2, <2>3, <2>4 DEF LostInv
  <1>5. CASE TabClosedByHand(r)
    BY <1>5, <1>f, FadesClose DEF TabClosedByHand
  <1>6. CASE TabNeverOpens(r) \/ WorkerDies(r)
    <2>1. Fades(r)
      BY <1>6 DEF TabNeverOpens, WorkerDies, Fades, TypeOK
    <2> QED
      BY <1>f, <2>1
  <1>7. CASE UNCHANGED ternVars
    BY <1>7, <1>f, FadesLocal
  <1> QED
    BY <1>3, <1>4, <1>5, <1>6, <1>7
       DEF EnvStep, CommitCreate, DropCreate, Expire, Age

LEMMA NextLost ==
    ASSUME TypeOK, LaunchInv, OpenInvs, StatusInvs, LostInvs, [Next]_vars
    PROVE  LostInvs'
  <1> SUFFICES ASSUME NEW q \in Runs
               PROVE  LostInv(q)'
    BY DEF LostInvs
  <1>0. RunInv(q) /\ OpenInv(q) /\ StatusInv(q) /\ LostInv(q)
    BY DEF LaunchInv, OpenInvs, StatusInvs, LostInvs
  <1>s. ASSUME Same(q)
        PROVE  LostInv(q)'
    <2>1. KnownInv(q, disk[q])' /\ KnownInv(q, mem[q])'
      BY <1>0, <1>s DEF Same, LostInv, KnownInv, NoTabYet, Over
    <2> QED
      BY <1>0, <1>s, <2>1 DEF Same, LostInv, Over
  <1>1. CASE Crash
    <2>1. NoTabYet(q)' => NoTabYet(q)
      BY <1>1 DEF Crash, NoTabYet
    <2>2. /\ disk' = disk /\ mem'[q] = disk[q] /\ step'[q] = "idle"
          /\ UNCHANGED ternVars
      BY <1>1 DEF Crash
    <2>3. KnownInv(q, disk[q])' /\ KnownInv(q, mem[q])'
      BY <1>0, <2>1, <2>2 DEF LostInv, KnownInv, Over, ternVars
    <2> QED
      BY <1>0, <2>2, <2>3 DEF LostInv, ternVars
  <1>2. CASE UNCHANGED vars
    BY <1>2, <1>s DEF Same, vars, daemonVars, hojaVars, ternVars
  <1>3. ASSUME NEW r \in Runs, Step1(r)
        PROVE  LostInv(q)'
    <2>1. CASE q # r
      BY <1>3, <1>s, <2>1, OthersSame
    <2>2. CASE q = r
      BY <1>0, <1>3, <2>2, DispatchLost, LaunchLost, SendLost, ReconcileLost,
         RequestLost, EnvLost DEF Step1, DaemonStep
    <2> QED
      BY <2>1, <2>2
  <1> QED
    BY <1>1, <1>2, <1>3 DEF Next, Step1

LEMMA LostInvariant ==
    ASSUME ~OrphanWorkers
    PROVE  Spec => []LostInvs
  <1>1. Init => LostInvs
    <2> SUFFICES ASSUME Init, NEW r \in Runs
                 PROVE  LostInv(r)
      BY DEF LostInvs
    <2>1. /\ disk[r] = NewRun /\ mem[r] = NewRun /\ step[r] = "idle"
          /\ launches[r] = 0 /\ pendingTabs[r] = {} /\ opened[r] = {}
          /\ tabs[r] = {} /\ workers[r] = {} /\ started[r] = {}
      BY DEF Init
    <2>2. KnownInv(r, NewRun)
      BY <2>1 DEF KnownInv, NewRun
    <2> QED
      BY <2>1, <2>2 DEF LostInv, NewRun
  <1>2. /\ TypeOK /\ LaunchInv /\ OpenInvs /\ StatusInvs /\ LostInvs
        /\ [Next]_vars
        => LostInvs'
    BY NextLost
  <1> QED
    BY <1>1, <1>2, TypeCorrect, LaunchInvariant, StatusInvariant, OpenInvariant,
       PTL DEF Spec

(* The verdict "lost" of reconcileRun is true and stays true: the run has  *)
(* no live worker, and no call of its daemon will bring one.  (A worker    *)
(* that could outlive its tab would escape the verdict by the tab.)        *)
THEOREM LostIsGone ==
    ASSUME ~OrphanWorkers
    PROVE  Spec => []LostMeansGone
  <1>1. LostInvs => LostMeansGone
    BY DEF LostInvs, LostInv, KnownInv, Over, LostMeansGone
  <1> QED
    BY <1>1, LostInvariant, PTL

-----------------------------------------------------------------------------
(* What only the death of a daemon brings about.                           *)

\* While no daemon died, the task file is written right after the phase that
\* allows a tab call was saved, and before the daemon does anything else.
TaskInv(r) ==
    crashes = 0 /\ ~taskFile[r] =>
        /\ launches[r] = 0
        /\ step[r] = "task" \/ disk[r].phase \in {"intent", "create_dispatched"}

TaskInvs == \A r \in Runs : TaskInv(r)

(* A task file stays; a tab call is made by the step of that name.         *)
LEMMA TaskFiles ==
    ASSUME TypeOK, NEW r \in Runs, Step1(r)
    PROVE  /\ crashes' = crashes
           /\ taskFile' = taskFile \/ WriteTaskFile(r)
           /\ launches' = launches \/ SendTab(r)
  <1> USE DEF Local, Closes, Env, hojaVars, ternVars
  <1>1. CASE StartRun(r) \/ ContinueRun(r) \/ ReconcileRun(r) \/ Cancel(r)
    BY <1>1 DEF StartRun, ContinueRun, ReconcileRun, Cancel
  <1>2. CASE DispatchStep(r)
    BY <1>2 DEF DispatchStep, CheckDispatch, ResolveFails, LookupFails,
                Dispatch, SendCreate, CreateAnswered, CreateUnknown,
                CreateRejected, IssueNotSeen, IssueMismatch, IssueVerified,
                WriteTaskFile
  <1>3. CASE LaunchStep(r)
    BY <1>3 DEF LaunchStep, CheckLaunch, GateRefuses, SessionFails, OpenTab,
                SendTab, TabAnswered, TabFails, Interrupted
  <1>4. CASE ReconcileStep(r)
    BY <1>4 DEF ReconcileStep, JudgeDead, Supervise, CloseTab, LeaveTab,
                NoRecovery, RecoverySpent, RelaunchLaunch
  <1>5. CASE CancelStep(r)
    BY <1>5 DEF CancelStep, CancelCloses, CancelLeaves, CancelRecords
  <1>6. CASE EnvStep(r)
    BY <1>6 DEF EnvStep, CommitCreate, DropCreate, TabOpens, TabNeverOpens,
                WorkerStarts, WorkerDies, TabClosedByHand, Expire, Age
  <1> QED
    BY <1>1, <1>2, <1>3, <1>4, <1>5, <1>6 DEF Step1, DaemonStep

(* A handler that verified the issue goes on to write the task.            *)
LEMMA TaskNext ==
    ASSUME NEW r \in Runs, Serves(r), ~WriteTaskFile(r)
    PROVE  step[r] # "task"
  <1>1. CASE StartRun(r) \/ ContinueRun(r) \/ ReconcileRun(r) \/ Cancel(r)
    BY <1>1 DEF StartRun, ContinueRun, ReconcileRun, Cancel, Idle
  <1>2. CASE DispatchStep(r)
    BY <1>2 DEF DispatchStep, CheckDispatch, ResolveFails, LookupFails,
                Dispatch, SendCreate, CreateAnswered, CreateUnknown,
                CreateRejected, IssueNotSeen, IssueMismatch, IssueVerified
  <1>3. CASE LaunchStep(r) \/ ReconcileStep(r) \/ CancelStep(r)
    BY <1>3
       DEF LaunchStep, CheckLaunch, GateRefuses, SessionFails, OpenTab, SendTab,
           TabAnswered, TabFails, Interrupted, ReconcileStep, JudgeDead, Supervise,
           CloseTab, LeaveTab, NoRecovery, RecoverySpent, RelaunchLaunch,
           CancelStep, CancelCloses, CancelLeaves, CancelRecords
  <1> QED
    BY <1>1, <1>2, <1>3 DEF Serves, DaemonStep

LEMMA TaskStep ==
    ASSUME TypeOK, LaunchInv, TaskInvs, [Next]_vars
    PROVE  TaskInvs'
  <1> SUFFICES ASSUME NEW q \in Runs
               PROVE  TaskInv(q)'
    BY DEF TaskInvs
  <1>0. RunInv(q) /\ TaskInv(q)
    BY DEF LaunchInv, TaskInvs
  <1>1. CASE Crash
    BY <1>1 DEF Crash, TaskInv, TypeOK
  <1>2. CASE UNCHANGED vars
    BY <1>0, <1>2 DEF TaskInv, vars, daemonVars, hojaVars, ternVars
  <1>3. ASSUME NEW r \in Runs, Step1(r)
        PROVE  TaskInv(q)'
    <2>1. /\ crashes' = crashes
          /\ taskFile' = taskFile \/ WriteTaskFile(r)
          /\ launches' = launches \/ SendTab(r)
      BY <1>3, TaskFiles
    <2>2. CASE q # r
      <3>1. Same(q) /\ taskFile'[q] = taskFile[q]
        BY <1>3, <2>1, <2>2, OthersSame DEF WriteTaskFile, TypeOK
      <3> QED
        BY <1>0, <2>1, <3>1 DEF Same, TaskInv
    <2>3. CASE q = r
      <3> SUFFICES ASSUME crashes = 0, ~taskFile'[q]
                   PROVE  /\ launches'[q] = 0
                          /\ \/ step'[q] = "task"
                             \/ disk'[q].phase \in {"intent", "create_dispatched"}
        BY <2>1 DEF TaskInv
      <3>1. taskFile' = taskFile
        BY <2>1, <2>3 DEF WriteTaskFile, TypeOK
      <3>2. /\ launches[q] = 0
            /\ step[q] = "task" \/ disk[q].phase \in {"intent", "create_dispatched"}
        BY <1>0, <3>1 DEF TaskInv
      <3>3. StepFits(step[q], disk[q].phase) /\ mem[q].phase = disk[q].phase
        BY <1>0, StepPhase
      <3>4. ~SendTab(q) /\ ~OpenTab(q) /\ ~TabAnswered(q) /\ ~RelaunchLaunch(q)
        BY <3>2, <3>3
           DEF SendTab, OpenTab, TabAnswered, RelaunchLaunch, Recoverable, StepFits
      <3>5. CASE EnvStep(q)
        BY <2>1, <2>3, <3>2, <3>4, <3>5
           DEF EnvStep, CommitCreate, DropCreate, TabOpens, TabNeverOpens, WorkerStarts,
               WorkerDies, TabClosedByHand, Expire, Age, Env, daemonVars
      <3>6. CASE Serves(q)
        <4>1. step[q] # "task"
          <5>1. ~WriteTaskFile(q)
            BY <3>1, <3>2, <3>6 DEF WriteTaskFile, TypeOK
          <5> QED
            BY <1>0, <3>6, <5>1, TaskNext
        <4>2. PhaseStep(q) \/ KeepsPhase(q)
          BY <1>0, <3>6, DispatchPhase, LaunchPhase, ReconcilePhase, RequestPhase
             DEF DaemonStep, Serves
        <4>3. CASE StartRun(q)
          <5>1. PICK d \in BOOLEAN :
                    SaveRun(q, [NewRun EXCEPT !.status = "launching", !.deadline = d])
            BY <4>3 DEF StartRun
          <5> DEFINE n == [NewRun EXCEPT !.status = "launching", !.deadline = d]
          <5>2. n.phase = "intent"
            BY DEF NewRun
          <5>3. SaveRun(q, n)
            BY <5>1
          <5>4. Goto(q, "dispatch")
            BY <4>3 DEF StartRun
          <5> HIDE DEF n
          <5>5. disk'[q].phase = "intent"
            BY <5>2, <5>3, <5>4, WrittenAt
          <5> QED
            BY <2>1, <2>3, <3>2, <3>4, <5>5
        <4>4. CASE Dispatch(q)
          <5> DEFINE n == [mem[q] EXCEPT !.phase = "create_dispatched",
                                         !.hoja = (issues[q] # {})]
          <5>1. n.phase = "create_dispatched"
            <6>1. mem[q] \in RunRec
              BY DEF TypeOK
            <6> QED
              BY <6>1 DEF RunRec
          <5>2. SaveRun(q, n) /\ \E s \in {"reconcile", "create"} : Goto(q, s)
            BY <4>4 DEF Dispatch
          <5> HIDE DEF n
          <5>3. disk'[q].phase = "create_dispatched"
            BY <5>1, <5>2, WrittenAt
          <5> QED
            BY <2>1, <2>3, <3>2, <3>4, <5>3
        <4>5. CASE IssueVerified(q)
          BY <2>1, <2>3, <3>2, <3>4, <4>5, WrittenAt DEF IssueVerified
        <4> QED
          BY <2>1, <2>3, <3>2, <3>4, <4>1, <4>2, <4>3, <4>4, <4>5
             DEF PhaseStep, KeepsPhase
      <3> QED
        BY <1>3, <2>3, <3>5, <3>6 DEF Step1, Serves
    <2> QED
      BY <2>2, <2>3
  <1> QED
    BY <1>1, <1>2, <1>3 DEF Next, Step1

(* While no daemon died, no worker is given a tab before its task is       *)
(* written (reconcileCreate).                                              *)
THEOREM TaskFirst == Spec => [](crashes = 0 => TaskBeforeTab)
  <1>1. Init => TaskInvs
    BY DEF Init, TaskInvs, TaskInv, NewRun
  <1>2. TypeOK /\ LaunchInv /\ TaskInvs /\ [Next]_vars => TaskInvs'
    BY TaskStep
  <1>3. TaskInvs => (crashes = 0 => TaskBeforeTab)
    BY DEF TaskInvs, TaskInv, TaskBeforeTab
  <1> QED
    BY <1>1, <1>2, <1>3, TypeCorrect, LaunchInvariant, PTL DEF Spec
-----------------------------------------------------------------------------
(* What a verified cancel can rely on while no daemon died.  This needs    *)
(* Tern to end a worker with its tab.                                      *)

\* A record whose tab opened names it, and a tab call that nobody waits for any
\* more has failed its run: only a daemon that dies leaves one unrecorded.
ConfirmInv(r) ==
    /\ disk[r].phase = "tab_open" => disk[r].block # 0 /\ mem[r].block # 0
    /\ mem[r].confirmed => disk[r].confirmed
    /\ crashes = 0 /\ disk[r].phase = "tab_opening" =>
          step[r] \in {"tab", "tabwait"} \/ disk[r].status \in Terminal

ConfirmInvs == \A r \in Runs : ConfirmInv(r)

\* What the steps other than the recording of a cancel do.
Unconfirmed(r) == ConfirmInv(r)' /\ (disk'[r].confirmed => disk[r].confirmed)

\* What a copy may say when it is saved.
FitsToSave(m, s) ==
    /\ m.phase = "tab_open" => m.block # 0
    /\ crashes' = 0 /\ m.phase = "tab_opening" => s = "tab" \/ m.status \in Terminal

LEMMA ConfirmSave ==
    ASSUME TypeOK, NEW r \in Runs, ConfirmInv(r), NEW m, NEW s, SaveRun(r, m),
           Goto(r, s), FitsToSave(m, s), m.confirmed => mem[r].confirmed
    PROVE  Unconfirmed(r)
  <1>1. disk'[r] = m /\ mem'[r] = m /\ step'[r] = s
    BY WrittenAt
  <1> QED
    BY <1>1 DEF Unconfirmed, ConfirmInv, FitsToSave

\* A step that changes the copy only, or only moves on, outside a tab call.
LEMMA ConfirmMove ==
    ASSUME TypeOK, NEW r \in Runs, ConfirmInv(r), NEW m, NEW s,
           \/ Change(r, m) /\ m.block \in {mem[r].block, disk[r].block}
              /\ m.confirmed \in {mem[r].confirmed, disk[r].confirmed}
           \/ UNCHANGED <<disk, mem>>,
           Goto(r, s), crashes' = crashes,
           \/ step[r] \notin {"tab", "tabwait"}
           \/ s = "tabwait"
    PROVE  Unconfirmed(r)
  <1>1. /\ disk'[r] = disk[r] /\ step'[r] = s
        /\ mem'[r].block \in {mem[r].block, disk[r].block}
        /\ mem'[r].confirmed \in {mem[r].confirmed, disk[r].confirmed}
    BY WrittenAt
  <1> QED
    BY <1>1 DEF Unconfirmed, ConfirmInv

LEMMA ConfirmFailed ==
    ASSUME TypeOK, NEW r \in Runs, ConfirmInv(r), RunInv(r), NEW s, FailRun(r, s)
    PROVE  Unconfirmed(r)
  <1>1. /\ Failed(mem[r]).status = "failed" /\ Failed(mem[r]).block = mem[r].block
        /\ Failed(mem[r]).confirmed = mem[r].confirmed
        /\ Failed(mem[r]).phase = mem[r].phase
    BY DEF TypeOK, RunRec, Failed
  <1>2. mem[r].phase = disk[r].phase
    BY StepPhase
  <1> QED
    BY <1>1, <1>2, ConfirmSave DEF FailRun, FitsToSave, ConfirmInv, Terminal

LEMMA ConfirmDispatch ==
    ASSUME TypeOK, NEW r \in Runs, RunInv(r), ConfirmInv(r), DispatchStep(r)
    PROVE  Unconfirmed(r)
  <1> DEFINE p == mem[r].phase
  <1>0. /\ mem[r] \in RunRec /\ StepFits(step[r], p) /\ crashes' = crashes
    BY StepPhase, TaskFiles DEF Step1, DaemonStep
  <1>1. CASE LookupFails(r) \/ SendCreate(r) \/ WriteTaskFile(r)
    BY <1>0, <1>1, ConfirmMove DEF LookupFails, SendCreate, WriteTaskFile
  <1>2. CASE CheckDispatch(r) \/ CreateRejected(r) \/ IssueMismatch(r)
    BY <1>0, <1>2, ConfirmMove, ConfirmFailed
       DEF CheckDispatch, CreateRejected, IssueMismatch
  <1>3. CASE CreateUnknown(r) \/ IssueNotSeen(r)
    BY <1>0, <1>3, ConfirmSave DEF CreateUnknown, IssueNotSeen, FitsToSave, StepFits
  <1>4. CASE ResolveFails(r)
    <2> DEFINE m == [mem[r] EXCEPT !.attempts = @ + 1]
               n == IF m.attempts >= MaxIntentAttempts THEN Failed(m) ELSE m
    <2>1. m \in RunRec /\ m.phase = p /\ m.confirmed = mem[r].confirmed
      BY <1>0 DEF RunRec
    <2>2. n.phase = "intent" /\ n.confirmed = mem[r].confirmed
      BY <1>0, <1>4, <2>1 DEF ResolveFails, StepFits, Failed, RunRec
    <2>3. SaveRun(r, n) /\ Goto(r, "idle")
      BY <1>4 DEF ResolveFails
    <2> HIDE DEF n
    <2> QED
      BY <2>2, <2>3, ConfirmSave DEF FitsToSave
  <1>5. CASE Dispatch(r)
    <2> DEFINE n == [mem[r] EXCEPT !.phase = "create_dispatched",
                                   !.hoja = (issues[r] # {})]
    <2>1. n.phase = "create_dispatched" /\ n.confirmed = mem[r].confirmed
      BY <1>0 DEF RunRec
    <2>2. SaveRun(r, n) /\ \E s \in {"reconcile", "create"} : Goto(r, s)
      BY <1>5 DEF Dispatch
    <2> HIDE DEF n
    <2> QED
      BY <2>1, <2>2, ConfirmSave DEF FitsToSave
  <1>6. CASE CreateAnswered(r)
    <2> DEFINE n == [mem[r] EXCEPT !.hoja = TRUE]
    <2>1. n.phase = "create_dispatched" /\ n.confirmed = mem[r].confirmed
      BY <1>0, <1>6 DEF RunRec, CreateAnswered, StepFits
    <2>2. SaveRun(r, n) /\ Goto(r, "reconcile")
      BY <1>6 DEF CreateAnswered
    <2> HIDE DEF n
    <2> QED
      BY <2>1, <2>2, ConfirmSave DEF FitsToSave
  <1>7. CASE IssueVerified(r)
    <2> DEFINE n == [mem[r] EXCEPT !.hoja = TRUE, !.phase = "issue_created"]
    <2>1. n.phase = "issue_created" /\ n.confirmed = mem[r].confirmed
      BY <1>0 DEF RunRec
    <2>2. SaveRun(r, n) /\ Goto(r, "task")
      BY <1>7 DEF IssueVerified
    <2> HIDE DEF n
    <2> QED
      BY <2>1, <2>2, ConfirmSave DEF FitsToSave
  <1> QED
    BY <1>1, <1>2, <1>3, <1>4, <1>5, <1>6, <1>7 DEF DispatchStep

LEMMA ConfirmLaunch ==
    ASSUME TypeOK, NEW r \in Runs, RunInv(r), OpenInv(r), ConfirmInv(r), LaunchStep(r)
    PROVE  Unconfirmed(r)
  <1> DEFINE p == mem[r].phase
  <1>0. /\ mem[r] \in RunRec /\ StepFits(step[r], p) /\ crashes' = crashes
    BY StepPhase, TaskFiles DEF Step1, DaemonStep
  <1>1. CASE CheckLaunch(r) \/ GateRefuses(r) \/ SendTab(r)
    BY <1>0, <1>1, ConfirmMove, ConfirmFailed DEF CheckLaunch, GateRefuses, SendTab
  <1>2. CASE SessionFails(r)
    BY <1>0, <1>2, ConfirmSave DEF SessionFails, FitsToSave, StepFits
  <1>3. CASE OpenTab(r)
    <2> DEFINE n == [mem[r] EXCEPT !.phase = "tab_opening"]
    <2>1. n.phase = "tab_opening" /\ n.confirmed = mem[r].confirmed
      BY <1>0 DEF RunRec
    <2>2. SaveRun(r, n) /\ Goto(r, "tab")
      BY <1>3 DEF OpenTab
    <2> HIDE DEF n
    <2> QED
      BY <2>1, <2>2, ConfirmSave DEF FitsToSave
  <1>4. CASE TabAnswered(r)
    <2> DEFINE n == [mem[r] EXCEPT !.phase = "tab_open", !.block = launches[r]]
    <2>1. /\ n.phase = "tab_open" /\ n.confirmed = mem[r].confirmed
          /\ n.block = launches[r]
      BY <1>0 DEF RunRec
    <2>2. launches[r] # 0
      BY <1>4 DEF TabAnswered, OpenInv
    <2>3. SaveRun(r, n) /\ Goto(r, "idle")
      BY <1>4 DEF TabAnswered
    <2> HIDE DEF n
    <2> QED
      BY <2>1, <2>2, <2>3, ConfirmSave DEF FitsToSave
  <1>5. CASE TabFails(r) \/ Interrupted(r)
    <2>1. PICK m : /\ SaveRun(r, m) /\ Goto(r, "idle")
                   /\ m.status = "failed" /\ m.phase = p
                   /\ m.confirmed = mem[r].confirmed
      <3>1. /\ \A m \in Located(r, Failed(mem[r])) :
                   m.status = "failed" /\ m.phase = p /\ m.confirmed = mem[r].confirmed
            /\ \A m \in AfterInterrupt(r) :
                   m.status = "failed" /\ m.phase = p /\ m.confirmed = mem[r].confirmed
        BY <1>0 DEF Located, AfterInterrupt, Failed, RunRec
      <3> QED
        BY <1>5, <3>1 DEF TabFails, Interrupted
    <2>2. p = "tab_opening"
      BY <1>0, <1>5 DEF StepFits, TabFails, Interrupted
    <2> QED
      BY <2>1, <2>2, ConfirmSave DEF FitsToSave, Terminal
  <1> QED
    BY <1>1, <1>2, <1>3, <1>4, <1>5 DEF LaunchStep

LEMMA ConfirmReconcile ==
    ASSUME TypeOK, NEW r \in Runs, RunInv(r), StatusInv(r), ConfirmInv(r),
           ReconcileRun(r) \/ ReconcileStep(r)
    PROVE  Unconfirmed(r)
  <1>0. /\ mem[r] \in RunRec /\ disk[r] \in RunRec /\ crashes' = crashes
        /\ mem[r].phase = disk[r].phase
    BY StepPhase, TaskFiles DEF Step1, DaemonStep
  <1>1. CASE ReconcileRun(r)
    <2>1. PICK m \in AfterEvents(r, disk[r]), s \in {"dead", "supervise"} :
              Change(r, m) /\ Goto(r, s)
      BY <1>1 DEF ReconcileRun
    <2>2. m.block = disk[r].block /\ m.confirmed = disk[r].confirmed
      BY <1>0, <2>1 DEF AfterEvents, ApplyStarted, RunRec
    <2>3. step[r] = "idle"
      BY <1>1 DEF ReconcileRun, Idle
    <2> QED
      BY <1>0, <2>1, <2>2, <2>3, ConfirmMove
  <1>2. CASE JudgeDead(r)
    <2>1. PICK m \in AfterEvents(r, mem[r]) :
              Change(r, [m EXCEPT !.status = Verdict(m)])
      BY <1>2 DEF JudgeDead
    <2> DEFINE n == [m EXCEPT !.status = Verdict(m)]
    <2>2. n.block = mem[r].block /\ n.confirmed = mem[r].confirmed
      BY <1>0, <2>1 DEF AfterEvents, ApplyStarted, RunRec
    <2>3. Change(r, n) /\ Goto(r, "supervise") /\ step[r] = "dead"
      BY <1>2, <2>1 DEF JudgeDead
    <2> HIDE DEF n
    <2> QED
      BY <1>0, <2>2, <2>3, ConfirmMove
  <1>3. CASE Supervise(r) \/ LeaveTab(r)
    BY <1>0, <1>3, ConfirmMove, ConfirmFailed DEF Supervise, LeaveTab
  <1>4. CASE CloseTab(r)
    <2> DEFINE n == [mem[r] EXCEPT !.tabClosed = TRUE]
    <2>1. n.block = mem[r].block /\ n.confirmed = mem[r].confirmed
      BY <1>0 DEF RunRec
    <2>2. Change(r, n) /\ Goto(r, "recover") /\ step[r] = "close"
      BY <1>4 DEF CloseTab
    <2> HIDE DEF n
    <2> QED
      BY <1>0, <2>1, <2>2, ConfirmMove
  <1>5. CASE NoRecovery(r) \/ RecoverySpent(r)
    <2> DEFINE n == [mem[r] EXCEPT !.relaunchSpent = TRUE]
    <2>1. /\ n.phase = mem[r].phase /\ n.block = mem[r].block
          /\ n.status = mem[r].status /\ n.confirmed = mem[r].confirmed
      BY <1>0 DEF RunRec
    <2>2. /\ SaveRun(r, mem[r]) \/ SaveRun(r, n)
          /\ Goto(r, "idle") /\ step[r] = "recover"
      BY <1>5 DEF NoRecovery, RecoverySpent
    <2> HIDE DEF n
    <2>3. crashes' = 0 /\ disk[r].phase = "tab_opening" => mem[r].status \in Terminal
      BY <1>0, <2>2 DEF ConfirmInv, StatusInv
    <2>4. FitsToSave(mem[r], "idle") /\ FitsToSave(n, "idle")
      BY <1>0, <2>1, <2>3 DEF FitsToSave, ConfirmInv
    <2> QED
      BY <2>1, <2>2, <2>4, ConfirmSave
  <1>6. CASE RelaunchLaunch(r)
    <2>1. /\ Relaunched(mem[r]).phase = "issue_created"
          /\ Relaunched(mem[r]).confirmed = mem[r].confirmed
      BY <1>0 DEF Relaunched, RunRec
    <2> QED
      BY <1>6, <2>1, ConfirmSave DEF RelaunchLaunch, FitsToSave
  <1> QED
    BY <1>1, <1>2, <1>3, <1>4, <1>5, <1>6 DEF ReconcileStep

LEMMA ConfirmRequest ==
    ASSUME TypeOK, NEW r \in Runs, RunInv(r), StatusInv(r), ConfirmInv(r),
           StartRun(r) \/ ContinueRun(r) \/ Cancel(r) \/ CancelCloses(r) \/ CancelLeaves(r)
    PROVE  Unconfirmed(r)
  <1>0. /\ mem[r] \in RunRec /\ disk[r] \in RunRec /\ crashes' = crashes
    BY StepPhase, TaskFiles DEF Step1, DaemonStep, CancelStep
  <1>1. CASE StartRun(r)
    <2>1. PICK d \in BOOLEAN :
              SaveRun(r, [NewRun EXCEPT !.status = "launching", !.deadline = d])
      BY <1>1 DEF StartRun
    <2> DEFINE n == [NewRun EXCEPT !.status = "launching", !.deadline = d]
    <2>2. n.phase = "intent" /\ ~n.confirmed
      BY DEF NewRun
    <2>3. SaveRun(r, n) /\ Goto(r, "dispatch")
      BY <1>1, <2>1 DEF StartRun
    <2> HIDE DEF n
    <2> QED
      BY <2>2, <2>3, ConfirmSave DEF FitsToSave
  <1>2. CASE ContinueRun(r) \/ Cancel(r)
    <2>1. /\ step[r] = "idle" /\ UNCHANGED <<disk, mem>> /\ \E s : Goto(r, s)
      BY <1>2 DEF ContinueRun, Cancel, Idle
    <2> QED
      BY <1>0, <2>1, ConfirmMove
  <1>3. CASE CancelLeaves(r)
    BY <1>0, <1>3, ConfirmMove DEF CancelLeaves
  <1>4. CASE CancelCloses(r)
    <2> DEFINE n == [mem[r] EXCEPT !.tabClosed = TRUE]
    <2>1. n.block = mem[r].block /\ n.confirmed = mem[r].confirmed
      BY <1>0 DEF RunRec
    <2>2. Change(r, n) /\ Goto(r, "verify") /\ step[r] = "cancel"
      BY <1>4 DEF CancelCloses
    <2> HIDE DEF n
    <2> QED
      BY <1>0, <2>1, <2>2, ConfirmMove
  <1> QED
    BY <1>1, <1>2, <1>3, <1>4

(* The record of a cancel that is verified: where no daemon died, the run  *)
(* waits for no tab call, and the tab it names, if any, is the last one.   *)
LEMMA ConfirmCancel ==
    ASSUME TypeOK, NEW r \in Runs, RunInv(r), OpenInv(r), StatusInv(r), ConfirmInv(r),
           KnownInv(r, mem[r]), CancelRecords(r)
    PROVE  /\ ConfirmInv(r)'
           /\ crashes = 0 /\ disk'[r].confirmed => workers[r] = {} /\ tabs[r] = {}
  <1>0. /\ mem[r] \in RunRec /\ mem[r].phase = disk[r].phase /\ crashes' = crashes
        /\ step[r] = "verify"
    BY StepPhase, TaskFiles DEF Step1, DaemonStep, CancelStep, CancelRecords
  <1> DEFINE n(v) == [mem[r] EXCEPT !.status = "cancelled", !.confirmed = v /\ mem[r].hoja]
  <1>1. PICK v \in BOOLEAN : (v => Gone(r, mem[r])) /\ SaveRun(r, n(v))
    BY DEF CancelRecords
  <1>2. /\ n(v).status = "cancelled" /\ n(v).phase = mem[r].phase
        /\ n(v).block = mem[r].block /\ (n(v).confirmed => v)
    BY <1>0 DEF RunRec
  <1>3. disk'[r] = n(v) /\ mem'[r] = n(v)
    BY <1>1, WrittenAt DEF CancelRecords
  <1>4. ConfirmInv(r)'
    BY <1>0, <1>2, <1>3 DEF ConfirmInv, Terminal
  <1>5. ASSUME crashes = 0, disk'[r].confirmed
        PROVE  tabs[r] = {}
    <2>1. Gone(r, mem[r])
      BY <1>1, <1>2, <1>3, <1>5
    <2>2. CASE disk[r].phase \in Before
      BY <2>2 DEF OpenInv, NoTabYet
    <2>3. CASE disk[r].phase = "tab_open"
      BY <2>1, <2>3 DEF ConfirmInv, KnownInv, Gone, OpenInv
    <2>4. CASE disk[r].phase = "tab_opening"
      <3>1. mem[r].status \in Active /\ mem[r].status = disk[r].status
        BY <1>0 DEF StatusInv, Judging
      <3> QED
        BY <1>0, <1>5, <2>4, <3>1 DEF ConfirmInv, Active, Terminal
    <2> QED
      BY <1>0, <2>2, <2>3, <2>4 DEF RunRec, Phase, Before
  <1> QED
    BY <1>4, <1>5 DEF OpenInv

\* What a step does to each run.
ConfirmStep(q) ==
    /\ ConfirmInv(q)'
    /\ crashes = 0 /\ disk'[q].confirmed /\ ~disk[q].confirmed =>
          workers[q] = {} /\ tabs[q] = {}

LEMMA ConfirmNext ==
    ASSUME TypeOK, LaunchInv, OpenInvs, StatusInvs, LostInvs, ConfirmInvs, [Next]_vars,
           NEW q \in Runs
    PROVE  ConfirmStep(q)
  <1>0. /\ RunInv(q) /\ OpenInv(q) /\ StatusInv(q) /\ ConfirmInv(q)
        /\ KnownInv(q, mem[q])
    BY DEF LaunchInv, OpenInvs, StatusInvs, LostInvs, LostInv, ConfirmInvs
  <1>s. ASSUME Same(q), crashes' = crashes
        PROVE  ConfirmStep(q)
    BY <1>0, <1>s DEF Same, ConfirmStep, ConfirmInv
  <1>1. CASE Crash
    <2>1. disk' = disk /\ mem' = disk /\ crashes' # 0
      BY <1>1 DEF Crash, TypeOK
    <2> QED
      BY <1>0, <2>1 DEF ConfirmStep, ConfirmInv
  <1>2. CASE UNCHANGED vars
    BY <1>2, <1>s DEF Same, vars, daemonVars, hojaVars, ternVars
  <1>3. ASSUME NEW r \in Runs, Step1(r)
        PROVE  ConfirmStep(q)
    <2>0. crashes' = crashes
      BY <1>3, TaskFiles
    <2>1. CASE q # r
      BY <1>3, <1>s, <2>0, <2>1, OthersSame
    <2>2. CASE q = r /\ EnvStep(q)
      <3>1. UNCHANGED daemonVars
        BY <2>2 DEF EnvStep, CommitCreate, DropCreate, TabOpens,
                    TabNeverOpens, WorkerStarts, WorkerDies, TabClosedByHand,
                    Expire, Age, Env
      <3> QED
        BY <1>0, <2>0, <3>1 DEF daemonVars, ConfirmStep, ConfirmInv
    <2>3. CASE q = r /\ CancelRecords(q)
      BY <1>0, <2>3, ConfirmCancel DEF ConfirmStep
    <2>4. CASE q = r /\ ~EnvStep(q) /\ ~CancelRecords(q)
      <3>1. Unconfirmed(q)
        BY <1>0, <1>3, <2>4, ConfirmDispatch, ConfirmLaunch, ConfirmReconcile,
           ConfirmRequest DEF Step1, DaemonStep, CancelStep
      <3> QED
        BY <3>1 DEF Unconfirmed, ConfirmStep
    <2> QED
      BY <2>1, <2>2, <2>3, <2>4
  <1> QED
    BY <1>1, <1>2, <1>3 DEF Next, Step1

(* While no daemon dies, a cancel is recorded as verified only when the    *)
(* run has no worker and no tab left (verifyCancelled, daemon.ts:66).      *)
THEOREM ConfirmedWhileUp ==
    ASSUME ~OrphanWorkers
    PROVE  Spec /\ [](crashes = 0) => ConfirmedMeansGone
  <1>1. Init => ConfirmInvs
    <2> SUFFICES ASSUME Init, NEW r \in Runs
                 PROVE  ConfirmInv(r)
      BY DEF ConfirmInvs
    <2>1. disk[r] = NewRun /\ mem[r] = NewRun
      BY DEF Init
    <2> QED
      BY <2>1 DEF ConfirmInv, NewRun
  <1>2. /\ TypeOK /\ LaunchInv /\ OpenInvs /\ StatusInvs /\ LostInvs /\ ConfirmInvs
        /\ [Next]_vars
        => ConfirmInvs'
    BY ConfirmNext DEF ConfirmInvs, ConfirmStep
  <1>3. /\ TypeOK /\ LaunchInv /\ OpenInvs /\ StatusInvs /\ LostInvs /\ ConfirmInvs
        /\ crashes = 0 /\ [Next]_vars
        => [\A r \in Runs : disk'[r].confirmed /\ ~disk[r].confirmed =>
                workers[r] = {} /\ tabs[r] = {}]_vars
    BY ConfirmNext DEF ConfirmStep
  <1> QED
    BY <1>1, <1>2, <1>3, TypeCorrect, LaunchInvariant, StatusInvariant, OpenInvariant,
       LostInvariant, PTL DEF Spec, ConfirmedMeansGone

-----------------------------------------------------------------------------
(* A launch whose deadline passed before anything was sent for it.         *)

NothingSent(r) ==
    /\ creates[r] = 0 /\ pendingCreates[r] = {} /\ issues[r] = {}
    /\ launches[r] = 0 /\ pendingTabs[r] = {} /\ opened[r] = {}
    /\ tabs[r] = {} /\ workers[r] = {} /\ started[r] = {}

\* A record that a retry or a restart can only take back to the dispatch.
AtIntent(m) == m.deadline /\ m.phase = "intent" /\ m.block = 0 /\ m.pid = 0

\* The steps that lie between a record at its intent and the deadline check.
EarlyStep == {"idle", "dispatch", "supervise", "close", "recover", "cancel",
              "verify"}

Halted(r) ==
    /\ NothingSent(r) /\ expired[r]
    /\ AtIntent(disk[r]) /\ AtIntent(mem[r])
    /\ step[r] \in EarlyStep

\* No run yet.
Blank(r) ==
    /\ NothingSent(r)
    /\ disk[r] = NewRun /\ mem[r] = NewRun /\ step[r] = "idle"

(* What was sent stays nothing in a step that only moves the record.       *)
LEMMA NothingLocal ==
    ASSUME NEW r \in Runs, Local, NothingSent(r)
    PROVE  NothingSent(r)' /\ expired'[r] = expired[r]
  BY DEF Local, NothingSent, hojaVars, ternVars, timeVars

LEMMA HaltedWrite ==
    ASSUME TypeOK, NEW r \in Runs, Halted(r), NEW m, AtIntent(m),
           \/ SaveRun(r, m) \/ Change(r, m)
           \/ UNCHANGED <<disk, mem>> /\ m = mem[r],
           NEW s \in EarlyStep, Goto(r, s), NothingSent(r)', expired'[r]
    PROVE  Halted(r)'
  <1>1. /\ step'[r] = s
        /\ SaveRun(r, m) => disk'[r] = m /\ mem'[r] = m
        /\ Change(r, m) => disk'[r] = disk[r] /\ mem'[r] = m
        /\ UNCHANGED <<disk, mem>> => disk'[r] = disk[r] /\ mem'[r] = mem[r]
    BY WrittenAt
  <1>2. AtIntent(disk[r]) /\ AtIntent(mem[r])
    BY DEF Halted
  <1>3. AtIntent(disk'[r]) /\ AtIntent(mem'[r])
    BY <1>1, <1>2
  <1> QED
    BY <1>1, <1>3 DEF Halted, AtIntent

LEMMA FailedAtIntent ==
    ASSUME NEW m \in RunRec, AtIntent(m)
    PROVE  AtIntent(Failed(m))
  <1>1. /\ Failed(m).deadline = m.deadline /\ Failed(m).phase = m.phase
        /\ Failed(m).block = m.block /\ Failed(m).pid = m.pid
    BY DEF Failed, RunRec
  <1> QED
    BY <1>1 DEF AtIntent

(* The deadline is compared before anything else is done.                  *)
LEMMA HaltedDispatch ==
    ASSUME TypeOK, NEW r \in Runs, Halted(r), DispatchStep(r) \/ LaunchStep(r)
    PROVE  Halted(r)'
  <1>0. step[r] \in EarlyStep /\ mem[r] \in RunRec /\ AtIntent(mem[r])
        /\ NothingSent(r) /\ expired[r]
    BY DEF Halted, TypeOK
  <1>1. CheckDispatch(r)
    BY <1>0 DEF EarlyStep, DispatchStep, CheckDispatch, ResolveFails, LookupFails,
           Dispatch, SendCreate, CreateAnswered, CreateUnknown,
           CreateRejected, IssueNotSeen, IssueMismatch, IssueVerified,
           WriteTaskFile, LaunchStep, CheckLaunch, GateRefuses, SessionFails,
           OpenTab, SendTab, TabAnswered, TabFails, Interrupted
  <1>2. PastDeadline(r)
    BY <1>0 DEF PastDeadline, AtIntent
  <1>3. SaveRun(r, Failed(mem[r])) /\ Goto(r, "idle") /\ Local
    BY <1>1, <1>2 DEF CheckDispatch, FailRun
  <1> QED
    BY <1>0, <1>3, FailedAtIntent, HaltedWrite, NothingLocal DEF EarlyStep

(* No step that judges the run finds a tab, a worker or an issue to act on. *)
LEMMA HaltedReconcile ==
    ASSUME TypeOK, NEW r \in Runs, Halted(r), ReconcileRun(r) \/ ReconcileStep(r)
    PROVE  Halted(r)'
  <1>0. /\ step[r] \in EarlyStep /\ NothingSent(r) /\ expired[r]
        /\ mem[r] \in RunRec /\ AtIntent(mem[r]) /\ AtIntent(disk[r])
    BY DEF Halted, TypeOK
  <1>1. CASE ReconcileRun(r)
    <2>1. AfterEvents(r, disk[r]) = {disk[r]} /\ ~Dead(r, disk[r])
      BY <1>0 DEF AfterEvents, Dead, NothingSent, AtIntent
    <2>2. Change(r, disk[r]) /\ Goto(r, "supervise") /\ Local
      BY <1>1, <2>1 DEF ReconcileRun
    <2> QED
      BY <1>0, <2>2, HaltedWrite, NothingLocal DEF EarlyStep
  <1>2. CASE Supervise(r)
    BY <1>0, <1>2, FailedAtIntent, HaltedWrite, NothingLocal
       DEF Supervise, FailRun, EarlyStep
  <1>3. CASE LeaveTab(r)
    BY <1>0, <1>3, HaltedWrite, NothingLocal DEF LeaveTab, EarlyStep
  <1>4. CASE NoRecovery(r)
    BY <1>0, <1>4, HaltedWrite, NothingLocal DEF NoRecovery, EarlyStep
  <1>5. ~JudgeDead(r) /\ ~CloseTab(r) /\ ~Recoverable(mem[r])
    BY <1>0 DEF JudgeDead, CloseTab, CloseDue, Recoverable, AtIntent, EarlyStep
  <1> QED
    BY <1>1, <1>2, <1>3, <1>4, <1>5
       DEF ReconcileStep, RecoverySpent, RelaunchLaunch

LEMMA HaltedRequest ==
    ASSUME TypeOK, NEW r \in Runs, Halted(r),
           \/ StartRun(r) /\ disk'[r].deadline
           \/ ContinueRun(r) \/ Cancel(r) \/ CancelStep(r)
    PROVE  Halted(r)'
  <1>0. /\ step[r] \in EarlyStep /\ NothingSent(r) /\ expired[r]
        /\ mem[r] \in RunRec /\ AtIntent(mem[r]) /\ AtIntent(disk[r])
    BY DEF Halted, TypeOK
  <1>1. CASE StartRun(r) /\ disk'[r].deadline
    <2>1. PICK d \in BOOLEAN :
             SaveRun(r, [NewRun EXCEPT !.status = "launching", !.deadline = d])
      BY <1>1 DEF StartRun
    <2> DEFINE m == [NewRun EXCEPT !.status = "launching", !.deadline = d]
    <2>2. m.deadline = d /\ m.phase = "intent" /\ m.block = 0 /\ m.pid = 0
      BY DEF NewRun
    <2>3. Goto(r, "dispatch") /\ Local
      BY <1>1 DEF StartRun
    <2> HIDE DEF m
    <2>4. disk'[r] = m
      BY <2>1, <2>3, WrittenAt DEF m
    <2>5. AtIntent(m)
      BY <1>1, <2>2, <2>4 DEF AtIntent
    <2>6. SaveRun(r, m)
      BY <2>1 DEF m
    <2> QED
      BY <1>0, <2>3, <2>5, <2>6, HaltedWrite, NothingLocal DEF EarlyStep
  <1>2. CASE ContinueRun(r)
    <2>1. Goto(r, "dispatch") /\ UNCHANGED <<disk, mem>> /\ Local
      BY <1>0, <1>2 DEF ContinueRun, AtIntent
    <2> QED
      BY <1>0, <2>1, HaltedWrite, NothingLocal DEF EarlyStep
  <1>3. CASE Cancel(r)
    <2>1. NothingSent(r)' /\ expired'[r]
      BY <1>0, <1>3 DEF Cancel, NothingSent, hojaVars, timeVars, TypeOK
    <2>2. Goto(r, "cancel") /\ UNCHANGED <<disk, mem>>
      BY <1>3 DEF Cancel
    <2> QED
      BY <1>0, <2>1, <2>2, HaltedWrite DEF EarlyStep
  <1>4. CASE CancelLeaves(r)
    BY <1>0, <1>4, HaltedWrite, NothingLocal DEF CancelLeaves, EarlyStep
  <1>5. CASE CancelRecords(r)
    <2>1. PICK v \in BOOLEAN :
              SaveRun(r, [mem[r] EXCEPT !.status = "cancelled",
                                        !.confirmed = v /\ mem[r].hoja])
      BY <1>5 DEF CancelRecords
    <2> DEFINE m == [mem[r] EXCEPT !.status = "cancelled",
                                   !.confirmed = v /\ mem[r].hoja]
    <2>2. /\ m.deadline = mem[r].deadline /\ m.phase = mem[r].phase
          /\ m.block = mem[r].block /\ m.pid = mem[r].pid
      BY <1>0 DEF RunRec
    <2>3. Goto(r, "idle") /\ Local
      BY <1>5 DEF CancelRecords
    <2>4. SaveRun(r, m)
      BY <2>1
    <2> HIDE DEF m
    <2>5. AtIntent(m)
      BY <1>0, <2>2 DEF AtIntent
    <2> QED
      BY <1>0, <2>3, <2>4, <2>5, HaltedWrite, NothingLocal DEF EarlyStep
  <1>6. ~CancelCloses(r)
    BY <1>0 DEF CancelCloses, CloseDue, AtIntent
  <1> QED
    BY <1>1, <1>2, <1>3, <1>4, <1>5, <1>6 DEF CancelStep

(* Hoja, Tern and the workers have nothing to act on.                      *)
LEMMA NothingEnv ==
    ASSUME TypeOK, NEW r \in Runs, NothingSent(r), EnvStep(r)
    PROVE  NothingSent(r)' /\ UNCHANGED daemonVars /\ (expired[r] => expired'[r])
  <1>1. Expire(r) \/ Age(r)
    BY DEF NothingSent, EnvStep, CommitCreate, DropCreate, TabOpens,
           TabNeverOpens, WorkerStarts, WorkerDies, TabClosedByHand
  <1> QED
    BY <1>1 DEF Expire, Age, Env, NothingSent, hojaVars, ternVars, TypeOK

LEMMA OthersExpired ==
    ASSUME TypeOK, NEW r \in Runs, NEW q \in Runs, expired[q], Step1(r)
    PROVE  expired'[q]
  <1>1. CASE UNCHANGED expired
    BY <1>1
  <1>2. CASE Expire(r)
    BY <1>2 DEF Expire, TypeOK
  <1>3. CASE EnvStep(r) /\ ~Expire(r)
    BY <1>1, <1>3 DEF EnvStep, CommitCreate, DropCreate, TabOpens,
              TabNeverOpens, WorkerStarts, WorkerDies, TabClosedByHand, Age,
              timeVars
  <1>4. CASE ~EnvStep(r)
    <2>1. UNCHANGED expired
      BY <1>4 DEF Step1, StartRun, ContinueRun, ReconcileRun, Cancel, Local,
         DaemonStep, DispatchStep, CheckDispatch, ResolveFails, LookupFails,
         Dispatch, SendCreate, CreateAnswered, CreateUnknown, CreateRejected,
         IssueNotSeen, IssueMismatch, IssueVerified, WriteTaskFile, LaunchStep,
         CheckLaunch, GateRefuses, SessionFails, OpenTab, SendTab, TabAnswered,
         TabFails, Interrupted, ReconcileStep, JudgeDead, Supervise, CloseTab,
         LeaveTab, NoRecovery, RecoverySpent, RelaunchLaunch, CancelStep,
         CancelCloses, CancelLeaves, CancelRecords, timeVars
    <2> QED
      BY <1>1, <2>1
  <1> QED
    BY <1>2, <1>3, <1>4 DEF Step1

\* A step of r, for a run that was started; one that may also start it, with
\* the deadline of a request.
GoesOn(r) ==
    \/ ContinueRun(r) \/ ReconcileRun(r) \/ Cancel(r) \/ DaemonStep(r)
    \/ EnvStep(r)

Timely(r) == (StartRun(r) /\ disk'[r].deadline) \/ GoesOn(r)

(* Once halted, a launch is halted for good, with every daemon.            *)
LEMMA HaltedStays ==
    ASSUME TypeOK, NEW q \in Runs, Halted(q),
           (\E r \in Runs : Timely(r)) \/ Crash \/ UNCHANGED vars
    PROVE  Halted(q)'
  <1>1. CASE Crash
    <2>1. disk' = disk /\ mem' = disk /\ step'[q] = "idle"
      BY <1>1 DEF Crash
    <2>2. NothingSent(q)' /\ expired' = expired
      BY <1>1 DEF Crash, Halted, NothingSent, hojaVars, ternVars, timeVars
    <2> QED
      BY <2>1, <2>2 DEF Halted, EarlyStep, AtIntent
  <1>2. CASE UNCHANGED vars
    BY <1>2 DEF vars, daemonVars, hojaVars, ternVars, timeVars, Halted,
                NothingSent, AtIntent
  <1>3. ASSUME NEW r \in Runs, Timely(r), r # q
        PROVE  Halted(q)'
    <2>1. Step1(r)
      BY <1>3 DEF Timely, GoesOn, Step1
    <2>2. Same(q) /\ expired'[q]
      BY <1>3, <2>1, OthersSame, OthersExpired DEF Halted
    <2> QED
      BY <2>2 DEF Same, Halted, NothingSent, AtIntent
  <1>4. CASE EnvStep(q)
    <2>1. NothingSent(q)' /\ UNCHANGED daemonVars /\ expired'[q]
      BY <1>4, NothingEnv DEF Halted
    <2> QED
      BY <2>1 DEF daemonVars, Halted, AtIntent
  <1>5. CASE Timely(q) /\ ~EnvStep(q)
    BY <1>5, HaltedDispatch, HaltedReconcile, HaltedRequest
       DEF Timely, GoesOn, DaemonStep
  <1> QED
    BY <1>1, <1>2, <1>3, <1>4, <1>5

(* Until it is started, a run is nothing to anyone.                        *)
LEMMA BlankStays ==
    ASSUME TypeOK, NEW q \in Runs, Blank(q),
           \/ \E r \in Runs : GoesOn(r) \/ (r # q /\ StartRun(r))
           \/ Crash \/ UNCHANGED vars
    PROVE  Blank(q)'
  <1>1. CASE Crash
    BY <1>1 DEF Crash, Blank, NothingSent, hojaVars, ternVars
  <1>2. CASE UNCHANGED vars
    BY <1>2 DEF vars, daemonVars, hojaVars, ternVars, Blank, NothingSent
  <1>3. ASSUME NEW r \in Runs, Step1(r), r # q
        PROVE  Blank(q)'
    <2>1. Same(q)
      BY <1>3, OthersSame
    <2> QED
      BY <2>1 DEF Same, Blank, NothingSent
  <1>4. CASE EnvStep(q)
    BY <1>4, NothingEnv DEF Blank, daemonVars
  <1>5. ~ContinueRun(q) /\ ~ReconcileRun(q) /\ ~Cancel(q) /\ ~DaemonStep(q)
    <2>1. step[q] = "idle" /\ disk[q].status = "absent"
      BY DEF Blank, NewRun
    <2> QED
      BY <2>1, Busy DEF ContinueRun, ReconcileRun, Cancel, Active
  <1> QED
    BY <1>1, <1>2, <1>3, <1>4, <1>5 DEF GoesOn, Step1
=============================================================================
