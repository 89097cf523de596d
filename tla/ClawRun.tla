------------------------------- MODULE ClawRun -------------------------------
(***************************************************************************)
(* The life of one Claw run after its first worker tab opened:             *)
(* .pi/lib/claw/daemon.ts (applyEvent, reconcileRun, the send, cancel,     *)
(* keep, close and resume requests), .pi/lib/claw/supervisor.ts            *)
(* (superviseRun), .pi/lib/claw/resume.ts and the worker's half, child.ts  *)
(* and registerWorker of extensions/claw/extension.ts.                     *)
(*                                                                         *)
(* Workers append to the run's event log while the daemon works on its     *)
(* copy of the record (mem); what the daemon has not saved is gone when it *)
(* dies.  Worker w runs in tab w; its number is its process identity, and  *)
(* 0 is no worker.  Time is a choice: what has a deadline may reach it.    *)
(* Notices, reminders, the goal and the Hoja outbox leave the run's life   *)
(* as it is and are not here; how a launch is retried is ClawLaunch, what  *)
(* becomes of requests and of inbox items, ClawRequests and ClawInbox.     *)
(***************************************************************************)
EXTENDS Naturals, Sequences

CONSTANTS
    MaxWorkers,     \* bound: workers the run is given in all
    MaxLog,         \* bound: events in its log
    CloseBudget,    \* tabCloseBudget
    ResumeBudget,   \* RESUME_BUDGET
    MaxCrashes,     \* bound: crashes of the daemon
    Outlives        \* a worker may outlive its tab

ASSUME RunAssumption ==
    /\ MaxWorkers \in Nat \ {0} /\ MaxLog \in Nat /\ MaxCrashes \in Nat
    /\ CloseBudget \in Nat \ {0} /\ ResumeBudget \in Nat \ {0}
    /\ Outlives \in BOOLEAN

VARIABLES
    log,        \* runs/<id>.events.jsonl
    saved,      \* runs/<id>.json
    mem,        \* the record the daemon works on
    at,         \* where in its tick the daemon is
    live,       \* Tern's live blocks as of this tick, if it answered, until used
    proc,       \* what each worker is doing
    tab,        \* each worker's tab
    reported,   \* the worker called claw_finish since its last prompt
    told,       \* the events the inbox has an item of
    news,       \* what else the inbox has an item of
    orphan,     \* the tab its one item about a tab left open names, 0 if none
    crashes     \* crashes of the daemon so far

workerVars == <<proc, tab, reported>>
inboxVars  == <<told, news, orphan>>
runVars == <<log, saved, mem, at, live, crashes, workerVars, inboxVars>>

Workers  == 1..MaxWorkers
Terminal == {"completed", "failed", "lost", "cancelled"}
Waiting  == {"awaiting_user"}
Busy     == {"launching", "running", "idle", "awaiting_decision"}
Outcomes == {"completed", "failed", "needs_user"}
Alive(w) == proc[w] \notin {"none", "gone"}


LiveBlocks == {w \in Workers : tab[w] = "open" /\ Alive(w)}

NoTern == [known |-> FALSE, blocks |-> {}]

\* settled, session, finish: settles > 0, sessionFile, the event of finish;
\* from: resumeFrom; closes, resumes: attempts of the remedies of that name;
\* relaunched: the one relaunch was made or given up.
Run == [status : Terminal \cup Waiting \cup Busy,
        phase : {"issue_created", "tab_open"},
        ask : {"none", "open", "shut"}, settled : BOOLEAN,
        finish : 0..MaxLog, session : BOOLEAN, keep : BOOLEAN,
        block : 0..MaxWorkers, tabClosed : BOOLEAN, closes : 0..CloseBudget,
        pid : 0..MaxWorkers, offset : 0..MaxLog, from : 0..MaxLog,
        resumes : 0..ResumeBudget, relaunched : BOOLEAN]

RunInit ==
    /\ log = <<>> /\ told = {} /\ news = {} /\ orphan = 0
    /\ \E keep \in BOOLEAN :
          saved = [status |-> "launching", phase |-> "tab_open", ask |-> "none",
                   settled |-> FALSE, finish |-> 0, session |-> FALSE,
                   keep |-> keep, block |-> 1, tabClosed |-> FALSE,
                   closes |-> 0, pid |-> 0, offset |-> 0, from |-> 0,
                   resumes |-> 0, relaunched |-> FALSE]
    /\ mem = saved /\ at = "serve" /\ live = NoTern /\ crashes = 0
    /\ proc = [w \in Workers |-> IF w = 1 THEN "starting" ELSE "none"]
    /\ tab  = [w \in Workers |-> IF w = 1 THEN "open" ELSE "none"]
    /\ reported = [w \in Workers |-> FALSE]

-----------------------------------------------------------------------------
(* The worker and its user.                                                *)

Records(type, w) == log' = Append(log, [type |-> type, worker |-> w])

daemonVars == <<saved, mem, at, live, crashes, inboxVars>>

\* session_start.  A worker of a launch has its task; a reopened one waits.
SessionStart(w) ==
    /\ proc[w] \in {"starting", "reopening"} /\ Len(log) < MaxLog
    /\ Records("started", w)
    /\ proc' = [proc EXCEPT ![w] = IF @ = "starting" THEN "turn" ELSE "prompt"]
    /\ UNCHANGED <<tab, reported, daemonVars>>

Settle(w) ==
    /\ proc[w] = "turn" /\ Len(log) < MaxLog
    /\ Records("settled", w)
    /\ proc' = [proc EXCEPT ![w] = "prompt"]
    /\ UNCHANGED <<tab, reported, daemonVars>>

\* claw_finish; a report of completion has evidence.
Finish(w) ==
    /\ proc[w] = "turn" /\ Len(log) < MaxLog
    /\ \E outcome \in Outcomes : Records(outcome, w)
    /\ reported' = [reported EXCEPT ![w] = TRUE]
    /\ UNCHANGED <<proc, tab, daemonVars>>

Ask(w) ==
    /\ proc[w] = "turn" /\ Len(log) < MaxLog
    /\ Records("opened", w)
    /\ proc' = [proc EXCEPT ![w] = "modal"]
    /\ UNCHANGED <<tab, reported, daemonVars>>

\* What typing into a tab does: it closes a modal, or starts a turn; the turn
\* after a report is recorded as a resumption.
Typed(w) ==
    LET wakes == proc[w] \in {"modal", "prompt"}
        event == IF proc[w] = "modal" THEN "closed" ELSE "resumed"
        says  == proc[w] = "modal" \/ (proc[w] = "prompt" /\ reported[w])
    IN  /\ says => Len(log) < MaxLog
        /\ IF says THEN Records(event, w) ELSE UNCHANGED log
        /\ proc' = IF wakes THEN [proc EXCEPT ![w] = "turn"] ELSE proc
        /\ reported' = IF proc[w] = "prompt"
                       THEN [reported EXCEPT ![w] = FALSE] ELSE reported
        /\ UNCHANGED tab

UserTypes(w) ==
    /\ proc[w] \in {"modal", "prompt"} /\ tab[w] = "open"
    /\ Typed(w)
    /\ UNCHANGED daemonVars

\* Its tab stays (--keep-open) until it is closed.
Dies(w) ==
    /\ Alive(w)
    /\ proc' = [proc EXCEPT ![w] = "gone"]
    /\ UNCHANGED <<log, tab, reported, daemonVars>>

\* Closing a tab ends its worker, unless that one ignores it.
TabGoes(w) ==
    /\ tab' = [tab EXCEPT ![w] = "closed"]
    /\ proc' \in {[proc EXCEPT ![w] = "gone"]}
                \cup (IF Outlives THEN {proc} ELSE {})
    /\ UNCHANGED <<reported>>

UserCloses(w) ==
    /\ tab[w] = "open" /\ TabGoes(w)
    /\ UNCHANGED <<log, daemonVars>>

WorkerStep(w) ==
    SessionStart(w) \/ Settle(w) \/ Finish(w) \/ Ask(w) \/ UserTypes(w)

-----------------------------------------------------------------------------
(* runLiveness.  A recorded process is judged by its identity, and its tab *)
(* is evidence only while none is recorded.                                *)

Liveness(r, tern) ==
    IF r.pid # 0 THEN IF Alive(r.pid) THEN "alive" ELSE "dead"
    ELSE IF r.block = 0 \/ ~tern.known THEN "unknown"
    ELSE IF r.block \in tern.blocks THEN "alive" ELSE "dead"

-----------------------------------------------------------------------------
(* applyEvent.                                                             *)

\* A slip: an event reopens a run whatever its status.
Reopens(r, status) == status

\* A run that ended or reported stays as it is when its worker starts.
OnStart(r, status) ==
    IF r.status \in Terminal \cup Waiting THEN r.status ELSE status

Shut(r) == IF r.ask = "open" THEN "shut" ELSE r.ask

AfterStarted(r, w) ==
    [r EXCEPT !.pid = w, !.session = TRUE, !.status = OnStart(r, "running")]

AfterSettled(r) ==
    [r EXCEPT !.settled = TRUE, !.ask = Shut(r),
              !.status = IF @ \in Busy THEN "idle" ELSE @]

AfterOpened(r) == [r EXCEPT !.ask = "open", !.status = "awaiting_decision"]

AfterClosed(r) ==
    [r EXCEPT !.ask = "shut",
              !.status = IF @ = "awaiting_decision" THEN "running" ELSE @]

AfterReport(r, i) ==
    [r EXCEPT !.finish = i, !.ask = Shut(r),
              !.status = IF log[i].type = "needs_user" THEN "awaiting_user"
                         ELSE log[i].type]

Applied(r, i) ==
    LET e == log[i]
        q == [r EXCEPT !.offset = i]
    IN  IF e.type = "started" THEN AfterStarted(q, e.worker)
        ELSE IF e.type = "settled" THEN AfterSettled(q)
        ELSE IF r.status \in Terminal THEN q
        ELSE CASE e.type = "opened" -> AfterOpened(q)
               [] e.type = "closed" -> AfterClosed(q)
               [] e.type = "resumed" -> [q EXCEPT !.status = "running"]
               [] e.type \in Outcomes -> AfterReport(q, i)

\* A slip: the key of an item names the run but not the event.
TellsOnce(r, i) ==
    IF r.status \notin Terminal /\ told = {} THEN {i} ELSE {}

\* The events an item is written of, keyed by the event.
News(r, i) ==
    IF r.status \notin Terminal /\ log[i].type \notin {"started", "settled"}
    THEN {i} ELSE {}

-----------------------------------------------------------------------------
(* reconcileRun, with superviseRun.                                        *)

Tern == {[known |-> TRUE, blocks |-> LiveBlocks], NoTern}

\* tick: the snapshot of Tern, or none when it does not answer.
Snapshot ==
    /\ at = "serve" /\ at' = "read" /\ live' \in Tern
    /\ UNCHANGED <<log, saved, mem, crashes, workerVars, inboxVars>>

HasTab(r) == r.block # 0 /\ ~r.tabClosed

\* A slip: a tab that was to be kept is closed like any other.
KeptToo(r) == r.status \in Terminal /\ HasTab(r)

\* A slip: the tab of a lost run is left open.
NotIfLost(r) == r.status \in Terminal \ {"lost"} /\ ~r.keep /\ HasTab(r)

OwesClose(r) == r.status \in Terminal /\ ~r.keep /\ HasTab(r)

\* recoveryReason: nothing observable was produced.
Recoverable(r) ==
    /\ r.status = "lost" /\ r.phase = "tab_open" /\ ~r.relaunched
    /\ r.finish = 0 /\ ~r.settled /\ r.ask = "none"

\* Where the tick goes on: what does not concern the run is passed over.
AfterClose(r) ==
    IF r.status = "idle" \/ Recoverable(r) THEN "remedy" ELSE "save"

AfterTime(r) == IF OwesClose(r) THEN "close" ELSE AfterClose(r)

Onward(r) == IF r.status = "launching" THEN "time" ELSE AfterTime(r)

AllRead == mem.offset = Len(log)

ReadEvent ==
    /\ at \in {"read", "reread"} /\ ~AllRead
    /\ told' = told \cup News(mem, mem.offset + 1)
    /\ mem' = Applied(mem, mem.offset + 1)
    /\ UNCHANGED <<log, saved, at, live, crashes, workerVars, news, orphan>>

\* The worker goes on writing when the end of its log was seen.
EndRead ==
    /\ at \in {"read", "reread"} /\ AllRead
    /\ at' = IF at = "read" THEN "judge" ELSE "verdict"
    /\ UNCHANGED <<log, saved, mem, live, crashes, workerVars, inboxVars>>

\* A slip: a dead worker's run is lost at once.
JudgeAtOnce == "verdict"

ReadAgain == "reread"

\* A run without a process keeps its grace: its tab may still be opening.
Judge ==
    /\ at = "judge"
    /\ \E grace \in BOOLEAN :
          at' = IF /\ mem.status \in Busy /\ Liveness(mem, live) = "dead"
                   /\ ~(mem.pid = 0 /\ grace)
                THEN ReadAgain ELSE Onward(mem)
    /\ live' = NoTern
    /\ UNCHANGED <<log, saved, mem, crashes, workerVars, inboxVars>>

NeverStarted == mem.pid = 0 /\ mem.offset = mem.from /\ mem.phase = "tab_open"

Ended(r, status) ==
    [r EXCEPT !.status = status, !.ask = IF status = "lost" THEN Shut(r) ELSE @]

\* A worker may have written its last event just before it died; one that never
\* started failed and is not lost.
Verdict ==
    /\ at = "verdict"
    /\ LET end == IF NeverStarted THEN "failed" ELSE "lost"
       IN  IF mem.status \notin Busy THEN UNCHANGED <<mem, news>>
           ELSE mem' = Ended(mem, end) /\ news' = news \cup {end}
    /\ at' = Onward(mem')
    /\ UNCHANGED <<log, saved, live, crashes, workerVars, told, orphan>>

\* The launch timeout: failRun saves the run before its item is written.
TimeOut ==
    /\ at = "time" /\ at' = "tell"
    /\ mem' = Ended(mem, "failed") /\ saved' = mem'
    /\ UNCHANGED <<log, live, crashes, workerVars, inboxVars>>

TellFailed ==
    /\ at = "tell" /\ news' = news \cup {"failed"} /\ at' = AfterTime(mem)
    /\ UNCHANGED <<log, saved, mem, live, crashes, workerVars, told, orphan>>

InTime ==
    /\ at = "time" /\ at' = AfterTime(mem)
    /\ UNCHANGED <<log, saved, mem, live, crashes, workerVars, inboxVars>>

\* A slip: a spent budget does not end the attempts.
AlwaysDue(r) == TRUE

\* remedyDue, as far as the budget goes.
CloseDue(r) == r.closes < CloseBudget

\* The item is keyed by the run: it names the first tab that stays open.
CloseTab ==
    /\ at = "close" /\ CloseDue(mem)
    /\ \/ /\ TabGoes(mem.block) /\ UNCHANGED orphan
          /\ mem' = [mem EXCEPT !.tabClosed = TRUE, !.closes = 0]
       \/ /\ mem' = [mem EXCEPT !.closes = @ + 1]
          /\ orphan' = IF mem'.closes = CloseBudget /\ orphan = 0 THEN mem.block ELSE orphan
          /\ UNCHANGED workerVars
    /\ at' = AfterClose(mem')
    /\ UNCHANGED <<log, saved, live, crashes, told, news>>

\* The next attempt is not due, or the last was made.
NoClose ==
    /\ at = "close" /\ mem.closes > 0 /\ at' = AfterClose(mem)
    /\ UNCHANGED <<log, saved, mem, live, crashes, workerVars, inboxVars>>

\* superviseIdle, when its time has run out.
IdleFails ==
    /\ at = "remedy" /\ mem.status = "idle" /\ at' = "save"
    /\ mem' = Ended(mem, "failed") /\ news' = news \cup {"failed"}
    /\ UNCHANGED <<log, saved, live, crashes, workerVars, told, orphan>>

\* superviseRecovery and relaunchLaunch.  A tab of the run that is still there,
\* its worker running or not, makes it give up.
Recover ==
    /\ at = "remedy" /\ Recoverable(mem) /\ at' = "save"
    /\ mem' = IF \E w \in Workers : tab[w] = "open"
              THEN [mem EXCEPT !.relaunched = TRUE]
              ELSE [mem EXCEPT !.relaunched = TRUE, !.status = "launching",
                        !.phase = "issue_created", !.block = 0, !.pid = 0]
    /\ UNCHANGED <<log, saved, live, crashes, workerVars, inboxVars>>

\* The idle run has time left; Tern does not answer, or the host was rebooted.
NoRemedy ==
    /\ at = "remedy" /\ at' = "save"
    /\ UNCHANGED <<log, saved, mem, live, crashes, workerVars, inboxVars>>

Save ==
    /\ at = "save" /\ saved' = mem /\ at' = "serve" /\ live' = NoTern
    /\ UNCHANGED <<log, mem, crashes, workerVars, inboxVars>>

RunCrash ==
    /\ at # "serve" /\ crashes < MaxCrashes /\ crashes' = crashes + 1
    /\ mem' = saved /\ at' = "serve" /\ live' = NoTern
    /\ UNCHANGED <<log, saved, workerVars, inboxVars>>

Reconcile ==
    \/ Snapshot \/ ReadEvent \/ EndRead \/ Judge \/ Verdict \/ TimeOut \/ TellFailed
    \/ InTime \/ CloseTab \/ NoClose \/ IdleFails \/ Recover \/ NoRemedy
    \/ Save

-----------------------------------------------------------------------------
(* The requests, and the launch of a run that is relaunched.  They work on *)
(* the saved record; what they save comes before their item (announce).    *)

Serving == at = "serve" /\ UNCHANGED <<live, crashes>>

Saves(r) == saved' = r /\ mem' = r

\* send wakes a run that waits for its user before it types.
Woken(r) == IF r.status = "awaiting_user" THEN [r EXCEPT !.status = "running"]
            ELSE r

\* Tern may refuse the text.  An idle run is saved after the text is typed.
Send ==
    /\ Serving /\ saved.ask # "open" /\ saved.block # 0
    /\ \/ saved.status \in Busy
       \/ saved.status = "awaiting_user" /\ saved.block \in LiveBlocks
    /\ \/ Saves(Woken(saved)) /\ UNCHANGED <<log, workerVars>>
       \/ /\ saved.block \in LiveBlocks /\ Typed(saved.block)
          /\ \/ Saves(Woken(saved))
             \/ saved.status = "idle" /\ Saves([saved EXCEPT !.status = "running"])
    /\ UNCHANGED <<at, inboxVars>>

\* What closeRunTab leaves of the record, when Tern closes the tab or not.
ClosesTab(r) ==
    \/ Saves(r) /\ UNCHANGED workerVars
    \/ HasTab(r) /\ TabGoes(r.block) /\ Saves([r EXCEPT !.tabClosed = TRUE])

\* The signal reaches the worker whenever Dies says.
Cancel ==
    /\ Serving /\ saved.status \notin Terminal /\ at' = "announce"
    /\ ClosesTab([saved EXCEPT !.status = "cancelled"])
    /\ UNCHANGED <<log, inboxVars>>

SetKeep(keep) ==
    /\ Serving
    /\ Saves([saved EXCEPT !.keep = keep, !.closes = IF keep THEN @ ELSE 0])
    /\ UNCHANGED <<log, at, workerVars, inboxVars>>

Close ==
    /\ Serving /\ ClosesTab([saved EXCEPT !.keep = FALSE, !.closes = 0])
    /\ UNCHANGED <<log, at, inboxVars>>

Fresh(w) == proc[w] = "none" /\ \A v \in 1..(w - 1) : proc[v] # "none"

Opens(w, as) ==
    /\ Fresh(w) /\ proc' = [proc EXCEPT ![w] = as]
    /\ tab' = [tab EXCEPT ![w] = "open"]
    /\ UNCHANGED <<reported>>

\* continueRun of a run whose issue is known: its tab step.
Launch(w) ==
    /\ Serving /\ saved.status = "launching" /\ saved.phase = "issue_created"
    /\ \/ /\ Opens(w, "starting") /\ UNCHANGED at
          /\ Saves([saved EXCEPT !.phase = "tab_open", !.block = w])
       \/ /\ Saves([saved EXCEPT !.status = "failed"]) /\ at' = "announce"
          /\ UNCHANGED workerVars
    /\ UNCHANGED <<log, inboxVars>>

Announce ==
    /\ at = "announce" /\ news' = news \cup {saved.status} /\ at' = "serve"
    /\ UNCHANGED <<log, saved, mem, live, crashes, workerVars, told, orphan>>

\* A slip: a resume asks only whether the run has ended.
IfEnded(r, tern) == r.status \in Terminal /\ r.session

\* resumeRefusal; a resume in flight is refused for a while only.
MayResume(r, tern) ==
    /\ Liveness(r, tern) # "alive"
    /\ r.status \in Busy => Liveness(r, tern) # "unknown"
    /\ r.resumes < ResumeBudget /\ r.session

\* beginResume.
Begun(r) == [r EXCEPT !.finish = 0, !.status = "launching",
                 !.phase = "tab_open", !.tabClosed = FALSE, !.block = 0,
                 !.pid = 0, !.ask = Shut(r), !.from = r.offset]

\* resumeRun; mem is the record as the resume found it, until its tab is open.
Resume ==
    /\ Serving /\ at' = "resume" /\ saved' = Begun(saved)
    /\ \E tern \in Tern : MayResume(saved, tern)
    /\ UNCHANGED <<log, mem, workerVars, inboxVars>>

\* failResume.
Unresumed(r, found) ==
    [r EXCEPT !.status = found.status, !.block = 0, !.pid = 0,
              !.resumes = @ + 1]

ResumeFails ==
    /\ at = "resume" /\ at' = "serve"
    /\ Saves(Unresumed(saved, mem))
    /\ UNCHANGED <<log, live, crashes, workerVars, inboxVars>>

ResumeOpens(w) ==
    /\ at = "resume" /\ Opens(w, "reopening") /\ at' = "reopened"
    /\ mem' = [saved EXCEPT !.status = "running", !.block = w, !.resumes = 0]
    /\ UNCHANGED <<log, saved, live, crashes, inboxVars>>

\* appendEvent; Save follows.  (A log that is at its bound goes without the event.)
ResumeRecorded ==
    /\ at = "reopened" /\ at' = "save"
    /\ IF Len(log) < MaxLog THEN Records("resumed", 0) ELSE UNCHANGED log
    /\ UNCHANGED <<saved, mem, live, crashes, workerVars, inboxVars>>

-----------------------------------------------------------------------------
RunNext ==
    \/ \E w \in Workers :
          \/ WorkerStep(w) \/ Dies(w) \/ UserCloses(w)
          \/ Launch(w) \/ ResumeOpens(w)
    \/ Reconcile \/ RunCrash \/ Announce \/ Send \/ Cancel \/ Close
    \/ \E keep \in BOOLEAN : SetKeep(keep)
    \/ Resume \/ ResumeFails \/ ResumeRecorded

RunSpec == RunInit /\ [][RunNext]_runVars

\* The daemon ticks on and sometimes finds Tern answering; what it looks at for ever
\* comes to its time: a grace ends, a launch or an idle run times out, a close is due.
Fairness ==
    /\ WF_runVars(Reconcile \/ Announce \/ ResumeFails \/ ResumeRecorded)
    /\ SF_runVars(Snapshot /\ live'.known)
    /\ SF_runVars((Judge /\ at' = "reread") \/ TimeOut \/ IdleFails \/ CloseTab)

RunFairSpec == RunSpec /\ Fairness

-----------------------------------------------------------------------------
RunTypeOK ==
    /\ log \in Seq([type : {"started", "settled", "opened", "closed", "resumed"}
                              \cup Outcomes, worker : 0..MaxWorkers])
    /\ saved \in Run /\ mem \in Run
    /\ at \in {"serve", "read", "reread", "judge", "verdict", "time", "tell", "close",
               "remedy", "save", "announce", "resume", "reopened"}
    /\ live.known \in BOOLEAN /\ live.blocks \subseteq Workers
    /\ proc \in [Workers -> {"none", "starting", "reopening", "turn", "modal",
                             "prompt", "gone"}]
    /\ tab \in [Workers -> {"none", "open", "closed"}]
    /\ reported \in [Workers -> BOOLEAN]
    /\ told \subseteq 1..Len(log)
    /\ news \subseteq {"lost", "failed", "cancelled"} /\ orphan \in 0..MaxWorkers
    /\ crashes \in 0..MaxCrashes

\* The run's workers share one session file: two at once would fork it.
OneWorker == \A v, w \in Workers : Alive(v) /\ Alive(w) => v = w

\* A result the run is left with was told, however often the daemon dies
\* between the item and the record.
OutcomeTold == saved.finish # 0 => saved.finish \in told

\* A lost run was never the run of a worker whose report lies unread.
ReportBeatsLost ==
    [][saved'.status = "lost" /\ saved.status # "lost" =>
          \A i \in (saved'.offset + 1)..Len(log) :
             ~(log[i].worker = saved'.pid /\ log[i].type \in Outcomes)]_runVars

\* A tab that is to be kept is closed by nobody but its user, unless the run is
\* cancelled, whatever tick or restart finds the run ended.
KeptTabStays ==
    [][\A w \in Workers :
          /\ saved.keep /\ saved'.keep
          /\ tab[w] = "open" /\ tab'[w] = "closed" /\ at' # at
          => saved'.status = "cancelled"]_runVars

\* A run that ended stays ended, whatever its worker still says, until it is
\* resumed, or started over because it was lost.
EndedStays ==
    [][saved.status \in Terminal /\ saved'.status \notin Terminal =>
          \/ at' = "resume"
          \/ saved.status = "lost" /\ ~saved.relaunched /\ saved'.relaunched]_runVars

\* The record of a run in progress that names neither a process nor a tab.
Bare == saved.status \in Busy /\ saved.phase = "tab_open" /\ saved.pid = 0 /\ saved.block = 0

\* No time limit reaches it, and nothing judges it: its worker's fate is unknown.
Adrift == Bare /\ saved.status \in {"running", "awaiting_decision"}

Stuck == saved.status \in Busy /\ \A w \in Workers : ~Alive(w)


\* The plain claim, "No run is left non-terminal with no deadline" (supervisor.ts:8).
GoneSettles == Stuck ~> ~Stuck

\* The tab a run that ended has on record is open, whatever else the record says.
\* (A tab that the record does not name any more is nobody's to close.)
LeftOpen ==
    /\ saved.status \in Terminal /\ ~saved.keep
    /\ saved.block # 0 /\ tab[saved.block] = "open"

\* It is taken for closed, as the tab before it was, or the run's one item about a
\* tab left open names the tab before it.
Replaced == saved.tabClosed \/ orphan \notin {0, saved.block}

Renewed == []<><<Close \/ SetKeep(FALSE)>>_runVars

\* The tab of a run that ended is closed in the end, or an item names it as left
\* open, unless somebody renews its budget for ever or it replaced a tab that was
\* closed or named before it: a run's first tab is never exempt so.
TabCloses ==
    /\ Renewed \/ (LeftOpen ~> (~LeftOpen \/ orphan = saved.block \/ Replaced))
    /\ [](LeftOpen /\ Replaced => saved.block > 1)

\* The plain claim, "No orphan tabs. Every terminal run's worker tab is closed", and
\* else "one run_tab_orphan item says which block to close" (supervisor.ts:9-11).
NoOrphanTabs ==
    Renewed \/ (LeftOpen ~> (~LeftOpen \/ orphan = saved.block))

\* A run that failed, was lost or was cancelled has an item that says so.
EndsAreTold ==
    at = "serve" /\ saved.status \in Terminal \ {"completed"} =>
        \/ saved.status \in news
        \/ \E i \in told : log[i].type = saved.status

\* The result of a run that was resumed is that of its new worker.
NewReport ==
    \A w \in Workers :
        saved.finish # 0 /\ proc[w] # "none" => log[saved.finish].worker >= w

\* A task is started over only when nothing came of it.
NothingRedone ==
    [][\A w \in Workers : proc[w] = "none" /\ proc'[w] = "starting" =>
          \A i \in 1..Len(log) : log[i].type \notin Outcomes \cup {"settled"}]_runVars
=============================================================================
