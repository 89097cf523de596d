------------------------------ MODULE Background ------------------------------
(***************************************************************************)
(* Bash calls that may outlive their turn: the process manager             *)
(* (.pi/lib/tools/swarm-bgprocess.ts), the rows of the running-work store  *)
(* and the notices of what ended in the background                         *)
(* (extensions/swarm-background-bash/extension.ts).                        *)
(*                                                                         *)
(* Callbacks of the event loop are steps: what a promise that is resolved  *)
(* in one of them wakes up is over before the next one.                    *)
(***************************************************************************)
EXTENDS Naturals

CONSTANTS
    Cmds,       \* the commands
    Explicit    \* those asked for with background: true

ASSUME BackgroundAssumption == Explicit \subseteq Cmds /\ "none" \notin Cmds

VARIABLES
    child,      \* the process: not yet, alive, exited, or settled
    rec,        \* the state of its record
    bg,         \* backgrounded
    call,       \* the tool call that started it
    foreground, \* the call Ctrl+B reaches
    row,        \* its row in the running-work store
    owned,      \* commands of the session as it is loaded now
    signalled,  \* commands that were sent SIGTERM
    running,    \* the agent runs
    midRun,     \* notices that wait for the end of a turn
    told        \* how often the agent was told of a command's end

agentVars == <<running, midRun, told>>

vars == <<child, rec, bg, call, foreground, row, owned, signalled, agentVars>>

Init ==
    /\ child = [c \in Cmds |-> "none"] /\ rec = [c \in Cmds |-> "running"]
    /\ bg = {} /\ call = [c \in Cmds |-> "none"] /\ foreground = "none"
    /\ row = [c \in Cmds |-> "none"] /\ owned = {} /\ signalled = {}
    /\ running = FALSE /\ midRun = {} /\ told = [c \in Cmds |-> 0]

Waiting == {c \in Cmds : call[c] = "waiting"}

\* Calls that keep the turn from ending.
Open == {c \in Cmds : call[c] \in {"waiting", "aborting"}}

-----------------------------------------------------------------------------
\* A slip: what the agent hears while it runs is kept as well as told.
ToldToo(c) ==
    /\ midRun' = IF running THEN midRun \cup {c} ELSE midRun
    /\ told' = [told EXCEPT ![c] = @ + 1]

\* onDone: the agent is told at the end of a turn if it runs, and woken if it does
\* not.  The manager of an earlier load never hears that the agent runs.
EmitDone(c) ==
    IF running /\ c \in owned
    THEN midRun' = midRun \cup {c} /\ UNCHANGED told
    ELSE told' = [told EXCEPT ![c] = @ + 1] /\ UNCHANGED midRun

\* markBackgrounded.
MarkBackgrounded(cs) ==
    /\ bg' = bg \cup cs
    /\ row' = [c \in Cmds |-> IF c \in cs \cap owned /\ row[c] # "none" THEN "back" ELSE row[c]]

Without(cs) == IF foreground \in cs THEN "none" ELSE foreground

Calls(c, answer) == call' = [call EXCEPT ![c] = answer]

\* spawn, as executeBash finds it started.
Start(c) ==
    /\ running /\ call[c] = "none"
    /\ child' = [child EXCEPT ![c] = "alive"] /\ owned' = owned \cup {c}
    /\ IF c \in Explicit
       THEN /\ Calls(c, "moved") /\ bg' = bg \cup {c}
            /\ row' = [row EXCEPT ![c] = "back"] /\ UNCHANGED foreground
       ELSE /\ Calls(c, "waiting") /\ foreground' = c
            /\ row' = [row EXCEPT ![c] = "front"] /\ UNCHANGED bg
    /\ UNCHANGED <<rec, signalled, agentVars>>

\* The program cannot be started: the call fails, and the agent is told as well.
StartFails(c) ==
    /\ running /\ call[c] = "none"
    /\ child' = [child EXCEPT ![c] = "exited"] /\ owned' = owned \cup {c}
    /\ rec' = [rec EXCEPT ![c] = "failed"] /\ Calls(c, "error")
    /\ row' = [row EXCEPT ![c] = IF c \in Explicit THEN "back" ELSE "front"]
    /\ midRun' = midRun \cup {c}
    /\ UNCHANGED <<bg, foreground, signalled, running, told>>

\* No output for timeout_seconds, or Ctrl+B: the call returns, the process goes on.
Move(c) ==
    /\ Calls(c, "moved") /\ foreground' = Without({c}) /\ MarkBackgrounded({c})
    /\ UNCHANGED <<child, rec, owned, signalled, agentVars>>

Idle(c) == c \in Waiting /\ rec[c] = "running" /\ Move(c)

\* requestBackground.
Reachable == foreground # "none" /\ rec[foreground] = "running"

RequestBackground == Reachable /\ Move(foreground)

-----------------------------------------------------------------------------
\* The process exits by itself, or because of the signal.
Exits(c) ==
    /\ child[c] = "alive" /\ child' = [child EXCEPT ![c] = "exited"]
    /\ UNCHANGED <<rec, bg, call, foreground, row, owned, signalled, agentVars>>

Ends(c) == IF rec[c] \in {"cancelled", "failed"} THEN {rec[c]} ELSE {"completed", "failed"}

\* A slip: notices, as rows, are for the commands of this load.
NotifyOwned(c) == IF c \in bg \cap owned THEN EmitDone(c) ELSE UNCHANGED <<midRun, told>>

\* notifyTerminal.
Notify(c) == IF c \in bg THEN EmitDone(c) ELSE UNCHANGED <<midRun, told>>

\* settle: all pipes are closed, or the process exited WAIT_DELAY_MS ago.  A
\* call that waits returns the output; one that was aborted has waited for this.
Settle(c) ==
    /\ child[c] = "exited" /\ child' = [child EXCEPT ![c] = "settled"]
    /\ \E end \in Ends(c) : rec' = [rec EXCEPT ![c] = end]
    /\ row' = [row EXCEPT ![c] = IF c \in owned THEN "ended" ELSE @]
    /\ call' = [call EXCEPT ![c] = IF @ = "waiting" THEN "output"
                                   ELSE IF @ = "aborting" THEN "aborted" ELSE @]
    /\ foreground' = Without({c}) /\ Notify(c)
    /\ UNCHANGED <<bg, owned, signalled, running>>

\* cancelRecord: ReadBackgroundCommand, or the row's stop.  One that is no longer
\* running is left alone.
Cancel(c) ==
    /\ child[c] \in {"alive", "exited"} /\ rec[c] = "running"
    /\ rec' = [rec EXCEPT ![c] = "cancelled"] /\ signalled' = signalled \cup {c}
    /\ UNCHANGED <<child, bg, call, foreground, row, owned, agentVars>>

\* The turn is aborted, with each call that waits.  A call whose process is
\* being cancelled already does not wait for its end.
Abort ==
    /\ Waiting # {}
    /\ rec' = [c \in Cmds |-> IF c \in Waiting THEN "cancelled" ELSE rec[c]]
    /\ signalled' = signalled \cup Waiting
    /\ call' = [c \in Cmds |-> IF c \notin Waiting THEN call[c]
                               ELSE IF rec[c] = "running" THEN "aborting" ELSE "aborted"]
    /\ foreground' = Without(Waiting)
    /\ UNCHANGED <<child, bg, row, owned, agentVars>>

\* A slip: SIGTERM has to do.
TermOnly(c) == FALSE

InTime(c) == c \in signalled /\ child[c] = "alive"

\* SIGKILL, five seconds after SIGTERM.
Kill(c) == InTime(c) /\ Exits(c)

-----------------------------------------------------------------------------
AgentStarts ==
    /\ ~running /\ running' = TRUE
    /\ UNCHANGED <<child, rec, bg, call, foreground, row, owned, signalled, midRun, told>>

Tell(cs) == told' = [c \in Cmds |-> IF c \in cs THEN told[c] + 1 ELSE told[c]]

\* The turn ends.  If the run goes on, its notices are flushed into it; if it
\* settles, they wake the agent again.
TurnEnds ==
    /\ running /\ Open = {} /\ running' \in BOOLEAN
    /\ Tell(midRun) /\ midRun' = {}
    /\ UNCHANGED <<child, rec, bg, call, foreground, row, owned, signalled>>

\* /reload: the rows stay, the commands are of an earlier load.
Reload ==
    /\ ~running /\ owned' = {}
    /\ UNCHANGED <<child, rec, bg, call, foreground, row, signalled, agentVars>>

Command(c) ==
    Start(c) \/ StartFails(c) \/ Idle(c) \/ Exits(c) \/ Settle(c) \/ Cancel(c) \/ Kill(c)

Next ==
    \/ \E c \in Cmds : Command(c)
    \/ RequestBackground \/ Abort \/ AgentStarts \/ TurnEnds \/ Reload

Spec == Init /\ [][Next]_vars

\* Timers and pipes go on, a turn without open calls ends, and a command that is
\* waited for ends or falls silent at last.
FairSpec ==
    /\ Spec /\ WF_vars(TurnEnds)
    /\ \A c \in Cmds : /\ WF_vars(Settle(c)) /\ WF_vars(Kill(c))
                       /\ WF_vars(c \in Waiting /\ (Idle(c) \/ Exits(c)))

-----------------------------------------------------------------------------
TypeOK ==
    /\ child \in [Cmds -> {"none", "alive", "exited", "settled"}]
    /\ rec \in [Cmds -> {"running", "completed", "failed", "cancelled"}]
    /\ bg \subseteq Cmds /\ owned \subseteq Cmds /\ signalled \subseteq Cmds
    /\ call \in [Cmds -> {"none", "waiting", "aborting", "moved", "output", "aborted", "error"}]
    /\ foreground \in Cmds \cup {"none"}
    /\ row \in [Cmds -> {"none", "front", "back", "ended"}]
    /\ running \in BOOLEAN /\ midRun \subseteq Cmds /\ told \in [Cmds -> Nat]

\* The agent learns of an end in one way: from the call, or from one notice.  A
\* command that could not be started is the exception, told by its call and by a
\* notice (swarm-bgprocess.ts:467-470); it too has one notice at most.
ToldOneWay ==
    \A c \in Cmds :
        LET notices == told[c] + (IF c \in midRun THEN 1 ELSE 0)
        IN  notices <= 1 /\ (call[c] \notin {"moved", "error"} => notices = 0)

\* Ctrl+B never takes a call off the turn that is over.
ReachesACall == foreground # "none" => call[foreground] = "waiting"

\* A running command of this session is shown by the turn if its call waits, and
\* in the running-work bar if not.
OneIndicator ==
    \A c \in owned : child[c] # "none" /\ rec[c] = "running" =>
        /\ row[c] = "front" <=> call[c] = "waiting"
        /\ row[c] = "back" <=> call[c] = "moved"

\* What was cancelled is not reported as completed.
CancelledStays == [][\A c \in Cmds : rec[c] = "cancelled" => rec'[c] = "cancelled"]_rec

\* A command that was cancelled ends, and so does a call that was aborted.
CancelEnds ==
    \A c \in Cmds : c \in signalled ~> child[c] = "settled" /\ c \notin Open

\* The agent is told of each end in the background.
MovedIsTold == \A c \in Cmds : (call[c] = "moved" /\ child[c] = "settled") ~> told[c] = 1

\* A row that says its call is waited for can be moved by Ctrl+B.
ButtonWorks == (\E c \in Waiting : rec[c] = "running" /\ row[c] = "front") => Reachable
=============================================================================
