------------------------------- MODULE ClawLock -------------------------------
(***************************************************************************)
(* The Claw daemon as a process: how it claims, keeps and gives up         *)
(* daemon.lock (.pi/lib/claw/daemon.ts), how a session replaces a daemon of*)
(* old code (lifecycle.ts) and waits for an answer (orchestrator.ts).      *)
(*                                                                         *)
(* Each system call on the lock is a step.  A file is made, or emptied,    *)
(* before it is filled; who has it open writes to no path once it is       *)
(* removed.  A pid means the same process until the machine is booted      *)
(* again, and after that it may be anybody's.                              *)
(***************************************************************************)
EXTENDS Naturals

CONSTANTS
    Pids,           \* process numbers
    MaxBoots,       \* bound: boots of the machine
    MaxEdits,       \* bound: versions of the code
    MaxFaults       \* bound: daemons killed, or started by another session

ASSUME LockAssumption ==
    MaxBoots \in Nat \ {0} /\ MaxEdits \in Nat \ {0} /\ MaxFaults \in Nat

VARIABLES
    lock,       \* daemon.lock: pid, processStart (the boot) and fingerprint
    open,       \* the processes that have the file at its path open
    proc,       \* the processes: kind, boot, code and what they do next
    session,    \* what a session does next, and the pid it means to stop
    asked,      \* the session's request: not written, queued or answered
    disk,       \* the version of the code on disk
    boot, faults

vars == <<lock, open, proc, session, asked, disk, boot, faults>>

Claiming == {"create", "fill", "look", "remove", "confirm"}

Looping == {"serve", "beat", "refill", "check", "tick", "rest"}

Gone == [pid |-> "gone", boot |-> 0, code |-> 0]

Empty == [pid |-> "empty", boot |-> 0, code |-> 0]

Nobody == [kind |-> "none", boot |-> 0, code |-> 0, step |-> "none", tries |-> 0]

Idle == [step |-> "idle", pid |-> "none", then |-> "idle"]

Init ==
    /\ lock = Gone /\ open = {} /\ proc = [p \in Pids |-> Nobody]
    /\ session = Idle /\ asked = "no" /\ disk = 1 /\ boot = 1 /\ faults = 0

Alive(p) == p \in Pids /\ proc[p].kind # "none"

IsDaemon(p) == proc[p].kind = "daemon"

Serving(p) == IsDaemon(p) /\ proc[p].step \in Looping

\* lockOwnerAlive: a number of an earlier boot is somebody else's.
OwnerAlive == Alive(lock.pid) /\ proc[lock.pid].boot = lock.boot

At(p, step) == IsDaemon(p) /\ proc[p].step = step

Goto(p, step) == proc' = [proc EXCEPT ![p].step = step]

Exit(p) == proc' = [proc EXCEPT ![p] = Nobody]

Mine(p) == [pid |-> p, boot |-> proc[p].boot, code |-> proc[p].code]

-----------------------------------------------------------------------------
\* claimLock.
Create(p) ==
    /\ At(p, "create")
    /\ IF lock = Gone
       THEN lock' = Empty /\ open' = {p} /\ Goto(p, "fill")
       ELSE UNCHANGED <<lock, open>> /\ Goto(p, "look")

Fill(p) ==
    /\ At(p, "fill") /\ lock' = IF p \in open THEN Mine(p) ELSE lock
    /\ open' = open \ {p} /\ Goto(p, "confirm")

\* A slip: a lock is its owner's as long as its number is in use.
OwnedByNumber(p) == lock.pid # p /\ Alive(lock.pid)

OwnedByAnother(p) == lock.pid # p /\ OwnerAlive

Look(p) ==
    /\ At(p, "look") /\ UNCHANGED <<lock, open>>
    /\ IF OwnedByAnother(p) THEN Exit(p) ELSE Goto(p, "remove")

Attempts == 2

Remove(p) ==
    /\ At(p, "remove") /\ lock' = Gone /\ open' = {}
    /\ IF proc[p].tries + 1 = Attempts THEN Exit(p)
       ELSE proc' = [proc EXCEPT ![p].step = "create", ![p].tries = @ + 1]

Confirm(p) ==
    /\ At(p, "confirm") /\ UNCHANGED <<lock, open>>
    /\ IF lock.pid = p THEN Goto(p, "serve") ELSE Exit(p)

-----------------------------------------------------------------------------
\* A slip: a daemon takes whatever lock it finds for its own.
AnyLock(p) == lock # Gone

IsMine(p) == lock.pid = p

\* runDaemon: heartbeat, then the code is compared, then a tick.
Heartbeat(p) ==
    /\ At(p, "serve") /\ UNCHANGED <<lock, open>>
    /\ Goto(p, IF IsMine(p) THEN "beat" ELSE "leave")

EmptyFile(p) ==
    /\ At(p, "beat") /\ lock' = Empty /\ Goto(p, "refill")
    /\ open' = IF lock = Gone THEN {p} ELSE open \cup {p}

\* A slip: the stamp of the code is not written again.
Unstamped(p) == [Mine(p) EXCEPT !.code = 0]

Beat(p) == Mine(p)

Refill(p) ==
    /\ At(p, "refill") /\ lock' = IF p \in open THEN Beat(p) ELSE lock
    /\ open' = open \ {p} /\ Goto(p, "check")

\* A lock without a stamp proves nothing.
CheckCode(p) ==
    /\ At(p, "check") /\ UNCHANGED <<lock, open>>
    /\ Goto(p, IF lock.code \notin {0, disk} THEN "leave" ELSE "tick")

Tick(p) ==
    /\ At(p, "tick") /\ Goto(p, "rest")
    /\ asked' = IF asked = "queued" THEN "answered" ELSE asked

\* TICK_MS is longer than another daemon's heartbeat takes.
Rest(p) ==
    /\ At(p, "rest")
    /\ \/ (\A q \in Pids : ~(At(q, "beat") \/ At(q, "refill"))) /\ Goto(p, "serve")
       \/ asked # "queued" /\ Goto(p, "leave")

\* releaseLock.
Leave(p) ==
    /\ At(p, "leave") /\ UNCHANGED <<lock, open>>
    /\ IF lock.pid = p THEN Goto(p, "unlink") ELSE Exit(p)

Unlink(p) == At(p, "unlink") /\ lock' = Gone /\ open' = {} /\ Exit(p)

Daemon(p) ==
    /\ \/ /\ \/ Create(p) \/ Fill(p) \/ Look(p) \/ Remove(p) \/ Confirm(p)
             \/ Heartbeat(p) \/ EmptyFile(p) \/ Refill(p) \/ CheckCode(p)
             \/ Leave(p) \/ Unlink(p)
          /\ UNCHANGED asked
       \/ Tick(p) /\ UNCHANGED <<lock, open>>
       \/ Rest(p) /\ UNCHANGED <<lock, open, asked>>
    /\ UNCHANGED <<session, disk, boot, faults>>

-----------------------------------------------------------------------------
\* A process gets a number nobody means.
Free(p) ==
    /\ proc[p].kind = "none" /\ session.pid # p
    /\ ~(lock.pid = p /\ lock.boot = boot)

Start(p) ==
    /\ Free(p)
    /\ proc' = [proc EXCEPT ![p] =
         [kind |-> "daemon", boot |-> boot, code |-> disk, step |-> "create", tries |-> 0]]

Step(step) == session' = [session EXCEPT !.step = step]

\* request: a live daemon of other code is replaced first.
Ask ==
    /\ session.step = "idle" /\ asked = "no"
    /\ session' = [Idle EXCEPT !.then = "write",
                     !.step = IF OwnerAlive /\ lock.code # disk THEN "refresh" ELSE "write"]
    /\ UNCHANGED <<lock, open, proc, asked>>

\* checkDaemonCode: a session begins, or Claw is switched on in it.
CheckDaemonCode(then) ==
    /\ session.step = "idle" /\ asked = "no"
    /\ session' = [Idle EXCEPT !.step = "refresh", !.then = then]
    /\ UNCHANGED <<lock, open, proc, asked>>

Done == [session EXCEPT !.step = session.then, !.pid = "none"]

IsCurrent == lock.code = disk

\* refreshDaemon, which trusts the number.
Refresh ==
    /\ session.step = "refresh"
    /\ session' = IF lock.pid \notin Pids THEN Done
                  ELSE IF ~Alive(lock.pid)
                  THEN [session EXCEPT !.step = "sweep", !.pid = lock.pid]
                  ELSE IF IsCurrent THEN Done ELSE [session EXCEPT !.step = "stop"]
    /\ UNCHANGED <<lock, open, proc, asked>>

\* Claw was switched on: a daemon is started if there is none.
SwitchOn ==
    /\ session.step = "start" /\ session' = Idle
    /\ IF OwnerAlive THEN UNCHANGED proc ELSE \E p \in Pids : Start(p)
    /\ UNCHANGED <<lock, open, asked>>

\* A slip: what the process runs is not looked at.
AnyProcess(p) == TRUE

MayStop(p) == IsDaemon(p)

\* stopDaemon.  With no lock left it reports that nothing could be stopped, and
\* the call fails.
Stop ==
    /\ session.step = "stop"
    /\ session' = IF lock.pid \notin Pids THEN Idle
                  ELSE [session EXCEPT !.pid = lock.pid,
                          !.step = IF Alive(lock.pid) /\ MayStop(lock.pid) THEN "signal"
                                   ELSE "sweep"]
    /\ UNCHANGED <<lock, open, proc, asked>>

\* SIGTERM: a daemon that has its lock gives it up; before that it just dies.  A
\* step that does not wait for anything is finished first.
Signal ==
    LET p == session.pid
    IN  /\ session.step = "signal" /\ Step("wait")
        /\ ~(IsDaemon(p) /\ proc[p].step \in {"beat", "refill", "check"})
        /\ IF proc[p].kind = "stranger" \/ proc[p].step \in Claiming
           THEN Exit(p)
           ELSE IF Serving(p) THEN Goto(p, "leave") ELSE UNCHANGED proc
        /\ UNCHANGED <<lock, open, asked>>

Stopped ==
    /\ session.step = "wait" /\ ~Alive(session.pid)
    /\ session' = Done
    /\ UNCHANGED <<lock, open, proc, asked>>

\* SIGKILL, when the daemon did not go in time.
Kill ==
    /\ session.step = "wait" /\ IsDaemon(session.pid)
    /\ Exit(session.pid) /\ open' = open \ {session.pid}
    /\ UNCHANGED <<lock, session, asked>>

\* releaseLockOf.
Sweep ==
    /\ session.step = "sweep"
    /\ session' = IF lock.pid = session.pid THEN [session EXCEPT !.step = "unlink"] ELSE Done
    /\ UNCHANGED <<lock, open, proc, asked>>

SweepUnlink ==
    /\ session.step = "unlink" /\ session' = Done
    /\ lock' = Gone /\ open' = {} /\ UNCHANGED <<proc, asked>>

WriteRequest ==
    /\ session.step = "write" /\ session' = [Idle EXCEPT !.step = "ensure"]
    /\ asked' = "queued" /\ UNCHANGED <<lock, open, proc>>

\* ensureDaemon, again and again until there is an answer.  It waits five seconds
\* before it looks again: a daemon it started has its lock, or is gone, by then.
Ensure ==
    /\ session.step = "ensure" /\ asked = "queued" /\ UNCHANGED session
    /\ \A p \in Pids : ~(IsDaemon(p) /\ proc[p].step \in Claiming)
    /\ ~OwnerAlive /\ \E p \in Pids : Start(p)
    /\ UNCHANGED <<lock, open, asked>>

Answered ==
    /\ session.step = "ensure" /\ asked = "answered"
    /\ session' = Idle /\ asked' = "no" /\ UNCHANGED <<lock, open, proc>>

Session ==
    /\ \/ Ask \/ CheckDaemonCode("start") \/ CheckDaemonCode("idle")
       \/ SwitchOn \/ Refresh \/ Stop \/ Signal \/ Stopped \/ Kill \/ Sweep
       \/ SweepUnlink \/ WriteRequest \/ Ensure \/ Answered
    /\ UNCHANGED <<disk, boot, faults>>

-----------------------------------------------------------------------------
Edit ==
    /\ disk < MaxEdits /\ disk' = disk + 1
    /\ UNCHANGED <<lock, open, proc, session, asked, boot, faults>>

\* The session is gone with the machine, and so is whoever waits for an answer.
Reboot ==
    /\ boot < MaxBoots /\ boot' = boot + 1
    /\ proc' = [p \in Pids |-> Nobody] /\ open' = {}
    /\ session' = Idle /\ asked' = "no"
    /\ UNCHANGED <<lock, disk, faults>>

\* After it a program that is no daemon may have the number the lock names.
Stranger(p) ==
    /\ lock.pid = p /\ lock.boot # boot /\ proc[p].kind = "none" /\ session.pid # p
    /\ proc' = [proc EXCEPT ![p] = [Nobody EXCEPT !.kind = "stranger", !.boot = boot]]
    /\ UNCHANGED <<lock, open, session, asked, disk, boot, faults>>

StrangerEnds(p) ==
    /\ proc[p].kind = "stranger" /\ Exit(p)
    /\ UNCHANGED <<lock, open, session, asked, disk, boot, faults>>

\* A daemon is killed, or another session starts one.
Fault(p) ==
    /\ faults < MaxFaults /\ faults' = faults + 1
    /\ \/ IsDaemon(p) /\ Exit(p) /\ open' = open \ {p}
       \/ Start(p) /\ UNCHANGED open
    /\ UNCHANGED <<lock, session, asked, disk, boot>>

Next ==
    \/ \E p \in Pids : Daemon(p) \/ Stranger(p) \/ StrangerEnds(p) \/ Fault(p)
    \/ Session \/ Edit \/ Reboot

Spec == Init /\ [][Next]_vars

\* Processes run, a session goes on with its call, and no number is taken for ever.
FairSpec ==
    /\ Spec /\ \A p \in Pids : SF_vars(Daemon(p)) /\ WF_vars(StrangerEnds(p))
    /\ WF_vars(Session)

-----------------------------------------------------------------------------
Locks == {Gone, Empty} \cup [pid : Pids, boot : 1..MaxBoots, code : 0..MaxEdits]

TypeOK ==
    /\ lock \in Locks /\ open \subseteq Pids
    /\ proc \in [Pids -> [kind : {"none", "daemon", "stranger"}, boot : 0..MaxBoots,
                          code : 0..MaxEdits, tries : 0..1,
                          step : {"none", "leave", "unlink"} \cup Claiming \cup Looping]]
    /\ session \in [step : {"idle", "refresh", "stop", "signal", "wait", "sweep",
                            "unlink", "write", "ensure", "start"},
                    then : {"idle", "write", "start"},
                    pid : Pids \cup {"none"}]
    /\ asked \in {"no", "queued", "answered"}
    /\ disk \in 1..MaxEdits /\ boot \in 1..MaxBoots /\ faults \in 0..MaxFaults

Overlap == \E p, q \in Pids : p # q /\ Serving(p) /\ Serving(q)

\* Of two daemons one finds the lock of a live owner and does not serve.
OneServes == ~Overlap

\* Whatever number the lock names, replacing a daemon stops no other program.
StrangersLive ==
    [][boot' = boot =>
          \A p \in Pids : proc[p].kind = "stranger" => proc'[p].kind = "stranger"]_session

\* Two daemons that both serve do not go on together.
OverlapEnds == Overlap ~> ~Overlap

\* A daemon does not go on with code that is no longer on disk.
OldCodeLeaves ==
    LET old == \E p \in Pids : Serving(p) /\ proc[p].code # disk
    IN  old ~> ~old

\* A session that waits for an answer gets one, whichever daemon it comes from.
CallAnswered == asked = "queued" ~> asked # "queued"
=============================================================================
