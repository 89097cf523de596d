---------------------------- MODULE ClawLockProofs ----------------------------
(***************************************************************************)
(* Proofs about ClawLock, for any process numbers, boots, versions of the  *)
(* code and faults: type correctness, and that replacing a daemon stops no *)
(* other program.                                                          *)
(***************************************************************************)
EXTENDS ClawLock, TLAPS

Process == [kind : {"none", "daemon", "stranger"}, boot : 0..MaxBoots,
            code : 0..MaxEdits, tries : 0..1,
            step : {"none", "leave", "unlink"} \cup Claiming \cup Looping]

Call == [step : {"idle", "refresh", "stop", "signal", "wait", "sweep",
                 "unlink", "write", "ensure", "start"},
         then : {"idle", "write", "start"}, pid : Pids \cup {"none"}]

\* A daemon runs under a boot there was.
DaemonsBooted == \A p \in Pids : IsDaemon(p) => proc[p].boot \in 1..MaxBoots

\* The number a session is about to signal, or has signalled, is no other
\* program's: nobody gets a number that a call still means.
Meant ==
    session.step \in {"signal", "wait"} =>
        session.pid \in Pids /\ proc[session.pid].kind # "stranger"

IInv == TypeOK /\ DaemonsBooted /\ Meant

LEMMA Numbers == MaxBoots \in Nat /\ MaxBoots >= 1 /\ MaxEdits \in Nat /\ MaxEdits >= 1 /\ MaxFaults \in Nat
  BY LockAssumption

LEMMA NobodyIs == Nobody \in Process /\ Nobody.kind = "none"
  BY Numbers DEF Nobody, Process

-----------------------------------------------------------------------------
(* What a process does to the processes.                                   *)

\* Processes may end, start, or go on as what they are.
Changes(p) ==
    /\ proc' \in [Pids -> Process]
    /\ \A q \in Pids : q # p => proc'[q] = proc[q]
    /\ proc'[p].kind = "daemon" => proc'[p].boot \in 1..MaxBoots

LEMMA GotoIs ==
    ASSUME IInv, NEW p \in Pids, NEW step \in {"leave", "unlink"} \cup Claiming \cup Looping,
           Goto(p, step)
    PROVE  Changes(p) /\ proc'[p].kind = proc[p].kind
  <1>1. proc \in [Pids -> Process]
    BY DEF IInv, TypeOK, Process
  <1>2. proc[p] \in Process
    BY <1>1
  <1>3. proc' = [proc EXCEPT ![p] = [proc[p] EXCEPT !.step = step]]
    BY DEF Goto
  <1> DEFINE x == [proc[p] EXCEPT !.step = step]
  <1>4. x \in Process /\ x.kind = proc[p].kind /\ x.boot = proc[p].boot
    BY <1>2 DEF Process
  <1> HIDE DEF x
  <1>5. proc' \in [Pids -> Process] /\ proc'[p] = x /\ \A q \in Pids : q # p => proc'[q] = proc[q]
    BY <1>1, <1>3, <1>4 DEF x
  <1> QED
    BY <1>4, <1>5 DEF Changes, IInv, DaemonsBooted, IsDaemon

LEMMA ExitIs ==
    ASSUME IInv, NEW p \in Pids, Exit(p)
    PROVE  Changes(p) /\ proc'[p].kind = "none"
  <1>1. proc \in [Pids -> Process]
    BY DEF IInv, TypeOK, Process
  <1>2. proc' \in [Pids -> Process] /\ proc'[p] = Nobody /\ \A q \in Pids : q # p => proc'[q] = proc[q]
    BY <1>1, NobodyIs DEF Exit
  <1> QED
    BY <1>2, NobodyIs DEF Changes

LEMMA StartIs ==
    ASSUME IInv, NEW p \in Pids, Start(p)
    PROVE  Changes(p) /\ proc'[p].kind = "daemon" /\ session.pid # p
  <1>1. proc \in [Pids -> Process]
    BY DEF IInv, TypeOK, Process
  <1> DEFINE x == [kind |-> "daemon", boot |-> boot, code |-> disk, step |-> "create", tries |-> 0]
  <1>2. x \in Process /\ x.kind = "daemon" /\ x.boot \in 1..MaxBoots
    BY Numbers DEF IInv, TypeOK, Process, Claiming
  <1>3. proc' = [proc EXCEPT ![p] = x] /\ session.pid # p
    BY DEF Start, Free
  <1> HIDE DEF x
  <1>4. proc' \in [Pids -> Process] /\ proc'[p] = x /\ \A q \in Pids : q # p => proc'[q] = proc[q]
    BY <1>1, <1>2, <1>3
  <1> QED
    BY <1>2, <1>3, <1>4 DEF Changes

\* What is left alone, or changed so, keeps the invariant.
LEMMA StillMeant ==
    ASSUME IInv, NEW p \in Pids, Changes(p), proc'[p].kind # "stranger" \/ session.pid # p,
           session'.step \in {"signal", "wait"} =>
               session.step \in {"signal", "wait"} /\ session'.pid = session.pid
    PROVE  DaemonsBooted' /\ Meant'
  <1>1. DaemonsBooted'
    BY DEF Changes, IInv, DaemonsBooted, IsDaemon
  <1>2. Meant'
    BY DEF Changes, IInv, Meant
  <1> QED
    BY <1>1, <1>2

-----------------------------------------------------------------------------
LEMMA MineIs ==
    ASSUME IInv, NEW p \in Pids, IsDaemon(p)
    PROVE  Mine(p) \in Locks
  <1>1. proc[p].boot \in 1..MaxBoots /\ proc[p].code \in 0..MaxEdits
    BY DEF IInv, TypeOK, DaemonsBooted
  <1> QED
    BY <1>1 DEF Mine, Locks

(* A step of a daemon.                                                     *)
LEMMA DaemonKeeps ==
    ASSUME IInv, NEW p \in Pids, Daemon(p)
    PROVE  IInv'
  <1>1. IsDaemon(p) /\ UNCHANGED <<session, disk, boot, faults>>
    BY DEF Daemon, Create, Fill, Look, Remove, Confirm, Heartbeat, EmptyFile, Refill, CheckCode,
           Leave, Unlink, Tick, Rest, At
  <1>2. lock' \in Locks
    <2>1. Mine(p) \in Locks /\ lock \in Locks /\ Gone \in Locks /\ Empty \in Locks
      BY <1>1, MineIs DEF IInv, TypeOK, Locks
    <2> QED
      BY <2>1 DEF Daemon, Create, Fill, Look, Remove, Confirm, Heartbeat, EmptyFile, Refill,
                  CheckCode, Leave, Unlink, Tick, Rest, Beat
  <1>3. open' \subseteq Pids /\ asked' \in {"no", "queued", "answered"}
    BY DEF Daemon, Create, Fill, Look, Remove, Confirm, Heartbeat, EmptyFile, Refill,
           CheckCode, Leave, Unlink, Tick, Rest, IInv, TypeOK
  <1>4. Changes(p) /\ proc'[p].kind \in {"none", proc[p].kind}
    <2> DEFINE Steps == {"leave", "unlink"} \cup Claiming \cup Looping
    <2>1. CASE \E step \in Steps : Goto(p, step)
      BY <2>1, GotoIs
    <2>2. CASE Exit(p)
      BY <2>2, ExitIs
    <2>3. CASE Remove(p) /\ proc[p].tries + 1 # Attempts
      <3> DEFINE x == [proc[p] EXCEPT !.step = "create", !.tries = @ + 1]
      <3>1. proc \in [Pids -> Process] /\ proc[p] \in Process
        BY DEF IInv, TypeOK, Process
      <3>2. proc[p].tries = 0
        BY <2>3, <3>1 DEF Attempts, Process
      <3>3. x \in Process /\ x.kind = proc[p].kind /\ x.boot = proc[p].boot
        <4> DEFINE y == proc[p]
        <4>1. /\ y \in Process /\ y.tries = 0 /\ y.tries + 1 = 1
              /\ x = [y EXCEPT !.step = "create", !.tries = y.tries + 1]
          BY <3>1, <3>2
        <4> HIDE DEF x, y
        <4>2. x = [y EXCEPT !.step = "create", !.tries = 1]
          BY <4>1
        <4> DEFINE z == [y EXCEPT !.step = "create"]
        <4>4. z \in Process /\ z.kind = y.kind /\ z.boot = y.boot
          BY <4>1 DEF Process, Claiming
        <4>5. x = [z EXCEPT !.tries = 1]
          BY <4>2
        <4> HIDE DEF z
        <4>3. x \in Process /\ x.kind = y.kind /\ x.boot = y.boot
          BY <4>4, <4>5 DEF Process
        <4> QED
          BY <4>3 DEF y
      <3>4. proc' = [proc EXCEPT ![p] = x]
        BY <2>3 DEF Remove
      <3> HIDE DEF x
      <3>5. proc' \in [Pids -> Process] /\ proc'[p] = x
            /\ \A q \in Pids : q # p => proc'[q] = proc[q]
        BY <3>1, <3>3, <3>4
      <3> QED
        BY <3>3, <3>5 DEF Changes, IInv, DaemonsBooted, IsDaemon
    <2>4. \/ \E step \in Steps : Goto(p, step)
          \/ Exit(p)
          \/ Remove(p) /\ proc[p].tries + 1 # Attempts
      BY DEF Daemon, Create, Fill, Look, Remove, Confirm, Heartbeat, EmptyFile, Refill, CheckCode,
             Leave, Unlink, Tick, Rest, Claiming, Looping
    <2> QED
      BY <2>1, <2>2, <2>3, <2>4
  <1>5. proc'[p].kind # "stranger"
    BY <1>1, <1>4 DEF IsDaemon
  <1>6. DaemonsBooted' /\ Meant'
    BY <1>1, <1>4, <1>5, StillMeant
  <1>7. TypeOK'
    BY <1>1, <1>2, <1>3, <1>4 DEF IInv, TypeOK, Changes, Process, Locks
  <1> QED
    BY <1>6, <1>7 DEF IInv

-----------------------------------------------------------------------------
(* A step of a session.                                                    *)

LEMMA CallIs ==
    ASSUME IInv
    PROVE  session \in Call /\ Done \in Call /\ Idle \in Call /\ Done.step = session.then
  BY DEF IInv, TypeOK, Call, Done, Idle

LEMMA SessionType ==
    ASSUME IInv, Session
    PROVE  session' \in Call
  <1>1. session \in Call /\ Done \in Call /\ Idle \in Call
    BY CallIs
  <1>2. CASE Ask
    BY <1>2 DEF Ask, Idle, Call
  <1>3. ASSUME NEW then \in {"start", "idle"}, CheckDaemonCode(then)
        PROVE  session' \in Call
    BY <1>3 DEF CheckDaemonCode, Idle, Call
  <1>4. CASE Refresh
    BY <1>1, <1>4 DEF Refresh, Call
  <1>5. CASE Stop
    BY <1>1, <1>5 DEF Stop, Call
  <1>6. CASE Signal \/ Sweep
    BY <1>1, <1>6 DEF Signal, Sweep, Step, Call
  <1>7. CASE WriteRequest
    BY <1>7 DEF WriteRequest, Idle, Call
  <1>8. CASE SwitchOn \/ Stopped \/ Kill \/ SweepUnlink \/ Ensure \/ Answered
    BY <1>1, <1>8 DEF SwitchOn, Stopped, Kill, SweepUnlink, Ensure, Answered
  <1> QED
    BY <1>2, <1>3, <1>4, <1>5, <1>6, <1>7, <1>8 DEF Session

\* What a session's call means to signal was a daemon when it looked.
LEMMA CallsMean ==
    ASSUME IInv, Session, session'.step \in {"signal", "wait"}
    PROVE  \/ session.step \in {"signal", "wait"} /\ session'.pid = session.pid
           \/ Stop /\ session'.pid = lock.pid /\ lock.pid \in Pids /\ IsDaemon(lock.pid)
  <1>1. session \in Call /\ Done.step \in {"idle", "write", "start"}
    BY CallIs DEF Call
  <1>2. CASE Stop
    BY <1>1, <1>2 DEF Stop, MayStop, Idle, Call
  <1>3. CASE Signal
    BY <1>1, <1>3 DEF Signal, Step, Call
  <1>4. CASE Kill \/ Ensure
    BY <1>4 DEF Kill, Ensure
  <1>5. CASE Ask \/ CheckDaemonCode("start") \/ CheckDaemonCode("idle") \/ SwitchOn \/ WriteRequest
    <2>1. CASE Ask
      <3>1. session'.step \in {"refresh", "write"}
        BY <2>1 DEF Ask, Idle
      <3> QED
        BY <3>1
    <2>2. ASSUME NEW then, CheckDaemonCode(then) PROVE FALSE
      BY <2>2 DEF CheckDaemonCode, Idle
    <2>3. CASE SwitchOn
      BY <2>3 DEF SwitchOn, Idle
    <2>4. CASE WriteRequest
      BY <2>4 DEF WriteRequest, Idle
    <2> QED
      BY <1>5, <2>1, <2>2, <2>3, <2>4
  <1>6. CASE Refresh \/ Sweep
    BY <1>1, <1>6 DEF Refresh, Sweep, Call
  <1>7. CASE Stopped \/ SweepUnlink \/ Answered
    BY <1>1, <1>7 DEF Stopped, SweepUnlink, Answered, Idle
  <1> QED
    BY <1>2, <1>3, <1>4, <1>5, <1>6, <1>7 DEF Session

\* A session's step leaves the processes alone, or changes one, which is not a
\* program's.
LEMMA SessionChanges ==
    ASSUME IInv, Session
    PROVE  \/ proc' = proc
           \/ \E p \in Pids : Changes(p) /\ proc'[p].kind # "stranger" /\ proc[p].kind # "stranger"
  <1>1. CASE Signal /\ proc' # proc
    <2> DEFINE p == session.pid
    <2>1. p \in Pids /\ proc[p].kind # "stranger"
      BY <1>1 DEF Signal, IInv, Meant
    <2>2. Exit(p) \/ Goto(p, "leave")
      BY <1>1 DEF Signal
    <2>3. Changes(p) /\ proc'[p].kind \in {"none", proc[p].kind}
      BY <2>1, <2>2, ExitIs, GotoIs
    <2> QED
      BY <2>1, <2>3
  <1>2. CASE Kill
    <2> DEFINE p == session.pid
    <2>1. p \in Pids /\ proc[p].kind # "stranger" /\ Exit(p)
      BY <1>2 DEF Kill, IInv, Meant
    <2> QED
      BY <2>1, ExitIs
  <1>3. CASE (SwitchOn \/ Ensure) /\ proc' # proc
    <2>1. PICK p \in Pids : Start(p)
      BY <1>3 DEF SwitchOn, Ensure
    <2>2. proc[p].kind # "stranger"
      BY <2>1 DEF Start, Free
    <2> QED
      BY <2>1, <2>2, StartIs
  <1> QED
    BY <1>1, <1>2, <1>3 DEF Session, Ask, CheckDaemonCode, Refresh, Stop, Stopped, Sweep,
                            SweepUnlink, WriteRequest, Answered

LEMMA SessionKeeps ==
    ASSUME IInv, Session
    PROVE  IInv'
  <1>1. session' \in Call
    BY SessionType
  <1>2. /\ lock' \in Locks /\ open' \subseteq Pids /\ asked' \in {"no", "queued", "answered"}
        /\ UNCHANGED <<disk, boot, faults>>
    BY DEF Session, Ask, CheckDaemonCode, SwitchOn, Refresh, Stop, Signal, Stopped, Kill, Sweep,
           SweepUnlink, WriteRequest, Ensure, Answered, IInv, TypeOK, Locks
  <1>3. proc' \in [Pids -> Process] /\ DaemonsBooted'
    <2>1. proc \in [Pids -> Process] /\ DaemonsBooted
      BY DEF IInv, TypeOK, Process
    <2>2. CASE proc' = proc
      BY <2>1, <2>2 DEF DaemonsBooted, IsDaemon
    <2>3. ASSUME NEW p \in Pids, Changes(p)
          PROVE  proc' \in [Pids -> Process] /\ DaemonsBooted'
      BY <2>1, <2>3 DEF Changes, DaemonsBooted, IsDaemon
    <2> QED
      BY <2>2, <2>3, SessionChanges
  <1>4. Meant'
    <2> SUFFICES ASSUME session'.step \in {"signal", "wait"}
                 PROVE  session'.pid \in Pids /\ proc'[session'.pid].kind # "stranger"
      BY DEF Meant
    <2>1. session'.pid \in Pids /\ proc[session'.pid].kind # "stranger"
      BY CallsMean DEF IInv, Meant, IsDaemon
    <2> QED
      BY <2>1, SessionChanges DEF Changes
  <1> QED
    BY <1>1, <1>2, <1>3, <1>4 DEF IInv, TypeOK, Call, Process, Locks

-----------------------------------------------------------------------------
LEMMA InitInv == Init => IInv
  <1> SUFFICES ASSUME Init PROVE IInv
    OBVIOUS
  <1>1. proc \in [Pids -> Process] /\ \A p \in Pids : proc[p].kind = "none"
    BY NobodyIs DEF Init
  <1>2. lock \in Locks /\ open \subseteq Pids /\ session \in Call /\ session.step = "idle"
    BY DEF Init, Locks, Idle, Call
  <1>3. asked \in {"no", "queued", "answered"} /\ disk \in 1..MaxEdits /\ boot \in 1..MaxBoots
        /\ faults \in 0..MaxFaults
    BY Numbers DEF Init
  <1> QED
    BY <1>1, <1>2, <1>3 DEF IInv, TypeOK, DaemonsBooted, IsDaemon, Meant, Process, Call, Locks

(* What happens around the daemons.                                        *)
LEMMA OthersKeep ==
    ASSUME IInv, NEW p \in Pids, Stranger(p) \/ StrangerEnds(p) \/ Fault(p)
    PROVE  IInv'
  <1>1. /\ UNCHANGED <<lock, session, asked, disk, boot>> /\ open' \subseteq Pids
        /\ faults' \in 0..MaxFaults
    BY Numbers DEF Stranger, StrangerEnds, Fault, IInv, TypeOK
  <1>2. Changes(p) /\ (proc'[p].kind # "stranger" \/ session.pid # p)
    <2>1. CASE Stranger(p)
      <3> DEFINE x == [Nobody EXCEPT !.kind = "stranger", !.boot = boot]
      <3>1. x \in Process /\ x.kind = "stranger"
        <4>1. boot \in 0..MaxBoots
          BY Numbers DEF IInv, TypeOK
        <4> DEFINE z == [Nobody EXCEPT !.kind = "stranger"]
        <4>2. z \in Process /\ z.kind = "stranger"
          BY NobodyIs DEF Process
        <4>3. x = [z EXCEPT !.boot = boot]
          OBVIOUS
        <4> HIDE DEF x, z
        <4> QED
          BY <4>1, <4>2, <4>3 DEF Process
      <3>2. proc \in [Pids -> Process] /\ proc' = [proc EXCEPT ![p] = x] /\ session.pid # p
        BY <2>1 DEF Stranger, IInv, TypeOK, Process
      <3> HIDE DEF x
      <3>3. proc' \in [Pids -> Process] /\ proc'[p] = x
            /\ \A q \in Pids : q # p => proc'[q] = proc[q]
        BY <3>1, <3>2
      <3> QED
        BY <3>1, <3>2, <3>3 DEF Changes
    <2>2. CASE StrangerEnds(p)
      BY <2>2, ExitIs DEF StrangerEnds
    <2>3. CASE Fault(p)
      BY <2>3, ExitIs, StartIs DEF Fault
    <2> QED
      BY <2>1, <2>2, <2>3
  <1>3. DaemonsBooted' /\ Meant'
    BY <1>1, <1>2, StillMeant
  <1> QED
    BY <1>1, <1>2, <1>3 DEF IInv, TypeOK, Changes, Process, Locks

LEMMA InvNext == IInv /\ [Next]_vars => IInv'
  <1> SUFFICES ASSUME IInv, [Next]_vars PROVE IInv'
    OBVIOUS
  <1>1. ASSUME NEW p \in Pids, Daemon(p) PROVE IInv'
    BY <1>1, DaemonKeeps
  <1>2. ASSUME NEW p \in Pids, Stranger(p) \/ StrangerEnds(p) \/ Fault(p) PROVE IInv'
    BY <1>2, OthersKeep
  <1>3. CASE Session
    BY <1>3, SessionKeeps
  <1>4. CASE Edit
    BY <1>4, Numbers DEF Edit, IInv, TypeOK, DaemonsBooted, Meant, IsDaemon, Locks
  <1>5. CASE Reboot
    <2>1. proc' \in [Pids -> Process] /\ \A p \in Pids : proc'[p].kind = "none"
      BY <1>5, NobodyIs DEF Reboot
    <2>2. session' \in Call /\ session'.step = "idle"
      BY <1>5 DEF Reboot, Idle, Call
    <2>3. /\ UNCHANGED <<lock, disk, faults>> /\ open' = {} /\ asked' = "no"
          /\ boot' \in 1..MaxBoots
      BY <1>5, Numbers DEF Reboot, IInv, TypeOK
    <2> QED
      BY <2>1, <2>2, <2>3 DEF IInv, TypeOK, DaemonsBooted, IsDaemon, Meant, Process, Call, Locks
  <1>6. CASE UNCHANGED vars
    BY <1>6 DEF vars, IInv, TypeOK, DaemonsBooted, IsDaemon, Meant, Locks
  <1> QED
    BY <1>1, <1>2, <1>3, <1>4, <1>5, <1>6 DEF Next

(* The inductive invariant.                                                *)
THEOREM LockInvariant == Spec => []IInv
  BY InitInv, InvNext, PTL DEF Spec

(* The lock, the processes and the session are what they should be.        *)
THEOREM TypeCorrect == Spec => []TypeOK
  <1>1. IInv => TypeOK
    BY DEF IInv
  <1> QED
    BY <1>1, LockInvariant, PTL

(* Whatever number the lock names after however many boots, a session that *)
(* replaces or stops a daemon ends no other program.                       *)
THEOREM NoStrangerIsStopped == Spec => StrangersLive
  <1> DEFINE A == boot' = boot =>
                    \A p \in Pids : proc[p].kind = "stranger" => proc'[p].kind = "stranger"
  <1>1. ASSUME IInv, [Next]_vars PROVE [A]_session
    <2>1. CASE Session
      <3> SUFFICES ASSUME NEW q \in Pids, proc[q].kind = "stranger" PROVE proc'[q].kind = "stranger"
        OBVIOUS
      <3> QED
        BY <1>1, <2>1, SessionChanges DEF Changes
    <2>2. CASE session' = session
      BY <2>2
    <2>3. CASE Reboot
      BY <1>1, <2>3 DEF Reboot, IInv, TypeOK
    <2>4. CASE UNCHANGED vars
      BY <2>2, <2>4 DEF vars
    <2> QED
      BY <1>1, <2>1, <2>2, <2>3, <2>4 DEF Next, Daemon, Stranger, StrangerEnds, Fault, Edit
  <1> QED
    BY <1>1, LockInvariant, PTL DEF Spec, StrangersLive
=============================================================================
