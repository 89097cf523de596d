---------------------------- MODULE ScheduleProofs ----------------------------
(***************************************************************************)
(* Proofs about Schedule: type correctness for any sessions, and, for one  *)
(* session, what a prompt and a caller can rely on, for any tasks, period, *)
(* longest delay and length of time.                                       *)
(***************************************************************************)
EXTENDS Schedule, TLAPS

(* The next time of a pattern is after now, by one period at most.         *)
LEMMA NextIsLater ==
    ASSUME clock \in Nat
    PROVE  NextTime \in Nat /\ NextTime > clock /\ NextTime <= clock + Every
  <1> DEFINE q == clock \div Every
  <1>1. Every \in Nat /\ Every > 0
    BY ScheduleAssumption
  <1>2. q \in Nat /\ Every * q <= clock /\ clock < Every * q + Every
    BY <1>1, SMTT(30)
  <1>3. NextTime = (q + 1) * Every
    BY DEF NextTime
  <1> HIDE DEF q
  <1>4. (q + 1) * Every = Every * q + Every
    BY <1>1, <1>2
  <1>5. Every * q \in Nat
    BY <1>1, <1>2
  <1> QED
    BY <1>1, <1>2, <1>3, <1>4, <1>5

-----------------------------------------------------------------------------
(* Type correctness.                                                       *)

OpType == [kind : {"none", "create", "remove", "fire"}, tasks : SUBSET Tasks, step : Steps]

LEMMA NoOpType == NoOp \in OpType
  BY DEF NoOp, OpType, Steps

LEMMA InitType == Init => TypeOK
  <1> SUFFICES ASSUME Init PROVE TypeOK
    OBVIOUS
  <1>1. op \in [Sessions -> OpType]
    BY NoOpType DEF Init
  <1>2. up \in [Sessions -> BOOLEAN] /\ troubled \in [Sessions -> BOOLEAN]
    BY DEF Init
  <1>3. /\ mem \in [Sessions -> SUBSET Tasks] /\ timer \in [Sessions -> SUBSET Nat]
        /\ waiting \in [Sessions -> 0..MaxWaiting]
    BY ScheduleAssumption DEF Init
  <1>4. /\ clock \in 0..MaxTime /\ file \subseteq Tasks /\ fired \in [Tasks -> Nat]
        /\ torn \subseteq Ids /\ overruled \subseteq Ids /\ lost \subseteq Tasks
        /\ said \in [Ids -> {"nothing", "asked", "created", "refused", "leaving", "removed"}]
    BY ScheduleAssumption DEF Init
  <1> QED
    BY <1>1, <1>2, <1>3, <1>4 DEF TypeOK, OpType

\* What a time that is in the future, or in the past, is a time of.
LEMMA TimesOf ==
    ASSUME TypeOK
    PROVE  /\ clock \in Nat /\ NextTime \in Times
           /\ \A t \in (clock + 1)..MaxTime : t \in Times
  BY NextIsLater, ScheduleAssumption DEF TypeOK, Times

LEMMA ArmType ==
    ASSUME TypeOK, NEW s \in Sessions, NEW tasks, Arm(s, tasks)
    PROVE  timer' \in [Sessions -> SUBSET Nat]
  <1>1. Wake(tasks) \subseteq Nat
    BY ScheduleAssumption DEF Wake, TypeOK
  <1> QED
    BY <1>1 DEF Arm, Put, TypeOK

LEMMA BeginType ==
    ASSUME TypeOK, NEW s \in Sessions, NEW kind \in {"create", "remove", "fire"},
           NEW tasks \in SUBSET Tasks, Begin(s, kind, tasks)
    PROVE  op' \in [Sessions -> OpType]
  <1>1. [kind |-> kind, tasks |-> tasks, step |-> "save"] \in OpType
    BY DEF OpType, Steps
  <1> QED
    BY <1>1 DEF Begin, Put, TypeOK, OpType

LEMMA RestType ==
    ASSUME TypeOK, NEW s \in Sessions
    PROVE  Rest(s) \subseteq Tasks /\ Due(s) \subseteq mem[s] /\ mem[s] \subseteq Tasks
  <1>1. mem[s] \subseteq Tasks /\ Due(s) \subseteq mem[s]
    BY DEF TypeOK, Due
  <1>2. \A y \in mem[s] : Following(y) \in Tasks
    BY <1>1, TimesOf DEF Following, Tasks
  <1> QED
    BY <1>1, <1>2 DEF Rest

LEMMA AsksType ==
    ASSUME TypeOK, NEW s \in Sessions, Asks(s)
    PROVE  TypeOK'
  <1> USE DEF toldVars, promptVars
  <1>1. CASE Start(s)
    <2>1. timer' \in [Sessions -> SUBSET Nat]
      BY <1>1, ArmType DEF Start
    <2> QED
      BY <1>1, <2>1 DEF Start, Put, TypeOK
  <1>2. CASE Stop(s)
    BY <1>2 DEF Stop, Put, TypeOK
  <1>3. CASE Crash(s)
    <2>1. op' \in [Sessions -> OpType]
      BY <1>3, NoOpType DEF Crash, Put, TypeOK, OpType
    <2> QED
      BY <1>3, <2>1, ScheduleAssumption DEF Crash, Put, TypeOK, OpType
  <1>4. ASSUME NEW i \in Ids, Create(s, i) PROVE TypeOK'
    <2>1. PICK t \in IF i \in Recurring THEN {NextTime} ELSE (clock + 1)..MaxTime :
              /\ mem' = Put(mem, s, mem[s] \cup {<<i, t>>})
              /\ Begin(s, "create", {<<i, t>>})
      BY <1>4 DEF Create
    <2>2. <<i, t>> \in Tasks
      BY TimesOf DEF Tasks
    <2>3. op' \in [Sessions -> OpType]
      BY <2>1, <2>2, BeginType
    <2>4. mem' \in [Sessions -> SUBSET Tasks]
      BY <2>1, <2>2 DEF Put, TypeOK
    <2> QED
      BY <1>4, <2>3, <2>4 DEF Create, TypeOK, OpType
  <1>5. ASSUME NEW i \in Ids, ScheduleWakeup(s, i) PROVE TypeOK'
    <2>1. PICK t \in (clock + 1)..MaxTime :
              /\ mem' = Put(mem, s, mem[s] \cup {<<i, t>>})
              /\ Arm(s, mem[s] \cup {<<i, t>>})
      BY <1>5 DEF ScheduleWakeup
    <2>2. mem' \in [Sessions -> SUBSET Tasks]
      BY <2>1, TimesOf DEF Put, TypeOK, Tasks
    <2>3. timer' \in [Sessions -> SUBSET Nat]
      BY <2>1, ArmType
    <2> QED
      BY <1>5, <2>2, <2>3 DEF ScheduleWakeup, TypeOK
  <1>6. ASSUME NEW i \in Ids, Remove(s, i) PROVE TypeOK'
    <2> DEFINE its == {x \in mem[s] : x[1] = i}
    <2>1. its \in SUBSET Tasks
      BY DEF TypeOK
    <2>2. op' \in [Sessions -> OpType]
      BY <1>6, <2>1, BeginType DEF Remove
    <2>3. mem' \in [Sessions -> SUBSET Tasks]
      BY <1>6 DEF Remove, Put, TypeOK
    <2> QED
      BY <1>6, <2>2, <2>3 DEF Remove, TypeOK, OpType
  <1> QED
    BY <1>1, <1>2, <1>3, <1>4, <1>5, <1>6 DEF Asks

LEMMA EndsType ==
    ASSUME TypeOK, NEW s \in Sessions, NEW kind, NEW step, Ends(s, kind, step)
    PROVE  op' \in [Sessions -> OpType]
  BY NoOpType DEF Ends, Put, TypeOK, OpType

LEMMA TellType ==
    ASSUME NEW s, Tell(s, "created") \/ Tell(s, "removed") \/ Tell(s, "refused"), TypeOK
    PROVE  said' \in [Ids -> {"nothing", "asked", "created", "refused", "leaving", "removed"}]
  BY DEF Tell, TypeOK

LEMMA GoesType ==
    ASSUME TypeOK, NEW s \in Sessions, Goes(s)
    PROVE  TypeOK'
  <1> USE DEF Put, toldVars, promptVars
  <1>1. CASE Save(s)
    <2>1. op' \in [Sessions -> OpType]
      <3>1. op \in [Sessions -> OpType]
        BY DEF TypeOK, OpType
      <3>2. To(s, "saved") \/ To(s, "half") \/ To(s, "failed")
        BY <1>1 DEF Save
      <3>3. PICK x \in Steps : op' = [op EXCEPT ![s] = [op[s] EXCEPT !.step = x]]
        BY <3>2 DEF To, Steps
      <3>4. [op[s] EXCEPT !.step = x] \in OpType
        BY <3>1 DEF OpType
      <3> QED
        BY <3>1, <3>3, <3>4
    <2>2. file' \subseteq Tasks /\ torn' \subseteq Ids
      BY <1>1 DEF Save, Saved, TypeOK
    <2> QED
      BY <1>1, <2>1, <2>2 DEF Save, TypeOK, OpType
  <1>2. CASE Answer(s)
    BY <1>2, EndsType, TellType, ArmType DEF Answer, TypeOK, OpType
  <1>3. CASE TakeBack(s)
    <2>1. op[s].tasks \subseteq Tasks /\ mem[s] \subseteq Tasks
      BY DEF TypeOK
    <2>2. mem' \in [Sessions -> SUBSET Tasks]
      BY <1>3, <2>1 DEF TakeBack, Undone, TypeOK
    <2>3. op' \in [Sessions -> OpType]
      BY <1>3, EndsType DEF TakeBack
    <2>4. said' \in [Ids -> {"nothing", "asked", "created", "refused", "leaving", "removed"}]
      BY <1>3, TellType DEF TakeBack, TypeOK
    <2>5. torn' \subseteq Ids
      BY <1>3, <2>1 DEF TakeBack, IdsOf, Tasks, TypeOK
    <2> QED
      BY <1>3, <2>2, <2>3, <2>4, <2>5 DEF TakeBack, TypeOK, OpType
  <1>4. CASE Deliver(s)
    <2>1. fired' \in [Tasks -> Nat] /\ lost' \subseteq Tasks
      BY <1>4 DEF Deliver, TypeOK
    <2> QED
      BY <1>4, <2>1, EndsType, ArmType DEF Deliver, TypeOK, OpType
  <1>5. CASE FiringFails(s)
    BY <1>5, EndsType DEF FiringFails, TypeOK, OpType
  <1> QED
    BY <1>1, <1>2, <1>3, <1>4, <1>5 DEF Goes

LEMMA FiringType ==
    ASSUME TypeOK, NEW s \in Sessions, Ring(s) \/ FireDue(s)
    PROVE  TypeOK'
  <1> USE DEF toldVars, promptVars
  <1>1. CASE Ring(s)
    BY <1>1, ScheduleAssumption DEF Ring, Put, TypeOK
  <1>2. CASE FireDue(s)
    <2>1. waiting' \in [Sessions -> 0..MaxWaiting]
      BY <1>2, ScheduleAssumption DEF FireDue, TypeOK
    <2>2. mem' \in [Sessions -> SUBSET Tasks]
      BY <1>2, RestType DEF FireDue, Put, TypeOK
    <2>3. op' \in [Sessions -> OpType]
      BY <1>2, RestType, BeginType DEF FireDue, TypeOK, OpType
    <2>4. timer' \in [Sessions -> SUBSET Nat]
      BY <1>2, ArmType DEF FireDue, TypeOK
    <2> QED
      BY <1>2, <2>1, <2>2, <2>3, <2>4 DEF FireDue, TypeOK, OpType
  <1> QED
    BY <1>1, <1>2

LEMMA NextType ==
    ASSUME TypeOK, [Next]_vars
    PROVE  TypeOK'
  <1> USE DEF toldVars, promptVars
  <1>1. CASE TimePasses
    BY <1>1, ScheduleAssumption DEF TimePasses, TypeOK, sessionVars
  <1>2. CASE UNCHANGED vars
    BY <1>2 DEF vars, sessionVars, TypeOK
  <1> QED
    BY <1>1, <1>2, AsksType, GoesType, FiringType DEF Next

(* Every reachable state is well typed, for any number of sessions.        *)
THEOREM TypeCorrect == Spec => []TypeOK
  BY InitType, NextType, PTL DEF Spec

-----------------------------------------------------------------------------
(* The inductive invariant.  Two sessions that share a file give a prompt   *)
(* twice: what follows is about one.                                       *)

OneSession == \E s \in Sessions : Sessions = {s}

\* A prompt was given, or the session rejected it.
Gone(x) == fired[x] = 1 \/ x \in lost

\* An operation that is yet to replace the file, or did not.
Before(s) == op[s].step \in {"save", "failed"}

\* What an operation in progress has in hand.
OpInv(s) ==
    /\ op[s] # NoOp => up[s]
    /\ op[s].step \in {"saved", "half"} =>
          file \subseteq mem[s] /\ \A x \in mem[s] : x[1] \in Durable => x \in file
    /\ op[s].kind = "create" =>
          /\ op[s].tasks \subseteq mem[s]
          /\ \A x \in mem[s] : x[1] \in IdsOf(op[s].tasks) => x \in op[s].tasks
          /\ \A x \in op[s].tasks : said[x[1]] = "asked" /\ (Before(s) => x[1] \notin IdsOf(file))
    /\ op[s].kind = "remove" =>
          \A x \in op[s].tasks :
             /\ said[x[1]] = "leaving" /\ x[1] \notin IdsOf(mem[s]) /\ x[1] \notin overruled
             /\ Before(s) /\ x[1] \in (Durable \cap Recurring) \ torn => x[1] \in IdsOf(file)
    /\ op[s].kind = "fire" => \A x \in op[s].tasks : x[2] <= clock /\ x \notin mem[s]

\* A prompt that was given, or rejected, is nowhere from which it would be given again.
FiredInv(x, s) ==
    /\ fired[x] \in {0, 1} /\ (x \in lost => fired[x] = 0)
    /\ Gone(x) => x[2] <= clock /\ x \notin file /\ x \notin mem[s] /\ x \notin op[s].tasks

\* What was told of a task, and where the task is.
SaidInv(i, s) ==
    /\ said[i] \in {"removed", "nothing"} => i \notin IdsOf(file) /\ i \notin IdsOf(mem[s])
    /\ said[i] = "created" /\ i \in (Durable \cap Recurring) \ overruled =>
          (i \notin torn => i \in IdsOf(file)) /\ (up[s] => i \in IdsOf(mem[s]))
    /\ said[i] = "refused" /\ i \notin overruled =>
          (i \in IdsOf(file) => i \in torn) /\ i \notin IdsOf(mem[s])

\* What the memory has of the tasks that stay, the file has too, but for a task that
\* is being made and for one whose removal tore it out of the file.
HeldInv(i, s) ==
    /\ i \in (Durable \cap Recurring) \ torn /\ i \in IdsOf(mem[s])
    /\ op[s].kind = "create" => i \notin IdsOf(op[s].tasks)
    => i \in IdsOf(file)

SessionInv(s) ==
    /\ OpInv(s) /\ \A x \in Tasks : FiredInv(x, s)
    /\ \A i \in Ids : SaidInv(i, s) /\ HeldInv(i, s)

ScheduleInv == TypeOK /\ \A s \in Sessions : SessionInv(s)

LEMMA TaskParts == \A x \in Tasks : x[1] \in Ids /\ x[2] \in Int /\ x = <<x[1], x[2]>>
  BY ScheduleAssumption DEF Tasks, Times

LEMMA InitInv == Init => ScheduleInv
  BY InitType
     DEF Init, ScheduleInv, SessionInv, OpInv, FiredInv, Gone, SaidInv, HeldInv, NoOp, IdsOf

\* An operation that begins is the only one.
LEMMA FreeIsIdle ==
    ASSUME ScheduleInv, NEW s \in Sessions, Free(s)
    PROVE  up[s] /\ op[s] = NoOp /\ op[s].kind = "none" /\ op[s].tasks = {} /\ op[s].step = "none"
  BY DEF Free, NoOp

LEMMA StartsInv ==
    ASSUME ScheduleInv, NEW s \in Sessions, Start(s) \/ Stop(s) \/ Crash(s)
    PROVE  SessionInv(s)'
  <1> USE DEF ScheduleInv, SessionInv, toldVars, promptVars
  <1>1. op'[s] = NoOp /\ mem'[s] \in {{}, file} /\ UNCHANGED <<clock, file, said, promptVars>>
    BY DEF Start, Stop, Crash, Free, Put, TypeOK
  <1>2. /\ up'[s] => mem'[s] = file
        /\ \/ overruled' = overruled \cup torn /\ torn' = {}
           \/ UNCHANGED <<overruled, torn>> /\ mem'[s] = {} /\ ~up'[s]
    BY DEF Start, Stop, Crash, Put, TypeOK
  <1>3. OpInv(s)'
    BY <1>1 DEF OpInv, NoOp
  <1>4. ASSUME NEW x \in Tasks PROVE FiredInv(x, s)'
    BY <1>1 DEF FiredInv, Gone, NoOp
  <1>5. ASSUME NEW i \in Ids PROVE SaidInv(i, s)'
    BY <1>1, <1>2 DEF SaidInv, IdsOf
  <1>6. ASSUME NEW i \in Ids PROVE HeldInv(i, s)'
    BY <1>1 DEF HeldInv, IdsOf
  <1> QED
    BY <1>3, <1>4, <1>5, <1>6

\* A task that is made is due later than any prompt that was given, and is the only
\* one of its id.
LEMMA CreateInv ==
    ASSUME ScheduleInv, NEW s \in Sessions, NEW i \in Ids, Create(s, i)
    PROVE  SessionInv(s)'
  <1> USE DEF ScheduleInv, SessionInv, promptVars
  <1>1. PICK t \in IF i \in Recurring THEN {NextTime} ELSE (clock + 1)..MaxTime :
            /\ mem' = Put(mem, s, mem[s] \cup {<<i, t>>})
            /\ Begin(s, "create", {<<i, t>>})
    BY DEF Create
  <1>2. t \in Int /\ t > clock /\ <<i, t>> \in Tasks /\ clock \in Int
    BY <1>1, TimesOf, NextIsLater, ScheduleAssumption DEF Tasks, TypeOK, Times
  <1>3. /\ mem'[s] = mem[s] \cup {<<i, t>>} /\ UNCHANGED <<clock, file, up, torn, overruled>>
        /\ UNCHANGED <<fired, lost>>
        /\ op'[s] = [kind |-> "create", tasks |-> {<<i, t>>}, step |-> "save"]
        /\ said' = [said EXCEPT ![i] = "asked"] /\ up[s] /\ said[i] = "nothing"
        /\ op[s].kind = "none"
    BY <1>1, FreeIsIdle DEF Create, Begin, Put, TypeOK, Free
  <1>4. OpInv(s)'
    <2>1. i \notin IdsOf(mem[s]) /\ i \notin IdsOf(file)
      BY <1>3 DEF SaidInv
    <2>2. IdsOf({<<i, t>>}) = {i}
      BY DEF IdsOf
    <2>3. \A x \in mem'[s] : x[1] = i => x = <<i, t>>
      BY <1>3, <2>1 DEF IdsOf
    <2>4. op'[s].kind = "create" /\ op'[s].tasks = {<<i, t>>} /\ op'[s].step = "save"
      BY <1>3
    <2>5. IdsOf(op'[s].tasks) = {i} /\ said'[i] = "asked" /\ <<i, t>> \in mem'[s]
      BY <1>3, <2>2, <2>4 DEF TypeOK
    <2>6. \A x \in op'[s].tasks : x[1] = i /\ x \in mem'[s]
      BY <2>4, <2>5
    <2> QED
      BY <1>3, <2>1, <2>3, <2>4, <2>5, <2>6 DEF OpInv, IdsOf
  <1>5. ASSUME NEW x \in Tasks PROVE FiredInv(x, s)'
    BY <1>2, <1>3, TaskParts DEF FiredInv, Gone
  <1>6. ASSUME NEW j \in Ids PROVE SaidInv(j, s)'
    BY <1>3 DEF SaidInv, IdsOf, TypeOK
  <1>7. ASSUME NEW j \in Ids PROVE HeldInv(j, s)'
    BY <1>3 DEF HeldInv, IdsOf
  <1> QED
    BY <1>4, <1>5, <1>6, <1>7

LEMMA WakeupInv ==
    ASSUME ScheduleInv, NEW s \in Sessions, NEW i \in Ids, ScheduleWakeup(s, i)
    PROVE  SessionInv(s)'
  <1> USE DEF ScheduleInv, SessionInv, promptVars
  <1>1. PICK t \in (clock + 1)..MaxTime : mem' = Put(mem, s, mem[s] \cup {<<i, t>>})
    BY DEF ScheduleWakeup
  <1>2. t \in Int /\ t > clock /\ <<i, t>> \in Tasks /\ clock \in Int
    BY <1>1, TimesOf, ScheduleAssumption DEF Tasks, TypeOK, Times
  <1>3. /\ mem'[s] = mem[s] \cup {<<i, t>>} /\ UNCHANGED <<clock, file, up, torn, overruled>>
        /\ UNCHANGED <<fired, lost, op>>
        /\ said' = [said EXCEPT ![i] = "created"] /\ i \in Wakeups /\ said[i] = "nothing"
        /\ op[s].kind = "none" /\ op[s].tasks = {} /\ op[s].step = "none" /\ up[s]
    BY <1>1, FreeIsIdle DEF ScheduleWakeup, Put, TypeOK
  <1>4. OpInv(s)'
    BY <1>3 DEF OpInv
  <1>5. ASSUME NEW x \in Tasks PROVE FiredInv(x, s)'
    BY <1>2, <1>3, TaskParts DEF FiredInv, Gone
  <1>6. ASSUME NEW j \in Ids PROVE SaidInv(j, s)'
    BY <1>3, ScheduleAssumption DEF SaidInv, IdsOf, TypeOK
  <1>7. ASSUME NEW j \in Ids PROVE HeldInv(j, s)'
    BY <1>3, ScheduleAssumption DEF HeldInv, IdsOf
  <1> QED
    BY <1>4, <1>5, <1>6, <1>7

LEMMA RemoveInv ==
    ASSUME ScheduleInv, NEW s \in Sessions, NEW i \in Ids, Remove(s, i)
    PROVE  SessionInv(s)'
  <1> USE DEF ScheduleInv, SessionInv, promptVars
  <1> DEFINE its == {x \in mem[s] : x[1] = i}
  <1>1. /\ mem'[s] = mem[s] \ its /\ UNCHANGED <<clock, file, up, torn>>
        /\ UNCHANGED <<fired, lost>> /\ overruled' = overruled \ {i}
        /\ op'[s] = [kind |-> "remove", tasks |-> its, step |-> "save"]
        /\ said' = [said EXCEPT ![i] = "leaving"] /\ up[s] /\ its # {}
        /\ op[s].kind = "none"
    BY FreeIsIdle DEF Remove, Begin, Put, TypeOK, Free
  <1>2. OpInv(s)'
    <2>1. \A x \in its : x[1] = i /\ i \notin IdsOf(mem'[s])
      BY <1>1 DEF IdsOf
    <2>2. i \in (Durable \cap Recurring) \ torn => i \in IdsOf(file)
      BY <1>1 DEF HeldInv, IdsOf
    <2> QED
      BY <1>1, <2>1, <2>2 DEF OpInv, TypeOK
  <1>3. ASSUME NEW x \in Tasks PROVE FiredInv(x, s)'
    BY <1>1 DEF FiredInv, Gone
  <1>4. ASSUME NEW j \in Ids PROVE SaidInv(j, s)' /\ HeldInv(j, s)'
    <2>1. /\ j \in IdsOf(mem'[s]) => j \in IdsOf(mem[s])
          /\ j # i /\ j \in IdsOf(mem[s]) => j \in IdsOf(mem'[s])
      BY <1>1 DEF IdsOf
    <2> QED
      BY <1>1, <2>1 DEF SaidInv, HeldInv, TypeOK
  <1> QED
    BY <1>2, <1>3, <1>4

\* The due tasks leave the memory, and a recurring one comes back later.
LEMMA FireDueInv ==
    ASSUME ScheduleInv, NEW s \in Sessions, FireDue(s)
    PROVE  SessionInv(s)'
  <1> USE DEF ScheduleInv, SessionInv, toldVars, promptVars
  <1>1. CASE up[s] /\ Due(s) # {}
    <2>1. /\ mem'[s] = Rest(s) /\ UNCHANGED <<clock, file, up, said, torn, overruled>>
          /\ UNCHANGED <<fired, lost>> /\ op[s].kind = "none"
          /\ op'[s] = [kind |-> "fire", tasks |-> Due(s), step |-> "save"]
      BY <1>1 DEF FireDue, Begin, Put, TypeOK, NoOp
    <2>2. clock \in Int /\ NextTime \in Int /\ NextTime > clock
      BY TimesOf, NextIsLater
    <2>3. \A x \in mem[s] : Following(x) = <<x[1], NextTime>> /\ x \in Tasks
      BY DEF Following, TypeOK
    <2>4. OpInv(s)'
      <3>1. \A x \in Due(s) : x[2] <= clock /\ x[2] \in Int /\ x \in mem[s]
        BY TaskParts, <2>3 DEF Due
      <3>2. \A x \in Due(s) : x \notin Rest(s)
        BY <2>2, <2>3, <3>1 DEF Rest
      <3> QED
        BY <1>1, <2>1, <3>1, <3>2 DEF OpInv
    <2>5. ASSUME NEW x \in Tasks PROVE FiredInv(x, s)'
      <3>1. CASE Gone(x)
        <4>1. x[2] <= clock /\ x[2] \in Int /\ x \notin mem[s] /\ x \notin file
          BY <3>1, TaskParts DEF FiredInv
        <4>2. x \notin Due(s) /\ x \notin Rest(s)
          BY <2>2, <2>3, <4>1 DEF Due, Rest
        <4> QED
          BY <2>1, <3>1, <4>1, <4>2 DEF FiredInv, Gone
      <3>2. CASE ~Gone(x)
        BY <2>1, <3>2 DEF FiredInv, Gone
      <3> QED
        BY <3>1, <3>2
    <2>6. ASSUME NEW i \in Ids PROVE SaidInv(i, s)' /\ HeldInv(i, s)'
      <3>1. i \in IdsOf(Rest(s)) => i \in IdsOf(mem[s])
        <4>1. \A x \in Rest(s) : \E y \in mem[s] : x[1] = y[1]
          BY <2>3 DEF Rest, Due
        <4> QED
          BY <4>1 DEF IdsOf
      <3>2. i \in Recurring /\ i \in IdsOf(mem[s]) => i \in IdsOf(Rest(s))
        <4> SUFFICES ASSUME i \in Recurring, NEW x \in mem[s], x[1] = i
                     PROVE  \E y \in Rest(s) : y[1] = i
          BY DEF IdsOf
        <4>1. CASE x \in Due(s)
          <5>1. Following(x) \in Rest(s)
            BY <4>1 DEF Rest
          <5>2. Following(x)[1] = i
            BY DEF Following
          <5> QED
            BY <5>1, <5>2
        <4>2. CASE x \notin Due(s)
          BY <4>2 DEF Rest
        <4> QED
          BY <4>1, <4>2
      <3> QED
        BY <2>1, <3>1, <3>2 DEF SaidInv, HeldInv
    <2> QED
      BY <2>4, <2>5, <2>6
  <1>2. CASE ~(up[s] /\ Due(s) # {})
    <2>1. /\ UNCHANGED <<mem, op, clock, file, up, said, torn, overruled>>
          /\ UNCHANGED <<fired, lost>>
      BY <1>2 DEF FireDue
    <2> QED
      BY <2>1 DEF OpInv, Before, FiredInv, Gone, SaidInv, HeldInv
  <1> QED
    BY <1>1, <1>2

LEMMA SaveInv ==
    ASSUME ScheduleInv, NEW s \in Sessions, Save(s)
    PROVE  SessionInv(s)'
  <1> USE DEF ScheduleInv, SessionInv, promptVars
  <1>1. /\ UNCHANGED <<clock, up, mem, said, overruled>> /\ UNCHANGED <<fired, lost>>
        /\ op[s].step = "save" /\ op[s] # NoOp
        /\ op'[s].kind = op[s].kind /\ op'[s].tasks = op[s].tasks
    BY DEF Save, To, TypeOK, NoOp
  <1>2. \/ op'[s].step \in {"saved", "half"} /\ file' = Saved(s) /\ torn' = {}
        \/ op'[s].step = "failed" /\ UNCHANGED <<file, torn>>
    BY DEF Save, To, TypeOK
  <1>3. OpInv(s)'
    <2>1. op'[s] # NoOp => up'[s]
      BY <1>1 DEF OpInv
    <2>2. CASE op'[s].step \in {"saved", "half"} /\ file' = Saved(s) /\ torn' = {}
      BY <1>1, <2>1, <2>2 DEF OpInv, Before, Saved
    <2>3. CASE op'[s].step = "failed" /\ UNCHANGED <<file, torn>>
      BY <1>1, <2>1, <2>3 DEF OpInv, Before
    <2> QED
      BY <1>2, <2>2, <2>3
  <1>4. ASSUME NEW x \in Tasks PROVE FiredInv(x, s)'
    BY <1>1, <1>2 DEF FiredInv, Gone, Saved
  <1>5. ASSUME NEW i \in Ids PROVE SaidInv(i, s)' /\ HeldInv(i, s)'
    <2>1. CASE file' = Saved(s) /\ torn' = {}
      <3>1. /\ i \in IdsOf(file') => i \in IdsOf(mem[s])
            /\ i \in IdsOf(mem[s]) /\ i \in Durable => i \in IdsOf(file')
        BY <2>1 DEF Saved, IdsOf
      <3>2. op[s] # NoOp => up[s]
        BY DEF OpInv
      <3> QED
        BY <1>1, <2>1, <3>1, <3>2 DEF SaidInv, HeldInv
    <2>2. CASE UNCHANGED <<file, torn>>
      BY <1>1, <2>2 DEF SaidInv, HeldInv
    <2> QED
      BY <1>2, <2>1, <2>2
  <1> QED
    BY <1>3, <1>4, <1>5

\* An operation ends well, or a firing does not.
LEMMA EndsInv ==
    ASSUME ScheduleInv, NEW s \in Sessions, Answer(s) \/ Deliver(s) \/ FiringFails(s)
    PROVE  SessionInv(s)'
  <1> USE DEF ScheduleInv, SessionInv, toldVars, promptVars
  <1>1. op'[s] = NoOp /\ UNCHANGED <<clock, file, up, mem, torn, overruled>>
    BY DEF Answer, Deliver, FiringFails, Ends, Put, TypeOK
  <1>2. OpInv(s)'
    BY <1>1 DEF OpInv, NoOp
  <1>3. ASSUME NEW x \in Tasks PROVE FiredInv(x, s)'
    <2>1. CASE Answer(s) \/ FiringFails(s)
      <3>1. fired' = fired /\ lost' = lost
        BY <2>1 DEF Answer, FiringFails
      <3>2. op'[s].tasks = {}
        BY <1>1 DEF NoOp
      <3> QED
        BY <1>1, <3>1, <3>2 DEF FiredInv, Gone
    <2>2. CASE Deliver(s)
      <3>1. PICK taken \in SUBSET op[s].tasks :
               /\ fired' = [y \in Tasks |-> IF y \in taken THEN fired[y] + 1 ELSE fired[y]]
               /\ lost' = lost \cup (op[s].tasks \ taken)
        BY <2>2 DEF Deliver
      <3>2. op[s].kind = "fire" /\ op[s].step = "saved"
        BY <2>2 DEF Deliver, Ends
      <3>3. x \in op[s].tasks => /\ x[2] <= clock /\ x \notin mem[s] /\ x \notin file
                                 /\ ~Gone(x) /\ fired[x] = 0
        BY <3>2 DEF OpInv, FiredInv, Gone
      <3>4. fired'[x] = IF x \in taken THEN fired[x] + 1 ELSE fired[x]
        BY <3>1
      <3>5. CASE x \in op[s].tasks
        BY <1>1, <3>1, <3>3, <3>4, <3>5 DEF FiredInv, Gone, NoOp
      <3>6. CASE x \notin op[s].tasks
        BY <1>1, <3>1, <3>4, <3>6 DEF FiredInv, Gone, NoOp
      <3> QED
        BY <3>5, <3>6
    <2> QED
      BY <2>1, <2>2
  <1>4. ASSUME NEW i \in Ids PROVE SaidInv(i, s)' /\ HeldInv(i, s)'
    <2>1. CASE Ends(s, "create", "saved") /\ Answer(s)
      <3>1. said'[i] = IF i \in IdsOf(op[s].tasks) THEN "created" ELSE said[i]
        BY <2>1 DEF Answer, Ends, Tell
      <3>2. i \in IdsOf(op[s].tasks) => i \in IdsOf(mem[s])
        BY <2>1 DEF Ends, OpInv, IdsOf
      <3>3. i \in IdsOf(mem[s]) /\ i \in Durable => i \in IdsOf(file)
        BY <2>1 DEF Ends, OpInv, IdsOf
      <3> QED
        BY <1>1, <3>1, <3>2, <3>3 DEF SaidInv, HeldInv
    <2>2. CASE Ends(s, "remove", "saved") /\ Answer(s)
      <3>1. said'[i] = IF i \in IdsOf(op[s].tasks) THEN "removed" ELSE said[i]
        BY <2>2 DEF Answer, Ends, Tell
      <3>2. i \in IdsOf(op[s].tasks) => i \notin IdsOf(mem[s])
        BY <2>2 DEF Ends, OpInv, IdsOf
      <3>3. i \notin IdsOf(mem[s]) => i \notin IdsOf(file)
        BY <2>2 DEF Ends, OpInv, IdsOf
      <3>4. op[s].kind = "remove"
        BY <2>2 DEF Ends
      <3> QED
        BY <1>1, <3>1, <3>2, <3>3, <3>4 DEF SaidInv, HeldInv
    <2>3. CASE Deliver(s) \/ FiringFails(s)
      <3>1. op[s].kind = "fire" /\ said' = said
        BY <2>3 DEF Deliver, FiringFails, Ends
      <3> QED
        BY <1>1, <3>1 DEF SaidInv, HeldInv
    <2> QED
      BY <2>1, <2>2, <2>3 DEF Answer
  <1> QED
    BY <1>2, <1>3, <1>4

\* What could not be saved is taken back: the file has what the caller is told, unless
\* it was replaced, and then the task is torn.
LEMMA TakeBackInv ==
    ASSUME ScheduleInv, NEW s \in Sessions, TakeBack(s)
    PROVE  SessionInv(s)'
  <1> USE DEF ScheduleInv, SessionInv, promptVars
  <1>1. op'[s] = NoOp /\ UNCHANGED <<clock, file, up, overruled>> /\ UNCHANGED <<fired, lost>>
    BY DEF TakeBack, Ends, Put, TypeOK
  <1>2. PICK step \in {"failed", "half"} :
           /\ \/ Ends(s, "create", step) /\ Tell(s, "refused")
              \/ Ends(s, "remove", step) /\ Tell(s, "created")
           /\ torn' = IF step = "half" THEN torn \cup IdsOf(op[s].tasks) ELSE torn
    BY DEF TakeBack
  <1>3. mem'[s] = Undone(s)
    BY DEF TakeBack, Put, TypeOK
  <1>4. OpInv(s)'
    BY <1>1 DEF OpInv, NoOp
  <1>5. ASSUME NEW x \in Tasks PROVE FiredInv(x, s)'
    <2>1. mem'[s] \subseteq mem[s] \cup op[s].tasks
      BY <1>3 DEF Undone
    <2> QED
      BY <1>1, <2>1 DEF FiredInv, Gone, NoOp
  <1>6. ASSUME NEW i \in Ids PROVE SaidInv(i, s)' /\ HeldInv(i, s)'
    <2>1. CASE Ends(s, "create", step) /\ Tell(s, "refused")
      <3>1. /\ said'[i] = IF i \in IdsOf(op[s].tasks) THEN "refused" ELSE said[i]
            /\ mem'[s] = mem[s] \ op[s].tasks /\ op[s].kind = "create" /\ op[s].step = step
        BY <1>3, <2>1 DEF Ends, Tell, Undone
      <3>2. i \in IdsOf(op[s].tasks) => i \notin IdsOf(mem'[s])
        BY <3>1 DEF OpInv, IdsOf
      <3>3. i \notin IdsOf(op[s].tasks) => (i \in IdsOf(mem[s]) <=> i \in IdsOf(mem'[s]))
        BY <3>1 DEF IdsOf
      <3>4. i \in IdsOf(op[s].tasks) /\ step = "failed" => i \notin IdsOf(file)
        BY <3>1 DEF OpInv, Before, IdsOf
      <3>5. CASE i \in IdsOf(op[s].tasks)
        BY <1>1, <1>2, <3>1, <3>2, <3>4, <3>5 DEF SaidInv, HeldInv
      <3>6. CASE i \notin IdsOf(op[s].tasks)
        BY <1>1, <1>2, <3>1, <3>3, <3>6 DEF SaidInv, HeldInv
      <3> QED
        BY <3>5, <3>6
    <2>2. CASE Ends(s, "remove", step) /\ Tell(s, "created")
      <3>1. /\ said'[i] = IF i \in IdsOf(op[s].tasks) THEN "created" ELSE said[i]
            /\ mem'[s] = mem[s] \cup op[s].tasks /\ op[s].kind = "remove" /\ op[s].step = step
        BY <1>3, <2>2 DEF Ends, Tell, Undone
      <3>2. i \in IdsOf(op[s].tasks) => i \in IdsOf(mem'[s])
        BY <3>1 DEF IdsOf
      <3>3. i \notin IdsOf(op[s].tasks) => (i \in IdsOf(mem[s]) <=> i \in IdsOf(mem'[s]))
        BY <3>1 DEF IdsOf
      <3>4. i \in IdsOf(op[s].tasks) /\ step = "failed"
               /\ i \in (Durable \cap Recurring) \ torn => i \in IdsOf(file)
        BY <3>1 DEF OpInv, Before, IdsOf
      <3>5. CASE i \in IdsOf(op[s].tasks)
        BY <1>1, <1>2, <3>1, <3>2, <3>4, <3>5 DEF SaidInv, HeldInv
      <3>6. CASE i \notin IdsOf(op[s].tasks)
        BY <1>1, <1>2, <3>1, <3>3, <3>6 DEF SaidInv, HeldInv
      <3> QED
        BY <3>5, <3>6
    <2> QED
      BY <1>2, <2>1, <2>2
  <1> QED
    BY <1>4, <1>5, <1>6

LEMMA NextInv ==
    ASSUME OneSession, ScheduleInv, [Next]_vars
    PROVE  ScheduleInv'
  <1> USE DEF toldVars, promptVars
  <1>1. TypeOK'
    BY NextType DEF ScheduleInv
  <1> SUFFICES ASSUME NEW s \in Sessions PROVE SessionInv(s)'
    BY <1>1 DEF ScheduleInv
  <1>2. CASE TimePasses
    <2>1. /\ UNCHANGED <<up, mem, op, file, said, torn, overruled, fired, lost>>
          /\ clock' = clock + 1 /\ clock \in Int
      BY <1>2 DEF TimePasses, sessionVars, ScheduleInv, TypeOK
    <2>2. OpInv(s)'
      <3>1. op[s].tasks \subseteq Tasks
        BY DEF ScheduleInv, TypeOK
      <3> QED
        BY <2>1, <3>1, TaskParts DEF OpInv, Before, ScheduleInv, SessionInv
    <2>3. ASSUME NEW x \in Tasks PROVE FiredInv(x, s)'
      BY <2>1, TaskParts DEF FiredInv, Gone, ScheduleInv, SessionInv
    <2>4. ASSUME NEW i \in Ids PROVE SaidInv(i, s)' /\ HeldInv(i, s)'
      BY <2>1 DEF SaidInv, HeldInv, ScheduleInv, SessionInv
    <2> QED
      BY <2>2, <2>3, <2>4 DEF SessionInv
  <1>3. CASE Ring(s) \/ UNCHANGED vars
    <2>1. UNCHANGED <<clock, file, up, mem, op, said, torn, overruled, fired, lost>>
      BY <1>3 DEF Ring, vars, sessionVars
    <2> QED
      BY <2>1 DEF ScheduleInv, SessionInv, OpInv, Before, FiredInv, Gone, SaidInv, HeldInv
  <1>4. CASE Ring(s) \/ FireDue(s) \/ Goes(s) \/ Asks(s)
    BY <1>3, <1>4, StartsInv, CreateInv, WakeupInv, RemoveInv, FireDueInv, SaveInv,
       EndsInv, TakeBackInv DEF Goes, Asks
  <1> QED
    BY <1>2, <1>3, <1>4 DEF Next, OneSession

THEOREM ScheduleInvariant ==
    ASSUME OneSession
    PROVE  Spec => []ScheduleInv
  BY InitInv, NextInv, PTL DEF Spec

-----------------------------------------------------------------------------
(* With one session, the prompt of a scheduled time is given once, and one *)
(* that the session rejected is not given again.                           *)
THEOREM PromptsOnce ==
    ASSUME OneSession
    PROVE  Spec => []FiresOnce
  <1>1. ScheduleInv /\ OneSession => FiresOnce
    BY DEF OneSession, ScheduleInv, SessionInv, FiredInv, FiresOnce
  <1> QED
    BY <1>1, ScheduleInvariant, PTL

(* With one session, what a caller was told, that a task was made, refused,*)
(* kept or removed, is what memory and file hold, whatever saves fail and  *)
(* wherever the session ends; but for the tasks whose save reported an     *)
(* error after it had replaced the file, until the next save.              *)
THEOREM WhatIsToldHolds ==
    ASSUME OneSession
    PROVE  Spec => []ToldIsTrue
  <1>1. ScheduleInv /\ OneSession => RemovedStaysRemoved
    BY DEF OneSession, ScheduleInv, SessionInv, SaidInv, RemovedStaysRemoved
  <1>2. ScheduleInv /\ OneSession => KeptOnDisk
    BY ScheduleAssumption DEF OneSession, ScheduleInv, SessionInv, SaidInv, KeptOnDisk
  <1>3. ScheduleInv /\ OneSession => RefusedStaysOut
    BY DEF OneSession, ScheduleInv, SessionInv, SaidInv, RefusedStaysOut
  <1>4. ScheduleInv /\ OneSession => ToldIsTrue
    BY <1>1, <1>2, <1>3 DEF ToldIsTrue
  <1> QED
    BY <1>4, ScheduleInvariant, PTL
===============================================================================
