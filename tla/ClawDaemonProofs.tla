-------------------------- MODULE ClawDaemonProofs --------------------------
(***************************************************************************)
(* Proofs about ClawRun, for every log, budget and number of crashes, and  *)
(* about ClawTick, for every set of owners, triggers and reports.          *)
(***************************************************************************)
EXTENDS ClawRun, ClawTick, TLAPS, WellFoundedInduction

-----------------------------------------------------------------------------
(* ClawRun.  Type correctness.                                             *)

Event == [type : {"started", "settled", "opened", "closed", "resumed"}
                    \cup Outcomes, worker : 0..MaxWorkers]

(* The types in parts: the log, the workers, and the daemon's records with *)
(* what their bounds rest on.                                              *)
LogType ==
    log \in Seq(Event) /\ Len(log) <= MaxLog /\ told \subseteq 1..Len(log)

WorkerType ==
    /\ proc \in [Workers -> {"none", "starting", "reopening", "turn", "modal",
                             "prompt", "gone"}]
    /\ tab \in [Workers -> {"none", "open", "closed"}]
    /\ reported \in [Workers -> BOOLEAN]

RecordType ==
    /\ saved \in Run /\ mem \in Run
    /\ at \in {"serve", "read", "reread", "judge", "verdict", "time", "tell", "close",
               "remedy", "save", "announce", "resume", "reopened"}
    /\ live.known \in BOOLEAN /\ live.blocks \subseteq Workers
    /\ news \subseteq {"lost", "failed", "cancelled"} /\ orphan \in 0..MaxWorkers
    /\ crashes \in 0..MaxCrashes
    /\ saved.offset <= Len(log) /\ mem.offset <= Len(log)
    /\ at = "resume" => saved.resumes < ResumeBudget
    /\ at = "announce" => saved.status \in {"cancelled", "failed"}

RunTypeInv == LogType /\ WorkerType /\ RecordType

LEMMA RunTypeImplied == RunTypeInv => RunTypeOK
  BY DEF RunTypeInv, RunTypeOK, LogType, WorkerType, RecordType, Event

(* A run of the model with this status or another is a run of the model.   *)
LEMMA StatusRun ==
    ASSUME NEW r \in Run, NEW s \in Terminal \cup Waiting \cup Busy
    PROVE  LET q == [r EXCEPT !.status = s]
           IN  /\ q \in Run /\ q.status = s /\ q.offset = r.offset
               /\ q.finish = r.finish /\ q.pid = r.pid /\ q.block = r.block
  BY DEF Run

LEMMA EndedRun ==
    ASSUME NEW r \in Run, NEW s \in Terminal \cup Waiting \cup Busy
    PROVE  /\ Ended(r, s) \in Run /\ Ended(r, s).status = s
           /\ Ended(r, s).offset = r.offset /\ Ended(r, s).finish = r.finish
           /\ Ended(r, s).pid = r.pid
  <1>1. Shut(r) \in {"none", "open", "shut"}
    BY DEF Run, Shut
  <1>2. Ended(r, s) \in Run
    BY <1>1 DEF Run, Ended
  <1>3. /\ Ended(r, s).status = s /\ Ended(r, s).offset = r.offset
        /\ Ended(r, s).finish = r.finish /\ Ended(r, s).pid = r.pid
    BY DEF Run, Ended
  <1> QED
    BY <1>2, <1>3

(* Reading an event moves the offset and leaves alone what no event says.  *)
LEMMA AppliedRun ==
    ASSUME LogType,
           NEW r \in Run, NEW i \in 1..Len(log)
    PROVE  /\ Applied(r, i) \in Run
           /\ Applied(r, i).offset = i
           /\ \A f \in {"keep", "relaunched", "resumes", "closes", "block",
                        "phase", "tabClosed", "from"} : Applied(r, i)[f] = r[f]
           /\ r.status \in Terminal => Applied(r, i).status = r.status
           /\ Applied(r, i).pid = IF log[i].type = "started"
                                  THEN log[i].worker ELSE r.pid
           /\ Applied(r, i).session = (r.session \/ log[i].type = "started")
           /\ Applied(r, i).finish =
                 IF r.status \notin Terminal /\ log[i].type \in Outcomes
                 THEN i ELSE r.finish
           /\ Applied(r, i).status \notin {"launching", "lost"}
                 \/ Applied(r, i).status = r.status
  <1>1. log[i] \in Event
    BY DEF LogType
  <1>2. i \in 0..MaxLog
    BY RunAssumption DEF LogType
  <1>a. r.ask \in {"none", "open", "shut"} /\ Shut(r) \in {"none", "open", "shut"}
    BY DEF Run, Shut
  <1>b. r.status \in Terminal \cup Waiting \cup Busy
    BY DEF Run
  <1>3. CASE log[i].type = "started"
    <2> DEFINE w == log[i].worker
               s == OnStart(r, "running")
               n == [r EXCEPT !.offset = i, !.pid = w, !.session = TRUE,
                              !.status = s]
    <2>1. Applied(r, i) = n
      BY <1>3 DEF Run, Applied, AfterStarted, OnStart
    <2>2. /\ s \in Terminal \cup Waiting \cup Busy
          /\ r.status \in Terminal => s = r.status
          /\ s # r.status => s = "running"
      BY <1>b DEF OnStart, Busy
    <2>3. w \in 0..MaxWorkers
      BY <1>1 DEF Event
    <2> HIDE DEF w, s
    <2>4. n \in Run
      BY <1>2, <2>2, <2>3 DEF Run
    <2>5. /\ n.offset = i /\ n.pid = w /\ n.session /\ n.status = s
          /\ n.finish = r.finish
      BY DEF Run
    <2>6. \A f \in {"keep", "relaunched", "resumes", "closes", "block",
                   "phase", "tabClosed", "from"} : n[f] = r[f]
      BY DEF Run
    <2> HIDE DEF n
    <2> QED
      BY <1>3, <2>1, <2>2, <2>4, <2>5, <2>6 DEF Outcomes, w
  <1>4. CASE log[i].type = "settled"
    <2> DEFINE a == Shut(r)
               s == IF r.status \in Busy THEN "idle" ELSE r.status
               n == [r EXCEPT !.offset = i, !.settled = TRUE, !.ask = a,
                              !.status = s]
    <2>1. Applied(r, i) = n
      BY <1>4 DEF Run, Applied, AfterSettled, Shut
    <2>2. /\ s \in Terminal \cup Waiting \cup Busy
          /\ r.status \in Terminal => s = r.status
          /\ s # r.status => s = "idle"
      BY <1>b DEF Terminal, Waiting, Busy
    <2> HIDE DEF a, s
    <2>4. n \in Run
      BY <1>2, <1>a, <2>2 DEF Run, a
    <2>5. /\ n.offset = i /\ n.pid = r.pid /\ n.session = r.session
          /\ n.status = s /\ n.finish = r.finish
      BY DEF Run
    <2>6. \A f \in {"keep", "relaunched", "resumes", "closes", "block",
                   "phase", "tabClosed", "from"} : n[f] = r[f]
      BY DEF Run
    <2>7. r.session \in BOOLEAN
      BY DEF Run
    <2> HIDE DEF n
    <2> QED
      BY <1>4, <2>1, <2>2, <2>4, <2>5, <2>6, <2>7 DEF Outcomes
  <1>5. CASE log[i].type \notin {"started", "settled"} /\ r.status \in Terminal
    BY <1>1, <1>2, <1>5 DEF Run, Event, Applied
  <1>6. CASE log[i].type = "opened" /\ r.status \notin Terminal
    <2> DEFINE s == "awaiting_decision"
               n == [r EXCEPT !.offset = i, !.ask = "open", !.status = s]
    <2>1. Applied(r, i) = n
      BY <1>6 DEF Run, Applied, AfterOpened, Outcomes
    <2>2. \/ s \in Terminal \cup Waiting \cup Busy /\ s \notin {"launching", "lost"}
          \/ s = r.status
      BY <1>b DEF Waiting, Busy, Terminal
    <2> HIDE DEF s
    <2>3. s \in Terminal \cup Waiting \cup Busy
      BY <1>b, <2>2
    <2>4. n \in Run
      BY <1>2, <2>3 DEF Run
    <2>5. /\ n.offset = i /\ n.pid = r.pid /\ n.session = r.session
          /\ n.status = s /\ n.finish = r.finish
      BY DEF Run
    <2>6. \A f \in {"keep", "relaunched", "resumes", "closes", "block",
                   "phase", "tabClosed", "from"} : n[f] = r[f]
      BY DEF Run
    <2>7. /\ log[i].type # "started" /\ log[i].type \notin Outcomes
          /\ r.session \in BOOLEAN
      BY <1>6 DEF Run, Outcomes
    <2> HIDE DEF n
    <2> QED
      BY <1>6, <2>1, <2>2, <2>4, <2>5, <2>6, <2>7
  <1>7. CASE log[i].type = "closed" /\ r.status \notin Terminal
    <2> DEFINE s == IF r.status = "awaiting_decision" THEN "running"
                    ELSE r.status
               n == [r EXCEPT !.offset = i, !.ask = "shut", !.status = s]
    <2>1. Applied(r, i) = n
      BY <1>7 DEF Run, Applied, AfterClosed, Outcomes
    <2>2. \/ s \in Terminal \cup Waiting \cup Busy /\ s \notin {"launching", "lost"}
          \/ s = r.status
      BY <1>b DEF Waiting, Busy, Terminal
    <2> HIDE DEF s
    <2>3. s \in Terminal \cup Waiting \cup Busy
      BY <1>b, <2>2
    <2>4. n \in Run
      BY <1>2, <2>3 DEF Run
    <2>5. /\ n.offset = i /\ n.pid = r.pid /\ n.session = r.session
          /\ n.status = s /\ n.finish = r.finish
      BY DEF Run
    <2>6. \A f \in {"keep", "relaunched", "resumes", "closes", "block",
                   "phase", "tabClosed", "from"} : n[f] = r[f]
      BY DEF Run
    <2>7. /\ log[i].type # "started" /\ log[i].type \notin Outcomes
          /\ r.session \in BOOLEAN
      BY <1>7 DEF Run, Outcomes
    <2> HIDE DEF n
    <2> QED
      BY <1>7, <2>1, <2>2, <2>4, <2>5, <2>6, <2>7
  <1>8. CASE log[i].type = "resumed" /\ r.status \notin Terminal
    BY <1>1, <1>2, <1>8
       DEF Run, Event, Applied, Outcomes, Terminal, Waiting, Busy
  <1>9. CASE log[i].type \in Outcomes /\ r.status \notin Terminal
    <2> DEFINE a == Shut(r)
               s == IF log[i].type = "needs_user" THEN "awaiting_user"
                    ELSE log[i].type
               n == [r EXCEPT !.offset = i, !.finish = i, !.ask = a,
                              !.status = s]
    <2>1. Applied(r, i) = n
      BY <1>9 DEF Run, Applied, AfterReport, Shut, Outcomes
    <2>2. /\ s \in Terminal \cup Waiting \cup Busy
          /\ s \notin {"launching", "lost"}
      BY <1>9 DEF Outcomes, Terminal, Waiting
    <2> HIDE DEF a, s
    <2>4. n \in Run
      BY <1>2, <1>a, <2>2 DEF Run, a
    <2>5. /\ n.offset = i /\ n.pid = r.pid /\ n.session = r.session
          /\ n.status = s /\ n.finish = i
      BY <1>2 DEF Run
    <2>6. \A f \in {"keep", "relaunched", "resumes", "closes", "block",
                   "phase", "tabClosed", "from"} : n[f] = r[f]
      BY DEF Run
    <2>7. log[i].type # "started" /\ r.session \in BOOLEAN
      BY <1>9 DEF Run, Outcomes
    <2> HIDE DEF n
    <2> QED
      BY <1>9, <2>1, <2>2, <2>4, <2>5, <2>6, <2>7
  <1> QED
    BY <1>1, <1>3, <1>4, <1>5, <1>6, <1>7, <1>8, <1>9 DEF Event

(* The event that is read next is one of the log.                          *)
LEMMA NextEvent == RunTypeInv /\ ReadEvent => mem.offset + 1 \in 1..Len(log)
  <1>1. RunTypeInv /\ ReadEvent =>
          /\ mem.offset \in Nat /\ Len(log) \in Nat
          /\ mem.offset <= Len(log) /\ mem.offset # Len(log)
    <2> SUFFICES ASSUME RunTypeInv, ReadEvent
                 PROVE  /\ mem.offset \in Nat /\ Len(log) \in Nat
                        /\ mem.offset <= Len(log) /\ mem.offset # Len(log)
      OBVIOUS
    <2>1. mem \in Run /\ log \in Seq(Event) /\ mem.offset <= Len(log)
      BY DEF RunTypeInv, RecordType, LogType
    <2>2. mem.offset \in Nat
      BY <2>1, RunAssumption DEF Run
    <2> QED
      BY <2>1, <2>2 DEF ReadEvent, AllRead
  <1> QED
    BY <1>1

LEMMA InitRunType == RunInit => RunTypeInv
  <1> SUFFICES ASSUME RunInit PROVE RunTypeInv
    OBVIOUS
  <1>1. saved \in Run /\ saved.offset = 0 /\ mem = saved
    BY RunAssumption DEF RunInit, Run, Terminal, Waiting, Busy
  <1>2. log = <<>> /\ Len(log) = 0
    BY DEF RunInit
  <1> QED
    BY <1>1, <1>2, RunAssumption
       DEF RunInit, RunTypeInv, LogType, WorkerType, RecordType, NoTern, Workers

(* An event that is recorded comes after all the others.                   *)
LEMMA Recorded ==
    ASSUME log \in Seq(Event),
           NEW type \in {"started", "settled", "opened", "closed", "resumed"}
                          \cup Outcomes,
           NEW w \in 0..MaxWorkers, Records(type, w)
    PROVE  /\ log' \in Seq(Event) /\ Len(log') = Len(log) + 1
           /\ \A i \in 1..Len(log) : log'[i] = log[i]
           /\ log'[Len(log) + 1] = [type |-> type, worker |-> w]
  <1>1. [type |-> type, worker |-> w] \in Event
    BY DEF Event
  <1> QED
    BY <1>1 DEF Records

(* The daemon's records take no notice of an event, or of a worker, until  *)
(* it looks.                                                               *)
LEMMA WorkerKeepsRecords ==
    ASSUME LogType, RecordType, UNCHANGED daemonVars,
           \/ UNCHANGED log
           \/ /\ Len(log) < MaxLog
              /\ \E type \in {"started", "settled", "opened", "closed", "resumed"}
                             \cup Outcomes, w \in Workers : Records(type, w)
    PROVE  LogType' /\ RecordType'
  <1>1. CASE UNCHANGED log
    BY <1>1 DEF LogType, RecordType, daemonVars, inboxVars
  <1>2. CASE /\ Len(log) < MaxLog
             /\ \E type \in {"started", "settled", "opened", "closed", "resumed"}
                             \cup Outcomes, w \in Workers : Records(type, w)
    <2>0. PICK type \in {"started", "settled", "opened", "closed", "resumed"}
                             \cup Outcomes, w \in Workers : Records(type, w)
      BY <1>2
    <2>1. log' \in Seq(Event) /\ Len(log') = Len(log) + 1
      <3>1. w \in 0..MaxWorkers
        BY RunAssumption DEF Workers
      <3> QED
        BY <2>0, <3>1, Recorded DEF LogType
    <2>2. saved.offset \in Nat /\ mem.offset \in Nat /\ Len(log) \in Nat
      BY RunAssumption DEF RecordType, Run, LogType
    <2> QED
      BY <1>2, <2>1, <2>2, RunAssumption
         DEF LogType, RecordType, daemonVars, inboxVars
  <1> QED
    BY <1>1, <1>2

(* The steps of a worker.                                                  *)
LEMMA WorkerRunType ==
    ASSUME RunTypeInv, NEW w \in Workers,
           WorkerStep(w) \/ Dies(w) \/ UserCloses(w)
    PROVE  RunTypeInv'
  <1>1. WorkerType'
    BY DEF RunTypeInv, WorkerType, WorkerStep, SessionStart, Settle, Finish, Ask, UserTypes,
           Typed, Dies, UserCloses, TabGoes
  <1>2. UNCHANGED daemonVars
    BY DEF WorkerStep, SessionStart, Settle, Finish, Ask, UserTypes, Typed, Dies,
           UserCloses
  <1>3. \/ UNCHANGED log
        \/ /\ Len(log) < MaxLog
           /\ \E type \in {"started", "settled", "opened", "closed", "resumed"}
                          \cup Outcomes, v \in Workers : Records(type, v)
    BY DEF WorkerStep, SessionStart, Settle, Finish, Ask, UserTypes, Typed, Dies,
           UserCloses
  <1> QED
    BY <1>1, <1>2, <1>3, WorkerKeepsRecords DEF RunTypeInv

(* The tick, and a crash in it.                                            *)
LEMMA TickRunType ==
    ASSUME RunTypeInv, Reconcile \/ RunCrash
    PROVE  RunTypeInv'
  <1>0. LogType /\ WorkerType /\ RecordType
    BY DEF RunTypeInv
  <1>n. mem.offset \in Nat /\ Len(log) \in Nat /\ MaxLog \in Nat
        /\ mem.block \in 0..MaxWorkers /\ mem.status \in Terminal \cup Waiting \cup Busy
    BY <1>0, RunAssumption DEF RecordType, Run, LogType
  <1>g. AfterClose(mem) \in {"remedy", "save"} /\ AfterClose(mem') \in {"remedy", "save"}
        /\ AfterTime(mem) \in {"close", "remedy", "save"}
        /\ Onward(mem) \in {"time", "close", "remedy", "save"}
        /\ Onward(mem') \in {"time", "close", "remedy", "save"}
    BY DEF AfterClose, AfterTime, Onward
  <1>l. log' = log
    BY DEF Reconcile, RunCrash, Snapshot, ReadEvent, EndRead, Judge, Verdict, TimeOut,
           TellFailed, InTime, CloseTab, NoClose, IdleFails, Recover, NoRemedy, Save
  <1>1. CASE Snapshot
    <2>1. live' \in Tern /\ at' = "read" /\ UNCHANGED <<saved, mem, crashes, workerVars, inboxVars>>
      BY <1>1 DEF Snapshot
    <2>2. live'.known \in BOOLEAN /\ live'.blocks \subseteq Workers
      <3>1. LiveBlocks \subseteq Workers
        BY DEF LiveBlocks
      <3>2. live' = [known |-> TRUE, blocks |-> LiveBlocks]
               \/ live' = [known |-> FALSE, blocks |-> {}]
        BY <2>1 DEF Tern, NoTern
      <3>3. live'.known = TRUE \/ live'.known = FALSE
        <4>1. CASE live' = [known |-> TRUE, blocks |-> LiveBlocks]
          BY <4>1
        <4>2. CASE live' = [known |-> FALSE, blocks |-> {}]
          BY <4>2
        <4> QED
          BY <3>2, <4>1, <4>2
      <3>4. live'.blocks \subseteq Workers
        BY <3>1, <3>2
      <3> QED
        BY <3>3, <3>4
    <2> QED
      BY <1>0, <1>l, <2>1, <2>2
         DEF RunTypeInv, LogType, WorkerType, RecordType, workerVars, inboxVars
  <1>2. CASE ReadEvent
    <2>1. mem.offset + 1 \in 1..Len(log)
      BY <1>0, <1>2, <1>n DEF ReadEvent, AllRead, RecordType
    <2>2. mem' \in Run /\ mem'.offset = mem.offset + 1
      BY <1>0, <1>2, <2>1, AppliedRun DEF ReadEvent, RecordType
    <2>3. told' \subseteq 1..Len(log)
      BY <1>0, <1>2, <2>1 DEF ReadEvent, News, LogType
    <2> QED
      BY <1>0, <1>2, <2>1, <2>2, <2>3
         DEF ReadEvent, RunTypeInv, LogType, WorkerType, RecordType, workerVars
  <1>3. CASE EndRead
    BY <1>0, <1>3
       DEF EndRead, RunTypeInv, LogType, WorkerType, RecordType, workerVars, inboxVars
  <1>4. CASE Judge
    <2>1. live'.known \in BOOLEAN /\ live'.blocks \subseteq Workers
      BY <1>4 DEF Judge, NoTern
    <2> QED
      BY <1>0, <1>4, <1>g, <2>1
         DEF Judge, ReadAgain, RunTypeInv, LogType, WorkerType, RecordType, workerVars,
             inboxVars
  <1>5. CASE Verdict
    <2>1. \A end \in {"failed", "lost"} :
             Ended(mem, end) \in Run /\ Ended(mem, end).offset = mem.offset
      BY <1>0, EndedRun DEF RecordType, Terminal
    <2>2. \/ UNCHANGED <<mem, news>>
          \/ \E end \in {"failed", "lost"} : mem' = Ended(mem, end) /\ news' = news \cup {end}
      BY <1>5 DEF Verdict
    <2>3. mem' \in Run /\ mem'.offset = mem.offset /\ news' \subseteq news \cup {"failed", "lost"}
      BY <1>0, <2>1, <2>2 DEF RecordType
    <2> QED
      BY <1>0, <1>5, <1>g, <2>3
         DEF Verdict, RunTypeInv, LogType, WorkerType, RecordType, workerVars, inboxVars
  <1>6. CASE TimeOut
    <2>1. mem' \in Run /\ mem'.offset = mem.offset /\ saved' = mem'
      BY <1>0, <1>6, EndedRun DEF TimeOut, RecordType, Terminal
    <2> QED
      BY <1>0, <1>6, <2>1
         DEF TimeOut, RunTypeInv, LogType, WorkerType, RecordType, workerVars, inboxVars
  <1>7. CASE TellFailed
    BY <1>0, <1>7, <1>g
       DEF TellFailed, RunTypeInv, LogType, WorkerType, RecordType, workerVars,
           inboxVars
  <1>8. CASE InTime
    BY <1>0, <1>8, <1>g
       DEF InTime, RunTypeInv, LogType, WorkerType, RecordType, workerVars, inboxVars
  <1>9. CASE CloseTab
    <2>1. mem' \in Run /\ mem'.offset = mem.offset
      <3>1. mem.closes \in Nat /\ mem.closes < CloseBudget
        BY <1>0, <1>9, RunAssumption DEF CloseTab, CloseDue, RecordType, Run
      <3>2. \/ mem' = [mem EXCEPT !.tabClosed = TRUE, !.closes = 0]
            \/ mem' = [mem EXCEPT !.closes = @ + 1]
        BY <1>9 DEF CloseTab
      <3>3. mem.closes + 1 \in 0..CloseBudget /\ 0 \in 0..CloseBudget
        BY <3>1, RunAssumption
      <3>4. CASE mem' = [mem EXCEPT !.tabClosed = TRUE, !.closes = 0]
        BY <1>0, <3>3, <3>4 DEF RecordType, Run
      <3>5. CASE mem' = [mem EXCEPT !.closes = @ + 1]
        BY <1>0, <3>3, <3>5 DEF RecordType, Run
      <3> QED
        BY <3>2, <3>4, <3>5
    <2>2. WorkerType'
      BY <1>0, <1>9 DEF CloseTab, TabGoes, WorkerType, workerVars
    <2>3. orphan' \in 0..MaxWorkers /\ UNCHANGED news
      BY <1>0, <1>9 DEF CloseTab, RecordType, Run
    <2> QED
      BY <1>0, <1>9, <1>g, <2>1, <2>2, <2>3 DEF CloseTab, RunTypeInv, LogType, RecordType
  <1>10. CASE NoClose
    BY <1>0, <1>10, <1>g
       DEF NoClose, RunTypeInv, LogType, WorkerType, RecordType, workerVars, inboxVars
  <1>11. CASE IdleFails
    <2>1. mem' \in Run /\ mem'.offset = mem.offset
      BY <1>0, <1>11, EndedRun DEF IdleFails, RecordType, Terminal
    <2> QED
      BY <1>0, <1>11, <2>1
         DEF IdleFails, RunTypeInv, LogType, WorkerType, RecordType, workerVars
  <1>12. CASE Recover
    <2>1. mem' \in Run /\ mem'.offset = mem.offset
      <3>1. 0 \in 0..MaxWorkers
        BY RunAssumption
      <3> QED
        BY <1>0, <1>12, <3>1 DEF Recover, RecordType, Run, Busy
    <2> QED
      BY <1>0, <1>12, <2>1
         DEF Recover, RunTypeInv, LogType, WorkerType, RecordType, workerVars, inboxVars
  <1>13. CASE NoRemedy
    BY <1>0, <1>13
       DEF NoRemedy, RunTypeInv, LogType, WorkerType, RecordType, workerVars, inboxVars
  <1>14. CASE Save
    BY <1>0, <1>14
       DEF Save, NoTern, RunTypeInv, LogType, WorkerType, RecordType, workerVars,
           inboxVars
  <1>15. CASE RunCrash
    <2>1. crashes' \in 0..MaxCrashes
      BY <1>0, <1>15, RunAssumption DEF RunCrash, RecordType
    <2> QED
      BY <1>0, <1>15, <2>1
         DEF RunCrash, NoTern, RunTypeInv, LogType, WorkerType, RecordType, workerVars,
             inboxVars
  <1> QED
    BY <1>1, <1>2, <1>3, <1>4, <1>5, <1>6, <1>7, <1>8, <1>9, <1>10, <1>11, <1>12,
       <1>13, <1>14, <1>15 DEF Reconcile

(* The requests.                                                           *)
RequestSteps ==
    \/ Announce \/ Send \/ Cancel \/ Close \/ (\E keep \in BOOLEAN : SetKeep(keep))
    \/ Resume \/ ResumeFails \/ ResumeRecorded
    \/ \E w \in Workers : Launch(w) \/ ResumeOpens(w)

LEMMA RequestRunType ==
    ASSUME RunTypeInv, RequestSteps
    PROVE  RunTypeInv'
  <1>0. LogType /\ WorkerType /\ RecordType
    BY DEF RunTypeInv
  <1>n. /\ Len(log) \in Nat /\ MaxLog \in Nat /\ saved \in Run /\ mem \in Run
        /\ saved.offset \in 0..MaxLog /\ saved.block \in 0..MaxWorkers
        /\ 0 \in 0..MaxWorkers /\ 0 \in 0..MaxLog /\ 0 \in 0..CloseBudget
        /\ 0 \in 0..ResumeBudget
    BY <1>0, RunAssumption DEF RecordType, Run, LogType
  <1>s. /\ {"launching", "running", "idle", "awaiting_decision", "cancelled",
            "failed", "awaiting_user"} \subseteq Terminal \cup Waiting \cup Busy
        /\ {"cancelled", "failed"} \subseteq Terminal
    BY DEF Terminal, Waiting, Busy
  <1>1. CASE Announce
    BY <1>0, <1>1 DEF Announce, RunTypeInv, LogType, WorkerType, RecordType, workerVars
  <1>2. CASE Send
    <2>1. saved' \in Run /\ saved'.offset = saved.offset /\ mem' = saved'
      <3>1. \/ Saves(Woken(saved))
            \/ Saves([saved EXCEPT !.status = "running"])
        BY <1>2 DEF Send
      <3>2. \/ Saves(saved) \/ Saves([saved EXCEPT !.status = "running"])
        BY <3>1 DEF Woken
      <3>3. LET q == [saved EXCEPT !.status = "running"]
            IN  q \in Run /\ q.offset = saved.offset
        BY <1>n, <1>s, StatusRun
      <3> QED
        BY <1>n, <3>2, <3>3 DEF Saves
    <2>2. WorkerType'
      BY <1>0, <1>2 DEF Send, Typed, WorkerType, workerVars
    <2>3. log' \in Seq(Event) /\ Len(log') >= Len(log) /\ Len(log') <= MaxLog
      <3>1. CASE UNCHANGED log
        BY <1>0, <3>1, <1>n DEF LogType
      <3>2. CASE Len(log) < MaxLog /\ \E type \in {"closed", "resumed"} : Records(type, saved.block)
        <4>1. PICK type \in {"closed", "resumed"} : Records(type, saved.block)
          BY <3>2
        <4>2. log' \in Seq(Event) /\ Len(log') = Len(log) + 1
          BY <1>0, <1>n, <4>1, Recorded DEF LogType
        <4> QED
          BY <1>n, <3>2, <4>2
      <3> QED
        BY <1>2, <3>1, <3>2 DEF Send, Typed
    <2>4. at' = at /\ at = "serve" /\ UNCHANGED <<live, crashes, told, news, orphan>>
      BY <1>2 DEF Send, Serving, inboxVars
    <2> QED
      BY <1>0, <1>n, <2>1, <2>2, <2>3, <2>4 DEF RunTypeInv, LogType, RecordType
  <1>3. CASE Cancel \/ Close
    <2>1. PICK r \in Run : ClosesTab(r) /\ r.offset = saved.offset
                            /\ (at' = "announce" => r.status = "cancelled")
      <3>1. CASE Cancel
        <4> DEFINE r == [saved EXCEPT !.status = "cancelled"]
        <4>1. r \in Run /\ r.offset = saved.offset /\ r.status = "cancelled"
          BY <1>n, <1>s, StatusRun DEF Run
        <4>2. ClosesTab(r)
          BY <3>1 DEF Cancel
        <4> QED
          BY <4>1, <4>2
      <3>2. CASE Close
        <4> DEFINE r == [saved EXCEPT !.keep = FALSE, !.closes = 0]
        <4>1. r \in Run /\ r.offset = saved.offset
          BY <1>n DEF Run
        <4>2. ClosesTab(r) /\ at' = "serve"
          BY <3>2 DEF Close, Serving
        <4> QED
          BY <4>1, <4>2
      <3> QED
        BY <1>3, <3>1, <3>2
    <2>2. saved' \in Run /\ saved'.offset = saved.offset /\ saved'.status = r.status /\ mem' = saved'
      BY <2>1 DEF ClosesTab, Saves, Run
    <2>3. WorkerType'
      BY <1>0, <2>1 DEF ClosesTab, TabGoes, WorkerType, workerVars
    <2>4. at' \in {"serve", "announce"} /\ UNCHANGED <<log, live, crashes, told, news, orphan>>
      BY <1>3 DEF Cancel, Close, Serving, inboxVars
    <2> QED
      BY <1>0, <2>1, <2>2, <2>3, <2>4 DEF RunTypeInv, LogType, RecordType
  <1>4. ASSUME NEW keep \in BOOLEAN, SetKeep(keep) PROVE RunTypeInv'
    <2>1. saved' \in Run /\ saved'.offset = saved.offset /\ mem' = saved'
      BY <1>4, <1>n DEF SetKeep, Saves, Run
    <2> QED
      BY <1>0, <1>4, <2>1
         DEF SetKeep, Serving, RunTypeInv, LogType, WorkerType, RecordType, workerVars,
             inboxVars
  <1>5. CASE Resume
    <2>1. saved' \in Run /\ saved'.offset = saved.offset /\ saved'.resumes = saved.resumes
      <3>1. saved' = Begun(saved)
        BY <1>5 DEF Resume
      <3>2. saved.ask \in {"none", "open", "shut"} /\ Shut(saved) \in {"none", "open", "shut"}
        BY <1>n DEF Run, Shut
      <3> QED
        BY <1>n, <1>s, <3>1, <3>2 DEF Begun, Run
    <2>2. saved.resumes < ResumeBudget
      BY <1>5 DEF Resume, MayResume
    <2> QED
      BY <1>0, <1>5, <2>1, <2>2
         DEF Resume, Serving, RunTypeInv, LogType, WorkerType, RecordType, workerVars,
             inboxVars
  <1>6. CASE ResumeFails
    <2>1. saved.resumes \in 0..ResumeBudget /\ saved.resumes < ResumeBudget
      BY <1>0, <1>6, <1>n DEF ResumeFails, RecordType, Run
    <2>2. saved.resumes + 1 \in 0..ResumeBudget
      BY <2>1, RunAssumption
    <2>3. saved' \in Run /\ saved'.offset = saved.offset /\ mem' = saved'
      BY <1>6, <1>n, <2>2 DEF ResumeFails, Saves, Unresumed, Run
    <2> QED
      BY <1>0, <1>6, <2>3
         DEF ResumeFails, RunTypeInv, LogType, WorkerType, RecordType, workerVars, inboxVars
  <1>7. CASE ResumeRecorded
    <2>1. LogType' /\ Len(log') >= Len(log)
      <3>1. CASE Len(log) < MaxLog
        <4>1. log' \in Seq(Event) /\ Len(log') = Len(log) + 1
          BY <1>0, <1>7, <1>n, <3>1, Recorded DEF ResumeRecorded, LogType
        <4> QED
          BY <1>0, <1>7, <1>n, <3>1, <4>1 DEF ResumeRecorded, LogType, inboxVars
      <3>2. CASE log' = log
        BY <1>0, <1>7, <1>n, <3>2 DEF ResumeRecorded, LogType, inboxVars
      <3> QED
        BY <1>7, <3>1, <3>2 DEF ResumeRecorded
    <2>2. saved.offset \in Nat /\ mem.offset \in Nat /\ Len(log') \in Nat
      BY <1>n, <2>1 DEF Run, LogType
    <2> QED
      BY <1>0, <1>7, <1>n, <2>1, <2>2
         DEF ResumeRecorded, RunTypeInv, WorkerType, RecordType, workerVars, inboxVars
  <1>8. ASSUME NEW w \in Workers, Launch(w) PROVE RunTypeInv'
    <2>1. saved' \in Run /\ saved'.offset = saved.offset /\ mem' = saved'
          /\ (at' = "announce" => saved'.status = "failed") /\ at' \in {at, "announce"}
      <3>1. at = "serve" /\ w \in 0..MaxWorkers
        BY <1>8, RunAssumption DEF Launch, Serving, Workers
      <3>2. \/ /\ at' = at
               /\ Saves([saved EXCEPT !.phase = "tab_open", !.block = w])
            \/ /\ at' = "announce"
               /\ Saves([saved EXCEPT !.status = "failed"])
        BY <1>8 DEF Launch
      <3>3. LET q == [saved EXCEPT !.phase = "tab_open", !.block = w]
            IN  q \in Run /\ q.offset = saved.offset
        BY <1>n, <3>1 DEF Run
      <3>4. LET q == [saved EXCEPT !.status = "failed"]
            IN  q \in Run /\ q.offset = saved.offset /\ q.status = "failed"
        BY <1>n, <1>s, StatusRun
      <3> QED
        BY <3>1, <3>2, <3>3, <3>4 DEF Saves
    <2>2. WorkerType'
      BY <1>0, <1>8 DEF Launch, Opens, WorkerType, workerVars
    <2> QED
      BY <1>0, <1>8, <2>1, <2>2
         DEF Launch, Serving, RunTypeInv, LogType, RecordType, inboxVars
  <1>9. ASSUME NEW w \in Workers, ResumeOpens(w) PROVE RunTypeInv'
    <2>1. mem' \in Run /\ mem'.offset = saved.offset
      <3>1. mem' = [saved EXCEPT !.status = "running", !.block = w, !.resumes = 0]
            /\ w \in 0..MaxWorkers
        BY <1>9, RunAssumption DEF ResumeOpens, Workers
      <3> QED
        BY <1>n, <1>s, <3>1 DEF Run
    <2>2. WorkerType'
      BY <1>0, <1>9 DEF ResumeOpens, Opens, WorkerType
    <2> QED
      BY <1>0, <1>9, <2>1, <2>2 DEF ResumeOpens, RunTypeInv, LogType, RecordType, inboxVars
  <1> QED
    BY <1>1, <1>2, <1>3, <1>4, <1>5, <1>6, <1>7, <1>8, <1>9 DEF RequestSteps

LEMMA RunSteps ==
    RunNext <=> \/ \E w \in Workers : WorkerStep(w) \/ Dies(w) \/ UserCloses(w)
                \/ Reconcile \/ RunCrash \/ RequestSteps
  BY DEF RunNext, RequestSteps

LEMMA RunTypePreserved == RunTypeInv /\ [RunNext]_runVars => RunTypeInv'
  <1> SUFFICES ASSUME RunTypeInv, [RunNext]_runVars PROVE RunTypeInv'
    OBVIOUS
  <1>1. CASE UNCHANGED runVars
    BY <1>1
       DEF runVars, workerVars, inboxVars, RunTypeInv, LogType, WorkerType, RecordType
  <1> QED
    BY <1>1, RunSteps, WorkerRunType, TickRunType, RequestRunType

(* The records of the run are records, its offsets lie within the log, no  *)
(* counter passes its budget (daemon.ts, supervisor.ts, resume.ts).        *)
THEOREM RunTypeCorrect == RunSpec => []RunTypeOK
  <1> QED
    BY InitRunType, RunTypePreserved, RunTypeImplied, PTL DEF RunSpec

-----------------------------------------------------------------------------
(* What the daemon's copy of the run has in common with the saved record,  *)
(* and what it has seen to be where it is in its tick.                     *)
CopyInv ==
    /\ at \in {"serve", "announce"} => mem = saved
    /\ mem.keep = saved.keep
    /\ at # "save" => mem.relaunched = saved.relaunched
    /\ at \in {"resume", "reopened"} => saved.status = "launching"
    /\ at = "time" => mem.status = "launching"
    /\ at = "close" => OwesClose(mem)
    /\ saved.status \in Terminal =>
          \/ mem.status = saved.status
          \/ at = "save" /\ saved.status = "lost" /\ ~saved.relaunched
             /\ mem.relaunched

(* A worker's steps leave the daemon's records alone.                      *)
LEMMA WorkerLeaves ==
    ASSUME NEW w \in Workers, WorkerStep(w) \/ Dies(w) \/ UserCloses(w)
    PROVE  UNCHANGED daemonVars
  BY DEF WorkerStep, SessionStart, Settle, Finish, Ask, UserTypes, Typed, Dies,
         UserCloses

(* Where a tick goes on tells something of the run it goes on with.        *)
LEMMA AfterSteps ==
    /\ AfterClose(mem) \in {"remedy", "save"}
    /\ AfterClose(mem') \in {"remedy", "save"}
    /\ \/ AfterTime(mem) \in {"remedy", "save"}
       \/ AfterTime(mem) = "close" /\ OwesClose(mem)
    /\ \/ Onward(mem) \in {"remedy", "save"}
       \/ Onward(mem) = "close" /\ OwesClose(mem)
       \/ Onward(mem) = "time" /\ mem.status = "launching"
    /\ \/ Onward(mem') \in {"remedy", "save"}
       \/ Onward(mem') = "close" /\ OwesClose(mem')
       \/ Onward(mem') = "time" /\ mem'.status = "launching"
  BY DEF AfterClose, AfterTime, Onward

LEMMA TickCopies ==
    ASSUME RunTypeInv, CopyInv, Reconcile \/ RunCrash
    PROVE  CopyInv'
  <1>0. saved \in Run /\ mem \in Run
    BY DEF RunTypeInv, RecordType
  <1>s. Terminal \cap (Waiting \cup Busy) = {}
    BY DEF Terminal, Waiting, Busy
  <1>1. CASE Snapshot
    BY <1>1 DEF Snapshot, CopyInv
  <1>2. CASE ReadEvent
    <2>1. mem.offset + 1 \in 1..Len(log)
      BY <1>2, NextEvent
    <2>2. /\ mem'.keep = mem.keep /\ mem'.relaunched = mem.relaunched
          /\ mem.status \in Terminal => mem'.status = mem.status
      BY <1>0, <1>2, <2>1, AppliedRun DEF ReadEvent, RunTypeInv
    <2> QED
      BY <1>2, <2>2 DEF ReadEvent, CopyInv
  <1>3. CASE EndRead
    BY <1>3 DEF EndRead, CopyInv
  <1>4. CASE Judge
    BY <1>4, AfterSteps DEF Judge, ReadAgain, CopyInv, OwesClose, HasTab
  <1>5. CASE Verdict
    <2>1. \/ mem' = mem
          \/ /\ mem.status \in Busy /\ mem'.keep = mem.keep
             /\ mem'.relaunched = mem.relaunched
      BY <1>0, <1>5 DEF Verdict, Ended, Run
    <2> QED
      BY <1>5, <1>s, <2>1, AfterSteps DEF Verdict, CopyInv, OwesClose, HasTab
  <1>6. CASE TimeOut
    BY <1>6 DEF TimeOut, CopyInv
  <1>7. CASE TellFailed
    BY <1>7, AfterSteps DEF TellFailed, CopyInv, OwesClose, HasTab
  <1>8. CASE InTime
    BY <1>8, AfterSteps DEF InTime, CopyInv, OwesClose, HasTab
  <1>9. CASE CloseTab
    <2>1. mem'.keep = mem.keep /\ mem'.relaunched = mem.relaunched /\ mem'.status = mem.status
      BY <1>0, <1>9 DEF CloseTab, Run
    <2> QED
      BY <1>9, <2>1, AfterSteps DEF CloseTab, CopyInv
  <1>10. CASE NoClose
    BY <1>10, AfterSteps DEF NoClose, CopyInv
  <1>11. CASE IdleFails
    <2>1. mem'.keep = mem.keep /\ mem'.relaunched = mem.relaunched /\ mem.status \notin Terminal
      BY <1>0, <1>11 DEF IdleFails, Ended, Run, Terminal
    <2> QED
      BY <1>11, <2>1 DEF IdleFails, CopyInv
  <1>12. CASE Recover
    <2>1. mem'.keep = mem.keep /\ mem'.relaunched /\ mem.status = "lost" /\ ~mem.relaunched
      BY <1>0, <1>12 DEF Recover, Recoverable, Run
    <2> QED
      BY <1>12, <2>1 DEF Recover, CopyInv
  <1>13. CASE NoRemedy
    BY <1>13 DEF NoRemedy, CopyInv
  <1>14. CASE Save
    BY <1>14 DEF Save, CopyInv
  <1>15. CASE RunCrash
    BY <1>15 DEF RunCrash, CopyInv
  <1> QED
    BY <1>1, <1>2, <1>3, <1>4, <1>5, <1>6, <1>7, <1>8, <1>9, <1>10, <1>11, <1>12,
       <1>13, <1>14, <1>15 DEF Reconcile

LEMMA RequestCopies ==
    ASSUME RunTypeInv, CopyInv, RequestSteps
    PROVE  CopyInv'
  <1>0. saved \in Run /\ mem \in Run
    BY DEF RunTypeInv, RecordType
  <1>1. CASE Announce
    BY <1>1 DEF Announce, CopyInv
  <1>2. CASE Send
    BY <1>2 DEF Send, Serving, Saves, CopyInv
  <1>3. CASE Cancel
    BY <1>3 DEF Cancel, Serving, ClosesTab, Saves, CopyInv
  <1>4. CASE Close
    BY <1>4 DEF Close, Serving, ClosesTab, Saves, CopyInv
  <1>5. ASSUME NEW keep \in BOOLEAN, SetKeep(keep) PROVE CopyInv'
    BY <1>5 DEF SetKeep, Serving, Saves, CopyInv
  <1>6. CASE Resume
    BY <1>0, <1>6 DEF Resume, Serving, Begun, CopyInv, Run, Terminal
  <1>7. CASE ResumeFails
    BY <1>7 DEF ResumeFails, Saves, CopyInv
  <1>8. CASE ResumeRecorded
    BY <1>8 DEF ResumeRecorded, CopyInv, Terminal
  <1>9. ASSUME NEW w \in Workers, Launch(w) PROVE CopyInv'
    BY <1>9 DEF Launch, Serving, Saves, CopyInv
  <1>10. ASSUME NEW w \in Workers, ResumeOpens(w) PROVE CopyInv'
    BY <1>0, <1>10 DEF ResumeOpens, CopyInv, Run, Terminal
  <1> QED
    BY <1>1, <1>2, <1>3, <1>4, <1>5, <1>6, <1>7, <1>8, <1>9, <1>10 DEF RequestSteps

LEMMA CopyPreserved == RunTypeInv /\ CopyInv /\ [RunNext]_runVars => CopyInv'
  <1> SUFFICES ASSUME RunTypeInv, CopyInv, [RunNext]_runVars PROVE CopyInv'
    OBVIOUS
  <1>1. CASE UNCHANGED runVars
    BY <1>1 DEF runVars, CopyInv, OwesClose, HasTab
  <1>2. ASSUME NEW w \in Workers, WorkerStep(w) \/ Dies(w) \/ UserCloses(w)
        PROVE  CopyInv'
    <2>1. UNCHANGED daemonVars
      BY <1>2, WorkerLeaves
    <2> QED
      BY <2>1 DEF daemonVars, CopyInv, OwesClose, HasTab
  <1> QED
    BY <1>1, <1>2, RunSteps, TickCopies, RequestCopies

LEMMA CopyAlways == RunSpec => [](RunTypeInv /\ CopyInv)
  <1>1. RunInit => RunTypeInv /\ CopyInv
    <2>1. RunInit => CopyInv
      BY DEF RunInit, CopyInv, Terminal
    <2> QED
      BY <2>1, InitRunType
  <1>2. RunTypeInv /\ CopyInv /\ [RunNext]_runVars => (RunTypeInv /\ CopyInv)'
    BY RunTypePreserved, CopyPreserved
  <1> QED
    BY <1>1, <1>2, PTL DEF RunSpec

-----------------------------------------------------------------------------
(* What follows from the copy.                                             *)

(* A tab that is to be kept is closed by nobody but its user, unless the   *)
(* run is cancelled, whatever the daemon finds it in (closeRunTab).        *)
THEOREM TabsKept == RunSpec => KeptTabStays
  <1> DEFINE Step == \A w \in Workers :
                        /\ saved.keep /\ saved'.keep
                        /\ tab[w] = "open" /\ tab'[w] = "closed" /\ at' # at
                        => saved'.status = "cancelled"
  <1>1. ASSUME RunTypeInv, CopyInv, [RunNext]_runVars
        PROVE  [Step]_runVars
    <2> SUFFICES ASSUME NEW w \in Workers, saved.keep, saved'.keep, tab[w] = "open",
                        tab'[w] = "closed", at' # at
                 PROVE  saved'.status = "cancelled"
      OBVIOUS
    <2>0. saved \in Run /\ tab \in [Workers -> {"none", "open", "closed"}]
      BY <1>1 DEF RunTypeInv, RecordType, WorkerType
    <2>1. ~(at = "close" /\ CloseTab)
      BY <1>1 DEF CopyInv, OwesClose
    <2>2. CASE Reconcile \/ RunCrash
      BY <2>1, <2>2
         DEF Reconcile, RunCrash, Snapshot, ReadEvent, EndRead, Judge, Verdict,
             TimeOut, TellFailed, InTime, CloseTab, NoClose, IdleFails, Recover,
             NoRemedy, Save, workerVars
    <2>3. CASE Cancel
      <3>1. ASSUME NEW r, r = [saved EXCEPT !.status = "cancelled"], ClosesTab(r)
            PROVE  saved'.status = "cancelled"
        BY <2>0, <3>1 DEF ClosesTab, Saves, Run
      <3> QED
        BY <2>3, <3>1 DEF Cancel
    <2>4. CASE RequestSteps /\ ~Cancel
      BY <2>0, <2>4
         DEF RequestSteps, Announce, Send, Typed, Close, Serving, SetKeep, Resume,
             ResumeFails, ResumeRecorded, Launch, ResumeOpens, Opens, workerVars
    <2>5. ASSUME NEW v \in Workers, WorkerStep(v) \/ Dies(v) \/ UserCloses(v)
          PROVE  at' = at
      BY <2>5, WorkerLeaves DEF daemonVars
    <2> QED
      BY <1>1, <2>2, <2>3, <2>4, <2>5, RunSteps DEF runVars
  <1> QED
    BY <1>1, CopyAlways, PTL DEF RunSpec, KeptTabStays

(* A run that ended stays ended, whatever its worker still says, until it  *)
(* is resumed, or started over because it was lost (applyEvent).           *)
THEOREM EndsStay == RunSpec => EndedStays
  <1> DEFINE Step == saved.status \in Terminal /\ saved'.status \notin Terminal =>
                        \/ at' = "resume"
                        \/ saved.status = "lost" /\ ~saved.relaunched /\ saved'.relaunched
  <1>1. ASSUME RunTypeInv, CopyInv, [RunNext]_runVars
        PROVE  [Step]_runVars
    <2> SUFFICES ASSUME saved.status \in Terminal, saved'.status \notin Terminal,
                        at' # "resume"
                 PROVE  saved.status = "lost" /\ ~saved.relaunched /\ saved'.relaunched
      OBVIOUS
    <2>0. saved \in Run /\ mem \in Run
      BY <1>1 DEF RunTypeInv, RecordType
    <2>s. {"failed", "cancelled"} \subseteq Terminal /\ Terminal \cap (Waiting \cup Busy) = {}
      BY DEF Terminal, Waiting, Busy
    <2>1. CASE Save
      BY <1>1, <2>1 DEF Save, CopyInv
    <2>2. CASE TimeOut
      BY <2>0, <2>2, <2>s DEF TimeOut, Ended, Run
    <2>3. CASE (Reconcile \/ RunCrash) /\ ~Save /\ ~TimeOut
      BY <2>3
         DEF Reconcile, RunCrash, Snapshot, ReadEvent, EndRead, Judge, Verdict,
             TellFailed, InTime, CloseTab, NoClose, IdleFails, Recover, NoRemedy
    <2>4. CASE Send
      BY <2>4, <2>s DEF Send, Waiting
    <2>5. CASE Cancel \/ Close
      <3>1. ASSUME NEW r \in Run, ClosesTab(r)
            PROVE  saved'.status = r.status
        BY <3>1 DEF ClosesTab, Saves, Run
      <3>2. [saved EXCEPT !.keep = FALSE, !.closes = 0] \in Run
        <4>1. 0 \in 0..CloseBudget
          BY RunAssumption
        <4> QED
          BY <2>0, <4>1 DEF Run
      <3> QED
        BY <2>0, <2>5, <3>1, <3>2 DEF Cancel, Close, Run
    <2>6. CASE \E keep \in BOOLEAN : SetKeep(keep)
      BY <2>0, <2>6 DEF SetKeep, Saves, Run
    <2>7. CASE ResumeFails
      BY <1>1, <2>7, <2>s DEF ResumeFails, CopyInv, Busy
    <2>8. CASE Announce \/ Resume \/ ResumeRecorded
                \/ \E w \in Workers : Launch(w) \/ ResumeOpens(w)
      BY <2>8, <2>s DEF Announce, Resume, ResumeRecorded, Launch, ResumeOpens, Busy
    <2>9. ASSUME NEW w \in Workers, WorkerStep(w) \/ Dies(w) \/ UserCloses(w)
          PROVE  saved' = saved
      BY <2>9, WorkerLeaves DEF daemonVars
    <2> QED
      BY <1>1, <2>1, <2>2, <2>3, <2>4, <2>5, <2>6, <2>7, <2>8, <2>9, RunSteps
         DEF RequestSteps, runVars
  <1> QED
    BY <1>1, CopyAlways, PTL DEF RunSpec, EndedStays

(* The inbox has an item of the report a record is left with.              *)
ToldInv ==
    /\ saved.finish # 0 => saved.finish \in told
    /\ mem.finish # 0 => mem.finish \in told

LEMMA ToldPreserved == RunTypeInv /\ ToldInv /\ [RunNext]_runVars => ToldInv'
  <1> SUFFICES ASSUME RunTypeInv, ToldInv, [RunNext]_runVars PROVE ToldInv'
    OBVIOUS
  <1>0. saved \in Run /\ mem \in Run
    BY DEF RunTypeInv, RecordType
  <1>1. CASE UNCHANGED runVars
    BY <1>1 DEF runVars, inboxVars, ToldInv
  <1>2. ASSUME NEW w \in Workers, WorkerStep(w) \/ Dies(w) \/ UserCloses(w)
        PROVE  ToldInv'
    BY <1>2, WorkerLeaves DEF daemonVars, inboxVars, ToldInv
  <1>3. CASE ReadEvent
    <2>1. mem.offset + 1 \in 1..Len(log)
      BY <1>3, NextEvent
    <2>2. \/ mem'.finish = mem.finish
          \/ /\ mem'.finish = mem.offset + 1 /\ mem.status \notin Terminal
             /\ log[mem.offset + 1].type \in Outcomes
      BY <1>0, <1>3, <2>1, AppliedRun DEF ReadEvent, RunTypeInv
    <2>3. mem'.finish = mem.finish \/ mem'.finish \in News(mem, mem.offset + 1)
      BY <2>2 DEF News, Outcomes
    <2> QED
      BY <1>3, <2>3 DEF ReadEvent, ToldInv
  <1>4. CASE (Reconcile \/ RunCrash) /\ ~ReadEvent
    <2>1. told' = told
      BY <1>4
         DEF Reconcile, RunCrash, Snapshot, EndRead, Judge, Verdict, TimeOut,
             TellFailed, InTime, CloseTab, NoClose, IdleFails, Recover, NoRemedy,
             Save, inboxVars
    <2>2. mem'.finish = mem.finish \/ mem' = saved
      BY <1>0, <1>4
         DEF Reconcile, RunCrash, Snapshot, EndRead, Judge, Verdict, TimeOut,
             TellFailed, InTime, CloseTab, NoClose, IdleFails, Recover, NoRemedy,
             Save, Ended, Run
    <2>3. saved' = saved \/ saved' = mem'
      BY <1>4
         DEF Reconcile, RunCrash, Snapshot, EndRead, Judge, Verdict, TimeOut,
             TellFailed, InTime, CloseTab, NoClose, IdleFails, Recover, NoRemedy,
             Save
    <2> QED
      BY <2>1, <2>2, <2>3 DEF ToldInv
  <1>5. CASE RequestSteps
    <2>1. told' = told
      BY <1>5
         DEF RequestSteps, Announce, Send, Cancel, Close, SetKeep, Resume,
             ResumeFails, ResumeRecorded, Launch, ResumeOpens, inboxVars
    <2>2. saved'.finish \in {saved.finish, 0}
      <3>1. CASE Announce \/ Send \/ \E w \in Workers : Launch(w) \/ ResumeOpens(w)
        BY <1>0, <3>1 DEF Announce, Send, Woken, Launch, ResumeOpens, Saves, Run
      <3>2. CASE Cancel \/ Close \/ \E keep \in BOOLEAN : SetKeep(keep)
        BY <1>0, <3>2 DEF Cancel, Close, ClosesTab, SetKeep, Saves, Run
      <3>3. CASE Resume \/ ResumeFails \/ ResumeRecorded
        BY <1>0, <3>3 DEF Resume, Begun, ResumeFails, Unresumed, ResumeRecorded, Saves, Run
      <3> QED
        BY <1>5, <3>1, <3>2, <3>3 DEF RequestSteps
    <2>3. mem' = mem \/ mem' = saved' \/ mem'.finish = saved.finish
      BY <1>0, <1>5
         DEF RequestSteps, Announce, Send, Cancel, Close, ClosesTab, SetKeep, Resume,
             ResumeFails, ResumeRecorded, Launch, ResumeOpens, Saves, Run
    <2> QED
      BY <2>1, <2>2, <2>3 DEF ToldInv
  <1> QED
    BY <1>1, <1>2, <1>3, <1>4, <1>5, RunSteps

(* A result the run is left with was told, however often the daemon dies   *)
(* between the item and the record (applyEvent, notify).                   *)
THEOREM OutcomesTold == RunSpec => []OutcomeTold
  <1>1. RunInit => ToldInv
    BY DEF RunInit, ToldInv
  <1>2. ToldInv => OutcomeTold
    BY DEF ToldInv, OutcomeTold
  <1> QED
    BY <1>1, <1>2, InitRunType, RunTypePreserved, ToldPreserved, PTL DEF RunSpec

-----------------------------------------------------------------------------
StartsRead(r, l) == \A i \in (r.offset + 1)..Len(l) : l[i].type # "started"

Waits(p, w) == p[w] \in {"starting", "reopening"}

(* A resume that opens a third worker, or a later one, finds that the      *)
(* daemon has read the start of the one before it.  The code sees to this  *)
(* of the first worker only, whose session it needs; without it what       *)
(* follows is false (ClawRunFork.cfg).                                     *)
Informed ==
    \A w \in Workers : w > 2 /\ proc[w] = "none" /\ proc'[w] = "reopening" =>
        StartsRead(saved, log) /\ \A v \in Workers : ~Waits(proc, v)

Procs == [Workers -> {"none", "starting", "reopening", "turn", "modal", "prompt",
                      "gone"}]

Last(p, w) ==
    w \in Workers /\ p[w] # "none" /\ \A v \in Workers : v > w => p[v] = "none"

(* A worker is opened only when the ones before it are gone.               *)
WorkersOK(p) ==
    /\ p[1] # "none"
    /\ \A v, w \in Workers : v < w /\ p[w] # "none" => p[v] = "gone"

TabsOK(p, t) ==
    \A w \in Workers : /\ t[w] = "none" <=> p[w] = "none"
                       /\ t[w] = "closed" => p[w] = "gone"

(* A worker starts once, and what is in the log is of a worker that was    *)
(* opened.                                                                 *)
LogOK(l, p) ==
    /\ \A i \in 1..Len(l) :
          /\ l[i].type = "started" =>
                l[i].worker # 0 /\ p[l[i].worker] \notin {"none", "starting", "reopening"}
          /\ l[i].type \in Outcomes => l[i].worker # 0
          /\ l[i].worker # 0 => p[l[i].worker] # "none"
    /\ \A i, j \in 1..Len(l) : l[i].type = "started" /\ l[j] = l[i] => i = j

(* What a record tells of the run's last worker: the process and the tab   *)
(* it names are that one's, so is a start it has not read, and without a   *)
(* process a worker whose start was read is gone.  A run that has a        *)
(* session has heard of its first worker; one that was lost or is launched *)
(* again, of all its workers.                                              *)
RecordOK(r, l, p) ==
    /\ r.pid # 0 => Last(p, r.pid)
    /\ r.block # 0 => Last(p, r.block)
    /\ r.session => ~Waits(p, 1)
    /\ \A i \in (r.offset + 1)..Len(l) : l[i].type = "started" => Last(p, l[i].worker)
    /\ \A n \in Workers : Last(p, n) =>
          /\ StartsRead(r, l) /\ ~Waits(p, n) /\ r.pid = 0 => p[n] = "gone"
          /\ n = 1 /\ r.session => StartsRead(r, l)
          /\ r.status = "launching" /\ r.phase = "issue_created" =>
                p[n] = "gone" /\ StartsRead(r, l) /\ r.pid = 0
          /\ r.status = "lost" => p[n] = "gone" /\ StartsRead(r, l)

NobodyAlive == \A w \in Workers : ~Alive(w)

InTick == at \in {"read", "reread", "judge", "verdict", "time", "tell", "close",
                  "remedy", "save"}

ResumeOK ==
    /\ at = "resume" => /\ saved.pid = 0 /\ saved.block = 0 /\ saved.session
                        /\ saved.offset = mem.offset /\ saved.phase = "tab_open"
    /\ at = "reopened" => mem.status = "running"

(* While a tick goes on, no block but those it found holds a worker.       *)
LiveOK ==
    live.known =>
        InTick /\ \A w \in Workers : proc[w] # "none" /\ w \notin live.blocks => ~Alive(w)

(* A verdict, and what follows it, finds nobody there and nothing unread.  *)
LostOK ==
    /\ at \in {"reread", "verdict"} => NobodyAlive
    /\ at = "verdict" => AllRead
    /\ InTick /\ mem.status = "lost" /\ saved.status # "lost" => NobodyAlive /\ AllRead

OnceInv ==
    /\ WorkersOK(proc) /\ TabsOK(proc, tab) /\ LogOK(log, proc)
    /\ RecordOK(saved, log, proc) /\ RecordOK(mem, log, proc)
    /\ ResumeOK /\ LiveOK /\ LostOK

LEMMA WorkersAre ==
    /\ 1 \in Workers /\ Workers \subseteq Nat \ {0}
    /\ \A w \in 0..MaxWorkers : w # 0 => w \in Workers
  BY RunAssumption DEF Workers

(* There is one last worker, and the others are gone or were never there.  *)
LEMMA LastIsLast ==
    ASSUME NEW p, WorkersOK(p), NEW n \in Workers, Last(p, n), NEW w \in Workers
    PROVE  /\ w = n \/ p[w] \in {"none", "gone"}
           /\ Last(p, w) => w = n
  <1>1. w < n \/ w = n \/ w > n
    BY WorkersAre
  <1>2. CASE w < n
    BY <1>2, WorkersAre DEF Last, WorkersOK
  <1> QED
    BY <1>1, <1>2 DEF Last

(* A worker that is not gone is the last.                                  *)
LEMMA AliveIsLast ==
    ASSUME NEW p, WorkersOK(p), NEW w \in Workers, p[w] \notin {"none", "gone"}
    PROVE  Last(p, w)
  BY WorkersAre DEF Last, WorkersOK

(* What a step that opens no tab does to the workers and to the log.       *)
Moved(p, q) ==
    \A w \in Workers : /\ q[w] = "none" <=> p[w] = "none"
                       /\ p[w] = "gone" => q[w] = "gone"
                       /\ q[w] \in {"starting", "reopening"} => q[w] = p[w]

Begins(p, q) == \E w \in Workers : Waits(p, w) /\ ~Waits(q, w) /\ q[w] # "gone"

Grown(l, m, p, q) ==
    \/ m = l /\ ~Begins(p, q)
    \/ \E e \in Event :
          /\ m = Append(l, e)
          /\ e.type = "started" =>
                /\ e.worker # 0 /\ p[e.worker] \in {"starting", "reopening"}
                /\ q[e.worker] \notin {"starting", "reopening"}
          /\ e.type \in Outcomes => e.worker # 0
          /\ e.worker # 0 => p[e.worker] \notin {"none", "gone"}
          /\ Begins(p, q) => e.type = "started"

LEMMA WorkersKept ==
    ASSUME NEW p \in Procs, NEW q \in Procs, WorkersOK(p), Moved(p, q)
    PROVE  /\ WorkersOK(q)
           /\ \A w \in Workers : Last(q, w) <=> Last(p, w)
  <1>1. \A w \in Workers : Last(q, w) <=> Last(p, w)
    BY DEF Last, Moved
  <1> QED
    BY <1>1, WorkersAre DEF WorkersOK, Moved

LEMMA LogKept ==
    ASSUME NEW p \in Procs, NEW q \in Procs, NEW l \in Seq(Event), NEW m,
           LogOK(l, p), Moved(p, q), Grown(l, m, p, q)
    PROVE  LogOK(m, q)
  <1>0. \A i \in 1..Len(l) : l[i] \in Event
    OBVIOUS
  <1>w. \A e \in Event : e.worker # 0 => e.worker \in Workers
    BY RunAssumption DEF Event, Workers
  <1>1. LogOK(l, q)
    BY <1>0, <1>w DEF LogOK, Moved
  <1>2. CASE m # l
    <2>1. PICK e \in Event :
          /\ m = Append(l, e)
          /\ e.type = "started" =>
                /\ e.worker # 0 /\ p[e.worker] \in {"starting", "reopening"}
                /\ q[e.worker] \notin {"starting", "reopening"}
          /\ e.type \in Outcomes => e.worker # 0
          /\ e.worker # 0 => p[e.worker] \notin {"none", "gone"}
      BY <1>2 DEF Grown
    <2>2. /\ Len(m) = Len(l) + 1 /\ m[Len(l) + 1] = e
          /\ \A i \in 1..Len(l) : m[i] = l[i]
      BY <2>1
    <2>3. e.worker # 0 => q[e.worker] # "none"
      BY <1>w, <2>1 DEF Moved
    <2>4. \A i \in 1..Len(l) : e.type = "started" => l[i] # e
      BY <2>1 DEF LogOK
    <2> QED
      BY <1>1, <2>1, <2>2, <2>3, <2>4 DEF LogOK
  <1> QED
    BY <1>1, <1>2

LEMMA RecordKept ==
    ASSUME NEW p \in Procs, NEW q \in Procs, NEW l \in Seq(Event), NEW m,
           NEW r \in Run, WorkersOK(p), Moved(p, q), Grown(l, m, p, q),
           r.offset <= Len(l), RecordOK(r, l, p)
    PROVE  RecordOK(r, m, q)
  <1>n. r.offset \in Nat /\ r.pid \in 0..MaxWorkers /\ r.block \in 0..MaxWorkers
    BY DEF Run
  <1>l. \A w \in Workers : Last(q, w) <=> Last(p, w)
    BY WorkersKept
  <1>k. \A w \in Workers : /\ p[w] = "gone" => q[w] = "gone"
                           /\ Waits(q, w) => Waits(p, w)
    BY DEF Moved, Waits
  <1>1. CASE m = l /\ ~Begins(p, q)
    <2>1. \A w \in Workers : ~Waits(q, w) /\ Waits(p, w) => q[w] = "gone"
      BY <1>1 DEF Begins
    <2> QED
      <3>1. /\ r.pid # 0 => Last(q, r.pid)
            /\ r.block # 0 => Last(q, r.block)
            /\ r.session => ~Waits(q, 1)
        BY <1>l, <1>k, WorkersAre DEF RecordOK, Last
      <3>2. \A n \in Workers : Last(p, n) /\ p[n] = "gone" => q[n] = "gone"
        BY <1>k
      <3>3. \A n \in Workers : p[n] = "gone" => ~Waits(p, n)
        BY DEF Waits
      <3>4. \A i \in (r.offset + 1)..Len(m) :
               m[i].type = "started" => Last(q, m[i].worker)
        BY <1>1, <1>l DEF RecordOK, Last
      <3> QED
        BY <1>1, <1>l, <1>k, <2>1, <3>1, <3>2, <3>3, <3>4 DEF RecordOK
  <1>2. CASE m # l
    <2>1. PICK e \in Event :
          /\ m = Append(l, e)
          /\ e.type = "started" => e.worker # 0 /\ Waits(p, e.worker)
          /\ Begins(p, q) => e.type = "started"
      BY <1>2 DEF Grown, Waits
    <2>2. /\ Len(m) = Len(l) + 1 /\ m[Len(l) + 1] = e
          /\ \A i \in 1..Len(l) : m[i] = l[i]
      BY <2>1
    <2>3. e.type = "started" => Last(p, e.worker)
      BY <2>1, WorkersAre, AliveIsLast DEF Event, Waits
    <2>4. \A n \in Workers : Last(p, n) /\ ~Waits(p, n) => e.type # "started"
      BY <2>1, <2>3, LastIsLast DEF Last
    <2>5. StartsRead(r, m) <=> StartsRead(r, l) /\ e.type # "started"
      BY <1>n, <2>2 DEF StartsRead
    <2>6. ASSUME NEW i \in (r.offset + 1)..Len(m), m[i].type = "started"
          PROVE  Last(q, m[i].worker)
      <3>1. Last(p, m[i].worker)
        <4>1. CASE i <= Len(l)
          BY <1>n, <2>2, <2>6, <4>1 DEF RecordOK
        <4>2. CASE i = Len(l) + 1
          BY <2>2, <2>3, <2>6, <4>2
        <4> QED
          BY <1>n, <2>2, <4>1, <4>2
      <3> QED
        BY <1>l, <3>1 DEF Last
    <2>7. \A w \in Workers : e.type # "started" /\ ~Waits(q, w) /\ Waits(p, w) => q[w] = "gone"
      BY <2>1 DEF Begins
    <2>8. /\ r.pid # 0 => Last(q, r.pid)
          /\ r.block # 0 => Last(q, r.block)
          /\ r.session => ~Waits(q, 1)
      BY <1>l, <1>k, WorkersAre DEF RecordOK, Last
    <2>9. ASSUME NEW n \in Workers, Last(p, n)
          PROVE  /\ StartsRead(r, m) /\ ~Waits(q, n) /\ r.pid = 0 => q[n] = "gone"
                 /\ n = 1 /\ r.session => StartsRead(r, m)
                 /\ r.status = "launching" /\ r.phase = "issue_created" =>
                       q[n] = "gone" /\ StartsRead(r, m) /\ r.pid = 0
                 /\ r.status = "lost" => q[n] = "gone" /\ StartsRead(r, m)
      <3>1. p[n] = "gone" => ~Waits(p, n)
        BY DEF Waits
      <3> QED
        BY <1>k, <2>4, <2>5, <2>7, <2>9, <3>1 DEF RecordOK
    <2> QED
      BY <1>l, <2>6, <2>8, <2>9 DEF RecordOK
  <1> QED
    BY <1>1, <1>2 DEF Grown

(* A record that says the same of the workers, or less.                    *)
SameRecord(r, s) ==
    /\ s.pid = r.pid /\ s.block = r.block /\ s.session = r.session
    /\ s.offset = r.offset
    /\ \/ s.status = r.status /\ s.phase = r.phase
       \/ s.status \notin {"launching", "lost"}

LEMMA RecordSame ==
    ASSUME NEW p, NEW l, NEW r, NEW s, SameRecord(r, s), RecordOK(r, l, p)
    PROVE  RecordOK(s, l, p)
  BY DEF RecordOK, SameRecord, StartsRead

OnceTypes == ~Outlives /\ RunTypeInv /\ CopyInv /\ OnceInv

(* A step that opens no tab, and whether the log may grow in it.           *)
Quiet ==
    /\ Moved(proc, proc') /\ Grown(log, log', proc, proc') /\ TabsOK(proc', tab')
    /\ log' # log => at = "reopened" \/ \E w \in Workers : Alive(w)

LEMMA ClosesQuiet ==
    ASSUME OnceTypes, NEW w \in 0..MaxWorkers, w # 0 => proc[w] # "none",
           TabGoes(w) \/ UNCHANGED workerVars, UNCHANGED log
    PROVE  Quiet
  <1>1. proc \in Procs /\ tab \in [Workers -> {"none", "open", "closed"}]
    BY DEF OnceTypes, RunTypeInv, WorkerType, Procs
  <1>2. CASE UNCHANGED workerVars
    BY <1>2 DEF workerVars, Quiet, Moved, Grown, Begins, OnceTypes, OnceInv
  <1>3. CASE TabGoes(w)
    <2>1. tab' = [tab EXCEPT ![w] = "closed"] /\ proc' = [proc EXCEPT ![w] = "gone"]
      BY <1>3 DEF TabGoes, OnceTypes
    <2>2. w \in Workers => proc[w] # "none" /\ w # 0
      BY RunAssumption DEF Workers
    <2>3. Moved(proc, proc')
      BY <1>1, <2>1, <2>2 DEF Moved, Procs
    <2>4. TabsOK(proc', tab')
      BY <1>1, <2>1, <2>2 DEF TabsOK, Procs, OnceTypes, OnceInv
    <2>5. ~Begins(proc, proc')
      BY <1>1, <2>1 DEF Begins, Waits, Procs
    <2> QED
      BY <2>3, <2>4, <2>5 DEF Quiet, Grown
  <1> QED
    BY <1>2, <1>3

LEMMA RecordsGrow ==
    ASSUME NEW w \in Workers, NEW type \in {"started", "settled", "opened", "closed",
                                            "resumed"} \cup Outcomes,
           Records(type, w), Alive(w),
           type = "started" => /\ proc[w] \in {"starting", "reopening"}
                               /\ proc'[w] \notin {"starting", "reopening"},
           Begins(proc, proc') => type = "started"
    PROVE  Grown(log, log', proc, proc')
  <1> DEFINE e == [type |-> type, worker |-> w]
  <1>1. e \in Event /\ e.worker = w /\ e.type = type /\ w # 0
    BY RunAssumption DEF Event, Workers
  <1>2. log' = Append(log, e)
    BY DEF Records
  <1> QED
    BY <1>1, <1>2 DEF Grown, Alive

LEMMA TypedQuiet ==
    ASSUME OnceTypes, NEW w \in Workers, Alive(w), Typed(w)
    PROVE  Quiet
  <1>1. proc \in Procs /\ tab \in [Workers -> {"none", "open", "closed"}]
    BY DEF OnceTypes, RunTypeInv, WorkerType, Procs
  <1>2. Moved(proc, proc')
    BY <1>1 DEF Typed, Moved, Procs
  <1>3. TabsOK(proc', tab')
    BY <1>1 DEF Typed, TabsOK, Procs, OnceTypes, OnceInv
  <1>4. ~Begins(proc, proc')
    BY <1>1 DEF Typed, Begins, Waits, Procs
  <1>5. \/ log' = log \/ Records("closed", w) \/ Records("resumed", w)
    BY DEF Typed
  <1>6. Grown(log, log', proc, proc')
    <2>1. CASE log' = log
      BY <1>4, <2>1 DEF Grown
    <2> QED
      BY <1>4, <1>5, <2>1, RecordsGrow
  <1> QED
    BY <1>2, <1>3, <1>6 DEF Quiet

LEMMA WorkerQuiet ==
    ASSUME OnceTypes, NEW w \in Workers, WorkerStep(w) \/ Dies(w) \/ UserCloses(w)
    PROVE  Quiet
  <1>1. proc \in Procs /\ tab \in [Workers -> {"none", "open", "closed"}]
    BY DEF OnceTypes, RunTypeInv, WorkerType, Procs
  <1>2. CASE UserTypes(w)
    BY <1>2, TypedQuiet DEF UserTypes, Alive
  <1>3. CASE UserCloses(w)
    <2>1. proc[w] # "none" /\ w \in 0..MaxWorkers
      BY <1>3 DEF UserCloses, OnceTypes, OnceInv, TabsOK, Workers
    <2> QED
      BY <1>3, <2>1, ClosesQuiet DEF UserCloses
  <1>4. CASE SessionStart(w) \/ Settle(w) \/ Finish(w) \/ Ask(w) \/ Dies(w)
    <2>1. Alive(w)
      BY <1>4 DEF SessionStart, Settle, Finish, Ask, Dies, Alive
    <2>2. Moved(proc, proc') /\ TabsOK(proc', tab')
      BY <1>1, <1>4, <2>1
         DEF SessionStart, Settle, Finish, Ask, Dies, Alive, Moved, TabsOK, Procs,
             OnceTypes, OnceInv
    <2>3. Grown(log, log', proc, proc')
      <3>1. CASE Dies(w)
        <4>1. ~Begins(proc, proc')
          BY <1>1, <3>1 DEF Dies, Begins, Waits, Procs
        <4> QED
          BY <3>1, <4>1 DEF Dies, Grown
      <3>2. CASE SessionStart(w)
        <4>1. proc'[w] \notin {"starting", "reopening"}
          BY <1>1, <3>2 DEF SessionStart, Procs
        <4> QED
          BY <2>1, <3>2, <4>1, RecordsGrow DEF SessionStart
      <3>3. CASE Settle(w)
        <4>1. ~Begins(proc, proc')
          BY <1>1, <3>3 DEF Settle, Begins, Waits, Procs
        <4> QED
          BY <2>1, <3>3, <4>1, RecordsGrow DEF Settle
      <3>4. CASE Finish(w)
        <4>1. PICK outcome \in Outcomes : Records(outcome, w)
          BY <3>4 DEF Finish
        <4>2. ~Begins(proc, proc')
          BY <3>4 DEF Finish, Begins
        <4> QED
          BY <2>1, <4>1, <4>2, RecordsGrow DEF Outcomes
      <3>5. CASE Ask(w)
        <4>1. ~Begins(proc, proc')
          BY <1>1, <3>5 DEF Ask, Begins, Waits, Procs
        <4> QED
          BY <2>1, <3>5, <4>1, RecordsGrow DEF Ask
      <3> QED
        BY <1>4, <3>1, <3>2, <3>3, <3>4, <3>5
    <2> QED
      BY <2>1, <2>2, <2>3 DEF Quiet
  <1> QED
    BY <1>2, <1>3, <1>4 DEF WorkerStep

LEMMA TickQuiet ==
    ASSUME OnceTypes, Reconcile \/ RunCrash
    PROVE  Quiet
  <1>1. CASE CloseTab
    <2>1. mem.block \in 0..MaxWorkers /\ (mem.block # 0 => proc[mem.block] # "none")
      BY DEF OnceTypes, RunTypeInv, RecordType, Run, OnceInv, RecordOK, Last
    <2>2. TabGoes(mem.block) \/ UNCHANGED workerVars
      BY <1>1 DEF CloseTab
    <2>3. UNCHANGED log
      BY <1>1 DEF CloseTab
    <2> QED
      BY <2>1, <2>2, <2>3, ClosesQuiet
  <1>2. CASE (Reconcile \/ RunCrash) /\ ~CloseTab
    <2>1. UNCHANGED <<log, workerVars>>
      BY <1>2
         DEF Reconcile, RunCrash, Snapshot, ReadEvent, EndRead, Judge, Verdict,
             TimeOut, TellFailed, InTime, NoClose, IdleFails, Recover, NoRemedy, Save
    <2> QED
      BY <2>1 DEF workerVars, Quiet, Moved, Grown, Begins, OnceTypes, OnceInv
  <1> QED
    BY <1>1, <1>2

(* The requests but for the two that open a tab.                           *)
QuietRequests ==
    \/ Announce \/ Send \/ Cancel \/ Close \/ (\E keep \in BOOLEAN : SetKeep(keep))
    \/ Resume \/ ResumeFails \/ ResumeRecorded
    \/ \E w \in Workers : Launch(w) /\ UNCHANGED workerVars

LEMMA RequestQuiet ==
    ASSUME OnceTypes, QuietRequests
    PROVE  Quiet
  <1>0. saved.block \in 0..MaxWorkers /\ (saved.block # 0 => proc[saved.block] # "none")
    BY DEF OnceTypes, RunTypeInv, RecordType, Run, OnceInv, RecordOK, Last
  <1>1. CASE Send
    <2>1. CASE UNCHANGED <<log, workerVars>>
      BY <2>1 DEF workerVars, Quiet, Moved, Grown, Begins, OnceTypes, OnceInv
    <2>2. CASE saved.block \in LiveBlocks /\ Typed(saved.block)
      <3>1. saved.block \in Workers /\ Alive(saved.block)
        BY <2>2 DEF LiveBlocks
      <3> QED
        BY <2>2, <3>1, TypedQuiet
    <2> QED
      BY <1>1, <2>1, <2>2 DEF Send
  <1>2. CASE Cancel \/ Close
    <2>1. TabGoes(saved.block) \/ UNCHANGED workerVars
      <3>1. saved \in Run
        BY DEF OnceTypes, RunTypeInv, RecordType
      <3> QED
        BY <1>2, <3>1 DEF Cancel, Close, ClosesTab, Run
    <2>2. UNCHANGED log
      BY <1>2 DEF Cancel, Close
    <2> QED
      BY <1>0, <2>1, <2>2, ClosesQuiet
  <1>3. CASE ResumeRecorded
    <2> DEFINE e == [type |-> "resumed", worker |-> 0]
    <2>1. e \in Event /\ e.worker = 0 /\ e.type = "resumed"
      BY RunAssumption DEF Event
    <2>2. (log' = Append(log, e) \/ log' = log) /\ UNCHANGED workerVars /\ at = "reopened"
      BY <1>3 DEF ResumeRecorded, Records
    <2>3. Grown(log, log', proc, proc')
      BY <2>1, <2>2 DEF Grown, Begins, Outcomes, workerVars
    <2> QED
      BY <2>2, <2>3 DEF workerVars, Quiet, Moved, OnceTypes, OnceInv
  <1>4. CASE \/ Announce \/ (\E keep \in BOOLEAN : SetKeep(keep)) \/ Resume \/ ResumeFails
             \/ \E w \in Workers : Launch(w) /\ UNCHANGED workerVars
    <2>1. UNCHANGED <<log, workerVars>>
      BY <1>4 DEF Announce, SetKeep, Resume, ResumeFails, Launch
    <2> QED
      BY <2>1 DEF workerVars, Quiet, Moved, Grown, Begins, OnceTypes, OnceInv
  <1> QED
    BY <1>1, <1>2, <1>3, <1>4 DEF QuietRequests

(* What a step that opens no tab keeps of the invariant.                   *)
LEMMA QuietKeeps ==
    ASSUME OnceTypes, Quiet, RunTypeInv'
    PROVE  /\ WorkersOK(proc') /\ TabsOK(proc', tab') /\ LogOK(log', proc')
           /\ RecordOK(saved, log', proc') /\ RecordOK(mem, log', proc')
           /\ \A w : Last(proc', w) <=> Last(proc, w)
           /\ \A w \in Workers : /\ proc'[w] # "none" <=> proc[w] # "none"
                                 /\ ~Alive(w) => ~Alive(w)'
           /\ NobodyAlive => NobodyAlive'
           /\ NobodyAlive /\ at # "reopened" => log' = log
  <1>1. proc \in Procs /\ proc' \in Procs /\ log \in Seq(Event)
    BY DEF OnceTypes, RunTypeInv, WorkerType, LogType, Procs
  <1>2. saved \in Run /\ mem \in Run
    BY DEF OnceTypes, RunTypeInv, RecordType
  <1>3. saved.offset <= Len(log) /\ mem.offset <= Len(log)
    BY DEF OnceTypes, RunTypeInv, RecordType
  <1>4. /\ WorkersOK(proc) /\ LogOK(log, proc) /\ RecordOK(saved, log, proc)
        /\ RecordOK(mem, log, proc)
        /\ Moved(proc, proc') /\ Grown(log, log', proc, proc') /\ TabsOK(proc', tab')
    BY DEF OnceTypes, OnceInv, Quiet
  <1>5. WorkersOK(proc') /\ \A w : Last(proc', w) <=> Last(proc, w)
    BY <1>1, <1>4, WorkersKept DEF Last
  <1>6. LogOK(log', proc')
    BY <1>1, <1>4, LogKept
  <1>7. RecordOK(saved, log', proc') /\ RecordOK(mem, log', proc')
    BY <1>1, <1>2, <1>3, <1>4, RecordKept
  <1>8. \A w \in Workers : /\ proc'[w] # "none" <=> proc[w] # "none"
                           /\ ~Alive(w) => ~Alive(w)'
    BY <1>4 DEF Moved, Alive
  <1>10. NobodyAlive /\ at # "reopened" => log' = log
    BY DEF Quiet, NobodyAlive
  <1> QED
    BY <1>4, <1>5, <1>6, <1>7, <1>8, <1>10 DEF NobodyAlive

LEMMA WorkerOnce ==
    ASSUME OnceTypes, RunTypeInv', NEW w \in Workers,
           WorkerStep(w) \/ Dies(w) \/ UserCloses(w)
    PROVE  OnceInv'
  <1>1. UNCHANGED daemonVars
    BY WorkerLeaves
  <1>2. Quiet
    BY WorkerQuiet
  <1>3. ResumeOK'
    BY <1>1, <1>2, QuietKeeps DEF OnceTypes, OnceInv, ResumeOK, daemonVars
  <1>4. LiveOK'
    BY <1>1, <1>2, QuietKeeps DEF OnceTypes, OnceInv, LiveOK, InTick, daemonVars
  <1>5. LostOK'
    BY <1>1, <1>2, QuietKeeps DEF OnceTypes, OnceInv, LostOK, InTick, daemonVars, AllRead
  <1> QED
    BY <1>1, <1>2, <1>3, <1>4, <1>5, QuietKeeps DEF OnceInv, daemonVars

(* A step of the tick that sets out from a tick and leaves the records, or *)
(* leaves what they say of the workers.                                    *)
TickGoesOn ==
    /\ InTick /\ InTick'
    /\ live' = live \/ ~live'.known
    /\ SameRecord(mem, mem') /\ (saved' = saved \/ saved' = mem')
    /\ at' \notin {"reread", "verdict"} \/ at' = at
    /\ mem'.status = "lost" => mem.status = "lost" /\ saved' = saved

LEMMA TickGoesOnOnce ==
    ASSUME OnceTypes, RunTypeInv', Quiet, TickGoesOn
    PROVE  OnceInv'
  <1>1. RecordOK(mem', log', proc')
    BY QuietKeeps, RecordSame DEF TickGoesOn
  <1>2. RecordOK(saved', log', proc')
    BY <1>1, QuietKeeps DEF TickGoesOn
  <1>3. ResumeOK'
    BY DEF TickGoesOn, InTick, ResumeOK
  <1>4. LiveOK'
    BY QuietKeeps DEF TickGoesOn, OnceTypes, OnceInv, LiveOK
  <1>5. LostOK'
    BY QuietKeeps DEF TickGoesOn, OnceTypes, OnceInv, LostOK, InTick, AllRead, SameRecord
  <1> QED
    BY <1>1, <1>2, <1>3, <1>4, <1>5, QuietKeeps DEF OnceInv

LEMMA ReadOnce ==
    ASSUME OnceTypes, RunTypeInv', Quiet, ReadEvent
    PROVE  OnceInv'
  <1>0. saved \in Run /\ mem \in Run /\ LogType
    BY DEF OnceTypes, RunTypeInv, RecordType
  <1> DEFINE i == mem.offset + 1
  <1>1. i \in 1..Len(log) /\ mem.offset \in Nat /\ log[i] \in Event
    <2>1. mem.offset \in Nat /\ Len(log) \in Nat /\ mem.offset <= Len(log)
      BY <1>0 DEF OnceTypes, RunTypeInv, RecordType, LogType, Run
    <2>2. mem.offset # Len(log) /\ log \in Seq(Event)
      BY <1>0 DEF ReadEvent, AllRead, LogType
    <2>3. i \in 1..Len(log)
      BY <2>1, <2>2
    <2> QED
      BY <2>1, <2>2, <2>3
  <1>2. /\ UNCHANGED <<log, saved, at, live, proc>> /\ mem' = Applied(mem, i)
        /\ at \in {"read", "reread"}
    BY DEF ReadEvent, workerVars
  <1>3. /\ mem'.offset = i /\ mem'.block = mem.block /\ mem'.phase = mem.phase
        /\ mem'.pid = IF log[i].type = "started" THEN log[i].worker ELSE mem.pid
        /\ mem'.session = (mem.session \/ log[i].type = "started")
        /\ mem'.status \notin {"launching", "lost"} \/ mem'.status = mem.status
    BY <1>0, <1>1, <1>2, AppliedRun
  <1>4. RecordOK(mem, log, proc) /\ LogOK(log, proc) /\ WorkersOK(proc)
    BY DEF OnceTypes, OnceInv
  <1>5. \A j \in (mem'.offset + 1)..Len(log) : j \in (mem.offset + 1)..Len(log) /\ j # i
    BY <1>0, <1>1, <1>3 DEF LogType
  <1>6. StartsRead(mem, log) => log[i].type # "started" /\ StartsRead(mem', log)
    BY <1>1, <1>5 DEF StartsRead
  <1>7. RecordOK(mem', log, proc)
    <2>1. CASE log[i].type # "started"
      <3>1. StartsRead(mem', log) => StartsRead(mem, log)
        BY <1>1, <1>3, <2>1 DEF StartsRead
      <3> QED
        BY <1>3, <1>4, <1>5, <1>6, <2>1, <3>1 DEF RecordOK
    <2>2. CASE log[i].type = "started"
      <3>1. /\ mem'.pid = log[i].worker /\ mem'.pid # 0 /\ mem'.session
            /\ Last(proc, log[i].worker) /\ ~Waits(proc, log[i].worker)
        <4>1. i \in (mem.offset + 1)..Len(log)
          BY <1>0, <1>1 DEF LogType
        <4>2. Last(proc, log[i].worker)
          BY <1>4, <2>2, <4>1 DEF RecordOK
        <4>3. log[i].worker # 0 /\ ~Waits(proc, log[i].worker)
          BY <1>1, <1>4, <2>2 DEF LogOK, Waits
        <4> QED
          BY <1>3, <2>2, <4>2, <4>3
      <3>2. ~StartsRead(mem, log)
        BY <1>1, <2>2 DEF StartsRead
      <3>3. ~Waits(proc, 1)
        <4>1. 1 = log[i].worker \/ proc[1] \in {"none", "gone"}
          BY <1>4, <3>1, WorkersAre, LastIsLast DEF Last
        <4> QED
          BY <3>1, <4>1 DEF Waits
      <3>4. ASSUME NEW j \in (mem'.offset + 1)..Len(log), log[j].type = "started"
            PROVE  FALSE
        <4>1. Last(proc, log[j].worker)
          BY <1>4, <1>5, <3>4 DEF RecordOK
        <4>2. log[j].worker = log[i].worker
          BY <1>4, <3>1, <4>1, LastIsLast DEF Last
        <4>3. log[j] \in Event /\ j \in 1..Len(log)
          BY <1>0, <1>1, <1>3 DEF LogType
        <4>4. log[j] = log[i]
          BY <1>1, <2>2, <3>4, <4>2, <4>3 DEF Event
        <4> QED
          BY <1>1, <1>4, <1>5, <2>2, <4>3, <4>4 DEF LogOK
      <3>5. StartsRead(mem', log)
        BY <3>4 DEF StartsRead
      <3> QED
        BY <1>3, <1>4, <1>5, <3>1, <3>2, <3>3, <3>5 DEF RecordOK
    <2> QED
      BY <2>1, <2>2
  <1>8. LostOK'
    <2>1. ~(mem.status = "lost" /\ saved.status # "lost") /\ at \in {"read", "reread"}
      BY <1>1 DEF OnceTypes, OnceInv, LostOK, InTick, ReadEvent
    <2>2. at = "reread" => NobodyAlive
      BY DEF OnceTypes, OnceInv, LostOK
    <2>3. NobodyAlive => NobodyAlive'
      BY QuietKeeps
    <2> QED
      BY <1>2, <1>3, <2>1, <2>2, <2>3 DEF LostOK
  <1> QED
    BY <1>2, <1>7, <1>8, QuietKeeps
       DEF OnceTypes, OnceInv, ResumeOK, LiveOK, InTick, Alive

(* A run in progress that is judged dead has no worker left.               *)
LEMMA DeadIsDead ==
    ASSUME OnceTypes, mem.status \in Busy, Liveness(mem, live) = "dead"
    PROVE  NobodyAlive
  <1>0. mem \in Run /\ proc \in Procs
    BY DEF OnceTypes, RunTypeInv, RecordType, WorkerType, Procs
  <1>1. RecordOK(mem, log, proc) /\ WorkersOK(proc) /\ LiveOK
    BY DEF OnceTypes, OnceInv
  <1>2. PICK w \in Workers : ~Alive(w) /\ Last(proc, w)
    <2>1. CASE mem.pid # 0
      <3>1. Last(proc, mem.pid)
        BY <1>1, <2>1 DEF RecordOK
      <3>2. ~Alive(mem.pid)
        BY <2>1 DEF Liveness
      <3> QED
        BY <3>1, <3>2 DEF Last
    <2>2. CASE mem.pid = 0
      <3>1. mem.block # 0 /\ live.known /\ mem.block \notin live.blocks
        BY <2>2 DEF Liveness
      <3>2. Last(proc, mem.block)
        BY <1>1, <3>1 DEF RecordOK
      <3>3. ~Alive(mem.block)
        BY <1>1, <3>1, <3>2 DEF LiveOK, Last
      <3> QED
        BY <3>2, <3>3 DEF Last
    <2> QED
      BY <2>1, <2>2
  <1>3. \A v \in Workers : v = w \/ proc[v] \in {"none", "gone"}
    BY <1>1, <1>2, LastIsLast
  <1> QED
    BY <1>2, <1>3 DEF NobodyAlive, Alive

LEMMA VerdictOnce ==
    ASSUME OnceTypes, RunTypeInv', Quiet, Verdict
    PROVE  OnceInv'
  <1>0. mem \in Run /\ log \in Seq(Event)
    BY DEF OnceTypes, RunTypeInv, RecordType, LogType
  <1>1. UNCHANGED <<log, saved, live, proc>> /\ at = "verdict"
        /\ at' \in {"time", "close", "remedy", "save"}
    BY AfterSteps DEF Verdict, workerVars
  <1>2. NobodyAlive /\ AllRead
    BY <1>1 DEF OnceTypes, OnceInv, LostOK
  <1>3. /\ mem'.pid = mem.pid /\ mem'.block = mem.block /\ mem'.session = mem.session
        /\ mem'.offset = mem.offset
        /\ \/ mem' = mem \/ mem'.status \notin {"launching", "lost"}
           \/ mem'.status = "lost"
    BY <1>0 DEF Verdict, Ended, Run
  <1>4. RecordOK(mem, log, proc) /\ WorkersOK(proc)
    BY DEF OnceTypes, OnceInv
  <1>5. StartsRead(mem, log) /\ StartsRead(mem', log)
    BY <1>0, <1>2, <1>3 DEF AllRead, StartsRead, Run
  <1>6. \A n \in Workers : Last(proc, n) => proc[n] = "gone"
    BY <1>2 DEF NobodyAlive, Alive, Last
  <1>7. RecordOK(mem', log, proc)
    BY <1>3, <1>4, <1>5, <1>6 DEF RecordOK
  <1>8. LostOK'
    BY <1>1, <1>2, <1>3 DEF LostOK, NobodyAlive, Alive, AllRead
  <1> QED
    BY <1>1, <1>7, <1>8, QuietKeeps DEF OnceTypes, OnceInv, ResumeOK, LiveOK, InTick, Alive

LEMMA RecoverOnce ==
    ASSUME OnceTypes, RunTypeInv', Quiet, Recover
    PROVE  OnceInv'
  <1>0. mem \in Run /\ tab \in [Workers -> {"none", "open", "closed"}]
    BY DEF OnceTypes, RunTypeInv, RecordType, WorkerType
  <1>1. UNCHANGED <<log, saved, live, proc, tab>> /\ at = "remedy" /\ at' = "save"
        /\ mem.status = "lost"
    BY DEF Recover, Recoverable, workerVars
  <1>2. CASE \E w \in Workers : tab[w] = "open"
    <2>1. mem' = [mem EXCEPT !.relaunched = TRUE]
      BY <1>2 DEF Recover
    <2>2. SameRecord(mem, mem') /\ mem'.status = "lost"
      BY <1>0, <1>1, <2>1 DEF SameRecord, Run
    <2> QED
      BY <1>1, <2>2, TickGoesOnOnce DEF TickGoesOn, InTick
  <1>3. CASE ~\E w \in Workers : tab[w] = "open"
    <2>1. mem' = [mem EXCEPT !.relaunched = TRUE, !.status = "launching",
                        !.phase = "issue_created", !.block = 0, !.pid = 0]
      BY <1>3 DEF Recover
    <2>2. /\ mem'.pid = 0 /\ mem'.block = 0 /\ mem'.session = mem.session
          /\ mem'.offset = mem.offset /\ mem'.status = "launching"
      BY <1>0, <2>1 DEF Run
    <2>4. RecordOK(mem, log, proc) /\ TabsOK(proc, tab)
      BY DEF OnceTypes, OnceInv
    <2>5. \A n \in Workers : Last(proc, n) => proc[n] = "gone"
      BY <1>0, <1>3, <2>4 DEF TabsOK, Last
    <2>6. RecordOK(mem', log, proc)
      BY <1>1, <2>2, <2>4, <2>5 DEF RecordOK, StartsRead
    <2> QED
      BY <1>1, <2>2, <2>6, QuietKeeps
         DEF OnceTypes, OnceInv, ResumeOK, LiveOK, LostOK, InTick, Alive
  <1> QED
    BY <1>2, <1>3

LEMMA TickOnce ==
    ASSUME OnceTypes, RunTypeInv', Reconcile \/ RunCrash
    PROVE  OnceInv'
  <1>0. saved \in Run /\ mem \in Run /\ tab \in [Workers -> {"none", "open", "closed"}]
    BY DEF OnceTypes, RunTypeInv, RecordType, WorkerType
  <1>q. Quiet
    BY TickQuiet
  <1>1. CASE Snapshot
    <2>1. UNCHANGED <<saved, mem, proc, log>> /\ at = "serve" /\ at' = "read" /\ live' \in Tern
          /\ mem = saved
      BY <1>1 DEF Snapshot, workerVars, OnceTypes, CopyInv
    <2>2. TabsOK(proc, tab)
      BY DEF OnceTypes, OnceInv
    <2>3. live'.known => live'.blocks = LiveBlocks
      <3>1. CASE live' = [known |-> TRUE, blocks |-> LiveBlocks]
        BY <3>1
      <3>2. CASE live' = [known |-> FALSE, blocks |-> {}]
        BY <3>2
      <3> QED
        BY <2>1, <3>1, <3>2 DEF Tern, NoTern
    <2>4. \A w \in Workers : proc[w] # "none" /\ w \notin LiveBlocks => ~Alive(w)
      BY <1>0, <2>2 DEF LiveBlocks, TabsOK, Alive
    <2>5. LiveOK'
      BY <2>1, <2>3, <2>4 DEF LiveOK, InTick, Alive
    <2> QED
      BY <1>q, <2>1, <2>5, QuietKeeps DEF OnceInv, ResumeOK, LostOK
  <1>2. CASE ReadEvent
    BY <1>2, <1>q, ReadOnce
  <1>3. CASE EndRead
    <2>1. UNCHANGED <<saved, mem, live>> /\ AllRead /\ InTick /\ InTick'
          /\ \/ at = "read" /\ at' = "judge"
             \/ at = "reread" /\ at' = "verdict"
      BY <1>3 DEF EndRead, InTick
    <2>2. LostOK'
      BY <1>q, <2>1, <1>3, QuietKeeps DEF OnceTypes, OnceInv, LostOK, AllRead, EndRead
    <2>3. LiveOK'
      BY <1>q, <2>1, QuietKeeps DEF OnceTypes, OnceInv, LiveOK
    <2> QED
      BY <1>q, <2>1, <2>2, <2>3, QuietKeeps DEF OnceInv, ResumeOK
  <1>4. CASE Judge
    <2>1. UNCHANGED <<saved, mem, log, proc>> /\ ~live'.known /\ at = "judge"
      BY <1>4 DEF Judge, NoTern, workerVars
    <2>2. CASE at' = "reread"
      <3>1. NobodyAlive
        BY <1>4, <2>2, AfterSteps, DeadIsDead DEF Judge
      <3>2. LostOK'
        BY <2>1, <2>2, <3>1
           DEF OnceTypes, OnceInv, LostOK, InTick, AllRead, NobodyAlive, Alive
      <3> QED
        BY <1>q, <2>1, <2>2, <3>2, QuietKeeps
           DEF OnceTypes, OnceInv, ResumeOK, LiveOK, InTick, Alive
    <2>3. CASE at' # "reread"
      <3>1. at' \in {"time", "close", "remedy", "save"}
        BY <1>4, <2>3, AfterSteps DEF Judge, ReadAgain
      <3> QED
        BY <1>q, <2>1, <3>1, TickGoesOnOnce DEF TickGoesOn, InTick, SameRecord
    <2> QED
      BY <2>2, <2>3
  <1>5. CASE Verdict
    BY <1>5, <1>q, VerdictOnce
  <1>6. CASE TimeOut
    <2>1. mem' = Ended(mem, "failed") /\ saved' = mem' /\ live' = live /\ at = "time" /\ at' = "tell"
      BY <1>6 DEF TimeOut
    <2>2. SameRecord(mem, mem') /\ mem'.status = "failed"
      BY <1>0, <2>1 DEF SameRecord, Ended, Run
    <2> QED
      BY <1>q, <2>1, <2>2, TickGoesOnOnce DEF TickGoesOn, InTick
  <1>7. CASE TellFailed
    BY <1>7, <1>q, AfterSteps, TickGoesOnOnce DEF TellFailed, TickGoesOn, InTick, SameRecord
  <1>8. CASE InTime
    BY <1>8, <1>q, AfterSteps, TickGoesOnOnce DEF InTime, TickGoesOn, InTick, SameRecord
  <1>9. CASE CloseTab
    <2>1. SameRecord(mem, mem') /\ mem'.status = mem.status
      BY <1>0, <1>9 DEF CloseTab, SameRecord, Run
    <2> QED
      BY <1>9, <1>q, <2>1, AfterSteps, TickGoesOnOnce DEF CloseTab, TickGoesOn, InTick
  <1>10. CASE NoClose
    BY <1>10, <1>q, AfterSteps, TickGoesOnOnce DEF NoClose, TickGoesOn, InTick, SameRecord
  <1>11. CASE IdleFails
    <2>1. SameRecord(mem, mem') /\ mem'.status = "failed"
      BY <1>0, <1>11 DEF IdleFails, SameRecord, Ended, Run
    <2> QED
      BY <1>11, <1>q, <2>1, TickGoesOnOnce DEF IdleFails, TickGoesOn, InTick
  <1>12. CASE Recover
    BY <1>12, <1>q, RecoverOnce
  <1>13. CASE NoRemedy
    BY <1>13, <1>q, TickGoesOnOnce DEF NoRemedy, TickGoesOn, InTick, SameRecord
  <1>14. CASE Save
    BY <1>14, <1>q, QuietKeeps DEF Save, NoTern, OnceInv, ResumeOK, LiveOK, LostOK, InTick
  <1>15. CASE RunCrash
    BY <1>15, <1>q, QuietKeeps DEF RunCrash, NoTern, OnceInv, ResumeOK, LiveOK, LostOK, InTick
  <1> QED
    BY <1>1, <1>2, <1>3, <1>4, <1>5, <1>6, <1>7, <1>8, <1>9, <1>10, <1>11, <1>12,
       <1>13, <1>14, <1>15 DEF Reconcile

(* A request that saves a record which says the same of the workers.       *)
LEMMA SavesOnce ==
    ASSUME OnceTypes, RunTypeInv', Quiet, at = "serve", UNCHANGED live,
           saved' = mem', SameRecord(saved, saved'), at' \in {"serve", "announce"}
    PROVE  OnceInv'
  <1>1. RecordOK(saved', log', proc')
    BY QuietKeeps, RecordSame
  <1>2. ~live'.known
    BY DEF OnceTypes, OnceInv, LiveOK, InTick
  <1>3. ResumeOK' /\ LiveOK' /\ LostOK'
    BY <1>2 DEF ResumeOK, LiveOK, LostOK, InTick
  <1> QED
    BY <1>1, <1>3, QuietKeeps DEF OnceInv

LEMMA RequestOnce ==
    ASSUME OnceTypes, RunTypeInv', QuietRequests
    PROVE  OnceInv'
  <1>0. saved \in Run /\ mem \in Run
    BY DEF OnceTypes, RunTypeInv, RecordType
  <1>q. Quiet
    BY RequestQuiet
  <1>1. CASE Announce
    BY <1>1, <1>q, QuietKeeps
       DEF Announce, OnceTypes, OnceInv, ResumeOK, LiveOK, LostOK, InTick
  <1>2. CASE Send
    <2>1. SameRecord(saved, saved')
      BY <1>0, <1>2 DEF Send, Woken, Saves, SameRecord, Run
    <2> QED
      BY <1>2, <1>q, <2>1, SavesOnce DEF Send, Serving, Saves
  <1>3. CASE Cancel \/ Close
    <2>1. SameRecord(saved, saved') /\ mem' = saved'
      <3>1. CASE Cancel
        BY <1>0, <3>1 DEF Cancel, ClosesTab, Saves, SameRecord, Run
      <3>2. CASE Close
        BY <1>0, <3>2 DEF Close, ClosesTab, Saves, SameRecord, Run
      <3> QED
        BY <1>3, <3>1, <3>2
    <2> QED
      BY <1>3, <1>q, <2>1, SavesOnce DEF Cancel, Close, Serving
  <1>4. CASE \E keep \in BOOLEAN : SetKeep(keep)
    <2>1. SameRecord(saved, saved') /\ mem' = saved'
      BY <1>0, <1>4 DEF SetKeep, Saves, SameRecord, Run
    <2> QED
      BY <1>4, <1>q, <2>1, SavesOnce DEF SetKeep, Serving
  <1>5. CASE \E w \in Workers : Launch(w) /\ UNCHANGED workerVars
    <2>1. PICK w \in Workers : Launch(w) /\ UNCHANGED workerVars
      BY <1>5
    <2>2. ~Opens(w, "starting")
      BY <2>1 DEF Opens, Fresh, workerVars, OnceTypes, RunTypeInv, WorkerType
    <2>3. SameRecord(saved, saved') /\ mem' = saved' /\ at' = "announce"
      BY <1>0, <2>1, <2>2 DEF Launch, Saves, SameRecord, Run
    <2> QED
      BY <1>q, <2>1, <2>3, SavesOnce DEF Launch, Serving
  <1>6. CASE Resume
    <2>1. /\ saved' = Begun(saved) /\ mem' = mem /\ mem = saved /\ at = "serve" /\ at' = "resume"
          /\ UNCHANGED <<log, proc, live>>
      BY <1>6 DEF Resume, Serving, workerVars, OnceTypes, CopyInv
    <2>2. /\ saved'.pid = 0 /\ saved'.block = 0 /\ saved'.session = saved.session
          /\ saved'.offset = saved.offset /\ saved'.status = "launching"
          /\ saved'.phase = "tab_open"
      BY <1>0, <2>1 DEF Begun, Run
    <2>3. saved.session /\ (saved.pid # 0 => ~Alive(saved.pid))
      BY <1>6 DEF Resume, MayResume, Liveness
    <2>4. RecordOK(saved, log, proc) /\ WorkersOK(proc)
      BY DEF OnceTypes, OnceInv
    <2>5. \A n \in Workers :
             Last(proc, n) /\ StartsRead(saved, log) /\ ~Waits(proc, n) => proc[n] = "gone"
      <3> SUFFICES ASSUME NEW n \in Workers, Last(proc, n), saved.pid # 0
                   PROVE  proc[n] = "gone"
        BY <2>4 DEF RecordOK
      <3>1. saved.pid = n
        BY <2>4, LastIsLast DEF RecordOK, Last
      <3> QED
        BY <2>3, <3>1 DEF Alive, Last
    <2>6. RecordOK(saved', log, proc)
      BY <2>2, <2>3, <2>4, <2>5 DEF RecordOK, StartsRead
    <2>7. ResumeOK' /\ LiveOK' /\ LostOK'
      BY <2>1, <2>2, <2>3 DEF OnceTypes, OnceInv, ResumeOK, LiveOK, LostOK, InTick
    <2> QED
      BY <1>q, <2>1, <2>6, <2>7, QuietKeeps DEF OnceInv
  <1>7. CASE ResumeFails
    <2>1. /\ saved' = Unresumed(saved, mem) /\ mem' = saved' /\ at = "resume" /\ at' = "serve"
          /\ UNCHANGED <<log, proc, live>>
      BY <1>7 DEF ResumeFails, Saves, workerVars
    <2>2. /\ saved'.pid = 0 /\ saved'.block = 0 /\ saved'.session = saved.session
          /\ saved'.offset = saved.offset /\ saved'.phase = saved.phase
          /\ saved'.status = mem.status
      BY <1>0, <2>1 DEF Unresumed, Run
    <2>3. /\ RecordOK(saved, log, proc) /\ RecordOK(mem, log, proc)
          /\ saved.pid = 0 /\ saved.offset = mem.offset /\ saved.phase = "tab_open"
      BY <2>1 DEF OnceTypes, OnceInv, ResumeOK
    <2>4. RecordOK(saved', log, proc)
      BY <2>2, <2>3 DEF RecordOK, StartsRead
    <2>5. ResumeOK' /\ LiveOK' /\ LostOK'
      BY <2>1 DEF OnceTypes, OnceInv, ResumeOK, LiveOK, LostOK, InTick
    <2> QED
      BY <1>q, <2>1, <2>4, <2>5, QuietKeeps DEF OnceInv
  <1>8. CASE ResumeRecorded
    <2>1. UNCHANGED <<saved, mem, live, proc>> /\ at = "reopened" /\ at' = "save"
      BY <1>8 DEF ResumeRecorded, workerVars
    <2>2. ResumeOK' /\ LiveOK' /\ LostOK'
      BY <2>1 DEF OnceTypes, OnceInv, ResumeOK, LiveOK, LostOK, InTick
    <2> QED
      BY <1>q, <2>1, <2>2, QuietKeeps DEF OnceInv
  <1> QED
    BY <1>1, <1>2, <1>3, <1>4, <1>5, <1>6, <1>7, <1>8 DEF QuietRequests

(* The two steps that open a tab open that of the next worker, and do so   *)
(* well when the last is gone and all starts were read.                    *)
LEMMA OpensOnce ==
    ASSUME OnceTypes, RunTypeInv', NEW w \in Workers, NEW as \in {"starting", "reopening"},
           Opens(w, as), UNCHANGED log
    PROVE  \E n \in Workers :
              /\ Last(proc, n) /\ n + 1 = w
              /\ proc[n] = "gone" =>
                    /\ WorkersOK(proc') /\ TabsOK(proc', tab') /\ LogOK(log', proc')
                    /\ \A r \in Run :
                          /\ r.pid = 0 /\ r.block \in {0, w} /\ StartsRead(r, log)
                          /\ r.status # "lost" /\ r.phase = "tab_open"
                          => RecordOK(r, log', proc')
  <1>0. proc \in Procs /\ tab \in [Workers -> {"none", "open", "closed"}]
    BY DEF OnceTypes, RunTypeInv, WorkerType, Procs
  <1>1. WorkersOK(proc) /\ TabsOK(proc, tab) /\ LogOK(log, proc) /\ log \in Seq(Event)
    BY DEF OnceTypes, OnceInv, RunTypeInv, LogType
  <1>2. /\ proc[w] = "none" /\ \A v \in 1..(w - 1) : proc[v] # "none"
        /\ proc' = [proc EXCEPT ![w] = as] /\ tab' = [tab EXCEPT ![w] = "open"]
    BY DEF Opens, Fresh
  <1> DEFINE n == w - 1
  <1>3. n \in Workers /\ n + 1 = w /\ n \in 1..(w - 1) /\ n < w
    <2>1. w # 1 /\ w \in 1..MaxWorkers /\ MaxWorkers \in Nat
      BY <1>1, <1>2, RunAssumption DEF WorkersOK, Workers
    <2> QED
      BY <2>1 DEF Workers
  <1>4. \A v \in Workers : v > n => proc[v] = "none"
    <2> SUFFICES ASSUME NEW v \in Workers, v > n, proc[v] # "none" PROVE FALSE
      OBVIOUS
    <2>1. v > w
      BY <1>2, <1>3, WorkersAre
    <2> QED
      BY <1>1, <1>2, <2>1 DEF WorkersOK
  <1>5. Last(proc, n)
    BY <1>2, <1>3, <1>4 DEF Last
  <1>6. ASSUME proc[n] = "gone"
        PROVE  /\ WorkersOK(proc') /\ TabsOK(proc', tab') /\ LogOK(log', proc')
               /\ \A r \in Run :
                     /\ r.pid = 0 /\ r.block \in {0, w} /\ StartsRead(r, log)
                     /\ r.status # "lost" /\ r.phase = "tab_open"
                     => RecordOK(r, log', proc')
    <2>1. \A v \in Workers : v = w \/ proc'[v] = proc[v]
      BY <1>0, <1>2 DEF Procs
    <2>2. proc'[w] = as /\ as \notin {"none", "gone"}
      BY <1>0, <1>2 DEF Procs
    <2>3. \A v \in Workers : v < w => proc[v] = "gone"
      BY <1>1, <1>3, <1>5, <1>6, WorkersAre DEF WorkersOK, Last
    <2>4. WorkersOK(proc')
      BY <1>1, <1>3, <1>4, <2>1, <2>2, <2>3, WorkersAre DEF WorkersOK
    <2>5. TabsOK(proc', tab')
      BY <1>0, <1>1, <1>2, <2>1, <2>2 DEF TabsOK
    <2>6. \A i \in 1..Len(log) :
             log[i].worker # 0 => log[i].worker \in Workers /\ log[i].worker # w
      <3> SUFFICES ASSUME NEW i \in 1..Len(log), log[i].worker # 0
                   PROVE  log[i].worker \in Workers /\ log[i].worker # w
        OBVIOUS
      <3>1. log[i] \in Event /\ proc[log[i].worker] # "none"
        BY <1>1 DEF LogOK
      <3> QED
        BY <1>2, <3>1, WorkersAre DEF Event
    <2>7. LogOK(log', proc')
      BY <1>1, <2>1, <2>6 DEF LogOK
    <2>8. Last(proc', w)
      <3>1. ASSUME NEW v \in Workers, v > w PROVE proc'[v] = "none"
        <4>1. v # w /\ v > n
          BY <1>3, <3>1, WorkersAre
        <4> QED
          BY <1>4, <2>1, <4>1
      <3> QED
        BY <2>2, <3>1 DEF Last
    <2>9. ~Waits(proc', 1)
      BY <1>1, <1>3, <2>1, <2>3, WorkersAre DEF Waits
    <2>10. ASSUME NEW r \in Run, r.pid = 0, r.block \in {0, w}, StartsRead(r, log),
                  r.status # "lost", r.phase = "tab_open"
           PROVE  RecordOK(r, log', proc')
      <3>1. \A v \in Workers : Last(proc', v) => v = w
        BY <2>4, <2>8, LastIsLast
      <3> QED
        BY <2>2, <2>8, <2>9, <2>10, <3>1 DEF RecordOK, StartsRead, Waits
    <2> QED
      BY <2>4, <2>5, <2>7, <2>10
  <1> QED
    BY <1>3, <1>5, <1>6

LEMMA OpeningOnce ==
    ASSUME OnceTypes, RunTypeInv', Informed, NEW w \in Workers,
           (Launch(w) /\ Opens(w, "starting")) \/ ResumeOpens(w)
    PROVE  OnceInv'
  <1>0. saved \in Run /\ mem \in Run /\ saved' \in Run /\ mem' \in Run
    BY DEF OnceTypes, RunTypeInv, RecordType
  <1>1. RecordOK(saved, log, proc)
    BY DEF OnceTypes, OnceInv
  <1>2. CASE Launch(w) /\ Opens(w, "starting")
    <2>1. /\ at = "serve" /\ UNCHANGED <<log, live>> /\ mem' = saved'
          /\ saved.status = "launching" /\ saved.phase = "issue_created"
      BY <1>2 DEF Launch, Serving, Saves
    <2>2. \A n \in Workers :
             Last(proc, n) => proc[n] = "gone" /\ StartsRead(saved, log) /\ saved.pid = 0
      BY <1>1, <2>1 DEF RecordOK
    <2>3. /\ saved' = [saved EXCEPT !.phase = "tab_open", !.block = w] /\ at' = at
      BY <1>2 DEF Launch, Saves, Opens, Fresh, workerVars, OnceTypes, RunTypeInv, WorkerType
    <2>4. /\ saved'.pid = saved.pid /\ saved'.block = w /\ saved'.offset = saved.offset
          /\ saved'.status = "launching" /\ saved'.phase = "tab_open"
      BY <1>0, <2>1, <2>3 DEF Run
    <2>5. StartsRead(saved, log) => StartsRead(saved', log)
      BY <2>4 DEF StartsRead
    <2>6. /\ WorkersOK(proc') /\ TabsOK(proc', tab') /\ LogOK(log', proc')
          /\ RecordOK(saved', log', proc')
      BY <1>0, <1>2, <2>1, <2>2, <2>4, <2>5, OpensOnce
    <2>7. ResumeOK' /\ LiveOK' /\ LostOK'
      BY <2>1, <2>3 DEF OnceTypes, OnceInv, ResumeOK, LiveOK, LostOK, InTick
    <2> QED
      BY <2>1, <2>6, <2>7 DEF OnceInv
  <1>3. CASE ResumeOpens(w)
    <2>1. /\ at = "resume" /\ at' = "reopened" /\ UNCHANGED <<log, live, saved>>
          /\ Opens(w, "reopening")
          /\ mem' = [saved EXCEPT !.status = "running", !.block = w, !.resumes = 0]
      BY <1>3 DEF ResumeOpens
    <2>2. /\ saved.pid = 0 /\ saved.block = 0 /\ saved.session
          /\ saved.status = "launching" /\ saved.phase = "tab_open"
      BY <2>1 DEF OnceTypes, CopyInv, OnceInv, ResumeOK
    <2>3. proc[w] = "none" /\ proc'[w] = "reopening"
      BY <2>1 DEF Opens, Fresh, OnceTypes, RunTypeInv, WorkerType
    <2>4. ASSUME NEW n \in Workers, Last(proc, n), n + 1 = w
          PROVE  proc[n] = "gone" /\ StartsRead(saved, log)
      <3>1. StartsRead(saved, log) /\ ~Waits(proc, n)
        <4>1. CASE n = 1
          BY <1>1, <2>2, <2>4, <4>1 DEF RecordOK
        <4>2. CASE n # 1
          <5>1. w > 2
            BY <2>4, <4>2, WorkersAre
          <5> QED
            BY <2>3, <5>1 DEF Informed
        <4> QED
          BY <4>1, <4>2
      <3> QED
        BY <1>1, <2>2, <2>4, <3>1 DEF RecordOK
    <2>5. /\ mem'.pid = 0 /\ mem'.block = w /\ mem'.status = "running"
          /\ mem'.offset = saved.offset /\ mem'.phase = "tab_open"
      BY <1>0, <2>1, <2>2 DEF Run
    <2>6. StartsRead(saved, log) => StartsRead(mem', log)
      BY <2>5 DEF StartsRead
    <2>7. /\ WorkersOK(proc') /\ TabsOK(proc', tab') /\ LogOK(log', proc')
          /\ RecordOK(saved', log', proc') /\ RecordOK(mem', log', proc')
      BY <1>0, <2>1, <2>2, <2>4, <2>5, <2>6, OpensOnce
    <2>8. ResumeOK' /\ LiveOK' /\ LostOK'
      BY <2>1, <2>5 DEF OnceTypes, OnceInv, ResumeOK, LiveOK, LostOK, InTick
    <2> QED
      BY <2>7, <2>8 DEF OnceInv
  <1> QED
    BY <1>2, <1>3

LEMMA OncePreserved ==
    ASSUME ~Outlives
    PROVE  RunTypeInv /\ CopyInv /\ OnceInv /\ [RunNext]_runVars /\ [Informed]_runVars
           => OnceInv'
  <1> SUFFICES ASSUME OnceTypes, [RunNext]_runVars, [Informed]_runVars PROVE OnceInv'
    BY DEF OnceTypes
  <1>t. RunTypeInv'
    BY RunTypePreserved DEF OnceTypes
  <1>1. CASE UNCHANGED runVars
    BY <1>1
       DEF runVars, workerVars, inboxVars, OnceTypes, OnceInv, ResumeOK, LiveOK, LostOK,
           NobodyAlive, InTick, AllRead, Alive
  <1>2. CASE RequestSteps
    <2>1. QuietRequests \/ \E w \in Workers : \/ Launch(w) /\ Opens(w, "starting")
                                              \/ ResumeOpens(w)
      BY <1>2 DEF RequestSteps, QuietRequests, Launch
    <2>2. Informed
      <3>1. ~UNCHANGED runVars \/ \A w \in Workers : proc'[w] = proc[w]
        BY DEF runVars, workerVars
      <3> QED
        BY <3>1 DEF Informed
    <2> QED
      BY <1>t, <2>1, <2>2, RequestOnce, OpeningOnce
  <1> QED
    BY <1>1, <1>2, <1>t, RunSteps, WorkerOnce, TickOnce

LEMMA OnceInit == RunInit => OnceInv
  <1> SUFFICES ASSUME RunInit PROVE OnceInv
    OBVIOUS
  <1>1. 1 \in Workers
    BY RunAssumption DEF Workers
  <1>2. /\ proc[1] = "starting" /\ tab[1] = "open"
        /\ \A w \in Workers : w # 1 => proc[w] = "none" /\ tab[w] = "none"
    BY <1>1 DEF RunInit
  <1>3. log = <<>> /\ Len(log) = 0 /\ mem = saved /\ at = "serve" /\ live = NoTern
    BY DEF RunInit
  <1>4. /\ saved.pid = 0 /\ saved.block = 1 /\ ~saved.session /\ saved.offset = 0
        /\ saved.status = "launching" /\ saved.phase = "tab_open"
    BY DEF RunInit
  <1>5. WorkersOK(proc) /\ TabsOK(proc, tab) /\ LogOK(log, proc)
    BY <1>1, <1>2, <1>3, WorkersAre DEF WorkersOK, TabsOK, LogOK
  <1>6. RecordOK(saved, log, proc)
    <2>1. \A n \in Workers : Last(proc, n) <=> n = 1
      BY <1>1, <1>2, WorkersAre DEF Last
    <2> QED
      BY <1>1, <1>2, <1>3, <1>4, <2>1 DEF RecordOK, Waits
  <1>7. ResumeOK /\ LiveOK /\ LostOK
    BY <1>3 DEF ResumeOK, LiveOK, LostOK, InTick, NoTern
  <1> QED
    BY <1>3, <1>5, <1>6, <1>7 DEF OnceInv

LEMMA OnceAlways ==
    ASSUME ~Outlives
    PROVE  RunSpec /\ [][Informed]_runVars => [](RunTypeInv /\ CopyInv /\ OnceInv)
  <1>1. RunInit => RunTypeInv /\ CopyInv /\ OnceInv
    <2>1. RunInit => CopyInv
      BY DEF RunInit, CopyInv, Terminal
    <2> QED
      BY <2>1, InitRunType, OnceInit
  <1>2. RunTypeInv /\ CopyInv /\ OnceInv /\ [RunNext]_runVars /\ [Informed]_runVars
        => (RunTypeInv /\ CopyInv /\ OnceInv)'
    BY RunTypePreserved, CopyPreserved, OncePreserved
  <1> QED
    BY <1>1, <1>2, PTL DEF RunSpec

(* The run's workers share one session file, and no two of them are alive  *)
(* at once (superviseRecovery, resumeRefusal), however often the run is    *)
(* replaced, when workers end with their tabs and a resume that opens a    *)
(* third worker has read the start of the second.                          *)
THEOREM OneAtATime ==
    ASSUME ~Outlives PROVE RunSpec /\ [][Informed]_runVars => []OneWorker
  <1>1. OnceInv => OneWorker
    <2> SUFFICES ASSUME OnceInv, NEW v \in Workers, NEW w \in Workers, Alive(v), Alive(w)
                 PROVE  v = w
      BY DEF OneWorker
    <2> QED
      BY AliveIsLast, LastIsLast DEF OnceInv, Alive
  <1> QED
    BY <1>1, OnceAlways, PTL

(* The verdict of reconcileRun comes after everything the worker wrote: a  *)
(* lost run was never the run of a worker whose report lies unread, when   *)
(* workers end with their tabs and a resume that opens a third worker has  *)
(* read the start of the second.                                           *)
THEOREM ReportsFirst ==
    ASSUME ~Outlives PROVE RunSpec /\ [][Informed]_runVars => ReportBeatsLost
  <1> DEFINE Step == saved'.status = "lost" /\ saved.status # "lost" =>
                        \A i \in (saved'.offset + 1)..Len(log) :
                           ~(log[i].worker = saved'.pid /\ log[i].type \in Outcomes)
  <1>1. ASSUME RunTypeInv, CopyInv, OnceInv, [RunNext]_runVars
        PROVE  [Step]_runVars
    <2> SUFFICES ASSUME saved'.status = "lost", saved.status # "lost",
                        NEW i \in (saved'.offset + 1)..Len(log)
                 PROVE  ~(log[i].worker = saved'.pid /\ log[i].type \in Outcomes)
      OBVIOUS
    <2>0. saved \in Run /\ mem \in Run /\ log \in Seq(Event)
      BY <1>1 DEF RunTypeInv, RecordType, LogType
    <2>1. CASE Save
      <3>1. saved' = mem /\ InTick
        BY <2>1 DEF Save, InTick
      <3>2. mem.offset = Len(log)
        BY <1>1, <3>1 DEF OnceInv, LostOK, AllRead
      <3> QED
        BY <2>0, <3>1, <3>2
    <2>2. CASE ResumeFails
      <3>1. saved'.pid = 0 /\ saved'.offset = saved.offset
        BY <2>0, <2>2 DEF ResumeFails, Saves, Unresumed, Run
      <3>2. i \in 1..Len(log)
        BY <2>0, <3>1 DEF Run
      <3> QED
        BY <1>1, <3>1, <3>2 DEF OnceInv, LogOK
    <2>3. CASE (Reconcile \/ RunCrash) /\ ~Save
      <3>1. CASE TimeOut
        BY <2>0, <3>1 DEF TimeOut, Ended, Run
      <3> QED
        BY <2>3, <3>1
           DEF Reconcile, RunCrash, Snapshot, ReadEvent, EndRead, Judge, Verdict,
               TellFailed, InTime, CloseTab, NoClose, IdleFails, Recover, NoRemedy
    <2>4. CASE RequestSteps /\ ~ResumeFails
      <3>1. CASE Announce \/ Send \/ \E w \in Workers : Launch(w) \/ ResumeOpens(w)
        BY <2>0, <3>1 DEF Announce, Send, Woken, Launch, ResumeOpens, Saves, Run
      <3>2. CASE Cancel \/ Close \/ \E keep \in BOOLEAN : SetKeep(keep)
        BY <2>0, <3>2 DEF Cancel, Close, ClosesTab, SetKeep, Saves, Run
      <3>3. CASE Resume \/ ResumeRecorded
        BY <2>0, <3>3 DEF Resume, Begun, ResumeRecorded, Saves, Run
      <3> QED
        BY <2>4, <3>1, <3>2, <3>3 DEF RequestSteps
    <2>5. ASSUME NEW w \in Workers, WorkerStep(w) \/ Dies(w) \/ UserCloses(w)
          PROVE  saved' = saved
      BY <2>5, WorkerLeaves DEF daemonVars
    <2> QED
      BY <1>1, <2>1, <2>2, <2>3, <2>4, <2>5, RunSteps DEF runVars
  <1> QED
    BY <1>1, OnceAlways, PTL DEF RunSpec, ReportBeatsLost

(* A run that was replaced once at most, by its relaunch or by a resume,   *)
(* needs no such condition: its first worker's session, without which it   *)
(* is not resumed, and its first worker's end, without which it is not     *)
(* relaunched, say enough (resumeRefusal, superviseRecovery).              *)
COROLLARY ReplacedOnce ==
    ASSUME ~Outlives, MaxWorkers <= 2
    PROVE  RunSpec => []OneWorker /\ ReportBeatsLost
  <1>1. Informed
    BY RunAssumption DEF Informed, Workers
  <1>2. [][Informed]_runVars
    BY <1>1, PTL
  <1> QED
    BY <1>2, OneAtATime, ReportsFirst, PTL

-----------------------------------------------------------------------------
(* Where a run that ended was told, and how it goes untold.                *)

EndTold(status, n, t, l) ==
    status \in {"failed", "lost", "cancelled"} =>
        status \in n \/ \E i \in t : l[i].type = status

\* Of a lost run the item is written before the record; of a failed or
\* cancelled one it may be after, and the daemon may die between.
EndsInv ==
    /\ saved.status = "lost" \/ mem.status = "lost" => "lost" \in news
    /\ crashes = 0 /\ at = "tell" => saved.status = "failed" /\ mem.status = "failed"
    /\ crashes = 0 /\ at \notin {"tell", "announce"} =>
          /\ EndTold(saved.status, news, told, log)
          /\ EndTold(mem.status, news, told, log)

(* What was told stays told, of the events it was told of.                 *)
LEMMA TellingsStay ==
    ASSUME RunTypeInv, [RunNext]_runVars
    PROVE  /\ told \subseteq told' /\ news \subseteq news'
           /\ \A i \in told : log'[i] = log[i]
           /\ crashes' = 0 => crashes = 0
  <1>0. /\ log \in Seq(Event) /\ told \subseteq 1..Len(log) /\ crashes \in Nat
    BY RunAssumption DEF RunTypeInv, LogType, RecordType
  <1>1. CASE UNCHANGED runVars
    BY <1>1 DEF runVars, inboxVars
  <1>2. ASSUME NEW w \in Workers, WorkerStep(w) \/ Dies(w) \/ UserCloses(w)
        PROVE  /\ UNCHANGED <<told, news, crashes>> /\ \A i \in told : log'[i] = log[i]
    <2>1. UNCHANGED <<told, news, crashes>>
      BY <1>2, WorkerLeaves DEF daemonVars, inboxVars
    <2>2. UNCHANGED log \/ \E e : log' = Append(log, e)
      BY <1>2
         DEF WorkerStep, SessionStart, Settle, Finish, Ask, UserTypes, Typed, Dies,
             UserCloses, Records
    <2> QED
      BY <1>0, <2>1, <2>2
  <1>3. CASE Reconcile \/ RunCrash
    BY <1>0, <1>3
       DEF Reconcile, RunCrash, Snapshot, ReadEvent, EndRead, Judge, Verdict, TimeOut,
           TellFailed, InTime, CloseTab, NoClose, IdleFails, Recover, NoRemedy, Save,
           inboxVars
  <1>4. CASE RequestSteps
    <2>1. UNCHANGED <<told, crashes>> /\ news \subseteq news'
      BY <1>4
         DEF RequestSteps, Announce, Send, Cancel, Close, SetKeep, Resume, Serving,
             ResumeFails, ResumeRecorded, Launch, ResumeOpens, inboxVars
    <2>2. UNCHANGED log \/ \E e : log' = Append(log, e)
      BY <1>4
         DEF RequestSteps, Announce, Send, Typed, Cancel, Close, SetKeep, Resume,
             ResumeFails, ResumeRecorded, Launch, ResumeOpens, Records
    <2> QED
      BY <1>0, <2>1, <2>2
  <1> QED
    BY <1>1, <1>2, <1>3, <1>4, RunSteps

LEMMA EndsPreserved ==
    RunTypeInv /\ CopyInv /\ EndsInv /\ [RunNext]_runVars => EndsInv'
  <1> SUFFICES ASSUME RunTypeInv, CopyInv, EndsInv, [RunNext]_runVars PROVE EndsInv'
    OBVIOUS
  <1>0. saved \in Run /\ mem \in Run
    BY DEF RunTypeInv, RecordType
  <1>s. /\ Terminal \cap (Waiting \cup Busy) = {}
        /\ Waiting \cap {"failed", "lost", "cancelled"} = {}
        /\ Busy \cap {"failed", "lost", "cancelled"} = {}
    BY DEF Terminal, Waiting, Busy
  <1>t. /\ told \subseteq told' /\ news \subseteq news'
        /\ \A i \in told : log'[i] = log[i]
        /\ crashes' = 0 => crashes = 0
    BY TellingsStay
  <1>k. ASSUME NEW s, EndTold(s, news, told, log)
        PROVE  EndTold(s, news', told', log')
    BY <1>t, <1>k DEF EndTold
  \* A step in which neither record takes an untold end.
  <1>q. ASSUME at \notin {"tell", "announce"}, at' \notin {"tell", "announce"},
               \/ saved'.status \in {saved.status, mem.status}
               \/ saved'.status \notin {"failed", "lost", "cancelled"},
               \/ mem'.status \in {saved.status, mem.status}
               \/ mem'.status \notin {"failed", "lost", "cancelled"}
        PROVE  EndsInv'
    <2>1. /\ saved'.status = "lost" => "lost" \in news'
          /\ mem'.status = "lost" => "lost" \in news'
      BY <1>q, <1>t DEF EndsInv
    <2>2. crashes' = 0 => /\ EndTold(saved'.status, news', told', log')
                          /\ EndTold(mem'.status, news', told', log')
      <3>1. ASSUME NEW s, s \notin {"failed", "lost", "cancelled"}
            PROVE  EndTold(s, news', told', log')
        BY <3>1 DEF EndTold
      <3>2. crashes' = 0 => /\ EndTold(saved.status, news, told, log)
                            /\ EndTold(mem.status, news, told, log)
        BY <1>q, <1>t DEF EndsInv
      <3> QED
        BY <1>k, <1>q, <3>1, <3>2
    <2> QED
      BY <1>q, <2>1, <2>2 DEF EndsInv
  <1>1. CASE UNCHANGED runVars
    BY <1>1 DEF runVars, inboxVars, EndsInv
  <1>2. ASSUME NEW w \in Workers, WorkerStep(w) \/ Dies(w) \/ UserCloses(w)
        PROVE  EndsInv'
    <2>1. UNCHANGED daemonVars
      BY <1>2, WorkerLeaves
    <2> QED
      BY <1>k, <2>1 DEF daemonVars, inboxVars, EndsInv
  <1>3. CASE ReadEvent
    <2> DEFINE i == mem.offset + 1
    <2>1. /\ i \in 1..Len(log) /\ UNCHANGED <<log, saved, at, news, crashes>>
          /\ at \in {"read", "reread"} /\ mem' = Applied(mem, i) /\ told' = told \cup News(mem, i)
      <3>1. mem \in Run /\ log \in Seq(Event) /\ mem.offset <= Len(log) /\ mem.offset # Len(log)
        BY <1>3 DEF ReadEvent, AllRead, RunTypeInv, RecordType, LogType
      <3>2. mem.offset \in Nat
        BY <3>1 DEF Run
      <3>3. i \in 1..Len(log)
        BY <3>1, <3>2
      <3> QED
        BY <1>3, <3>3 DEF ReadEvent
    <2>2. /\ mem.status \in Terminal => mem'.status = mem.status
          /\ mem'.status = "lost" => mem.status = "lost"
      BY <1>0, <2>1, AppliedRun DEF RunTypeInv
    <2>3. CASE mem'.status = mem.status \/ mem'.status \notin {"failed", "lost", "cancelled"}
      BY <1>q, <2>1, <2>3
    <2>4. CASE mem'.status # mem.status /\ mem'.status \in {"failed", "lost", "cancelled"}
      <3>1. mem.status \notin Terminal /\ mem'.status = log[i].type
        <4> DEFINE e == log[i]
                   q == [mem EXCEPT !.offset = i]
        <4>1. e \in Event /\ mem.status \notin Terminal
          BY <2>1, <2>2, <2>4 DEF RunTypeInv, LogType
        <4>2. CASE e.type \in {"started", "settled", "opened", "closed", "resumed"}
          BY <1>0, <2>1, <2>4, <4>1, <4>2
             DEF Applied, AfterStarted, OnStart, AfterSettled, AfterOpened, AfterClosed,
                 Run, Outcomes
        <4>3. CASE e.type \in Outcomes
          <5>1. Applied(mem, i) = AfterReport(q, i)
            BY <4>1, <4>3 DEF Applied, Outcomes
          <5> QED
            BY <1>0, <2>1, <2>4, <4>1, <5>1 DEF AfterReport, Run
        <4> QED
          BY <4>1, <4>2, <4>3 DEF Event
      <3>2. i \in told'
        BY <2>1, <2>4, <3>1 DEF News
      <3>3. EndTold(mem'.status, news', told', log')
        BY <2>1, <3>1, <3>2 DEF EndTold
      <3>4. crashes' = 0 => EndTold(saved'.status, news', told', log')
        BY <1>k, <1>t, <2>1 DEF EndsInv
      <3> QED
        BY <2>1, <2>2, <3>3, <3>4 DEF EndsInv
    <2> QED
      BY <2>3, <2>4
  <1>4. CASE Snapshot \/ EndRead \/ Judge \/ InTime \/ NoClose \/ NoRemedy
    BY <1>4, <1>q, AfterSteps
       DEF Snapshot, EndRead, Judge, ReadAgain, InTime, NoClose, NoRemedy
  \* The item of an end that is told before it is saved.
  <1>e. ASSUME NEW end \in {"failed", "lost"}, at \notin {"tell", "announce"},
               at' \notin {"tell", "announce"}, saved' = saved,
               mem'.status = end, end \in news'
        PROVE  EndsInv'
    <2>1. EndTold(mem'.status, news', told', log')
      BY <1>e DEF EndTold
    <2>2. crashes' = 0 => EndTold(saved'.status, news', told', log')
      BY <1>e, <1>k, <1>t DEF EndsInv
    <2> QED
      BY <1>e, <1>t, <2>1, <2>2 DEF EndsInv
  <1>5. CASE Verdict
    <2>1. at = "verdict" /\ at' \notin {"tell", "announce"} /\ saved' = saved
      BY <1>5, AfterSteps DEF Verdict
    <2>2. CASE mem' = mem
      BY <1>q, <2>1, <2>2
    <2>3. CASE mem' # mem
      <3>1. PICK end \in {"failed", "lost"} : mem' = Ended(mem, end) /\ end \in news'
        BY <1>5, <2>3 DEF Verdict
      <3>2. mem'.status = end
        BY <1>0, <3>1 DEF Ended, Run
      <3> QED
        BY <1>e, <2>1, <3>1, <3>2
    <2> QED
      BY <2>2, <2>3
  <1>6. CASE TimeOut
    <2>1. mem'.status = "failed" /\ saved' = mem' /\ at' = "tell"
      BY <1>0, <1>6 DEF TimeOut, Ended, Run
    <2> QED
      BY <2>1 DEF EndsInv
  <1>7. CASE TellFailed
    <2>1. /\ UNCHANGED <<saved, mem>> /\ "failed" \in news' /\ at = "tell"
          /\ at' \notin {"tell", "announce"}
      BY <1>7, AfterSteps DEF TellFailed
    <2> QED
      BY <1>t, <2>1 DEF EndsInv, EndTold
  <1>8. CASE CloseTab
    <2>1. mem'.status = mem.status
      BY <1>0, <1>8 DEF CloseTab, Run
    <2> QED
      BY <1>8, <1>q, <2>1, AfterSteps DEF CloseTab
  <1>9. CASE IdleFails
    <2>1. mem'.status = "failed"
      BY <1>0, <1>9 DEF IdleFails, Ended, Run
    <2> QED
      BY <1>9, <1>e, <2>1 DEF IdleFails
  <1>10. CASE Recover
    <2>1. mem'.status \in {mem.status, "launching"}
      BY <1>0, <1>10 DEF Recover, Run
    <2> QED
      BY <1>10, <1>q, <2>1 DEF Recover
  <1>11. CASE Save
    BY <1>11, <1>q DEF Save
  <1>12. CASE RunCrash
    <2>1. crashes' # 0
      BY <1>12 DEF RunCrash, RunTypeInv, RecordType
    <2> QED
      BY <1>12, <2>1 DEF RunCrash, inboxVars, EndsInv
  <1>13. CASE Announce
    <2>1. /\ saved.status \in news' /\ UNCHANGED <<saved, mem>> /\ mem = saved
          /\ at' = "serve"
      BY <1>13 DEF Announce, CopyInv
    <2> QED
      BY <1>t, <2>1 DEF EndsInv, EndTold
  \* The records of a request that ends the run, before their item.
  <1>a. ASSUME at' = "announce", saved'.status # "lost", mem'.status # "lost"
        PROVE  EndsInv'
    BY <1>a DEF EndsInv
  <1>14. CASE Cancel
    <2>1. saved'.status = "cancelled" /\ mem'.status = "cancelled"
      BY <1>0, <1>14 DEF Cancel, ClosesTab, Saves, Run
    <2> QED
      BY <1>14, <1>a, <2>1 DEF Cancel
  <1>15. ASSUME NEW w \in Workers, Launch(w) PROVE EndsInv'
    <2>1. \/ at' = "serve" /\ saved'.status = saved.status
          \/ at' = "announce" /\ saved'.status = "failed"
      BY <1>0, <1>15 DEF Launch, Serving, Saves, Run
    <2>2. at = "serve" /\ mem' = saved'
      BY <1>15 DEF Launch, Serving, Saves
    <2> QED
      BY <1>a, <1>q, <2>1, <2>2
  <1>16. CASE \/ Send \/ Close \/ Resume \/ ResumeFails \/ ResumeRecorded
              \/ \E keep \in BOOLEAN : SetKeep(keep)
              \/ \E w \in Workers : ResumeOpens(w)
    <2>1. at \notin {"tell", "announce"} /\ at' \notin {"tell", "announce"}
      BY <1>16
         DEF Send, Close, Resume, ResumeFails, ResumeRecorded, SetKeep, ResumeOpens,
             Serving
    <2>2. \/ saved'.status \in {saved.status, mem.status}
          \/ saved'.status \in {"launching", "running"}
      <3>1. CASE Send \/ Close \/ \E w \in Workers : ResumeOpens(w)
        BY <1>0, <3>1 DEF Send, Woken, Close, ClosesTab, ResumeOpens, Saves, Run
      <3>2. CASE Resume \/ ResumeFails \/ ResumeRecorded
        BY <1>0, <3>2 DEF Resume, Begun, ResumeFails, Unresumed, ResumeRecorded, Saves, Run
      <3>3. CASE \E keep \in BOOLEAN : SetKeep(keep)
        BY <1>0, <3>3 DEF SetKeep, Saves, Run
      <3> QED
        BY <1>16, <3>1, <3>2, <3>3
    <2>3. mem' = mem \/ mem' = saved' \/ mem'.status = "running"
      BY <1>0, <1>16
         DEF Send, Close, ClosesTab, Resume, ResumeFails, ResumeRecorded, SetKeep,
             ResumeOpens, Saves, Run
    <2> QED
      BY <1>q, <2>1, <2>2, <2>3
  <1> QED
    BY <1>1, <1>2, <1>3, <1>4, <1>5, <1>6, <1>7, <1>8, <1>9, <1>10, <1>11, <1>12,
       <1>13, <1>14, <1>15, <1>16, RunSteps DEF Reconcile, RequestSteps

LEMMA EndsAlways == RunSpec => [](RunTypeInv /\ EndsInv)
  <1>1. RunInit => EndsInv
    BY DEF RunInit, EndsInv, EndTold
  <1> QED
    BY <1>1, CopyAlways, EndsPreserved, PTL DEF RunSpec

(* A lost run is never silent, however often the daemon dies: the verdict  *)
(* writes its item before the record is saved (reconcileRun).              *)
THEOREM LostIsTold == RunSpec => [](saved.status = "lost" => "lost" \in news)
  <1>1. EndsInv => (saved.status = "lost" => "lost" \in news)
    BY DEF EndsInv
  <1> QED
    BY <1>1, EndsAlways, PTL

(* While no daemon died, a run that failed, was lost or was cancelled has  *)
(* an item that says so (failRun, cancelRun, failLaunch).                  *)
THEOREM EndsToldWhileUp == RunSpec => [](crashes = 0 => EndsAreTold)
  <1>1. EndsInv => (crashes = 0 => EndsAreTold)
    BY DEF EndsInv, EndTold, EndsAreTold, Terminal
  <1> QED
    BY <1>1, EndsAlways, PTL

-----------------------------------------------------------------------------
(* ClawTick.  The digest.                                                  *)

(* The oldest of some notices is one of them, and before the others.       *)
LEMMA OldestIs ==
    ASSUME NEW S \in SUBSET Nat, S # {}
    PROVE  Oldest(S) \in S /\ \A m \in S : Oldest(S) <= m
  <1>1. IsWellFoundedOn(OpToRel(<, Nat), Nat)
    BY NatLessThanWellFounded
  <1>2. PICK n \in S : \A m \in S : ~ (<<m, n>> \in OpToRel(<, Nat))
    BY <1>1, WFMin, Zenon
  <1>3. \A m \in S : ~ (m < n)
    BY <1>2 DEF OpToRel
  <1>4. \E k \in S : \A m \in S : k <= m
    BY <1>3
  <1> QED
    BY <1>4 DEF Oldest

(* The notices an owner had not seen, of those up to an end.               *)
Since(c, ns, o, m) == {n \in (c + 1)..m : ns[n] = o}

(* An item of notices that the cursor passed, or of those an owner had not *)
(* seen when some digest was begun: the daemon may have died after it.     *)
ItemOK(i, ns, c) ==
    /\ i.about \in SUBSET (1..Len(ns)) /\ i.about # {}
    /\ i.key = DigestKey(i.about)
    /\ \/ i.about \subseteq 1..c
       \/ \E m \in 1..Len(ns), o \in Owners : i.about = Since(c, ns, o, m)

(* The owners that wait for an item are owners of notices it is about.     *)
GroupsOK == \A o \in groups : upTo # 0 /\ Unread(o, upTo) # {}

(* Every owner of a digest in progress waits for its item or has it.       *)
OwnersServed ==
    upTo # 0 =>
        \A o \in Owners :
            Unread(o, upTo) # {} =>
                o \in groups \/ \E i \in inbox : i.key = DigestKey(Unread(o, upTo))

DigestInv ==
    /\ DigestTypeOK /\ upTo \in {0, Len(notices)}
    /\ \A i \in Digests : ItemOK(i, notices, cursor)
    /\ DigestedOnce /\ GroupsOK /\ OwnersServed

(* What others write to the inbox is no digest.                            *)
OtherItems ==
    /\ inbox \subseteq inbox'
    /\ \A i \in inbox' \ inbox : i.key[1] # "digest"

LEMMA DigestInit0 == DigestInit /\ inbox = {} => DigestInv
  <1> SUFFICES ASSUME DigestInit, inbox = {} PROVE DigestInv
    OBVIOUS
  <1>1. DigestTypeOK
    BY DigestAssumption DEF DigestInit, DigestTypeOK
  <1> QED
    BY <1>1 DEF DigestInit, DigestInv, Digests, DigestedOnce, GroupsOK, OwnersServed

LEMMA OtherItemsDigest ==
    ASSUME DigestInv, UNCHANGED digestVars, OtherItems
    PROVE  DigestInv'
  <1>1. Digests' = Digests
    BY DEF Digests, OtherItems
  <1>2. OwnersServed'
    BY DEF DigestInv, OwnersServed, OtherItems, digestVars, Unread
  <1> QED
    BY <1>1, <1>2 DEF DigestInv, DigestTypeOK, DigestedOnce, GroupsOK, Unread, digestVars

LEMMA NoticesGrow ==
    ASSUME DigestInv, NEW owner \in Owners, NewNotice(owner)
    PROVE  DigestInv'
  <1>1. /\ notices \in Seq(Owners) /\ cursor \in 0..Len(notices) /\ upTo = 0
        /\ UNCHANGED <<cursor, upTo, groups, inbox>> /\ groups \subseteq Owners
        /\ notices' = Append(notices, owner) /\ Len(notices) < MaxNotices
    BY DEF DigestInv, DigestTypeOK, NewNotice
  <1>2. /\ notices' \in Seq(Owners) /\ Len(notices') = Len(notices) + 1
        /\ \A n \in 1..Len(notices) : notices'[n] = notices[n]
    BY <1>1
  <1>3. DigestTypeOK' /\ upTo' \in {0, Len(notices')}
    BY <1>1, <1>2, DigestAssumption DEF DigestTypeOK
  <1>4. ASSUME NEW i \in Digests PROVE ItemOK(i, notices', cursor')
    <2>1. ItemOK(i, notices, cursor)
      BY <1>4 DEF DigestInv
    <2>2. ASSUME NEW m \in 1..Len(notices), NEW o \in Owners
          PROVE  Since(cursor, notices', o, m) = Since(cursor, notices, o, m)
      BY <1>1, <1>2 DEF Since
    <2> QED
      BY <1>1, <1>2, <2>1, <2>2 DEF ItemOK
  <1>5. Digests' = Digests
    BY <1>1 DEF Digests
  <1> QED
    BY <1>1, <1>3, <1>4, <1>5 DEF DigestInv, DigestedOnce, GroupsOK, OwnersServed

LEMMA StartDigestInv ==
    ASSUME DigestInv, StartDigest
    PROVE  DigestInv'
  <1>1. /\ notices \in Seq(Owners) /\ cursor \in 0..Len(notices)
        /\ UNCHANGED <<notices, cursor, inbox>> /\ cursor < Len(notices)
        /\ upTo' = Len(notices) /\ groups' = {notices[n] : n \in (cursor + 1)..Len(notices)}
    BY DEF DigestInv, DigestTypeOK, StartDigest
  <1>2. DigestTypeOK'
    BY <1>1 DEF DigestInv, DigestTypeOK
  <1>3. \A o \in Owners : Unread(o, upTo)' # {} <=> o \in groups'
    BY <1>1 DEF Unread
  <1>4. Digests' = Digests
    BY <1>1 DEF Digests
  <1> QED
    BY <1>1, <1>2, <1>3, <1>4 DEF DigestInv, DigestedOnce, GroupsOK, OwnersServed

LEMMA AppendDigestInv ==
    ASSUME DigestInv, NEW owner \in Owners, AppendDigest(owner)
    PROVE  DigestInv'
  <1> DEFINE U == Unread(owner, upTo)
             new == [key |-> DigestKey(U), about |-> U]
  <1>1. /\ notices \in Seq(Owners) /\ cursor \in 0..Len(notices) /\ upTo = Len(notices)
        /\ UNCHANGED <<notices, cursor, upTo>> /\ groups' = groups \ {owner}
        /\ AppendInbox(DigestKey(U), U) /\ upTo \in (cursor + 1)..Len(notices)
        /\ U # {} /\ upTo # 0 /\ upTo \in Nat
    BY DEF DigestInv, DigestTypeOK, GroupsOK, AppendDigest
  <1>2. U = Since(cursor, notices, owner, upTo) /\ U \in SUBSET (1..Len(notices))
    BY <1>1 DEF Unread, Since
  <1>3. Oldest(U) \in U /\ \A n \in U : Oldest(U) <= n
    <2>1. U \in SUBSET Nat
      BY <1>1, <1>2
    <2> QED
      BY <1>1, <2>1, OldestIs
  <1>4. DigestTypeOK' /\ GroupsOK'
    BY <1>1 DEF DigestInv, DigestTypeOK, GroupsOK, Unread
  <1>5. OwnersServed'
    <2>1. \E i \in inbox' : i.key = DigestKey(U)
      <3>1. CASE IsNew(DigestKey(U))
        <4>1. new \in inbox' /\ new.key = DigestKey(U)
          BY <1>1, <3>1 DEF AppendInbox
        <4> QED
          BY <4>1
      <3>2. CASE ~IsNew(DigestKey(U))
        BY <1>1, <3>2 DEF AppendInbox, IsNew
      <3> QED
        BY <3>1, <3>2
    <2>2. inbox \subseteq inbox'
      BY <1>1 DEF AppendInbox
    <2>3. \A o \in Owners : Unread(o, upTo)' = Unread(o, upTo)
      BY <1>1 DEF Unread
    <2> QED
      BY <1>1, <2>1, <2>2, <2>3 DEF DigestInv, OwnersServed
  <1>6. CASE ~IsNew(DigestKey(U))
    <2>1. inbox' = inbox /\ Digests' = Digests
      BY <1>1, <1>6 DEF AppendInbox, Digests
    <2> QED
      BY <1>1, <1>4, <1>5, <2>1 DEF DigestInv, DigestedOnce
  <1>7. CASE IsNew(DigestKey(U))
    <2>1. Digests' = Digests \cup {new}
      BY <1>1, <1>7 DEF AppendInbox, Digests, DigestKey
    <2>2. ItemOK(new, notices, cursor)
      BY <1>1, <1>2 DEF ItemOK
    <2>3. ASSUME NEW i \in Digests PROVE i.about \cap U = {}
      <3> SUFFICES ASSUME NEW n \in i.about, n \in U PROVE FALSE
        OBVIOUS
      <3>1. ItemOK(i, notices, cursor)
        BY <2>3 DEF DigestInv
      <3>2. n \in (cursor + 1)..upTo /\ notices[n] = owner /\ n \notin 1..cursor
        BY <1>1 DEF Unread
      <3>3. PICK m \in 1..Len(notices), o \in Owners : i.about = Since(cursor, notices, o, m)
        BY <3>1, <3>2 DEF ItemOK
      <3>4. o = owner /\ n <= m /\ m <= upTo
        BY <1>1, <3>2, <3>3 DEF Since
      <3>5. Oldest(U) \in i.about
        BY <1>1, <1>3, <3>2, <3>3, <3>4 DEF Since, Unread
      <3>6. i.about \subseteq U
        BY <1>1, <3>3, <3>4 DEF Since, Unread
      <3>7. Oldest(i.about) = Oldest(U)
        <4>1. i.about \in SUBSET Nat /\ i.about # {}
          BY <3>1 DEF ItemOK
        <4>2. Oldest(i.about) \in i.about /\ \A k \in i.about : Oldest(i.about) <= k
          BY <4>1, OldestIs
        <4>3. Oldest(i.about) <= Oldest(U) /\ Oldest(U) <= Oldest(i.about)
          BY <1>3, <3>5, <3>6, <4>2
        <4> QED
          BY <3>5, <4>1, <4>2, <4>3
      <3>8. i.key = DigestKey(U)
        BY <3>1, <3>7 DEF ItemOK, DigestKey
      <3> QED
        BY <1>7, <2>3, <3>8 DEF IsNew, Digests
    <2>4. DigestedOnce'
      <3> SUFFICES ASSUME NEW i \in Digests', NEW j \in Digests', i.about \cap j.about # {}
                   PROVE  i = j
        BY DEF DigestedOnce
      <3>1. new.about = U
        OBVIOUS
      <3> QED
        BY <2>1, <2>3, <3>1 DEF DigestInv, DigestedOnce
    <2> QED
      BY <1>1, <1>4, <1>5, <2>1, <2>2, <2>4 DEF DigestInv
  <1> QED
    BY <1>6, <1>7

LEMMA SaveCursorInv ==
    ASSUME DigestInv, SaveCursor
    PROVE  DigestInv'
  <1>1. /\ notices \in Seq(Owners) /\ cursor \in 0..Len(notices) /\ upTo = Len(notices)
        /\ UNCHANGED <<notices, inbox>> /\ cursor' = upTo /\ upTo' = 0 /\ groups' = {}
    BY DEF DigestInv, DigestTypeOK, SaveCursor
  <1>2. ASSUME NEW i \in Digests PROVE ItemOK(i, notices', cursor')
    BY <1>1, <1>2 DEF DigestInv, ItemOK
  <1>3. DigestTypeOK'
    BY <1>1 DEF DigestInv, DigestTypeOK
  <1>4. Digests' = Digests
    BY <1>1 DEF Digests
  <1> QED
    BY <1>1, <1>2, <1>3, <1>4 DEF DigestInv, DigestedOnce, GroupsOK, OwnersServed

LEMMA DigestCrashInv ==
    ASSUME DigestInv, DigestCrash
    PROVE  DigestInv'
  <1>1. Digests' = Digests
    BY DEF Digests, DigestCrash
  <1> QED
    BY <1>1 DEF DigestCrash, DigestInv, DigestTypeOK, DigestedOnce, GroupsOK, OwnersServed

LEMMA DigestStepInv ==
    ASSUME DigestInv, DigestNext \/ (UNCHANGED digestVars /\ OtherItems)
    PROVE  DigestInv'
  BY StartDigestInv, AppendDigestInv, SaveCursorInv, DigestCrashInv, NoticesGrow,
     OtherItemsDigest DEF DigestNext, DigestStep

(* The cursor passes no owner without an item about the oldest notice that *)
(* owner had not seen.                                                     *)
LEMMA CursorPasses ==
    ASSUME DigestInv, DigestNext \/ UNCHANGED cursor, cursor' # cursor, NEW o \in Owners,
           Unread(o, cursor') # {}
    PROVE  /\ notices' = notices
           /\ \E i \in Digests : Oldest(Unread(o, cursor')) \in i.about
  <1>1. SaveCursor
    BY DEF DigestNext, DigestStep, StartDigest, AppendDigest, DigestCrash, NewNotice
  <1>2. cursor' = upTo /\ notices' = notices /\ upTo # 0 /\ groups = {}
    BY <1>1 DEF SaveCursor, AllAppended
  <1>3. PICK i \in inbox : i.key = DigestKey(Unread(o, upTo))
    BY <1>2 DEF DigestInv, OwnersServed
  <1>4. i \in Digests
    BY <1>3 DEF Digests, DigestKey
  <1>5. ItemOK(i, notices, cursor)
    BY <1>4 DEF DigestInv
  <1>6. Oldest(i.about) = Oldest(Unread(o, upTo))
    BY <1>3, <1>5 DEF ItemOK, DigestKey
  <1>7. Oldest(i.about) \in i.about
    <2>1. i.about \in SUBSET Nat /\ i.about # {}
      BY <1>5 DEF ItemOK
    <2> QED
      BY <2>1, OldestIs
  <1> QED
    BY <1>2, <1>4, <1>6, <1>7

-----------------------------------------------------------------------------
(* ClawTick.  The triggers.                                                *)

(* What was done of the firing in progress.                                *)
FiringDone ==
    /\ step \in {"say", "save"} /\ firing \in Spawns =>
          \E r \in runs : r.key = FireKey(firing)
    /\ step = "save" => \E i \in inbox : i.key = <<"fired", FireKey(firing)>>

TriggersInv ==
    /\ TriggersTypeOK
    /\ \A r \in runs : r.key = <<r.trigger, r.time>>
    /\ FiresOnce /\ FiringDone

LEMMA Appended ==
    ASSUME NEW key, NEW about, AppendInbox(key, about)
    PROVE  /\ inbox \subseteq inbox' /\ \E i \in inbox' : i.key = key
           /\ \A i \in inbox' \ inbox : i.key = key
  <1> DEFINE new == [key |-> key, about |-> about]
  <1>1. CASE IsNew(key)
    <2>1. inbox' = inbox \cup {new} /\ new.key = key
      BY <1>1 DEF AppendInbox
    <2> QED
      BY <2>1
  <1>2. CASE ~IsNew(key)
    BY <1>2 DEF AppendInbox, IsNew
  <1> QED
    BY <1>1, <1>2

LEMMA TriggersInit0 == TriggersInit => TriggersInv
  <1> SUFFICES ASSUME TriggersInit PROVE TriggersInv
    OBVIOUS
  <1>1. triggers \in [Triggers -> [enabled : BOOLEAN, waits : BOOLEAN, next : Nat]]
    BY DEF TriggersInit
  <1>2. now \in 1..MaxTime /\ clock \in 0..now /\ todo \subseteq Triggers
    BY TriggersAssumption DEF TriggersInit
  <1>3. TriggersTypeOK
    BY <1>1, <1>2 DEF TriggersInit, TriggersTypeOK
  <1> QED
    BY <1>3 DEF TriggersInit, TriggersInv, FiresOnce, FiringDone

LEMMA OtherItemsTriggers ==
    ASSUME TriggersInv, UNCHANGED triggerVars, inbox \subseteq inbox'
    PROVE  TriggersInv'
  BY DEF TriggersInv, TriggersTypeOK, FiresOnce, FiringDone, FireKey, triggerVars

LEMMA StartRunInv ==
    ASSUME TriggersInv, StartRun
    PROVE  TriggersInv'
  <1> DEFINE new == [trigger |-> firing, key |-> FireKey(firing), time |-> triggers[firing].next]
  <1>1. firing \in Spawns /\ firing \in Triggers /\ triggers[firing].next \in Nat
    BY DEF StartRun, TriggersInv, TriggersTypeOK
  <1>2. UNCHANGED <<now, on, exited, triggers, firing, clock, todo, inbox>> /\ step' = "say"
    BY DEF StartRun
  <1>3. CASE \E r \in runs : r.key = FireKey(firing)
    <2>1. runs' = runs
      BY <1>3 DEF StartRun
    <2> QED
      BY <1>1, <1>2, <1>3, <2>1
         DEF TriggersInv, TriggersTypeOK, FiresOnce, FiringDone, FireKey, StartRun
  <1>4. CASE ~\E r \in runs : r.key = FireKey(firing)
    <2>1. runs' = runs \cup {new}
      BY <1>4 DEF StartRun
    <2>2. /\ new.trigger = firing /\ new.time = triggers[firing].next
          /\ new.key = <<new.trigger, new.time>> /\ new.key = FireKey(firing)
      BY DEF FireKey
    <2>3. \A r \in runs : ~(r.trigger = new.trigger /\ r.time = new.time)
      BY <1>4, <2>2 DEF TriggersInv
    <2>4. FiresOnce'
      BY <2>1, <2>3 DEF TriggersInv, FiresOnce
    <2>5. TriggersTypeOK' /\ \A r \in runs' : r.key = <<r.trigger, r.time>>
      BY <1>1, <1>2, <2>1, <2>2 DEF TriggersInv, TriggersTypeOK, StartRun
    <2>6. FiringDone'
      BY <1>2, <2>1, <2>2 DEF FiringDone, FireKey
    <2> QED
      BY <2>4, <2>5, <2>6 DEF TriggersInv
  <1> QED
    BY <1>3, <1>4

LEMMA TriggerStepInv ==
    ASSUME TriggersInv, TriggersNext
    PROVE  TriggersInv'
  <1>0. /\ triggers \in [Triggers -> [enabled : BOOLEAN, waits : BOOLEAN, next : Nat]]
        /\ now \in 1..MaxTime /\ clock \in 0..now /\ todo \subseteq Triggers
        /\ MaxTime \in Nat
    BY TriggersAssumption DEF TriggersInv, TriggersTypeOK
  <1>1. CASE HourPasses
    BY <1>0, <1>1 DEF HourPasses, TriggersInv, TriggersTypeOK, FiresOnce, FiringDone, FireKey
  <1>2. CASE RunExits \/ Switch
    BY <1>2 DEF RunExits, Switch, TriggersInv, TriggersTypeOK, FiresOnce, FiringDone, FireKey
  <1>3. ASSUME NEW t \in Triggers, RetryComes(t) PROVE TriggersInv'
    <2>1. /\ triggers' \in [Triggers -> [enabled : BOOLEAN, waits : BOOLEAN, next : Nat]]
          /\ \A u \in Triggers : triggers'[u].next = triggers[u].next
      BY <1>0, <1>3 DEF RetryComes
    <2> QED
      BY <1>3, <2>1
         DEF RetryComes, TriggersInv, TriggersTypeOK, FiresOnce, FiringDone, FireKey
  <1>4. CASE StartFiring
    BY <1>0, <1>4 DEF StartFiring, TriggersInv, TriggersTypeOK, FiresOnce, FiringDone
  <1>5. ASSUME NEW t \in Triggers, Pass(t) \/ Fire(t) PROVE TriggersInv'
    BY <1>5 DEF Pass, Fire, TriggersInv, TriggersTypeOK, FiresOnce, FiringDone
  <1>6. CASE StartRun
    BY <1>6, StartRunInv
  <1>7. CASE LeaveMessage
    <2>1. inbox \subseteq inbox'
      BY <1>7, Appended DEF LeaveMessage
    <2> QED
      BY <1>7, <2>1 DEF LeaveMessage, TriggersInv, TriggersTypeOK, FiresOnce, FiringDone
  <1>8. CASE StartFails
    <2>1. triggers' \in [Triggers -> [enabled : BOOLEAN, waits : BOOLEAN, next : Nat]]
      BY <1>0, <1>8 DEF StartFails, Retried
    <2> QED
      BY <1>8, <2>1 DEF StartFails, TriggersInv, TriggersTypeOK, FiresOnce, FiringDone
  <1>9. CASE SayFired
    <2>1. \E i \in inbox' : i.key = <<"fired", FireKey(firing)>>
      BY <1>9, Appended DEF SayFired
    <2> QED
      BY <1>9, <2>1 DEF SayFired, TriggersInv, TriggersTypeOK, FiresOnce, FiringDone, FireKey
  <1>10. CASE SaveTrigger
    <2>1. firing \in Triggers /\ clock + 1 \in Nat
      BY <1>0, <1>10 DEF SaveTrigger, TriggersInv, TriggersTypeOK
    <2>2. Fired(triggers[firing], firing) \in [enabled : BOOLEAN, waits : BOOLEAN, next : Nat]
      <3> DEFINE next == IF firing \in Crons THEN clock + 1 ELSE 0
                 on0 == firing \in Crons \ Once
      <3>1. triggers[firing] \in [enabled : BOOLEAN, waits : BOOLEAN, next : Nat]
        BY <1>0, <2>1
      <3>2. next \in Nat /\ on0 \in BOOLEAN
        BY <2>1
      <3>3. Fired(triggers[firing], firing)
               = [triggers[firing] EXCEPT !.waits = FALSE, !.next = next, !.enabled = on0]
        BY DEF Fired
      <3> HIDE DEF next, on0
      <3> QED
        BY <3>1, <3>2, <3>3
    <2>3. triggers' \in [Triggers -> [enabled : BOOLEAN, waits : BOOLEAN, next : Nat]]
      BY <1>0, <1>10, <2>1, <2>2 DEF SaveTrigger
    <2> QED
      BY <1>10, <2>3 DEF SaveTrigger, TriggersInv, TriggersTypeOK, FiresOnce, FiringDone
  <1>11. CASE AllLooked
    BY <1>0, <1>11 DEF AllLooked, TriggersInv, TriggersTypeOK, FiresOnce, FiringDone
  <1>12. CASE TriggersCrash
    BY <1>0, <1>12 DEF TriggersCrash, TriggersInv, TriggersTypeOK, FiresOnce, FiringDone
  <1> QED
    BY <1>1, <1>2, <1>3, <1>4, <1>5, <1>6, <1>7, <1>8, <1>9, <1>10, <1>11, <1>12
       DEF TriggersNext, TriggerStep

(* A trigger is given another time, or switched off, only when what it was *)
(* due for was done and said.                                              *)
LEMMA TriggerPasses ==
    ASSUME TriggersInv, TriggersNext \/ UNCHANGED triggers, NEW t \in Triggers,
           \/ triggers'[t].next # triggers[t].next
           \/ triggers'[t].enabled # triggers[t].enabled
    PROVE  /\ t \in Spawns => \E r \in runs : r.trigger = t /\ r.time = triggers[t].next
           /\ \E i \in inbox : i.key = <<"fired", FireKey(t)>>
  <1>0. triggers \in [Triggers -> [enabled : BOOLEAN, waits : BOOLEAN, next : Nat]]
    BY DEF TriggersInv, TriggersTypeOK
  <1>1. CASE SaveTrigger
    <2>1. t = firing /\ step = "save"
      BY <1>0, <1>1 DEF SaveTrigger
    <2>2. ASSUME t \in Spawns
          PROVE  \E r \in runs : r.trigger = t /\ r.time = triggers[t].next
      <3>1. PICK r \in runs : r.key = FireKey(t)
        BY <2>1, <2>2 DEF TriggersInv, FiringDone
      <3>2. <<r.trigger, r.time>> = <<t, triggers[t].next>>
        BY <3>1 DEF TriggersInv, FireKey
      <3> QED
        BY <3>2
    <2> QED
      BY <2>1, <2>2 DEF TriggersInv, FiringDone
  <1>2. CASE \E u \in Triggers : RetryComes(u)
    BY <1>0, <1>2 DEF RetryComes
  <1>3. CASE StartFails
    BY <1>0, <1>3 DEF StartFails, Retried
  <1> QED
    BY <1>1, <1>2, <1>3
       DEF TriggersNext, TriggerStep, HourPasses, RunExits, Switch, StartFiring, Pass,
           Fire, StartRun, LeaveMessage, SayFired, AllLooked, TriggersCrash

-----------------------------------------------------------------------------
(* ClawTick.  The outbox.                                                  *)

Bodies == ((Reports \cup {"stalled"}) \X Nat) \cup {"In Review"}

Operation == [kind : {"comment", "state"}, id : Nat, body : Bodies, done : BOOLEAN]

Record == [read : Nat, outbox : Seq(Operation), ended : BOOLEAN]

Comment == [id : Nat, body : Bodies, late : BOOLEAN]

GivenUpOn == [op : Operation, landed : BOOLEAN]

Marked(id, cs) == \E j \in DOMAIN cs : cs[j].id = id

(* What has this marker landed after its caller had given it up.           *)
OnlyLate(id, cs) == \A j \in DOMAIN cs : cs[j].id = id => cs[j].late

(* What a record of the run says was done is in Hoja under its marker.     *)
RunOK(r, evs, cs, issue) ==
    /\ r \in Record /\ r.read <= Len(evs)
    /\ \A k \in DOMAIN r.outbox : r.outbox[k].id \in {0, k}
    /\ issue =>
          \A k \in DOMAIN r.outbox :
              r.outbox[k].done /\ r.outbox[k].kind = "comment" => Marked(r.outbox[k].id, cs)

OutboxInv ==
    /\ events \in Seq(Reports) /\ Len(events) <= MaxReports
    /\ RunOK(file, events, comments, hasIssue) /\ RunOK(run, events, comments, hasIssue)
    /\ hasIssue \in BOOLEAN
    /\ comments \in Seq(Comment)
    /\ job \in {"read", "flush", "write", "check", "save"}
    /\ job \in {"write", "check"} => hasIssue /\ Undone(run) # {}
    /\ unanswered \in Seq(GivenUpOn)
    /\ job = "write" /\ Op.kind = "comment" => OnlyLate(Op.id, comments)
    /\ CommentOnce

LEMMA OutboxTyped == OutboxInv => OutboxTypeOK /\ DoneIsMarked
  <1> SUFFICES ASSUME OutboxInv PROVE OutboxTypeOK /\ DoneIsMarked
    OBVIOUS
  <1>1. ASSUME NEW r \in {file, run}
        PROVE  /\ r.read \in 0..Len(events) /\ r.ended \in BOOLEAN
               /\ \A k \in DOMAIN r.outbox : /\ r.outbox[k].kind \in {"comment", "state"}
                                             /\ r.outbox[k].id \in {0, k}
    <2>1. RunOK(r, events, comments, hasIssue) /\ Len(events) \in Nat
      BY DEF OutboxInv
    <2>2. r.outbox \in Seq(Operation) /\ r.read \in Nat /\ r.ended \in BOOLEAN
      BY <2>1 DEF RunOK, Record
    <2>3. \A k \in DOMAIN r.outbox : r.outbox[k] \in Operation
      BY <2>2
    <2> QED
      BY <2>1, <2>2, <2>3 DEF RunOK, Operation
  <1>2. /\ \A k \in DOMAIN comments : comments[k].id \in Nat /\ comments[k].late \in BOOLEAN
        /\ \A k \in DOMAIN unanswered : unanswered[k].landed \in BOOLEAN
    <2>1. /\ \A k \in DOMAIN comments : comments[k] \in Comment
          /\ \A k \in DOMAIN unanswered : unanswered[k] \in GivenUpOn
      BY DEF OutboxInv
    <2> QED
      BY <2>1 DEF Comment, GivenUpOn
  <1>4. OutboxTypeOK
    BY <1>1, <1>2 DEF OutboxInv, OutboxTypeOK
  <1>3. DoneIsMarked
    BY DEF OutboxInv, RunOK, DoneIsMarked, Marked
  <1> QED
    BY <1>3, <1>4

LEMMA OutboxInit0 == OutboxInit => OutboxInv
  <1> SUFFICES ASSUME OutboxInit PROVE OutboxInv
    OBVIOUS
  <1>1. /\ file = [read |-> 0, outbox |-> <<>>, ended |-> FALSE] /\ run = file
        /\ events = <<>> /\ comments = <<>> /\ job = "read" /\ hasIssue \in BOOLEAN
        /\ unanswered = <<>>
    BY DEF OutboxInit
  <1>2. <<>> \in Seq(Operation) /\ <<>> \in Seq(Reports) /\ <<>> \in Seq(Comment)
        /\ <<>> \in Seq(GivenUpOn) /\ Len(events) = 0 /\ Len(events) <= MaxReports
    BY <1>1, OutboxAssumption
  <1>3. file \in Record /\ file.outbox = <<>> /\ file.read = 0
    BY <1>1, <1>2 DEF Record
  <1>4. \A k \in DOMAIN file.outbox : FALSE
    BY <1>3
  <1>5. RunOK(file, events, comments, hasIssue)
    BY <1>2, <1>3, <1>4 DEF RunOK
  <1>6. CommentOnce
    BY <1>1 DEF CommentOnce
  <1> QED
    BY <1>1, <1>2, <1>5, <1>6 DEF OutboxInv

(* The operation a flush is at is the first that is undone.                *)
LEMMA OpIs ==
    ASSUME OutboxInv, Undone(run) # {}
    PROVE  \E k \in DOMAIN run.outbox :
              /\ Op = run.outbox[k] /\ Op \in Operation
              /\ OpDone = [run EXCEPT !.outbox[k].done = TRUE]
  <1>1. run.outbox \in Seq(Operation)
    BY DEF OutboxInv, RunOK, Record
  <1>2. Undone(run) \in SUBSET Nat /\ Undone(run) \subseteq DOMAIN run.outbox
    BY <1>1 DEF Undone
  <1>3. \E k \in Undone(run) : \A j \in Undone(run) : k <= j
    BY <1>2, OldestIs DEF Oldest
  <1> DEFINE k == CHOOSE k \in Undone(run) : \A j \in Undone(run) : k <= j
  <1>4. k \in DOMAIN run.outbox
    BY <1>2, <1>3
  <1>5. Op = run.outbox[k] /\ OpDone = [run EXCEPT !.outbox[k].done = TRUE]
    BY DEF Op, OpDone
  <1> HIDE DEF k
  <1>6. run.outbox[k] \in Operation
    BY <1>1, <1>4
  <1> QED
    BY <1>4, <1>5, <1>6

LEMMA OpDoneOK ==
    ASSUME OutboxInv, Undone(run) # {}, hasIssue => IsShown(Op)
    PROVE  RunOK(OpDone, events, comments, hasIssue)
  <1>1. PICK k \in DOMAIN run.outbox :
              /\ Op = run.outbox[k] /\ Op \in Operation
              /\ OpDone = [run EXCEPT !.outbox[k].done = TRUE]
    BY OpIs
  <1>2. run \in Record /\ run.outbox \in Seq(Operation) /\ RunOK(run, events, comments, hasIssue)
    BY DEF OutboxInv, RunOK, Record
  <1> DEFINE ob == [run.outbox EXCEPT ![k] = [run.outbox[k] EXCEPT !.done = TRUE]]
  <1>3. OpDone = [run EXCEPT !.outbox = ob]
    BY <1>1, <1>2 DEF Record
  <1>4. [run.outbox[k] EXCEPT !.done = TRUE] \in Operation
    BY <1>1 DEF Operation
  <1>5. ob \in Seq(Operation) /\ DOMAIN ob = DOMAIN run.outbox
    BY <1>1, <1>2, <1>4
  <1>6. OpDone \in Record /\ OpDone.outbox = ob /\ OpDone.read = run.read
    BY <1>2, <1>3, <1>5 DEF Record
  <1>7. ASSUME NEW j \in DOMAIN ob
        PROVE  /\ ob[j].id = run.outbox[j].id /\ ob[j].kind = run.outbox[j].kind
               /\ j # k => ob[j].done = run.outbox[j].done
    BY <1>1, <1>2, <1>5 DEF Operation
  <1>8. hasIssue /\ run.outbox[k].kind = "comment" => Marked(run.outbox[k].id, comments)
    BY <1>1 DEF IsShown, Marked
  <1> HIDE DEF ob
  <1> QED
    BY <1>2, <1>5, <1>6, <1>7, <1>8 DEF RunOK

(* An operation that is queued is not done.                                *)
LEMMA QueuedOK ==
    ASSUME NEW ob \in Seq(Operation), NEW cs,
           NEW op \in Operation, ~op.done, op.id \in {0, Len(ob) + 1},
           \A k \in DOMAIN ob : ob[k].id \in {0, k},
           hasIssue => \A k \in DOMAIN ob :
               ob[k].done /\ ob[k].kind = "comment" => Marked(ob[k].id, cs)
    PROVE  /\ Append(ob, op) \in Seq(Operation) /\ Len(Append(ob, op)) = Len(ob) + 1
           /\ \A k \in DOMAIN Append(ob, op) : Append(ob, op)[k].id \in {0, k}
           /\ hasIssue => \A k \in DOMAIN Append(ob, op) :
                 Append(ob, op)[k].done /\ Append(ob, op)[k].kind = "comment"
                    => Marked(Append(ob, op)[k].id, cs)
  <1> DEFINE q == Append(ob, op)
  <1>1. /\ q \in Seq(Operation) /\ Len(q) = Len(ob) + 1 /\ q[Len(ob) + 1] = op
        /\ \A k \in DOMAIN ob : q[k] = ob[k]
        /\ \A k \in DOMAIN q : k \in DOMAIN ob \/ k = Len(ob) + 1
    OBVIOUS
  <1> HIDE DEF q
  <1>2. /\ \A k \in DOMAIN q : q[k].id \in {0, k}
        /\ hasIssue => \A k \in DOMAIN q :
                 q[k].done /\ q[k].kind = "comment" => Marked(q[k].id, cs)
    BY <1>1
  <1> QED
    BY <1>1, <1>2 DEF q

LEMMA ReadReportInv ==
    ASSUME OutboxInv, ReadReport
    PROVE  OutboxInv'
  <1> DEFINE n == run.read + 1
  <1>1. /\ run \in Record /\ run.outbox \in Seq(Operation) /\ run.read \in Nat
        /\ RunOK(run, events, comments, hasIssue) /\ events \in Seq(Reports)
        /\ run.read < Len(events) /\ run' = Reported(run, n)
        /\ UNCHANGED <<events, file, job, hasIssue, comments, unanswered>> /\ job = "read"
    BY DEF OutboxInv, RunOK, Record, ReadReport, hojaVars
  <1>2. n \in 1..Len(events) /\ events[n] \in Reports /\ n \in Nat
    BY <1>1
  <1>3. RunOK(run', events, comments, hasIssue)
    <2>1. CASE run.ended
      <3>1. run' = [run EXCEPT !.read = n]
        BY <1>1, <2>1 DEF Reported, Offset
      <3>2. run' \in Record /\ run'.read = n /\ run'.outbox = run.outbox
        BY <1>1, <1>2, <3>1 DEF Record
      <3> QED
        BY <1>1, <1>2, <3>2 DEF RunOK
    <2>2. CASE ~run.ended
      <3> DEFINE said == QueueComment(run.outbox, <<events[n], n>>)
                 more == QueueState(said, "In Review")
                 op   == [kind |-> "comment", id |-> Len(run.outbox) + 1,
                          body |-> <<events[n], n>>, done |-> FALSE]
                 move == [kind |-> "state", id |-> 0, body |-> "In Review", done |-> FALSE]
      <3>1. op \in Operation /\ ~op.done /\ op.id = Len(run.outbox) + 1
        <4>1. <<events[n], n>> \in Bodies
          BY <1>2 DEF Bodies
        <4>2. Len(run.outbox) + 1 \in Nat
          BY <1>1
        <4> QED
          BY <4>1, <4>2 DEF Operation
      <3>2. move \in Operation /\ ~move.done /\ move.id = 0
        BY DEF Operation, Bodies
      <3>3. said = Append(run.outbox, op) /\ more = Append(said, move)
        BY DEF QueueComment, QueueState
      <3>4. /\ \A k \in DOMAIN run.outbox : run.outbox[k].id \in {0, k}
            /\ hasIssue => \A k \in DOMAIN run.outbox :
                  run.outbox[k].done /\ run.outbox[k].kind = "comment"
                     => Marked(run.outbox[k].id, comments)
        BY <1>1 DEF RunOK
      <3> HIDE DEF op, move, said, more
      <3>5. /\ said \in Seq(Operation)
            /\ \A k \in DOMAIN said : said[k].id \in {0, k}
            /\ hasIssue => \A k \in DOMAIN said :
                  said[k].done /\ said[k].kind = "comment" => Marked(said[k].id, comments)
        BY <1>1, <3>1, <3>3, <3>4, QueuedOK
      <3>6. /\ more \in Seq(Operation)
            /\ \A k \in DOMAIN more : more[k].id \in {0, k}
            /\ hasIssue => \A k \in DOMAIN more :
                  more[k].done /\ more[k].kind = "comment" => Marked(more[k].id, comments)
        BY <3>2, <3>3, <3>5, QueuedOK
      <3>7. PICK ob \in {said, more} :
               run' = [read |-> n, ended |-> events[n] # "needs_user", outbox |-> ob]
        BY <1>1, <2>2 DEF Reported, Offset, said, more
      <3>8. run' \in Record /\ run'.read = n /\ run'.outbox = ob
        <4>1. ob \in Seq(Operation)
          BY <3>5, <3>6
        <4>2. (events[n] # "needs_user") \in BOOLEAN
          OBVIOUS
        <4> QED
          BY <1>2, <3>7, <4>1, <4>2 DEF Record
      <3> QED
        BY <1>1, <1>2, <3>5, <3>6, <3>8 DEF RunOK
    <2> QED
      BY <2>1, <2>2
  <1> QED
    BY <1>1, <1>3 DEF OutboxInv, CommentOnce

LEMMA JudgedInv ==
    ASSUME OutboxInv, NEW stalled \in BOOLEAN, Judged(stalled)
    PROVE  OutboxInv'
  <1>1. /\ run \in Record /\ run.outbox \in Seq(Operation) /\ RunOK(run, events, comments, hasIssue)
        /\ UNCHANGED <<events, file, hasIssue, comments, unanswered>> /\ job' = "flush"
    BY DEF OutboxInv, RunOK, Record, Judged, hojaVars
  <1>2. RunOK(Stalled(run), events, comments, hasIssue)
    <2> DEFINE op == [kind |-> "comment", id |-> Len(run.outbox) + 1,
                      body |-> <<"stalled", 0>>, done |-> FALSE]
               ob == Append(run.outbox, op)
    <2>1. op \in Operation /\ ~op.done /\ op.id = Len(run.outbox) + 1
      <3>1. <<"stalled", 0>> \in Bodies
        BY DEF Bodies
      <3>2. Len(run.outbox) + 1 \in Nat
        BY <1>1
      <3> QED
        BY <3>1, <3>2 DEF Operation
    <2>2. Stalled(run) = [run EXCEPT !.outbox = ob, !.ended = TRUE]
      BY <1>1 DEF Stalled, QueueComment
    <2>3. /\ \A k \in DOMAIN run.outbox : run.outbox[k].id \in {0, k}
          /\ hasIssue => \A k \in DOMAIN run.outbox :
                run.outbox[k].done /\ run.outbox[k].kind = "comment"
                   => Marked(run.outbox[k].id, comments)
      BY <1>1 DEF RunOK
    <2> HIDE DEF op
    <2>4. /\ ob \in Seq(Operation)
          /\ \A k \in DOMAIN ob : ob[k].id \in {0, k}
          /\ hasIssue => \A k \in DOMAIN ob :
                ob[k].done /\ ob[k].kind = "comment" => Marked(ob[k].id, comments)
      BY <1>1, <2>1, <2>3, QueuedOK
    <2> HIDE DEF ob
    <2>5. /\ Stalled(run) \in Record /\ Stalled(run).outbox = ob
          /\ Stalled(run).read = run.read
      BY <1>1, <2>2, <2>4 DEF Record
    <2> QED
      BY <1>1, <2>4, <2>5 DEF RunOK
  <1>3. RunOK(run', events, comments, hasIssue)
    BY <1>1, <1>2 DEF Judged
  <1> QED
    BY <1>1, <1>3 DEF OutboxInv, CommentOnce

(* What is written to Hoja, in time or late: in time, no comment with this *)
(* marker came in time before.                                             *)
LEMMA WrittenInv ==
    ASSUME OutboxInv, NEW op \in Operation, NEW late \in BOOLEAN, Written(op, late),
           UNCHANGED <<events, file, run, hasIssue>>, unanswered' \in Seq(GivenUpOn),
           job' \in {job, "check"}, job' = "check" => hasIssue /\ Undone(run) # {},
           ~late => job' = "check" /\ (op.kind = "comment" => OnlyLate(op.id, comments))
    PROVE  OutboxInv'
  <1>1. comments \in Seq(Comment) /\ Undone(run)' = Undone(run) /\ Op' = Op
    BY DEF OutboxInv, Undone, Op
  <1>2. job' = "write" => late /\ job = "write"
    OBVIOUS
  <1>3. CASE comments' = comments
    <2>1. CommentOnce'
      BY <1>3 DEF OutboxInv, CommentOnce
    <2> QED
      BY <1>1, <1>2, <1>3, <2>1 DEF OutboxInv
  <1>4. CASE op.kind = "comment"
             /\ comments' = Append(comments, [id |-> op.id, body |-> op.body, late |-> late])
    <2> DEFINE c == [id |-> op.id, body |-> op.body, late |-> late]
    <2>1. c \in Comment /\ c.id = op.id /\ c.late = late
      BY DEF Operation, Comment
    <2>2. /\ comments' \in Seq(Comment) /\ Len(comments') = Len(comments) + 1
          /\ comments'[Len(comments) + 1] = c
          /\ \A k \in DOMAIN comments : k \in DOMAIN comments' /\ comments'[k] = comments[k]
          /\ \A k \in DOMAIN comments' : k \in DOMAIN comments \/ k = Len(comments) + 1
      BY <1>1, <1>4, <2>1
    <2>3. \A id : Marked(id, comments) => Marked(id, comments')
      BY <2>2 DEF Marked
    <2>4. RunOK(file, events, comments, hasIssue)' /\ RunOK(run, events, comments, hasIssue)'
      BY <2>3 DEF OutboxInv, RunOK
    <2> HIDE DEF c
    <2>5. late \/ \A k \in DOMAIN comments : comments[k].id = op.id => comments[k].late
      BY <1>4 DEF OnlyLate
    <2>6. CommentOnce'
      BY <2>1, <2>2, <2>5 DEF OutboxInv, CommentOnce
    <2>7. job' = "write" /\ Op.kind = "comment" => OnlyLate(Op.id, comments')
      BY <1>2, <2>1, <2>2 DEF OutboxInv, OnlyLate
    <2> QED
      BY <1>1, <1>2, <2>2, <2>4, <2>6, <2>7 DEF OutboxInv
  <1> QED
    BY <1>3, <1>4 DEF Written

(* A write whose caller gave up is kept.                                   *)
LEMMA GivenUpKept ==
    ASSUME OutboxInv, job = "write", GivenUp
    PROVE  unanswered' \in Seq(GivenUpOn)
  <1>1. Op \in Operation /\ unanswered \in Seq(GivenUpOn)
    BY OpIs DEF OutboxInv
  <1>2. [op |-> Op, landed |-> FALSE] \in GivenUpOn
    BY <1>1 DEF GivenUpOn
  <1> QED
    BY <1>1, <1>2 DEF GivenUp

LEMMA LandsLateInv ==
    ASSUME OutboxInv, LandsLate
    PROVE  OutboxInv'
  <1>1. PICK k \in DOMAIN unanswered :
           /\ unanswered' = [unanswered EXCEPT ![k].landed = TRUE]
           /\ Written(unanswered[k].op, TRUE) /\ UNCHANGED <<events, file, run, job, hasIssue>>
    BY DEF LandsLate
  <1>2. unanswered \in Seq(GivenUpOn) /\ unanswered[k] \in GivenUpOn
    BY DEF OutboxInv
  <1>3. unanswered[k].op \in Operation /\ [unanswered[k] EXCEPT !.landed = TRUE] \in GivenUpOn
    BY <1>2 DEF GivenUpOn
  <1>4. unanswered' \in Seq(GivenUpOn)
    BY <1>1, <1>2, <1>3
  <1>5. job' = "check" => hasIssue /\ Undone(run) # {}
    BY <1>1 DEF OutboxInv
  <1> QED
    BY <1>1, <1>3, <1>4, <1>5, WrittenInv

LEMMA OutboxStepInv ==
    ASSUME OutboxInv, OutboxNext \/ UNCHANGED outboxVars
    PROVE  OutboxInv'
  <1>1. CASE ReadReport \/ Judged(TRUE) \/ Judged(FALSE)
    BY <1>1, ReadReportInv, JudgedInv
  <1>2. CASE Skip \/ Check
    <2>1. Undone(run) # {} /\ (hasIssue => IsShown(Op))
      BY <1>2 DEF Skip, Check, OutboxInv
    <2>2. RunOK(OpDone, events, comments, hasIssue)
      BY <2>1, OpDoneOK
    <2>3. run' = OpDone /\ job' = "flush" /\ UNCHANGED <<events, file, hasIssue, comments, unanswered>>
      BY <1>2 DEF Skip, Check, hojaVars
    <2> QED
      BY <2>2, <2>3 DEF OutboxInv, CommentOnce
  <1>3. CASE Look
    <2>1. /\ UNCHANGED <<events, file, run, hasIssue, comments, unanswered>> /\ job' = "write"
          /\ Undone(run) # {} /\ hasIssue /\ ~IsShown(Op)
      BY <1>3 DEF Look, hojaVars
    <2>2. Op' = Op /\ Undone(run)' = Undone(run)
      BY <2>1 DEF Op, Undone
    <2>3. Op.kind = "comment" => OnlyLate(Op.id, comments)
      BY <2>1 DEF IsShown, OnlyLate
    <2> QED
      BY <2>1, <2>2, <2>3 DEF OutboxInv, CommentOnce
  <1>4. CASE Write
    <2>1. /\ job = "write" /\ job' = "check" /\ Written(Op, FALSE)
          /\ UNCHANGED <<events, file, run, hasIssue, unanswered>>
      BY <1>4 DEF Write
    <2>2. hasIssue /\ Undone(run) # {} /\ (Op.kind = "comment" => OnlyLate(Op.id, comments))
          /\ unanswered \in Seq(GivenUpOn)
      BY <2>1 DEF OutboxInv
    <2>3. Op \in Operation
      BY <2>2, OpIs
    <2> QED
      BY <2>1, <2>2, <2>3, WrittenInv
  <1>10. CASE AnswerLost
    <2>1. unanswered' \in Seq(GivenUpOn)
      BY <1>10, GivenUpKept DEF AnswerLost
    <2>2. UNCHANGED <<events, file, run, hasIssue, comments>> /\ job' = "save"
      BY <1>10 DEF AnswerLost, Kept
    <2> QED
      BY <2>1, <2>2 DEF OutboxInv, CommentOnce
  <1>11. CASE LandsLate
    BY <1>11, LandsLateInv
  <1>5. CASE Mismatch \/ CallFails \/ Flushed
    <2>1. UNCHANGED <<events, file, run, hasIssue, comments, unanswered>> /\ job' = "save"
      BY <1>5 DEF Mismatch, CallFails, Flushed, Kept, hojaVars
    <2> QED
      BY <2>1 DEF OutboxInv, CommentOnce
  <1>6. CASE SaveRun
    BY <1>6 DEF SaveRun, OutboxInv, CommentOnce, hojaVars
  <1>7. CASE OutboxCrash
    <2>1. unanswered' \in Seq(GivenUpOn)
      BY <1>7, GivenUpKept DEF OutboxCrash, OutboxInv
    <2>2. UNCHANGED <<events, file, hasIssue, comments>> /\ job' = "read" /\ run' = file
      BY <1>7 DEF OutboxCrash
    <2> QED
      BY <2>1, <2>2 DEF OutboxInv, CommentOnce
  <1>8. ASSUME NEW r \in Reports, Report(r) PROVE OutboxInv'
    <2>1. /\ UNCHANGED <<file, run, job, hasIssue, comments, unanswered>>
          /\ events' = Append(events, r) /\ Len(events) < MaxReports /\ events \in Seq(Reports)
      BY <1>8 DEF Report, OutboxInv, hojaVars
    <2>2. events' \in Seq(Reports) /\ Len(events') = Len(events) + 1 /\ Len(events') <= MaxReports
      <3>1. MaxReports \in Nat
        BY OutboxAssumption
      <3> QED
        BY <2>1, <3>1
    <2>3. RunOK(file, events, comments, hasIssue)' /\ RunOK(run, events, comments, hasIssue)'
      <3>1. file.read \in Nat /\ run.read \in Nat
        BY DEF OutboxInv, RunOK, Record
      <3> QED
        BY <2>1, <2>2, <3>1 DEF OutboxInv, RunOK
    <2>4. Op' = Op /\ Undone(run)' = Undone(run)
      BY <2>1 DEF Op, Undone
    <2> QED
      BY <2>1, <2>2, <2>3, <2>4 DEF OutboxInv, CommentOnce
  <1>9. CASE UNCHANGED outboxVars \/ \E to \in {"In Progress", "Done"} : Moves(to)
    <2>1. UNCHANGED <<events, file, run, job, hasIssue, comments, unanswered>>
      BY <1>9 DEF outboxVars, hojaVars, Moves
    <2>2. Op' = Op /\ Undone(run)' = Undone(run)
      BY <2>1 DEF Op, Undone
    <2>3. RunOK(file, events, comments, hasIssue)' /\ RunOK(run, events, comments, hasIssue)'
      BY <2>1 DEF OutboxInv, RunOK
    <2> QED
      BY <2>1, <2>2, <2>3 DEF OutboxInv, CommentOnce
  <1> QED
    BY <1>1, <1>2, <1>3, <1>4, <1>5, <1>6, <1>7, <1>8, <1>9, <1>10, <1>11
       DEF OutboxNext, OutboxStep, HojaFails

-----------------------------------------------------------------------------
(* ClawTick.  The tick as a whole: what one part does is a step of that    *)
(* part, and for the others an item in the inbox at most.                  *)

TickInv ==
    /\ DigestInv /\ TriggersInv /\ OutboxInv
    /\ phase \in {"runs", "digest", "triggers"} /\ inputs \in 0..MaxInputs

LEMMA TriggerItems ==
    ASSUME TriggersNext
    PROVE  OtherItems
  <1>1. CASE LeaveMessage
    <2>1. PICK key : AppendInbox(<<"notify", key>>, {triggers[firing].next})
      BY <1>1 DEF LeaveMessage
    <2>2. <<"notify", key>>[1] # "digest"
      OBVIOUS
    <2> QED
      BY <2>1, <2>2, Appended DEF OtherItems
  <1>2. CASE SayFired
    <2>1. PICK key : AppendInbox(<<"fired", key>>, {triggers[firing].next})
      BY <1>2 DEF SayFired
    <2>2. <<"fired", key>>[1] # "digest"
      OBVIOUS
    <2> QED
      BY <2>1, <2>2, Appended DEF OtherItems
  <1>3. CASE TriggersNext /\ ~LeaveMessage /\ ~SayFired
    <2>1. inbox' = inbox
      BY <1>3
         DEF TriggersNext, TriggerStep, StartFiring, StartRun, SaveTrigger, AllLooked, Pass,
             Fire, StartFails, TriggersCrash, HourPasses, RunExits, Switch, RetryComes
    <2> QED
      BY <2>1 DEF OtherItems
  <1> QED
    BY <1>1, <1>2, <1>3

LEMMA DigestItems ==
    ASSUME DigestNext
    PROVE  inbox \subseteq inbox'
  <1>1. ASSUME NEW owner \in Owners, AppendDigest(owner) PROVE inbox \subseteq inbox'
    BY <1>1, Appended DEF AppendDigest
  <1> QED
    BY <1>1 DEF DigestNext, DigestStep, StartDigest, SaveCursor, DigestCrash, NewNotice

LEMMA TickParts ==
    ASSUME [Next]_vars
    PROVE  /\ DigestNext \/ (UNCHANGED digestVars /\ OtherItems)
           /\ TriggersNext \/ (UNCHANGED triggerVars /\ inbox \subseteq inbox')
           /\ OutboxNext \/ UNCHANGED outboxVars
  <1>1. CASE UNCHANGED vars
    BY <1>1 DEF vars, OtherItems
  <1>2. CASE RunsPhase
    BY <1>2 DEF RunsPhase, OutboxNext, OtherItems
  <1>3. CASE DigestPhase \/ NoMoreNotices
    BY <1>3, DigestItems DEF DigestPhase, NoMoreNotices, DigestNext, OtherItems
  <1>4. CASE TriggersPhase
    <2>1. TriggersNext
      BY <1>4 DEF TriggersPhase, TriggersNext
    <2> QED
      BY <1>4, <2>1, TriggerItems DEF TriggersPhase
  <1>5. CASE RetryTimeComes
    <2>1. TriggersNext
      BY <1>5 DEF RetryTimeComes, TriggersNext
    <2> QED
      BY <1>5, <2>1, TriggerItems DEF RetryTimeComes
  <1>6. CASE Crash
    BY <1>6 DEF Crash, DigestNext, TriggersNext, OutboxNext
  <1>8. CASE HojaCatchesUp
    BY <1>8 DEF HojaCatchesUp, OutboxNext, OtherItems
  <1>7. CASE Input /\ ~Crash
    <2>1. CASE \E owner \in Owners : NewNotice(owner) /\ UNCHANGED <<triggerVars, outboxVars>>
      BY <2>1, DigestItems DEF DigestNext
    <2>2. CASE (HourPasses \/ RunExits \/ Switch \/ StartFails) /\ UNCHANGED <<digestVars, outboxVars>>
      <3>1. TriggersNext
        BY <2>2 DEF TriggersNext
      <3> QED
        BY <2>2, <3>1, TriggerItems
    <2>3. CASE OutboxNext /\ UNCHANGED <<inbox, digestVars, triggerVars>>
      BY <2>3 DEF OtherItems
    <2> QED
      BY <1>7, <2>1, <2>2, <2>3 DEF Input, OutboxNext
  <1> QED
    BY <1>1, <1>2, <1>3, <1>4, <1>5, <1>6, <1>7, <1>8 DEF Next, Tick

LEMMA TickPhases ==
    ASSUME TickInv, [Next]_vars
    PROVE  phase' \in {"runs", "digest", "triggers"} /\ inputs' \in 0..MaxInputs
  <1>1. phase \in {"runs", "digest", "triggers"} /\ inputs \in 0..MaxInputs /\ MaxInputs \in Nat
    BY TickAssumption DEF TickInv
  <1>2. CASE Tick \/ RetryTimeComes \/ HojaCatchesUp \/ UNCHANGED vars
    <2>1. inputs' = inputs
      BY <1>2
         DEF Tick, RunsPhase, DigestPhase, NoMoreNotices, TriggersPhase, RetryTimeComes,
             HojaCatchesUp, tickVars, vars
    <2>2. phase' \in {"runs", "digest", "triggers"}
      BY <1>1, <1>2
         DEF Tick, RunsPhase, DigestPhase, NoMoreNotices, TriggersPhase, RetryTimeComes,
             HojaCatchesUp, tickVars, vars
    <2> QED
      BY <1>1, <2>1, <2>2
  <1>3. CASE Input
    <2>1. inputs < MaxInputs /\ inputs' = inputs + 1
      BY <1>3 DEF Input
    <2>2. phase' = phase \/ phase' = "runs"
      BY <1>3 DEF Input, Crash
    <2> QED
      BY <1>1, <2>1, <2>2
  <1> QED
    BY <1>2, <1>3 DEF Next

LEMMA TickInvariant == Spec => []TickInv
  <1>1. Init => TickInv
    BY DigestInit0, TriggersInit0, OutboxInit0, TickAssumption DEF Init, TickInv
  <1>2. ASSUME TickInv, [Next]_vars PROVE TickInv'
    BY <1>2, TickParts, TickPhases, DigestStepInv, TriggerStepInv, OtherItemsTriggers,
       OutboxStepInv DEF TickInv
  <1> QED
    BY <1>1, <1>2, PTL DEF Spec

(* The daemon's files and its copies of them are what their types say.     *)
THEOREM TickTypeCorrect == Spec => []TypeOK
  <1>1. TickInv => TypeOK
    BY OutboxTyped DEF TickInv, DigestInv, TriggersInv, TypeOK
  <1> QED
    BY <1>1, TickInvariant, PTL

(* No notice is digested and no time fired twice, and of two comments with *)
(* one marker one landed after its write had been given up, however often  *)
(* the daemon dies (flushDigest, fireTriggers, flushOutbox).               *)
THEOREM StepsOnce == Spec => []DoneOnce
  <1>1. TickInv => DoneOnce
    BY DEF TickInv, DigestInv, TriggersInv, OutboxInv, DoneOnce
  <1> QED
    BY <1>1, TickInvariant, PTL

(* What the daemon put behind it was done: the cursor passes no owner      *)
(* without an item, a trigger is given its next time only when it fired,   *)
(* an operation is saved as done only when Hoja has it.                    *)
THEOREM NothingIsSkipped == Spec => NothingSkipped
  <1>1. TickInv => DoneIsMarked
    BY OutboxTyped DEF TickInv
  <1> DEFINE Passes == \A owner \in Owners :
          LET passed == {n \in (cursor + 1)..cursor' : notices[n] = owner}
          IN  passed # {} => \E i \in Digests : Oldest(passed) \in i.about
  <1>2. ASSUME TickInv, [Next]_vars PROVE [Passes]_cursor
    <2> SUFFICES ASSUME cursor' # cursor, NEW o \in Owners, Unread(o, cursor') # {}
                 PROVE  \E i \in Digests : Oldest(Unread(o, cursor')) \in i.about
      BY DEF Unread
    <2>1. DigestNext \/ UNCHANGED cursor
      BY <1>2, TickParts DEF digestVars
    <2> QED
      BY <1>2, <2>1, CursorPasses DEF TickInv
  <1> DEFINE Done == \A t \in Triggers :
          triggers'[t].next # triggers[t].next \/ triggers'[t].enabled # triggers[t].enabled =>
             /\ t \in Spawns => \E r \in runs : r.trigger = t /\ r.time = triggers[t].next
             /\ \E i \in inbox : i.key = <<"fired", FireKey(t)>>
  <1>3. ASSUME TickInv, [Next]_vars PROVE [Done]_triggers
    <2>1. TriggersNext \/ UNCHANGED triggers
      BY <1>3, TickParts DEF triggerVars
    <2> QED
      BY <1>3, <2>1, TriggerPasses DEF TickInv
  <1>4. Spec => NoOwnerSkipped
    BY <1>2, TickInvariant, PTL DEF Spec, NoOwnerSkipped
  <1>5. Spec => PassedIsDone
    BY <1>3, TickInvariant, PTL DEF Spec, PassedIsDone
  <1> QED
    BY <1>1, <1>4, <1>5, TickInvariant, PTL DEF NothingSkipped

-----------------------------------------------------------------------------
(* ClawTick.  What only the death of a daemon brings about.                *)

(* Every notice the cursor passed is in an item, and an item is about such *)
(* notices or about those of an owner of the digest in hand.               *)
ToldSoFar(i) ==
    \/ i.about \subseteq 1..cursor
    \/ upTo # 0 /\ \E o \in Owners : i.about = Unread(o, upTo)

NoticesInv == NoticesTold /\ \A i \in Digests : ToldSoFar(i)

(* The digest that is saved has told every owner of all it had not seen.   *)
LEMMA SavedIsTold ==
    ASSUME DigestInv, NoticesInv, SaveCursor
    PROVE  NoticesInv'
  <1>1. /\ notices \in Seq(Owners) /\ cursor \in 0..Len(notices) /\ upTo = Len(notices)
        /\ UNCHANGED <<notices, inbox>> /\ cursor' = upTo /\ upTo # 0 /\ groups = {}
    BY DEF DigestInv, DigestTypeOK, SaveCursor, AllAppended
  <1>2. Digests' = Digests
    BY <1>1 DEF Digests
  <1>3. ASSUME NEW i \in Digests PROVE i.about \subseteq 1..upTo
    <2>1. ToldSoFar(i)
      BY DEF NoticesInv
    <2> QED
      BY <1>1, <2>1 DEF ToldSoFar, Unread
  <1>4. ASSUME NEW n \in (cursor + 1)..upTo PROVE \E i \in Digests : n \in i.about
    <2> DEFINE o == notices[n]
               U == Unread(o, upTo)
    <2>1. o \in Owners /\ n \in U /\ U \in SUBSET ((cursor + 1)..upTo)
      BY <1>1 DEF Unread
    <2>2. PICK i \in inbox : i.key = DigestKey(U)
      BY <1>1, <2>1 DEF DigestInv, OwnersServed
    <2>3. i \in Digests
      BY <2>2 DEF Digests, DigestKey
    <2>4. ItemOK(i, notices, cursor) /\ ToldSoFar(i)
      BY <2>3 DEF DigestInv, NoticesInv
    <2>5. Oldest(U) \in U
      <3>1. U \in SUBSET Nat /\ U # {}
        BY <1>1, <2>1
      <3> QED
        BY <3>1, OldestIs
    <2>6. Oldest(U) \in i.about
      <3>1. Oldest(i.about) = Oldest(U)
        BY <2>2, <2>4 DEF ItemOK, DigestKey
      <3>2. i.about \in SUBSET Nat /\ i.about # {}
        BY <2>4 DEF ItemOK
      <3> QED
        BY <3>1, <3>2, OldestIs
    <2>7. Oldest(U) \notin 1..cursor /\ notices[Oldest(U)] = o
      BY <1>1, <2>5 DEF Unread
    <2>8. PICK p \in Owners : i.about = Unread(p, upTo)
      BY <2>4, <2>6, <2>7 DEF ToldSoFar
    <2>9. p = o
      BY <2>6, <2>7, <2>8 DEF Unread
    <2> QED
      BY <2>1, <2>3, <2>8, <2>9
  <1>5. ASSUME NEW n \in 1..upTo PROVE \E i \in Digests : n \in i.about
    <2>1. n \in 1..cursor \/ n \in (cursor + 1)..upTo
      BY <1>1
    <2> QED
      BY <1>4, <2>1 DEF NoticesInv, NoticesTold
  <1> QED
    BY <1>1, <1>2, <1>3, <1>5 DEF NoticesInv, NoticesTold, ToldSoFar

(* An item of a digest is about what its owner had not seen.               *)
LEMMA AppendedIsTold ==
    ASSUME DigestInv, NoticesInv, NEW owner \in Owners, AppendDigest(owner)
    PROVE  NoticesInv'
  <1> DEFINE U == Unread(owner, upTo)
  <1>1. /\ UNCHANGED <<notices, cursor, upTo>> /\ AppendInbox(DigestKey(U), U) /\ upTo # 0
    BY DEF DigestInv, DigestTypeOK, GroupsOK, AppendDigest
  <1>2. \A o \in Owners : Unread(o, upTo)' = Unread(o, upTo)
    BY <1>1 DEF Unread
  <1>3. inbox \subseteq inbox' /\ Digests \subseteq Digests'
    BY <1>1 DEF AppendInbox, Digests
  <1>4. \A i \in inbox' : i \in inbox \/ i.about = U
    BY <1>1 DEF AppendInbox
  <1>5. ASSUME NEW i \in Digests' PROVE ToldSoFar(i)'
    <2>1. i \in Digests \/ i.about = U
      BY <1>4, <1>5 DEF Digests
    <2> QED
      BY <1>1, <1>2, <2>1 DEF NoticesInv, ToldSoFar
  <1> QED
    BY <1>1, <1>3, <1>5 DEF NoticesInv, NoticesTold

(* A digest that is dropped is dropped by the daemon's death.              *)
LEMMA DroppedByCrash ==
    ASSUME TickInv, [Next]_vars, DigestCrash, upTo # 0
    PROVE  Crash
  <1>1. upTo # cursor /\ cursor' = cursor /\ upTo' # upTo
    BY DEF TickInv, DigestInv, DigestTypeOK, DigestCrash
  <1>2. ~SaveCursor /\ ~StartDigest /\ \A o \in Owners : ~AppendDigest(o) /\ ~NewNotice(o)
    BY <1>1 DEF SaveCursor, StartDigest, AppendDigest, NewNotice
  <1>3. ~DigestStep
    BY <1>2 DEF DigestStep
  <1>4. ~UNCHANGED digestVars
    BY <1>1 DEF digestVars
  <1>5. ~UNCHANGED vars /\ ~Tick /\ ~RetryTimeComes /\ ~HojaCatchesUp
    BY <1>3, <1>4
       DEF vars, Tick, RunsPhase, DigestPhase, NoMoreNotices, TriggersPhase, RetryTimeComes,
           HojaCatchesUp
  <1>6. Input
    BY <1>5 DEF Next
  <1> QED
    BY <1>2, <1>4, <1>6 DEF Input

LEMMA NoticesPreserved ==
    ASSUME TickInv, NoticesInv, [Next]_vars, Crash => upTo = 0
    PROVE  NoticesInv'
  <1>1. DigestInv /\ (DigestNext \/ (UNCHANGED digestVars /\ OtherItems))
    BY TickParts DEF TickInv
  <1>2. CASE UNCHANGED <<notices, cursor, upTo>> /\ OtherItems
    <2>1. Digests' = Digests
      BY <1>2 DEF Digests, OtherItems
    <2>2. \A o \in Owners : Unread(o, upTo)' = Unread(o, upTo)
      BY <1>2 DEF Unread
    <2> QED
      BY <1>2, <2>1, <2>2 DEF NoticesInv, NoticesTold, ToldSoFar
  <1>3. CASE upTo = 0 /\ UNCHANGED <<cursor, inbox>>
    <2>1. Digests' = Digests
      BY <1>3 DEF Digests
    <2> QED
      BY <1>3, <2>1 DEF NoticesInv, NoticesTold, ToldSoFar
  <1>4. CASE DigestCrash
    BY <1>3, <1>4, DroppedByCrash DEF DigestCrash
  <1>5. CASE StartDigest \/ \E o \in Owners : NewNotice(o)
    BY <1>3, <1>5 DEF StartDigest, NewNotice
  <1>6. CASE SaveCursor
    BY <1>1, <1>6, SavedIsTold
  <1>7. CASE \E o \in Owners : AppendDigest(o)
    BY <1>1, <1>7, AppendedIsTold
  <1> QED
    BY <1>1, <1>2, <1>4, <1>5, <1>6, <1>7 DEF DigestNext, DigestStep, digestVars

(* Every notice the cursor passed is in an item, unless a daemon died with *)
(* a digest begun and not finished (flushDigest).                          *)
THEOREM NoticesReachAll == Spec /\ [][Crash => upTo = 0]_vars => []NoticesTold
  <1> DEFINE Whole == Crash => upTo = 0
  <1>1. Init => NoticesInv
    BY DEF Init, DigestInit, NoticesInv, NoticesTold, Digests
  <1>2. ASSUME TickInv, NoticesInv, [Next]_vars, [Whole]_vars PROVE NoticesInv'
    <2>1. CASE UNCHANGED vars
      BY <1>2, <2>1
         DEF vars, digestVars, NoticesInv, NoticesTold, ToldSoFar, Digests, Unread
    <2>2. CASE Whole
      BY <1>2, <2>2, NoticesPreserved
    <2> QED
      BY <1>2, <2>1, <2>2
  <1> HIDE DEF Whole
  <1>3. Spec /\ [][Whole]_vars => []NoticesInv
    BY <1>1, <1>2, TickInvariant, PTL DEF Spec
  <1>4. NoticesInv => NoticesTold
    BY DEF NoticesInv
  <1>5. Spec /\ [][Whole]_vars => []NoticesTold
    BY <1>3, <1>4, PTL
  <1> QED
    BY <1>5 DEF Whole

(* Comments carry their places; one on the issue, or on its way to it,     *)
(* says what the run's copy has at its place, and what the file has the    *)
(* copy has.                                                               *)
Placed(ob) == \A k \in DOMAIN ob : ob[k].kind = "comment" => ob[k].id = k

CommentsAgree(ob, cs) ==
    \A j \in DOMAIN cs :
        /\ cs[j].id \in DOMAIN ob /\ ob[cs[j].id].kind = "comment"
        /\ ob[cs[j].id].body = cs[j].body

UnansweredAgree(ob, us) ==
    \A j \in DOMAIN us :
        us[j].op.kind = "comment" =>
            /\ us[j].op.id \in DOMAIN ob /\ ob[us[j].op.id].kind = "comment"
            /\ ob[us[j].op.id].body = us[j].op.body

SameOps(f, g) ==
    \A k \in DOMAIN f :
        k \in DOMAIN g /\ g[k].kind = f[k].kind /\ g[k].id = f[k].id /\ g[k].body = f[k].body

PostedInv ==
    /\ Placed(run.outbox) /\ CommentsAgree(run.outbox, comments)
    /\ UnansweredAgree(run.outbox, unanswered)
    /\ SameOps(file.outbox, run.outbox)

(* A copy that keeps what it has, done or not, keeps the agreement.        *)
LEMMA SameOpsAgree ==
    ASSUME PostedInv, SameOps(run.outbox, run'.outbox), Placed(run'.outbox),
           UNCHANGED <<file, comments, unanswered>>
    PROVE  PostedInv'
  <1>1. CommentsAgree(run'.outbox, comments) /\ UnansweredAgree(run'.outbox, unanswered)
    BY DEF PostedInv, SameOps, CommentsAgree, UnansweredAgree
  <1>2. SameOps(file.outbox, run'.outbox)
    BY DEF PostedInv, SameOps
  <1> QED
    BY <1>1, <1>2 DEF PostedInv

LEMMA SameOpsAgain ==
    ASSUME NEW f, NEW g, NEW h, SameOps(f, g), SameOps(g, h)
    PROVE  SameOps(f, h)
  BY DEF SameOps

(* What is queued leaves what was there.                                   *)
LEMMA QueuedLast ==
    ASSUME NEW ob \in Seq(Operation), Placed(ob), NEW op \in Operation,
           op.kind = "comment" => op.id = Len(ob) + 1
    PROVE  /\ SameOps(ob, Append(ob, op)) /\ Placed(Append(ob, op))
           /\ Append(ob, op) \in Seq(Operation)
  <1> DEFINE q == Append(ob, op)
  <1>1. /\ q \in Seq(Operation) /\ q[Len(ob) + 1] = op
        /\ \A k \in DOMAIN ob : k \in DOMAIN q /\ q[k] = ob[k]
        /\ \A k \in DOMAIN q : k \in DOMAIN ob \/ k = Len(ob) + 1
    OBVIOUS
  <1> HIDE DEF q
  <1>2. SameOps(ob, q) /\ Placed(q)
    BY <1>1 DEF SameOps, Placed
  <1> QED
    BY <1>1, <1>2 DEF q

LEMMA ReadKeepsOps ==
    ASSUME OutboxInv, PostedInv, ReadReport
    PROVE  PostedInv'
  <1> DEFINE n == run.read + 1
  <1>1. /\ run \in Record /\ run.outbox \in Seq(Operation) /\ events \in Seq(Reports)
        /\ run' = Reported(run, n) /\ n \in 1..Len(events) /\ n \in Nat
        /\ UNCHANGED <<file, comments, unanswered>> /\ Placed(run.outbox)
    BY DEF OutboxInv, RunOK, Record, ReadReport, PostedInv, hojaVars
  <1> DEFINE op   == [kind |-> "comment", id |-> Len(run.outbox) + 1,
                      body |-> <<events[n], n>>, done |-> FALSE]
             said == Append(run.outbox, op)
             move == [kind |-> "state", id |-> 0, body |-> "In Review", done |-> FALSE]
             more == Append(said, move)
  <1>2. op \in Operation /\ op.kind = "comment" /\ op.id = Len(run.outbox) + 1
    <2>1. <<events[n], n>> \in Bodies
      <3>1. events[n] \in Reports
        BY <1>1
      <3> QED
        BY <1>1, <3>1 DEF Bodies
    <2>2. Len(run.outbox) + 1 \in Nat
      BY <1>1
    <2> QED
      BY <2>1, <2>2 DEF Operation
  <1>3. move \in Operation /\ move.kind = "state"
    BY DEF Operation, Bodies
  <1>4. CASE run.ended
    <2>1. run' = [run EXCEPT !.read = n]
      BY <1>1, <1>4 DEF Reported, Offset
    <2>2. run'.outbox = run.outbox
      BY <1>1, <2>1 DEF Record
    <2>3. SameOps(run.outbox, run'.outbox)
      BY <2>2 DEF SameOps
    <2> QED
      BY <1>1, <2>2, <2>3, SameOpsAgree
  <1>5. CASE ~run.ended
    <2>1. run'.outbox \in {said, more}
      BY <1>1, <1>5 DEF Reported, QueueComment, QueueState
    <2> HIDE DEF op, move
    <2>2. SameOps(run.outbox, said) /\ Placed(said) /\ said \in Seq(Operation)
      BY <1>1, <1>2, QueuedLast
    <2> HIDE DEF said
    <2>3. SameOps(said, more) /\ Placed(more)
      <3>1. move.kind = "comment" => move.id = Len(said) + 1
        BY <1>3
      <3> QED
        BY <1>3, <2>2, <3>1, QueuedLast
    <2>4. SameOps(run.outbox, more)
      BY <2>2, <2>3, SameOpsAgain
    <2> HIDE DEF more
    <2>5. SameOps(run.outbox, run'.outbox) /\ Placed(run'.outbox)
      BY <2>1, <2>2, <2>3, <2>4
    <2> QED
      BY <1>1, <2>5, SameOpsAgree
  <1> QED
    BY <1>4, <1>5

LEMMA JudgedKeepsOps ==
    ASSUME OutboxInv, PostedInv, NEW stalled \in BOOLEAN, Judged(stalled)
    PROVE  PostedInv'
  <1>1. /\ run \in Record /\ run.outbox \in Seq(Operation) /\ Placed(run.outbox)
        /\ UNCHANGED <<file, comments, unanswered>> /\ run' = IF stalled THEN Stalled(run) ELSE run
    BY DEF OutboxInv, RunOK, Record, Judged, PostedInv, hojaVars
  <1> DEFINE op == [kind |-> "comment", id |-> Len(run.outbox) + 1,
                    body |-> <<"stalled", 0>>, done |-> FALSE]
             ob == Append(run.outbox, op)
  <1>2. op \in Operation /\ op.kind = "comment" /\ op.id = Len(run.outbox) + 1
    <2>1. <<"stalled", 0>> \in Bodies
      BY DEF Bodies
    <2>2. Len(run.outbox) + 1 \in Nat
      BY <1>1
    <2> QED
      BY <2>1, <2>2 DEF Operation
  <1>3. Stalled(run).outbox = ob
    BY <1>1 DEF Stalled, QueueComment, Record
  <1> HIDE DEF op
  <1>4. SameOps(run.outbox, ob) /\ Placed(ob)
    BY <1>1, <1>2, QueuedLast
  <1> HIDE DEF ob
  <1>5. SameOps(run.outbox, run.outbox)
    BY DEF SameOps
  <1>6. SameOps(run.outbox, run'.outbox) /\ Placed(run'.outbox)
    BY <1>1, <1>3, <1>4, <1>5
  <1> QED
    BY <1>1, <1>6, SameOpsAgree

LEMMA DoneKeepsOps ==
    ASSUME OutboxInv, PostedInv, Undone(run) # {}, run' = OpDone, UNCHANGED <<file, comments, unanswered>>
    PROVE  PostedInv'
  <1>1. PICK k \in DOMAIN run.outbox :
              Op \in Operation /\ Op = run.outbox[k]
              /\ OpDone = [run EXCEPT !.outbox[k].done = TRUE]
    BY OpIs
  <1>2. run \in Record /\ run.outbox \in Seq(Operation) /\ Placed(run.outbox)
    BY DEF OutboxInv, RunOK, Record, PostedInv
  <1> DEFINE ob == [run.outbox EXCEPT ![k] = [run.outbox[k] EXCEPT !.done = TRUE]]
  <1>3. run'.outbox = ob
    BY <1>1, <1>2 DEF Record
  <1>4. ASSUME NEW j \in DOMAIN run.outbox
        PROVE  /\ j \in DOMAIN ob /\ ob[j].kind = run.outbox[j].kind
               /\ ob[j].id = run.outbox[j].id /\ ob[j].body = run.outbox[j].body
    BY <1>1, <1>2 DEF Operation
  <1>5. DOMAIN ob = DOMAIN run.outbox
    OBVIOUS
  <1> HIDE DEF ob
  <1>6. SameOps(run.outbox, ob) /\ Placed(ob)
    BY <1>2, <1>4, <1>5 DEF SameOps, Placed
  <1> QED
    BY <1>3, <1>6, SameOpsAgree

(* A write that takes effect, in time or late, says what is queued.        *)
LEMMA WrittenAgrees ==
    ASSUME OutboxInv, PostedInv, NEW op \in Operation, NEW late \in BOOLEAN, Written(op, late),
           op.kind = "comment" =>
               /\ op.id \in DOMAIN run.outbox /\ run.outbox[op.id].kind = "comment"
               /\ run.outbox[op.id].body = op.body
    PROVE  CommentsAgree(run.outbox, comments')
  <1>1. comments \in Seq(Comment) /\ CommentsAgree(run.outbox, comments)
    BY DEF OutboxInv, PostedInv
  <1>2. CASE op.kind = "comment"
             /\ comments' = Append(comments, [id |-> op.id, body |-> op.body, late |-> late])
    <2> DEFINE c == [id |-> op.id, body |-> op.body, late |-> late]
    <2>1. c.id = op.id /\ c.body = op.body /\ c \in Comment
      BY DEF Operation, Comment
    <2> HIDE DEF c
    <2>2. comments' = Append(comments, c)
      BY <1>2 DEF c
    <2>3. \A j \in DOMAIN comments' :
             comments'[j] = c \/ (j \in DOMAIN comments /\ comments'[j] = comments[j])
      BY <1>1, <2>1, <2>2
    <2> QED
      BY <1>1, <1>2, <2>1, <2>3 DEF CommentsAgree
  <1> QED
    BY <1>1, <1>2 DEF Written

(* The operation a flush is at is one of the outbox, at its place.         *)
LEMMA OpAgrees ==
    ASSUME OutboxInv, PostedInv, Undone(run) # {}
    PROVE  /\ Op \in Operation
           /\ Op.kind = "comment" =>
                 /\ Op.id \in DOMAIN run.outbox /\ run.outbox[Op.id].kind = "comment"
                 /\ run.outbox[Op.id].body = Op.body
  <1>1. PICK k \in DOMAIN run.outbox : Op = run.outbox[k] /\ Op \in Operation
    BY OpIs
  <1>2. Op.kind = "comment" => Op.id = k
    BY <1>1 DEF PostedInv, Placed
  <1> QED
    BY <1>1, <1>2

LEMMA GivenUpAgrees ==
    ASSUME OutboxInv, PostedInv, Undone(run) # {}, GivenUp
    PROVE  UnansweredAgree(run.outbox, unanswered')
  <1> DEFINE u == [op |-> Op, landed |-> FALSE]
  <1>1. unanswered \in Seq(GivenUpOn) /\ unanswered' = Append(unanswered, u)
    BY DEF OutboxInv, GivenUp
  <1>2. u \in GivenUpOn /\ u.op = Op
    BY OpAgrees DEF GivenUpOn
  <1> HIDE DEF u
  <1>3. \A j \in DOMAIN unanswered' :
           unanswered'[j] = u \/ (j \in DOMAIN unanswered /\ unanswered'[j] = unanswered[j])
    BY <1>1, <1>2
  <1> QED
    BY <1>2, <1>3, OpAgrees DEF PostedInv, UnansweredAgree

LEMMA LandsLateAgrees ==
    ASSUME OutboxInv, PostedInv, LandsLate
    PROVE  PostedInv'
  <1>1. PICK k \in DOMAIN unanswered :
           /\ unanswered' = [unanswered EXCEPT ![k].landed = TRUE]
           /\ Written(unanswered[k].op, TRUE) /\ UNCHANGED <<file, run>>
    BY DEF LandsLate
  <1>2. /\ unanswered \in Seq(GivenUpOn) /\ unanswered[k].op \in Operation
        /\ UnansweredAgree(run.outbox, unanswered)
    <2>1. unanswered \in Seq(GivenUpOn)
      BY DEF OutboxInv
    <2>2. unanswered[k] \in GivenUpOn
      BY <2>1
    <2> QED
      BY <2>1, <2>2 DEF PostedInv, GivenUpOn
  <1>3. CommentsAgree(run.outbox, comments')
    BY <1>1, <1>2, WrittenAgrees DEF UnansweredAgree
  <1>4. \A j \in DOMAIN unanswered' : j \in DOMAIN unanswered /\ unanswered'[j].op = unanswered[j].op
    <2>1. \A j \in DOMAIN unanswered : unanswered[j] \in GivenUpOn
      BY <1>2
    <2> QED
      BY <1>1, <2>1 DEF GivenUpOn
  <1>5. UnansweredAgree(run.outbox, unanswered')
    BY <1>2, <1>4 DEF UnansweredAgree
  <1> QED
    BY <1>1, <1>3, <1>5 DEF PostedInv

LEMMA OutboxSteps ==
    ASSUME [Next]_vars, ~Crash
    PROVE  \/ OutboxStep \/ HojaFails \/ LandsLate \/ UNCHANGED outboxVars
           \/ \E r \in Reports : Report(r)
           \/ \E to \in {"In Progress", "Done"} : Moves(to)
  <1>1. CASE Tick \/ RetryTimeComes \/ HojaCatchesUp \/ UNCHANGED vars
    BY <1>1
       DEF Tick, RunsPhase, DigestPhase, NoMoreNotices, TriggersPhase, RetryTimeComes,
           HojaCatchesUp, vars
  <1>2. CASE Input
    BY <1>2 DEF Input
  <1> QED
    BY <1>1, <1>2 DEF Next

LEMMA PostedPreserved ==
    ASSUME OutboxInv, PostedInv, [Next]_vars, Crash => run = file
    PROVE  PostedInv'
  <1>1. CASE UNCHANGED <<file, run, comments, unanswered>>
    BY <1>1 DEF PostedInv
  <1>2. CASE Crash
    <2>1. run' = run /\ UNCHANGED <<file, comments>>
      BY <1>2 DEF Crash, OutboxCrash
    <2>2. UnansweredAgree(run.outbox, unanswered')
      BY <1>2, GivenUpAgrees DEF Crash, OutboxCrash, OutboxInv, PostedInv
    <2> QED
      BY <2>1, <2>2 DEF PostedInv
  <1>3. CASE ReadReport
    BY <1>3, ReadKeepsOps
  <1>4. CASE Judged(TRUE) \/ Judged(FALSE)
    BY <1>4, JudgedKeepsOps
  <1>5. CASE Skip \/ Check
    <2>1. Undone(run) # {} /\ run' = OpDone /\ UNCHANGED <<file, comments, unanswered>>
      BY <1>5 DEF Skip, Check, OutboxInv, hojaVars
    <2> QED
      BY <2>1, DoneKeepsOps
  <1>6. CASE Write
    <2>1. Undone(run) # {} /\ Written(Op, FALSE) /\ UNCHANGED <<file, run, unanswered>>
      BY <1>6 DEF Write, OutboxInv
    <2>2. CommentsAgree(run.outbox, comments')
      BY <2>1, OpAgrees, WrittenAgrees
    <2> QED
      BY <2>1, <2>2 DEF PostedInv
  <1>11. CASE AnswerLost
    <2>1. Undone(run) # {} /\ GivenUp /\ UNCHANGED <<file, run, comments>>
      BY <1>11 DEF AnswerLost, Kept, OutboxInv
    <2> QED
      BY <2>1, GivenUpAgrees DEF PostedInv
  <1>12. CASE LandsLate
    BY <1>12, LandsLateAgrees
  <1>7. CASE Look \/ Mismatch \/ CallFails \/ Flushed
    BY <1>1, <1>7 DEF Look, Mismatch, CallFails, Flushed, Kept, hojaVars
  <1>8. CASE SaveRun
    BY <1>8 DEF SaveRun, PostedInv, SameOps, hojaVars
  <1>9. CASE (\E r \in Reports : Report(r)) \/ (\E to \in {"In Progress", "Done"} : Moves(to))
    BY <1>1, <1>9 DEF Report, Moves, hojaVars
  <1>10. CASE UNCHANGED outboxVars
    BY <1>1, <1>10 DEF outboxVars, hojaVars
  <1> QED
    BY <1>2, <1>3, <1>4, <1>5, <1>6, <1>7, <1>8, <1>9, <1>10, <1>11, <1>12, OutboxSteps
       DEF OutboxStep, HojaFails

(* A comment saved as made is on the issue as it was queued, unless a      *)
(* daemon died between queueing a comment and saving it (flushOutbox).     *)
THEOREM PostedAsQueued == Spec /\ [][Crash => run = file]_vars => []DoneIsPosted
  <1> DEFINE Saved == Crash => run = file
  <1>1. ASSUME Init PROVE PostedInv
    <2>1. comments = <<>> /\ file.outbox = <<>> /\ run.outbox = <<>> /\ unanswered = <<>>
      BY <1>1 DEF Init, OutboxInit
    <2>2. DOMAIN comments = {} /\ DOMAIN file.outbox = {} /\ DOMAIN run.outbox = {}
          /\ DOMAIN unanswered = {}
      BY <2>1
    <2> QED
      BY <2>2 DEF PostedInv, Placed, CommentsAgree, UnansweredAgree, SameOps
  <1>2. ASSUME TickInv, PostedInv, [Next]_vars, [Saved]_vars PROVE PostedInv'
    <2>1. CASE UNCHANGED vars
      BY <1>2, <2>1 DEF vars, outboxVars, hojaVars, PostedInv
    <2>2. CASE Saved
      BY <1>2, <2>2, PostedPreserved DEF TickInv
    <2> QED
      BY <1>2, <2>1, <2>2
  <1> HIDE DEF Saved
  <1>3. Spec /\ [][Saved]_vars => [](TickInv /\ PostedInv)
    BY <1>1, <1>2, TickInvariant, PTL DEF Spec
  <1>4. ASSUME TickInv, PostedInv PROVE DoneIsPosted
    <2> SUFFICES ASSUME hasIssue, NEW k \in DOMAIN file.outbox, file.outbox[k].done,
                        file.outbox[k].kind = "comment"
                 PROVE  \E j \in DOMAIN comments : comments[j].body = file.outbox[k].body
      BY DEF DoneIsPosted
    <2>1. DoneIsMarked
      BY <1>4, OutboxTyped DEF TickInv
    <2>2. PICK j \in DOMAIN comments : comments[j].id = file.outbox[k].id
      BY <2>1 DEF DoneIsMarked
    <2>3. /\ k \in DOMAIN run.outbox /\ run.outbox[k].kind = "comment"
          /\ run.outbox[k].id = file.outbox[k].id /\ run.outbox[k].body = file.outbox[k].body
      BY <1>4 DEF PostedInv, SameOps
    <2>4. run.outbox[k].id = k
      BY <1>4, <2>3 DEF PostedInv, Placed
    <2> QED
      BY <1>4, <2>2, <2>3, <2>4 DEF PostedInv, CommentsAgree
  <1>5. Spec /\ [][Saved]_vars => []DoneIsPosted
    BY <1>3, <1>4, PTL
  <1> QED
    BY <1>5 DEF Saved

(* No comment is made twice when every write that takes effect does so     *)
(* while its caller waits for it, however often the daemon dies            *)
(* (flushOutbox: "skipped if already visible").                            *)
THEOREM CommentsUnrepeated == Spec /\ [][~LandsLate]_vars => []NoCommentTwice
  <1> DEFINE Answered == ~LandsLate
             NoneLate == \A k \in DOMAIN comments : ~comments[k].late
  <1>1. ASSUME Init PROVE NoneLate
    <2>1. comments = <<>>
      BY <1>1 DEF Init, OutboxInit
    <2> QED
      BY <2>1
  <1>2. ASSUME TickInv, NoneLate, [Next]_vars, [Answered]_vars PROVE NoneLate'
    <2>1. CASE UNCHANGED comments
      BY <1>2, <2>1
    <2>2. CASE UNCHANGED vars
      BY <2>1, <2>2 DEF vars, outboxVars, hojaVars
    <2>3. CASE Answered /\ ~Crash /\ ~Write
      BY <1>2, <2>1, <2>3, OutboxSteps
         DEF OutboxStep, HojaFails, ReadReport, Judged, Skip, Look, Check, Mismatch, Flushed,
             SaveRun, CallFails, AnswerLost, Report, Moves, outboxVars, hojaVars
    <2>4. CASE Crash
      BY <2>1, <2>4 DEF Crash, OutboxCrash
    <2>5. CASE Write
      <3>1. comments \in Seq(Comment) /\ Op \in Operation /\ Written(Op, FALSE)
        BY <1>2, <2>5, OpIs DEF TickInv, OutboxInv, Write
      <3> DEFINE c == [id |-> Op.id, body |-> Op.body, late |-> FALSE]
      <3>2. c \in Comment /\ ~c.late
        BY <3>1 DEF Comment, Operation
      <3> HIDE DEF c
      <3>3. CASE comments' = Append(comments, c)
        <4>1. \A j \in DOMAIN comments' :
                 comments'[j] = c \/ (j \in DOMAIN comments /\ comments'[j] = comments[j])
          BY <3>1, <3>2, <3>3
        <4> QED
          BY <1>2, <3>2, <4>1
      <3> QED
        BY <2>1, <3>1, <3>3 DEF Written, c
    <2> QED
      BY <1>2, <2>2, <2>3, <2>4, <2>5
  <1>3. ASSUME TickInv, NoneLate PROVE NoCommentTwice
    BY <1>3 DEF TickInv, OutboxInv, CommentOnce, NoCommentTwice
  <1> HIDE DEF Answered, NoneLate
  <1>4. Spec /\ [][Answered]_vars => [](TickInv /\ NoneLate)
    BY <1>1, <1>2, TickInvariant, PTL DEF Spec
  <1>5. Spec /\ [][Answered]_vars => []NoCommentTwice
    BY <1>3, <1>4, PTL
  <1> QED
    BY <1>5 DEF Answered
=============================================================================
