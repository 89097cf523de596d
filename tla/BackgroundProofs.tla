--------------------------- MODULE BackgroundProofs ---------------------------
(***************************************************************************)
(* Proofs about Background, for every set of commands.                     *)
(***************************************************************************)
EXTENDS Background, TLAPS

(* Type correctness.                                                       *)

LEMMA InitType == Init => TypeOK
  <1> SUFFICES ASSUME Init PROVE TypeOK
    OBVIOUS
  <1>1. /\ running \in BOOLEAN /\ midRun \subseteq Cmds /\ bg \subseteq Cmds
        /\ owned \subseteq Cmds /\ signalled \subseteq Cmds
    BY DEF Init
  <1>2. told \in [Cmds -> Nat]
    BY DEF Init
  <1> QED
    BY <1>1, <1>2 DEF Init, TypeOK

LEMMA EmitType ==
    ASSUME TypeOK, NEW c \in Cmds, EmitDone(c) \/ UNCHANGED <<midRun, told>>
    PROVE  midRun' \subseteq Cmds /\ told' \in [Cmds -> Nat]
  BY DEF TypeOK, EmitDone

LEMMA WithoutType ==
    ASSUME TypeOK, NEW S
    PROVE  Without(S) \in Cmds \cup {"none"}
  BY DEF TypeOK, Without

LEMMA MoveType ==
    ASSUME TypeOK, NEW c \in Cmds, Move(c)
    PROVE  TypeOK'
  <1>1. /\ call' \in [Cmds -> {"none", "waiting", "aborting", "moved", "output", "aborted", "error"}]
        /\ foreground' \in Cmds \cup {"none"}
    BY WithoutType DEF Move, Calls, TypeOK
  <1>2. bg' \subseteq Cmds /\ row' \in [Cmds -> {"none", "front", "back", "ended"}]
    BY DEF Move, MarkBackgrounded, TypeOK
  <1> QED
    BY <1>1, <1>2 DEF Move, TypeOK, agentVars

LEMMA CommandType ==
    ASSUME TypeOK, NEW c \in Cmds, Command(c)
    PROVE  TypeOK'
  <1>1. CASE Start(c)
    BY <1>1 DEF Start, Calls, TypeOK, agentVars
  <1>2. CASE StartFails(c)
    BY <1>2 DEF StartFails, Calls, TypeOK
  <1>3. CASE Idle(c)
    BY <1>3, MoveType DEF Idle
  <1>4. CASE Exits(c)
    BY <1>4 DEF Exits, TypeOK, agentVars
  <1>5. CASE Settle(c)
    <2>1. midRun' \subseteq Cmds /\ told' \in [Cmds -> Nat]
      BY <1>5, EmitType DEF Settle, Notify
    <2>2. foreground' \in Cmds \cup {"none"}
      BY <1>5, WithoutType DEF Settle
    <2>3. rec' \in [Cmds -> {"running", "completed", "failed", "cancelled"}]
      BY <1>5 DEF Settle, Ends, TypeOK
    <2>4. call' \in [Cmds -> {"none", "waiting", "aborting", "moved", "output", "aborted", "error"}]
      BY <1>5 DEF Settle, TypeOK
    <2> QED
      BY <1>5, <2>1, <2>2, <2>3, <2>4 DEF Settle, TypeOK
  <1>6. CASE Cancel(c)
    BY <1>6 DEF Cancel, TypeOK, agentVars
  <1>7. CASE Kill(c)
    BY <1>7 DEF Kill, Exits, TypeOK, agentVars
  <1> QED
    BY <1>1, <1>2, <1>3, <1>4, <1>5, <1>6, <1>7 DEF Command

LEMMA TurnType ==
    ASSUME TypeOK, RequestBackground \/ Abort \/ AgentStarts \/ TurnEnds \/ Reload
    PROVE  TypeOK'
  <1>1. CASE RequestBackground
    BY <1>1, MoveType DEF RequestBackground, Reachable, TypeOK
  <1>2. CASE Abort
    BY <1>2, WithoutType DEF Abort, Waiting, TypeOK, agentVars
  <1>3. CASE AgentStarts
    BY <1>3 DEF AgentStarts, TypeOK
  <1>4. CASE TurnEnds
    BY <1>4 DEF TurnEnds, Tell, TypeOK
  <1>5. CASE Reload
    BY <1>5 DEF Reload, TypeOK, agentVars
  <1> QED
    BY <1>1, <1>2, <1>3, <1>4, <1>5

(* Every reachable state is well typed.                                    *)
THEOREM TypeCorrect == Spec => []TypeOK
  <1>1. ASSUME TypeOK, [Next]_vars PROVE TypeOK'
    <2>1. CASE Next
      BY <1>1, <2>1, CommandType, TurnType DEF Next
    <2>2. CASE UNCHANGED vars
      BY <1>1, <2>2 DEF vars, agentVars, TypeOK
    <2> QED
      BY <1>1, <2>1, <2>2
  <1> QED
    BY InitType, <1>1, PTL DEF Spec

-----------------------------------------------------------------------------
(* The inductive invariant.                                                *)

\* How far a call is agrees with its process and its record.
CallInv(c) ==
    /\ call[c] = "none" <=> child[c] = "none"
    /\ call[c] = "none" => rec[c] = "running"
    /\ call[c] \notin {"none", "waiting", "moved"} => rec[c] # "running"
    /\ child[c] = "settled" => rec[c] # "running" /\ call[c] \notin {"waiting", "aborting"}
    /\ c \in bg <=> call[c] = "moved"

\* A row of this load is there as long as the command, and says where it is.
RowInv(c) ==
    c \in owned =>
        /\ row[c] # "none" /\ child[c] # "none"
        /\ rec[c] = "running" =>
              (row[c] = "front" <=> call[c] = "waiting") /\ (row[c] = "back" <=> call[c] = "moved")

\* Who is owed a notice has one, waiting or given, and nobody else has.
NoticeInv(c) ==
    /\ c \in midRun => told[c] = 0
    /\ c \notin midRun => told[c] \in {0, 1}
    /\ (c \in midRun \/ told[c] = 1) <=>
          call[c] = "error" \/ (call[c] = "moved" /\ child[c] = "settled")

BackgroundInv ==
    /\ TypeOK /\ ReachesACall
    /\ \A c \in Cmds : CallInv(c) /\ RowInv(c) /\ NoticeInv(c)

LEMMA InitInv == Init => BackgroundInv
  BY InitType
     DEF Init, BackgroundInv, ReachesACall, CallInv, RowInv, NoticeInv

LEMMA MoveInv ==
    ASSUME BackgroundInv, NEW c \in Cmds, call[c] = "waiting", Move(c)
    PROVE  BackgroundInv'
  <1> USE DEF BackgroundInv
  <1>1. ReachesACall'
    BY BackgroundAssumption DEF Move, Calls, Without, ReachesACall, TypeOK
  <1>2. ASSUME NEW d \in Cmds PROVE CallInv(d)'
    BY DEF Move, Calls, MarkBackgrounded, CallInv, TypeOK
  <1>3. ASSUME NEW d \in Cmds PROVE RowInv(d)'
    BY DEF Move, Calls, MarkBackgrounded, RowInv, TypeOK
  <1>4. ASSUME NEW d \in Cmds PROVE NoticeInv(d)'
    BY DEF Move, Calls, CallInv, NoticeInv, TypeOK, agentVars
  <1> QED
    BY <1>1, <1>2, <1>3, <1>4, MoveType

LEMMA StartInv ==
    ASSUME BackgroundInv, NEW c \in Cmds, Start(c) \/ StartFails(c)
    PROVE  BackgroundInv'
  <1> USE DEF BackgroundInv
  <1>1. ReachesACall'
    BY BackgroundAssumption DEF Start, StartFails, Calls, ReachesACall, TypeOK
  <1>2. ASSUME NEW d \in Cmds PROVE CallInv(d)'
    BY DEF Start, StartFails, Calls, CallInv, TypeOK
  <1>3. ASSUME NEW d \in Cmds PROVE RowInv(d)'
    BY DEF Start, StartFails, Calls, RowInv, TypeOK
  <1>4. ASSUME NEW d \in Cmds PROVE NoticeInv(d)'
    BY DEF Start, StartFails, Calls, CallInv, NoticeInv, TypeOK, agentVars
  <1> QED
    BY <1>1, <1>2, <1>3, <1>4, CommandType DEF Command

LEMMA ExitsInv ==
    ASSUME BackgroundInv, NEW c \in Cmds, Exits(c)
    PROVE  BackgroundInv'
  <1> USE DEF BackgroundInv
  <1>1. ReachesACall'
    BY DEF Exits, ReachesACall
  <1>2. ASSUME NEW d \in Cmds PROVE CallInv(d)' /\ RowInv(d)' /\ NoticeInv(d)'
    BY DEF Exits, CallInv, RowInv, NoticeInv, TypeOK, agentVars
  <1> QED
    BY <1>1, <1>2, CommandType DEF Command

\* The notice of a command that settles is given or kept once.
LEMMA SettleInv ==
    ASSUME BackgroundInv, NEW c \in Cmds, Settle(c)
    PROVE  BackgroundInv'
  <1> USE DEF BackgroundInv
  <1>1. ReachesACall'
    BY DEF Settle, Without, ReachesACall, TypeOK
  <1>2. ASSUME NEW d \in Cmds PROVE CallInv(d)'
    <2>1. d # c => rec'[d] = rec[d] /\ child'[d] = child[d] /\ call'[d] = call[d]
      BY DEF Settle, TypeOK
    <2>2. /\ child'[c] = "settled" /\ child[c] = "exited" /\ rec'[c] # "running"
          /\ call'[c] = IF call[c] = "waiting" THEN "output"
                        ELSE IF call[c] = "aborting" THEN "aborted" ELSE call[c]
      BY DEF Settle, Ends, TypeOK
    <2> QED
      BY <2>1, <2>2 DEF Settle, CallInv
  <1>3. ASSUME NEW d \in Cmds PROVE RowInv(d)'
    BY DEF Settle, Ends, RowInv, TypeOK
  <1>4. ASSUME NEW d \in Cmds PROVE NoticeInv(d)'
    <2>1. CASE d # c
      <3>1. (d \in midRun' <=> d \in midRun) /\ told'[d] = told[d]
        BY <2>1 DEF Settle, Notify, EmitDone, TypeOK
      <3> QED
        BY <2>1, <3>1 DEF Settle, NoticeInv, TypeOK
    <2>2. CASE d = c /\ c \in bg
      <3>1. call[c] = "moved" /\ call'[c] = "moved" /\ child'[c] = "settled"
        BY <2>2 DEF Settle, CallInv, TypeOK
      <3>2. c \notin midRun /\ told[c] = 0
        BY <3>1 DEF Settle, NoticeInv
      <3>3. \/ c \in midRun' /\ told'[c] = 0
            \/ c \notin midRun' /\ told'[c] = 1
        BY <2>2, <3>2 DEF Settle, Notify, EmitDone, TypeOK
      <3> QED
        BY <2>2, <3>1, <3>3 DEF NoticeInv
    <2>3. CASE d = c /\ c \notin bg
      BY <2>3 DEF Settle, Notify, CallInv, NoticeInv, TypeOK
    <2> QED
      BY <2>1, <2>2, <2>3
  <1> QED
    BY <1>1, <1>2, <1>3, <1>4, CommandType DEF Command

LEMMA CancelInv ==
    ASSUME BackgroundInv, NEW c \in Cmds, Cancel(c)
    PROVE  BackgroundInv'
  <1> USE DEF BackgroundInv
  <1>1. ReachesACall'
    BY DEF Cancel, ReachesACall
  <1>2. ASSUME NEW d \in Cmds PROVE CallInv(d)' /\ RowInv(d)' /\ NoticeInv(d)'
    BY DEF Cancel, CallInv, RowInv, NoticeInv, TypeOK, agentVars
  <1> QED
    BY <1>1, <1>2, CommandType DEF Command

LEMMA AbortInv ==
    ASSUME BackgroundInv, Abort
    PROVE  BackgroundInv'
  <1> USE DEF BackgroundInv
  <1>1. ReachesACall'
    BY DEF Abort, Without, Waiting, ReachesACall, TypeOK
  <1>2. ASSUME NEW d \in Cmds PROVE CallInv(d)'
    BY DEF Abort, Waiting, CallInv, TypeOK
  <1>3. ASSUME NEW d \in Cmds PROVE RowInv(d)' /\ NoticeInv(d)'
    BY DEF Abort, Waiting, RowInv, NoticeInv, TypeOK, agentVars
  <1> QED
    BY <1>1, <1>2, <1>3, TurnType

LEMMA TurnInv ==
    ASSUME BackgroundInv, AgentStarts \/ TurnEnds \/ Reload
    PROVE  BackgroundInv'
  <1> USE DEF BackgroundInv
  <1>1. ReachesACall'
    BY DEF AgentStarts, TurnEnds, Reload, ReachesACall
  <1>2. ASSUME NEW d \in Cmds PROVE CallInv(d)' /\ RowInv(d)'
    BY DEF AgentStarts, TurnEnds, Reload, CallInv, RowInv
  <1>3. ASSUME NEW d \in Cmds PROVE NoticeInv(d)'
    BY DEF AgentStarts, TurnEnds, Reload, Tell, NoticeInv, TypeOK, agentVars
  <1> QED
    BY <1>1, <1>2, <1>3, TurnType

LEMMA NextInv ==
    ASSUME BackgroundInv, [Next]_vars
    PROVE  BackgroundInv'
  <1>1. ASSUME NEW c \in Cmds, Command(c) PROVE BackgroundInv'
    <2>1. Idle(c) => BackgroundInv'
      BY MoveInv DEF Idle, Waiting
    <2> QED
      BY <1>1, <2>1, StartInv, ExitsInv, SettleInv, CancelInv DEF Command, Kill
  <1>2. CASE RequestBackground
    BY <1>2, MoveInv DEF RequestBackground, Reachable, BackgroundInv, ReachesACall, TypeOK
  <1>3. CASE UNCHANGED vars
    BY <1>3 DEF vars, agentVars, BackgroundInv, TypeOK, ReachesACall, CallInv, RowInv, NoticeInv
  <1> QED
    BY <1>1, <1>2, <1>3, AbortInv, TurnInv DEF Next

THEOREM BackgroundInvariant == Spec => []BackgroundInv
  BY InitInv, NextInv, PTL DEF Spec

-----------------------------------------------------------------------------
(* The agent learns of an end in one way, for any number of commands: from *)
(* the call, or from one notice.                                           *)
THEOREM OneWay == Spec => []ToldOneWay
  <1>1. ASSUME BackgroundInv PROVE ToldOneWay
    <2> SUFFICES ASSUME NEW c \in Cmds
                 PROVE  /\ told[c] + (IF c \in midRun THEN 1 ELSE 0) <= 1
                        /\ call[c] \notin {"moved", "error"} =>
                              told[c] + (IF c \in midRun THEN 1 ELSE 0) = 0
      BY DEF ToldOneWay
    <2>1. NoticeInv(c)
      BY <1>1 DEF BackgroundInv
    <2>2. CASE c \in midRun
      BY <2>1, <2>2 DEF NoticeInv
    <2>3. CASE c \notin midRun
      BY <2>1, <2>3 DEF NoticeInv
    <2> QED
      BY <2>2, <2>3
  <1> QED
    BY <1>1, BackgroundInvariant, PTL

(* Ctrl+B reaches a call that is waited for, or none.                      *)
THEOREM ReachesOne == Spec => []ReachesACall
  <1>1. BackgroundInv => ReachesACall
    BY DEF BackgroundInv
  <1> QED
    BY <1>1, BackgroundInvariant, PTL

(* A running command is shown in one place.                                *)
THEOREM ShownOnce == Spec => []OneIndicator
  <1>1. BackgroundInv => OneIndicator
    BY DEF BackgroundInv, OneIndicator, RowInv, TypeOK
  <1> QED
    BY <1>1, BackgroundInvariant, PTL

(* What was cancelled is not reported as completed or failed.              *)
THEOREM CancelStays == Spec => CancelledStays
  <1>1. ASSUME BackgroundInv, [Next]_vars
        PROVE  [\A c \in Cmds : rec[c] = "cancelled" => rec'[c] = "cancelled"]_rec
    <2> SUFFICES ASSUME Next, NEW d \in Cmds, rec[d] = "cancelled"
                 PROVE  rec'[d] = "cancelled"
      BY <1>1 DEF vars
    <2>1. ASSUME NEW c \in Cmds, Command(c) PROVE rec'[d] = "cancelled"
      <3>1. StartFails(c) => c # d
        BY <1>1 DEF StartFails, BackgroundInv, CallInv
      <3>2. Settle(c) => rec'[d] = "cancelled"
        BY <1>1 DEF Settle, Ends, BackgroundInv, TypeOK
      <3> QED
        BY <1>1, <2>1, <3>1, <3>2
           DEF Command, Start, StartFails, Idle, Move, Exits, Cancel, Kill, BackgroundInv, TypeOK
    <2>2. CASE Abort
      BY <1>1, <2>2 DEF Abort, BackgroundInv, TypeOK
    <2> QED
      BY <2>1, <2>2 DEF Next, RequestBackground, Move, AgentStarts, TurnEnds, Reload
  <1> QED
    BY <1>1, BackgroundInvariant, PTL DEF Spec, CancelledStays
===============================================================================
