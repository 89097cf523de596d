--------------------------- MODULE ClawInboxProofs ---------------------------
(***************************************************************************)
(* Proofs about ClawInbox, for every set of sessions and every bound.      *)
(***************************************************************************)
EXTENDS ClawInbox, TLAPS

Addresses == Sessions \cup {Everyone}

-----------------------------------------------------------------------------
(* Type correctness.  Each lemma is about the actions that move one group  *)
(* of variables; what an action writes to a cursor is a cursor.            *)

LEMMA WriteType ==
    ASSUME TypeOK, NEW s \in Sessions, NEW c \in Cursor, Write(s, c)
    PROVE  cursor' \in [Sessions -> Cursor]
  BY DEF TypeOK, Write

LEMMA GotoType ==
    ASSUME TypeOK, NEW s \in Sessions, NEW p \in Step, Goto(s, p)
    PROVE  step' \in [Sessions -> Step]
  BY DEF TypeOK, Goto

LEMMA StepNames ==
    {"idle", "claim", "register", "migrate", "read", "send"} \subseteq Step
  BY DEF Step

LEMMA InitType == Init => TypeOK
  <1> SUFFICES ASSUME Init PROVE TypeOK
    OBVIOUS
  <1>1. inbox \in Seq(Sessions \cup {Everyone})
    BY InboxAssumption DEF Init
  <1>2. cursor \in [Sessions -> Cursor]
    BY DEF Init, Cursor, NoCursor
  <1>3. queue \in [Sessions -> Seq(Wake)]
    BY DEF Init
  <1> QED
    BY <1>1, <1>2, <1>3, StepNames DEF Init, TypeOK

LEMMA AppendType == TypeOK /\ AppendInbox => TypeOK'
  <1> SUFFICES ASSUME TypeOK, AppendInbox PROVE TypeOK'
    OBVIOUS
  <1>1. inbox' \in Seq(Sessions \cup {Everyone})
    BY DEF AppendInbox, TypeOK
  <1> QED
    BY <1>1 DEF AppendInbox, TypeOK, piVars

LEMMA RegisterType ==
    ASSUME TypeOK, NEW s \in Sessions, RegisterStep(s)
    PROVE  TypeOK'
  <1>1. CASE Register(s)
    BY <1>1, GotoType, StepNames
       DEF Register, TypeOK, diskVars, piVars
  <1>2. CASE ClaimLegacy(s)
    BY <1>2, GotoType, StepNames DEF ClaimLegacy, TypeOK, piVars
  <1>3. CASE RegisterNew(s)
    <2>1. Len(inbox) \in Nat
      BY DEF TypeOK
    <2>2. [NoCursor EXCEPT !.known = TRUE, !.offset = Len(inbox)] \in Cursor
      BY <2>1 DEF NoCursor, Cursor
    <2>3. from' \in [Sessions -> Nat]
      BY <1>3, <2>1 DEF RegisterNew, TypeOK
    <2> QED
      BY <1>3, <2>2, <2>3, GotoType, WriteType, StepNames
         DEF RegisterNew, TypeOK, piVars
  <1>4. CASE RegisterHeir(s)
    <2>1. PICK batch \in {{}, 1..LegacyItems}, here \in BOOLEAN, young \in BOOLEAN :
             Write(s, [known |-> TRUE, offset |-> 0, inflight |-> batch,
                       end |-> LegacyItems, sentHere |-> here, fresh |-> young])
      BY <1>4 DEF RegisterHeir
    <2>2. [known |-> TRUE, offset |-> 0, inflight |-> batch, end |-> LegacyItems,
           sentHere |-> here, fresh |-> young] \in Cursor
      BY InboxAssumption DEF Cursor
    <2> QED
      BY <1>4, <2>1, <2>2, WriteType DEF RegisterHeir, TypeOK, piVars
  <1>5. CASE MarkMigrated(s)
    BY <1>5, GotoType, StepNames DEF MarkMigrated, TypeOK, piVars
  <1> QED
    BY <1>1, <1>2, <1>3, <1>4, <1>5 DEF RegisterStep

LEMMA PumpType ==
    ASSUME TypeOK, NEW s \in Sessions, PumpStep(s)
    PROVE  TypeOK'
  <1>0. /\ Len(inbox) \in Nat
        /\ cursor[s] \in Cursor
        /\ PendingItems(s) \subseteq Nat
    BY DEF TypeOK, PendingItems, Unread, Cursor
  <1>1. CASE PumpAck(s)
    <2>1. [cursor[s] EXCEPT !.offset = cursor[s].end, !.inflight = {}] \in Cursor
      BY <1>0 DEF Cursor
    <2>2. cursor' \in [Sessions -> Cursor]
      BY <1>1, <2>1, WriteType DEF PumpAck, TypeOK
    <2> QED
      BY <1>1, <2>2, GotoType, StepNames DEF PumpAck, TypeOK, piVars
  <1>2. CASE PumpIdle(s)
    BY <1>2, GotoType, StepNames DEF PumpIdle, TypeOK, diskVars, piVars
  <1>3. CASE PumpSkip(s)
    <2>1. [cursor[s] EXCEPT !.offset = Len(inbox), !.inflight = {}] \in Cursor
      BY <1>0 DEF Cursor
    <2> QED
      BY <1>3, <2>1, WriteType, GotoType, StepNames DEF PumpSkip, TypeOK, piVars
  <1>4. CASE PumpMark(s)
    <2>1. [cursor[s] EXCEPT !.inflight = PendingItems(s), !.end = Len(inbox),
                            !.sentHere = TRUE, !.fresh = TRUE] \in Cursor
      BY <1>0 DEF Cursor
    <2> QED
      BY <1>4, <2>1, WriteType, GotoType, StepNames DEF PumpMark, TypeOK, piVars
  <1>5. CASE PumpSend(s)
    <2>1. [ids |-> cursor[s].inflight, old |-> FALSE] \in Wake
      BY <1>0 DEF Wake, Cursor
    <2>2. queue' \in [Sessions -> Seq(Wake)]
      BY <1>5, <2>1 DEF PumpSend, TypeOK
    <2> QED
      BY <1>5, <2>2, GotoType, StepNames DEF PumpSend, TypeOK, diskVars
  <1>6. CASE PumpRefused(s)
    <2>1. AfterRefusal(cursor[s]) \in Cursor
      BY <1>0 DEF AfterRefusal, Cursor
    <2> QED
      BY <1>6, <2>1, WriteType, GotoType, StepNames
         DEF PumpRefused, TypeOK, piVars
  <1> QED
    BY <1>1, <1>2, <1>3, <1>4, <1>5, <1>6 DEF PumpStep, PumpRead

LEMMA PiType ==
    ASSUME TypeOK, NEW s \in Sessions, PiStep(s) \/ Overdue(s)
    PROVE  TypeOK'
  <1>0. queue[s] \in Seq(Wake) /\ cursor[s] \in Cursor
    BY DEF TypeOK
  <1>1. CASE Persist(s)
    <2>1. Head(queue[s]).ids \subseteq Nat /\ Tail(queue[s]) \in Seq(Wake)
      <3>1. Head(queue[s]) \in Wake
        BY <1>0, <1>1 DEF Persist
      <3> QED
        BY <1>0, <1>1, <3>1 DEF Persist, Wake
    <2>2. /\ queue' \in [Sessions -> Seq(Wake)]
          /\ branch' \in [Sessions -> SUBSET Nat]
          /\ ever' \in [Sessions -> SUBSET Nat]
      BY <1>1, <2>1 DEF Persist, TypeOK
    <2> QED
      BY <1>1, <2>2 DEF Persist, TypeOK, diskVars
  <1>2. CASE WakeLost(s)
    <2>1. queue' \in [Sessions -> Seq(Wake)]
      BY <1>0, <1>2 DEF WakeLost, TypeOK
    <2> QED
      BY <1>2, <2>1 DEF WakeLost, TypeOK, diskVars
  <1>3. CASE Navigate(s)
    BY <1>3 DEF Navigate, TypeOK, diskVars
  <1>4. CASE Close(s)
    <2>1. queue' \in [Sessions -> Seq(Wake)]
      BY <1>4 DEF Close, TypeOK
    <2> QED
      BY <1>4, <2>1, GotoType, StepNames DEF Close, TypeOK, diskVars
  <1>5. CASE Open(s)
    <2>1. PICK same \in BOOLEAN : Write(s, [cursor[s] EXCEPT !.sentHere = @ /\ same])
      BY <1>5 DEF Open
    <2>2. [cursor[s] EXCEPT !.sentHere = @ /\ same] \in Cursor
      BY <1>0 DEF Cursor
    <2> QED
      BY <1>5, <2>1, <2>2, WriteType DEF Open, TypeOK
  <1>6. CASE Overdue(s)
    <2>1. [cursor[s] EXCEPT !.fresh = FALSE] \in Cursor
      BY <1>0 DEF Cursor
    <2>2. [k \in DOMAIN queue[s] |-> [queue[s][k] EXCEPT !.old = TRUE]] \in Seq(Wake)
      <3>1. ASSUME NEW k \in DOMAIN queue[s]
            PROVE  [queue[s][k] EXCEPT !.old = TRUE] \in Wake
        <4>1. queue[s][k] \in Wake
          BY <1>0
        <4> QED
          BY <4>1 DEF Wake
      <3>2. DOMAIN queue[s] = 1..Len(queue[s]) /\ Len(queue[s]) \in Nat
        BY <1>0
      <3> QED
        BY <3>1, <3>2
    <2>3. queue' \in [Sessions -> Seq(Wake)]
      BY <1>6, <2>2 DEF Overdue, TypeOK
    <2> QED
      BY <1>6, <2>1, <2>3, WriteType DEF Overdue, TypeOK
  <1> QED
    BY <1>1, <1>2, <1>3, <1>4, <1>5, <1>6 DEF PiStep

LEMMA TypeStep == TypeOK /\ [Next]_vars => TypeOK'
  <1> SUFFICES ASSUME TypeOK, [Next]_vars PROVE TypeOK'
    OBVIOUS
  <1>1. CASE AppendInbox
    BY <1>1, AppendType
  <1>2. ASSUME NEW s \in Sessions,
               RegisterStep(s) \/ PumpStep(s) \/ PiStep(s) \/ Overdue(s)
        PROVE  TypeOK'
    BY <1>2, RegisterType, PumpType, PiType
  <1>3. CASE LegacyOwnerDies
    BY <1>3 DEF LegacyOwnerDies, TypeOK, piVars
  <1>4. CASE UNCHANGED vars
    BY <1>4 DEF TypeOK, vars, diskVars, piVars
  <1> QED
    BY <1>1, <1>2, <1>3, <1>4 DEF Next

(* Every reachable state has the types the store, Pi and the pump give it. *)
THEOREM TypeCorrect == Spec => []TypeOK
  BY InitType, TypeStep, PTL DEF Spec

-----------------------------------------------------------------------------
(* The inductive invariant.  OwnItems(s) are the items session s may be    *)
(* given: addressed to it, and appended after its cursor started.          *)

OwnItems(s) == {i \in from[s] + 1 .. Len(inbox) : ForSession(s, i)}

\* The cursor is between its start and the end of the inbox.
InBounds(s) ==
    /\ from[s] <= cursor[s].offset /\ cursor[s].offset <= Len(inbox)
    /\ cursor[s].inflight # {} => /\ cursor[s].offset <= cursor[s].end
                                 /\ cursor[s].end <= Len(inbox)

\* Only its own items are ever in flight, queued or shown.
OnlyOwn(s) ==
    /\ cursor[s].inflight \subseteq OwnItems(s)
    /\ ever[s] \subseteq OwnItems(s)
    /\ branch[s] \subseteq ever[s]
    /\ \A k \in DOMAIN queue[s] : queue[s][k].ids \subseteq OwnItems(s)

\* An item the batch in flight steps over is in the batch or was shown.
Covered(s) ==
    cursor[s].inflight # {} =>
        \A i \in cursor[s].offset + 1 .. cursor[s].end :
            ForSession(s, i) => i \in cursor[s].inflight \cup ever[s]

\* An item the cursor passed was shown.
Passed(s) ==
    \A i \in from[s] + 1 .. cursor[s].offset : ForSession(s, i) => i \in ever[s]

\* Nothing was done for a session that has not registered.
Unregistered(s) ==
    ~cursor[s].known => /\ cursor[s].offset = 0 /\ cursor[s].inflight = {}
                        /\ from[s] = 0 /\ ever[s] = {} /\ queue[s] = <<>>

\* What a process in the middle of a call has established.
Established(s) ==
    /\ step[s] \in {"claim", "register"} => ~cursor[s].known
    /\ step[s] = "migrate" => s \in heir /\ from[s] = 0
    /\ step[s] \in {"read", "send"} => cursor[s].known

\* Only the heir starts before the end of the old store's items.
AfterLegacy(s) ==
    cursor[s].known /\ s \notin heir => from[s] >= LegacyItems

SessionInv(s) ==
    /\ InBounds(s) /\ OnlyOwn(s) /\ Covered(s) /\ Passed(s)
    /\ Unregistered(s) /\ Established(s) /\ AfterLegacy(s)

LegacyInv ==
    /\ LegacyItems <= Len(inbox)
    /\ \A i \in 1..LegacyItems : inbox[i] = Everyone
    /\ \A s, t \in heir : s = t

DeliveryInv ==
    /\ TypeOK
    /\ LegacyInv
    /\ \A s \in Sessions : SessionInv(s)

LEMMA InitDelivery == Init => DeliveryInv
  <1> SUFFICES ASSUME Init PROVE DeliveryInv
    OBVIOUS
  <1>1. Len(inbox) = LegacyItems /\ \A i \in 1..LegacyItems : inbox[i] = Everyone
    BY InboxAssumption DEF Init
  <1>2. LegacyInv
    BY <1>1, InboxAssumption DEF LegacyInv, Init
  <1>3. ASSUME NEW s \in Sessions PROVE SessionInv(s)
    BY <1>1, InboxAssumption
       DEF Init, NoCursor, SessionInv, InBounds, OnlyOwn, Covered, Passed,
           Unregistered, Established, AfterLegacy
  <1> QED
    BY <1>2, <1>3, InitType DEF DeliveryInv

(* The inbox only grows, so an item keeps its place and its address.       *)
InboxKept ==
    /\ Len(inbox) <= Len(inbox')
    /\ \A i \in 1..Len(inbox) : inbox'[i] = inbox[i]

Untouched(s) ==
    /\ cursor'[s] = cursor[s] /\ from'[s] = from[s] /\ step'[s] = step[s]
    /\ queue'[s] = queue[s] /\ branch'[s] = branch[s] /\ ever'[s] = ever[s]

(* A step that leaves a session alone keeps what is known of it.           *)
LEMMA OtherSessions ==
    ASSUME TypeOK, TypeOK', InboxKept, heir \subseteq heir',
           NEW s \in Sessions, SessionInv(s), Untouched(s)
    PROVE  SessionInv(s)'
  <1>0. /\ Len(inbox) \in Nat /\ Len(inbox') \in Nat
        /\ cursor[s] \in Cursor /\ from[s] \in Nat
    BY DEF TypeOK
  <1>1. OwnItems(s) \subseteq OwnItems(s)'
    BY <1>0 DEF OwnItems, ForSession, InboxKept, Untouched
  <1>2. \A i \in from[s] + 1 .. Len(inbox) : ForSession(s, i)' => ForSession(s, i)
    BY <1>0 DEF ForSession, InboxKept
  <1>3. InBounds(s)'
    BY <1>0 DEF SessionInv, InBounds, InboxKept, Untouched, Cursor
  <1>4. OnlyOwn(s)'
    BY <1>1 DEF SessionInv, OnlyOwn, Untouched
  <1>5. Covered(s)'
    BY <1>0, <1>2 DEF SessionInv, Covered, InBounds, Untouched, Cursor
  <1>6. Passed(s)'
    BY <1>0, <1>2 DEF SessionInv, Passed, InBounds, Untouched, Cursor
  <1>7. Unregistered(s)' /\ Established(s)' /\ AfterLegacy(s)'
    BY DEF SessionInv, Unregistered, Established, AfterLegacy, Untouched
  <1> QED
    BY <1>3, <1>4, <1>5, <1>6, <1>7 DEF SessionInv

LEMMA AppendDelivery == DeliveryInv /\ AppendInbox => DeliveryInv'
  <1> SUFFICES ASSUME DeliveryInv, AppendInbox PROVE DeliveryInv'
    OBVIOUS
  <1>1. TypeOK'
    BY AppendType DEF DeliveryInv
  <1>2. InboxKept
    BY DEF InboxKept, AppendInbox, DeliveryInv, TypeOK
  <1>3. LegacyInv'
    <2>1. Len(inbox) \in Nat /\ Len(inbox)' \in Nat
      BY <1>1 DEF DeliveryInv, TypeOK
    <2> QED
      BY <1>2, <2>1, InboxAssumption
         DEF DeliveryInv, LegacyInv, InboxKept, AppendInbox
  <1>4. ASSUME NEW s \in Sessions PROVE SessionInv(s)'
    BY <1>1, <1>2, OtherSessions
       DEF DeliveryInv, Untouched, AppendInbox, piVars
  <1> QED
    BY <1>1, <1>3, <1>4 DEF DeliveryInv

(* An action of session s touches no other session, and not the inbox.     *)
LEMMA OneSession ==
    ASSUME DeliveryInv, TypeOK', NEW s \in Sessions, SessionInv(s)',
           inbox' = inbox, heir \subseteq heir', \A x, y \in heir' : x = y,
           \A t \in Sessions \ {s} : Untouched(t)
    PROVE  DeliveryInv'
  <1>1. InboxKept
    BY DEF InboxKept, DeliveryInv, TypeOK
  <1>2. ASSUME NEW t \in Sessions, t # s PROVE SessionInv(t)'
    BY <1>1, <1>2, OtherSessions DEF DeliveryInv
  <1>3. LegacyInv'
    BY DEF DeliveryInv, LegacyInv
  <1> QED
    BY <1>2, <1>3 DEF DeliveryInv

LEMMA RegisterDelivery ==
    ASSUME DeliveryInv, NEW s \in Sessions, RegisterStep(s)
    PROVE  DeliveryInv'
  <1> USE DEF DeliveryInv
  <1>0. /\ TypeOK' /\ SessionInv(s)
        /\ Len(inbox) \in Nat /\ cursor[s] \in Cursor /\ from[s] \in Nat
    BY RegisterType DEF TypeOK
  <1>1. CASE Register(s)
    <2>1. SessionInv(s)'
      BY <1>0, <1>1
         DEF Register, Goto, TypeOK, diskVars, piVars, SessionInv, InBounds,
             OnlyOwn, Covered, Passed, Unregistered, Established, AfterLegacy,
             OwnItems, ForSession
    <2> QED
      BY <1>0, <1>1, <2>1, OneSession
         DEF Register, Goto, TypeOK, Untouched, diskVars, piVars, LegacyInv
  <1>2. CASE ClaimLegacy(s)
    <2>1. heir \subseteq heir' /\ \A x, y \in heir' : x = y
      BY <1>2 DEF ClaimLegacy, Inherits, LegacyInv
    <2>2. /\ inbox' = inbox /\ cursor' = cursor /\ from' = from
          /\ queue' = queue /\ branch' = branch /\ ever' = ever
          /\ step'[s] \in {"migrate", "register"} /\ step[s] = "claim"
          /\ step'[s] = "migrate" => s \in heir'
      BY <1>2 DEF ClaimLegacy, Inherits, Goto, TypeOK, piVars
    <2>3. Unregistered(s)' /\ Established(s)' /\ AfterLegacy(s)'
      BY <1>0, <2>1, <2>2
         DEF SessionInv, Unregistered, Established, AfterLegacy
    <2>4. SessionInv(s)'
      BY <1>0, <2>2, <2>3
         DEF SessionInv, InBounds, OnlyOwn, Covered, Passed, OwnItems, ForSession
    <2> QED
      BY <1>0, <1>2, <2>1, <2>4, OneSession
         DEF ClaimLegacy, Goto, TypeOK, Untouched, piVars
  <1>3. CASE RegisterNew(s)
    <2>1. /\ cursor'[s] = [NoCursor EXCEPT !.known = TRUE, !.offset = Len(inbox)]
          /\ from'[s] = Len(inbox) /\ step'[s] = "idle"
          /\ ever'[s] = {} /\ branch'[s] = {} /\ queue'[s] = <<>>
          /\ inbox' = inbox /\ heir' = heir
      BY <1>0, <1>3
         DEF RegisterNew, Write, Goto, TypeOK, piVars, SessionInv, OnlyOwn,
             Unregistered, Established
    <2>2. SessionInv(s)'
      BY <1>0, <2>1, InboxAssumption
         DEF NoCursor, LegacyInv, SessionInv, InBounds, OnlyOwn, Covered,
             Passed, Unregistered, Established, AfterLegacy
    <2> QED
      BY <1>0, <1>3, <2>2, OneSession
         DEF RegisterNew, Write, Goto, TypeOK, Untouched, piVars, LegacyInv
  <1>4. CASE RegisterHeir(s)
    <2>1. PICK batch \in {{}, 1..LegacyItems}, here \in BOOLEAN, young \in BOOLEAN :
             Write(s, [known |-> TRUE, offset |-> 0, inflight |-> batch,
                       end |-> LegacyItems, sentHere |-> here, fresh |-> young])
      BY <1>4 DEF RegisterHeir
    <2>2. /\ cursor'[s].known /\ cursor'[s].offset = 0
          /\ cursor'[s].inflight = batch /\ cursor'[s].end = LegacyItems
          /\ from'[s] = 0 /\ step'[s] = "migrate" /\ s \in heir'
          /\ ever'[s] = {} /\ branch'[s] = {} /\ queue'[s] = <<>>
          /\ inbox' = inbox /\ heir' = heir
      BY <1>0, <1>4, <2>1
         DEF RegisterHeir, Write, TypeOK, piVars, SessionInv, OnlyOwn,
             Unregistered, Established
    <2>3. batch \subseteq OwnItems(s)'
      BY <1>0, <2>2, InboxAssumption DEF OwnItems, ForSession, LegacyInv
    <2>4. SessionInv(s)'
      BY <1>0, <2>2, <2>3, InboxAssumption
         DEF LegacyInv, SessionInv, InBounds, OnlyOwn, Covered,
             Passed, Unregistered, Established, AfterLegacy
    <2> QED
      BY <1>0, <1>4, <2>1, <2>4, OneSession
         DEF RegisterHeir, Write, TypeOK, Untouched, piVars, LegacyInv
  <1>5. CASE MarkMigrated(s)
    <2>1. SessionInv(s)'
      BY <1>0, <1>5
         DEF MarkMigrated, Goto, TypeOK, piVars, SessionInv, InBounds,
             OnlyOwn, Covered, Passed, Unregistered, Established, AfterLegacy,
             OwnItems, ForSession
    <2> QED
      BY <1>0, <1>5, <2>1, OneSession
         DEF MarkMigrated, Goto, TypeOK, Untouched, piVars, LegacyInv
  <1> QED
    BY <1>1, <1>2, <1>3, <1>4, <1>5 DEF RegisterStep

LEMMA PumpDelivery ==
    ASSUME DeliveryInv, NEW s \in Sessions, PumpStep(s)
    PROVE  DeliveryInv'
  <1> USE DEF DeliveryInv
  <1>0. /\ TypeOK' /\ SessionInv(s)
        /\ Len(inbox) \in Nat /\ cursor[s] \in Cursor /\ from[s] \in Nat
    BY PumpType DEF TypeOK
  <1>a. /\ inbox' = inbox /\ heir' = heir /\ from' = from
        /\ branch' = branch /\ ever' = ever
        /\ OwnItems(s)' = OwnItems(s)
        /\ \A i \in 1..Len(inbox) : ForSession(s, i)' = ForSession(s, i)
    BY DEF PumpStep, PumpRead, PumpAck, PumpIdle, PumpSkip, PumpMark, PumpSend,
           PumpRefused, diskVars, piVars, OwnItems, ForSession
  <1>b. /\ \A x, y \in heir' : x = y
        /\ \A t \in Sessions \ {s} : Untouched(t)
    BY DEF PumpStep, PumpRead, PumpAck, PumpIdle, PumpSkip, PumpMark, PumpSend,
           PumpRefused, diskVars, piVars, Write, Goto, TypeOK, Untouched,
           LegacyInv
  <1>1. CASE PumpAck(s)
    <2>1. CASE Delivered(s)
      <3>1. /\ cursor'[s].known /\ cursor'[s].inflight = {}
            /\ cursor'[s].offset = cursor[s].end
            /\ step'[s] = "read" /\ queue' = queue
        <4>1. /\ cursor'[s] = [cursor[s] EXCEPT !.offset = cursor[s].end,
                                                !.inflight = {}]
              /\ cursor[s].known /\ step'[s] = "read" /\ queue' = queue
          BY <1>1, <2>1 DEF PumpAck, Write, Goto, TypeOK, piVars
        <4> QED
          BY <1>0, <4>1 DEF Cursor
      <3>2. Passed(s)'
        BY <1>0, <1>a, <2>1, <3>1
           DEF Delivered, SessionInv, InBounds, OnlyOwn, Covered, Passed, Cursor
      <3> QED
        BY <1>0, <1>a, <1>b, <2>1, <3>1, <3>2, OneSession
           DEF Delivered, SessionInv, InBounds, OnlyOwn, Covered, Unregistered,
               Established, AfterLegacy, Cursor
    <2>2. CASE ~Delivered(s)
      <3>1. cursor' = cursor /\ step'[s] = "read" /\ queue' = queue
        BY <1>1, <2>2 DEF PumpAck, Goto, TypeOK, piVars
      <3>2. SessionInv(s)'
        BY <1>0, <1>1, <1>a, <3>1
           DEF PumpAck, SessionInv, InBounds, OnlyOwn, Covered, Passed,
               Unregistered, Established, AfterLegacy, ForSession
      <3> QED
        BY <1>0, <1>a, <1>b, <3>2, OneSession
    <2> QED
      BY <2>1, <2>2
  <1>2. CASE PumpIdle(s)
    <2>1. cursor' = cursor /\ step'[s] = "idle" /\ queue' = queue
      BY <1>2 DEF PumpIdle, Goto, TypeOK, diskVars, piVars
    <2>2. SessionInv(s)'
      BY <1>0, <1>a, <2>1
         DEF SessionInv, InBounds, OnlyOwn, Covered, Passed, Unregistered,
             Established, AfterLegacy, ForSession
    <2> QED
      BY <1>0, <1>a, <1>b, <2>2, OneSession
  <1>3. CASE PumpSkip(s)
    <2>1. /\ cursor[s].known
          /\ cursor'[s].known /\ cursor'[s].inflight = {}
          /\ cursor'[s].offset = Len(inbox)
          /\ step'[s] = "idle" /\ queue' = queue
      BY <1>0, <1>3
         DEF PumpSkip, Write, Goto, TypeOK, Cursor, piVars, SessionInv,
             Established
    <2>2. \A i \in cursor[s].offset + 1 .. Len(inbox) :
             ForSession(s, i) => i \in ever[s]
      BY <1>0, <1>3 DEF PumpSkip, PendingItems, Unread, SessionInv, OnlyOwn
    <2>3. Passed(s)'
      BY <1>0, <1>a, <2>1, <2>2 DEF SessionInv, InBounds, Passed, Cursor
    <2>4. SessionInv(s)'
      BY <1>0, <1>a, <2>1, <2>3
         DEF SessionInv, InBounds, OnlyOwn, Covered, Unregistered, Established,
             AfterLegacy, Cursor
    <2> QED
      BY <1>0, <1>a, <1>b, <2>4, OneSession
  <1>4. CASE PumpMark(s)
    <2>1. /\ cursor[s].known
          /\ cursor'[s].known /\ cursor'[s].inflight = PendingItems(s)
          /\ cursor'[s].offset = cursor[s].offset
          /\ cursor'[s].end = Len(inbox)
          /\ step'[s] = "send" /\ queue' = queue
      BY <1>0, <1>4
         DEF PumpMark, Write, Goto, TypeOK, Cursor, piVars, SessionInv,
             Established
    <2>2. PendingItems(s) \subseteq OwnItems(s)
      BY <1>0 DEF PendingItems, Unread, OwnItems, SessionInv, InBounds, Cursor
    <2>3. Covered(s)'
      BY <1>0, <1>a, <2>1
         DEF Covered, PendingItems, Unread, SessionInv, OnlyOwn, Cursor, InBounds
    <2>4. SessionInv(s)'
      BY <1>0, <1>a, <2>1, <2>2, <2>3
         DEF SessionInv, InBounds, OnlyOwn, Passed, Unregistered, Established,
             AfterLegacy, Cursor, ForSession
    <2> QED
      BY <1>0, <1>a, <1>b, <2>4, OneSession
  <1>5. CASE PumpSend(s)
    <2> DEFINE w == [ids |-> cursor[s].inflight, old |-> FALSE]
    <2>1. /\ cursor' = cursor /\ step'[s] = "idle"
          /\ queue'[s] = Append(queue[s], w)
      BY <1>5 DEF PumpSend, Goto, TypeOK, diskVars
    <2>2. queue[s] \in Seq(Wake) /\ w \in Wake
      BY <1>0 DEF TypeOK, Wake, Cursor
    <2>3. \A k \in DOMAIN queue'[s] : queue'[s][k].ids \subseteq OwnItems(s)
      BY <1>0, <2>1, <2>2 DEF SessionInv, OnlyOwn
    <2>4. cursor[s].known
      BY <1>0, <1>5 DEF PumpSend, SessionInv, Established
    <2>5. SessionInv(s)'
      BY <1>0, <1>a, <2>1, <2>3, <2>4
         DEF SessionInv, InBounds, OnlyOwn, Covered, Passed, Unregistered,
             Established, AfterLegacy, ForSession
    <2> QED
      BY <1>0, <1>a, <1>b, <2>5, OneSession
  <1>6. CASE PumpRefused(s)
    <2>1. /\ cursor'[s].known = cursor[s].known /\ cursor'[s].inflight = {}
          /\ cursor'[s].offset = cursor[s].offset
          /\ step'[s] = "idle" /\ queue' = queue
      BY <1>0, <1>6
         DEF PumpRefused, AfterRefusal, Write, Goto, TypeOK, Cursor, piVars
    <2>2. SessionInv(s)'
      BY <1>0, <1>a, <2>1
         DEF SessionInv, InBounds, OnlyOwn, Covered, Passed, Unregistered,
             Established, AfterLegacy, ForSession
    <2> QED
      BY <1>0, <1>a, <1>b, <2>2, OneSession
  <1> QED
    BY <1>1, <1>2, <1>3, <1>4, <1>5, <1>6 DEF PumpStep, PumpRead

LEMMA PiDelivery ==
    ASSUME DeliveryInv, NEW s \in Sessions, PiStep(s) \/ Overdue(s)
    PROVE  DeliveryInv'
  <1> USE DEF DeliveryInv
  <1>0. /\ TypeOK' /\ SessionInv(s)
        /\ Len(inbox) \in Nat /\ cursor[s] \in Cursor /\ from[s] \in Nat
        /\ queue[s] \in Seq(Wake)
    BY PiType DEF TypeOK
  <1>a. /\ inbox' = inbox /\ heir' = heir /\ from' = from
        /\ OwnItems(s)' = OwnItems(s)
        /\ \A i \in 1..Len(inbox) : ForSession(s, i)' = ForSession(s, i)
    BY DEF PiStep, Persist, WakeLost, Navigate, Close, Open, Overdue, diskVars,
           OwnItems, ForSession
  <1>b. /\ \A x, y \in heir' : x = y
        /\ \A t \in Sessions \ {s} : Untouched(t)
    BY DEF PiStep, Persist, WakeLost, Navigate, Close, Open, Overdue, diskVars,
           Write, Goto, TypeOK, Untouched, LegacyInv
  <1>c. /\ cursor'[s].known = cursor[s].known
        /\ cursor'[s].offset = cursor[s].offset
        /\ cursor'[s].inflight = cursor[s].inflight
        /\ cursor'[s].end = cursor[s].end
    <2>1. CASE Open(s)
      BY <1>0, <2>1 DEF Open, Write, TypeOK, Cursor
    <2>2. CASE Overdue(s)
      BY <1>0, <2>2 DEF Overdue, Write, TypeOK, Cursor
    <2>3. CASE ~Open(s) /\ ~Overdue(s)
      BY <2>3 DEF PiStep, Persist, WakeLost, Navigate, Close, diskVars
    <2> QED
      BY <2>1, <2>2, <2>3
  <1>d. ever[s] \subseteq ever'[s] /\ (step'[s] = step[s] \/ step'[s] = "idle")
    BY DEF PiStep, Persist, WakeLost, Navigate, Close, Open, Overdue, Goto,
           TypeOK
  <1>1. OnlyOwn(s)' /\ (ever[s] = {} /\ queue[s] = <<>> =>
                          ever'[s] = {} /\ queue'[s] = <<>>)
    <2>1. CASE Persist(s)
      <3>1. /\ queue'[s] = Tail(queue[s]) /\ queue[s] # <<>>
            /\ branch'[s] = branch[s] \cup Head(queue[s]).ids
            /\ ever'[s] = ever[s] \cup Head(queue[s]).ids
        BY <2>1 DEF Persist, TypeOK
      <3>2. Head(queue[s]).ids \subseteq OwnItems(s)
        BY <1>0, <3>1 DEF SessionInv, OnlyOwn
      <3>3. \A k \in DOMAIN queue'[s] : queue'[s][k].ids \subseteq OwnItems(s)
        BY <1>0, <3>1 DEF SessionInv, OnlyOwn
      <3> QED
        BY <1>0, <1>a, <1>c, <3>1, <3>2, <3>3 DEF SessionInv, OnlyOwn
    <2>2. CASE WakeLost(s)
      <3>1. /\ queue'[s] = Tail(queue[s]) /\ queue[s] # <<>>
            /\ branch' = branch /\ ever' = ever
        BY <2>2 DEF WakeLost, TypeOK
      <3>2. \A k \in DOMAIN queue'[s] : queue'[s][k].ids \subseteq OwnItems(s)
        BY <1>0, <3>1 DEF SessionInv, OnlyOwn
      <3> QED
        BY <1>0, <1>a, <1>c, <3>1, <3>2 DEF SessionInv, OnlyOwn
    <2>3. CASE Navigate(s)
      <3>1. branch'[s] \subseteq ever[s] /\ ever' = ever /\ queue' = queue
        BY <2>3 DEF Navigate, TypeOK
      <3> QED
        BY <1>0, <1>a, <1>c, <3>1 DEF SessionInv, OnlyOwn
    <2>4. CASE Close(s)
      <3>1. queue'[s] = <<>> /\ branch' = branch /\ ever' = ever
        BY <2>4 DEF Close, TypeOK
      <3> QED
        BY <1>0, <1>a, <1>c, <3>1 DEF SessionInv, OnlyOwn
    <2>5. CASE Open(s)
      BY <1>0, <1>a, <1>c, <2>5 DEF Open, SessionInv, OnlyOwn
    <2>6. CASE Overdue(s)
      <3>1. /\ queue'[s] = [k \in DOMAIN queue[s] |->
                               [queue[s][k] EXCEPT !.old = TRUE]]
            /\ branch' = branch /\ ever' = ever
        BY <2>6 DEF Overdue, TypeOK
      <3>2. \A k \in DOMAIN queue[s] : queue'[s][k].ids = queue[s][k].ids
        BY <1>0, <3>1 DEF Wake
      <3>3. queue[s] = <<>> => queue'[s] = <<>>
        BY <1>0, <3>1
      <3> QED
        BY <1>0, <1>a, <1>c, <3>1, <3>2, <3>3 DEF SessionInv, OnlyOwn
    <2> QED
      BY <2>1, <2>2, <2>3, <2>4, <2>5, <2>6 DEF PiStep
  <1>2. SessionInv(s)'
    BY <1>0, <1>a, <1>c, <1>d, <1>1
       DEF SessionInv, InBounds, Covered, Passed, Unregistered, Established,
           AfterLegacy, Cursor
  <1> QED
    BY <1>0, <1>a, <1>b, <1>2, OneSession

LEMMA DeliveryStep == DeliveryInv /\ [Next]_vars => DeliveryInv'
  <1> SUFFICES ASSUME DeliveryInv, [Next]_vars PROVE DeliveryInv'
    OBVIOUS
  <1>1. CASE AppendInbox
    BY <1>1, AppendDelivery
  <1>2. ASSUME NEW s \in Sessions,
               RegisterStep(s) \/ PumpStep(s) \/ PiStep(s) \/ Overdue(s)
        PROVE  DeliveryInv'
    BY <1>2, RegisterDelivery, PumpDelivery, PiDelivery
  <1>3. CASE inbox' = inbox /\ UNCHANGED <<cursor, from, heir, step, piVars>>
    <2>1. TypeOK'
      BY TypeStep DEF DeliveryInv
    <2>2. ASSUME NEW s \in Sessions PROVE SessionInv(s)'
      <3>1. InboxKept
        BY <1>3 DEF InboxKept, DeliveryInv, TypeOK
      <3> QED
        BY <1>3, <2>1, <3>1, OtherSessions DEF DeliveryInv, Untouched, piVars
    <2> QED
      BY <1>3, <2>1, <2>2 DEF DeliveryInv, LegacyInv
  <1> QED
    BY <1>1, <1>2, <1>3 DEF Next, LegacyOwnerDies, vars, diskVars

THEOREM DeliveryInvariant == Spec => []DeliveryInv
  BY InitDelivery, DeliveryStep, PTL DEF Spec

(* An item a cursor has passed was persisted in the session's transcript,  *)
(* whatever crashed, was lost, was sent again or was navigated away from.  *)
THEOREM NothingIsLost == Spec => []NothingLost
  <1>1. DeliveryInv => NothingLost
    BY DEF DeliveryInv, SessionInv, Passed, NothingLost
  <1> QED
    BY <1>1, DeliveryInvariant, PTL

(* What an old store had not delivered goes to one session only.           *)
THEOREM OneSessionInherits == Spec => []OneHeir
  <1>1. ASSUME DeliveryInv, NEW s \in Sessions, NEW i \in 1..LegacyItems,
               Receives(s, i)
        PROVE  s \in heir
    BY <1>1, InboxAssumption
       DEF DeliveryInv, SessionInv, InBounds, OnlyOwn, OwnItems, AfterLegacy,
           Receives, TypeOK, Cursor
  <1>2. DeliveryInv => OneHeir
    BY <1>1 DEF OneHeir, DeliveryInv, LegacyInv
  <1> QED
    BY <1>2, DeliveryInvariant, PTL

-----------------------------------------------------------------------------
(* Why no item is given to Pi twice within RESEND_AFTER_MS.  A wake that is *)
(* younger is either behind the cursor, and its items are read no more, or  *)
(* it is the batch in flight, which this process sent and still waits for.  *)

Behind(s, w) == w.ids \subseteq 1 .. cursor[s].offset

Awaited(s, w) ==
    /\ step[s] \notin {"read", "send"} /\ w.ids = cursor[s].inflight
    /\ cursor[s].sentHere /\ cursor[s].fresh

\* The batch in flight is ahead of the cursor; it is marked as just sent before
\* it is sent; no call goes on and no wake is queued in a session that is closed.
BatchInv(s) ==
    /\ cursor[s].inflight \subseteq cursor[s].offset + 1 .. cursor[s].end
    /\ step[s] = "send" => cursor[s].sentHere /\ cursor[s].fresh
    /\ ~open[s] => step[s] = "idle" /\ queue[s] = <<>>

YoungInv(s) ==
    \A k \in DOMAIN queue[s] :
        ~queue[s][k].old => Behind(s, queue[s][k]) \/ Awaited(s, queue[s][k])

\* NoEarlyResend for one session.
NoRepeat(s) ==
    \A j, k \in DOMAIN queue[s] :
        j < k /\ queue[s][j].ids \cap queue[s][k].ids # {} => queue[s][j].old

WakesInv(s) == BatchInv(s) /\ YoungInv(s) /\ NoRepeat(s)

LEMMA InitWakes == Init => \A s \in Sessions : WakesInv(s)
  <1> SUFFICES ASSUME Init, NEW s \in Sessions PROVE WakesInv(s)
    OBVIOUS
  <1>1. cursor[s].inflight = {} /\ step[s] = "idle" /\ queue[s] = <<>>
    BY DEF Init, NoCursor
  <1> QED
    BY <1>1 DEF WakesInv, BatchInv, YoungInv, NoRepeat

\* What WakesInv says of a session depends on these alone.
SameWakes(s) ==
    /\ cursor'[s] = cursor[s] /\ step'[s] = step[s]
    /\ open'[s] = open[s] /\ queue'[s] = queue[s]

LEMMA WakesStay ==
    ASSUME NEW s \in Sessions, WakesInv(s), SameWakes(s)
    PROVE  WakesInv(s)'
  BY DEF WakesInv, BatchInv, YoungInv, NoRepeat, Behind, Awaited, SameWakes

LEMMA RegisterWakes ==
    ASSUME DeliveryInv, NEW s \in Sessions, RegisterStep(s), WakesInv(s)
    PROVE  WakesInv(s)'
  <1>0. /\ TypeOK /\ SessionInv(s) /\ queue' = queue /\ open' = open
        /\ open[s] \/ queue[s] = <<>>
    BY DEF DeliveryInv, RegisterStep, Register, ClaimLegacy, RegisterNew, RegisterHeir,
           MarkMigrated, diskVars, piVars, WakesInv, BatchInv
  <1>1. CASE RegisterNew(s) \/ RegisterHeir(s)
    <2>1. queue[s] = <<>> /\ step[s] # "idle" /\ open[s] /\ step'[s] # "send"
      BY <1>0, <1>1
         DEF RegisterNew, RegisterHeir, SessionInv, Established, Unregistered, WakesInv,
             BatchInv, Goto, TypeOK
    <2>2. cursor'[s].inflight \subseteq cursor'[s].offset + 1 .. cursor'[s].end
      <3>1. CASE RegisterNew(s)
        <4>1. cursor'[s] = [NoCursor EXCEPT !.known = TRUE, !.offset = Len(inbox)]
          BY <1>0, <3>1 DEF RegisterNew, Write, TypeOK
        <4> QED
          BY <4>1 DEF NoCursor
      <3>2. CASE RegisterHeir(s)
        <4>1. PICK batch \in {{}, 1..LegacyItems}, here \in BOOLEAN, young \in BOOLEAN :
                 Write(s, [known |-> TRUE, offset |-> 0, inflight |-> batch,
                           end |-> LegacyItems, sentHere |-> here, fresh |-> young])
          BY <3>2 DEF RegisterHeir
        <4>2. /\ cursor'[s].inflight = batch /\ cursor'[s].offset = 0
              /\ cursor'[s].end = LegacyItems
          BY <1>0, <4>1 DEF Write, TypeOK
        <4> QED
          BY <4>2, InboxAssumption
      <3> QED
        BY <1>1, <3>1, <3>2
    <2> QED
      BY <1>0, <2>1, <2>2 DEF WakesInv, BatchInv, YoungInv, NoRepeat
  <1>2. CASE Register(s) \/ ClaimLegacy(s) \/ MarkMigrated(s)
    <2>1. /\ cursor' = cursor /\ step'[s] \notin {"read", "send"}
          /\ open[s]
      BY <1>0, <1>2
         DEF Register, ClaimLegacy, MarkMigrated, Goto, diskVars, TypeOK, WakesInv, BatchInv
    <2>2. YoungInv(s)'
      BY <1>0, <2>1 DEF WakesInv, YoungInv, Behind, Awaited
    <2> QED
      BY <1>0, <2>1, <2>2 DEF WakesInv, BatchInv, NoRepeat
  <1> QED
    BY <1>1, <1>2 DEF RegisterStep

LEMMA PumpWakes ==
    ASSUME DeliveryInv, NEW s \in Sessions, PumpStep(s), WakesInv(s)
    PROVE  WakesInv(s)'
  <1>0. /\ TypeOK /\ SessionInv(s) /\ open' = open /\ open[s]
        /\ Len(inbox) \in Nat /\ cursor[s] \in Cursor /\ queue[s] \in Seq(Wake)
    BY DEF DeliveryInv, TypeOK, PumpStep, PumpRead, PumpAck, PumpIdle, PumpSkip, PumpMark,
           PumpSend, PumpRefused, diskVars, piVars, WakesInv, BatchInv
  <1>a. InBounds(s) /\ \A k \in DOMAIN queue[s] : queue[s][k].ids \subseteq 1..Len(inbox)
    BY <1>0 DEF SessionInv, OnlyOwn, OwnItems, TypeOK
  <1>1. CASE PumpAck(s)
    <2>1. step'[s] = "read" /\ queue' = queue
      BY <1>0, <1>1 DEF PumpAck, Goto, TypeOK, piVars
    <2>2. CASE Delivered(s)
      <3>1. cursor'[s].offset = cursor[s].end /\ cursor'[s].inflight = {}
        <4>1. cursor'[s] = [cursor[s] EXCEPT !.offset = cursor[s].end, !.inflight = {}]
          BY <1>0, <1>1, <2>2 DEF PumpAck, Write, TypeOK
        <4> QED
          BY <1>0, <4>1 DEF Cursor
      <3>2. /\ 1..cursor[s].offset \subseteq 1..cursor[s].end
            /\ cursor[s].inflight \subseteq 1..cursor[s].end
        BY <1>0, <1>a, <2>2 DEF Delivered, InBounds, WakesInv, BatchInv, Cursor
      <3>3. YoungInv(s)'
        BY <2>1, <3>1, <3>2 DEF WakesInv, YoungInv, Behind, Awaited
      <3> QED
        BY <1>0, <2>1, <3>1, <3>3 DEF WakesInv, BatchInv, NoRepeat
    <2>3. CASE ~Delivered(s)
      <3>1. cursor' = cursor /\ ~Waiting(s)
        BY <1>1, <2>3 DEF PumpAck
      <3>2. ASSUME NEW w, Awaited(s, w) PROVE Behind(s, w)
        BY <2>3, <3>1, <3>2 DEF Awaited, Behind, Waiting
      <3>3. YoungInv(s)'
        BY <2>1, <3>1, <3>2 DEF WakesInv, YoungInv, Behind
      <3> QED
        BY <1>0, <2>1, <3>1, <3>3 DEF WakesInv, BatchInv, NoRepeat
    <2> QED
      BY <2>2, <2>3
  <1>2. CASE PumpRead(s) \/ PumpRefused(s)
    <2>a. queue' = queue /\ step[s] \in {"read", "send"}
      BY <1>2 DEF PumpRead, PumpIdle, PumpSkip, PumpMark, PumpRefused, piVars
    <2>b. cursor'[s].offset \in {cursor[s].offset, Len(inbox)}
      <3>1. CASE PumpIdle(s)
        BY <3>1 DEF PumpIdle, diskVars
      <3>2. CASE PumpSkip(s)
        <4>1. cursor'[s] = [cursor[s] EXCEPT !.offset = Len(inbox), !.inflight = {}]
          BY <1>0, <3>2 DEF PumpSkip, Write, TypeOK
        <4> QED
          BY <1>0, <4>1 DEF Cursor
      <3>3. CASE PumpMark(s)
        <4>1. cursor'[s] = [cursor[s] EXCEPT !.inflight = PendingItems(s), !.end = Len(inbox),
                                             !.sentHere = TRUE, !.fresh = TRUE]
          BY <1>0, <3>3 DEF PumpMark, Write, TypeOK
        <4> QED
          BY <1>0, <4>1 DEF Cursor
      <3>4. CASE PumpRefused(s)
        <4>1. cursor'[s] = AfterRefusal(cursor[s])
          BY <1>0, <3>4 DEF PumpRefused, Write, TypeOK
        <4> QED
          BY <1>0, <4>1 DEF AfterRefusal, Cursor
      <3> QED
        BY <1>2, <3>1, <3>2, <3>3, <3>4 DEF PumpRead
    <2>1. /\ queue' = queue /\ step[s] \in {"read", "send"}
          /\ cursor'[s].offset \in {cursor[s].offset, Len(inbox)}
      BY <2>a, <2>b
    <2>2. ASSUME NEW k \in DOMAIN queue[s], ~queue[s][k].old
          PROVE  Behind(s, queue[s][k])'
      BY <1>0, <1>a, <2>1, <2>2 DEF WakesInv, YoungInv, Awaited, Behind
    <2>3. BatchInv(s)'
      <3>1. CASE PumpMark(s)
        <4>1. cursor'[s] = [cursor[s] EXCEPT !.inflight = PendingItems(s), !.end = Len(inbox),
                                             !.sentHere = TRUE, !.fresh = TRUE]
          BY <1>0, <3>1 DEF PumpMark, Write, TypeOK
        <4>2. PendingItems(s) \subseteq cursor[s].offset + 1 .. Len(inbox)
          BY DEF PendingItems, Unread
        <4> QED
          BY <1>0, <4>1, <4>2 DEF BatchInv, Cursor
      <3>2. CASE PumpSkip(s) \/ PumpRefused(s)
        <4>1. cursor'[s].inflight = {} /\ step'[s] = "idle"
          <5>1. \/ cursor'[s] = [cursor[s] EXCEPT !.offset = Len(inbox), !.inflight = {}]
                \/ cursor'[s] = [cursor[s] EXCEPT !.inflight = {}]
            BY <1>0, <3>2 DEF PumpSkip, PumpRefused, AfterRefusal, Write, TypeOK
          <5>2. step'[s] = "idle"
            BY <1>0, <3>2 DEF PumpSkip, PumpRefused, Goto, TypeOK
          <5> QED
            BY <1>0, <5>1, <5>2 DEF Cursor
        <4> QED
          BY <1>0, <4>1 DEF BatchInv
      <3>3. CASE PumpIdle(s)
        <4>1. cursor' = cursor /\ step'[s] = "idle"
          BY <1>0, <3>3 DEF PumpIdle, Goto, TypeOK, diskVars
        <4> QED
          BY <1>0, <4>1 DEF WakesInv, BatchInv
      <3> QED
        BY <1>2, <3>1, <3>2, <3>3 DEF PumpRead
    <2> QED
      BY <2>1, <2>2, <2>3 DEF WakesInv, YoungInv, NoRepeat
  <1>3. CASE PumpSend(s)
    <2> DEFINE w == [ids |-> cursor[s].inflight, old |-> FALSE]
               n == Len(queue[s])
    <2>1. /\ cursor' = cursor /\ step'[s] = "idle" /\ step[s] = "send"
          /\ queue'[s] = Append(queue[s], w)
      BY <1>0, <1>3 DEF PumpSend, Goto, TypeOK, diskVars
    <2>2. /\ n \in Nat /\ DOMAIN queue[s] = 1..n /\ DOMAIN queue'[s] = 1..(n + 1)
          /\ queue'[s][n + 1] = w /\ \A k \in 1..n : queue'[s][k] = queue[s][k]
      BY <1>0, <2>1
    <2>3. ASSUME NEW k \in 1..n, ~queue[s][k].old PROVE Behind(s, queue[s][k])
      BY <2>1, <2>2, <2>3 DEF WakesInv, YoungInv, Awaited
    <2>4. cursor[s].inflight \cap 1..cursor[s].offset = {}
      BY <1>0 DEF WakesInv, BatchInv, Cursor
    <2>5. Awaited(s, w)' /\ w' = w
      BY <2>1 DEF Awaited, WakesInv, BatchInv
    <2> HIDE DEF w
    <2>6. YoungInv(s)'
      <3>1. ASSUME NEW k \in 1..(n + 1), ~queue'[s][k].old
            PROVE  Behind(s, queue[s][k])' \/ Awaited(s, queue[s][k])'
        <4>1. CASE k = n + 1
          BY <2>2, <2>5, <4>1 DEF Awaited
        <4>2. CASE k \in 1..n
          BY <2>1, <2>2, <2>3, <3>1, <4>2 DEF Behind
        <4> QED
          BY <2>2, <4>1, <4>2
      <3> QED
        BY <2>2, <3>1 DEF YoungInv
    <2>7. NoRepeat(s)'
      <3>1. ASSUME NEW j \in 1..n, queue[s][j].ids \cap w.ids # {} PROVE queue[s][j].old
        BY <2>3, <2>4, <3>1 DEF w, Behind
      <3> QED
        BY <2>2, <3>1 DEF NoRepeat, WakesInv
    <2> QED
      BY <1>0, <2>1, <2>6, <2>7 DEF WakesInv, BatchInv
  <1> QED
    BY <1>1, <1>2, <1>3 DEF PumpStep

LEMMA PiWakes ==
    ASSUME DeliveryInv, NEW s \in Sessions, PiStep(s) \/ Overdue(s), WakesInv(s)
    PROVE  WakesInv(s)'
  <1>0. TypeOK /\ cursor[s] \in Cursor /\ queue[s] \in Seq(Wake)
    BY DEF DeliveryInv, TypeOK
  <1>1. CASE Persist(s) \/ WakeLost(s)
    <2>1. /\ cursor' = cursor /\ step' = step /\ open' = open
          /\ queue[s] # <<>> /\ queue'[s] = Tail(queue[s]) /\ open[s]
      BY <1>0, <1>1 DEF Persist, WakeLost, TypeOK, diskVars
    <2>2. \A k \in DOMAIN queue'[s] : k + 1 \in DOMAIN queue[s] /\ queue'[s][k] = queue[s][k + 1]
      BY <1>0, <2>1
    <2>3. DOMAIN queue'[s] \subseteq Nat
      BY <1>0, <2>1
    <2>4. YoungInv(s)'
      BY <2>1, <2>2 DEF WakesInv, YoungInv, Behind, Awaited
    <2>5. NoRepeat(s)'
      BY <2>2, <2>3 DEF WakesInv, NoRepeat
    <2> QED
      BY <2>1, <2>4, <2>5 DEF WakesInv, BatchInv
  <1>2. CASE Navigate(s)
    BY <1>2, WakesStay DEF Navigate, diskVars, SameWakes
  <1>3. CASE Close(s)
    <2>1. cursor' = cursor /\ step'[s] = "idle" /\ queue'[s] = <<>>
      BY <1>0, <1>3 DEF Close, Goto, TypeOK, diskVars
    <2> QED
      BY <2>1 DEF WakesInv, BatchInv, YoungInv, NoRepeat
  <1>4. CASE Open(s)
    <2>1. /\ step' = step /\ queue' = queue /\ queue[s] = <<>> /\ step[s] = "idle"
          /\ open'[s] /\ cursor'[s].inflight = cursor[s].inflight
          /\ cursor'[s].offset = cursor[s].offset /\ cursor'[s].end = cursor[s].end
      BY <1>0, <1>4 DEF Open, Write, TypeOK, Cursor, WakesInv, BatchInv
    <2> QED
      BY <2>1 DEF WakesInv, BatchInv, YoungInv, NoRepeat
  <1>5. CASE Overdue(s)
    <2>1. /\ step' = step /\ step[s] = "idle" /\ open' = open
          /\ cursor'[s].inflight = cursor[s].inflight
          /\ cursor'[s].offset = cursor[s].offset /\ cursor'[s].end = cursor[s].end
          /\ queue'[s] = [k \in DOMAIN queue[s] |-> [queue[s][k] EXCEPT !.old = TRUE]]
      BY <1>0, <1>5 DEF Overdue, Write, TypeOK, Cursor
    <2>2. \A k \in DOMAIN queue[s] : queue'[s][k].old
      BY <1>0, <2>1 DEF Wake
    <2>3. DOMAIN queue'[s] = DOMAIN queue[s] /\ (queue[s] = <<>> => queue'[s] = <<>>)
      BY <1>0, <2>1
    <2> QED
      BY <2>1, <2>2, <2>3 DEF WakesInv, BatchInv, YoungInv, NoRepeat
  <1> QED
    BY <1>1, <1>2, <1>3, <1>4, <1>5 DEF PiStep

\* A step of one session, or of none, is not seen in the others.
LEMMA OtherWakes ==
    ASSUME DeliveryInv, [Next]_vars, NEW s \in Sessions,
           ~(RegisterStep(s) \/ PumpStep(s) \/ PiStep(s) \/ Overdue(s))
    PROVE  SameWakes(s)
  <1>1. CASE AppendInbox \/ LegacyOwnerDies \/ UNCHANGED vars
    BY <1>1 DEF AppendInbox, LegacyOwnerDies, vars, diskVars, piVars, SameWakes
  <1>2. ASSUME NEW t \in Sessions, t # s,
               RegisterStep(t) \/ PumpStep(t) \/ PiStep(t) \/ Overdue(t)
        PROVE  SameWakes(s)
    <2>1. CASE RegisterStep(t)
      BY <1>2, <2>1
         DEF DeliveryInv, TypeOK, RegisterStep, Register, ClaimLegacy, RegisterNew,
             RegisterHeir, MarkMigrated, Write, Goto, diskVars, piVars, SameWakes
    <2>2. CASE PumpStep(t)
      BY <1>2, <2>2
         DEF DeliveryInv, TypeOK, PumpStep, PumpRead, PumpAck, PumpIdle, PumpSkip,
             PumpMark, PumpSend, PumpRefused, Write, Goto, diskVars, piVars, SameWakes
    <2>3. CASE PiStep(t) \/ Overdue(t)
      BY <1>2, <2>3
         DEF DeliveryInv, TypeOK, PiStep, Persist, WakeLost, Navigate, Close, Open,
             Overdue, Write, Goto, diskVars, SameWakes
    <2> QED
      BY <1>2, <2>1, <2>2, <2>3
  <1> QED
    BY <1>1, <1>2 DEF Next

(* Pi is not given an item again while a wake of less than RESEND_AFTER_MS *)
(* ago that carries it is still queued.                                    *)
THEOREM NoResendIsEarly == Spec => []NoEarlyResend
  <1> DEFINE IInv == DeliveryInv /\ \A s \in Sessions : WakesInv(s)
  <1>1. Init => IInv
    BY InitDelivery, InitWakes
  <1>2. IInv /\ [Next]_vars => IInv'
    <2> SUFFICES ASSUME IInv, [Next]_vars, NEW s \in Sessions PROVE WakesInv(s)'
      BY DeliveryStep
    <2>1. CASE RegisterStep(s) \/ PumpStep(s) \/ PiStep(s) \/ Overdue(s)
      BY <2>1, RegisterWakes, PumpWakes, PiWakes
    <2>2. CASE ~(RegisterStep(s) \/ PumpStep(s) \/ PiStep(s) \/ Overdue(s))
      BY <2>2, OtherWakes, WakesStay
    <2> QED
      BY <2>1, <2>2
  <1>3. IInv => NoEarlyResend
    BY DEF WakesInv, NoRepeat, NoEarlyResend
  <1> QED
    BY <1>1, <1>2, <1>3, PTL DEF Spec

-----------------------------------------------------------------------------
(* Refinement: what the pump, the registration and Pi do is what Mailbox   *)
(* promises.                                                               *)

Joined == {s \in Sessions : cursor[s].known}
Acked  == [s \in Sessions |-> cursor[s].offset]

\* A cursor that keeps its place is not seen by Mailbox.
LEMMA SamePlace ==
    ASSUME TypeOK, NEW s \in Sessions, NEW c \in Cursor, Write(s, c),
           c.known = cursor[s].known, c.offset = cursor[s].offset
    PROVE  Joined' = Joined /\ Acked' = Acked
  BY DEF TypeOK, Write, Joined, Acked

LEMMA JoinStep ==
    ASSUME DeliveryInv, NEW s \in Sessions, NEW k \in 0..Len(inbox),
           NEW c \in Cursor, Write(s, c), c.known, c.offset = k,
           ~cursor[s].known, from' = [from EXCEPT ![s] = k],
           UNCHANGED <<inbox, ever>>
    PROVE  Promise!Join(s)
  <1>1. Joined' = Joined \cup {s} /\ s \notin Joined
    BY DEF DeliveryInv, TypeOK, Write, Joined
  <1>2. Acked' = [Acked EXCEPT ![s] = k]
    BY DEF DeliveryInv, TypeOK, Write, Acked
  <1> QED
    BY <1>1, <1>2 DEF Promise!Join, Joined, Acked

LEMMA AckStep ==
    ASSUME DeliveryInv, NEW s \in Sessions, NEW c \in Cursor, Write(s, c),
           cursor[s].known, c.known, c.offset \in cursor[s].offset..Len(inbox),
           \A i \in from[s] + 1 .. c.offset : ForSession(s, i) => i \in ever[s],
           UNCHANGED <<inbox, from, ever>>
    PROVE  Promise!Ack(s)
  <1>1. Joined' = Joined /\ s \in Joined
    BY DEF DeliveryInv, TypeOK, Write, Joined
  <1>2. Acked' = [Acked EXCEPT ![s] = c.offset] /\ Acked[s] = cursor[s].offset
    BY DEF DeliveryInv, TypeOK, Write, Acked
  <1> QED
    BY <1>1, <1>2
       DEF Promise!Ack, Promise!Addressed, ForSession, Joined, Acked

LEMMA StutterStep ==
    ASSUME Joined' = Joined, Acked' = Acked, UNCHANGED <<inbox, from, ever>>
    PROVE  UNCHANGED Promise!vars
  BY DEF Promise!vars, Joined, Acked

LEMMA InitRefines == Init => Promise!Init
  <1> SUFFICES ASSUME Init PROVE Promise!Init
    OBVIOUS
  <1>1. inbox \in Seq(Sessions \cup {Everyone})
    BY InitType DEF TypeOK
  <1> QED
    BY <1>1 DEF Init, NoCursor, Promise!Init

LEMMA RegisterRefines ==
    ASSUME DeliveryInv, NEW s \in Sessions, RegisterStep(s)
    PROVE  [Promise!Next]_(Promise!vars)
  <1>0. /\ SessionInv(s) /\ Len(inbox) \in Nat /\ from \in [Sessions -> Nat]
    BY DEF DeliveryInv, TypeOK
  <1>1. CASE RegisterNew(s)
    <2> DEFINE c == [NoCursor EXCEPT !.known = TRUE, !.offset = Len(inbox)]
    <2>1. c \in Cursor /\ c.known /\ c.offset = Len(inbox)
      BY <1>0 DEF Cursor, NoCursor
    <2>2. ~cursor[s].known
      BY <1>0, <1>1 DEF RegisterNew, SessionInv, Established
    <2>3. /\ Write(s, c) /\ UNCHANGED <<inbox, ever>>
          /\ from' = [from EXCEPT ![s] = Len(inbox)]
          /\ Len(inbox) \in 0..Len(inbox)
      BY <1>0, <1>1 DEF RegisterNew, piVars
    <2> HIDE DEF c
    <2>4. Promise!Join(s)
      BY <2>1, <2>2, <2>3, JoinStep
    <2> QED
      BY <2>4 DEF Promise!Next
  <1>2. CASE RegisterHeir(s)
    <2>1. PICK batch \in {{}, 1..LegacyItems}, here \in BOOLEAN, young \in BOOLEAN :
             Write(s, [known |-> TRUE, offset |-> 0, inflight |-> batch,
                       end |-> LegacyItems, sentHere |-> here, fresh |-> young])
      BY <1>2 DEF RegisterHeir
    <2> DEFINE c == [known |-> TRUE, offset |-> 0, inflight |-> batch,
                     end |-> LegacyItems, sentHere |-> here, fresh |-> young]
    <2>2. c \in Cursor /\ c.known /\ c.offset = 0
      BY InboxAssumption DEF Cursor
    <2>3. /\ Write(s, c) /\ UNCHANGED <<inbox, ever>>
          /\ ~cursor[s].known /\ from' = [from EXCEPT ![s] = 0]
          /\ 0 \in 0..Len(inbox)
      BY <1>0, <1>2, <2>1 DEF RegisterHeir, piVars, SessionInv, Unregistered
    <2> HIDE DEF c
    <2>4. Promise!Join(s)
      BY <2>2, <2>3, JoinStep
    <2> QED
      BY <2>4 DEF Promise!Next
  <1>3. CASE Register(s) \/ ClaimLegacy(s) \/ MarkMigrated(s)
    <2>1. UNCHANGED <<inbox, cursor, from, ever>>
      BY <1>3 DEF Register, ClaimLegacy, MarkMigrated, diskVars, piVars
    <2> QED
      BY <2>1, StutterStep DEF Joined, Acked
  <1> QED
    BY <1>1, <1>2, <1>3 DEF RegisterStep

LEMMA PumpRefines ==
    ASSUME DeliveryInv, NEW s \in Sessions, PumpStep(s)
    PROVE  [Promise!Next]_(Promise!vars)
  <1>0. /\ TypeOK /\ SessionInv(s) /\ SessionInv(s)'
        /\ Len(inbox) \in Nat /\ cursor[s] \in Cursor /\ cursor'[s] \in Cursor
    BY PumpDelivery DEF DeliveryInv, TypeOK
  <1>1. CASE PumpAck(s) /\ Delivered(s)
    <2> DEFINE c == [cursor[s] EXCEPT !.offset = cursor[s].end, !.inflight = {}]
    <2>1. c \in Cursor /\ c.known /\ c.offset = cursor[s].end /\ cursor[s].known
      BY <1>0, <1>1 DEF PumpAck, Cursor
    <2>2. Write(s, c) /\ UNCHANGED <<inbox, from, ever>>
      BY <1>1 DEF PumpAck, piVars
    <2>3. c.offset \in cursor[s].offset..Len(inbox)
      BY <1>0, <1>1, <2>1 DEF Delivered, SessionInv, InBounds, Cursor
    <2>4. \A i \in from[s] + 1 .. c.offset : ForSession(s, i) => i \in ever[s]
      BY <1>0, <2>1, <2>2
         DEF SessionInv, Passed, ForSession, Write, TypeOK
    <2>5. Promise!Ack(s)
      BY <2>1, <2>2, <2>3, <2>4, AckStep
    <2> QED
      BY <2>5 DEF Promise!Next
  <1>2. CASE PumpSkip(s)
    <2> DEFINE c == [cursor[s] EXCEPT !.offset = Len(inbox), !.inflight = {}]
    <2>1. c \in Cursor /\ c.known /\ c.offset = Len(inbox) /\ cursor[s].known
      BY <1>0, <1>2 DEF PumpSkip, SessionInv, Established, Cursor
    <2>2. Write(s, c) /\ UNCHANGED <<inbox, from, ever>>
      BY <1>2 DEF PumpSkip, piVars
    <2>3. c.offset \in cursor[s].offset..Len(inbox)
      BY <1>0, <2>1 DEF SessionInv, InBounds, Cursor
    <2>4. \A i \in from[s] + 1 .. c.offset : ForSession(s, i) => i \in ever[s]
      BY <1>0, <2>1, <2>2
         DEF SessionInv, Passed, ForSession, Write, TypeOK
    <2>5. Promise!Ack(s)
      BY <2>1, <2>2, <2>3, <2>4, AckStep
    <2> QED
      BY <2>5 DEF Promise!Next
  <1>3. CASE PumpMark(s)
    <2> DEFINE c == [cursor[s] EXCEPT !.inflight = PendingItems(s),
                                      !.end = Len(inbox),
                                      !.sentHere = TRUE, !.fresh = TRUE]
    <2>1. PendingItems(s) \subseteq Nat
      BY <1>0 DEF PendingItems, Unread, Cursor
    <2>2. /\ c \in Cursor /\ c.known = cursor[s].known
          /\ c.offset = cursor[s].offset
      BY <1>0, <2>1 DEF Cursor
    <2>3. Write(s, c) /\ UNCHANGED <<inbox, from, ever>>
      BY <1>3 DEF PumpMark, piVars
    <2> QED
      BY <1>0, <2>2, <2>3, SamePlace, StutterStep
  <1>4. CASE PumpRefused(s)
    <2> DEFINE c == [cursor[s] EXCEPT !.inflight = {}]
    <2>1. /\ c \in Cursor /\ c.known = cursor[s].known
          /\ c.offset = cursor[s].offset
      BY <1>0 DEF Cursor
    <2>2. Write(s, c) /\ UNCHANGED <<inbox, from, ever>>
      BY <1>4 DEF PumpRefused, AfterRefusal, piVars
    <2> QED
      BY <1>0, <2>1, <2>2, SamePlace, StutterStep
  <1>5. CASE \/ PumpAck(s) /\ ~Delivered(s)
             \/ PumpIdle(s) \/ PumpSend(s)
    <2>1. UNCHANGED <<inbox, cursor, from, ever>>
      BY <1>5 DEF PumpAck, PumpIdle, PumpSend, diskVars, piVars
    <2> QED
      BY <2>1, StutterStep DEF Joined, Acked
  <1> QED
    BY <1>1, <1>2, <1>3, <1>4, <1>5 DEF PumpStep, PumpRead

LEMMA PiRefines ==
    ASSUME DeliveryInv, NEW s \in Sessions, PiStep(s) \/ Overdue(s)
    PROVE  [Promise!Next]_(Promise!vars)
  <1>0. /\ TypeOK /\ SessionInv(s) /\ Len(inbox) \in Nat
        /\ cursor[s] \in Cursor /\ queue[s] \in Seq(Wake)
    BY DEF DeliveryInv, TypeOK
  <1>1. CASE Persist(s)
    <2> DEFINE batch == Head(queue[s]).ids
    <2>1. batch \subseteq OwnItems(s) /\ cursor[s].known
      BY <1>0, <1>1 DEF Persist, SessionInv, OnlyOwn, Unregistered
    <2>2. /\ batch \in SUBSET (1..Len(inbox))
          /\ \A i \in batch : Promise!Addressed(s, i) /\ i > from[s]
      BY <1>0, <2>1 DEF OwnItems, ForSession, Promise!Addressed, TypeOK
    <2>3. /\ ever' = [ever EXCEPT ![s] = @ \cup batch]
          /\ UNCHANGED <<inbox, from, cursor>>
      BY <1>1 DEF Persist, diskVars
    <2>4. Promise!Show(s)
      <3> HIDE DEF batch
      <3>1. Acked' = Acked /\ Joined' = Joined /\ s \in Joined
        BY <2>1, <2>3 DEF Acked, Joined
      <3> QED
        BY <2>2, <2>3, <3>1 DEF Promise!Show, Acked, Joined
    <2> QED
      BY <2>4 DEF Promise!Next
  <1>2. CASE WakeLost(s) \/ Navigate(s) \/ Close(s)
    <2>1. UNCHANGED <<inbox, cursor, from, ever>>
      BY <1>2 DEF WakeLost, Navigate, Close, diskVars
    <2> QED
      BY <2>1, StutterStep DEF Joined, Acked
  <1>3. CASE Open(s)
    <2>1. PICK same \in BOOLEAN : Write(s, [cursor[s] EXCEPT !.sentHere = @ /\ same])
      BY <1>3 DEF Open
    <2> DEFINE c == [cursor[s] EXCEPT !.sentHere = @ /\ same]
    <2>2. /\ c \in Cursor /\ c.known = cursor[s].known
          /\ c.offset = cursor[s].offset
      BY <1>0 DEF Cursor
    <2>3. Write(s, c) /\ UNCHANGED <<inbox, from, ever>>
      BY <1>3, <2>1 DEF Open
    <2> QED
      BY <1>0, <2>2, <2>3, SamePlace, StutterStep
  <1>4. CASE Overdue(s)
    <2> DEFINE c == [cursor[s] EXCEPT !.fresh = FALSE]
    <2>1. /\ c \in Cursor /\ c.known = cursor[s].known
          /\ c.offset = cursor[s].offset
      BY <1>0 DEF Cursor
    <2>2. Write(s, c) /\ UNCHANGED <<inbox, from, ever>>
      BY <1>4 DEF Overdue
    <2> QED
      BY <1>0, <2>1, <2>2, SamePlace, StutterStep
  <1> QED
    BY <1>1, <1>2, <1>3, <1>4 DEF PiStep

LEMMA StepRefines == DeliveryInv /\ [Next]_vars => [Promise!Next]_(Promise!vars)
  <1> SUFFICES ASSUME DeliveryInv, [Next]_vars PROVE [Promise!Next]_(Promise!vars)
    OBVIOUS
  <1>1. CASE AppendInbox
    <2>1. UNCHANGED <<cursor, from, ever>>
      BY <1>1 DEF AppendInbox, piVars
    <2>2. \E a \in Sessions \cup {Everyone} : inbox' = Append(inbox, a)
      BY <1>1 DEF AppendInbox
    <2>3. Promise!Post
      BY <2>1, <2>2 DEF Promise!Post
    <2> QED
      BY <2>3 DEF Promise!Next
  <1>2. ASSUME NEW s \in Sessions,
               RegisterStep(s) \/ PumpStep(s) \/ PiStep(s) \/ Overdue(s)
        PROVE  [Promise!Next]_(Promise!vars)
    BY <1>2, RegisterRefines, PumpRefines, PiRefines
  <1>3. CASE LegacyOwnerDies \/ UNCHANGED vars
    <2>1. UNCHANGED <<inbox, cursor, from, ever>>
      BY <1>3 DEF LegacyOwnerDies, vars, diskVars, piVars
    <2> QED
      BY <2>1, StutterStep DEF Joined, Acked
  <1> QED
    BY <1>1, <1>2, <1>3 DEF Next

(* The pump keeps the promise of Mailbox: a session is shown only what is  *)
(* addressed to it, and acknowledges only what it was shown.               *)
THEOREM PumpKeepsPromise == Spec => KeepsPromise
  BY InitRefines, StepRefines, DeliveryInvariant, PTL
     DEF Spec, KeepsPromise, Promise!Spec
=============================================================================
