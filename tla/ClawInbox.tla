------------------------------ MODULE ClawInbox ------------------------------
(***************************************************************************)
(* Delivery of the Claw inbox into the transcripts of the orchestrator      *)
(* sessions: .pi/lib/claw/inbox.ts (pumpInbox, step), the cursor part of    *)
(* .pi/lib/claw/store.ts (appendInbox, registerSession) and the pump of     *)
(* extensions/claw/extension.ts.                                           *)
(*                                                                         *)
(* inbox.jsonl is append-only; the i-th item has id i.  Every session has  *)
(* one cursor file.  A wake that Pi accepted sits in a queue in memory     *)
(* (queue) and is in the session's transcript only when Pi persisted it.   *)
(* The session's process may end at any step; the cursor file stays.       *)
(*                                                                         *)
(* A pump runs without yielding to anything else in its process, but other *)
(* processes run between its file writes, and its own may die there.  Item *)
(* keys are distinct, so appendInbox always appends.                       *)
(***************************************************************************)
EXTENDS Naturals, Sequences

CONSTANTS
    Sessions,       \* Pi session ids
    Everyone,       \* the address of an item without an owner
    LegacyItems,    \* items written before sessions had cursors of their own
    LegacyOwner,    \* the session orchestrator.json names, or NoLegacy
    NoLegacy,
    Readers,        \* bound: sessions whose chat goes on once it registered
    MaxItems,       \* bound: length of the inbox
    MaxQueue        \* bound: wakes a session may have queued at a time

ASSUME InboxAssumption ==
    /\ Everyone \notin Sessions /\ NoLegacy \notin Sessions
    /\ LegacyOwner \in Sessions \cup {NoLegacy}
    /\ Readers \subseteq Sessions
    /\ LegacyItems \in Nat /\ MaxItems \in Nat /\ MaxQueue \in Nat \ {0}

VARIABLES
    inbox,      \* inbox.jsonl: the owner of each item
    cursor,     \* sessions/<id>.json
    from,       \* where a session's first cursor started
    heir,       \* sessions/.legacy-heir: the sessions it names, at most one
    migrated,   \* orchestrator.json carries migratedTo
    orphaned,   \* the process that owns orchestrator.json is gone
    step,       \* what the session's process is doing
    open,       \* the session is open in a process, with Claw on
    queue,      \* Pi: accepted wakes, oldest first, that are not persisted
    branch,     \* Pi: items on the transcript branch the session is on
    ever        \* items that were persisted in the session, on any branch

diskVars == <<inbox, cursor, from, heir, migrated, orphaned>>
piVars   == <<open, queue, branch, ever>>
vars     == <<diskVars, step, piVars>>

\* inflight = {} when there is no batch in flight.  sentHere: by the process
\* that has the session open; fresh: less than RESEND_AFTER_MS ago.
Cursor == [known : BOOLEAN, offset : Nat, inflight : SUBSET Nat, end : Nat,
           sentHere : BOOLEAN, fresh : BOOLEAN]

NoCursor == [known |-> FALSE, offset |-> 0, inflight |-> {}, end |-> 0,
             sentHere |-> FALSE, fresh |-> FALSE]

\* old: accepted RESEND_AFTER_MS ago.
Wake == [ids : SUBSET Nat, old : BOOLEAN]

Step == {"idle", "claim", "register", "migrate", "read", "send"}

\* An old store may have been left with its items in flight.
Init ==
    /\ inbox  = [i \in 1..LegacyItems |-> Everyone]
    /\ cursor = [s \in Sessions |-> NoCursor]
    /\ from   = [s \in Sessions |-> 0]
    /\ heir = {} /\ migrated = FALSE /\ orphaned \in BOOLEAN
    /\ step   = [s \in Sessions |-> "idle"]
    /\ open   = [s \in Sessions |-> FALSE]
    /\ queue  = [s \in Sessions |-> <<>>]
    /\ branch = [s \in Sessions |-> {}]
    /\ ever   = [s \in Sessions |-> {}]

Goto(s, p)  == step' = [step EXCEPT ![s] = p]
Write(s, c) == cursor' = [cursor EXCEPT ![s] = c]

-----------------------------------------------------------------------------
(* appendInbox: the owner is that of the run or trigger the item is about; *)
(* a session registers before it can start either.                        *)
AppendInbox ==
    /\ Len(inbox) < MaxItems
    /\ \E o \in {s \in Sessions : cursor[s].known} \cup {Everyone} :
          inbox' = Append(inbox, o)
    /\ UNCHANGED <<cursor, from, heir, migrated, orphaned, step, piVars>>

-----------------------------------------------------------------------------
(* registerSession.                                                        *)

\* The single cursor of an old store goes to the session it names, or to any
\* once its process is gone.
Eligible(s) ==
    /\ LegacyOwner # NoLegacy /\ ~migrated
    /\ LegacyOwner = s \/ orphaned

Register(s) ==
    /\ open[s] /\ step[s] = "idle" /\ ~cursor[s].known
    /\ Goto(s, IF Eligible(s) THEN "claim" ELSE "register")
    /\ UNCHANGED <<diskVars, piVars>>

\* A slip: the check made before is trusted, the exclusive create is dropped.
AnyoneInherits(s) == TRUE

\* claimLegacy: only one session can create the file; it may find its own.
Inherits(s) == heir \subseteq {s}

ClaimLegacy(s) ==
    /\ step[s] = "claim"
    /\ heir' = IF Inherits(s) THEN heir \cup {s} ELSE heir
    /\ Goto(s, IF Inherits(s) THEN "migrate" ELSE "register")
    /\ UNCHANGED <<inbox, cursor, from, migrated, orphaned, piVars>>

\* A new session starts at the inbox end.
RegisterNew(s) ==
    /\ step[s] = "register"
    /\ Write(s, [NoCursor EXCEPT !.known = TRUE, !.offset = Len(inbox)])
    /\ from' = [from EXCEPT ![s] = Len(inbox)]
    /\ Goto(s, "idle")
    /\ UNCHANGED <<inbox, heir, migrated, orphaned, piVars>>

\* The heir takes the old cursor over, with the batch that was in flight.
RegisterHeir(s) ==
    /\ step[s] = "migrate" /\ ~cursor[s].known
    /\ \E batch \in {{}, 1..LegacyItems}, here \in BOOLEAN, young \in BOOLEAN :
          Write(s, [known |-> TRUE, offset |-> 0, inflight |-> batch,
                    end |-> LegacyItems, sentHere |-> here, fresh |-> young])
    /\ UNCHANGED <<inbox, from, heir, migrated, orphaned, step, piVars>>

MarkMigrated(s) ==
    /\ step[s] = "migrate" /\ cursor[s].known
    /\ migrated' = TRUE
    /\ Goto(s, "idle")
    /\ UNCHANGED <<inbox, cursor, from, heir, orphaned, piVars>>

-----------------------------------------------------------------------------
(* pumpInbox, every 3 s: step.                                             *)

\* Every item of the batch in flight is in this session's transcript.
Delivered(s) ==
    cursor[s].inflight # {} /\ cursor[s].inflight \subseteq branch[s]

\* A slip: an overlapping tick sends again what was just sent.
NeverWaits(s) == FALSE

\* A slip: a wake that was lost is waited for for ever.
WaitsForEver(s) == cursor[s].inflight # {} /\ cursor[s].sentHere

Waiting(s) ==
    /\ cursor[s].inflight # {} /\ ~Delivered(s)
    /\ cursor[s].sentHere /\ cursor[s].fresh

\* The batch is acknowledged if it was delivered; otherwise it is due again.
PumpAck(s) ==
    /\ open[s] /\ step[s] = "idle" /\ cursor[s].known /\ ~Waiting(s)
    /\ IF Delivered(s)
       THEN Write(s, [cursor[s] EXCEPT !.offset = cursor[s].end,
                                       !.inflight = {}])
       ELSE UNCHANGED cursor
    /\ Goto(s, "read")
    /\ UNCHANGED <<inbox, from, heir, migrated, orphaned, piVars>>

\* A slip: every session is sent every item.
ForAnySession(s, i) == TRUE

ForSession(s, i) == inbox[i] \in {s, Everyone}

Unread(s) == cursor[s].offset + 1 .. Len(inbox)

PendingItems(s) ==
    {i \in Unread(s) : ForSession(s, i) /\ i \notin branch[s]}

\* Nothing was appended since the offset.
PumpIdle(s) ==
    /\ step[s] = "read" /\ Unread(s) = {}
    /\ Goto(s, "idle")
    /\ UNCHANGED <<diskVars, piVars>>

\* All that was appended is another session's, or in the transcript already.
PumpSkip(s) ==
    /\ step[s] = "read" /\ Unread(s) # {} /\ PendingItems(s) = {}
    /\ Write(s, [cursor[s] EXCEPT !.offset = Len(inbox), !.inflight = {}])
    /\ Goto(s, "idle")
    /\ UNCHANGED <<inbox, from, heir, migrated, orphaned, piVars>>

PumpMark(s) ==
    /\ step[s] = "read" /\ PendingItems(s) # {}
    /\ Write(s, [cursor[s] EXCEPT !.inflight = PendingItems(s),
                                  !.end = Len(inbox),
                                  !.sentHere = TRUE, !.fresh = TRUE])
    /\ Goto(s, "send")
    /\ UNCHANGED <<inbox, from, heir, migrated, orphaned, piVars>>

\* wake.send: dispatched to Pi, which is not persistence.
PumpSend(s) ==
    /\ step[s] = "send"
    /\ queue' = [queue EXCEPT ![s] = Append(@, [ids |-> cursor[s].inflight, old |-> FALSE])]
    /\ Goto(s, "idle")
    /\ UNCHANGED <<diskVars, open, branch, ever>>

\* A slip: a wake Pi refused is forgotten with its items.
RefusedIsDropped(c) == [c EXCEPT !.offset = c.end, !.inflight = {}]

AfterRefusal(c) == [c EXCEPT !.inflight = {}]

PumpRefused(s) ==
    /\ step[s] = "send"
    /\ Write(s, AfterRefusal(cursor[s]))
    /\ Goto(s, "idle")
    /\ UNCHANGED <<inbox, from, heir, migrated, orphaned, piVars>>

-----------------------------------------------------------------------------
(* Pi and its user.  Pi acts for a session between two pumps.              *)

\* The oldest queued wake is appended to the transcript.
Persist(s) ==
    /\ open[s] /\ step[s] = "idle" /\ queue[s] # <<>>
    /\ queue'  = [queue EXCEPT ![s] = Tail(@)]
    /\ branch' = [branch EXCEPT ![s] = @ \cup Head(queue[s]).ids]
    /\ ever'   = [ever EXCEPT ![s] = @ \cup Head(queue[s]).ids]
    /\ UNCHANGED <<diskVars, step, open>>

\* sendMessage failed after the wake was accepted, or the turn was aborted.
WakeLost(s) ==
    /\ open[s] /\ step[s] = "idle" /\ queue[s] # <<>>
    /\ queue' = [queue EXCEPT ![s] = Tail(@)]
    /\ UNCHANGED <<diskVars, step, open, branch, ever>>

\* The user goes to another point of the session tree.
Navigate(s) ==
    /\ open[s] /\ step[s] = "idle"
    /\ \E b \in SUBSET ever[s] : branch' = [branch EXCEPT ![s] = b]
    /\ UNCHANGED <<diskVars, step, open, queue, ever>>

\* The process ends (at any step) or leaves the session (between pumps):
\* queued wakes are gone.
Close(s) ==
    /\ open[s]
    /\ open'  = [open EXCEPT ![s] = FALSE]
    /\ queue' = [queue EXCEPT ![s] = <<>>]
    /\ Goto(s, "idle")
    /\ UNCHANGED <<diskVars, branch, ever>>

\* Opened again, by the same process or by another one; a session that has a
\* cursor keeps it.
Open(s) ==
    /\ ~open[s]
    /\ open' = [open EXCEPT ![s] = TRUE]
    /\ \E same \in BOOLEAN :
          Write(s, [cursor[s] EXCEPT !.sentHere = @ /\ same])
    /\ UNCHANGED <<inbox, from, heir, migrated, orphaned, step, queue, branch,
                   ever>>

\* RESEND_AFTER_MS pass.
Overdue(s) ==
    /\ cursor[s].fresh /\ step[s] = "idle" /\ Len(queue[s]) < MaxQueue
    /\ Write(s, [cursor[s] EXCEPT !.fresh = FALSE])
    /\ queue' = [queue EXCEPT ![s] = [k \in DOMAIN @ |-> [@[k] EXCEPT !.old = TRUE]]]
    /\ UNCHANGED <<inbox, from, heir, migrated, orphaned, step, open, branch,
                   ever>>

LegacyOwnerDies ==
    /\ ~orphaned /\ orphaned' = TRUE
    /\ UNCHANGED <<inbox, cursor, from, heir, migrated, step, piVars>>

RegisterStep(s) ==
    \/ Register(s) \/ ClaimLegacy(s) \/ RegisterNew(s) \/ RegisterHeir(s)
    \/ MarkMigrated(s)

PumpRead(s) ==
    /\ s \in Readers
    /\ PumpIdle(s) \/ PumpSkip(s) \/ PumpMark(s)

PumpStep(s) == PumpAck(s) \/ PumpRead(s) \/ PumpSend(s) \/ PumpRefused(s)

PiStep(s) ==
    Persist(s) \/ WakeLost(s) \/ Navigate(s) \/ Close(s) \/ Open(s)

Next ==
    \/ AppendInbox
    \/ \E s \in Sessions :
          RegisterStep(s) \/ PumpStep(s) \/ PiStep(s) \/ Overdue(s)
    \/ LegacyOwnerDies

Spec == Init /\ [][Next]_vars

(* Fairness.  The pump is a timer, the cursor is re-read on each of its     *)
(* ticks, and time passes.  Of Pi and its user it is assumed that a chat is  *)
(* opened again, that Pi does not refuse every wake, and that it persists  *)
(* some of the wakes it goes on accepting.                                 *)
FairSpec ==
    /\ Spec
    /\ \A s \in Readers :
          /\ WF_vars(RegisterStep(s))
          /\ SF_vars(PumpAck(s)) /\ SF_vars(PumpRead(s)) /\ SF_vars(PumpSend(s))
          /\ SF_vars(Persist(s))
          /\ WF_vars(Open(s)) /\ WF_vars(Overdue(s))

-----------------------------------------------------------------------------
TypeOK ==
    /\ inbox \in Seq(Sessions \cup {Everyone})
    /\ cursor \in [Sessions -> Cursor]
    /\ from \in [Sessions -> Nat]
    /\ heir \subseteq Sessions
    /\ migrated \in BOOLEAN /\ orphaned \in BOOLEAN
    /\ step \in [Sessions -> Step]
    /\ open \in [Sessions -> BOOLEAN]
    /\ queue \in [Sessions -> Seq(Wake)]
    /\ branch \in [Sessions -> SUBSET Nat]
    /\ ever \in [Sessions -> SUBSET Nat]

(* An item a session's cursor has passed was persisted in its transcript:  *)
(* no crash, lost wake, resend or branch switch loses one.                 *)
NothingLost ==
    \A s \in Sessions : cursor[s].known =>
        \A i \in from[s] + 1 .. cursor[s].offset :
            ForSession(s, i) => i \in ever[s]

(* What the old cursor had not delivered is handed to one session, however  *)
(* many register at once and whoever of them dies on the way.              *)
Receives(s, i) == cursor[s].known /\ (i > cursor[s].offset \/ i \in ever[s])

OneHeir ==
    \A s, t \in Sessions, i \in 1..LegacyItems :
        Receives(s, i) /\ Receives(t, i) => s = t

(* Pi is not given an item again while it may still persist a wake of less *)
(* than RESEND_AFTER_MS ago that carries it.                               *)
NoEarlyResend ==
    \A s \in Sessions : \A j, k \in DOMAIN queue[s] :
        j < k /\ queue[s][j].ids \cap queue[s][k].ids # {} => queue[s][j].old

(* What Mailbox promises, item by item.                                    *)
Promise == INSTANCE Mailbox WITH
    posted <- inbox,
    joined <- {s \in Sessions : cursor[s].known},
    shown  <- ever,
    acked  <- [s \in Sessions |-> cursor[s].offset]

KeepsPromise == Promise!Spec

(* Every item addressed to a session reaches its transcript.               *)
EveryItemShown ==
    \A s \in Readers, i \in 1..MaxItems :
        Promise!Due(s, i) ~> i \in ever[s]

-----------------------------------------------------------------------------
(* extension.ts:211 "kept in the store's inbox, so `/claw status` and the   *)
(* next session still see it": some session that registered was shown an   *)
(* unaddressed item, or still will be.                                     *)
NextSessionSees ==
    \A i \in DOMAIN inbox :
        inbox[i] = Everyone /\ (\E s \in Sessions : cursor[s].known) =>
            \E s \in Sessions : Receives(s, i)
=============================================================================
