----------------------------- MODULE ClawTriggers -----------------------------
(***************************************************************************)
(* fireTriggers (.pi/lib/claw/daemon.ts).  A trigger that is due starts a  *)
(* run or leaves a message under a key made of its scheduled time, then    *)
(* says so in the inbox, then is saved with its next time; the daemon may  *)
(* die after each, and time passes while it is down.  Hours are numbers;   *)
(* a cron trigger is scheduled every hour.                                 *)
(***************************************************************************)
EXTENDS ClawItems, FiniteSets

CONSTANTS
    Crons, Ats, OnExits,    \* triggers, by when.kind
    Once,           \* the cron triggers that fire once
    Spawns,         \* the triggers whose action is a spawn; the others notify
    MaxTime         \* bound: hours

Triggers == Crons \cup Ats \cup OnExits

ASSUME TriggersAssumption ==
    /\ Crons \cap (Ats \cup OnExits) = {} /\ Ats \cap OnExits = {}
    /\ Once \subseteq Crons /\ Spawns \subseteq Triggers /\ MaxTime \in Nat \ {0}

VARIABLES
    now,        \* the hour
    on,         \* control.enabled: Claw is switched on
    exited,     \* the run on_exit triggers wait for has ended as they want
    triggers,   \* triggers/<id>.json: enabled, nextFireAt and whether
                \* retryAt is still to come
    runs,       \* the runs started: whose they are, their time and fireKey
    firing,     \* the trigger that is being fired, or none
    step,       \* and what is next for it
    clock,      \* the hour fireTriggers read when it began
    todo        \* the triggers it has still to look at

triggerVars == <<now, on, exited, triggers, runs, firing, step, clock, todo>>

None == "none"

TriggersInit ==
    /\ now = 1 /\ on = TRUE /\ exited = FALSE /\ runs = {}
    /\ triggers = [t \in Triggers |-> [enabled |-> TRUE, waits |-> FALSE,
                     next |-> IF t \in OnExits THEN 0 ELSE 2]]
    /\ firing = None /\ step = "idle" /\ clock = 0 /\ todo = {}

HourPasses ==
    /\ now < MaxTime /\ now' = now + 1
    /\ UNCHANGED <<on, exited, triggers, runs, firing, step, clock, todo, inbox>>

RunExits ==
    /\ ~exited /\ exited' = TRUE
    /\ UNCHANGED <<now, on, triggers, runs, firing, step, clock, todo, inbox>>

Switch ==
    /\ on' = ~on
    /\ UNCHANGED <<now, exited, triggers, runs, firing, step, clock, todo, inbox>>

RetryComes(t) ==
    /\ triggers[t].waits /\ triggers' = [triggers EXCEPT ![t].waits = FALSE]
    /\ UNCHANGED <<now, on, exited, runs, firing, step, clock, todo, inbox>>

StartFiring ==
    /\ step = "idle" /\ step' = "look" /\ clock' = now
    /\ todo' = IF on THEN Triggers ELSE {}
    /\ UNCHANGED <<now, on, exited, triggers, runs, firing, inbox>>

\* A slip: a trigger is due in its hour and in no later one.
DueInItsHour(t) ==
    /\ triggers[t].enabled /\ ~triggers[t].waits
    /\ IF t \in OnExits THEN exited ELSE triggers[t].next = clock

IsDue(t) ==
    /\ triggers[t].enabled /\ ~triggers[t].waits
    /\ IF t \in OnExits THEN exited
       ELSE triggers[t].next # 0 /\ triggers[t].next <= clock

\* The order is that of the names.
Following == CHOOSE t \in todo : TRUE

Pass(t) ==
    /\ step = "look" /\ todo # {} /\ t = Following /\ ~IsDue(t) /\ todo' = todo \ {t}
    /\ UNCHANGED <<now, on, exited, triggers, runs, firing, step, clock, inbox>>

Fire(t) ==
    /\ step = "look" /\ todo # {} /\ t = Following /\ IsDue(t)
    /\ todo' = todo \ {t} /\ firing' = t /\ step' = "act"
    /\ UNCHANGED <<now, on, exited, triggers, runs, clock, inbox>>

\* A slip: a firing is named by the hour in which it happens.
KeyOfNow(t) == <<t, clock>>

FireKey(t) == <<t, triggers[t].next>>

\* startRun, which finds the run of an earlier try by its key.
StartRun ==
    /\ step = "act" /\ firing \in Spawns /\ step' = "say"
    /\ runs' = IF \E r \in runs : r.key = FireKey(firing) THEN runs
               ELSE runs \cup {[trigger |-> firing, key |-> FireKey(firing),
                                time |-> triggers[firing].next]}
    /\ UNCHANGED <<now, on, exited, triggers, firing, clock, todo, inbox>>

LeaveMessage ==
    /\ step = "act" /\ firing \notin Spawns /\ step' = "say"
    /\ AppendInbox(<<"notify", FireKey(firing)>>, {triggers[firing].next})
    /\ UNCHANGED <<now, on, exited, triggers, runs, firing, clock, todo>>

\* A slip: a trigger that could not fire waits for its next time.
NextTime(tr, t) == [tr EXCEPT !.waits = TRUE, !.next = clock + 1]

\* The same firing is tried again later.
Retried(tr, t) == [tr EXCEPT !.waits = TRUE]

StartFails ==
    /\ step = "act" /\ firing \in Spawns
    /\ \A r \in runs : r.key # FireKey(firing)
    /\ triggers' = [triggers EXCEPT ![firing] = Retried(@, firing)]
    /\ firing' = None /\ step' = "look"
    /\ UNCHANGED <<now, on, exited, runs, clock, todo, inbox>>

SayFired ==
    /\ step = "say" /\ step' = "save"
    /\ AppendInbox(<<"fired", FireKey(firing)>>, {triggers[firing].next})
    /\ UNCHANGED <<now, on, exited, triggers, runs, firing, clock, todo>>

\* A slip: a trigger that fires once is not switched off.
StaysOn(tr, t) ==
    [tr EXCEPT !.waits = FALSE, !.next = IF t \in Crons THEN clock + 1 ELSE 0]

\* Only a cron trigger has a next time.
Fired(tr, t) ==
    [tr EXCEPT !.waits = FALSE, !.next = IF t \in Crons THEN clock + 1 ELSE 0,
               !.enabled = t \in Crons \ Once]

SaveTrigger ==
    /\ step = "save"
    /\ triggers' = [triggers EXCEPT ![firing] = Fired(@, firing)]
    /\ firing' = None /\ step' = "look"
    /\ UNCHANGED <<now, on, exited, runs, clock, todo, inbox>>

AllLooked ==
    /\ step = "look" /\ todo = {} /\ step' = "idle" /\ clock' = 0
    /\ UNCHANGED <<now, on, exited, triggers, runs, firing, todo, inbox>>

TriggersCrash ==
    /\ firing' = None /\ step' = "idle" /\ clock' = 0 /\ todo' = {}
    /\ UNCHANGED <<now, on, exited, triggers, runs, inbox>>

TriggerStep ==
    \/ StartFiring \/ StartRun \/ LeaveMessage \/ SayFired \/ SaveTrigger
    \/ AllLooked \/ \E t \in Triggers : Pass(t) \/ Fire(t)

TriggersNext ==
    \/ TriggerStep \/ StartFails \/ TriggersCrash \/ HourPasses \/ RunExits \/ Switch
    \/ \E t \in Triggers : RetryComes(t)

TriggersSpec ==
    TriggersInit /\ inbox = {} /\ [][TriggersNext]_<<triggerVars, inbox>>

-----------------------------------------------------------------------------
TriggersTypeOK ==
    /\ now \in 1..MaxTime /\ on \in BOOLEAN /\ exited \in BOOLEAN
    /\ triggers \in [Triggers -> [enabled : BOOLEAN, waits : BOOLEAN, next : Nat]]
    /\ \A r \in runs : r.trigger \in Spawns /\ r.time \in Nat
    /\ step \in {"idle", "look", "act", "say", "save"}
    /\ IF step \in {"idle", "look"} THEN firing = None ELSE firing \in Triggers
    /\ clock \in 0..now /\ todo \subseteq Triggers

\* A time a trigger was scheduled for starts one run, however often the daemon
\* dies while it fires.
FiresOnce ==
    \A q, r \in runs : q.trigger = r.trigger /\ q.time = r.time => q = r

\* A trigger is given another time, or switched off, only when what it was due
\* for was done and said.
PassedIsDone ==
    [][\A t \in Triggers :
          triggers'[t].next # triggers[t].next \/ triggers'[t].enabled # triggers[t].enabled =>
             /\ t \in Spawns => \E r \in runs : r.trigger = t /\ r.time = triggers[t].next
             /\ \E i \in inbox : i.key = <<"fired", FireKey(t)>>]_triggers

\* What a trigger is due for does not stay undone, unless Claw is switched off.
DueFires ==
    \A t \in Triggers :
        LET due == /\ triggers[t].enabled
                   /\ IF t \in OnExits THEN exited ELSE triggers[t].next \in 1..now
        IN  due ~> ~due \/ ~on
=============================================================================
