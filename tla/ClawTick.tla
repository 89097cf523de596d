------------------------------- MODULE ClawTick -------------------------------
(***************************************************************************)
(* tick (.pi/lib/claw/daemon.ts): a run is reconciled and its Hoja writes  *)
(* made, then the digest is flushed, then the triggers are fired, all by   *)
(* one daemon that may die anywhere and begin the next tick from its files.*)
(* Requests and the run's own life are in ClawRequests and ClawRun.        *)
(***************************************************************************)
EXTENDS ClawDigest, ClawTriggers, ClawOutbox

CONSTANT MaxInputs  \* bound: what comes from outside, failures and crashes

ASSUME TickAssumption == MaxInputs \in Nat

VARIABLES
    phase,      \* the part of the tick
    inputs      \* inputs so far

tickVars == <<phase, inputs>>

vars == <<tickVars, inbox, digestVars, triggerVars, outboxVars>>

Init ==
    /\ DigestInit /\ TriggersInit /\ OutboxInit
    /\ inbox = {} /\ phase = "runs" /\ inputs = 0

RunsPhase ==
    /\ phase = "runs" /\ OutboxStep
    /\ phase' = IF job = "save" THEN "digest" ELSE phase
    /\ UNCHANGED <<inputs, inbox, digestVars, triggerVars>>

DigestPhase ==
    /\ phase = "digest" /\ DigestStep
    /\ UNCHANGED <<tickVars, triggerVars, outboxVars>>

NoMoreNotices ==
    /\ phase = "digest" /\ upTo = 0 /\ cursor = Len(notices) /\ phase' = "triggers"
    /\ UNCHANGED <<inputs, inbox, digestVars, triggerVars, outboxVars>>

TriggersPhase ==
    /\ phase = "triggers" /\ TriggerStep
    /\ phase' = IF step' = "idle" THEN "runs" ELSE phase
    /\ UNCHANGED <<inputs, digestVars, outboxVars>>

Tick == RunsPhase \/ DigestPhase \/ NoMoreNotices \/ TriggersPhase

RetryTimeComes ==
    /\ \E t \in Triggers : RetryComes(t)
    /\ UNCHANGED <<tickVars, digestVars, outboxVars>>

Crash ==
    /\ DigestCrash /\ TriggersCrash /\ OutboxCrash /\ phase' = "runs"

Input ==
    /\ inputs < MaxInputs /\ inputs' = inputs + 1
    /\ \/ Crash
       \/ /\ phase = "runs" /\ \E owner \in Owners : NewNotice(owner)
          /\ UNCHANGED <<phase, triggerVars, outboxVars>>
       \/ /\ HourPasses \/ RunExits \/ Switch \/ StartFails
          /\ UNCHANGED <<phase, digestVars, outboxVars>>
       \/ /\ \/ HojaFails
             \/ \E r \in Reports : Report(r)
             \/ \E to \in {"In Progress", "Done"} : Moves(to)
          /\ UNCHANGED <<phase, inbox, digestVars, triggerVars>>

\* A write the daemon gave up takes effect, whatever the daemon is at.
HojaCatchesUp ==
    /\ LandsLate
    /\ UNCHANGED <<tickVars, inbox, digestVars, triggerVars>>

Next == Tick \/ RetryTimeComes \/ HojaCatchesUp \/ Input

Spec == Init /\ [][Next]_vars

\* The daemon goes on with its tick, and a retry's time comes.  Failures of Hoja
\* and of launches are inputs, so there are not for ever more of them.
FairSpec == Spec /\ WF_vars(Tick) /\ WF_vars(RetryTimeComes)

-----------------------------------------------------------------------------
TypeOK ==
    /\ DigestTypeOK /\ TriggersTypeOK /\ OutboxTypeOK
    /\ phase \in {"runs", "digest", "triggers"} /\ inputs \in 0..MaxInputs

\* daemon.ts:3 promises that every step may be taken again after a crash: no
\* notice is digested and no time fired twice, and no comment is made twice unless
\* one of the two landed after the daemon had given its write up.
DoneOnce == DigestedOnce /\ FiresOnce /\ CommentOnce

\* What the daemon put behind it was done: an owner whose notices it passed has
\* an item, a trigger that has another time fired, an operation that is marked
\* as done is in Hoja.
NothingSkipped == NoOwnerSkipped /\ PassedIsDone /\ []DoneIsMarked
=============================================================================
