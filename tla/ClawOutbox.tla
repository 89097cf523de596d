------------------------------ MODULE ClawOutbox ------------------------------
(***************************************************************************)
(* The Hoja writes of one run: queueComment, queueState                    *)
(* (.pi/lib/claw/spawn.ts) and flushOutbox (.pi/lib/claw/daemon.ts).  The  *)
(* operations are queued in memory while the run is judged, made one after *)
(* another, and saved with the run when that is over.  Hoja may refuse a   *)
(* call, or not answer in time: then what was sent may still take effect,  *)
(* at any later moment or never.  The daemon may die after any step.       *)
(***************************************************************************)
EXTENDS Naturals, Sequences

CONSTANTS
    Reports,        \* what a worker may report: "completed", "failed" ...
    MaxReports      \* bound: reports and verdicts

ASSUME OutboxAssumption == Reports \subseteq STRING /\ MaxReports \in Nat

VARIABLES
    events,     \* the reports in the run's event log
    file,       \* the run's record: read (eventsOffset), outbox, ended
    run,        \* the copy reconcileRun works on
    job,        \* what reconcileRun does next
    hasIssue,   \* the run has a Hoja issue
    comments,   \* Claw's comments on it: marker, text, and whether one came late
    state,      \* its state in Hoja
    unanswered  \* writes whose caller gave up, and whether they took effect since

hojaVars == <<hasIssue, comments, state, unanswered>>

outboxVars == <<events, file, run, job, hojaVars>>

OutboxInit ==
    /\ events = <<>> /\ file = [read |-> 0, outbox |-> <<>>, ended |-> FALSE]
    /\ run = file /\ job = "read"
    /\ hasIssue \in BOOLEAN /\ comments = <<>> /\ state = "In Progress"
    /\ unanswered = <<>>

\* A worker's report; after it the worker may work on and report again.
Report(outcome) ==
    /\ Len(events) < MaxReports /\ events' = Append(events, outcome)
    /\ UNCHANGED <<file, run, job, hojaVars>>

\* A person moves the issue.
Moves(to) ==
    /\ hasIssue /\ state' = to
    /\ UNCHANGED <<events, file, run, job, hasIssue, comments, unanswered>>

\* The marker of a comment is its place in the outbox.
QueueComment(outbox, text) ==
    Append(outbox, [kind |-> "comment", id |-> Len(outbox) + 1, body |-> text, done |-> FALSE])

QueueState(outbox, to) ==
    Append(outbox, [kind |-> "state", id |-> 0, body |-> to, done |-> FALSE])

\* A slip: the offset goes one past the line that was read.
OnePast(n) == n + 1

Offset(n) == n

\* A report is named by its outcome and its place in the log.
Reported(r, n) ==
    IF r.ended THEN [r EXCEPT !.read = Offset(n)]
    ELSE LET said == QueueComment(r.outbox, <<events[n], n>>)
         IN  [read |-> Offset(n), ended |-> events[n] # "needs_user",
              outbox |-> IF events[n] = "completed" THEN QueueState(said, "In Review")
                         ELSE said]

\* One report of those the log holds.
ReadReport ==
    /\ job = "read" /\ run.read < Len(events) /\ run' = Reported(run, run.read + 1)
    /\ UNCHANGED <<events, file, job, hojaVars>>

Stalled(r) ==
    [r EXCEPT !.outbox = QueueComment(@, <<"stalled", 0>>), !.ended = TRUE]

\* When all are read, a run that reported nothing final may be judged to have
\* stalled, and its worker with it.
Judged(stalled) ==
    /\ job = "read" /\ run.read >= Len(events) /\ job' = "flush"
    /\ stalled => ~run.ended /\ Len(file.outbox) < MaxReports
    /\ run' = IF stalled THEN Stalled(run) ELSE run
    /\ UNCHANGED <<events, file, hojaVars>>

Undone(r) == {k \in DOMAIN r.outbox : ~r.outbox[k].done}

Op == run.outbox[CHOOSE k \in Undone(run) : \A j \in Undone(run) : k <= j]

OpDone ==
    LET k == CHOOSE k \in Undone(run) : \A j \in Undone(run) : k <= j
    IN  [run EXCEPT !.outbox[k].done = TRUE]

\* A slip: the states are compared with their case.
ShownInItsCase(op) ==
    op.kind = "comment" /\ \E k \in DOMAIN comments : comments[k].id = op.id

IsShown(op) ==
    IF op.kind = "comment" THEN \E k \in DOMAIN comments : comments[k].id = op.id
    ELSE state = op.body

\* An operation of a run without an issue, or one Hoja shows already.
Skip ==
    /\ job = "flush" /\ Undone(run) # {} /\ (hasIssue => IsShown(Op))
    /\ run' = OpDone
    /\ UNCHANGED <<events, file, job, hojaVars>>

Look ==
    /\ job = "flush" /\ Undone(run) # {} /\ hasIssue /\ ~IsShown(Op) /\ job' = "write"
    /\ UNCHANGED <<events, file, run, hojaVars>>

\* A write takes effect, in time or after its caller gave up.
Written(op, late) ==
    IF op.kind = "comment"
    THEN /\ comments' = Append(comments, [id |-> op.id, body |-> op.body, late |-> late])
         /\ UNCHANGED state
    ELSE state' = op.body /\ UNCHANGED comments

Write ==
    /\ job = "write" /\ job' = "check" /\ Written(Op, FALSE)
    /\ UNCHANGED <<events, file, run, hasIssue, unanswered>>

\* The write is read back.
Check ==
    /\ job = "check" /\ IsShown(Op) /\ run' = OpDone /\ job' = "flush"
    /\ UNCHANGED <<events, file, hojaVars>>

\* The rest of the outbox waits for another tick.
Kept(r) == r

\* A person moved the issue before the write was read back.
Mismatch ==
    /\ job = "check" /\ ~IsShown(Op) /\ job' = "save" /\ run' = Kept(run)
    /\ UNCHANGED <<events, file, hojaVars>>

\* A call is refused.
CallFails ==
    /\ job \in {"flush", "write", "check"} /\ Undone(run) # {} /\ hasIssue
    /\ job' = "save" /\ run' = Kept(run)
    /\ UNCHANGED <<events, file, hojaVars>>

GivenUp == unanswered' = Append(unanswered, [op |-> Op, landed |-> FALSE])

\* A write is not answered in time (hoja.ts: "outcome unknown for writes").
AnswerLost ==
    /\ job = "write" /\ GivenUp /\ job' = "save" /\ run' = Kept(run)
    /\ UNCHANGED <<events, file, hasIssue, comments, state>>

\* It takes effect all the same.
LandsLate ==
    \E k \in DOMAIN unanswered :
        /\ ~unanswered[k].landed /\ unanswered' = [unanswered EXCEPT ![k].landed = TRUE]
        /\ Written(unanswered[k].op, TRUE)
        /\ UNCHANGED <<events, file, run, job, hasIssue>>

Flushed ==
    /\ job = "flush" /\ Undone(run) = {} /\ job' = "save"
    /\ UNCHANGED <<events, file, run, hojaVars>>

SaveRun ==
    /\ job = "save" /\ file' = run /\ job' = "read"
    /\ UNCHANGED <<events, run, hojaVars>>

\* The daemon's process ends, before or after it sent what it was about to send.
OutboxCrash ==
    /\ job' = "read" /\ run' = file
    /\ \/ UNCHANGED unanswered
       \/ job = "write" /\ GivenUp
    /\ UNCHANGED <<events, file, hasIssue, comments, state>>

OutboxStep ==
    \/ ReadReport \/ Judged(TRUE) \/ Judged(FALSE) \/ Skip \/ Look \/ Write \/ Check
    \/ Mismatch \/ Flushed \/ SaveRun

HojaFails == CallFails \/ AnswerLost

OutboxNext ==
    \/ OutboxStep \/ HojaFails \/ LandsLate \/ OutboxCrash
    \/ \E r \in Reports : Report(r)
    \/ \E to \in {"In Progress", "Done"} : Moves(to)

OutboxSpec == OutboxInit /\ [][OutboxNext]_outboxVars

-----------------------------------------------------------------------------
OutboxTypeOK ==
    /\ events \in Seq(Reports) /\ Len(events) <= MaxReports
    /\ \A r \in {file, run} :
          /\ r.read \in 0..Len(events) /\ r.ended \in BOOLEAN
          /\ \A k \in DOMAIN r.outbox : /\ r.outbox[k].kind \in {"comment", "state"}
                                        /\ r.outbox[k].id \in {0, k}
    /\ job \in {"read", "flush", "write", "check", "save"}
    /\ job \in {"write", "check"} => hasIssue /\ Undone(run) # {}
    /\ \A k \in DOMAIN comments : comments[k].id \in Nat /\ comments[k].late \in BOOLEAN
    /\ \A k \in DOMAIN unanswered : unanswered[k].landed \in BOOLEAN

\* Whatever answers are lost and whenever the daemon dies, a comment is not made
\* twice by writes that take effect while their caller waits: where two have one
\* marker, one of them landed after its caller had given it up.
CommentOnce ==
    \A j, k \in DOMAIN comments :
        comments[j].id = comments[k].id /\ ~comments[j].late /\ ~comments[k].late => j = k

\* The plain claim, "skipped if already visible (replay safe)" (daemon.ts:516): no
\* comment is made twice.
NoCommentTwice ==
    \A j, k \in DOMAIN comments : comments[j].id = comments[k].id => j = k

\* An operation is saved as done only when Hoja has a comment with its marker.
DoneIsMarked ==
    hasIssue =>
        \A k \in DOMAIN file.outbox :
            file.outbox[k].done /\ file.outbox[k].kind = "comment" =>
                \E j \in DOMAIN comments : comments[j].id = file.outbox[k].id

\* An operation saved as done is on the issue as it was queued.
DoneIsPosted ==
    hasIssue =>
        \A k \in DOMAIN file.outbox :
            file.outbox[k].done /\ file.outbox[k].kind = "comment" =>
                \E j \in DOMAIN comments : comments[j].body = file.outbox[k].body

\* A report comes after the end: after a report that was final, or a verdict.
AfterEnd(n) ==
    \/ \E m \in 1..(n - 1) : events[m] # "needs_user"
    \/ \E k \in DOMAIN file.outbox :
          file.outbox[k].kind = "comment" /\ file.outbox[k].body = <<"stalled", 0>>

\* The comment about a report was queued, and the issue, if there is one, has a
\* comment with its marker.
OnIssue(n) ==
    \E k \in DOMAIN file.outbox :
        /\ file.outbox[k].kind = "comment" /\ file.outbox[k].body = <<events[n], n>>
        /\ hasIssue => \E j \in DOMAIN comments : comments[j].id = file.outbox[k].id

\* A report that is in the log has in the end been read and the outbox made to its
\* end, and unless the run had ended before it, the issue has a comment with the
\* marker of the report's, if Hoja does not refuse for ever.  What the comment says
\* is another matter (DoneIsPosted).
ReportsPosted ==
    \A n \in 1..MaxReports :
        n <= Len(events) ~>
            n <= file.read /\ Undone(file) = {} /\ (OnIssue(n) \/ AfterEnd(n))
=============================================================================
