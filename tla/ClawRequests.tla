---------------------------- MODULE ClawRequests ----------------------------
(***************************************************************************)
(* The request protocol between Claw's clients and its daemon:             *)
(* .pi/lib/claw/orchestrator.ts (request, waitForResponse, settle,          *)
(* ensureDaemon) and daemon.ts (processRequests, handleRequest for spawn,   *)
(* send and withdraw, the idle exit of runDaemon).                         *)
(*                                                                         *)
(* Client and daemon share files only.  A client writes a request file,    *)
(* waits for its response file, and withdraws the request when it has      *)
(* waited long enough.  The daemon lists the request files once per tick,  *)
(* serves them in the order of their ids, and may die between any two of   *)
(* its writes; so may the client at any time.                              *)
(*                                                                         *)
(* A spawn records its run before its first side effect, under an id made  *)
(* of the request id.  A send types a text into a tab and leaves no record *)
(* of it but the response.  What a started run does is ClawLaunch.         *)
(***************************************************************************)
EXTENDS Naturals

CONSTANTS
    Spawns, Sends,  \* ids of spawn and of send requests
    NoFile,         \* no request file
    MaxCrashes,     \* bound: how often the daemon may die
    ClockGoesBack   \* TRUE: a later request may get a smaller id

ASSUME RequestsAssumption ==
    /\ Spawns \cap Sends = {}
    /\ NoFile \notin (Spawns \cup Sends) \X {"request", "withdraw"}
    /\ MaxCrashes \in Nat
    /\ ClockGoesBack \in BOOLEAN

Requests == Spawns \cup Sends

VARIABLES
    client,     \* what the caller of a request is doing, or how it returned
    file,       \* request files; <<q, "withdraw">> is the withdrawal of q
    response,   \* response files
    late,       \* the request's expiresAt, which is also its timeout, passed
    run,        \* spawns whose run is recorded
    typed,      \* how often the text of a send was typed
    enabled,    \* control.json
    daemon,     \* "down", between two ticks, in a pass, or about to exit
    todo,       \* request files of this pass that are still to be served
    serving,    \* what is done for the one being served
    crashes

clientVars == <<client, late>>
diskVars   == <<file, response, run>>
daemonVars == <<daemon, todo, serving, crashes>>
vars == <<clientVars, diskVars, typed, enabled, daemonVars>>

File == Requests \X {"request", "withdraw"}
Req(q)  == <<q, "request">>
Wdr(q)  == <<q, "withdraw">>

\* "accepted": settled as dispatched, with its result; "dispatched": a run
\* exists, its result does not yet.
Response == {"none", "ok", "refused", "not_started", "accepted", "dispatched"}
Outcome  == {"done", "not_started", "pending", "error"}
Client   == {"new", "written", "waiting", "withdrawing", "gone"}
               \cup Outcome
Daemon   == {"down", "ready", "pass", "exiting"}
\* "act": past the checks, about to start the run or type the text; "enter":
\* the text is typed, Enter is not; then the answer that is about to be
\* written, and the removal of the request file.
Answers == Response \ {"none"}
At == {"next", "act", "enter", "remove"} \cup Answers

Init ==
    /\ client = [q \in Requests |-> "new"]
    /\ late = [q \in Requests |-> FALSE]
    /\ file = {}
    /\ response = [f \in File |-> "none"]
    /\ run = {}
    /\ typed = [q \in Sends |-> 0]
    /\ enabled \in BOOLEAN
    /\ daemon = "down"
    /\ todo = {}
    /\ serving = [of |-> NoFile, at |-> "next"]
    /\ crashes = 0

-----------------------------------------------------------------------------
(* The client: request.                                                    *)

Becomes(q, c) == client' = [client EXCEPT ![q] = c]

WriteRequest(q) ==
    /\ client[q] = "new"
    /\ file' = file \cup {Req(q)}
    /\ Becomes(q, "written")
    /\ UNCHANGED <<late, response, run, typed, enabled, daemonVars>>

\* ensureDaemon: a daemon is started unless one holds the lock.
Start == daemon' = IF daemon = "down" THEN "ready" ELSE daemon

EnsureDaemon(q) ==
    /\ client[q] = "written"
    /\ Start
    /\ Becomes(q, "waiting")
    /\ UNCHANGED <<late, diskVars, typed, enabled, todo, serving, crashes>>

\* A slip: the daemon is looked after once, when the request is written.
EnsuredOnce(q) == FALSE

\* waitForResponse looks after the daemon every 5 s; the wait for a
\* withdrawal is over before it would.
EnsuresAgain(q) == client[q] = "waiting"

Recheck(q) ==
    /\ EnsuresAgain(q) /\ daemon = "down"
    /\ Start
    /\ UNCHANGED <<clientVars, diskVars, typed, enabled, todo, serving,
                   crashes>>

\* settle.
Settled(res) ==
    CASE res = "ok" -> "done"
      [] res = "not_started" -> "not_started"
      [] OTHER -> "error"

ReadResponse(q) ==
    /\ client[q] = "waiting" /\ response[Req(q)] # "none"
    /\ Becomes(q, Settled(response[Req(q)]))
    /\ UNCHANGED <<late, diskVars, typed, enabled, daemonVars>>

\* The timeout: the request is withdrawn.
WriteWithdraw(q) ==
    /\ client[q] = "waiting" /\ late[q]
    /\ file' = file \cup {Wdr(q)}
    /\ Becomes(q, "withdrawing")
    /\ UNCHANGED <<late, response, run, typed, enabled, daemonVars>>

\* "accepted" without a result is a run whose launch is still going on.
Withdrawn(res) ==
    CASE res = "not_started" -> "not_started"
      [] res = "accepted" -> "done"
      [] res = "dispatched" -> "pending"
      [] OTHER -> "error"

ReadWithdrawal(q) ==
    /\ client[q] = "withdrawing" /\ response[Wdr(q)] # "none"
    /\ Becomes(q, Withdrawn(response[Wdr(q)]))
    /\ UNCHANGED <<late, diskVars, typed, enabled, daemonVars>>

\* A slip: a withdrawal nobody answered is taken for granted.
AssumeWithdrawn == "not_started"

Unanswered == "pending"

WithdrawWaitOver(q) ==
    /\ client[q] = "withdrawing" /\ response[Wdr(q)] = "none"
    /\ Becomes(q, Unanswered)
    /\ UNCHANGED <<late, diskVars, typed, enabled, daemonVars>>

\* The session that asked is closed.
ClientDies(q) ==
    /\ client[q] \in {"written", "waiting", "withdrawing"}
    /\ Becomes(q, "gone")
    /\ UNCHANGED <<late, diskVars, typed, enabled, daemonVars>>

-----------------------------------------------------------------------------
(* The daemon: processRequests.                                            *)

Serves(f, at) == serving' = [of |-> f, at |-> at]

\* listRequests: what is written from now on waits for the next tick.
ListRequests ==
    /\ daemon = "ready"
    /\ daemon' = "pass" /\ todo' = file
    /\ UNCHANGED <<clientVars, diskVars, typed, enabled, serving, crashes>>

\* Ids begin with the wall clock: a withdrawal sorts behind its request
\* unless the clock was set back in between.
NextUp(f) ==
    /\ daemon = "pass" /\ serving.at = "next" /\ f \in todo
    /\ ~ClockGoesBack /\ f[2] = "withdraw" => Req(f[1]) \notin todo

\* The response file marks the request as served.
SkipServed(f) ==
    /\ NextUp(f) /\ response[f] # "none"
    /\ Serves(f, "remove")
    /\ UNCHANGED <<clientVars, diskVars, typed, enabled, daemon, todo, crashes>>

\* A slip: the deadline is checked when the spawn is queued only.
NeverExpires(q) == FALSE

\* A slip: a run that exists is forgotten once the deadline has passed.
ExpiresAnyway(q) == late[q]

Expired(q) == late[q] /\ q \notin run

ServeSpawn(q) ==
    /\ NextUp(Req(q)) /\ response[Req(q)] = "none" /\ q \in Spawns
    /\ Serves(Req(q), IF Expired(q) THEN "not_started"
                      ELSE IF ~enabled THEN "refused"
                      ELSE IF q \in run THEN "ok" ELSE "act")
    /\ UNCHANGED <<clientVars, diskVars, typed, enabled, daemon, todo, crashes>>

\* startRun: the task or its Hoja project is refused, or the run is recorded.
\* What its launch then comes to is not the caller's error.
StartRun(q) ==
    /\ serving = [of |-> Req(q), at |-> "act"] /\ q \in Spawns
    /\ \/ run' = run \cup {q} /\ Serves(Req(q), "ok")
       \/ UNCHANGED run /\ Serves(Req(q), "refused")
    /\ UNCHANGED <<clientVars, file, response, typed, enabled, daemon, todo,
                   crashes>>

\* A send is refused when its run is gone or is asking its user.
ServeSend(q) ==
    /\ NextUp(Req(q)) /\ response[Req(q)] = "none" /\ q \in Sends
    /\ \E at \in {"act", "refused"} : Serves(Req(q), at)
    /\ UNCHANGED <<clientVars, diskVars, typed, enabled, daemon, todo, crashes>>

\* sendToBlock: the text, then Enter.  Either call may fail, before it has
\* had its effect or after.
TypeText(q) ==
    /\ serving = [of |-> Req(q), at |-> "act"] /\ q \in Sends
    /\ \E at \in {"enter", "refused"} : Serves(Req(q), at)
    /\ \/ typed' = [typed EXCEPT ![q] = @ + 1]
       \/ serving'.at = "refused" /\ UNCHANGED typed
    /\ UNCHANGED <<clientVars, diskVars, enabled, daemon, todo, crashes>>

PressEnter(q) ==
    /\ serving = [of |-> Req(q), at |-> "enter"]
    /\ \E at \in {"ok", "refused"} : Serves(Req(q), at)
    /\ UNCHANGED <<clientVars, diskVars, typed, enabled, daemon, todo, crashes>>

\* A slip: only an answered request counts as dispatched.
NeverDispatched(q) == FALSE

Dispatched(q) == q \in run

Undecided(q) == response[Req(q)] = "none" /\ ~Dispatched(q)

\* withdraw: what the target came to, or the answer that it never will.
Fate(q) ==
    CASE response[Req(q)] = "ok" -> "accepted"
      [] response[Req(q)] \in {"not_started", "refused"} -> response[Req(q)]
      [] OTHER -> IF Dispatched(q) THEN "dispatched" ELSE "not_started"

ServeWithdraw(q) ==
    /\ NextUp(Wdr(q)) /\ response[Wdr(q)] = "none"
    /\ Serves(Wdr(q), Fate(q))
    /\ response' = IF Undecided(q)
                   THEN [response EXCEPT ![Req(q)] = "not_started"]
                   ELSE response
    /\ UNCHANGED <<clientVars, file, run, typed, enabled, daemon, todo, crashes>>

WriteResponse ==
    /\ serving.at \in Answers
    /\ response' = [response EXCEPT ![serving.of] = serving.at]
    /\ Serves(serving.of, "remove")
    /\ UNCHANGED <<clientVars, file, run, typed, enabled, daemon, todo, crashes>>

RemovedWhen == {"remove"}

RemoveRequest ==
    /\ serving.at \in RemovedWhen
    /\ file' = file \ {serving.of}
    /\ todo' = todo \ {serving.of}
    /\ Serves(NoFile, "next")
    /\ UNCHANGED <<clientVars, response, run, typed, enabled, daemon, crashes>>

\* The rest of the tick, then hasWork: with no request file left and nothing
\* else to do for long enough, the daemon exits.
EndPass ==
    /\ daemon = "pass" /\ todo = {}
    /\ \/ daemon' = "ready"
       \/ file = {} /\ daemon' = "exiting"
    /\ UNCHANGED <<clientVars, diskVars, typed, enabled, todo, serving, crashes>>

\* releaseLock.
Exit ==
    /\ daemon = "exiting" /\ daemon' = "down"
    /\ UNCHANGED <<clientVars, diskVars, typed, enabled, todo, serving, crashes>>

Crash ==
    /\ daemon # "down" /\ crashes < MaxCrashes
    /\ daemon' = "down" /\ todo' = {} /\ Serves(NoFile, "next")
    /\ crashes' = crashes + 1
    /\ UNCHANGED <<clientVars, diskVars, typed, enabled>>

-----------------------------------------------------------------------------
(* The user and the clock.                                                 *)

\* writeControl: /claw on, /claw off.
Toggle ==
    /\ enabled' = ~enabled
    /\ UNCHANGED <<clientVars, diskVars, typed, daemonVars>>

\* The clock passes the deadline of a request that was made.
Expire(q) ==
    /\ client[q] # "new" /\ ~late[q]
    /\ late' = [late EXCEPT ![q] = TRUE]
    /\ UNCHANGED <<client, diskVars, typed, enabled, daemonVars>>

ClientStep(q) ==
    \/ WriteRequest(q) \/ EnsureDaemon(q) \/ Recheck(q) \/ ReadResponse(q)
    \/ WriteWithdraw(q) \/ ReadWithdrawal(q) \/ WithdrawWaitOver(q)
    \/ ClientDies(q)

Serve(q) ==
    \/ ServeSpawn(q) \/ StartRun(q)
    \/ ServeSend(q) \/ TypeText(q) \/ PressEnter(q)
    \/ ServeWithdraw(q)

DaemonStep ==
    \/ ListRequests \/ \E f \in File : SkipServed(f)
    \/ \E q \in Requests : Serve(q)
    \/ WriteResponse \/ RemoveRequest \/ EndPass

Next ==
    \/ \E q \in Requests : ClientStep(q)
    \/ DaemonStep \/ Exit \/ Crash
    \/ Toggle \/ \E q \in Requests : Expire(q)

Spec == Init /\ [][Next]_vars

(* Fairness.  The client polls and the daemon ticks; every call they make  *)
(* has a timeout, so none of their steps lasts for ever.  Nothing is       *)
(* assumed of the client's own timeout: the wait must end without it.      *)
FairSpec ==
    /\ Spec
    /\ \A q \in Requests :
          WF_vars(EnsureDaemon(q)) /\ WF_vars(Recheck(q))
              /\ WF_vars(ReadResponse(q))
    /\ WF_vars(DaemonStep) /\ WF_vars(Exit)

-----------------------------------------------------------------------------
TypeOK ==
    /\ client \in [Requests -> Client]
    /\ late \in [Requests -> BOOLEAN]
    /\ file \subseteq File
    /\ response \in [File -> Response]
    /\ run \subseteq Spawns
    /\ typed \in [Sends -> Nat]
    /\ enabled \in BOOLEAN
    /\ daemon \in Daemon
    /\ todo \subseteq File
    /\ serving \in [of : File \cup {NoFile}, at : At]
    /\ crashes \in 0..MaxCrashes

(* A caller told that nothing was started may submit the request again: no *)
(* run of the old one exists, now or ever.  A send leaves no record before *)
(* its response, so for it the daemon must not have died.                  *)
NotStartedIsFinal ==
    /\ \A q \in Spawns : client[q] = "not_started" => q \notin run
    /\ \A q \in Sends :
          client[q] = "not_started" /\ crashes = 0 => typed[q] = 0

(* A caller told that its request was done can rely on it.                 *)
DoneIsDone ==
    /\ \A q \in Spawns : client[q] = "done" => q \in run
    /\ \A q \in Sends : client[q] = "done" => typed[q] > 0

(* What a caller was told stays true: an answer is not taken back.         *)
AnswersAreTrue == NotStartedIsFinal /\ DoneIsDone

(* A request file is gone only once its response is there, whatever dies   *)
(* between the two: no caller waits for an answer nobody will write.       *)
NoRequestForgotten ==
    \A q \in Requests :
        client[q] # "new" /\ Req(q) \notin file => response[Req(q)] # "none"

(* A spawn that was not dispatched when its deadline passed never is, by   *)
(* this daemon or the next.                                                *)
Taken(q) == q \in run \/ serving = [of |-> Req(q), at |-> "act"]

ExpiredSpawnNeverStarts ==
    [][\A q \in Spawns : late[q] /\ ~Taken(q) => ~Taken(q)']_vars

(* A response, once written, is never replaced by another answer: the      *)
(* client and the withdrawal read the same one.                            *)
ResponseIsFinal ==
    [][\A f \in File : response[f] # "none" => response'[f] = response[f]]_vars

(* A client that waits is answered, with the daemon dying and exiting for  *)
(* want of work just as the request is written.                            *)
WaitingIsAnswered ==
    \A q \in Requests : client[q] = "waiting" ~> client[q] # "waiting"

-----------------------------------------------------------------------------
(* daemon.ts:310 "Serves each request once. [...] a replayed request is a  *)
(* no-op": a text is typed once.                                           *)
ServedOnce == \A q \in Sends : typed[q] <= 1

(* orchestrator.ts:74 "Queues one request with an expiry the daemon        *)
(* enforces [...]: an undispatched request is refused for good (never      *)
(* starts later)": a text is not typed for a caller that gave up on it     *)
(* before the daemon took it up.                                           *)
Typing(q) == serving.of = Req(q) /\ serving.at \in {"act", "enter"}

WithdrawnNeverStarts ==
    [][\A q \in Sends :
          client[q] \in {"withdrawing", "pending"} /\ ~Typing(q) => ~Typing(q)']_vars

(* spawn.ts:187 "no run and no side effect exists yet if this throws", and *)
(* the caller is thrown the error: a refused spawn has no run.             *)
RefusedHasNoRun == \A q \in Spawns : client[q] = "error" => q \notin run
=============================================================================
