------------------------- MODULE ClawRequestsProofs -------------------------
(***************************************************************************)
(* Proofs about ClawRequests, for every set of requests, any number of     *)
(* crashes and either behaviour of the clock; then about Claw, the system  *)
(* of the requests and the launches.                                       *)
(***************************************************************************)
EXTENDS Claw, TLAPS

(* Requests and their withdrawals are different files.                     *)
LEMMA Files ==
    ASSUME NEW q \in Requests
    PROVE  /\ Req(q) \in File /\ Wdr(q) \in File
           /\ Req(q) # NoFile /\ Wdr(q) # NoFile
           /\ \A r \in Requests : /\ Req(q) = Req(r) => q = r
                                  /\ Wdr(q) = Wdr(r) => q = r
                                  /\ Req(q) # Wdr(r)
  BY RequestsAssumption DEF File, Req, Wdr, Requests

LEMMA Names ==
    /\ {"none", "ok", "refused", "not_started", "accepted", "dispatched"} = Response
    /\ {"ok", "refused", "not_started", "accepted", "dispatched"} = Answers
    /\ {"next", "act", "enter", "remove"} \cup Answers = At
    /\ \A a \in Answers : a \notin {"next", "act", "enter", "remove", "none"}
  BY DEF Response, Answers, At

-----------------------------------------------------------------------------
(* Type correctness.                                                       *)

LEMMA ServesType ==
    ASSUME NEW f \in File \cup {NoFile}, NEW a \in At, Serves(f, a)
    PROVE  /\ serving' \in [of : File \cup {NoFile}, at : At]
           /\ serving'.of = f /\ serving'.at = a
  BY DEF Serves

LEMMA BecomesType ==
    ASSUME TypeOK, NEW q \in Requests, NEW c \in Client, Becomes(q, c)
    PROVE  client' \in [Requests -> Client]
  BY DEF TypeOK, Becomes

LEMMA ClientNames ==
    /\ {"new", "written", "waiting", "withdrawing", "gone"} \subseteq Client
    /\ {"done", "not_started", "pending", "error"} \subseteq Client
    /\ \A res : Settled(res) \in Client /\ Withdrawn(res) \in Client
  BY DEF Client, Outcome, Settled, Withdrawn

LEMMA InitType == Init => TypeOK
  BY RequestsAssumption, Names
     DEF Init, TypeOK, Client, Response, Requests, Daemon, At

LEMMA ClientType ==
    ASSUME TypeOK, NEW q \in Requests, ClientStep(q)
    PROVE  TypeOK'
  <1> USE Files DEF diskVars, daemonVars, clientVars
  <1>1. CASE WriteRequest(q)
    BY <1>1, BecomesType, ClientNames DEF WriteRequest, TypeOK
  <1>2. CASE EnsureDaemon(q)
    BY <1>2, BecomesType, ClientNames DEF EnsureDaemon, Start, TypeOK, Daemon
  <1>3. CASE Recheck(q)
    BY <1>3 DEF Recheck, Start, TypeOK, Daemon
  <1>4. CASE ReadResponse(q)
    BY <1>4, BecomesType, ClientNames DEF ReadResponse, TypeOK
  <1>5. CASE WriteWithdraw(q)
    BY <1>5, BecomesType, ClientNames DEF WriteWithdraw, TypeOK
  <1>6. CASE ReadWithdrawal(q)
    BY <1>6, BecomesType, ClientNames DEF ReadWithdrawal, TypeOK
  <1>7. CASE WithdrawWaitOver(q)
    BY <1>7, BecomesType, ClientNames DEF WithdrawWaitOver, Unanswered, TypeOK
  <1>8. CASE ClientDies(q)
    BY <1>8, BecomesType, ClientNames DEF ClientDies, TypeOK
  <1> QED
    BY <1>1, <1>2, <1>3, <1>4, <1>5, <1>6, <1>7, <1>8 DEF ClientStep

LEMMA ServeType ==
    ASSUME TypeOK, NEW q \in Requests, Serve(q)
    PROVE  TypeOK'
  <1> USE Files, Names DEF diskVars, clientVars
  <1>1. CASE ServeSpawn(q)
    BY <1>1, ServesType DEF ServeSpawn, TypeOK
  <1>2. CASE StartRun(q)
    BY <1>2, ServesType DEF StartRun, TypeOK
  <1>3. CASE ServeSend(q)
    BY <1>3, ServesType DEF ServeSend, TypeOK
  <1>4. CASE TypeText(q)
    <2>1. typed' \in [Sends -> Nat]
      BY <1>4 DEF TypeText, TypeOK
    <2> QED
      BY <1>4, <2>1, ServesType DEF TypeText, TypeOK
  <1>5. CASE PressEnter(q)
    BY <1>5, ServesType DEF PressEnter, TypeOK
  <1>6. CASE ServeWithdraw(q)
    <2>1. Fate(q) \in Answers
      BY DEF Fate
    <2>2. response' \in [File -> Response]
      BY <1>6 DEF ServeWithdraw, TypeOK
    <2> QED
      BY <1>6, <2>1, <2>2, ServesType DEF ServeWithdraw, TypeOK
  <1> QED
    BY <1>1, <1>2, <1>3, <1>4, <1>5, <1>6 DEF Serve

LEMMA DaemonType == TypeOK /\ (DaemonStep \/ Exit \/ Crash) => TypeOK'
  <1> SUFFICES ASSUME TypeOK, DaemonStep \/ Exit \/ Crash PROVE TypeOK'
    OBVIOUS
  <1> USE Names DEF diskVars, clientVars
  <1>1. CASE ListRequests
    BY <1>1 DEF ListRequests, TypeOK, Daemon
  <1>2. ASSUME NEW f \in File, SkipServed(f) PROVE TypeOK'
    BY <1>2, ServesType DEF SkipServed, TypeOK
  <1>3. ASSUME NEW q \in Requests, Serve(q) PROVE TypeOK'
    BY <1>3, ServeType
  <1>4. CASE WriteResponse
    <2>1. serving.of \in File \cup {NoFile} /\ serving.at \in Response
      BY <1>4 DEF WriteResponse, TypeOK
    <2>2. response' \in [File -> Response]
      BY <1>4, <2>1 DEF WriteResponse, TypeOK
    <2> QED
      BY <1>4, <2>1, <2>2, ServesType DEF WriteResponse, TypeOK
  <1>5. CASE RemoveRequest
    BY <1>5, ServesType DEF RemoveRequest, TypeOK
  <1>6. CASE EndPass
    BY <1>6 DEF EndPass, TypeOK, Daemon
  <1>7. CASE Exit
    BY <1>7 DEF Exit, TypeOK, Daemon
  <1>8. CASE Crash
    BY <1>8, ServesType, RequestsAssumption DEF Crash, TypeOK, Daemon
  <1> QED
    BY <1>1, <1>2, <1>3, <1>4, <1>5, <1>6, <1>7, <1>8 DEF DaemonStep

LEMMA TypeStep == TypeOK /\ [Next]_vars => TypeOK'
  <1> SUFFICES ASSUME TypeOK, [Next]_vars PROVE TypeOK'
    OBVIOUS
  <1> USE DEF diskVars, clientVars, daemonVars
  <1>1. ASSUME NEW q \in Requests, ClientStep(q) PROVE TypeOK'
    BY <1>1, ClientType
  <1>2. CASE DaemonStep \/ Exit \/ Crash
    BY <1>2, DaemonType
  <1>3. CASE Toggle
    BY <1>3 DEF Toggle, TypeOK
  <1>4. ASSUME NEW q \in Requests, Expire(q) PROVE TypeOK'
    BY <1>4 DEF Expire, TypeOK
  <1>5. CASE UNCHANGED vars
    BY <1>5 DEF vars, TypeOK
  <1> QED
    BY <1>1, <1>2, <1>3, <1>4, <1>5 DEF Next

(* Every reachable state has the types of the store and the two programs.  *)
THEOREM TypeCorrect == Spec => []TypeOK
  BY InitType, TypeStep, PTL DEF Spec

-----------------------------------------------------------------------------
(* The inductive invariant.                                                *)

\* What the daemon holds in memory: it serves a file of this pass, and the
\* file has no response until the one it is about to remove it for.
PassInv ==
    /\ daemon # "pass" => todo = {} /\ serving.at = "next"
    /\ todo \subseteq file
    /\ serving.at = "next" => serving.of = NoFile
    /\ serving.at # "next" => serving.of \in todo
    /\ serving.at = "remove" => response[serving.of] # "none"
    /\ serving.at \notin {"next", "remove"} => response[serving.of] = "none"

\* The answer to f, on disk or about to be written.
AnswerIs(f, res) == response[f] = res \/ serving = [of |-> f, at |-> res]

\* "not_started" goes back to one response of the request, which excludes
\* its run.
NotStartedInv(q) ==
    /\ client[q] = "not_started" => response[Req(q)] = "not_started"
    /\ AnswerIs(Wdr(q), "not_started") => response[Req(q)] = "not_started"
    /\ q \in Spawns /\ AnswerIs(Req(q), "not_started") => q \notin run

\* While no daemon has died a text is typed at most while it is served.
UntypedInv(q) ==
    q \in Sends =>
        /\ serving # [of |-> Req(q), at |-> "not_started"]
        /\ crashes = 0 =>
              /\ response[Req(q)] = "not_started" => typed[q] = 0
              /\ response[Req(q)] = "none" /\ serving.of # Req(q) => typed[q] = 0
              /\ serving = [of |-> Req(q), at |-> "act"] => typed[q] = 0

\* "ok" and all that is derived from it goes back to the effect.
Effect(q) == IF q \in Spawns THEN q \in run ELSE typed[q] > 0

\* ("accepted" and "dispatched" answer withdrawals only.)
DoneInv(q) ==
    /\ \A a \in {"accepted", "dispatched"} : ~AnswerIs(Req(q), a)
    /\ client[q] = "done" => response[Req(q)] = "ok"
    /\ AnswerIs(Wdr(q), "accepted") => response[Req(q)] = "ok"
    /\ AnswerIs(Req(q), "ok") => Effect(q)
    /\ serving = [of |-> Req(q), at |-> "enter"] => Effect(q)

FileInv(q) ==
    client[q] # "new" /\ Req(q) \notin file => response[Req(q)] # "none"

RequestInv(q) ==
    NotStartedInv(q) /\ UntypedInv(q) /\ DoneInv(q) /\ FileInv(q)

RequestsInv ==
    /\ TypeOK
    /\ PassInv
    /\ \A q \in Requests : RequestInv(q)

LEMMA InitRequests == Init => RequestsInv
  <1> SUFFICES ASSUME Init PROVE RequestsInv
    OBVIOUS
  <1>1. TypeOK
    BY InitType
  <1>2. PassInv
    BY DEF Init, PassInv
  <1>3. ASSUME NEW q \in Requests PROVE RequestInv(q)
    BY <1>3, Files
       DEF Init, RequestInv, NotStartedInv, UntypedInv, DoneInv, FileInv,
           AnswerIs, Requests
  <1> QED
    BY <1>1, <1>2, <1>3 DEF RequestsInv

(* What a client does is write a file or read a response.                  *)
LEMMA ClientKeeps ==
    ASSUME RequestsInv, NEW q \in Requests, ClientStep(q)
    PROVE  RequestsInv'
  <1> USE DEF diskVars, daemonVars, clientVars
  <1>1. TypeOK'
    BY ClientType DEF RequestsInv
  <1>2. /\ UNCHANGED <<response, run, typed, todo, serving, crashes>>
        /\ file \subseteq file'
        /\ daemon' = daemon \/ (daemon = "down" /\ daemon' = "ready")
    BY DEF ClientStep, WriteRequest, EnsureDaemon, Recheck, ReadResponse,
           WriteWithdraw, ReadWithdrawal, WithdrawWaitOver, ClientDies, Start
  <1>3. PassInv'
    BY <1>2 DEF RequestsInv, PassInv
  <1>4. ASSUME NEW r \in Requests PROVE RequestInv(r)'
    <2>1. CASE client'[r] = client[r]
      <3>1. FileInv(r)'
        BY <1>2, <2>1 DEF RequestsInv, RequestInv, FileInv
      <3> QED
        BY <1>2, <2>1, <3>1
           DEF RequestsInv, RequestInv, NotStartedInv, UntypedInv, DoneInv,
               AnswerIs, Effect
    <2>2. CASE client'[r] # client[r]
      <3>1. r = q /\ client \in [Requests -> Client]
        BY <2>2
           DEF ClientStep, WriteRequest, EnsureDaemon, Recheck, ReadResponse,
               WriteWithdraw, ReadWithdrawal, WithdrawWaitOver, ClientDies,
               Becomes, RequestsInv, TypeOK
      <3>2. /\ client'[q] = "not_started" => response[Req(q)] = "not_started"
            /\ client'[q] = "done" => response[Req(q)] = "ok"
        BY <2>2, <3>1
           DEF ClientStep, WriteRequest, EnsureDaemon, Recheck, ReadResponse,
               WriteWithdraw, ReadWithdrawal, WithdrawWaitOver, ClientDies,
               Becomes, Settled, Withdrawn, Unanswered, RequestsInv,
               RequestInv, NotStartedInv, DoneInv, AnswerIs
      <3>3. Req(q) \in file' \/ client[q] # "new"
        BY DEF ClientStep, WriteRequest, EnsureDaemon, Recheck, ReadResponse,
               WriteWithdraw, ReadWithdrawal, WithdrawWaitOver, ClientDies,
               EnsuresAgain
      <3> QED
        BY <1>2, <3>1, <3>2, <3>3
           DEF RequestsInv, RequestInv, NotStartedInv, UntypedInv, DoneInv,
               FileInv, AnswerIs, Effect
    <2> QED
      BY <2>1, <2>2
  <1> QED
    BY <1>1, <1>3, <1>4 DEF RequestsInv

(* Taking up a file: it is a file of this pass without a response, and     *)
(* nothing else changes.                                                   *)
LEMMA TakeUpPass ==
    ASSUME RequestsInv, NEW f \in File, NextUp(f),
           NEW a \in At \ {"next"}, Serves(f, a),
           response[f] # "none" <=> a = "remove",
           UNCHANGED <<file, todo, daemon>>, response'[f] = response[f]
    PROVE  PassInv'
  BY DEF RequestsInv, PassInv, NextUp, Serves

(* Serving one request leaves what is known of the others.                 *)
LEMMA OtherRequests ==
    ASSUME RequestsInv, NEW r \in Requests,
           UNCHANGED <<client, file, crashes>>,
           response'[Req(r)] = response[Req(r)],
           response'[Wdr(r)] = response[Wdr(r)],
           r \in Sends => typed'[r] = typed[r],
           r \in run' <=> r \in run,
           serving.of \notin {Req(r), Wdr(r)},
           serving'.of \notin {Req(r), Wdr(r)}
    PROVE  RequestInv(r)'
  <1>1. RequestInv(r)
    BY DEF RequestsInv
  <1>2. \A a : ~AnswerIs(Wdr(r), a)' \/ AnswerIs(Wdr(r), a)
    BY DEF AnswerIs
  <1>3. \A a : ~AnswerIs(Req(r), a)' \/ AnswerIs(Req(r), a)
    BY DEF AnswerIs
  <1>4. NotStartedInv(r)'
    BY <1>1, <1>2, <1>3 DEF RequestInv, NotStartedInv
  <1>5. UntypedInv(r)'
    BY <1>1 DEF RequestInv, UntypedInv
  <1>6. Effect(r) => Effect(r)'
    BY RequestsAssumption DEF Effect, Requests
  <1>7. DoneInv(r)'
    BY <1>1, <1>2, <1>3, <1>6 DEF RequestInv, DoneInv
  <1>8. FileInv(r)'
    BY <1>1 DEF RequestInv, FileInv
  <1> QED
    BY <1>4, <1>5, <1>7, <1>8 DEF RequestInv

(* Whatever serves q leaves the other requests alone.                      *)
LEMMA ServeOthers ==
    ASSUME RequestsInv, NEW q \in Requests, Serve(q),
           NEW r \in Requests, r # q
    PROVE  RequestInv(r)'
  <1> USE Files DEF diskVars, clientVars
  <1>1. /\ UNCHANGED <<client, file, crashes>>
        /\ serving.of \in {NoFile, Req(q)}
        /\ serving'.of \in {Req(q), Wdr(q)}
    BY DEF Serve, ServeSpawn, StartRun, ServeSend, TypeText, PressEnter,
           ServeWithdraw, NextUp, Serves, RequestsInv, PassInv
  <1>2. r \in Sends => typed'[r] = typed[r]
    BY DEF Serve, ServeSpawn, StartRun, ServeSend, TypeText, PressEnter,
           ServeWithdraw, RequestsInv, TypeOK
  <1>3. r \in run' <=> r \in run
    BY DEF Serve, ServeSpawn, StartRun, ServeSend, TypeText, PressEnter,
           ServeWithdraw
  <1>4. /\ response'[Req(r)] = response[Req(r)]
        /\ response'[Wdr(r)] = response[Wdr(r)]
    BY DEF Serve, ServeSpawn, StartRun, ServeSend, TypeText, PressEnter,
           ServeWithdraw, RequestsInv, TypeOK
  <1> QED
    BY <1>1, <1>2, <1>3, <1>4, OtherRequests

LEMMA ServeKeeps ==
    ASSUME RequestsInv, NEW q \in Requests, Serve(q)
    PROVE  RequestsInv'
  <1> USE Files, Names DEF diskVars, clientVars
  <1>1. TypeOK'
    BY ServeType DEF RequestsInv
  <1>2. SUFFICES PassInv' /\ RequestInv(q)'
    BY <1>1, ServeOthers DEF RequestsInv
  <1>0. RequestInv(q) /\ PassInv /\ TypeOK
    BY DEF RequestsInv
  <1>3. CASE ServeSpawn(q)
    <2>1. PassInv'
      BY <1>3, TakeUpPass DEF ServeSpawn
    <2>2. RequestInv(q)'
      <3>1. NotStartedInv(q)'
        BY <1>0, <1>3, RequestsAssumption
           DEF ServeSpawn, Serves, Expired, PassInv, RequestInv,
               NotStartedInv, UntypedInv, DoneInv, AnswerIs, Effect
      <3>2. UntypedInv(q)'
        BY <1>0, <1>3, RequestsAssumption
           DEF ServeSpawn, Serves, Expired, PassInv, RequestInv,
               NotStartedInv, UntypedInv, DoneInv, AnswerIs, Effect
      <3>3. DoneInv(q)'
        BY <1>0, <1>3, RequestsAssumption
           DEF ServeSpawn, Serves, Expired, PassInv, RequestInv,
               NotStartedInv, UntypedInv, DoneInv, AnswerIs, Effect
      <3>4. FileInv(q)'
        BY <1>0, <1>3, RequestsAssumption
           DEF ServeSpawn, Serves, Expired, PassInv, RequestInv, FileInv
      <3> QED
        BY <3>1, <3>2, <3>3, <3>4 DEF RequestInv
    <2> QED
      BY <2>1, <2>2
  <1>4. CASE StartRun(q)
    <2>1. PassInv'
      BY <1>4 DEF StartRun, Serves, RequestsInv, PassInv
    <2>2. RequestInv(q)'
      <3>1. NotStartedInv(q)'
        BY <1>0, <1>4, RequestsAssumption
           DEF StartRun, Serves, PassInv, RequestInv, NotStartedInv,
               UntypedInv, DoneInv, AnswerIs, Effect
      <3>2. UntypedInv(q)'
        BY <1>0, <1>4, RequestsAssumption
           DEF StartRun, Serves, PassInv, RequestInv, NotStartedInv,
               UntypedInv, DoneInv, AnswerIs, Effect
      <3>3. DoneInv(q)'
        BY <1>0, <1>4, RequestsAssumption
           DEF StartRun, Serves, PassInv, RequestInv, NotStartedInv,
               UntypedInv, DoneInv, AnswerIs, Effect
      <3>4. FileInv(q)'
        BY <1>0, <1>4, RequestsAssumption
           DEF StartRun, Serves, PassInv, RequestInv, FileInv
      <3> QED
        BY <3>1, <3>2, <3>3, <3>4 DEF RequestInv
    <2> QED
      BY <2>1, <2>2
  <1>5. CASE ServeSend(q)
    <2>1. PassInv'
      BY <1>5, TakeUpPass DEF ServeSend
    <2>2. RequestInv(q)'
      <3>1. NotStartedInv(q)'
        BY <1>0, <1>5, RequestsAssumption
           DEF ServeSend, NextUp, Serves, PassInv, RequestInv, NotStartedInv,
               UntypedInv, DoneInv, AnswerIs, Effect
      <3>2. UntypedInv(q)'
        BY <1>0, <1>5, RequestsAssumption
           DEF ServeSend, NextUp, Serves, PassInv, RequestInv, NotStartedInv,
               UntypedInv, DoneInv, AnswerIs, Effect
      <3>3. DoneInv(q)'
        BY <1>0, <1>5, RequestsAssumption
           DEF ServeSend, NextUp, Serves, PassInv, RequestInv, NotStartedInv,
               UntypedInv, DoneInv, AnswerIs, Effect
      <3>4. FileInv(q)'
        BY <1>0, <1>5, RequestsAssumption
           DEF ServeSend, NextUp, Serves, PassInv, RequestInv, FileInv
      <3> QED
        BY <3>1, <3>2, <3>3, <3>4 DEF RequestInv
    <2> QED
      BY <2>1, <2>2
  <1>6. CASE TypeText(q)
    <2>1. PassInv'
      BY <1>6 DEF TypeText, Serves, RequestsInv, PassInv
    <2>2. \A r \in Requests : r # q \/ r \in Spawns =>
             (r \in Sends => typed'[r] = typed[r])
      BY <1>6, RequestsAssumption DEF TypeText, RequestsInv, TypeOK
    <2>3. serving'.at = "enter" => typed'[q] > 0
      BY <1>6 DEF TypeText, Serves, RequestsInv, TypeOK
    <2>4. RequestInv(q)'
      <3>1. NotStartedInv(q)'
        BY <1>0, <1>6, <2>2, <2>3, RequestsAssumption
           DEF TypeText, Serves, PassInv, RequestInv, NotStartedInv,
               UntypedInv, DoneInv, AnswerIs, Effect
      <3>2. UntypedInv(q)'
        BY <1>0, <1>6, <2>2, <2>3, RequestsAssumption
           DEF TypeText, Serves, PassInv, RequestInv, NotStartedInv,
               UntypedInv, DoneInv, AnswerIs, Effect
      <3>3. DoneInv(q)'
        BY <1>0, <1>6, <2>2, <2>3, RequestsAssumption
           DEF TypeText, Serves, PassInv, RequestInv, NotStartedInv,
               UntypedInv, DoneInv, AnswerIs, Effect
      <3>4. FileInv(q)'
        BY <1>0, <1>6, <2>2, <2>3, RequestsAssumption
           DEF TypeText, Serves, PassInv, RequestInv, FileInv
      <3> QED
        BY <3>1, <3>2, <3>3, <3>4 DEF RequestInv
    <2> QED
      BY <2>1, <2>4
  <1>7. CASE PressEnter(q)
    <2>1. PassInv'
      BY <1>7 DEF PressEnter, Serves, RequestsInv, PassInv
    <2>2. RequestInv(q)'
      <3>1. NotStartedInv(q)'
        BY <1>0, <1>7, RequestsAssumption
           DEF PressEnter, Serves, PassInv, RequestInv, NotStartedInv,
               UntypedInv, DoneInv, AnswerIs, Effect
      <3>2. UntypedInv(q)'
        BY <1>0, <1>7, RequestsAssumption
           DEF PressEnter, Serves, PassInv, RequestInv, NotStartedInv,
               UntypedInv, DoneInv, AnswerIs, Effect
      <3>3. DoneInv(q)'
        BY <1>0, <1>7, RequestsAssumption
           DEF PressEnter, Serves, PassInv, RequestInv, NotStartedInv,
               UntypedInv, DoneInv, AnswerIs, Effect
      <3>4. FileInv(q)'
        BY <1>0, <1>7, RequestsAssumption
           DEF PressEnter, Serves, PassInv, RequestInv, FileInv
      <3> QED
        BY <3>1, <3>2, <3>3, <3>4 DEF RequestInv
    <2> QED
      BY <2>1, <2>2
  <1>8. CASE ServeWithdraw(q)
    <2>1. Fate(q) \in Answers
      BY DEF Fate
    <2>2. /\ response'[Wdr(q)] = response[Wdr(q)]
          /\ \A f \in File : f # Req(q) => response'[f] = response[f]
          /\ response'[Req(q)] = IF Undecided(q) THEN "not_started"
                                ELSE response[Req(q)]
      BY <1>8 DEF ServeWithdraw, RequestsInv, TypeOK
    <2>3. PassInv'
      BY <1>8, <2>1, <2>2, TakeUpPass DEF ServeWithdraw
    <2>4. RequestInv(q)'
      <3>0. /\ serving' = [of |-> Wdr(q), at |-> Fate(q)]
            /\ serving.of = NoFile
            /\ UNCHANGED <<client, run>>
        BY <1>0, <1>8 DEF ServeWithdraw, NextUp, Serves, PassInv
      <3>5. Fate(q) = "not_started" => response'[Req(q)] = "not_started"
        BY <1>0, <1>8, <2>2
           DEF Fate, Undecided, TypeOK, Response, RequestInv, DoneInv, AnswerIs
      <3>6. Undecided(q) => q \notin run
        BY DEF Undecided, Dispatched
      <3>1. NotStartedInv(q)'
        BY <1>0, <2>2, <3>0, <3>5, <3>6
           DEF RequestInv, NotStartedInv, AnswerIs, Undecided
      <3>2. UntypedInv(q)'
        BY <1>0, <1>8, <2>1, <2>2, RequestsAssumption
           DEF ServeWithdraw, Fate, Undecided, Dispatched, NextUp, Serves,
               PassInv, RequestInv, NotStartedInv, UntypedInv, DoneInv,
               AnswerIs, Effect
      <3>3. DoneInv(q)'
        BY <1>0, <1>8, <2>1, <2>2, RequestsAssumption
           DEF ServeWithdraw, Fate, Undecided, Dispatched, NextUp, Serves,
               PassInv, RequestInv, NotStartedInv, UntypedInv, DoneInv,
               AnswerIs, Effect
      <3>4. FileInv(q)'
        BY <1>0, <1>8, <2>1, <2>2, RequestsAssumption
           DEF ServeWithdraw, Fate, Undecided, Dispatched, NextUp, Serves,
               PassInv, RequestInv, FileInv
      <3> QED
        BY <3>1, <3>2, <3>3, <3>4 DEF RequestInv
    <2> QED
      BY <2>3, <2>4
  <1> QED
    BY <1>3, <1>4, <1>5, <1>6, <1>7, <1>8 DEF Serve

(* The daemon's other steps.                                               *)
LEMMA DaemonKeeps == RequestsInv /\ (DaemonStep \/ Exit \/ Crash) => RequestsInv'
  <1> SUFFICES ASSUME RequestsInv, DaemonStep \/ Exit \/ Crash
               PROVE  RequestsInv'
    OBVIOUS
  <1> USE Files, Names DEF diskVars, clientVars
  <1>0. TypeOK' /\ TypeOK /\ PassInv /\ \A q \in Requests : RequestInv(q)
    BY DaemonType DEF RequestsInv
  <1>1. CASE ListRequests \/ EndPass \/ Exit
    <2>1. PassInv'
      BY <1>0, <1>1 DEF ListRequests, EndPass, Exit, PassInv
    <2>2. ASSUME NEW q \in Requests PROVE RequestInv(q)'
      BY <1>0, <1>1
         DEF ListRequests, EndPass, Exit, RequestInv, NotStartedInv,
             UntypedInv, DoneInv, FileInv, AnswerIs, Effect
    <2> QED
      BY <1>0, <2>1, <2>2 DEF RequestsInv
  <1>2. ASSUME NEW f \in File, SkipServed(f) PROVE RequestsInv'
    <2>1. PassInv'
      BY <1>2, TakeUpPass DEF SkipServed
    <2>2. ASSUME NEW q \in Requests PROVE RequestInv(q)'
      BY <1>0, <1>2
         DEF SkipServed, NextUp, Serves, PassInv, RequestInv, NotStartedInv,
             UntypedInv, DoneInv, FileInv, AnswerIs, Effect
    <2> QED
      BY <1>0, <2>1, <2>2 DEF RequestsInv
  <1>3. ASSUME NEW q \in Requests, Serve(q) PROVE RequestsInv'
    BY <1>3, ServeKeeps
  <1>4. CASE WriteResponse
    <2>0. /\ serving.of \in File /\ response[serving.of] = "none"
          /\ response'[serving.of] = serving.at
          /\ \A f \in File : f # serving.of => response'[f] = response[f]
          /\ serving' = [of |-> serving.of, at |-> "remove"]
      BY <1>0, <1>4 DEF WriteResponse, Serves, PassInv, TypeOK
    <2>1. PassInv'
      BY <1>0, <1>4, <2>0 DEF WriteResponse, PassInv
    <2>2. ASSUME NEW q \in Requests PROVE RequestInv(q)'
      <3>0. \A f \in File, a \in Answers : AnswerIs(f, a)' => AnswerIs(f, a)
        BY <1>0, <2>0 DEF AnswerIs, TypeOK
      <3>1. NotStartedInv(q)'
        BY <1>0, <1>4, <2>0, <3>0
           DEF WriteResponse, RequestInv, NotStartedInv
      <3>2. UntypedInv(q)'
        BY <1>0, <1>4, <2>0 DEF WriteResponse, TypeOK, RequestInv, UntypedInv
      <3>3. DoneInv(q)'
        BY <1>0, <1>4, <2>0, <3>0 DEF WriteResponse, RequestInv, DoneInv, Effect
      <3>4. FileInv(q)'
        BY <1>0, <1>4, <2>0 DEF WriteResponse, RequestInv, FileInv
      <3> QED
        BY <3>1, <3>2, <3>3, <3>4 DEF RequestInv
    <2> QED
      BY <1>0, <2>1, <2>2 DEF RequestsInv
  <1>5. CASE RemoveRequest
    <2>1. PassInv'
      BY <1>0, <1>5 DEF RemoveRequest, RemovedWhen, Serves, PassInv
    <2>2. ASSUME NEW q \in Requests PROVE RequestInv(q)'
      BY <1>0, <1>5
         DEF RemoveRequest, RemovedWhen, Serves, PassInv, RequestInv,
             NotStartedInv, UntypedInv, DoneInv, FileInv, AnswerIs, Effect
    <2> QED
      BY <1>0, <2>1, <2>2 DEF RequestsInv
  <1>6. CASE Crash
    <2>1. PassInv'
      BY <1>0, <1>6 DEF Crash, Serves, PassInv
    <2>2. crashes' # 0
      BY <1>0, <1>6, RequestsAssumption DEF Crash, TypeOK
    <2>3. ASSUME NEW q \in Requests PROVE RequestInv(q)'
      BY <1>0, <1>6, <2>2
         DEF Crash, Serves, RequestInv, NotStartedInv, UntypedInv, DoneInv,
             FileInv, AnswerIs, Effect
    <2> QED
      BY <1>0, <2>1, <2>3 DEF RequestsInv
  <1> QED
    BY <1>1, <1>2, <1>3, <1>4, <1>5, <1>6 DEF DaemonStep

LEMMA RequestsStep == RequestsInv /\ [Next]_vars => RequestsInv'
  <1> SUFFICES ASSUME RequestsInv, [Next]_vars PROVE RequestsInv'
    OBVIOUS
  <1>1. ASSUME NEW q \in Requests, ClientStep(q) PROVE RequestsInv'
    BY <1>1, ClientKeeps
  <1>2. CASE DaemonStep \/ Exit \/ Crash
    BY <1>2, DaemonKeeps
  <1>3. CASE Toggle \/ (\E q \in Requests : Expire(q)) \/ UNCHANGED vars
    <2>1. TypeOK'
      BY TypeStep DEF RequestsInv
    <2>2. UNCHANGED <<client, file, response, run, typed, daemonVars>>
      BY <1>3 DEF Toggle, Expire, vars, clientVars, diskVars
    <2>3. PassInv'
      BY <2>2 DEF RequestsInv, PassInv, daemonVars
    <2>4. ASSUME NEW q \in Requests PROVE RequestInv(q)'
      BY <2>2
         DEF daemonVars, RequestsInv, RequestInv, NotStartedInv, UntypedInv,
             DoneInv, FileInv, AnswerIs, Effect
    <2> QED
      BY <2>1, <2>3, <2>4 DEF RequestsInv
  <1> QED
    BY <1>1, <1>2, <1>3 DEF Next

(* What the daemon holds, what is on disk and what callers were told agree, *)
(* whatever dies and in whatever order requests are served.                *)
THEOREM RequestsInvariant == Spec => []RequestsInv
  BY InitRequests, RequestsStep, PTL DEF Spec

-----------------------------------------------------------------------------
(* The properties.                                                         *)

(* A caller that was told "not_started" may submit again: no run of the     *)
(* first request exists or ever will, nor, while no daemon died, its text. *)
THEOREM NotStarted == Spec => []NotStartedIsFinal
  <1>1. RequestsInv => NotStartedIsFinal
    BY DEF RequestsInv, RequestInv, NotStartedInv, UntypedInv, AnswerIs,
           NotStartedIsFinal, Requests
  <1> QED
    BY <1>1, RequestsInvariant, PTL

(* A caller that was told "done" can rely on the run or on the text.        *)
THEOREM Done == Spec => []DoneIsDone
  <1>1. RequestsInv => DoneIsDone
    BY RequestsAssumption
       DEF RequestsInv, RequestInv, DoneInv, AnswerIs, Effect, DoneIsDone,
           Requests
  <1> QED
    BY <1>1, RequestsInvariant, PTL

(* What a caller was told, done or not started, stays true.                *)
THEOREM WhatIsToldHolds == Spec => []AnswersAreTrue
  <1>1. NotStartedIsFinal /\ DoneIsDone => AnswersAreTrue
    BY DEF AnswersAreTrue
  <1> QED
    BY <1>1, NotStarted, Done, PTL

(* A request file is removed only when its response is on disk.             *)
THEOREM NoneForgotten == Spec => []NoRequestForgotten
  <1>1. RequestsInv => NoRequestForgotten
    BY DEF RequestsInv, RequestInv, FileInv, NoRequestForgotten
  <1> QED
    BY <1>1, RequestsInvariant, PTL

(* No response is replaced, by the daemon that wrote it or by another, by   *)
(* its request's service or by that of a withdrawal.                       *)
THEOREM FinalResponses == Spec => ResponseIsFinal
  <1>1. ASSUME RequestsInv, [Next]_vars, NEW f \in File, response[f] # "none"
        PROVE  response'[f] = response[f]
    <2> USE <1>1, Files, Names DEF diskVars, clientVars, daemonVars
    <2>1. CASE WriteResponse
      BY <2>1 DEF WriteResponse, RequestsInv, PassInv, TypeOK
    <2>2. ASSUME NEW q \in Requests, ServeWithdraw(q)
          PROVE  response'[f] = response[f]
      BY <2>2 DEF ServeWithdraw, Undecided, RequestsInv, TypeOK
    <2>3. CASE UNCHANGED response
      BY <2>3
    <2> QED
      BY <2>1, <2>2, <2>3
         DEF Next, ClientStep, WriteRequest, EnsureDaemon, Recheck,
             ReadResponse, WriteWithdraw, ReadWithdrawal, WithdrawWaitOver,
             ClientDies, DaemonStep, ListRequests, SkipServed, Serve,
             ServeSpawn, StartRun, ServeSend, TypeText, PressEnter,
             RemoveRequest, EndPass, Exit, Crash, Toggle, Expire, vars
  <1>2. RequestsInv /\ [Next]_vars =>
           [\A f \in File : response[f] # "none" => response'[f] = response[f]]_vars
    BY <1>1
  <1> QED
    BY <1>2, RequestsInvariant, PTL DEF Spec, ResponseIsFinal

(* A spawn that nothing had taken up when its deadline passed is never      *)
(* started, by this daemon or by one that comes later.                     *)
THEOREM ExpiredStaysUnstarted == Spec => ExpiredSpawnNeverStarts
  <1>1. ASSUME RequestsInv, [Next]_vars,
               NEW q \in Spawns, late[q], ~Taken(q)
        PROVE  ~Taken(q)'
    <2> USE <1>1, Files, Names, RequestsAssumption
        DEF diskVars, clientVars, daemonVars, Taken, Serves, Requests
    <2>1. ASSUME NEW r \in Requests, ServeSpawn(r) PROVE ~Taken(q)'
      BY <2>1 DEF ServeSpawn, Expired
    <2>2. ASSUME NEW r \in Requests, StartRun(r) PROVE ~Taken(q)'
      BY <2>2 DEF StartRun
    <2>3. ASSUME NEW r \in Requests,
                 \/ ServeSend(r) \/ TypeText(r) \/ PressEnter(r)
                 \/ ServeWithdraw(r)
          PROVE  ~Taken(q)'
      BY <2>3 DEF ServeSend, TypeText, PressEnter, ServeWithdraw
    <2>4. ASSUME NEW r \in Requests, ClientStep(r) \/ Expire(r)
          PROVE  ~Taken(q)'
      BY <2>4
         DEF ClientStep, WriteRequest, EnsureDaemon, Recheck, ReadResponse,
             WriteWithdraw, ReadWithdrawal, WithdrawWaitOver, ClientDies, Expire
    <2>5. ASSUME NEW f \in File, SkipServed(f) PROVE ~Taken(q)'
      BY <2>5 DEF SkipServed
    <2>6. CASE \/ ListRequests \/ WriteResponse \/ RemoveRequest \/ EndPass
               \/ Exit \/ Crash \/ Toggle \/ UNCHANGED vars
      BY <2>6
         DEF ListRequests, WriteResponse, RemoveRequest, EndPass, Exit, Crash,
             Toggle, vars
    <2> QED
      BY <2>1, <2>2, <2>3, <2>4, <2>5, <2>6 DEF Next, DaemonStep, Serve
  <1>2. RequestsInv /\ [Next]_vars =>
           [\A q \in Spawns : late[q] /\ ~Taken(q) => ~Taken(q)']_vars
    BY <1>1
  <1> QED
    BY <1>2, RequestsInvariant, PTL DEF Spec, ExpiredSpawnNeverStarts

-----------------------------------------------------------------------------
(* What only the death of a daemon brings about.                           *)

\* The text of a send under way, or answered, may have been typed once more
\* than daemons have died.
TypedInv(q) ==
    \/ typed[q] <= crashes
    \/ /\ typed[q] = crashes + 1
       /\ \/ response[Req(q)] # "none"
          \/ serving.of = Req(q) /\ serving.at # "act"

TypedInvs == \A q \in Sends : TypedInv(q)

LEMMA TypedStep == RequestsInv /\ TypedInvs /\ [Next]_vars => TypedInvs'
  <1> SUFFICES ASSUME RequestsInv, [Next]_vars, NEW q \in Sends, TypedInv(q)
               PROVE  TypedInv(q)'
    BY DEF TypedInvs
  <1> USE Files, Names DEF diskVars, clientVars, daemonVars
  <1>0. /\ TypeOK /\ PassInv /\ q \in Requests /\ q \notin Spawns
        /\ typed[q] \in Nat /\ crashes \in Nat
    BY RequestsAssumption DEF RequestsInv, TypeOK, Requests
  <1>1. ASSUME NEW r \in Requests, ClientStep(r) \/ Expire(r) PROVE TypedInv(q)'
    BY <1>1
       DEF ClientStep, WriteRequest, EnsureDaemon, Recheck, ReadResponse,
           WriteWithdraw, ReadWithdrawal, WithdrawWaitOver, ClientDies, Expire,
           TypedInv
  <1>2. CASE ListRequests \/ EndPass \/ Exit \/ Toggle \/ UNCHANGED vars
    BY <1>2 DEF ListRequests, EndPass, Exit, Toggle, vars, TypedInv
  <1>3. CASE Crash
    BY <1>0, <1>3 DEF Crash, TypedInv
  <1>4. CASE WriteResponse
    <2>1. /\ UNCHANGED <<typed, crashes>> /\ serving.of \in File /\ serving.at # "none"
          /\ response' = [response EXCEPT ![serving.of] = serving.at]
          /\ serving'.of = serving.of /\ serving'.at = "remove"
      BY <1>0, <1>4 DEF WriteResponse, Serves, PassInv, TypeOK
    <2>2. response[Req(q)] # "none" => response'[Req(q)] # "none"
      BY <1>0, <2>1 DEF TypeOK
    <2> QED
      BY <2>1, <2>2 DEF TypedInv
  <1>5. CASE RemoveRequest
    <2>1. serving.of = Req(q) => response[Req(q)] # "none"
      BY <1>0, <1>5 DEF RemoveRequest, RemovedWhen, PassInv
    <2> QED
      BY <1>5, <2>1 DEF RemoveRequest, TypedInv
  <1>6. ASSUME NEW f \in File, SkipServed(f) PROVE TypedInv(q)'
    BY <1>0, <1>6 DEF SkipServed, NextUp, PassInv, TypedInv
  <1>7. ASSUME NEW r \in Requests, Serve(r) PROVE TypedInv(q)'
    <2>1. CASE ServeSpawn(r) \/ ServeSend(r)
      BY <1>0, <2>1 DEF ServeSpawn, ServeSend, NextUp, PassInv, TypedInv
    <2>2. CASE StartRun(r)
      BY <1>0, <2>2 DEF StartRun, Serves, TypedInv
    <2>3. CASE TypeText(r)
      <3>1. r # q => typed'[q] = typed[q] /\ serving.of # Req(q)
        BY <1>0, <2>3 DEF TypeText, TypeOK
      <3>2. r = q => /\ response[Req(q)] = "none" /\ serving.at = "act"
                     /\ typed'[q] \in {typed[q], typed[q] + 1}
                     /\ serving'.of = Req(q) /\ serving'.at # "act"
        BY <1>0, <2>3 DEF TypeText, TypeOK, PassInv, Serves
      <3> QED
        BY <1>0, <2>3, <3>1, <3>2 DEF TypeText, TypedInv
    <2>4. CASE PressEnter(r)
      BY <1>0, <2>4 DEF PressEnter, Serves, TypedInv
    <2>5. CASE ServeWithdraw(r)
      <3>1. response[Req(q)] # "none" => response'[Req(q)] # "none"
        BY <1>0, <2>5 DEF ServeWithdraw, TypeOK
      <3> QED
        BY <1>0, <2>5, <3>1 DEF ServeWithdraw, NextUp, PassInv, TypedInv
    <2> QED
      BY <1>7, <2>1, <2>2, <2>3, <2>4, <2>5 DEF Serve
  <1> QED
    BY <1>1, <1>2, <1>3, <1>4, <1>5, <1>6, <1>7 DEF Next, DaemonStep

(* A text is typed once by each daemon that serves its send, at most: once *)
(* more than daemons died, and once if none did (processRequests).         *)
THEOREM TypedOncePerDaemon ==
    Spec => [](\A q \in Sends : typed[q] <= crashes + 1)
  <1>1. Init => TypedInvs
    BY DEF Init, TypedInvs, TypedInv
  <1>2. RequestsInv /\ TypedInvs => \A q \in Sends : typed[q] <= crashes + 1
    BY DEF TypedInvs, TypedInv, RequestsInv, TypeOK
  <1> QED
    BY <1>1, <1>2, TypedStep, RequestsInvariant, PTL DEF Spec

\* A run that no daemon died over has its answer, or is about to; an error is a
\* refusal.
RefusedInv(q) ==
    /\ crashes = 0 /\ q \in run => AnswerIs(Req(q), "ok")
    /\ client[q] = "error" => response[Req(q)] = "refused"
    /\ AnswerIs(Wdr(q), "refused") => response[Req(q)] = "refused"
    /\ ~AnswerIs(Wdr(q), "ok")

RefusedInvs == \A q \in Spawns : RefusedInv(q)

LEMMA RefusedStep == RequestsInv /\ RefusedInvs /\ [Next]_vars => RefusedInvs'
  <1> SUFFICES ASSUME RequestsInv, [Next]_vars, NEW q \in Spawns, RefusedInv(q)
               PROVE  RefusedInv(q)'
    BY DEF RefusedInvs
  <1> USE Files, Names DEF diskVars, clientVars, daemonVars
  <1>0. /\ TypeOK /\ PassInv /\ q \in Requests /\ q \notin Sends
        /\ NotStartedInv(q) /\ DoneInv(q) /\ crashes \in Nat
    BY RequestsAssumption DEF RequestsInv, RequestInv, TypeOK, Requests
  <1>1. ASSUME NEW r \in Requests, ClientStep(r) PROVE RefusedInv(q)'
    <2>1. UNCHANGED <<response, run, serving, crashes>>
      BY <1>1
         DEF ClientStep, WriteRequest, EnsureDaemon, Recheck, ReadResponse,
             WriteWithdraw, ReadWithdrawal, WithdrawWaitOver, ClientDies, Start
    <2>2. client'[q] = "error" /\ client[q] # "error" => response[Req(q)] = "refused"
      <3> SUFFICES ASSUME client'[q] = "error", client[q] # "error"
                   PROVE  response[Req(q)] = "refused"
        OBVIOUS
      <3>1. r = q
        BY <1>0, <1>1
           DEF ClientStep, WriteRequest, EnsureDaemon, Recheck, ReadResponse,
               WriteWithdraw, ReadWithdrawal, WithdrawWaitOver, ClientDies, Becomes,
               TypeOK
      <3>2. CASE ReadResponse(q)
        BY <1>0, <3>2
           DEF ReadResponse, Becomes, Settled, TypeOK, Response, DoneInv, AnswerIs
      <3>3. CASE ReadWithdrawal(q)
        BY <1>0, <3>3
           DEF ReadWithdrawal, Becomes, Withdrawn, TypeOK, Response, RefusedInv, AnswerIs
      <3>4. ReadResponse(q) \/ ReadWithdrawal(q)
        BY <1>0, <1>1, <3>1
           DEF ClientStep, WriteRequest, EnsureDaemon, Recheck,
               WriteWithdraw, WithdrawWaitOver, ClientDies, Becomes, Unanswered, TypeOK
      <3> QED
        BY <3>2, <3>3, <3>4
    <2> QED
      BY <2>1, <2>2 DEF RefusedInv, AnswerIs
  <1>2. CASE \/ ListRequests \/ EndPass \/ Exit \/ Toggle \/ UNCHANGED vars
             \/ \E r \in Requests : Expire(r)
    BY <1>2 DEF ListRequests, EndPass, Exit, Toggle, Expire, vars, RefusedInv, AnswerIs
  <1>3. CASE Crash
    BY <1>0, <1>3 DEF Crash, Serves, RefusedInv, AnswerIs
  <1>4. CASE WriteResponse
    <2>0. /\ serving.of \in File /\ response[serving.of] = "none"
          /\ response'[serving.of] = serving.at
          /\ \A f \in File : f # serving.of => response'[f] = response[f]
          /\ serving' = [of |-> serving.of, at |-> "remove"]
          /\ UNCHANGED <<client, run, crashes>>
      BY <1>0, <1>4 DEF WriteResponse, Serves, PassInv, TypeOK
    <2>1. \A f \in File, a \in Answers : AnswerIs(f, a)' <=> AnswerIs(f, a)
      BY <1>0, <2>0 DEF AnswerIs, TypeOK
    <2>2. response[Req(q)] = "refused" => response'[Req(q)] = "refused"
      BY <1>0, <2>0
    <2> QED
      BY <1>0, <2>0, <2>1, <2>2 DEF RefusedInv
  <1>5. CASE RemoveRequest
    BY <1>0, <1>5 DEF RemoveRequest, RemovedWhen, Serves, RefusedInv, AnswerIs
  <1>6. ASSUME NEW f \in File, SkipServed(f) PROVE RefusedInv(q)'
    BY <1>0, <1>6 DEF SkipServed, NextUp, Serves, PassInv, RefusedInv, AnswerIs
  <1>7. ASSUME NEW r \in Requests, Serve(r) PROVE RefusedInv(q)'
    <2>1. CASE ServeSpawn(r)
      BY <1>0, <2>1 DEF ServeSpawn, NextUp, Serves, PassInv, RefusedInv, AnswerIs
    <2>2. CASE StartRun(r)
      BY <1>0, <2>2 DEF StartRun, Serves, RefusedInv, AnswerIs
    <2>3. CASE ServeSend(r) \/ TypeText(r) \/ PressEnter(r)
      BY <1>0, <2>3
         DEF ServeSend, TypeText, PressEnter, NextUp, Serves, PassInv, RefusedInv, AnswerIs
    <2>5. CASE ServeWithdraw(r)
      <3>1. /\ UNCHANGED <<client, run, crashes>> /\ serving.at = "next"
            /\ response[Req(q)] # "none" => response'[Req(q)] = response[Req(q)]
            /\ response'[Wdr(q)] = response[Wdr(q)]
            /\ serving' = [of |-> Wdr(r), at |-> Fate(r)]
        BY <1>0, <2>5 DEF ServeWithdraw, Undecided, NextUp, Serves, TypeOK
      <3>2. /\ Fate(r) # "ok"
            /\ Fate(r) = "refused" => response[Req(r)] = "refused"
        BY DEF Fate
      <3> QED
        BY <1>0, <3>1, <3>2 DEF RefusedInv, AnswerIs
    <2> QED
      BY <1>7, <2>1, <2>2, <2>3, <2>5 DEF Serve
  <1> QED
    BY <1>1, <1>2, <1>3, <1>4, <1>5, <1>6, <1>7 DEF Next, DaemonStep

(* While no daemon died, a spawn whose caller was given an error has no    *)
(* run, as spawn.ts says; a replay is what refuses a spawn that was begun. *)
THEOREM RefusedUnlessReplayed == Spec => [](crashes = 0 => RefusedHasNoRun)
  <1>1. Init => RefusedInvs
    BY Files, Names DEF Init, RefusedInvs, RefusedInv, AnswerIs, Requests
  <1>2. RequestsInv /\ RefusedInvs => (crashes = 0 => RefusedHasNoRun)
    <2> SUFFICES ASSUME RequestsInv, NEW q \in Spawns, RefusedInv(q), crashes = 0,
                        client[q] = "error"
                 PROVE  q \notin run
      BY DEF RefusedHasNoRun, RefusedInvs
    <2> QED
      BY DEF RequestsInv, PassInv, RefusedInv, AnswerIs
  <1> QED
    BY <1>1, <1>2, RefusedStep, RequestsInvariant, PTL DEF Spec

-----------------------------------------------------------------------------
(* Claw: the protocol and the launch as one system.                        *)

(* What callers, their requests and their clock do to a launch: nothing but *)
(* let its deadline pass.                                                  *)
LEMMA CallersLeave ==
    ASSUME TypeOK, CallerStep
    PROVE  (\E q \in Spawns : Launch!EnvStep(q)) \/ UNCHANGED Launch!vars
  <1>0. UNCHANGED launchVars
    BY DEF CallerStep
  <1>1. CASE UNCHANGED <<late, crashes>>
    BY <1>0, <1>1
       DEF launchVars, Launch!vars, Launch!daemonVars, Launch!hojaVars,
           Launch!ternVars, Launch!timeVars
  <1>2. ASSUME NEW q \in Requests, Expire(q), q \notin Spawns
        PROVE  UNCHANGED Launch!vars
    <2>1. /\ crashes' = crashes /\ \A r \in Spawns : r \in Requests /\ r # q
          /\ late \in [Requests -> BOOLEAN] /\ late' = [late EXCEPT ![q] = TRUE]
      BY <1>2 DEF Expire, TypeOK, daemonVars, Requests
    <2>2. \A r \in Spawns : late'[r] = late[r]
      BY <2>1
    <2> QED
      BY <1>0, <2>1, <2>2
         DEF launchVars, Launch!vars, Launch!daemonVars, Launch!hojaVars,
             Launch!ternVars, Launch!timeVars
  <1>3. ASSUME NEW q \in Spawns, Expire(q)
        PROVE  Launch!Expire(q)
    <2>1. /\ crashes' = crashes /\ ~late[q] /\ q \in Requests
          /\ late' = [late EXCEPT ![q] = TRUE]
      BY <1>3 DEF Expire, daemonVars, Requests
    <2>2. [r \in Spawns |-> late'[r]]
             = [[r \in Spawns |-> late[r]] EXCEPT ![q] = TRUE]
      <3>1. \A r \in Spawns : late'[r] = IF r = q THEN TRUE ELSE late[r]
        BY <2>1 DEF TypeOK, Requests
      <3> QED
        BY <3>1
    <2> QED
      BY <1>0, <2>1, <2>2
         DEF launchVars, Launch!Expire, Launch!Env, Launch!daemonVars,
             Launch!hojaVars, Launch!ternVars
  <1>4. ASSUME NEW q \in Requests, ClientStep(q)
        PROVE  UNCHANGED <<late, crashes>>
    BY <1>4
       DEF ClientStep, WriteRequest, EnsureDaemon, Recheck, ReadResponse,
           WriteWithdraw, ReadWithdrawal, WithdrawWaitOver, ClientDies,
           clientVars, daemonVars
  <1>5. ASSUME Toggle
        PROVE  UNCHANGED <<late, crashes>>
    BY <1>5 DEF Toggle, clientVars, daemonVars
  <1>6. ASSUME NEW q \in Spawns, Expire(q) PROVE Launch!EnvStep(q)
    BY <1>3, <1>6 DEF Launch!EnvStep
  <1> QED
    BY <1>1, <1>2, <1>4, <1>5, <1>6 DEF CallerStep

(* What the daemon does for a request, but for the start of its run.       *)
LEMMA ServingLeaves ==
    ASSUME ServeStep
    PROVE  UNCHANGED <<late, crashes, launchVars>>
  <1>1. UNCHANGED launchVars /\ (DaemonStep \/ Exit)
    BY DEF ServeStep
  <1>2. ASSUME NEW q \in Requests, Serve(q) PROVE UNCHANGED <<late, crashes>>
    BY <1>2
       DEF Serve, ServeSpawn, StartRun, ServeSend, TypeText, PressEnter,
           ServeWithdraw, clientVars
  <1>3. ASSUME NEW f \in File, SkipServed(f) PROVE UNCHANGED <<late, crashes>>
    BY <1>3 DEF SkipServed, clientVars
  <1> QED
    BY <1>1, <1>2, <1>3
       DEF DaemonStep, ListRequests, WriteResponse, RemoveRequest, EndPass,
           Exit, clientVars

LEMMA ServingSame ==
    ASSUME UNCHANGED <<late, crashes, launchVars>>
    PROVE  UNCHANGED Launch!vars
  BY DEF launchVars, Launch!vars, Launch!daemonVars, Launch!hojaVars,
         Launch!ternVars, Launch!timeVars

(* Every step of the system is a step of the protocol or leaves it alone,  *)
(* and a step of the launch or leaves that alone.                          *)
LEMMA ClawSteps ==
    ASSUME TypeOK, [ClawNext]_clawVars
    PROVE  [Next]_vars /\ [Launch!Next]_(Launch!vars)
  <1>1. CASE CallerStep
    <2>1. Next
      BY <1>1 DEF CallerStep, Next
    <2> QED
      BY <1>1, <2>1, CallersLeave DEF Launch!Next
  <1>2. CASE ServeStep
    <2>1. Next
      BY <1>2 DEF ServeStep, Next
    <2> QED
      BY <1>2, <2>1, ServingLeaves, ServingSame
  <1>3. CASE DaemonDies
    BY <1>3 DEF DaemonDies, Next, Launch!Next
  <1>4. ASSUME NEW q \in Spawns, RunStarts(q)
        PROVE  Next /\ Launch!Next
    <2>1. Next
      BY <1>4 DEF RunStarts, Next, DaemonStep, Serve, Requests
    <2>2. Launch!Next
      BY <1>4 DEF RunStarts, Launch!Next
    <2> QED
      BY <2>1, <2>2
  <1>5. ASSUME NEW q \in Spawns,
               TickStep(q) \/ CancelServed(q) \/ LaunchGoesOn(q) \/ WorldStep(q)
        PROVE  UNCHANGED vars /\ Launch!Next
    BY <1>5 DEF TickStep, CancelServed, LaunchGoesOn, WorldStep, Launch!Next
  <1>6. CASE UNCHANGED clawVars
    <2>1. UNCHANGED vars /\ UNCHANGED <<late, crashes, launchVars>>
      BY <1>6 DEF clawVars, vars, clientVars, daemonVars
    <2> QED
      BY <2>1, ServingSame
  <1> QED
    BY <1>1, <1>2, <1>3, <1>4, <1>5, <1>6 DEF ClawNext

(* The whole keeps the promises of the protocol.                           *)
THEOREM ClawServesRequests == ClawSpec => Spec
  <1>1. ClawInit => Init
    BY DEF ClawInit
  <1>2. TypeOK /\ [ClawNext]_clawVars => [Next]_vars
    BY ClawSteps
  <1>3. ClawInit => TypeOK
    BY <1>1, InitType
  <1>4. TypeOK /\ [Next]_vars => TypeOK'
    BY TypeStep
  <1> QED
    BY <1>1, <1>2, <1>3, <1>4, PTL DEF ClawSpec, Spec

(* ClawSpec => Launch!Spec, the launch as it is run inside the requests.   *)
THEOREM ClawLaunches == ClawSpec => Launch!Spec
  <1>1. ClawInit => Launch!Init
    BY DEF ClawInit
  <1>2. TypeOK /\ [ClawNext]_clawVars => [Launch!Next]_(Launch!vars)
    BY ClawSteps
  <1> QED
    BY <1>1, <1>2, ClawServesRequests, TypeCorrect, PTL DEF ClawSpec, Launch!Spec

-----------------------------------------------------------------------------
(* What is proved of the launch on its own holds for the launch in here.   *)

\* The launch of Claw, with what is proved about it.
Proved == INSTANCE ClawLaunchProofs
              WITH Runs <- Spawns, expired <- [q \in Spawns |-> late[q]]

(* Both instances define the same system, handler by handler.              *)
LEMMA SameDispatchStep ==
    ASSUME NEW r
    PROVE  Launch!DispatchStep(r) <=> Proved!DispatchStep(r)
  BY DEF Launch!DispatchStep, Proved!DispatchStep, Launch!CheckDispatch,
         Proved!CheckDispatch, Launch!PastDeadline, Proved!PastDeadline,
         Launch!FailRun, Proved!FailRun, Launch!SaveRun, Proved!SaveRun,
         Launch!Failed, Proved!Failed, Launch!Goto, Proved!Goto, Launch!Local,
         Proved!Local, Launch!hojaVars, Proved!hojaVars, Launch!ternVars,
         Proved!ternVars, Launch!timeVars, Proved!timeVars, Launch!ResolveFails,
         Proved!ResolveFails, Launch!LookupFails, Proved!LookupFails,
         Launch!Dispatch, Proved!Dispatch, Launch!SendCreate, Proved!SendCreate,
         Launch!CreateAnswered, Proved!CreateAnswered, Launch!CreateUnknown,
         Proved!CreateUnknown, Launch!CreateRejected, Proved!CreateRejected,
         Launch!IssueNotSeen, Proved!IssueNotSeen, Launch!IssueMismatch,
         Proved!IssueMismatch, Launch!IssueVerified, Proved!IssueVerified,
         Launch!WriteTaskFile, Proved!WriteTaskFile

LEMMA SameLaunchStep ==
    ASSUME NEW r
    PROVE  Launch!LaunchStep(r) <=> Proved!LaunchStep(r)
  BY DEF Launch!LaunchStep, Proved!LaunchStep, Launch!CheckLaunch,
         Proved!CheckLaunch, Launch!PastDeadline, Proved!PastDeadline,
         Launch!FailRun, Proved!FailRun, Launch!SaveRun, Proved!SaveRun,
         Launch!Failed, Proved!Failed, Launch!Goto, Proved!Goto, Launch!Local,
         Proved!Local, Launch!hojaVars, Proved!hojaVars, Launch!ternVars,
         Proved!ternVars, Launch!timeVars, Proved!timeVars, Launch!GateRefuses,
         Proved!GateRefuses, Launch!SessionFails, Proved!SessionFails,
         Launch!OpenTab, Proved!OpenTab, Launch!SendTab, Proved!SendTab,
         Launch!TabAnswered, Proved!TabAnswered, Launch!TabFails,
         Proved!TabFails, Launch!Located, Proved!Located, Launch!Interrupted,
         Proved!Interrupted, Launch!AfterInterrupt, Proved!AfterInterrupt

LEMMA SameReconcileStep ==
    ASSUME NEW r
    PROVE  Launch!ReconcileStep(r) <=> Proved!ReconcileStep(r)
  BY DEF Launch!ReconcileStep, Proved!ReconcileStep, Launch!JudgeDead,
         Proved!JudgeDead, Launch!AfterEvents, Proved!AfterEvents,
         Launch!ApplyStarted, Proved!ApplyStarted, Launch!Terminal,
         Proved!Terminal, Launch!Change, Proved!Change, Launch!Verdict,
         Proved!Verdict, Launch!Goto, Proved!Goto, Launch!Local, Proved!Local,
         Launch!hojaVars, Proved!hojaVars, Launch!ternVars, Proved!ternVars,
         Launch!timeVars, Proved!timeVars, Launch!Supervise, Proved!Supervise,
         Launch!TimedOut, Proved!TimedOut, Launch!FailRun, Proved!FailRun,
         Launch!SaveRun, Proved!SaveRun, Launch!Failed, Proved!Failed,
         Launch!CloseTab, Proved!CloseTab, Launch!CloseDue, Proved!CloseDue,
         Launch!Closes, Proved!Closes, Launch!LeaveTab, Proved!LeaveTab,
         Launch!NoRecovery, Proved!NoRecovery, Launch!Recoverable,
         Proved!Recoverable, Launch!TooLate, Proved!TooLate, Launch!PastDeadline,
         Proved!PastDeadline, Launch!RecoverySpent, Proved!RecoverySpent,
         Launch!RelaunchLaunch, Proved!RelaunchLaunch, Launch!Relaunched,
         Proved!Relaunched

LEMMA SameCancelStep ==
    ASSUME NEW r
    PROVE  Launch!CancelStep(r) <=> Proved!CancelStep(r)
  BY DEF Launch!CancelStep, Proved!CancelStep, Launch!CancelCloses,
         Proved!CancelCloses, Launch!CloseDue, Proved!CloseDue, Launch!Closes,
         Proved!Closes, Launch!Change, Proved!Change, Launch!Goto, Proved!Goto,
         Launch!hojaVars, Proved!hojaVars, Launch!timeVars, Proved!timeVars,
         Launch!CancelLeaves, Proved!CancelLeaves, Launch!Local, Proved!Local,
         Launch!ternVars, Proved!ternVars, Launch!CancelRecords,
         Proved!CancelRecords, Launch!Gone, Proved!Gone, Launch!SaveRun,
         Proved!SaveRun

LEMMA SameEnvStep ==
    ASSUME NEW r
    PROVE  Launch!EnvStep(r) <=> Proved!EnvStep(r)
  BY DEF Launch!EnvStep, Proved!EnvStep, Launch!CommitCreate,
         Proved!CommitCreate, Launch!ternVars, Proved!ternVars, Launch!timeVars,
         Proved!timeVars, Launch!Env, Proved!Env, Launch!daemonVars,
         Proved!daemonVars, Launch!DropCreate, Proved!DropCreate,
         Launch!TabOpens, Proved!TabOpens, Launch!hojaVars, Proved!hojaVars,
         Launch!TabNeverOpens, Proved!TabNeverOpens, Launch!WorkerStarts,
         Proved!WorkerStarts, Launch!WorkerDies, Proved!WorkerDies,
         Launch!TabClosedByHand, Proved!TabClosedByHand, Launch!Closes,
         Proved!Closes, Launch!Expire, Proved!Expire, Launch!Age, Proved!Age,
         Launch!Active, Proved!Active

LEMMA SameStartRun ==
    ASSUME NEW r
    PROVE  Launch!StartRun(r) <=> Proved!StartRun(r)
  BY DEF Launch!StartRun, Proved!StartRun, Launch!Idle, Proved!Idle,
         Launch!SaveRun, Proved!SaveRun, Launch!NewRun, Proved!NewRun,
         Launch!Goto, Proved!Goto, Launch!Local, Proved!Local, Launch!hojaVars,
         Proved!hojaVars, Launch!ternVars, Proved!ternVars, Launch!timeVars,
         Proved!timeVars

LEMMA SameContinueRun ==
    ASSUME NEW r
    PROVE  Launch!ContinueRun(r) <=> Proved!ContinueRun(r)
  BY DEF Launch!ContinueRun, Proved!ContinueRun, Launch!Idle, Proved!Idle,
         Launch!Active, Proved!Active, Launch!Goto, Proved!Goto, Launch!Local,
         Proved!Local, Launch!hojaVars, Proved!hojaVars, Launch!ternVars,
         Proved!ternVars, Launch!timeVars, Proved!timeVars

LEMMA SameReconcileRun ==
    ASSUME NEW r
    PROVE  Launch!ReconcileRun(r) <=> Proved!ReconcileRun(r)
  BY DEF Launch!ReconcileRun, Proved!ReconcileRun, Launch!Idle, Proved!Idle,
         Launch!Active, Proved!Active, Launch!AfterEvents, Proved!AfterEvents,
         Launch!ApplyStarted, Proved!ApplyStarted, Launch!Terminal,
         Proved!Terminal, Launch!Change, Proved!Change, Launch!Dead, Proved!Dead,
         Launch!Goto, Proved!Goto, Launch!Local, Proved!Local, Launch!hojaVars,
         Proved!hojaVars, Launch!ternVars, Proved!ternVars, Launch!timeVars,
         Proved!timeVars

LEMMA SameCancel ==
    ASSUME NEW r
    PROVE  Launch!Cancel(r) <=> Proved!Cancel(r)
  BY DEF Launch!Cancel, Proved!Cancel, Launch!Idle, Proved!Idle, Launch!Active,
         Proved!Active, Launch!Goto, Proved!Goto, Launch!hojaVars,
         Proved!hojaVars, Launch!timeVars, Proved!timeVars

LEMMA SameCrash == Launch!Crash <=> Proved!Crash
  BY DEF Launch!Crash, Proved!Crash, Launch!hojaVars, Proved!hojaVars,
         Launch!ternVars, Proved!ternVars, Launch!timeVars, Proved!timeVars

LEMMA SameInit == Launch!Init <=> Proved!Init
  BY DEF Launch!Init, Proved!Init, Launch!NewRun, Proved!NewRun

LEMMA SameVars == UNCHANGED Launch!vars <=> UNCHANGED Proved!vars
  BY DEF Launch!vars, Proved!vars, Launch!daemonVars, Proved!daemonVars,
         Launch!hojaVars, Proved!hojaVars, Launch!ternVars, Proved!ternVars,
         Launch!timeVars, Proved!timeVars

LEMMA SameDaemonStep ==
    ASSUME NEW r
    PROVE  Launch!DaemonStep(r) <=> Proved!DaemonStep(r)
  BY SameDispatchStep, SameLaunchStep, SameReconcileStep, SameCancelStep
     DEF Launch!DaemonStep, Proved!DaemonStep

LEMMA SameNext == Launch!Next <=> Proved!Next
  BY SameDaemonStep, SameEnvStep, SameStartRun, SameContinueRun,
     SameReconcileRun, SameCancel, SameCrash DEF Launch!Next, Proved!Next

LEMMA SameSteps == [Launch!Next]_(Launch!vars) <=> [Proved!Next]_(Proved!vars)
  BY SameNext, SameVars

LEMMA LaunchHolds == Proved!LaunchAssumption
  BY ClawAssumption, RequestsAssumption DEF Proved!LaunchAssumption

LEMMA ClawProved == ClawSpec => Proved!Spec
  <1>1. ClawInit => Proved!Init
    BY SameInit DEF ClawInit
  <1>2. TypeOK /\ [ClawNext]_clawVars => [Proved!Next]_(Proved!vars)
    BY ClawSteps, SameSteps
  <1> QED
    BY <1>1, <1>2, ClawServesRequests, TypeCorrect, PTL DEF ClawSpec, Proved!Spec

(* Served inside the requests, a launch creates one issue at most, ends     *)
(* before its create only with nothing created, and opens tabs only for an *)
(* issue that was read back (spawn.ts).                                    *)
THEOREM ClawKeepsLaunch ==
    ClawSpec => [](/\ Launch!AtMostOneIssue
                   /\ Launch!NotStartedMeansNothing
                   /\ Launch!TabsAreEarned)
  <1>1. Proved!Spec => []Proved!AtMostOneIssue
    BY LaunchHolds, Proved!OneIssue
  <1>2. Proved!Spec => []Proved!NotStartedMeansNothing
    BY LaunchHolds, Proved!NothingStarted
  <1>3. Proved!Spec => []Proved!TabsAreEarned
    BY LaunchHolds, Proved!TabsEarned
  <1>4. Proved!AtMostOneIssue => Launch!AtMostOneIssue
    BY DEF Proved!AtMostOneIssue, Launch!AtMostOneIssue
  <1>5. Proved!NotStartedMeansNothing => Launch!NotStartedMeansNothing
    BY DEF Proved!NotStartedMeansNothing, Launch!NotStartedMeansNothing,
           Proved!Terminal, Launch!Terminal
  <1>6. Proved!TabsAreEarned => Launch!TabsAreEarned
    BY DEF Proved!TabsAreEarned, Launch!TabsAreEarned
  <1> QED
    BY <1>1, <1>2, <1>3, <1>4, <1>5, <1>6, ClawProved, PTL

-----------------------------------------------------------------------------
(* A spawn that is not recorded has left nothing anywhere, and one that is  *)
(* recorded after its deadline leaves nothing.                             *)

BlankInv == \A q \in Spawns : q \notin run => Proved!Blank(q)

(* A step of the system is, for the launch, a step that starts a run with   *)
(* the deadline of its request, or one that starts none.                   *)
LEMMA ClawTimely ==
    ASSUME TypeOK, [ClawNext]_clawVars
    PROVE  \/ \E r \in Spawns : Proved!GoesOn(r)
           \/ \E r \in Spawns : /\ r \in run' /\ run' = run \cup {r}
                                /\ Proved!StartRun(r) /\ disk'[r].deadline
           \/ Proved!Crash \/ UNCHANGED Proved!vars
  <1>1. CASE CallerStep
    <2>1. (\E q \in Spawns : Launch!EnvStep(q)) \/ UNCHANGED Launch!vars
      BY <1>1, CallersLeave
    <2> QED
      BY <2>1, SameEnvStep, SameVars DEF Proved!GoesOn
  <1>2. CASE ServeStep
    BY <1>2, ServingLeaves, ServingSame, SameVars
  <1>3. CASE DaemonDies
    BY <1>3, SameCrash DEF DaemonDies
  <1>4. ASSUME NEW q \in Spawns, RunStarts(q)
        PROVE  /\ q \in run' /\ run' = run \cup {q}
               /\ Proved!StartRun(q) /\ disk'[q].deadline
    BY <1>4, SameStartRun DEF RunStarts, StartRun
  <1>5. ASSUME NEW q \in Spawns,
               TickStep(q) \/ CancelServed(q) \/ LaunchGoesOn(q) \/ WorldStep(q)
        PROVE  Proved!GoesOn(q)
    BY <1>5, SameContinueRun, SameReconcileRun, SameCancel, SameDaemonStep,
       SameEnvStep
       DEF TickStep, CancelServed, LaunchGoesOn, WorldStep, Proved!GoesOn
  <1>6. CASE UNCHANGED clawVars
    <2>1. UNCHANGED <<late, crashes, launchVars>>
      BY <1>6 DEF clawVars, vars, clientVars, daemonVars
    <2> QED
      BY <2>1, ServingSame, SameVars
  <1> QED
    BY <1>1, <1>2, <1>3, <1>4, <1>5, <1>6 DEF ClawNext

LEMMA RunsStay ==
    ASSUME [Next]_vars
    PROVE  run \subseteq run'
  BY DEF Next, ClientStep, WriteRequest, EnsureDaemon, Recheck, ReadResponse,
         WriteWithdraw, ReadWithdrawal, WithdrawWaitOver, ClientDies,
         DaemonStep, ListRequests, SkipServed, Serve, ServeSpawn, StartRun,
         ServeSend, TypeText, PressEnter, ServeWithdraw, WriteResponse,
         RemoveRequest, EndPass, Exit, Crash, Toggle, Expire, vars, diskVars

LEMMA InitBlank == ClawInit => BlankInv
  <1> SUFFICES ASSUME Proved!Init, NEW q \in Spawns
               PROVE  Proved!Blank(q)
    BY SameInit DEF ClawInit, BlankInv
  <1> QED
    BY DEF Proved!Init, Proved!Blank, Proved!NothingSent

LEMMA BlankStep ==
    ASSUME TypeOK, Proved!TypeOK, BlankInv, [ClawNext]_clawVars
    PROVE  BlankInv'
  <1> SUFFICES ASSUME NEW q \in Spawns, q \notin run'
               PROVE  Proved!Blank(q)'
    BY DEF BlankInv
  <1>1. q \notin run /\ Proved!Blank(q)
    BY ClawSteps, RunsStay DEF BlankInv
  <1>2. \/ \E r \in Spawns : Proved!GoesOn(r) \/ (r # q /\ Proved!StartRun(r))
        \/ Proved!Crash \/ UNCHANGED Proved!vars
    BY ClawTimely
  <1> QED
    BY <1>1, <1>2, LaunchHolds, Proved!BlankStays

\* Nothing will be started for q.
Doomed(q) == Proved!Halted(q) \/ client[q] = "not_started"

LEMMA AnswerStays ==
    ASSUME TypeOK, [Next]_vars, NEW q \in Spawns, client[q] = "not_started"
    PROVE  client'[q] = "not_started"
  <1>1. ASSUME NEW r \in Requests, ClientStep(r)
        PROVE  client'[q] = "not_started"
    <2>1. CASE r = q
      <3>1. UNCHANGED client
        BY <1>1, <2>1
           DEF ClientStep, WriteRequest, EnsureDaemon, Recheck, ReadResponse,
               WriteWithdraw, ReadWithdrawal, WithdrawWaitOver, ClientDies,
               clientVars
      <3> QED
        BY <3>1
    <2>2. CASE r # q
      <3>1. UNCHANGED client \/ \E c : Becomes(r, c)
        BY <1>1
           DEF ClientStep, WriteRequest, EnsureDaemon, Recheck, ReadResponse,
               WriteWithdraw, ReadWithdrawal, WithdrawWaitOver, ClientDies,
               clientVars
      <3> QED
        BY <2>2, <3>1 DEF Becomes, TypeOK, Requests
    <2> QED
      BY <2>1, <2>2
  <1>2. CASE DaemonStep \/ Exit \/ Crash \/ Toggle \/ UNCHANGED vars
    BY <1>2
       DEF DaemonStep, ListRequests, SkipServed, Serve, ServeSpawn, StartRun,
           ServeSend, TypeText, PressEnter, ServeWithdraw, WriteResponse,
           RemoveRequest, EndPass, Exit, Crash, Toggle, vars, clientVars
  <1>3. ASSUME NEW r \in Requests, Expire(r)
        PROVE  client'[q] = "not_started"
    BY <1>3 DEF Expire
  <1> QED
    BY <1>1, <1>2, <1>3 DEF Next

LEMMA DoomedStays ==
    ASSUME TypeOK, Proved!TypeOK, [ClawNext]_clawVars,
           NEW q \in Spawns, Doomed(q)
    PROVE  Doomed(q)'
  <1>1. CASE client[q] = "not_started"
    BY <1>1, ClawSteps, AnswerStays DEF Doomed
  <1>2. CASE Proved!Halted(q)
    <2>1. \/ \E r \in Spawns : Proved!Timely(r)
          \/ Proved!Crash \/ UNCHANGED Proved!vars
      BY ClawTimely DEF Proved!Timely
    <2>2. Proved!Halted(q)'
      BY <1>2, <2>1, LaunchHolds, Proved!HaltedStays
    <2> QED
      BY <2>2 DEF Doomed
  <1> QED
    BY <1>1, <1>2 DEF Doomed

LEMMA DoomedMeans ==
    ASSUME BlankInv, NotStartedIsFinal, NEW q \in Spawns
    PROVE  /\ client[q] = "not_started" \/ (late[q] /\ q \notin run) => Doomed(q)
           /\ Doomed(q) => Untouched(q)
  <1>1. q \notin run => Proved!Blank(q)
    BY DEF BlankInv
  <1>2. client[q] = "not_started" => q \notin run
    BY DEF NotStartedIsFinal
  <1>3. Proved!Blank(q) /\ late[q] => Proved!Halted(q)
    BY DEF Proved!Blank, Proved!Halted, Proved!NewRun, Proved!AtIntent,
           Proved!EarlyStep
  <1>4. Proved!Blank(q) \/ Proved!Halted(q) => Untouched(q)
    BY DEF Proved!Blank, Proved!Halted, Proved!NothingSent, Untouched
  <1> QED
    BY <1>1, <1>2, <1>3, <1>4 DEF Doomed

LEMMA BlankInvariant == ClawSpec => [](TypeOK /\ Proved!TypeOK /\ BlankInv)
  <1>1. Proved!Spec => []Proved!TypeOK
    BY LaunchHolds, Proved!TypeCorrect
  <1>2. TypeOK /\ Proved!TypeOK /\ BlankInv /\ [ClawNext]_clawVars => BlankInv'
    BY BlankStep
  <1> QED
    BY <1>1, <1>2, InitBlank, ClawServesRequests, TypeCorrect, ClawProved, PTL
       DEF ClawSpec

LEMMA NothingStartsFor ==
    ASSUME NEW q \in Spawns
    PROVE  ClawSpec => [](client[q] = "not_started" \/ (late[q] /\ q \notin run)
                             => []Untouched(q))
  <1>1. TypeOK /\ Proved!TypeOK /\ Doomed(q) /\ [ClawNext]_clawVars => Doomed(q)'
    BY DoomedStays
  <1>2. BlankInv /\ NotStartedIsFinal
           => (client[q] = "not_started" \/ (late[q] /\ q \notin run) => Doomed(q))
    BY DoomedMeans
  <1>3. BlankInv /\ NotStartedIsFinal => (Doomed(q) => Untouched(q))
    BY DoomedMeans
  <1> QED
    BY <1>1, <1>2, <1>3, BlankInvariant, ClawServesRequests, NotStarted, PTL
       DEF ClawSpec

(* No issue is created and no tab is opened, ever, for a spawn whose caller *)
(* was told so or whose deadline passed before its run was recorded         *)
(* (processRequests, dispatchCreate).                                      *)
THEOREM NothingEverStarts == ClawSpec => NothingStarts
  BY NothingStartsFor DEF NothingStarts

-----------------------------------------------------------------------------
(* The idle exit.                                                          *)

(* A step that does not start, end or look for work keeps who runs it.     *)
LEMMA AbandonedStep ==
    ASSUME RequestsInv, NoRunAbandoned, [ClawNext]_clawVars
    PROVE  NoRunAbandoned'
  <1> SUFFICES ASSUME crashes' = 0, daemon' \in {"down", "exiting"},
                      NEW p \in Spawns
               PROVE  disk'[p].status \notin Launch!Active
    BY DEF NoRunAbandoned, Launch!Active
  <1>0. TypeOK /\ PassInv
    BY DEF RequestsInv
  <1>k. ASSUME crashes = 0, daemon \in {"down", "exiting"}, disk' = disk
        PROVE  disk'[p].status \notin Launch!Active
    BY <1>k DEF NoRunAbandoned, Launch!Active
  <1>1. CASE CallerStep
    BY <1>1, <1>k
       DEF CallerStep, launchVars, ClientStep, WriteRequest, EnsureDaemon,
           Recheck, Start, ReadResponse, WriteWithdraw, ReadWithdrawal,
           WithdrawWaitOver, ClientDies, Toggle, Expire, daemonVars
  <1>2. CASE ServeStep
    <2>1. disk' = disk /\ crashes' = crashes
      BY <1>2, ServingLeaves DEF launchVars
    <2>2. CASE daemon' = "exiting"
      BY <1>2, <2>1, <2>2 DEF ServeStep, HasWork
    <2>3. CASE daemon' = "down"
      <3>1. daemon \in {"down", "exiting"}
        BY <1>0, <1>2, <2>3
           DEF ServeStep, DaemonStep, ListRequests, SkipServed, NextUp, Serve,
               ServeSpawn, StartRun, ServeSend, TypeText, PressEnter,
               ServeWithdraw, WriteResponse, RemoveRequest, EndPass, Exit
      <3> QED
        BY <1>k, <2>1, <3>1
    <2> QED
      BY <2>2, <2>3
  <1>3. CASE DaemonDies
    BY <1>0, <1>3 DEF DaemonDies, Crash, TypeOK
  <1>4. ASSUME NEW q \in Spawns, RunStarts(q)
        PROVE  FALSE
    BY <1>0, <1>4 DEF RunStarts, StartRun, PassInv
  <1>5. ASSUME NEW q \in Spawns, TickStep(q) \/ CancelServed(q) \/ LaunchGoesOn(q)
        PROVE  FALSE
    BY <1>5 DEF TickStep, CancelServed, LaunchGoesOn, vars, daemonVars
  <1>6. ASSUME NEW q \in Spawns, WorldStep(q)
        PROVE  UNCHANGED <<disk, daemon, crashes>>
    BY <1>6
       DEF WorldStep, vars, daemonVars, Launch!EnvStep, Launch!CommitCreate,
           Launch!DropCreate, Launch!TabOpens, Launch!TabNeverOpens,
           Launch!WorkerStarts, Launch!WorkerDies, Launch!TabClosedByHand,
           Launch!Expire, Launch!Age, Launch!Env, Launch!daemonVars
  <1>7. CASE UNCHANGED clawVars
    BY <1>7, <1>k DEF clawVars, vars, daemonVars, launchVars
  <1> QED
    BY <1>1, <1>2, <1>3, <1>4, <1>5, <1>6, <1>7, <1>k DEF ClawNext

(* A daemon that was not killed is never gone, nor going, while a launch is *)
(* unfinished (hasWork, runDaemon).                                        *)
THEOREM NoneAbandoned == ClawSpec => []NoRunAbandoned
  <1>1. ClawInit => NoRunAbandoned
    BY DEF ClawInit, Launch!Init, Launch!NewRun, Launch!Active, NoRunAbandoned
  <1>2. RequestsInv /\ NoRunAbandoned /\ [ClawNext]_clawVars => NoRunAbandoned'
    BY AbandonedStep
  <1> QED
    BY <1>1, <1>2, ClawServesRequests, RequestsInvariant, PTL DEF ClawSpec
=============================================================================
