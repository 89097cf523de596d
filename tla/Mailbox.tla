------------------------------- MODULE Mailbox -------------------------------
(***************************************************************************)
(* What the Claw inbox promises to the sessions of a workspace              *)
(* (.pi/lib/claw/inbox.ts, header; docs/claw/README.md, "Several Claw       *)
(* sessions on one workspace"), without files, offsets in flight, timers   *)
(* or processes.                                                           *)
(*                                                                         *)
(* Items are posted in one order for everybody.  Each is addressed to one  *)
(* session or to all of them.  A session joins at some position and is     *)
(* shown what is addressed to it from there on, each item at least once;   *)
(* it acknowledges a prefix only when nothing in it is still to be shown.  *)
(***************************************************************************)
EXTENDS Naturals, Sequences

CONSTANTS Sessions, Everyone

VARIABLES posted,       \* the addresses of the items, in the order posted
          joined,       \* the sessions that registered
          from,         \* where each of them started to read
          shown,        \* items a session was shown, at least once
          acked         \* items a session need not look at again

vars == <<posted, joined, from, shown, acked>>

Addressed(s, i) == posted[i] \in {s, Everyone}

Init ==
    /\ posted \in Seq(Sessions \cup {Everyone})
    /\ joined = {}
    /\ from  = [s \in Sessions |-> 0]
    /\ shown = [s \in Sessions |-> {}]
    /\ acked = [s \in Sessions |-> 0]

Post ==
    /\ \E a \in Sessions \cup {Everyone} : posted' = Append(posted, a)
    /\ UNCHANGED <<joined, from, shown, acked>>

Join(s) ==
    /\ s \notin joined
    /\ joined' = joined \cup {s}
    /\ \E k \in 0..Len(posted) :
          /\ from'  = [from EXCEPT ![s] = k]
          /\ acked' = [acked EXCEPT ![s] = k]
    /\ UNCHANGED <<posted, shown>>

Show(s) ==
    /\ s \in joined
    /\ \E batch \in SUBSET (1..Len(posted)) :
          /\ \A i \in batch : Addressed(s, i) /\ i > from[s]
          /\ shown' = [shown EXCEPT ![s] = @ \cup batch]
    /\ UNCHANGED <<posted, joined, from, acked>>

Ack(s) ==
    /\ s \in joined
    /\ \E k \in acked[s]..Len(posted) :
          /\ \A i \in from[s] + 1 .. k : Addressed(s, i) => i \in shown[s]
          /\ acked' = [acked EXCEPT ![s] = k]
    /\ UNCHANGED <<posted, joined, from, shown>>

Next == Post \/ \E s \in Sessions : Join(s) \/ Show(s) \/ Ack(s)

Spec == Init /\ [][Next]_vars

\* Every item reaches every session it is addressed to.
Due(s, i) == s \in joined /\ i \in from[s] + 1 .. Len(posted) /\ Addressed(s, i)
=============================================================================
