------------------------------ MODULE ClawDigest ------------------------------
(***************************************************************************)
(* flushDigest (.pi/lib/claw/supervisor.ts): the notices written since the *)
(* cursor are folded into one inbox item for each owner, and the cursor is *)
(* saved after the items.  Only the daemon writes notices, and it does one *)
(* thing at a time.  The heartbeat of a quiet window is not here.          *)
(***************************************************************************)
EXTENDS ClawItems, Sequences, FiniteSets

CONSTANTS
    Owners,         \* orchestrator sessions, and nobody
    MaxNotices      \* bound: notices

ASSUME DigestAssumption == MaxNotices \in Nat

VARIABLES
    notices,    \* notices.jsonl: for each notice the owner of its run
    cursor,     \* noticesOffset in supervisor.json
    upTo,       \* read.offset of the digest in progress, 0 when there is none
    groups      \* its groups that have no item yet

digestVars == <<notices, cursor, upTo, groups>>

DigestInit == notices = <<>> /\ cursor = 0 /\ upTo = 0 /\ groups = {}

NewNotice(owner) ==
    /\ upTo = 0 /\ Len(notices) < MaxNotices
    /\ notices' = Append(notices, owner)
    /\ UNCHANGED <<cursor, upTo, groups, inbox>>

Unread(owner, end) == {n \in (cursor + 1)..end : notices[n] = owner}

StartDigest ==
    /\ upTo = 0 /\ cursor < Len(notices)
    /\ upTo' = Len(notices)
    /\ groups' = {notices[n] : n \in (cursor + 1)..Len(notices)}
    /\ UNCHANGED <<notices, cursor, inbox>>

Oldest(s) == CHOOSE n \in s : \A k \in s : n <= k

Newest(s) == CHOOSE n \in s : \A k \in s : k <= n

DigestKey(s) == <<"digest", Oldest(s)>>

\* The groups are written in the order of their first notices.
AppendDigest(owner) ==
    /\ owner \in groups
    /\ \A other \in groups :
          Oldest(Unread(owner, upTo)) <= Oldest(Unread(other, upTo))
    /\ AppendInbox(DigestKey(Unread(owner, upTo)), Unread(owner, upTo))
    /\ groups' = groups \ {owner}
    /\ UNCHANGED <<notices, cursor, upTo>>

AllAppended == groups = {}

SaveCursor ==
    /\ upTo # 0 /\ AllAppended
    /\ cursor' = upTo /\ upTo' = 0 /\ groups' = {}
    /\ UNCHANGED <<notices, inbox>>

DigestCrash == upTo' = 0 /\ groups' = {} /\ UNCHANGED <<notices, cursor, inbox>>

DigestStep ==
    StartDigest \/ (\E owner \in Owners : AppendDigest(owner)) \/ SaveCursor

DigestNext ==
    DigestStep \/ DigestCrash \/ \E owner \in Owners : NewNotice(owner)

DigestSpec ==
    DigestInit /\ inbox = {} /\ [][DigestNext]_<<digestVars, inbox>>

-----------------------------------------------------------------------------
DigestTypeOK ==
    /\ notices \in Seq(Owners) /\ Len(notices) <= MaxNotices
    /\ cursor \in 0..Len(notices) /\ groups \subseteq Owners
    /\ upTo \in {0} \cup (cursor + 1)..Len(notices)

Digests == {i \in inbox : i.key[1] = "digest"}

\* However often a digest is begun again, no notice is in two items.
DigestedOnce ==
    \A i, j \in Digests : i.about \cap j.about # {} => i = j

\* Every notice the cursor passed is in an item.
NoticesTold == \A n \in 1..cursor : \E i \in Digests : n \in i.about

\* Whatever the daemon dies of, the cursor passes no owner without an item about
\* the oldest notice that owner had not seen.
NoOwnerSkipped ==
    [][\A owner \in Owners :
          LET passed == {n \in (cursor + 1)..cursor' : notices[n] = owner}
          IN  passed # {} => \E i \in Digests : Oldest(passed) \in i.about]_cursor
=============================================================================
