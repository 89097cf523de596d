------------------------------ MODULE ClawItems ------------------------------
(***************************************************************************)
(* The inbox as those who write to it see it (appendInbox of               *)
(* .pi/lib/claw/store.ts): an item whose key is there is not written again.*)
(***************************************************************************)
EXTENDS Naturals

VARIABLE inbox      \* inbox.jsonl, without its order

IsNew(key) == \A i \in inbox : i.key # key

\* about is what the text of the item lists.
AppendInbox(key, about) ==
    inbox' = IF IsNew(key) THEN inbox \cup {[key |-> key, about |-> about]}
             ELSE inbox
=============================================================================
