------------------------------ MODULE TaskManage ------------------------------
(***************************************************************************)
(* The ordered tasks of a session (class TaskManager,                      *)
(* packages/tools/taskmanage/src/task-manage.ts): batches of operations on *)
(* a graph of tasks, their rollback, and the session's journal, from which *)
(* they are restored.                                                      *)
(*                                                                         *)
(* The journal is the state a restart restores from it.  Texts, questions  *)
(* and evidence are left out: an operation may always be refused.          *)
(***************************************************************************)
EXTENDS Naturals, FiniteSets

CONSTANTS
    Keys,       \* names of operations
    MaxTasks,   \* bound: the ids
    MaxOps      \* bound: operations of a session that succeed

ASSUME TaskManageAssumption == MaxTasks \in Nat /\ MaxOps \in Nat

VARIABLES
    mem,        \* this.state
    journal,
    batch,      \* the batch under way: its mode and the state before it
    done        \* operations that succeeded

vars == <<mem, journal, batch, done>>

Ids == 1..MaxTasks

Started == {"pending", "in_progress"}

Statuses == Started \cup {"completed"}

NoTask == [status |-> "none", active |-> FALSE, parent |-> 0, deps |-> {}]

State == [next : 1..(MaxTasks + 1), keys : [Keys -> Ids \cup {0}],
          task : [Ids -> [status : Statuses \cup {"none"}, active : BOOLEAN,
                          parent : Ids \cup {0}, deps : SUBSET Ids]]]

Live(st) == {i \in Ids : st.task[i].status # "none"}

\* reaches, parentReaches: b is after a.
Reaches(after, a, b) ==
    \A S \in SUBSET Ids : after[a] \subseteq S /\ (\A c \in S : after[c] \subseteq S) => b \in S

Deps(st) == [i \in Ids |-> st.task[i].deps]

ParentOf(p) == [i \in Ids |-> IF p[i] = 0 THEN {} ELSE {p[i]}]

Parents(st) == ParentOf([i \in Ids |-> st.task[i].parent])

-----------------------------------------------------------------------------
\* What is kept of a snapshot, whoever wrote it.

\* One task after the other loses its parent if the walk up from it never ends: of
\* the tasks such a walk comes through, the first.
Uncycled(p) ==
    [n \in Ids |-> IF \E S \in SUBSET (n..MaxTasks) : n \in S /\ \A c \in S : p[c] \in S
                   THEN 0 ELSE p[n]]

Known(raw, refs, i) == (refs \cap Live(raw)) \ {i}

FocusOf(raw) ==
    {i \in Ids : raw.task[i].active /\ raw.task[i].status = "in_progress"}

\* A slip: numbers go on after the last task there is.
NextAfterLast(raw) ==
    CHOOSE n \in 1..(MaxTasks + 1) :
        (\A i \in Live(raw) : i < n) /\ (n = 1 \/ n - 1 \in Live(raw))

NextId(raw) ==
    CHOOSE n \in 1..(MaxTasks + 1) :
        /\ n >= raw.next /\ \A i \in Live(raw) : i < n
        /\ n = raw.next \/ n - 1 \in Live(raw)

\* restore.
Restore(raw) ==
    LET parents == Uncycled([i \in Ids |-> IF raw.task[i].parent \in Known(raw, Ids, i)
                                           THEN raw.task[i].parent ELSE 0])
        Restored(i) == [status |-> raw.task[i].status,
                        active |-> i \in FocusOf(raw) /\ \A j \in FocusOf(raw) : i <= j,
                        parent |-> parents[i],
                        deps   |-> Known(raw, raw.task[i].deps, i)]
    IN  [next |-> NextId(raw),
         task |-> [i \in Ids |-> IF i \in Live(raw) THEN Restored(i) ELSE NoTask],
         keys |-> [k \in Keys |-> IF raw.keys[k] \in Live(raw) THEN raw.keys[k] ELSE 0]]

Empty == [next |-> 1, task |-> [i \in Ids |-> NoTask], keys |-> [k \in Keys |-> 0]]

NoBatch == [mode |-> "none", before |-> Empty]

\* A journal of an earlier version, edited or damaged, with a task or two.
OldTasks ==
    [status : Statuses, active : BOOLEAN, parent : 0..MaxTasks, deps : {{}, {1}, {2}, {MaxTasks}}]

Init ==
    /\ \E t \in OldTasks, u \in OldTasks \cup {NoTask}, named \in {0, 1} :
          journal = Restore([Empty EXCEPT
              !.task = [i \in Ids |-> IF i = 1 THEN t ELSE IF i = 2 THEN u ELSE NoTask],
              !.keys = [k \in Keys |-> named]])
    /\ mem = journal /\ batch = NoBatch /\ done = 0

-----------------------------------------------------------------------------
\* A slip: every operation is journaled at once.
AlwaysCommits(st) == journal' = st

\* commit: at once, or in an atomic batch when all is done.
CommitsInOrder(st) == IF batch.mode = "atomic" THEN UNCHANGED journal ELSE journal' = st

\* An operation of the batch succeeds.
Succeeds(st) ==
    /\ done' = done + 1 /\ mem' = st /\ CommitsInOrder(st) /\ UNCHANGED batch

\* The focus is on id alone.
TakesFocus(st, id) == [i \in Ids |-> [st.task[i] EXCEPT !.active = i = id]]

\* Every task of these depends on id as well.
BlockedBy(task, blocks, id) ==
    [i \in Ids |-> IF i \in blocks THEN [task[i] EXCEPT !.deps = @ \cup {id}] ELSE task[i]]

\* References of an operation: to none or one task.
Some(st) == {{}} \cup {{i} : i \in Live(st)}

Ready(st, deps) == \A d \in deps : st.task[d].status = "completed"

\* A create.  One whose name was used before is answered with its task, or refused.
Create(k) ==
    LET id == mem.next
    IN  /\ mem.keys[k] = 0 /\ id \in Ids
        /\ \E status \in Started, parent \in Live(mem) \cup {0}, by, blocks \in Some(mem) :
             LET new == [status |-> status, active |-> status = "in_progress",
                         parent |-> parent, deps |-> by]
                 others == IF status = "in_progress" THEN TakesFocus(mem, id) ELSE mem.task
                 task == [others EXCEPT ![id] = new]
             IN  /\ status = "in_progress" => Ready(mem, by)
                 /\ \A b \in blocks : ~Reaches([i \in Ids |-> task[i].deps], id, b)
                 /\ Succeeds([next |-> id + 1, task |-> BlockedBy(task, blocks, id),
                              keys |-> [mem.keys EXCEPT ![k] = id]])

MayBeParent(id, p) == p # id /\ ~Reaches(Parents(mem), p, id)

\* A slip: the dependency is looked for the wrong way round.
WrongWay(id, by, blocks) ==
    /\ \A d \in by : d # id /\ ~Reaches(Deps(mem), id, d)
    /\ \A b \in blocks : b # id /\ ~Reaches(Deps(mem), b, id)

\* New dependencies, each looked at beside those there were before.
NoCycle(id, by, blocks) ==
    /\ \A d \in by : d # id /\ ~Reaches(Deps(mem), d, id)
    /\ \A b \in blocks : b # id /\ ~Reaches(Deps(mem), id, b)

\* An update, but a deletion.  What it does not name stays the same.
Update(k, id) ==
    \E status \in Statuses \cup {"same"}, active \in {"on", "off", "same"},
       parent \in Live(mem) \cup {0}, by, blocks \in Some(mem) :
        LET old == mem.task[id]
            result == IF status = "same" THEN old.status ELSE status
            focus == IF status = "in_progress" THEN active # "off"
                     ELSE status = "same" /\ (active = "on" \/ (active = "same" /\ old.active))
            new == [status |-> result, active |-> focus, parent |-> parent,
                    deps |-> old.deps \cup by]
            others == IF status = "in_progress" \/ active = "on"
                      THEN TakesFocus(mem, id) ELSE mem.task
        IN  /\ active = "on" => result = "in_progress"
            /\ NoCycle(id, by, blocks)
            /\ result = "in_progress" => Ready(mem, new.deps)
            /\ parent \in {0, old.parent} \cup {p \in Live(mem) : MayBeParent(id, p)}
            /\ status = "completed" =>
                   \A i \in Live(mem) : mem.task[i].parent = id => mem.task[i].status = "completed"
            /\ Succeeds([next |-> mem.next, keys |-> [mem.keys EXCEPT ![k] = id],
                         task |-> BlockedBy([others EXCEPT ![id] = new], blocks, id)])

\* A slip: the tasks that wait for it are not looked at.
NoChildren(id) == \A i \in Live(mem) : mem.task[i].parent # id

MayGo(id) == NoChildren(id) /\ \A i \in Live(mem) \ {id} : id \notin mem.task[i].deps

KeysWithout(id) == [k \in Keys |-> IF mem.keys[k] = id THEN 0 ELSE mem.keys[k]]

\* An update with status "deleted".
Delete(id) ==
    /\ MayGo(id)
    /\ Succeeds([next |-> mem.next, task |-> [mem.task EXCEPT ![id] = NoTask],
                 keys |-> KeysWithout(id)])

\* execute.
Execute(mode) ==
    /\ batch.mode = "none" /\ batch' = [mode |-> mode,
                                        before |-> IF mode = "atomic" THEN mem ELSE Empty]
    /\ UNCHANGED <<mem, journal, done>>

\* An operation is refused or cancelled: what it did is taken back, or all of an
\* atomic batch, and the rest is skipped.
Refused ==
    /\ batch.mode # "none" /\ batch' = NoBatch
    /\ mem' = Restore(IF batch.mode = "atomic" THEN batch.before ELSE mem)
    /\ UNCHANGED <<journal, done>>

\* All operations of the batch are done.
Finish ==
    /\ batch.mode # "none" /\ batch' = NoBatch
    /\ journal' = mem /\ UNCHANGED <<mem, done>>

\* The process ends, in a batch or out of one, and the session is opened again.
Restart ==
    /\ mem' = Restore(journal) /\ batch' = NoBatch /\ UNCHANGED <<journal, done>>

Operation ==
    /\ batch.mode # "none" /\ done < MaxOps
    /\ \/ \E k \in Keys : Create(k) \/ \E id \in Live(mem) : Update(k, id)
       \/ \E id \in Live(mem) : Delete(id)

Next ==
    \/ Operation
    \/ (\E mode \in {"sequential", "atomic"} : Execute(mode))
    \/ Refused \/ Finish \/ Restart

Spec == Init /\ [][Next]_vars

-----------------------------------------------------------------------------
TypeOK ==
    /\ mem \in State /\ journal \in State /\ done \in 0..MaxOps
    /\ batch \in [mode : {"none", "sequential", "atomic"}, before : State]

\* One task at most is worked on, and it is in progress.
OneFocus ==
    \A i, j \in Ids : mem.task[i].active =>
        mem.task[i].status = "in_progress" /\ (mem.task[j].active => i = j)

\* What a task waits for, belongs to or is called by is there.
NoDangling ==
    /\ \A i \in Live(mem) :
          /\ mem.task[i].deps \subseteq Live(mem)
          /\ mem.task[i].parent \in Live(mem) \cup {0}
    /\ \A k \in Keys : mem.keys[k] \in Live(mem) \cup {0}

\* No task is part of itself, whatever the journal said.
ParentsEnd == \A i \in Ids : ~Reaches(Parents(mem), i, i)

\* Tasks are a whole: one is worked on at most, whatever they refer to is there,
\* and none is part of itself.
TasksAreWhole == OneFocus /\ NoDangling /\ ParentsEnd

\* Neither a rollback nor a restart changes what it restores.
RestoresExactly == Restore(mem) = mem /\ Restore(journal) = journal

\* What was answered is what a restart finds, and nothing of an atomic batch
\* that is not over.
JournalAgrees == journal = IF batch.mode = "atomic" THEN batch.before ELSE mem

\* Tasks come to wait for each other only if one operation says that a task waits
\* for one and is waited for by another.
CycleTakesTwoEnds ==
    [][\A i \in Ids :
          Reaches(Deps(mem'), i, i) /\ ~Reaches(Deps(mem), i, i) =>
              \E t \in Ids : /\ mem'.task[t].deps # mem.task[t].deps
                             /\ \E u \in Ids \ {t} : t \in mem'.task[u].deps \ mem.task[u].deps]_vars

\* The number a task was journaled under is no other task's, after deletions,
\* rollbacks and restarts: what is new has a number the journal never gave, and
\* takes none of them back.
IdsAreFresh ==
    [][/\ journal'.next >= journal.next
       /\ \A i \in Live(journal') \ Live(journal) : i >= journal.next]_vars

\* No operation makes tasks wait for each other.
CyclesAreRefused ==
    [][(\A i \in Ids : ~Reaches(Deps(mem), i, i))
          => \A i \in Ids : ~Reaches(Deps(mem'), i, i)]_vars
=============================================================================
