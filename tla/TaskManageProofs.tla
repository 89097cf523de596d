--------------------------- MODULE TaskManageProofs ---------------------------
(***************************************************************************)
(* Proofs about TaskManage, for any number of tasks, names and operations: *)
(* the tasks stay a whole, the journal holds what was answered, numbers    *)
(* are not used again, and no single dependency closes a circle.           *)
(***************************************************************************)
EXTENDS TaskManage, TLAPS, WellFoundedInduction

(* A set of numbers has a least one.                                       *)
LEMMA LeastOf ==
    ASSUME NEW S \in SUBSET Nat, S # {}
    PROVE  \E n \in S : \A m \in S : n <= m
  <1>1. IsWellFoundedOn(OpToRel(<, Nat), Nat)
    BY NatLessThanWellFounded
  <1>2. PICK n \in S : \A m \in S : ~ (<<m, n>> \in OpToRel(<, Nat))
    BY <1>1, WFMin, Zenon
  <1>3. \A m \in S : ~ (m < n)
    BY <1>2 DEF OpToRel
  <1> QED
    BY <1>3

-----------------------------------------------------------------------------
(* What reaches what.                                                      *)

Closed(G, S) == \A c \in S : G[c] \subseteq S

(* What a reaches is closed and holds what follows a.                      *)
LEMMA ReachedIsClosed ==
    ASSUME NEW G \in [Ids -> SUBSET Ids], NEW a \in Ids
    PROVE  LET R == {b \in Ids : Reaches(G, a, b)}
           IN  G[a] \subseteq R /\ Closed(G, R)
  BY DEF Reaches, Closed

LEMMA ReachesOn ==
    ASSUME NEW G \in [Ids -> SUBSET Ids], NEW a \in Ids, NEW b \in Ids, NEW c \in Ids,
           Reaches(G, a, b), Reaches(G, b, c)
    PROVE  Reaches(G, a, c)
  BY DEF Reaches

(* More edges reach more.                                                  *)
LEMMA ReachesMore ==
    ASSUME NEW G \in [Ids -> SUBSET Ids], NEW H \in [Ids -> SUBSET Ids],
           \A i \in Ids : G[i] \subseteq H[i], NEW a \in Ids, NEW b \in Ids, Reaches(G, a, b)
    PROVE  Reaches(H, a, b)
  <1> SUFFICES ASSUME NEW S \in SUBSET Ids, H[a] \subseteq S, \A c \in S : H[c] \subseteq S
               PROVE  b \in S
    BY DEF Reaches
  <1>1. G[a] \subseteq S /\ \A c \in S : G[c] \subseteq S
    OBVIOUS
  <1> QED
    BY <1>1 DEF Reaches

(* New edges from one node, to nodes that do not reach it, close no        *)
(* circle.                                                                 *)
LEMMA NoNewCircle ==
    ASSUME NEW G \in [Ids -> SUBSET Ids], NEW s \in Ids, NEW T \in SUBSET Ids,
           \A t \in T : t # s /\ ~Reaches(G, t, s),
           NEW i \in Ids, Reaches([G EXCEPT ![s] = @ \cup T], i, i)
    PROVE  Reaches(G, i, i)
  <1> DEFINE H == [G EXCEPT ![s] = @ \cup T]
  <1>1. /\ H \in [Ids -> SUBSET Ids] /\ H[s] = G[s] \cup T
        /\ \A c \in Ids : c # s => H[c] = G[c]
    OBVIOUS
  <1>h. Reaches(H, i, i)
    OBVIOUS
  <1> HIDE DEF H
  <1> SUFFICES ASSUME ~Reaches(G, i, i) PROVE FALSE
    OBVIOUS
  <1>2. PICK S \in SUBSET Ids : G[i] \subseteq S /\ Closed(G, S) /\ i \notin S
    BY DEF Reaches, Closed
  <1>3. CASE i # s /\ ~Reaches(G, i, s)
    <2>1. PICK Q \in SUBSET Ids : G[i] \subseteq Q /\ Closed(G, Q) /\ s \notin Q
      BY <1>3 DEF Reaches, Closed
    <2> DEFINE W == S \cap Q
    <2>2. H[i] \subseteq W /\ \A c \in W : H[c] \subseteq W
      BY <1>1, <1>2, <1>3, <2>1 DEF Closed
    <2> QED
      BY <1>h, <1>2, <2>2 DEF Reaches
  <1>4. CASE i = s \/ Reaches(G, i, s)
    <2> DEFINE U == {u \in Ids : u \in T \/ \E t \in T : Reaches(G, t, u)}
               W == S \cup U
    <2>1. \A u \in U : G[u] \subseteq U
      <3> SUFFICES ASSUME NEW u \in U, NEW e \in G[u] PROVE e \in U
        OBVIOUS
      <3>1. CASE u \in T
        BY <3>1, ReachedIsClosed
      <3>2. CASE \E t \in T : Reaches(G, t, u)
        BY <3>2, ReachedIsClosed DEF Closed
      <3> QED
        BY <3>1, <3>2
    <2>2. s \notin U
      OBVIOUS
    <2>3. i \notin U
      <3>1. CASE i = s
        BY <3>1, <2>2
      <3>2. CASE Reaches(G, i, s)
        BY <3>2, ReachesOn
      <3> QED
        BY <1>4, <3>1, <3>2
    <2>4. T \subseteq U
      OBVIOUS
    <2> HIDE DEF U
    <2>5. U \subseteq Ids
      BY DEF U
    <2>6. H[i] \subseteq W /\ \A c \in W : H[c] \subseteq W
      BY <1>1, <1>2, <2>1, <2>2, <2>4, <2>5 DEF Closed
    <2> QED
      BY <1>h, <1>2, <2>3, <2>5, <2>6 DEF Reaches
  <1> QED
    BY <1>3, <1>4

-----------------------------------------------------------------------------
(* Parents.                                                                *)

Above == [Ids -> Ids \cup {0}]

\* No walk up goes on for ever.
NoLoop(p) == \A S \in SUBSET Ids : (\A c \in S : p[c] \in S) => S = {}

LEMMA IdsAreNat == Ids \subseteq Nat /\ 0 \notin Ids /\ MaxTasks \in Nat
  BY TaskManageAssumption DEF Ids

(* What a restart makes of parents has no loop, and parents without one    *)
(* stay as they are.                                                       *)
LEMMA UncycledEnds ==
    ASSUME NEW p \in Above
    PROVE  /\ Uncycled(p) \in Above
           /\ \A n \in Ids : Uncycled(p)[n] \in {0, p[n]}
           /\ NoLoop(Uncycled(p))
           /\ NoLoop(p) => Uncycled(p) = p
  <1> DEFINE q == Uncycled(p)
  <1>1. \A n \in Ids : q[n] = IF \E S \in SUBSET (n..MaxTasks) : n \in S /\ \A c \in S : p[c] \in S
                              THEN 0 ELSE p[n]
    BY DEF Uncycled
  <1>2. q \in Above /\ \A n \in Ids : q[n] \in {0, p[n]}
    BY <1>1 DEF Uncycled, Above
  <1>d. q = [n \in Ids |-> q[n]]
    BY DEF Uncycled
  <1> HIDE DEF q
  <1>3. NoLoop(q)
    <2> SUFFICES ASSUME NEW S \in SUBSET Ids, \A c \in S : q[c] \in S, S # {} PROVE FALSE
      BY DEF NoLoop
    <2>1. \A c \in S : p[c] \in S
      BY <1>2, IdsAreNat
    <2>2. PICK n \in S : \A m \in S : n <= m
      BY LeastOf, IdsAreNat
    <2>3. S \in SUBSET (n..MaxTasks)
      BY <2>2, IdsAreNat DEF Ids
    <2>4. q[n] = 0
      BY <1>1, <2>1, <2>3
    <2> QED
      BY <2>4, IdsAreNat
  <1>4. ASSUME NoLoop(p) PROVE q = p
    <2>1. \A n \in Ids : q[n] = p[n]
      <3> SUFFICES ASSUME NEW n \in Ids, q[n] # p[n] PROVE FALSE
        OBVIOUS
      <3>1. PICK S \in SUBSET (n..MaxTasks) : n \in S /\ \A c \in S : p[c] \in S
        BY <1>1
      <3>2. S \in SUBSET Ids
        BY <3>1, IdsAreNat DEF Ids
      <3> QED
        BY <1>4, <3>1, <3>2 DEF NoLoop
    <2> QED
      BY <1>d, <2>1 DEF Above
  <1> QED
    BY <1>2, <1>3, <1>4 DEF q

(* Where no walk goes on for ever, nothing comes back to itself.           *)
LEMMA NoLoopNoReturn ==
    ASSUME NEW p \in Above, NoLoop(p), NEW i \in Ids
    PROVE  ~Reaches(ParentOf(p), i, i)
  <1> SUFFICES ASSUME Reaches(ParentOf(p), i, i) PROVE FALSE
    OBVIOUS
  <1> DEFINE G == ParentOf(p)
             D == {d \in Ids : Reaches(G, d, i)}
  <1>1. /\ G \in [Ids -> SUBSET Ids]
        /\ \A d \in Ids : G[d] = IF p[d] = 0 THEN {} ELSE {p[d]}
    BY IdsAreNat DEF ParentOf, Above
  <1> HIDE DEF G
  <1>i. Reaches(G, i, i)
    BY DEF G
  <1>2. \A d \in D : p[d] \in D
    <2> SUFFICES ASSUME NEW d \in D PROVE p[d] \in D
      OBVIOUS
    <2>1. Reaches(G, d, i) /\ d \in Ids
      OBVIOUS
    <2>2. p[d] # 0
      <3> SUFFICES ASSUME p[d] = 0 PROVE FALSE
        OBVIOUS
      <3>1. G[d] = {}
        BY <1>1, <2>1
      <3> QED
        BY <2>1, <3>1 DEF Reaches
    <2>3. p[d] \in Ids /\ G[d] = {p[d]}
      BY <1>1, <2>1, <2>2 DEF Above
    <2>4. CASE p[d] = i
      BY <1>i, <2>4
    <2>5. CASE p[d] # i
      <3> SUFFICES ASSUME NEW S \in SUBSET Ids, G[p[d]] \subseteq S, \A c \in S : G[c] \subseteq S
                   PROVE  i \in S
        BY <2>3 DEF Reaches
      <3>1. /\ G[d] \subseteq S \cup {p[d]} /\ S \cup {p[d]} \in SUBSET Ids
            /\ \A c \in S \cup {p[d]} : G[c] \subseteq S \cup {p[d]}
        BY <2>3
      <3>2. i \in S \cup {p[d]}
        BY <2>1, <3>1 DEF Reaches
      <3> QED
        BY <2>5, <3>2
    <2> QED
      BY <2>4, <2>5
  <1>3. D = {}
    BY <1>2 DEF NoLoop
  <1> QED
    BY <1>i, <1>3

(* A parent that is not below its child makes no loop.                     *)
LEMMA NewParentNoLoop ==
    ASSUME NEW p \in Above, NoLoop(p), NEW id \in Ids, NEW np \in Ids \cup {0},
           np \in Ids => np # id /\ ~Reaches(ParentOf(p), np, id)
    PROVE  NoLoop([p EXCEPT ![id] = np])
  <1> DEFINE q == [p EXCEPT ![id] = np]
             G == ParentOf(p)
  <1>1. q[id] = np /\ \A c \in Ids : c # id => q[c] = p[c]
    BY DEF Above
  <1>2. \A d \in Ids : G[d] = IF p[d] = 0 THEN {} ELSE {p[d]}
    BY DEF ParentOf
  <1> SUFFICES ASSUME NEW S \in SUBSET Ids, \A c \in S : q[c] \in S, S # {} PROVE FALSE
    BY DEF NoLoop
  <1>r. np \in Ids => np # id /\ ~Reaches(G, np, id)
    OBVIOUS
  <1> HIDE DEF q, G
  <1>3. CASE id \notin S
    BY <1>1, <1>3 DEF NoLoop
  <1>4. CASE id \in S
    <2>1. np \in S /\ np \in Ids
      BY <1>1, <1>4
    <2>2. PICK T \in SUBSET Ids : G[np] \subseteq T /\ (\A c \in T : G[c] \subseteq T) /\ id \notin T
      BY <1>r, <2>1 DEF Reaches
    <2> DEFINE W == S \cap (T \cup {np})
    <2>3. \A c \in W : p[c] \in W
      <3> SUFFICES ASSUME NEW c \in W PROVE p[c] \in W
        OBVIOUS
      <3>1. c \in Ids /\ c # id /\ c \in S
        BY <1>r, <2>1, <2>2
      <3>2. p[c] \in S /\ p[c] # 0
        BY <1>1, <3>1, IdsAreNat
      <3>3. p[c] \in G[c]
        BY <1>2, <3>1, <3>2
      <3> QED
        BY <2>2, <3>2, <3>3
    <2> QED
      BY <2>1, <2>3 DEF NoLoop
  <1> QED
    BY <1>3, <1>4
-----------------------------------------------------------------------------
(* A whole state.                                                          *)

Fine(x) == x.status \in Statuses \cup {"none"} /\ x.active \in BOOLEAN

ParentsOf(st) == [i \in Ids |-> st.task[i].parent]

OneFocusIn(st) ==
    \A i, j \in Ids : st.task[i].active =>
        st.task[i].status = "in_progress" /\ (st.task[j].active => i = j)

TasksIn(st) ==
    \A i \in Ids : IF i \in Live(st)
                   THEN /\ i < st.next
                        /\ st.task[i].deps \subseteq Live(st) \ {i}
                        /\ st.task[i].parent \in Live(st) \cup {0}
                   ELSE st.task[i] = NoTask

Whole(st) ==
    /\ st \in State
    /\ OneFocusIn(st)
    /\ TasksIn(st)
    /\ \A k \in Keys : st.keys[k] \in Live(st) \cup {0}
    /\ NoLoop(ParentsOf(st))

Kept == [status : Statuses \cup {"none"}, active : BOOLEAN, parent : Ids \cup {0},
         deps : SUBSET Ids]

LEMMA NoTaskIs ==
    /\ NoTask \in Kept /\ NoTask.status = "none" /\ NoTask.active = FALSE
    /\ NoTask.parent = 0 /\ NoTask.deps = {}
  BY DEF NoTask, Kept

LEMMA LiveIds == \A st : Live(st) \subseteq Ids
  BY DEF Live

(* The next number is after those of the tasks there are, and not lower    *)
(* than it was.                                                            *)
LEMMA NextIdIs ==
    ASSUME NEW raw, raw.next \in 1..(MaxTasks + 1)
    PROVE  /\ NextId(raw) \in 1..(MaxTasks + 1) /\ NextId(raw) >= raw.next
           /\ \A i \in Live(raw) : i < NextId(raw)
           /\ NextId(raw) = raw.next \/ NextId(raw) - 1 \in Live(raw)
  <1> DEFINE A == {n \in Nat : n >= raw.next /\ \A i \in Live(raw) : i < n}
  <1>1. MaxTasks + 1 \in A
    BY LiveIds, IdsAreNat DEF Ids
  <1>2. PICK n \in A : \A k \in A : n <= k
    BY <1>1, LeastOf
  <1>3. n \in 1..(MaxTasks + 1)
    BY <1>1, <1>2, IdsAreNat
  <1>4. n = raw.next \/ n - 1 \in Live(raw)
    <2> SUFFICES ASSUME n # raw.next PROVE n - 1 \in Live(raw)
      OBVIOUS
    <2>1. n - 1 \in Nat /\ n - 1 >= raw.next /\ n - 1 \notin A
      BY <1>2, <1>3, IdsAreNat
    <2>2. PICK i \in Live(raw) : ~ (i < n - 1)
      BY <2>1
    <2>3. i \in Nat /\ i < n
      BY <1>2, LiveIds, IdsAreNat
    <2> QED
      BY <1>3, <2>2, <2>3, IdsAreNat
  <1>5. n >= raw.next /\ \A i \in Live(raw) : i < n
    OBVIOUS
  <1> QED
    BY <1>3, <1>4, <1>5 DEF NextId

(* Whatever is restored, the tasks are a whole.                            *)
LEMMA RestoreIsWhole ==
    ASSUME NEW raw, raw.next \in 1..(MaxTasks + 1), \A i \in Ids : Fine(raw.task[i])
    PROVE  Whole(Restore(raw))
  <1> DEFINE p == [i \in Ids |-> IF raw.task[i].parent \in Known(raw, Ids, i)
                                THEN raw.task[i].parent ELSE 0]
             only == [i \in Ids |-> i \in FocusOf(raw) /\ \A j \in FocusOf(raw) : i <= j]
             st == Restore(raw)
             L == Live(raw)
  <1>1. /\ L \subseteq Ids /\ \A i \in Ids : i \in L <=> raw.task[i].status # "none"
        /\ \A i \in Ids : Known(raw, Ids, i) = L \ {i}
        /\ \A i \in Ids : Known(raw, raw.task[i].deps, i) = (raw.task[i].deps \cap L) \ {i}
    BY DEF Live, Known
  <1>2. p \in Above /\ \A i \in Ids : p[i] \in L \cup {0}
    BY <1>1 DEF Above
  <1> DEFINE q == Uncycled(p)
  <1>3. q \in Above /\ (\A i \in Ids : q[i] \in L \cup {0}) /\ NoLoop(q)
    BY <1>2, UncycledEnds
  <1>4. /\ st = [next |-> NextId(raw),
                 task |-> [i \in Ids |-> IF i \in L
                             THEN [status |-> raw.task[i].status, active |-> only[i],
                                   parent |-> q[i], deps |-> Known(raw, raw.task[i].deps, i)]
                             ELSE NoTask],
                 keys |-> [k \in Keys |-> IF raw.keys[k] \in L THEN raw.keys[k] ELSE 0]]
    BY DEF Restore
  <1>o. /\ only \in [Ids -> BOOLEAN]
        /\ \A i \in Ids : only[i] => i \in FocusOf(raw) /\ \A j \in FocusOf(raw) : i <= j
    OBVIOUS
  <1> HIDE DEF p, q, st, L, only
  <1>5. \A i \in L : st.task[i] = [status |-> raw.task[i].status, active |-> only[i],
                                   parent |-> q[i], deps |-> (raw.task[i].deps \cap L) \ {i}]
    BY <1>1, <1>4
  <1>f. \A i \in L : /\ st.task[i].status = raw.task[i].status /\ st.task[i].active = only[i]
                     /\ st.task[i].parent = q[i]
                     /\ st.task[i].deps = (raw.task[i].deps \cap L) \ {i}
    <2> SUFFICES ASSUME NEW i \in L
                 PROVE  /\ st.task[i].status = raw.task[i].status /\ st.task[i].active = only[i]
                        /\ st.task[i].parent = q[i]
                        /\ st.task[i].deps = (raw.task[i].deps \cap L) \ {i}
      OBVIOUS
    <2> DEFINE deps == (raw.task[i].deps \cap L) \ {i}
    <2>1. st.task[i] = [status |-> raw.task[i].status, active |-> only[i],
                        parent |-> q[i], deps |-> deps]
      BY <1>5
    <2> HIDE DEF deps
    <2>2. /\ st.task[i].status = raw.task[i].status /\ st.task[i].active = only[i]
          /\ st.task[i].parent = q[i] /\ st.task[i].deps = deps
      BY <2>1
    <2> QED
      BY <2>2 DEF deps
  <1>6. \A i \in Ids \ L : st.task[i] = NoTask
    BY <1>4
  <1>7. Live(st) = L
    <2>1. \A i \in Ids : st.task[i].status # "none" <=> i \in L
      BY <1>1, <1>f, <1>6, NoTaskIs
    <2> QED
      BY <1>1, <2>1 DEF Live
  <1>8. \A k \in Keys : st.keys[k] \in L \cup {0}
    BY <1>4
  <1>9. st \in State
    <2>1. \A i \in Ids : st.task[i] \in Kept
      <3> SUFFICES ASSUME NEW i \in Ids PROVE st.task[i] \in Kept
        OBVIOUS
      <3>1. CASE i \in L
        <4>1. only[i] \in BOOLEAN
          BY <1>o
        <4>2. raw.task[i].status \in Statuses \cup {"none"}
          BY DEF Fine
        <4>3. q[i] \in Ids \cup {0} /\ (raw.task[i].deps \cap L) \ {i} \in SUBSET Ids
          BY <1>1, <1>3
        <4> DEFINE deps == (raw.task[i].deps \cap L) \ {i}
        <4>4. st.task[i] = [status |-> raw.task[i].status, active |-> only[i],
                            parent |-> q[i], deps |-> deps]
          BY <1>5, <3>1
        <4> HIDE DEF deps
        <4>5. deps \in SUBSET Ids
          BY <4>3 DEF deps
        <4> QED
          BY <4>1, <4>2, <4>3, <4>4, <4>5 DEF Kept
      <3>2. CASE i \notin L
        BY <1>6, <3>2, NoTaskIs
      <3> QED
        BY <3>1, <3>2
    <2>2. /\ st.task \in [Ids -> Kept]
          /\ st.keys \in [Keys -> Ids \cup {0}] /\ st.next \in 1..(MaxTasks + 1)
      BY <1>1, <1>4, <2>1, NextIdIs
    <2>3. st = [next |-> st.next, task |-> st.task, keys |-> st.keys]
      BY <1>4
    <2> QED
      BY <2>2, <2>3 DEF State, Kept
  <1>10. OneFocusIn(st)
    <2> SUFFICES ASSUME NEW i \in Ids, NEW j \in Ids, st.task[i].active
                 PROVE  st.task[i].status = "in_progress" /\ (st.task[j].active => i = j)
      BY DEF OneFocusIn
    <2>1. \A c \in Ids : st.task[c].active => c \in L /\ only[c]
      <3>1. \A c \in L : st.task[c].active = only[c]
        BY <1>f
      <3>2. \A c \in Ids \ L : st.task[c].active = FALSE
        BY <1>6, NoTaskIs
      <3> QED
        BY <3>1, <3>2, Zenon
    <2>2. st.task[i].status = "in_progress"
      BY <1>1, <1>f, <1>o, <2>1 DEF FocusOf
    <2>3. st.task[j].active => i <= j /\ j <= i
      <3>1. \A c \in Ids : st.task[c].active => c \in FocusOf(raw) /\ \A d \in FocusOf(raw) : c <= d
        BY <1>o, <2>1
      <3> QED
        BY <3>1
    <2> QED
      BY <2>2, <2>3, IdsAreNat
  <1>11. TasksIn(st)
    <2>1. \A i \in L : i < st.next
      BY <1>4, NextIdIs DEF L
    <2> QED
      BY <1>1, <1>3, <1>6, <1>7, <1>f, <2>1 DEF TasksIn
  <1>12. NoLoop(ParentsOf(st))
    <2>1. \A i \in Ids : ParentsOf(st)[i] = IF i \in L THEN q[i] ELSE 0
      <3>1. \A i \in L : st.task[i].parent = q[i]
        BY <1>f
      <3>2. \A i \in Ids \ L : st.task[i].parent = 0
        BY <1>6, NoTaskIs
      <3> QED
        BY <3>1, <3>2 DEF ParentsOf
    <2> SUFFICES ASSUME NEW S \in SUBSET Ids, \A c \in S : ParentsOf(st)[c] \in S
                 PROVE  S = {}
      BY DEF NoLoop
    <2>2. \A c \in S : q[c] \in S
      BY <2>1, IdsAreNat
    <2> QED
      BY <1>3, <2>2 DEF NoLoop
  <1> QED
    BY <1>7, <1>8, <1>9, <1>10, <1>11, <1>12 DEF Whole, st

(* What is a whole is restored as it is.                                   *)
LEMMA RestoreIsExact ==
    ASSUME NEW st, Whole(st)
    PROVE  Restore(st) = st
  <1> DEFINE p == [i \in Ids |-> IF st.task[i].parent \in Known(st, Ids, i)
                                THEN st.task[i].parent ELSE 0]
             Only(i) == i \in FocusOf(st) /\ \A j \in FocusOf(st) : i <= j
             L == Live(st)
             New(i) == [status |-> st.task[i].status, active |-> Only(i),
                        parent |-> Uncycled(p)[i], deps |-> Known(st, st.task[i].deps, i)]
  <1>t. /\ st.next \in 1..(MaxTasks + 1) /\ st.keys \in [Keys -> Ids \cup {0}]
        /\ st.task \in [Ids -> [status : Statuses \cup {"none"}, active : BOOLEAN,
                                parent : Ids \cup {0}, deps : SUBSET Ids]]
        /\ st = [next |-> st.next, task |-> st.task, keys |-> st.keys]
    BY DEF Whole, State
  <1>1. NextId(st) = st.next
    <2>1. /\ NextId(st) \in 1..(MaxTasks + 1) /\ NextId(st) >= st.next
          /\ NextId(st) = st.next \/ NextId(st) - 1 \in Live(st)
      BY <1>t, NextIdIs
    <2>2. \A i \in Live(st) : i \in Nat /\ i < st.next
      BY LiveIds, IdsAreNat DEF Whole, TasksIn
    <2> QED
      BY <1>t, <2>1, <2>2, IdsAreNat
  <1>2. \A i \in Ids : st.task[i].parent # i
    <2> SUFFICES ASSUME NEW i \in Ids, st.task[i].parent = i PROVE FALSE
      OBVIOUS
    <2>1. \A c \in {i} : ParentsOf(st)[c] \in {i}
      BY DEF ParentsOf
    <2> QED
      BY <2>1 DEF Whole, NoLoop
  <1>3. p = ParentsOf(st)
    <2>1. \A i \in Ids : p[i] = st.task[i].parent
      BY <1>2, LiveIds DEF Whole, TasksIn, Known, NoTask
    <2> QED
      BY <2>1 DEF ParentsOf
  <1>4. ParentsOf(st) \in Above /\ NoLoop(ParentsOf(st))
    BY <1>t DEF ParentsOf, Above, Whole
  <1>5. Uncycled(p) = ParentsOf(st)
    BY <1>3, <1>4, UncycledEnds
  <1>6. \A i \in L : Known(st, st.task[i].deps, i) = st.task[i].deps
    BY LiveIds DEF Known, Whole, TasksIn
  <1>7. \A i \in Ids : Only(i) = st.task[i].active
    <2>1. FocusOf(st) = {i \in Ids : st.task[i].active}
      BY DEF FocusOf, Whole, OneFocusIn
    <2>2. \A i \in Ids : st.task[i].active \in BOOLEAN
      BY <1>t
    <2>3. \A i, j \in Ids : st.task[i].active /\ st.task[j].active => i = j
      BY DEF Whole, OneFocusIn
    <2>4. \A i \in Ids : Only(i) <=> st.task[i].active
      <3> SUFFICES ASSUME NEW i \in Ids PROVE Only(i) <=> st.task[i].active
        OBVIOUS
      <3>1. st.task[i].active => \A j \in FocusOf(st) : i <= j
        <4> SUFFICES ASSUME st.task[i].active, NEW j \in FocusOf(st) PROVE i <= j
          OBVIOUS
        <4>1. i = j
          BY <2>1, <2>3
        <4> QED
          BY <4>1, IdsAreNat
      <3>2. i \in FocusOf(st) <=> st.task[i].active
        BY <2>1
      <3> QED
        BY <3>1, <3>2
    <2> QED
      BY <2>2, <2>4
  <1>8. \A i \in L : New(i) = st.task[i]
    <2> SUFFICES ASSUME NEW i \in L PROVE New(i) = st.task[i]
      OBVIOUS
    <2>1. i \in Ids
      BY LiveIds
    <2>2. st.task[i] = [status |-> st.task[i].status, active |-> st.task[i].active,
                        parent |-> st.task[i].parent, deps |-> st.task[i].deps]
      BY <1>t, <2>1
    <2>3. Uncycled(p)[i] = st.task[i].parent
      BY <1>5, <2>1 DEF ParentsOf
    <2>4. Only(i) = st.task[i].active
      BY <1>7, <2>1
    <2> HIDE DEF Only, p
    <2> QED
      BY <1>6, <2>2, <2>3, <2>4
  <1>9. Restore(st) = [next |-> NextId(st), task |-> [i \in Ids |-> IF i \in L THEN New(i) ELSE NoTask],
                       keys |-> [k \in Keys |-> IF st.keys[k] \in L THEN st.keys[k] ELSE 0]]
    BY DEF Restore
  <1> HIDE DEF New
  <1>10. [i \in Ids |-> IF i \in L THEN New(i) ELSE NoTask] = st.task
    <2>1. \A i \in Ids : (IF i \in L THEN New(i) ELSE NoTask) = st.task[i]
      BY <1>8 DEF Whole, TasksIn
    <2> QED
      BY <1>t, <2>1
  <1>11. [k \in Keys |-> IF st.keys[k] \in L THEN st.keys[k] ELSE 0] = st.keys
    BY <1>t DEF Whole
  <1> QED
    BY <1>t, <1>1, <1>9, <1>10, <1>11
-----------------------------------------------------------------------------
(* The operations.                                                         *)

Graph == [Ids -> SUBSET Ids]

LEMMA KeptFields ==
    ASSUME NEW x \in Kept
    PROVE  /\ x.status \in Statuses \cup {"none"} /\ x.active \in BOOLEAN
           /\ x.parent \in Ids \cup {0} /\ x.deps \in SUBSET Ids
           /\ x = [status |-> x.status, active |-> x.active, parent |-> x.parent, deps |-> x.deps]
  BY DEF Kept

LEMMA SameFields ==
    ASSUME NEW x \in Kept, NEW y \in Kept, x.status = y.status, x.active = y.active,
           x.parent = y.parent, x.deps = y.deps
    PROVE  x = y
  BY DEF Kept

LEMMA StateIs ==
    ASSUME NEW st \in State
    PROVE  /\ st.next \in 1..(MaxTasks + 1) /\ st.keys \in [Keys -> Ids \cup {0}]
           /\ st.task \in [Ids -> Kept]
           /\ Deps(st) \in Graph /\ ParentsOf(st) \in Above
           /\ \A i \in Ids : Deps(st)[i] = st.task[i].deps /\ ParentsOf(st)[i] = st.task[i].parent
  <1>1. /\ st.next \in 1..(MaxTasks + 1) /\ st.keys \in [Keys -> Ids \cup {0}]
        /\ st.task \in [Ids -> Kept]
    BY DEF State, Kept
  <1>2. \A i \in Ids : st.task[i].parent \in Ids \cup {0} /\ st.task[i].deps \in SUBSET Ids
    BY <1>1, KeptFields
  <1> QED
    BY <1>1, <1>2 DEF Deps, ParentsOf, Graph, Above

LEMMA TakesFocusIs ==
    ASSUME NEW st, st.task \in [Ids -> Kept], NEW id \in Ids
    PROVE  LET F == TakesFocus(st, id)
           IN  /\ F \in [Ids -> Kept]
               /\ \A i \in Ids : /\ F[i].status = st.task[i].status /\ (i # id => ~F[i].active)
                                 /\ F[i].parent = st.task[i].parent /\ F[i].deps = st.task[i].deps
  <1> DEFINE F == TakesFocus(st, id)
  <1>1. F = [i \in Ids |-> F[i]]
    BY DEF TakesFocus
  <1>2. \A i \in Ids : /\ F[i].status = st.task[i].status /\ (i # id => ~F[i].active)
                       /\ F[i].parent = st.task[i].parent /\ F[i].deps = st.task[i].deps
                       /\ F[i] \in Kept
    <2> SUFFICES ASSUME NEW i \in Ids
                 PROVE  /\ F[i].status = st.task[i].status /\ (i # id => ~F[i].active)
                        /\ F[i].parent = st.task[i].parent /\ F[i].deps = st.task[i].deps
                        /\ F[i] \in Kept
      OBVIOUS
    <2>1. F[i] = [st.task[i] EXCEPT !.active = i = id]
      BY DEF TakesFocus
    <2>2. st.task[i] \in Kept
      OBVIOUS
    <2> QED
      BY <2>1, <2>2 DEF Kept
  <1> QED
    BY <1>1, <1>2

\* B is the tasks with id made a dependency of each one that it blocks.
BlockedIn(B, task, blocks, id) ==
    /\ B \in [Ids -> Kept]
    /\ \A i \in Ids :
          /\ B[i].status = task[i].status /\ B[i].active = task[i].active
          /\ B[i].parent = task[i].parent
          /\ i \in blocks => B[i].deps = task[i].deps \cup {id}
          /\ i \notin blocks => B[i] = task[i]

LEMMA BlockedByIs ==
    ASSUME NEW task \in [Ids -> Kept], NEW blocks \in SUBSET Ids, NEW id \in Ids
    PROVE  BlockedIn(BlockedBy(task, blocks, id), task, blocks, id)
  <1> DEFINE B == BlockedBy(task, blocks, id)
  <1>1. B = [i \in Ids |-> B[i]]
    BY DEF BlockedBy
  <1>2. \A i \in Ids : /\ B[i].status = task[i].status /\ B[i].active = task[i].active
                       /\ B[i].parent = task[i].parent /\ B[i] \in Kept
                       /\ i \in blocks => B[i].deps = task[i].deps \cup {id}
                       /\ i \notin blocks => B[i] = task[i]
    <2> SUFFICES ASSUME NEW i \in Ids
                 PROVE  /\ B[i].status = task[i].status /\ B[i].active = task[i].active
                        /\ B[i].parent = task[i].parent /\ B[i] \in Kept
                        /\ i \in blocks => B[i].deps = task[i].deps \cup {id}
                        /\ i \notin blocks => B[i] = task[i]
      OBVIOUS
    <2>1. B[i] = IF i \in blocks THEN [task[i] EXCEPT !.deps = @ \cup {id}] ELSE task[i]
      BY DEF BlockedBy
    <2>2. task[i] \in Kept
      OBVIOUS
    <2> QED
      BY <2>1, <2>2 DEF Kept
  <1> HIDE DEF B
  <1>3. BlockedIn(B, task, blocks, id)
    BY <1>1, <1>2 DEF BlockedIn
  <1> QED
    BY <1>3 DEF B

\* H is G with id after by, and blocks after id, none of them a circle in G.
Linked(G, H, id, by, blocks) ==
    /\ G \in Graph /\ H \in Graph /\ id \in Ids /\ by \in SUBSET Ids /\ blocks \in SUBSET Ids
    /\ \A d \in by : d # id /\ ~Reaches(G, d, id)
    /\ \A b \in blocks : b # id /\ ~Reaches(G, id, b)
    /\ \A b, c \in blocks : b = c
    /\ H[id] = G[id] \cup by /\ \A b \in blocks : H[b] = G[b] \cup {id}
    /\ \A c \in Ids : c # id /\ c \notin blocks => H[c] = G[c]

(* One new dependency each way: a circle takes both.                       *)
LEMMA TwoEnds ==
    ASSUME NEW G, NEW H, NEW id, NEW by, NEW blocks, Linked(G, H, id, by, blocks),
           NEW i \in Ids, Reaches(H, i, i), ~Reaches(G, i, i)
    PROVE  \E t \in Ids : H[t] # G[t] /\ \E u \in Ids \ {t} : t \in H[u] \ G[u]
  <1> USE DEF Linked
  <1>1. CASE by \subseteq G[id] /\ blocks = {}
    <2>1. \A c \in Ids : H[c] = G[c]
      BY <1>1
    <2>2. H = G
      BY <2>1 DEF Graph
    <2> QED
      BY <2>2
  <1>2. CASE by \subseteq G[id] /\ blocks # {}
    <2>1. PICK b \in blocks : TRUE
      BY <1>2
    <2>2. \A c \in Ids : H[c] = [G EXCEPT ![b] = @ \cup {id}][c]
      <3>1. H[b] = G[b] \cup {id} /\ \A c \in Ids : c # b => H[c] = G[c]
        BY <1>2, <2>1
      <3> QED
        BY <3>1 DEF Graph
    <2>3. H = [G EXCEPT ![b] = @ \cup {id}]
      BY <2>2 DEF Graph
    <2>4. \A e \in {id} : e # b /\ ~Reaches(G, e, b)
      OBVIOUS
    <2>5. Reaches(G, i, i)
      BY <2>3, <2>4, NoNewCircle DEF Graph
    <2> QED
      BY <2>5
  <1>3. CASE \A b \in blocks : id \in G[b]
    <2>1. \A c \in Ids : H[c] = [G EXCEPT ![id] = @ \cup by][c]
      <3>1. \A b \in blocks : G[b] \cup {id} = G[b]
        BY <1>3
      <3>2. H[id] = G[id] \cup by /\ \A c \in Ids : c # id => H[c] = G[c]
        BY <3>1
      <3> QED
        BY <3>2 DEF Graph
    <2>2. H = [G EXCEPT ![id] = @ \cup by]
      BY <2>1 DEF Graph
    <2>3. Reaches(G, i, i)
      BY <2>2, NoNewCircle DEF Graph
    <2> QED
      BY <2>3
  <1>4. ASSUME ~(by \subseteq G[id]), NEW b \in blocks, id \notin G[b]
        PROVE  \E t \in Ids : H[t] # G[t] /\ \E u \in Ids \ {t} : t \in H[u] \ G[u]
    <2>1. H[id] # G[id] /\ b \in Ids \ {id} /\ id \in H[b] \ G[b]
      BY <1>4
    <2> QED
      BY <2>1
  <1> QED
    BY <1>1, <1>2, <1>3, <1>4

\* How an operation may turn st into new.
Turns(st, new) ==
    /\ Whole(new)
    /\ new.next >= st.next /\ \A i \in Live(new) \ Live(st) : i >= st.next
    /\ \A i \in Ids : Reaches(Deps(st), i, i) => Reaches(Deps(new), i, i)
    /\ \A i \in Ids : Reaches(Deps(new), i, i) /\ ~Reaches(Deps(st), i, i) =>
          \E t \in Ids : /\ new.task[t].deps # st.task[t].deps
                         /\ \E u \in Ids \ {t} : t \in new.task[u].deps \ st.task[u].deps

(* A whole, said of each task.                                             *)
LEMMA WholeIs ==
    ASSUME NEW st, Whole(st)
    PROVE  /\ st \in State /\ NoLoop(ParentsOf(st))
           /\ \A i \in Ids : i \in Live(st) <=> st.task[i].status # "none"
           /\ \A i \in Live(st) : /\ i \in Ids /\ i < st.next
                                  /\ st.task[i].deps \subseteq Live(st) \ {i}
                                  /\ st.task[i].parent \in Live(st) \cup {0}
           /\ \A i \in Ids \ Live(st) : st.task[i] = NoTask
           /\ \A i, j \in Ids : st.task[i].active =>
                 st.task[i].status = "in_progress" /\ (st.task[j].active => i = j)
           /\ \A k \in Keys : st.keys[k] \in Live(st) \cup {0}
  BY DEF Whole, TasksIn, OneFocusIn, Live

(* A new task.                                                             *)
LEMMA CreateTurns ==
    ASSUME Whole(mem), NEW k \in Keys, Create(k)
    PROVE  \E new : Turns(mem, new) /\ Succeeds(new)
  <1> DEFINE id == mem.next
             L == Live(mem)
  <1>1. /\ mem.task \in [Ids -> Kept] /\ mem.keys \in [Keys -> Ids \cup {0}] /\ id \in Ids
        /\ Deps(mem) \in Graph /\ ParentsOf(mem) \in Above
        /\ \A i \in Ids : Deps(mem)[i] = mem.task[i].deps /\ ParentsOf(mem)[i] = mem.task[i].parent
    BY WholeIs, StateIs DEF Create
  <1>2. id \notin L /\ mem.task[id] = NoTask
    BY <1>1, WholeIs, IdsAreNat
  <1>3. PICK status \in Started, parent \in L \cup {0}, by \in Some(mem), blocks \in Some(mem) :
          LET one == [status |-> status, active |-> status = "in_progress",
                      parent |-> parent, deps |-> by]
              others == IF status = "in_progress" THEN TakesFocus(mem, id) ELSE mem.task
              task == [others EXCEPT ![id] = one]
          IN  Succeeds([next |-> id + 1, task |-> BlockedBy(task, blocks, id),
                        keys |-> [mem.keys EXCEPT ![k] = id]])
    BY DEF Create
  <1> DEFINE focus == status = "in_progress"
             one == [status |-> status, active |-> focus, parent |-> parent, deps |-> by]
             others == IF focus THEN TakesFocus(mem, id) ELSE mem.task
             task == [others EXCEPT ![id] = one]
             new == [next |-> id + 1, task |-> BlockedBy(task, blocks, id),
                     keys |-> [mem.keys EXCEPT ![k] = id]]
  <1>s. Succeeds(new)
    BY <1>3
  <1>4. /\ by \subseteq L /\ blocks \subseteq L /\ (\A b, c \in blocks : b = c)
        /\ L \subseteq Ids /\ status \in Statuses
    BY LiveIds DEF Some, Statuses
  <1>5. /\ others \in [Ids -> Kept]
        /\ \A i \in Ids : /\ others[i].status = mem.task[i].status
                          /\ others[i].parent = mem.task[i].parent
                          /\ others[i].deps = mem.task[i].deps
                          /\ i # id /\ others[i].active => mem.task[i].active /\ ~focus
    <2>1. CASE focus
      <3>1. others = TakesFocus(mem, id)
        BY <2>1
      <3> QED
        BY <1>1, <2>1, <3>1, TakesFocusIs
    <2>2. CASE ~focus
      <3>1. others = mem.task
        BY <2>2
      <3> QED
        BY <1>1, <2>2, <3>1
    <2> QED
      BY <2>1, <2>2
  <1>6. /\ one \in Kept /\ one.status = status /\ one.active = focus /\ one.parent = parent
        /\ one.deps = by
    BY <1>4 DEF Kept
  <1> HIDE DEF others, one
  <1>7. task \in [Ids -> Kept] /\ task[id] = one /\ \A i \in Ids : i # id => task[i] = others[i]
    BY <1>1, <1>5, <1>6
  <1> HIDE DEF task
  <1>8. /\ new.task \in [Ids -> Kept] /\ new.next = id + 1 /\ new.keys = [mem.keys EXCEPT ![k] = id]
        /\ \A i \in Ids : /\ new.task[i].status = task[i].status /\ new.task[i].active = task[i].active
                          /\ new.task[i].parent = task[i].parent
                          /\ i \in blocks => new.task[i].deps = task[i].deps \cup {id}
                          /\ i \notin blocks => new.task[i] = task[i]
    <2>1. blocks \in SUBSET Ids
      BY <1>4
    <2> DEFINE B == BlockedBy(task, blocks, id)
    <2>2. new.task = B /\ new.next = id + 1 /\ new.keys = [mem.keys EXCEPT ![k] = id]
      OBVIOUS
    <2>a. id \in Ids /\ task \in [Ids -> Kept]
      BY <1>1, <1>7
    <2>b. BlockedIn(B, task, blocks, id)
      BY <2>1, <2>a, BlockedByIs
    <2> HIDE DEF B
    <2>3. /\ B \in [Ids -> Kept]
          /\ \A i \in Ids : /\ B[i].status = task[i].status /\ B[i].active = task[i].active
                            /\ B[i].parent = task[i].parent
                            /\ i \in blocks => B[i].deps = task[i].deps \cup {id}
                            /\ i \notin blocks => B[i] = task[i]
      BY <2>b DEF BlockedIn
    <2> HIDE DEF new, B
    <2>4. new.task = B
      BY <2>2
    <2>5. new.next = id + 1 /\ new.keys = [mem.keys EXCEPT ![k] = id]
      BY <2>2
    <2>6. /\ new.task \in [Ids -> Kept]
          /\ \A i \in Ids : /\ new.task[i].status = task[i].status
                            /\ new.task[i].active = task[i].active
                            /\ new.task[i].parent = task[i].parent
                            /\ i \in blocks => new.task[i].deps = task[i].deps \cup {id}
                            /\ i \notin blocks => new.task[i] = task[i]
      BY <2>3, <2>4
    <2> QED
      BY <2>5, <2>6, Zenon
  <1>9. new \in State
    <2>1. new = [next |-> new.next, task |-> new.task, keys |-> new.keys]
      OBVIOUS
    <2>2. new.next \in 1..(MaxTasks + 1)
      BY <1>1, <1>8, IdsAreNat DEF Ids
    <2> HIDE DEF new
    <2>3. new.keys \in [Keys -> Ids \cup {0}]
      BY <1>1, <1>8
    <2> QED
      BY <1>8, <2>1, <2>2, <2>3 DEF State, Kept
  <1> HIDE DEF new
  <1>f. /\ new.task[id].status = status /\ new.task[id].active = focus
        /\ new.task[id].parent = parent /\ new.task[id].deps = by
        /\ \A i \in Ids : i # id =>
              /\ new.task[i].status = mem.task[i].status
              /\ new.task[i].parent = mem.task[i].parent
              /\ new.task[i].active => mem.task[i].active /\ ~focus
    <2>1. new.task[id] = one
      BY <1>1, <1>2, <1>4, <1>7, <1>8
    <2>2. \A i \in Ids : i # id =>
              /\ new.task[i].status = mem.task[i].status
              /\ new.task[i].parent = mem.task[i].parent
              /\ new.task[i].active => mem.task[i].active /\ ~focus
      BY <1>5, <1>7, <1>8
    <2> QED
      BY <1>6, <2>1, <2>2
  <1>g. /\ \A i \in Ids : i \notin blocks /\ i # id => new.task[i].deps = mem.task[i].deps
        /\ \A b \in blocks : new.task[b].deps = mem.task[b].deps \cup {id}
    <2>1. \A i \in Ids : i \notin blocks /\ i # id => new.task[i].deps = mem.task[i].deps
      BY <1>5, <1>7, <1>8
    <2>2. \A b \in blocks : new.task[b].deps = mem.task[b].deps \cup {id}
      BY <1>2, <1>4, <1>5, <1>7, <1>8
    <2> QED
      BY <2>1, <2>2
  <1>10. Live(new) = L \cup {id}
    <2>1. \A i \in Ids : new.task[i].status # "none" <=> i \in L \cup {id}
      BY <1>2, <1>4, <1>f, WholeIs DEF Statuses, Started
    <2> QED
      BY <1>1, <1>4, <2>1 DEF Live
  <1>11. OneFocusIn(new)
    <2>1. \A i \in Ids : new.task[i].active =>
             IF i = id THEN focus ELSE mem.task[i].active /\ ~focus
      BY <1>f
    <2> QED
      BY <1>f, <2>1, WholeIs DEF OneFocusIn
  <1>12. TasksIn(new)
    <2> SUFFICES ASSUME NEW i \in Ids
                 PROVE  IF i \in Live(new)
                        THEN /\ i < new.next
                             /\ new.task[i].deps \subseteq Live(new) \ {i}
                             /\ new.task[i].parent \in Live(new) \cup {0}
                        ELSE new.task[i] = NoTask
      BY DEF TasksIn
    <2>1. CASE i = id
      BY <1>1, <1>2, <1>4, <1>8, <1>10, <1>f, <2>1, IdsAreNat
    <2>2. CASE i \in L
      <3>1. i < new.next
        <4>1. i \in Nat /\ id \in Nat /\ i < id /\ new.next = id + 1
          BY <1>1, <1>8, <2>2, WholeIs, IdsAreNat
        <4> QED
          BY <4>1
      <3>2. new.task[i].deps \subseteq Live(new) \ {i}
        <4>1. mem.task[i].deps \subseteq L \ {i} /\ i # id
          BY <1>2, <2>2, WholeIs
        <4>2. CASE i \in blocks
          BY <1>10, <1>g, <4>1, <4>2
        <4>3. CASE i \notin blocks
          BY <1>10, <1>g, <4>1, <4>3
        <4> QED
          BY <4>2, <4>3
      <3>3. new.task[i].parent \in Live(new) \cup {0}
        BY <1>2, <1>10, <1>f, <2>2, WholeIs
      <3> QED
        BY <1>10, <2>2, <3>1, <3>2, <3>3
    <2>3. CASE i # id /\ i \notin L
      <3>1. mem.task[i] = NoTask /\ NoTask \in Kept /\ new.task[i] \in Kept
        BY <1>8, <2>3, WholeIs, NoTaskIs
      <3>2. /\ new.task[i].status = NoTask.status /\ new.task[i].parent = NoTask.parent
            /\ new.task[i].deps = NoTask.deps
        BY <1>4, <1>f, <1>g, <2>3, <3>1
      <3>3. new.task[i].active = NoTask.active
        <4>1. ~new.task[i].active /\ new.task[i].active \in BOOLEAN
          BY <1>f, <2>3, <3>1, NoTaskIs, KeptFields
        <4> QED
          BY <4>1, NoTaskIs
      <3>4. new.task[i] = NoTask
        BY <3>1, <3>2, <3>3, SameFields
      <3> QED
        BY <1>10, <2>3, <3>4
    <2> QED
      BY <2>1, <2>2, <2>3
  <1>13. \A c \in Keys : new.keys[c] \in Live(new) \cup {0}
    BY <1>1, <1>8, <1>10, WholeIs
  <1>n. Deps(new) \in Graph /\ ParentsOf(new) \in Above
        /\ \A i \in Ids : Deps(new)[i] = new.task[i].deps /\ ParentsOf(new)[i] = new.task[i].parent
    BY <1>9, StateIs
  <1>14. NoLoop(ParentsOf(new))
    <2> DEFINE p == ParentsOf(mem)
    <2>0. ParentsOf(mem) \in Above /\ \A i \in Ids : ParentsOf(mem)[i] = mem.task[i].parent
      BY <1>1, StateIs
    <2>a. ParentsOf(new)[id] = parent /\ \A i \in Ids : i # id => ParentsOf(new)[i] = p[i]
      BY <1>1, <1>f, <1>n, <2>0
    <2>b. ParentsOf(new) \in [Ids -> Ids \cup {0}] /\ p \in [Ids -> Ids \cup {0}]
      BY <1>n, <2>0 DEF Above
    <2> HIDE DEF p
    <2>1. ParentsOf(new) = [p EXCEPT ![id] = parent]
      BY <2>a, <2>b
    <2> USE DEF p
    <2>2. p \in Above /\ NoLoop(p)
      BY <1>1, WholeIs
    <2>3. \A c \in Ids : ParentOf(p)[c] = IF p[c] = 0 THEN {} ELSE {p[c]}
      BY DEF ParentOf
    <2>4. \A c \in Ids : p[c] \in L \cup {0}
      BY <1>1, WholeIs, NoTaskIs
    <2>l. L \subseteq Ids \ {id}
      BY <1>2, <1>4
    <2> HIDE DEF p, L, id
    <2>5. ASSUME NEW c \in Ids PROVE ParentOf(p)[c] \subseteq Ids \ {id}
      <3>1. CASE p[c] = 0
        BY <2>3, <3>1
      <3>2. CASE p[c] # 0
        <4>1. p[c] \in Ids \ {id} /\ ParentOf(p)[c] = {p[c]}
          BY <2>3, <2>4, <2>l, <3>2
        <4> QED
          BY <4>1
      <3> QED
        BY <3>1, <3>2
    <2> USE DEF p, L, id
    <2>6. \A c \in Ids : ~Reaches(ParentOf(p), c, id)
      <3> SUFFICES ASSUME NEW c \in Ids, Reaches(ParentOf(p), c, id) PROVE FALSE
        OBVIOUS
      <3>1. Ids \ {id} \in SUBSET Ids /\ id \notin Ids \ {id}
        OBVIOUS
      <3> QED
        BY <2>5, <3>1 DEF Reaches
    <2>7. parent \in Ids \cup {0} /\ parent # id
      BY <1>1, <1>2, <1>4, IdsAreNat
    <2>8. /\ id \in Ids /\ parent \in Ids \cup {0}
          /\ parent \in Ids => parent # id /\ ~Reaches(ParentOf(p), parent, id)
      BY <1>1, <2>6, <2>7
    <2> HIDE DEF p, id
    <2>9. NoLoop([p EXCEPT ![id] = parent])
      BY <2>2, <2>8, NewParentNoLoop
    <2> QED
      BY <2>1, <2>9
  <1>15. \A i \in Ids : Reaches(Deps(mem), i, i) => Reaches(Deps(new), i, i)
    <2>1. \A i \in Ids : Deps(mem)[i] \subseteq Deps(new)[i]
      BY <1>1, <1>2, <1>g, <1>n, NoTaskIs
    <2> QED
      BY <1>1, <1>n, <2>1, ReachesMore DEF Graph
  <1>16. ASSUME NEW i \in Ids, Reaches(Deps(new), i, i), ~Reaches(Deps(mem), i, i)
         PROVE  \E t \in Ids : /\ new.task[t].deps # mem.task[t].deps
                               /\ \E u \in Ids \ {t} : t \in new.task[u].deps \ mem.task[u].deps
    <2> DEFINE G == Deps(mem)
               H == Deps(new)
    <2>1. \A c \in Ids : G[c] \subseteq Ids \ {id}
      BY <1>1, <1>2, <1>4, WholeIs, NoTaskIs
    <2>2. \A c \in Ids : ~Reaches(G, c, id)
      <3> SUFFICES ASSUME NEW c \in Ids, Reaches(G, c, id) PROVE FALSE
        OBVIOUS
      <3>1. Ids \ {id} \in SUBSET Ids /\ id \notin Ids \ {id}
        OBVIOUS
      <3> QED
        BY <2>1, <3>1 DEF Reaches
    <2>3. \A b \in Ids : ~Reaches(G, id, b)
      <3>1. G[id] = {}
        BY <1>1, <1>2, NoTaskIs
      <3> HIDE DEF G
      <3>2. \A c \in {} : G[c] \subseteq {}
        OBVIOUS
      <3> QED
        BY <3>1, <3>2 DEF Reaches
    <2>4. /\ H[id] = G[id] \cup by /\ \A b \in blocks : H[b] = G[b] \cup {id}
          /\ \A c \in Ids : c # id /\ c \notin blocks => H[c] = G[c]
      BY <1>1, <1>2, <1>4, <1>f, <1>g, <1>n, NoTaskIs
    <2>5. G \in Graph /\ H \in Graph /\ by \in SUBSET Ids /\ blocks \in SUBSET Ids
      BY <1>1, <1>4, <1>n
    <2>6. /\ id \in Ids /\ \A d \in by : d # id /\ ~Reaches(G, d, id)
          /\ \A b \in blocks : b # id /\ ~Reaches(G, id, b)
      BY <1>1, <1>2, <1>4, <2>2, <2>3
    <2> HIDE DEF G, H, id
    <2>7. Reaches(H, i, i) /\ ~Reaches(G, i, i)
      BY <1>16 DEF G, H
    <2>9. Linked(G, H, id, by, blocks)
      BY <1>4, <2>4, <2>5, <2>6 DEF Linked
    <2>8. \E t \in Ids : H[t] # G[t] /\ \E u \in Ids \ {t} : t \in H[u] \ G[u]
      BY <2>7, <2>9, TwoEnds
    <2> QED
      BY <1>1, <1>n, <2>8 DEF G, H
  <1>17. new.next >= id /\ \A i \in Live(new) \ L : i >= id
    <2>1. id \in Nat /\ new.next = id + 1 /\ Live(new) \ L \subseteq {id}
      BY <1>1, <1>8, <1>10, IdsAreNat
    <2> HIDE DEF id
    <2> QED
      BY <2>1
  <1>18. Whole(new)
    BY <1>9, <1>11, <1>12, <1>13, <1>14 DEF Whole
  <1>19. Turns(mem, new)
    BY <1>15, <1>16, <1>17, <1>18 DEF Turns
  <1> QED
    BY <1>s, <1>19

(* A change of a task.                                                     *)
LEMMA UpdateTurns ==
    ASSUME Whole(mem), NEW k \in Keys, NEW id \in Live(mem), Update(k, id)
    PROVE  \E new : Turns(mem, new) /\ Succeeds(new)
  <1> DEFINE L == Live(mem)
             old == mem.task[id]
  <1>1. /\ mem.task \in [Ids -> Kept] /\ mem.keys \in [Keys -> Ids \cup {0}] /\ id \in Ids
        /\ Deps(mem) \in Graph /\ ParentsOf(mem) \in Above /\ mem.next \in 1..(MaxTasks + 1)
        /\ \A i \in Ids : Deps(mem)[i] = mem.task[i].deps /\ ParentsOf(mem)[i] = mem.task[i].parent
    BY WholeIs, StateIs
  <1>2. /\ old \in Kept /\ old.status \in Statuses /\ old.deps \subseteq L \ {id}
        /\ old.parent \in L \cup {0} /\ old.active \in BOOLEAN
        /\ old.active => old.status = "in_progress"
    BY <1>1, WholeIs, KeptFields
  <1>3. PICK status \in Statuses \cup {"same"}, active \in {"on", "off", "same"},
             parent \in L \cup {0}, by \in Some(mem), blocks \in Some(mem) :
          LET result == IF status = "same" THEN old.status ELSE status
              focus == IF status = "in_progress" THEN active # "off"
                       ELSE status = "same" /\ (active = "on" \/ (active = "same" /\ old.active))
              one == [status |-> result, active |-> focus, parent |-> parent,
                      deps |-> old.deps \cup by]
              others == IF status = "in_progress" \/ active = "on"
                        THEN TakesFocus(mem, id) ELSE mem.task
          IN  /\ active = "on" => result = "in_progress"
              /\ NoCycle(id, by, blocks)
              /\ result = "in_progress" => Ready(mem, one.deps)
              /\ parent \in {0, old.parent} \cup {p \in L : MayBeParent(id, p)}
              /\ status = "completed" =>
                    \A i \in L : mem.task[i].parent = id => mem.task[i].status = "completed"
              /\ Succeeds([next |-> mem.next, keys |-> [mem.keys EXCEPT ![k] = id],
                           task |-> BlockedBy([others EXCEPT ![id] = one], blocks, id)])
    BY DEF Update
  <1> DEFINE result == IF status = "same" THEN old.status ELSE status
             takes == status = "in_progress" \/ active = "on"
             focus == IF status = "in_progress" THEN active # "off"
                      ELSE status = "same" /\ (active = "on" \/ (active = "same" /\ old.active))
             one == [status |-> result, active |-> focus, parent |-> parent,
                     deps |-> old.deps \cup by]
             others == IF takes THEN TakesFocus(mem, id) ELSE mem.task
             task == [others EXCEPT ![id] = one]
             new == [next |-> mem.next, keys |-> [mem.keys EXCEPT ![k] = id],
                     task |-> BlockedBy(task, blocks, id)]
  <1>s. /\ Succeeds(new) /\ NoCycle(id, by, blocks)
        /\ parent \in {0, old.parent} \cup {p \in L : MayBeParent(id, p)}
    BY <1>3
  <1>4. /\ by \subseteq L /\ blocks \subseteq L /\ (\A b, c \in blocks : b = c) /\ L \subseteq Ids
        /\ id \notin by /\ id \notin blocks
    BY <1>s, LiveIds DEF Some, NoCycle
  <1>h. /\ result \in Statuses /\ focus \in BOOLEAN
        /\ focus => result = "in_progress" /\ (takes \/ old.active)
    <2>1. result \in Statuses
      BY <1>2
    <2>2. focus => result = "in_progress" /\ (takes \/ old.active)
      BY <1>2, <1>3
    <2>3. focus \in BOOLEAN
      BY <1>2
    <2> QED
      BY <2>1, <2>2, <2>3
  <1>5. /\ others \in [Ids -> Kept]
        /\ \A i \in Ids : /\ others[i].status = mem.task[i].status
                          /\ others[i].parent = mem.task[i].parent
                          /\ others[i].deps = mem.task[i].deps
                          /\ i # id /\ others[i].active => mem.task[i].active /\ ~takes
    <2>1. CASE takes
      <3>1. others = TakesFocus(mem, id)
        BY <2>1
      <3> QED
        BY <1>1, <2>1, <3>1, TakesFocusIs
    <2>2. CASE ~takes
      <3>1. others = mem.task
        BY <2>2
      <3> QED
        BY <1>1, <2>2, <3>1
    <2> QED
      BY <2>1, <2>2
  <1> HIDE DEF result, takes, focus
  <1>6. /\ one \in Kept /\ one.status = result /\ one.active = focus /\ one.parent = parent
        /\ one.deps = old.deps \cup by
    <2> DEFINE deps == old.deps \cup by
    <2>1. deps \in SUBSET Ids /\ one = [status |-> result, active |-> focus, parent |-> parent,
                                       deps |-> deps]
      BY <1>2, <1>4
    <2> HIDE DEF deps, one
    <2>2. /\ one \in Kept /\ one.status = result /\ one.active = focus /\ one.parent = parent
          /\ one.deps = deps
      BY <1>4, <1>h, <2>1 DEF Kept
    <2> QED
      BY <2>2 DEF deps
  <1> HIDE DEF others, one
  <1>7. task \in [Ids -> Kept] /\ task[id] = one /\ \A i \in Ids : i # id => task[i] = others[i]
    BY <1>1, <1>5, <1>6
  <1> HIDE DEF task
  <1>8. /\ new.task \in [Ids -> Kept]
        /\ \A i \in Ids : /\ new.task[i].status = task[i].status
                          /\ new.task[i].active = task[i].active
                          /\ new.task[i].parent = task[i].parent
                          /\ i \in blocks => new.task[i].deps = task[i].deps \cup {id}
                          /\ i \notin blocks => new.task[i] = task[i]
    <2>1. blocks \in SUBSET Ids /\ id \in Ids /\ task \in [Ids -> Kept]
      BY <1>1, <1>4, <1>7
    <2> DEFINE B == BlockedBy(task, blocks, id)
    <2>2. new.task = B
      OBVIOUS
    <2> HIDE DEF new
    <2>a. BlockedIn(B, task, blocks, id)
      BY <2>1, BlockedByIs
    <2> HIDE DEF B
    <2>3. /\ B \in [Ids -> Kept]
          /\ \A i \in Ids : /\ B[i].status = task[i].status /\ B[i].active = task[i].active
                            /\ B[i].parent = task[i].parent
                            /\ i \in blocks => B[i].deps = task[i].deps \cup {id}
                            /\ i \notin blocks => B[i] = task[i]
      BY <2>a DEF BlockedIn
    <2> HIDE DEF B
    <2> QED
      BY <2>2, <2>3
  <1>9. new \in State /\ new.next = mem.next /\ new.keys = [mem.keys EXCEPT ![k] = id]
    <2>1. /\ new = [next |-> new.next, task |-> new.task, keys |-> new.keys]
          /\ new.next = mem.next /\ new.keys = [mem.keys EXCEPT ![k] = id]
      OBVIOUS
    <2> HIDE DEF new
    <2>2. new.keys \in [Keys -> Ids \cup {0}]
      BY <1>1, <2>1
    <2> QED
      BY <1>1, <1>8, <2>1, <2>2 DEF State, Kept
  <1> HIDE DEF new
  <1>f. /\ new.task[id].status = result /\ new.task[id].active = focus
        /\ new.task[id].parent = parent /\ new.task[id].deps = old.deps \cup by
        /\ \A i \in Ids : i # id =>
              /\ new.task[i].status = mem.task[i].status
              /\ new.task[i].parent = mem.task[i].parent
              /\ new.task[i].active => mem.task[i].active /\ ~takes
    <2>1. new.task[id] = one
      BY <1>1, <1>4, <1>7, <1>8
    <2>2. \A i \in Ids : i # id =>
              /\ new.task[i].status = mem.task[i].status
              /\ new.task[i].parent = mem.task[i].parent
              /\ new.task[i].active => mem.task[i].active /\ ~takes
      BY <1>5, <1>7, <1>8
    <2> QED
      BY <1>6, <2>1, <2>2
  <1>g. /\ \A i \in Ids : i \notin blocks /\ i # id => new.task[i].deps = mem.task[i].deps
        /\ \A b \in blocks : new.task[b].deps = mem.task[b].deps \cup {id}
    <2>1. \A i \in Ids : i \notin blocks /\ i # id => new.task[i].deps = mem.task[i].deps
      BY <1>5, <1>7, <1>8
    <2>2. \A b \in blocks : new.task[b].deps = mem.task[b].deps \cup {id}
      BY <1>4, <1>5, <1>7, <1>8
    <2> QED
      BY <2>1, <2>2
  <1>10. Live(new) = L
    <2>1. \A i \in Ids : new.task[i].status # "none" <=> i \in L
      BY <1>1, <1>f, <1>h, WholeIs DEF Statuses, Started
    <2> QED
      BY <1>4, <2>1 DEF Live
  <1>11. OneFocusIn(new)
    <2>1. \A i \in Ids : new.task[i].active => new.task[i].status = "in_progress"
      BY <1>f, <1>h, WholeIs
    <2>2. \A i \in Ids : i # id /\ new.task[i].active => ~new.task[id].active
      <3> SUFFICES ASSUME NEW i \in Ids, i # id, new.task[i].active, new.task[id].active
                   PROVE  FALSE
        OBVIOUS
      <3>1. mem.task[i].active /\ ~takes /\ old.active
        BY <1>f, <1>h
      <3> QED
        BY <1>1, <3>1, WholeIs
    <2>3. \A i, j \in Ids : i # id /\ j # id /\ new.task[i].active /\ new.task[j].active => i = j
      BY <1>f, WholeIs
    <2> QED
      BY <2>1, <2>2, <2>3 DEF OneFocusIn
  <1>12. TasksIn(new)
    <2> SUFFICES ASSUME NEW i \in Ids
                 PROVE  IF i \in Live(new)
                        THEN /\ i < new.next
                             /\ new.task[i].deps \subseteq Live(new) \ {i}
                             /\ new.task[i].parent \in Live(new) \cup {0}
                        ELSE new.task[i] = NoTask
      BY DEF TasksIn
    <2>1. CASE i = id
      BY <1>2, <1>4, <1>9, <1>10, <1>f, <2>1, WholeIs
    <2>2. CASE i \in L /\ i # id
      <3>1. i < new.next
        BY <1>9, <2>2, WholeIs
      <3>2. new.task[i].deps \subseteq Live(new) \ {i}
        <4>1. mem.task[i].deps \subseteq L \ {i}
          BY <2>2, WholeIs
        <4>2. CASE i \in blocks
          BY <1>10, <1>g, <2>2, <4>1, <4>2
        <4>3. CASE i \notin blocks
          BY <1>10, <1>g, <2>2, <4>1, <4>3
        <4> QED
          BY <4>2, <4>3
      <3>3. new.task[i].parent \in Live(new) \cup {0}
        BY <1>10, <1>f, <2>2, WholeIs
      <3> QED
        BY <1>10, <2>2, <3>1, <3>2, <3>3
    <2>3. CASE i \notin L
      <3>1. mem.task[i] = NoTask /\ NoTask \in Kept /\ new.task[i] \in Kept /\ i # id
        BY <1>8, <2>3, WholeIs, NoTaskIs
      <3>2. /\ new.task[i].status = NoTask.status /\ new.task[i].parent = NoTask.parent
            /\ new.task[i].deps = NoTask.deps
        BY <1>4, <1>f, <1>g, <2>3, <3>1
      <3>3. new.task[i].active = NoTask.active
        <4>1. ~new.task[i].active /\ new.task[i].active \in BOOLEAN
          BY <1>f, <3>1, NoTaskIs, KeptFields
        <4> QED
          BY <4>1, NoTaskIs
      <3>4. new.task[i] = NoTask
        BY <3>1, <3>2, <3>3, SameFields
      <3> QED
        BY <1>10, <2>3, <3>4
    <2> QED
      BY <2>1, <2>2, <2>3
  <1>13. \A c \in Keys : new.keys[c] \in Live(new) \cup {0}
    BY <1>1, <1>9, <1>10, WholeIs
  <1>n. /\ Deps(new) \in Graph /\ ParentsOf(new) \in Above
        /\ \A i \in Ids : Deps(new)[i] = new.task[i].deps /\ ParentsOf(new)[i] = new.task[i].parent
    BY <1>9, StateIs
  <1>14. NoLoop(ParentsOf(new))
    <2> DEFINE p == ParentsOf(mem)
    <2>0. ParentsOf(mem) \in Above /\ \A i \in Ids : ParentsOf(mem)[i] = mem.task[i].parent
      BY <1>1, StateIs
    <2>a. ParentsOf(new)[id] = parent /\ \A i \in Ids : i # id => ParentsOf(new)[i] = p[i]
      BY <1>1, <1>f, <1>n, <2>0
    <2>b. ParentsOf(new) \in [Ids -> Ids \cup {0}] /\ p \in [Ids -> Ids \cup {0}]
      BY <1>n, <2>0 DEF Above
    <2> HIDE DEF p
    <2>1. ParentsOf(new) = [p EXCEPT ![id] = parent]
      BY <2>a, <2>b
    <2> USE DEF p
    <2>2. p \in Above /\ NoLoop(p) /\ p[id] = old.parent
      BY <1>1, WholeIs
    <2>3. Parents(mem) = ParentOf(p)
      BY DEF Parents, ParentsOf
    <2> HIDE DEF p
    <2>4. CASE parent = old.parent
      <3>1. [p EXCEPT ![id] = parent] = p
        BY <2>2, <2>4 DEF Above
      <3> QED
        BY <2>1, <2>2, <3>1
    <2>5. CASE parent # old.parent
      <3>1. /\ parent \in Ids \cup {0}
            /\ parent \in Ids => parent # id /\ ~Reaches(ParentOf(p), parent, id)
        BY <1>4, <1>s, <2>3, <2>5, IdsAreNat DEF MayBeParent
      <3>2. NoLoop([p EXCEPT ![id] = parent])
        BY <1>1, <2>2, <3>1, NewParentNoLoop
      <3> QED
        BY <2>1, <3>2
    <2> QED
      BY <2>4, <2>5
  <1>15. \A i \in Ids : Reaches(Deps(mem), i, i) => Reaches(Deps(new), i, i)
    <2>1. \A i \in Ids : Deps(mem)[i] \subseteq Deps(new)[i]
      BY <1>1, <1>f, <1>g, <1>n
    <2> QED
      BY <1>1, <1>n, <2>1, ReachesMore DEF Graph
  <1>16. ASSUME NEW i \in Ids, Reaches(Deps(new), i, i), ~Reaches(Deps(mem), i, i)
         PROVE  \E t \in Ids : /\ new.task[t].deps # mem.task[t].deps
                               /\ \E u \in Ids \ {t} : t \in new.task[u].deps \ mem.task[u].deps
    <2> DEFINE G == Deps(mem)
               H == Deps(new)
    <2>1. /\ H[id] = G[id] \cup by /\ \A b \in blocks : H[b] = G[b] \cup {id}
          /\ \A c \in Ids : c # id /\ c \notin blocks => H[c] = G[c]
      BY <1>1, <1>4, <1>f, <1>g, <1>n
    <2>2. /\ \A d \in by : d # id /\ ~Reaches(G, d, id)
          /\ \A b \in blocks : b # id /\ ~Reaches(G, id, b)
      BY <1>s DEF NoCycle
    <2>3. G \in Graph /\ H \in Graph /\ by \in SUBSET Ids /\ blocks \in SUBSET Ids
      BY <1>1, <1>4, <1>n
    <2> HIDE DEF G, H
    <2>4. Reaches(H, i, i) /\ ~Reaches(G, i, i)
      BY <1>16 DEF G, H
    <2>5. Linked(G, H, id, by, blocks)
      BY <1>1, <1>4, <2>1, <2>2, <2>3 DEF Linked
    <2>6. \E t \in Ids : H[t] # G[t] /\ \E u \in Ids \ {t} : t \in H[u] \ G[u]
      BY <2>4, <2>5, TwoEnds
    <2> QED
      BY <1>1, <1>n, <2>6 DEF G, H
  <1>17. new.next >= mem.next /\ Live(new) \ L = {}
    BY <1>1, <1>9, <1>10, IdsAreNat
  <1>18. Whole(new)
    BY <1>9, <1>11, <1>12, <1>13, <1>14 DEF Whole
  <1>19. Turns(mem, new)
    BY <1>15, <1>16, <1>17, <1>18 DEF Turns
  <1> QED
    BY <1>s, <1>19

(* The end of a task.                                                      *)
LEMMA DeleteTurns ==
    ASSUME Whole(mem), NEW id \in Live(mem), Delete(id)
    PROVE  \E new : Turns(mem, new) /\ Succeeds(new)
  <1> DEFINE L == Live(mem)
             new == [next |-> mem.next, task |-> [mem.task EXCEPT ![id] = NoTask],
                     keys |-> KeysWithout(id)]
  <1>s. Succeeds(new) /\ MayGo(id)
    BY DEF Delete
  <1>1. /\ mem.task \in [Ids -> Kept] /\ mem.keys \in [Keys -> Ids \cup {0}] /\ id \in Ids
        /\ Deps(mem) \in Graph /\ ParentsOf(mem) \in Above /\ mem.next \in 1..(MaxTasks + 1)
        /\ \A i \in Ids : Deps(mem)[i] = mem.task[i].deps /\ ParentsOf(mem)[i] = mem.task[i].parent
    BY WholeIs, StateIs
  <1>2. /\ \A i \in Ids : mem.task[i].parent # id /\ id \notin mem.task[i].deps
        /\ L \subseteq Ids
    BY <1>1, <1>s, WholeIs, NoTaskIs, IdsAreNat, LiveIds DEF MayGo, NoChildren
  <1>3. /\ new.task \in [Ids -> Kept] /\ new.task[id] = NoTask
        /\ \A i \in Ids : i # id => new.task[i] = mem.task[i]
    BY <1>1, NoTaskIs
  <1>4. /\ new = [next |-> new.next, task |-> new.task, keys |-> new.keys]
        /\ new.next = mem.next /\ new.keys = KeysWithout(id)
    OBVIOUS
  <1> HIDE DEF new
  <1>5. /\ new.keys \in [Keys -> Ids \cup {0}]
        /\ \A k \in Keys : new.keys[k] \in (L \ {id}) \cup {0}
    BY <1>1, <1>4, WholeIs DEF KeysWithout
  <1>6. new \in State
    BY <1>1, <1>3, <1>4, <1>5 DEF State, Kept
  <1>n. /\ Deps(new) \in Graph /\ ParentsOf(new) \in Above
        /\ \A i \in Ids : Deps(new)[i] = new.task[i].deps /\ ParentsOf(new)[i] = new.task[i].parent
    BY <1>6, StateIs
  <1>10. Live(new) = L \ {id}
    <2>1. \A i \in Ids : new.task[i].status # "none" <=> i \in L \ {id}
      BY <1>1, <1>3, WholeIs, NoTaskIs
    <2> QED
      BY <1>2, <2>1 DEF Live
  <1>11. OneFocusIn(new)
    BY <1>3, WholeIs, NoTaskIs DEF OneFocusIn
  <1>12. TasksIn(new)
    BY <1>2, <1>3, <1>4, <1>10, WholeIs DEF TasksIn
  <1>14. NoLoop(ParentsOf(new))
    <2> SUFFICES ASSUME NEW S \in SUBSET Ids, \A c \in S : ParentsOf(new)[c] \in S
                 PROVE  S = {}
      BY DEF NoLoop
    <2>1. id \notin S
      BY <1>3, <1>n, NoTaskIs, IdsAreNat
    <2>2. \A c \in S : ParentsOf(mem)[c] \in S
      BY <1>1, <1>3, <1>n, <2>1
    <2> QED
      BY <2>2, WholeIs DEF NoLoop
  <1>15. ASSUME NEW i \in Ids, Reaches(Deps(mem), i, i)
         PROVE  Reaches(Deps(new), i, i)
    <2> DEFINE G == Deps(mem)
               H == Deps(new)
    <2>a. \A c \in Ids : G[c] \subseteq Ids \ {id}
      BY <1>1, <1>2 DEF Graph
    <2>b. \A c \in Ids : c # id => H[c] = G[c]
      BY <1>1, <1>3, <1>n
    <2> HIDE DEF G, H
    <2>2. Reaches(G, i, i)
      BY <1>15 DEF G
    <2>3. i # id
      <3>1. Ids \ {id} \in SUBSET Ids /\ \A c \in Ids \ {id} : G[c] \subseteq Ids \ {id}
        BY <2>a
      <3>2. i \in Ids \ {id}
        BY <2>a, <2>2, <3>1 DEF Reaches
      <3> QED
        BY <3>2
    <2> SUFFICES ASSUME NEW S \in SUBSET Ids, H[i] \subseteq S, \A c \in S : H[c] \subseteq S
                 PROVE  i \in S
      BY DEF Reaches, H
    <2>4. /\ S \ {id} \in SUBSET Ids /\ G[i] \subseteq S \ {id}
          /\ \A c \in S \ {id} : G[c] \subseteq S \ {id}
      BY <2>a, <2>b, <2>3
    <2>5. i \in S \ {id}
      BY <2>2, <2>4 DEF Reaches
    <2> QED
      BY <2>5
  <1>16. \A i \in Ids : Reaches(Deps(new), i, i) => Reaches(Deps(mem), i, i)
    <2>1. \A i \in Ids : Deps(new)[i] \subseteq Deps(mem)[i]
      BY <1>1, <1>3, <1>n, NoTaskIs
    <2> QED
      BY <1>1, <1>n, <2>1, ReachesMore DEF Graph
  <1>17. new.next >= mem.next /\ Live(new) \ L = {}
    BY <1>1, <1>4, <1>10, IdsAreNat
  <1>18. Whole(new)
    BY <1>5, <1>6, <1>10, <1>11, <1>12, <1>14 DEF Whole
  <1>19. Turns(mem, new)
    BY <1>15, <1>16, <1>17, <1>18 DEF Turns
  <1> QED
    BY <1>s, <1>19

-----------------------------------------------------------------------------
(* The invariant.                                                          *)

\* What has become of st.
Since(st, new) ==
    /\ new.next >= st.next /\ \A i \in Live(new) \ Live(st) : i >= st.next
    /\ \A i \in Ids : Reaches(Deps(st), i, i) => Reaches(Deps(new), i, i)

IInv ==
    /\ Whole(mem) /\ Whole(journal) /\ Whole(batch.before) /\ done \in 0..MaxOps
    /\ batch \in [mode : {"none", "sequential", "atomic"}, before : State]
    /\ JournalAgrees
    /\ batch.mode = "atomic" => Since(batch.before, mem)

LEMMA SinceThen ==
    ASSUME NEW a, NEW b, NEW c, Whole(a), Whole(b), Since(a, b), Turns(b, c)
    PROVE  Since(a, c)
  <1>1. a.next \in Nat /\ b.next \in Nat /\ c.next \in Nat
    BY WholeIs, StateIs, IdsAreNat DEF Turns
  <1>2. c.next >= a.next
    BY <1>1 DEF Since, Turns
  <1>3. \A i \in Live(c) \ Live(a) : i >= a.next
    <2> SUFFICES ASSUME NEW i \in Live(c) \ Live(a) PROVE i >= a.next
      OBVIOUS
    <2>1. i \in Nat
      BY LiveIds, IdsAreNat
    <2>2. i \in Live(b) => i >= a.next
      BY DEF Since
    <2>3. i \notin Live(b) => i >= b.next
      BY DEF Turns
    <2>4. b.next >= a.next
      BY DEF Since
    <2> QED
      BY <1>1, <2>1, <2>2, <2>3, <2>4
  <1>4. \A i \in Ids : Reaches(Deps(a), i, i) => Reaches(Deps(c), i, i)
    BY DEF Since, Turns
  <1> QED
    BY <1>2, <1>3, <1>4 DEF Since

LEMMA EmptyIsWhole == Whole(Empty)
  <1>1. /\ Empty.next = 1 /\ Empty = [next |-> Empty.next, task |-> Empty.task, keys |-> Empty.keys]
        /\ Empty.task \in [Ids -> Kept] /\ \A i \in Ids : Empty.task[i] = NoTask
        /\ Empty.keys \in [Keys -> Ids \cup {0}] /\ \A k \in Keys : Empty.keys[k] = 0
    BY NoTaskIs DEF Empty
  <1>2. Empty \in State
    BY <1>1, IdsAreNat DEF State, Kept
  <1>3. OneFocusIn(Empty) /\ Live(Empty) = {}
    BY <1>1, NoTaskIs DEF OneFocusIn, Live
  <1>4. TasksIn(Empty)
    BY <1>1, <1>3 DEF TasksIn
  <1>5. \A i \in Ids : ParentsOf(Empty)[i] = 0
    BY <1>1, NoTaskIs DEF ParentsOf
  <1>6. NoLoop(ParentsOf(Empty))
    <2> SUFFICES ASSUME NEW S \in SUBSET Ids, \A c \in S : ParentsOf(Empty)[c] \in S PROVE S = {}
      BY DEF NoLoop
    <2> QED
      BY <1>5, IdsAreNat
  <1> QED
    BY <1>1, <1>2, <1>3, <1>4, <1>6 DEF Whole

LEMMA InvInit == Init => IInv
  <1> SUFFICES ASSUME Init PROVE IInv
    OBVIOUS
  <1>1. PICK t \in OldTasks, u \in OldTasks \cup {NoTask}, named \in {0, 1} :
          journal = Restore([Empty EXCEPT
              !.task = [i \in Ids |-> IF i = 1 THEN t ELSE IF i = 2 THEN u ELSE NoTask],
              !.keys = [k \in Keys |-> named]])
    BY DEF Init
  <1> DEFINE raw == [Empty EXCEPT
              !.task = [i \in Ids |-> IF i = 1 THEN t ELSE IF i = 2 THEN u ELSE NoTask],
              !.keys = [k \in Keys |-> named]]
  <1>2. Fine(t) /\ Fine(u) /\ Fine(NoTask)
    BY NoTaskIs DEF OldTasks, Fine
  <1>3. \A i \in Ids : raw.task[i] \in {t, u, NoTask}
    BY DEF Empty
  <1>4. raw.next \in 1..(MaxTasks + 1)
    BY IdsAreNat DEF Empty
  <1> HIDE DEF raw
  <1>5. Whole(Restore(raw))
    BY <1>2, <1>3, <1>4, RestoreIsWhole
  <1>6. Whole(journal) /\ mem = journal /\ batch = NoBatch /\ done = 0
    BY <1>1, <1>5 DEF Init, raw
  <1>7. /\ batch.mode = "none" /\ batch.before = Empty
        /\ batch \in [mode : {"none", "sequential", "atomic"}, before : State]
    BY <1>6, EmptyIsWhole, WholeIs DEF NoBatch
  <1>8. done \in 0..MaxOps
    BY <1>6, TaskManageAssumption
  <1> QED
    BY <1>6, <1>7, <1>8, EmptyIsWhole DEF IInv, JournalAgrees

LEMMA OperationTurns ==
    ASSUME IInv, Operation
    PROVE  \E new : Turns(mem, new) /\ Succeeds(new)
  BY CreateTurns, UpdateTurns, DeleteTurns DEF Operation, IInv

LEMMA InvNext == IInv /\ [Next]_vars => IInv'
  <1> SUFFICES ASSUME IInv, [Next]_vars PROVE IInv'
    OBVIOUS
  <1> USE DEF IInv
  <1>1. CASE Operation
    <2>1. PICK new : Turns(mem, new) /\ Succeeds(new)
      BY <1>1, OperationTurns
    <2>2. mem' = new /\ batch' = batch /\ done' = done + 1 /\ done < MaxOps
      BY <1>1, <2>1 DEF Operation, Succeeds
    <2>3. Whole(mem')
      BY <2>1, <2>2 DEF Turns
    <2>4. Whole(journal') /\ JournalAgrees'
      BY <2>1, <2>2, <2>3 DEF JournalAgrees, Succeeds, CommitsInOrder
    <2>5. done' \in 0..MaxOps
      BY <2>2, TaskManageAssumption
    <2>6. batch.mode = "atomic" => Since(batch.before, new)
      BY <2>1, SinceThen
    <2>7. batch'.mode = "atomic" => Since(batch'.before, mem')
      BY <2>2, <2>6
    <2> QED
      BY <2>2, <2>3, <2>4, <2>5, <2>7
  <1>2. ASSUME NEW mode \in {"sequential", "atomic"}, Execute(mode)
        PROVE  IInv'
    <2>1. /\ mem' = mem /\ journal' = journal /\ done' = done /\ batch.mode = "none"
          /\ batch' = [mode |-> mode, before |-> IF mode = "atomic" THEN mem ELSE Empty]
      BY <1>2 DEF Execute
    <2>2. batch'.mode = mode /\ batch'.before = IF mode = "atomic" THEN mem ELSE Empty
      BY <2>1
    <2>3. Whole(batch'.before) /\ batch'.before \in State
      BY <2>2, EmptyIsWhole, WholeIs
    <2>4. batch' \in [mode : {"none", "sequential", "atomic"}, before : State]
      BY <2>1, <2>2, <2>3
    <2>5. JournalAgrees'
      BY <2>1, <2>2 DEF JournalAgrees
    <2>6. Since(mem, mem)
      <3>1. mem.next \in Nat
        BY WholeIs, StateIs, IdsAreNat
      <3> QED
        BY <3>1 DEF Since
    <2>7. batch'.mode = "atomic" => Since(batch'.before, mem')
      BY <2>1, <2>2, <2>6
    <2> QED
      BY <2>1, <2>3, <2>4, <2>5, <2>7
  <1>3. ASSUME batch' = NoBatch, Whole(mem'), mem' = journal', done' = done
        PROVE  IInv'
    <2>1. /\ batch'.mode = "none" /\ batch'.before = Empty
          /\ batch' \in [mode : {"none", "sequential", "atomic"}, before : State]
      BY <1>3, EmptyIsWhole, WholeIs DEF NoBatch
    <2> QED
      BY <1>3, <2>1, EmptyIsWhole DEF JournalAgrees
  <1>4. CASE Refused
    <2>1. mem' = IF batch.mode = "atomic" THEN batch.before ELSE mem
      BY <1>4, RestoreIsExact DEF Refused
    <2> QED
      BY <1>3, <1>4, <2>1 DEF Refused, JournalAgrees
  <1>5. CASE Finish
    BY <1>3, <1>5 DEF Finish
  <1>6. CASE Restart
    BY <1>3, <1>6, RestoreIsExact DEF Restart
  <1>7. CASE UNCHANGED vars
    <2>1. mem' = mem /\ journal' = journal /\ batch' = batch /\ done' = done
      BY <1>7 DEF vars
    <2> QED
      BY <2>1 DEF JournalAgrees
  <1> QED
    BY <1>1, <1>2, <1>4, <1>5, <1>6, <1>7 DEF Next

(* The inductive invariant.                                                *)
THEOREM TaskInvariant == Spec => []IInv
  BY InvInit, InvNext, PTL DEF Spec

(* The graph of tasks, the journal and the batch under way are what they   *)
(* should be.                                                              *)
THEOREM TypeCorrect == Spec => []TypeOK
  <1>1. IInv => TypeOK
    BY WholeIs DEF IInv, TypeOK
  <1> QED
    BY <1>1, TaskInvariant, PTL

(* Whatever operations are asked for, refused or cut off, and whatever the *)
(* journal held: one task is worked on at most, nothing refers to a task   *)
(* that is not there, and no task is part of itself.                       *)
THEOREM TasksStayWhole == Spec => []TasksAreWhole
  <1>1. ASSUME Whole(mem) PROVE TasksAreWhole
    <2>1. OneFocus
      BY <1>1, WholeIs DEF OneFocus
    <2>2. NoDangling
      BY <1>1, WholeIs DEF NoDangling
    <2>3. ParentsEnd
      <3>1. ParentsOf(mem) \in Above /\ NoLoop(ParentsOf(mem))
        BY <1>1, WholeIs, StateIs
      <3>2. Parents(mem) = ParentOf(ParentsOf(mem))
        BY DEF Parents, ParentsOf
      <3> QED
        BY <3>1, <3>2, NoLoopNoReturn DEF ParentsEnd
    <2> QED
      BY <2>1, <2>2, <2>3 DEF TasksAreWhole
  <1>2. IInv => TasksAreWhole
    BY <1>1 DEF IInv
  <1> QED
    BY <1>2, TaskInvariant, PTL

(* A restart finds what was answered, and nothing of an atomic batch that  *)
(* is not over.                                                            *)
THEOREM JournalHolds == Spec => []JournalAgrees
  <1>1. IInv => JournalAgrees
    BY DEF IInv
  <1> QED
    BY <1>1, TaskInvariant, PTL

(* Restoring what the session or its journal holds changes nothing.        *)
THEOREM NothingIsRepaired == Spec => []RestoresExactly
  <1>1. IInv => RestoresExactly
    BY RestoreIsExact DEF IInv, RestoresExactly
  <1> QED
    BY <1>1, TaskInvariant, PTL

(* The number of a journaled task is used for no other.                    *)
THEOREM NumbersAreFresh == Spec => IdsAreFresh
  <1>1. ASSUME IInv, [Next]_vars
        PROVE  [/\ journal'.next >= journal.next
                /\ \A i \in Live(journal') \ Live(journal) : i >= journal.next]_vars
    <2> SUFFICES /\ journal'.next >= journal.next
                 /\ \A i \in Live(journal') \ Live(journal) : i >= journal.next
      OBVIOUS
    <2>0. journal.next \in Nat
      BY <1>1, WholeIs, StateIs, IdsAreNat DEF IInv
    <2>1. CASE Operation
      <3>1. PICK new : Turns(mem, new) /\ Succeeds(new)
        BY <1>1, <2>1, OperationTurns
      <3>2. CASE batch.mode = "atomic"
        BY <2>0, <3>1, <3>2 DEF Succeeds, CommitsInOrder
      <3>3. CASE batch.mode # "atomic"
        <4>1. journal = mem /\ journal' = new
          BY <1>1, <3>1, <3>3 DEF IInv, JournalAgrees, Succeeds, CommitsInOrder
        <4> QED
          BY <3>1, <4>1 DEF Turns
      <3> QED
        BY <3>2, <3>3
    <2>2. CASE Finish
      <3>1. journal' = mem
        BY <2>2 DEF Finish
      <3> QED
        BY <1>1, <2>0, <3>1 DEF IInv, JournalAgrees, Since
    <2>3. CASE journal' = journal
      BY <2>0, <2>3
    <2> QED
      BY <1>1, <2>1, <2>2, <2>3 DEF Next, Execute, Refused, Restart, vars
  <1> QED
    BY <1>1, TaskInvariant, PTL DEF Spec, IdsAreFresh

(* One new dependency alone closes no circle.                              *)
THEOREM CircleTakesBoth == Spec => CycleTakesTwoEnds
  <1> DEFINE A == \A i \in Ids :
                    Reaches(Deps(mem'), i, i) /\ ~Reaches(Deps(mem), i, i) =>
                        \E t \in Ids :
                           /\ mem'.task[t].deps # mem.task[t].deps
                           /\ \E u \in Ids \ {t} : t \in mem'.task[u].deps \ mem.task[u].deps
  <1>1. ASSUME IInv, [Next]_vars
        PROVE  [A]_vars
    <2> SUFFICES A
      OBVIOUS
    <2>1. CASE Operation
      <3>1. PICK new : Turns(mem, new) /\ Succeeds(new)
        BY <1>1, <2>1, OperationTurns
      <3>2. mem' = new
        BY <3>1 DEF Succeeds
      <3> QED
        BY <3>1, <3>2 DEF Turns
    <2>2. CASE Refused
      <3>1. mem' = IF batch.mode = "atomic" THEN batch.before ELSE mem
        BY <1>1, <2>2, RestoreIsExact DEF Refused, IInv
      <3> QED
        BY <1>1, <3>1 DEF IInv, Since
    <2>3. CASE Restart
      <3>1. mem' = IF batch.mode = "atomic" THEN batch.before ELSE mem
        BY <1>1, <2>3, RestoreIsExact DEF Restart, IInv, JournalAgrees
      <3> QED
        BY <1>1, <3>1 DEF IInv, Since
    <2>4. CASE mem' = mem
      BY <2>4
    <2> QED
      BY <1>1, <2>1, <2>2, <2>3, <2>4 DEF Next, Execute, Finish, vars
  <1> QED
    BY <1>1, TaskInvariant, PTL DEF Spec, CycleTakesTwoEnds
=============================================================================
