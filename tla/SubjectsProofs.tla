--------------------------- MODULE SubjectsProofs ---------------------------
(***************************************************************************)
(* A property that has had a value keeps one, for any number of clients,   *)
(* operations, values and links that were there before.                    *)
(*                                                                         *)
(* Why: who removes a link has read it, so that what he puts in its place  *)
(* is signed no sooner, and inserted later.  Take the last row there ever  *)
(* was in the order of get_links().  Of those who removed it none can have *)
(* failed since: a request removes its links from the first on, so that    *)
(* the last row is its last as well, and nothing is left for the request   *)
(* to miss.  So the request is still under way, or it has added a later    *)
(* row.  The argument needs that a removal takes one row of the property,  *)
(* and Calm says so: no two of its rows were ever equal.                   *)
(*                                                                         *)
(* A request that is alone from its beginning to its end does exactly what *)
(* it was told to: what it has read is what there is, however many links   *)
(* earlier clients have left, until it has removed the last of them.       *)
(***************************************************************************)
EXTENDS Subjects, FiniteSetTheorems, WellFoundedInduction, TLAPS

-----------------------------------------------------------------------------
(* The inductive invariant.                                                *)

Requests == [kind : Kinds, of : Fields, values : Seq(Values \cup {Base})]

(* What a call may ask for.                                                *)
Asks(c, kind, f, vs) ==
    /\ kind = "purge" => does[c] = "remove"
    /\ f = "property" => \/ kind \in {"add", "set", "single"}
                         \/ kind = "remove" /\ does[c] = "delete"
    /\ kind \in {"set", "single"} => Len(vs) > 0

TodoOK ==
    /\ todo \in [Calls -> Seq(SUBSET Requests)]
    /\ \A c \in Calls : \A i \in DOMAIN todo[c] : \A r \in todo[c][i] :
          Asks(c, r.kind, r.of, r.values)

Later(x) == \E z \in had : Sooner(x, z)

(* Rows have numbers and times of the past.                                *)
OfPast(x) == x.at <= clock[x.of] /\ x.nr <= count[x.of]

(* Numbers tell the rows of a field apart.                                 *)
OneField(ls, f) ==
    /\ \A l \in ls : l.of = f
    /\ \A l, m \in ls : l.nr = m.nr => l = m

(* What a request has read is of its field, and of the past.               *)
TaskOK(t) ==
    LET task == tasks[t]
    IN  Busy(t) =>
        /\ Asks(t[1], task.kind, t[2], task.values)
        /\ \A l \in task.list : OfPast(l) /\ (l.of = "property" => l \in had)
        /\ task.kind # "purge" => OneField(task.list, t[2])
        /\ task.stage \in {"look", "delete"} =>
              task.kind \in {"set", "replace", "remove"} /\ task.list # {}
        /\ task.stage = "read" => task.kind # "add"
        /\ task.stage = "readTo" => task.kind = "purge"
        /\ task.stage = "drop" => task.kind \in {"single", "purge"}
        /\ task.kind = "purge" => task.stage \in {"read", "readTo", "drop"}
        /\ task.stage = "insert" =>
              /\ Len(task.times) = Len(task.values)
              /\ \A i \in DOMAIN task.times : task.times[i] <= clock[t[2]]
        /\ task.stage = "insert" /\ task.kind = "single" =>
              \A i \in DOMAIN task.times : \A l \in task.list : l.at <= task.times[i]
        /\ task.stage = "drop" /\ task.kind = "single" /\ t[2] = "property" =>
              \A l \in task.list : Later(l)

RowsOK ==
    /\ On("property") \subseteq had
    /\ \A x \in had : x.of = "property"
    /\ \A x \in links \cup had : OfPast(x)
    /\ \A x, y \in links \cup had : x.of = y.of /\ x.nr = y.nr => x = y

(* The request of t will put something later in the place of x.            *)
Replaces(t, x) ==
    LET task == tasks[t]
    IN  /\ t[2] = "property" /\ task.kind = "set"
        /\ \/ task.stage \in {"look", "delete"} /\ \A l \in task.list : Sooner(x, l)
           \/ task.stage = "sign"
           \/ task.stage = "insert" /\ \A i \in DOMAIN task.times : x.at <= task.times[i]

GoneReplaced ==
    Calm => \A x \in had \ links : Later(x) \/ \E t \in Tasks : Replaces(t, x)

Shape == TypeOK /\ TodoOK /\ (\A t \in Tasks : TaskOK(t)) /\ RowsOK

IInv == Shape /\ GoneReplaced

(* ... and, for a request that nobody else disturbs: it has read all there *)
(* is, and writes exactly what it was told to.                             *)
OneForEach(new, vs) == {n.is : n \in new} = Range(vs) /\ Cardinality(new) = Len(vs)

Alone(t) ==
    LET task == tasks[t]
        here == On(t[2])
    IN  task.alone =>
        /\ Busy(t) /\ \A u \in Tasks : Busy(u) => u = t
        /\ task.stage \in {"look", "delete"} =>
              /\ Distinct(task.list)
              /\ task.list = IF task.kind = "remove"
                             THEN {l \in here : l.is \in Range(task.values)} ELSE here
        /\ task.stage \in {"sign", "insert"} =>
              /\ task.kind # "remove"
              /\ task.kind \in {"set", "replace"} => here = {}
              /\ task.kind = "single" => here = task.list
        /\ task.stage = "readTo" => task.list = On("child")
        /\ task.stage = "drop" =>
              IF task.kind = "purge" THEN links \subseteq task.list
              ELSE \E new \in SUBSET here :
                      /\ here \subseteq task.list \cup new
                      /\ OneForEach(new, task.values)
                      /\ \A n \in new, l \in task.list : ~Same(n, l)

(* The steps of a call are finite.                                         *)
StepsFinite == \A c \in Calls : \A i \in DOMAIN todo[c] : IsFiniteSet(todo[c][i])

AloneInv == StepsFinite /\ \A t \in Tasks : Alone(t)

-----------------------------------------------------------------------------
(* Rows that come first or last in their set.                              *)

LEMMA LeastNumber ==
    ASSUME NEW S \in SUBSET Nat, S # {}
    PROVE  \E m \in S : \A k \in S : m <= k
<1>1. PICK m \in S : \A k \in S : ~ (<<k, m>> \in OpToRel(<, Nat))
  BY NatLessThanWellFounded, WFMin
<1>2. \A k \in S : ~ (k < m)
  BY <1>1 DEF OpToRel
<1> QED  BY <1>2

LEMMA EarliestOfSome ==
    ASSUME NEW S \in SUBSET Row, S # {}, \A l, m \in S : l.nr = m.nr => l = m
    PROVE  /\ Earliest(S) \in S
           /\ \A m \in S : Earliest(S) = m \/ Sooner(Earliest(S), m)
<1>1. \A l \in S : l.at \in Nat /\ l.nr \in Nat
  BY DEF Row
<1> DEFINE T == {l.at : l \in S}
<1>2. T \in SUBSET Nat /\ T # {}
  BY <1>1
<1>3. PICK a \in T : \A k \in T : a <= k
  <2> HIDE DEF T
  <2> QED  BY <1>2, LeastNumber
<1> DEFINE U == {l.nr : l \in {m \in S : m.at = a}}
<1>4. U \in SUBSET Nat /\ U # {}
  BY <1>1, <1>3
<1>5. PICK n \in U : \A k \in U : n <= k
  <2> HIDE DEF U
  <2> QED  BY <1>4, LeastNumber
<1>6. PICK l \in S : l.at = a /\ l.nr = n
  BY <1>5
<1>7. ASSUME NEW m \in S PROVE l = m \/ Sooner(l, m)
  <2>1. a <= m.at /\ (m.at = a => n <= m.nr)
    BY <1>3, <1>5
  <2>2. m.nr = n => l = m
    BY <1>6
  <2> QED  BY <1>1, <1>6, <2>1, <2>2 DEF Sooner
<1>8. \E e \in S : \A m \in S : e = m \/ Sooner(e, m)
  BY <1>6, <1>7
<1> QED  BY <1>8 DEF Earliest

LEMMA LatestOfSome ==
    ASSUME NEW S \in SUBSET Row, S # {}, NEW c \in Nat, NEW k \in Nat,
           \A l \in S : l.at <= c /\ l.nr <= k
    PROVE  \E l \in S : \A m \in S : ~Sooner(l, m)
<1>1. \A l \in S : l.at \in Nat /\ l.nr \in Nat
  BY DEF Row
<1> DEFINE T == {c - l.at : l \in S}
<1>2. T \in SUBSET Nat /\ T # {}
  BY <1>1
<1>3. PICK a \in T : \A i \in T : a <= i
  <2> HIDE DEF T
  <2> QED  BY <1>2, LeastNumber
<1> DEFINE U == {k - l.nr : l \in {m \in S : c - m.at = a}}
<1>4. U \in SUBSET Nat /\ U # {}
  BY <1>1, <1>3
<1>5. PICK n \in U : \A i \in U : n <= i
  <2> HIDE DEF U
  <2> QED  BY <1>4, LeastNumber
<1>6. PICK l \in S : c - l.at = a /\ k - l.nr = n
  BY <1>5
<1>7. ASSUME NEW m \in S PROVE ~Sooner(l, m)
  <2>1. a <= c - m.at /\ (c - m.at = a => n <= k - m.nr)
    BY <1>3, <1>5
  <2> QED  BY <1>1, <1>6, <2>1 DEF Sooner
<1> QED  BY <1>6, <1>7

-----------------------------------------------------------------------------
(* Shape.                                                                  *)

(* The times of signatures do not decrease, and the clock with them.       *)
LEMMA TimesGrow ==
    ASSUME NEW now \in Nat, NEW n \in Nat, NEW at \in Times(now, n)
    PROVE  /\ at \in Seq(Nat) /\ Len(at) = n
           /\ After(now, at) \in Nat /\ now <= After(now, at)
           /\ \A i \in DOMAIN at : now <= at[i] /\ at[i] <= After(now, at)
<1>1. /\ at \in [1 .. n -> now .. now + n]
      /\ \A i, j \in 1 .. n : i <= j => at[j] \in at[i] .. at[i] + j - i
  BY DEF Times
<1>2. \A i \in 1 .. n : at[i] \in Nat /\ now <= at[i]
  BY <1>1
<1>3. at \in Seq(Nat) /\ Len(at) = n /\ DOMAIN at = 1 .. n
  <2>1. at \in [1 .. n -> Nat]
    BY <1>1, <1>2
  <2> QED  BY <2>1
<1>4. CASE n = 0
  <2>1. at = <<>>
    BY <1>3, <1>4
  <2> QED  BY <1>3, <1>4, <2>1 DEF After
<1>5. CASE n > 0
  <2>1. After(now, at) = at[n] /\ n \in 1 .. n
    BY <1>3, <1>5 DEF After
  <2>2. \A i \in 1 .. n : at[n] \in at[i] .. at[i] + n - i
    BY <1>1, <2>1
  <2>3. \A i \in 1 .. n : at[i] <= at[n]
    BY <1>2, <2>1, <2>2
  <2> QED  BY <1>2, <1>3, <2>1, <2>3
<1> QED  BY <1>4, <1>5

LEMMA InitShape == Init => Shape
<1> SUFFICES ASSUME Init PROVE Shape
  OBVIOUS
<1>1. PICK n \in 0 .. Before : \E at \in Times(0, n) :
          /\ links = {[nr |-> i, at |-> at[i], of |-> "property", is |-> Initial] : i \in 1 .. n}
          /\ count = [f \in Fields |-> IF f = "property" THEN n ELSE 0]
          /\ clock = [f \in Fields |-> IF f = "property" THEN After(0, at) ELSE 0]
  BY DEF Init
<1>2. PICK at \in Times(0, n) :
          /\ links = {[nr |-> i, at |-> at[i], of |-> "property", is |-> Initial] : i \in 1 .. n}
          /\ count = [f \in Fields |-> IF f = "property" THEN n ELSE 0]
          /\ clock = [f \in Fields |-> IF f = "property" THEN After(0, at) ELSE 0]
  BY <1>1
<1>3. n \in Nat
  BY SubjectsAssumption
<1>4. /\ at \in Seq(Nat) /\ Len(at) = n /\ After(0, at) \in Nat
      /\ \A i \in 1 .. n : at[i] \in Nat /\ at[i] <= After(0, at)
  BY <1>3, TimesGrow
<1>5. /\ links \subseteq Row
      /\ \A x \in links : x.of = "property" /\ x.nr <= n /\ x.at <= After(0, at)
      /\ \A x, y \in links : x.nr = y.nr => x = y
  BY <1>2, <1>3, <1>4, SubjectsAssumption DEF Row, Fields
<1>6. count \in [Fields -> Nat] /\ clock \in [Fields -> Nat]
  BY <1>2, <1>3, <1>4
<1>7. had = links
  BY DEF Init
<1>8. TypeOK
  <2>1. Idle \in Task
    BY DEF Idle, Task, Stages, Kinds
  <2> QED  BY <1>5, <1>6, <1>7, <2>1, SubjectsAssumption DEF Init, TypeOK
<1>9. TodoOK
  BY DEF Init, TodoOK
<1>10. \A t \in Tasks : TaskOK(t)
  BY DEF Init, TaskOK, Busy, Idle
<1>11. RowsOK
  <2>1. count["property"] = n /\ clock["property"] = After(0, at)
    BY <1>2 DEF Fields
  <2> QED  BY <1>5, <1>7, <2>1 DEF RowsOK, OfPast, On
<1> QED  BY <1>8, <1>9, <1>10, <1>11 DEF Shape

(* What only grows.                                                        *)
Onward ==
    /\ had \subseteq had'
    /\ count' \in [Fields -> Nat] /\ clock' \in [Fields -> Nat]
    /\ \A f \in Fields : count[f] <= count'[f] /\ clock[f] <= clock'[f]

LEMMA PastStays ==
    ASSUME TypeOK, Onward, NEW x \in Row, OfPast(x)
    PROVE  OfPast(x)'
<1>1. x.of \in Fields /\ x.nr \in Nat /\ x.at \in Nat
  BY DEF Row
<1>2. /\ count[x.of] \in Nat /\ count'[x.of] \in Nat
      /\ clock[x.of] \in Nat /\ clock'[x.of] \in Nat
  BY <1>1 DEF TypeOK, Onward
<1> QED  BY <1>1, <1>2 DEF OfPast, Onward

(* A request that makes no step itself.                                    *)
LEMMA OtherTask ==
    ASSUME TypeOK, Onward, NEW u \in Tasks, TaskOK(u),
           tasks'[u] = [tasks[u] EXCEPT !.alone = tasks'[u].alone],
           does'[u[1]] = does[u[1]] \/ does[u[1]] = "none"
    PROVE  TaskOK(u)'
<1>1. tasks[u] \in Task /\ tasks[u].list \subseteq Row /\ u[2] \in Fields
  BY DEF TypeOK, Task, Tasks
<1>2. /\ tasks'[u].stage = tasks[u].stage /\ tasks'[u].kind = tasks[u].kind
      /\ tasks'[u].values = tasks[u].values /\ tasks'[u].list = tasks[u].list
      /\ tasks'[u].times = tasks[u].times
  BY <1>1 DEF Task
<1>3. \A l : Later(l) => Later(l)'
  BY DEF Later, Onward
<1>4. Asks(u[1], tasks[u].kind, u[2], tasks[u].values)
         => Asks(u[1], tasks[u].kind, u[2], tasks[u].values)'
  BY <1>2 DEF Asks
<1>5. ASSUME NEW l \in tasks[u].list, OfPast(l) /\ (l.of = "property" => l \in had)
      PROVE  OfPast(l)' /\ (l.of = "property" => l \in had')
  BY <1>1, <1>5, PastStays DEF Onward
<1>6. ASSUME NEW i \in DOMAIN tasks[u].times, tasks[u].times[i] <= clock[u[2]]
      PROVE  tasks[u].times[i] <= clock'[u[2]]
  <2>1. tasks[u].times[i] \in Nat
    BY <1>1 DEF Task
  <2>2. clock[u[2]] \in Nat /\ clock'[u[2]] \in Nat /\ clock[u[2]] <= clock'[u[2]]
    BY <1>1 DEF TypeOK, Onward
  <2> QED  BY <1>6, <2>1, <2>2
<1>7. CASE ~Busy(u)
  BY <1>2, <1>7 DEF TaskOK, Busy
<1>8. CASE Busy(u)
  <2>1. /\ Asks(u[1], tasks[u].kind, u[2], tasks[u].values)'
        /\ \A l \in tasks[u].list : OfPast(l)' /\ (l.of = "property" => l \in had')
    BY <1>4, <1>5, <1>8 DEF TaskOK
  <2>2. tasks[u].stage = "insert" =>
          \A i \in DOMAIN tasks[u].times : tasks[u].times[i] <= clock'[u[2]]
    BY <1>6, <1>8 DEF TaskOK
  <2>3. tasks[u].stage = "drop" /\ tasks[u].kind = "single" /\ u[2] = "property" =>
          \A l \in tasks[u].list : Later(l)'
    BY <1>3, <1>8 DEF TaskOK
  <2> QED  BY <1>2, <1>8, <2>1, <2>2, <2>3 DEF TaskOK, Busy, Asks
<1> QED  BY <1>7, <1>8

(* A step of one request.                                                  *)
LEMMA OneTask ==
    ASSUME Shape, Onward, NEW t \in Tasks, NEW task \in Task,
           tasks' = [tasks EXCEPT ![t] = task],
           links' \subseteq Row, had' \subseteq Row, does' = does, restarts' = restarts,
           todo' = todo \/ todo' = [todo EXCEPT ![t[1]] = <<>>],
           TaskOK(t)', RowsOK'
    PROVE  Shape'
<1>1. TypeOK'
  BY DEF Shape, TypeOK, Onward
<1>2. TodoOK'
  <2>1. CASE todo' = todo
    BY <2>1 DEF Shape, TodoOK, Asks
  <2>2. CASE todo' = [todo EXCEPT ![t[1]] = <<>>]
    <3>1. todo' \in [Calls -> Seq(SUBSET Requests)]
      <4>1. <<>> \in Seq(SUBSET Requests) /\ t[1] \in Calls
        BY DEF Tasks
      <4> QED  BY <2>2, <4>1 DEF Shape, TodoOK
    <3>2. \A c \in Calls : todo'[c] = todo[c] \/ todo'[c] = <<>>
      BY <2>2 DEF Shape, TodoOK
    <3>3. \A c \in Calls : \A i \in DOMAIN todo'[c] : i \in DOMAIN todo[c] /\ todo'[c][i] = todo[c][i]
      BY <3>2
    <3> QED  BY <3>1, <3>3 DEF Shape, TodoOK, Asks
  <2> QED  BY <2>1, <2>2
<1>3. ASSUME NEW u \in Tasks PROVE TaskOK(u)'
  <2>1. CASE u = t
    BY <2>1
  <2>2. CASE u # t
    <3>1. tasks'[u] = tasks[u]
      BY <2>2 DEF Shape, TypeOK
    <3>2. tasks'[u] = [tasks[u] EXCEPT !.alone = tasks'[u].alone]
      BY <3>1 DEF Shape, TypeOK, Task
    <3> QED  BY <3>2, OtherTask DEF Shape
  <2> QED  BY <2>1, <2>2
<1> QED  BY <1>1, <1>2, <1>3 DEF Shape

(* A step that inserts nothing and signs nothing.                          *)
LEMMA SameRows ==
    ASSUME Shape, links' \subseteq links, had' = had, count' = count, clock' = clock
    PROVE  /\ Onward /\ RowsOK'
           /\ links' \subseteq Row /\ had' \subseteq Row
<1>1. Onward
  BY DEF Onward, Shape, TypeOK
<1>2. RowsOK'
  BY DEF Shape, RowsOK, OfPast, On
<1> QED  BY <1>1, <1>2 DEF Shape, TypeOK

LEMMA IdleOK ==
    /\ Idle \in Task
    /\ \A t \in Tasks : tasks[t] = Idle => TaskOK(t)
BY DEF Idle, Task, Stages, Kinds, TaskOK, Busy

LEMMA EndShape ==
    ASSUME Shape, NEW t \in Tasks, tasks' = [tasks EXCEPT ![t] = Idle],
           links' \subseteq links, had' = had, count' = count, clock' = clock,
           does' = does, restarts' = restarts,
           todo' = todo \/ todo' = [todo EXCEPT ![t[1]] = <<>>]
    PROVE  Shape'
<1>1. tasks'[t] = Idle
  BY DEF Shape, TypeOK
<1>2. TaskOK(t)'
  BY <1>1 DEF TaskOK, Busy, Idle
<1>3. /\ Onward /\ RowsOK'
      /\ links' \subseteq Row /\ had' \subseteq Row
  BY SameRows
<1>4. Idle \in Task
  BY IdleOK
<1> QED  BY <1>2, <1>3, <1>4, OneTask

(* A step that changes what has been read or the stage, and signs nothing. *)
LEMMA MoveShape ==
    ASSUME Shape, NEW t \in Tasks, NEW ls \in SUBSET Row, NEW stage \in Stages,
           NEW alone \in BOOLEAN,
           tasks' = [tasks EXCEPT ![t] =
              [tasks[t] EXCEPT !.list = ls, !.stage = stage, !.alone = alone]],
           links' \subseteq links, had' = had, count' = count, clock' = clock,
           does' = does, restarts' = restarts, todo' = todo,
           Busy(t), stage \notin {"idle", "read", "insert"},
           \A l \in ls : OfPast(l) /\ (l.of = "property" => l \in had),
           tasks[t].kind # "purge" => OneField(ls, t[2]),
           stage \in {"look", "delete"} =>
              tasks[t].kind \in {"set", "replace", "remove"} /\ ls # {},
           stage = "readTo" => tasks[t].kind = "purge",
           tasks[t].kind = "purge" => stage \in {"readTo", "drop"},
           stage = "drop" => \/ tasks[t].kind = "purge"
                             \/ /\ tasks[t].kind = "single"
                                /\ t[2] = "property" => \A l \in ls : Later(l)
    PROVE  Shape'
<1> DEFINE task == [tasks[t] EXCEPT !.list = ls, !.stage = stage, !.alone = alone]
<1>1. tasks[t] \in Task /\ TaskOK(t)
  BY DEF Shape, TypeOK
<1>2. task \in Task
  BY <1>1 DEF Task
<1>3. /\ Onward /\ RowsOK'
      /\ links' \subseteq Row /\ had' \subseteq Row
  BY SameRows
<1>4. TaskOK(t)'
  <2>1. tasks'[t] = task
    BY DEF Shape, TypeOK
  <2>2. /\ tasks'[t].kind = tasks[t].kind /\ tasks'[t].values = tasks[t].values
        /\ tasks'[t].list = ls /\ tasks'[t].stage = stage
    <3>1. /\ task.kind = tasks[t].kind /\ task.values = tasks[t].values
          /\ task.list = ls /\ task.stage = stage
      BY <1>1 DEF Task
    <3> HIDE DEF task
    <3> QED  BY <2>1, <3>1
  <2>3. \A l \in ls : /\ Later(l) => Later(l)'
                      /\ OfPast(l) => OfPast(l)'
    BY DEF Later, OfPast
  <2>4. Asks(t[1], tasks[t].kind, t[2], tasks[t].values)'
    BY <1>1, <2>2 DEF TaskOK, Asks
  <2> QED  BY <2>2, <2>3, <2>4 DEF TaskOK, Busy, Asks
<1> HIDE DEF task
<1>5. tasks' = [tasks EXCEPT ![t] = task]
  BY DEF task
<1> QED  BY <1>2, <1>3, <1>4, <1>5, OneTask

LEMMA ReadShape ==
    ASSUME Shape, NEW t \in Tasks, Read(t)
    PROVE  Shape'
<1> DEFINE task == tasks[t]
           list == CASE task.kind = "remove" -> {l \in On(t[2]) : l.is \in Range(task.values)}
                     [] task.kind = "purge"  -> On("child")
                     [] OTHER                -> On(t[2])
           to   == IF task.kind = "purge" THEN "readTo"
                   ELSE AfterReading(task.kind, list)
           only == task.alone /\ (to = "look" => Distinct(list))
<1>1. /\ tasks[t] \in Task /\ links \subseteq Row /\ TaskOK(t) /\ Busy(t)
      /\ tasks \in [Tasks -> Task]
      /\ links' = links /\ had' = had /\ count' = count /\ clock' = clock /\ does' = does
      /\ restarts' = restarts /\ todo' = todo
  BY DEF Shape, TypeOK, Read, At, Busy, table
<1>2. /\ list \in SUBSET links
      /\ task.kind # "purge" => OneField(list, t[2])
  <2>1. list \in SUBSET links /\ (task.kind # "purge" => \A l \in list : l.of = t[2])
    BY DEF On
  <2> HIDE DEF list
  <2> QED  BY <2>1 DEF Shape, RowsOK, OneField
<1>3. \A l \in links : OfPast(l) /\ (l.of = "property" => l \in had)
  BY DEF Shape, RowsOK, On
<1>4. to \in Stages /\ only \in BOOLEAN
  BY <1>1 DEF AfterReading, Stages, Distinct, Task
<1>5. CASE to = "idle"
  <2>1. tasks' = [tasks EXCEPT ![t] = Idle]
    BY <1>5 DEF Read
  <2> QED  BY <1>1, <2>1, EndShape
<1>6. CASE to # "idle"
  <2>1. tasks' = [tasks EXCEPT ![t] =
                    [tasks[t] EXCEPT !.list = list, !.stage = to, !.alone = only]]
    BY <1>1, <1>6 DEF Read
  <2>2. /\ task.kind = "purge" => to = "readTo"
        /\ task.kind # "purge" => to \in {"sign", "look"}
        /\ to = "look" => task.kind \in {"set", "replace", "remove"} /\ list # {}
    <3>1. task.kind # "add"
      BY <1>1 DEF TaskOK, Read, At
    <3>2. task.kind \in Kinds
      BY <1>1 DEF Task
    <3> HIDE DEF list
    <3> QED  BY <1>6, <3>1, <3>2 DEF AfterReading, Kinds
  <2> HIDE DEF list, to, only
  <2> QED  BY <1>1, <1>2, <1>3, <1>4, <2>1, <2>2, MoveShape
<1> QED  BY <1>5, <1>6

LEMMA ReadOwnShape ==
    ASSUME Shape, NEW t \in Tasks, ReadOwn(t)
    PROVE  Shape'
<1> DEFINE list == tasks[t].list \cup (links \ On("child"))
<1>1. /\ tasks[t] \in Task /\ links \subseteq Row /\ TaskOK(t) /\ Busy(t)
      /\ tasks \in [Tasks -> Task] /\ tasks[t].kind = "purge"
      /\ links' = links /\ had' = had /\ count' = count /\ clock' = clock /\ does' = does
      /\ restarts' = restarts /\ todo' = todo
  BY DEF Shape, TypeOK, ReadOwn, At, Busy, TaskOK, table
<1>2. list \in SUBSET Row /\ "drop" \in Stages /\ tasks[t].alone \in BOOLEAN
  BY <1>1 DEF Task, Stages
<1>3. \A l \in list : OfPast(l) /\ (l.of = "property" => l \in had)
  BY <1>1 DEF TaskOK, Shape, RowsOK, On
<1>4. CASE list = {}
  <2>1. tasks' = [tasks EXCEPT ![t] = Idle]
    BY <1>4 DEF ReadOwn
  <2> QED  BY <1>1, <2>1, EndShape
<1>5. CASE list # {}
  <2>1. tasks' = [tasks EXCEPT ![t] =
           [tasks[t] EXCEPT !.list = list, !.stage = "drop", !.alone = tasks[t].alone]]
    <3>1. tasks' = [tasks EXCEPT ![t] = [tasks[t] EXCEPT !.list = list, !.stage = "drop"]]
      BY <1>5 DEF ReadOwn
    <3>2. [tasks[t] EXCEPT !.list = list, !.stage = "drop"]
            = [tasks[t] EXCEPT !.list = list, !.stage = "drop", !.alone = tasks[t].alone]
      BY <1>1 DEF Task
    <3> QED  BY <3>1, <3>2
  <2> HIDE DEF list
  <2> QED  BY <1>1, <1>2, <1>3, <2>1, MoveShape
<1> QED  BY <1>4, <1>5

LEMMA LookShape ==
    ASSUME Shape, NEW t \in Tasks, Look(t)
    PROVE  Shape'
<1>1. /\ tasks[t] \in Task /\ TaskOK(t) /\ Busy(t)
      /\ tasks \in [Tasks -> Task] /\ tasks[t].stage = "look"
      /\ links' = links /\ had' = had /\ count' = count /\ clock' = clock /\ does' = does
      /\ restarts' = restarts
  BY DEF Shape, TypeOK, Look, At, Busy, table
<1>2. CASE \E m \in links : Same(m, Earliest(tasks[t].list))
  <2>1. tasks' = [tasks EXCEPT ![t] =
           [tasks[t] EXCEPT !.list = tasks[t].list, !.stage = "delete", !.alone = tasks[t].alone]]
    BY <1>1, <1>2 DEF Look, Goto, Task
  <2>2. /\ tasks[t].list \in SUBSET Row /\ "delete" \in Stages /\ tasks[t].alone \in BOOLEAN
        /\ tasks[t].kind \in {"set", "replace", "remove"} /\ tasks[t].list # {}
        /\ OneField(tasks[t].list, t[2])
        /\ \A l \in tasks[t].list : OfPast(l) /\ (l.of = "property" => l \in had)
    BY <1>1 DEF TaskOK, Stages, Task
  <2>3. todo' = todo
    BY <1>2 DEF Look
  <2> QED  BY <1>1, <2>1, <2>2, <2>3, MoveShape
<1>3. CASE ~ \E m \in links : Same(m, Earliest(tasks[t].list))
  BY <1>1, <1>3, EndShape DEF Look, End
<1> QED  BY <1>2, <1>3

LEMMA DeleteShape ==
    ASSUME Shape, NEW t \in Tasks, Delete(t)
    PROVE  Shape'
<1> DEFINE l    == Earliest(tasks[t].list)
           left == tasks[t].list \ {l}
           to   == IF left # {} THEN "look"
                   ELSE IF tasks[t].kind = "remove" THEN "idle" ELSE "sign"
<1>1. /\ tasks[t] \in Task /\ TaskOK(t) /\ Busy(t)
      /\ tasks \in [Tasks -> Task]
      /\ links' \subseteq links /\ had' = had /\ count' = count /\ clock' = clock /\ does' = does
      /\ restarts' = restarts /\ todo' = todo
  BY DEF Shape, TypeOK, Delete, At, Busy, Without
<1>2. /\ left \in SUBSET Row /\ to \in Stages /\ tasks[t].alone \in BOOLEAN
      /\ \A m \in left : OfPast(m) /\ (m.of = "property" => m \in had)
  BY <1>1 DEF TaskOK, Stages, Task
<1>3. CASE to = "idle"
  <2>1. tasks' = [tasks EXCEPT ![t] = Idle]
    BY <1>3 DEF Delete
  <2> QED  BY <1>1, <2>1, EndShape
<1>4. CASE to # "idle"
  <2>1. tasks' = [tasks EXCEPT ![t] = [tasks[t] EXCEPT !.list = left, !.stage = to]]
    BY <1>4 DEF Delete
  <2>2. to \in {"look", "sign"} /\ (to = "look" => left # {})
    BY <1>4
  <2>3. /\ tasks[t].kind \in {"set", "replace", "remove"}
        /\ OneField(left, t[2])
    BY <1>1 DEF TaskOK, Delete, At, OneField
  <2> HIDE DEF l, left, to
  <2>4. tasks' = [tasks EXCEPT ![t] =
           [tasks[t] EXCEPT !.list = left, !.stage = to, !.alone = tasks[t].alone]]
    <3>1. [tasks[t] EXCEPT !.list = left, !.stage = to]
            = [tasks[t] EXCEPT !.list = left, !.stage = to, !.alone = tasks[t].alone]
      BY <1>1 DEF Task
    <3> QED  BY <2>1, <3>1
  <2> QED  BY <1>1, <1>2, <2>2, <2>3, <2>4, MoveShape
<1> QED  BY <1>3, <1>4

LEMMA SignShape ==
    ASSUME Shape, NEW t \in Tasks, Sign(t)
    PROVE  /\ Shape'
           /\ \A i \in DOMAIN tasks'[t].times : clock[t[2]] <= tasks'[t].times[i]
<1> DEFINE f == t[2]
<1>1. /\ tasks[t] \in Task /\ TaskOK(t) /\ Busy(t)
      /\ tasks \in [Tasks -> Task] /\ tasks[t].stage = "sign"
      /\ f \in Fields /\ clock \in [Fields -> Nat] /\ clock[f] \in Nat
      /\ Len(tasks[t].values) \in Nat
      /\ links' = links /\ had' = had /\ count' = count /\ does' = does
      /\ restarts' = restarts /\ todo' = todo
  BY DEF Shape, TypeOK, Sign, At, Busy, Tasks, Task, table
<1>2. PICK at \in Times(clock[f], Len(tasks[t].values)) :
         /\ tasks' = [tasks EXCEPT ![t].times = at, ![t].stage = "insert"]
         /\ clock' = [clock EXCEPT ![f] = After(clock[f], at)]
  BY <1>1 DEF Sign
<1>3. /\ at \in Seq(Nat) /\ Len(at) = Len(tasks[t].values)
      /\ After(clock[f], at) \in Nat /\ clock[f] <= After(clock[f], at)
      /\ \A i \in DOMAIN at : clock[f] <= at[i] /\ at[i] <= After(clock[f], at)
  <2> HIDE DEF f
  <2> QED  BY <1>1, TimesGrow
<1> DEFINE task == [tasks[t] EXCEPT !.times = at, !.stage = "insert"]
<1>4. tasks' = [tasks EXCEPT ![t] = task] /\ tasks'[t] = task /\ task \in Task
  BY <1>1, <1>2, <1>3 DEF Task, Stages
<1>5. /\ task.times = at /\ task.stage = "insert" /\ task.kind = tasks[t].kind
      /\ task.values = tasks[t].values /\ task.list = tasks[t].list
  BY <1>1 DEF Task
<1>6. /\ clock' \in [Fields -> Nat] /\ clock'[f] = After(clock[f], at)
      /\ \A g \in Fields : clock[g] <= clock'[g]
  BY <1>1, <1>2, <1>3
<1>7. Onward
  BY <1>1, <1>6 DEF Onward, Shape, TypeOK
<1> HIDE DEF task
<1>8. TaskOK(t)'
  <2>1. \A l \in tasks[t].list : l \in Row /\ OfPast(l) /\ (l.of = "property" => l \in had)
    BY <1>1 DEF TaskOK, Task
  <2>2. \A l \in tasks[t].list : OfPast(l)'
    BY <1>7, <2>1, PastStays DEF Shape
  <2>3. tasks[t].kind # "purge" /\ \A l \in tasks[t].list : l.of = f
    BY <1>1 DEF TaskOK, OneField
  <2>4. \A l \in tasks[t].list, i \in DOMAIN at : l.at <= at[i]
    <3>1. \A l \in tasks[t].list : l.at \in Nat /\ l.at <= clock[f]
      BY <2>1, <2>3 DEF OfPast, Row
    <3>2. \A i \in DOMAIN at : at[i] \in Nat /\ clock[f] <= at[i]
      BY <1>3
    <3> QED  BY <1>1, <3>1, <3>2
  <2>5. Asks(t[1], tasks[t].kind, f, tasks[t].values)'
    BY <1>1, <1>4, <1>5 DEF TaskOK, Asks
  <2> QED  BY <1>1, <1>3, <1>4, <1>5, <1>6, <2>1, <2>2, <2>3, <2>4, <2>5 DEF TaskOK, Busy, Asks
<1>9. RowsOK'
  <2>1. \A x \in links \cup had : x \in Row /\ OfPast(x)
    BY DEF Shape, TypeOK, RowsOK
  <2>2. \A x \in links \cup had : OfPast(x)'
    BY <1>7, <2>1, PastStays DEF Shape
  <2> QED  BY <1>1, <2>2 DEF Shape, RowsOK, On
<1>10. links' \subseteq Row /\ had' \subseteq Row
  BY <1>1 DEF Shape, TypeOK
<1>11. Shape'
  BY <1>1, <1>4, <1>7, <1>8, <1>9, <1>10, OneTask
<1> QED  BY <1>3, <1>4, <1>5, <1>11

(* The rows that a request inserts: one for each of its values, in the     *)
(* order of these, behind what the table has.                              *)
LEMMA RowsToCome ==
    ASSUME Shape, NEW t \in Tasks, tasks[t].stage = "insert"
    PROVE  /\ NewRows(t) \subseteq Row
           /\ \A n \in NewRows(t) :
                 /\ n.of = t[2]
                 /\ count[t[2]] < n.nr /\ n.nr <= count[t[2]] + Len(tasks[t].values)
                 /\ n.at <= clock[t[2]]
                 /\ \E i \in DOMAIN tasks[t].times : n.at = tasks[t].times[i]
           /\ \A n, m \in NewRows(t) : n.nr = m.nr => n = m
           /\ Len(tasks[t].values) > 0 => NewRows(t) # {}
<1> DEFINE vs == tasks[t].values
           at == tasks[t].times
           k  == count[t[2]]
<1>1. /\ vs \in Seq(Values \cup {Base}) /\ at \in Seq(Nat) /\ Len(at) = Len(vs)
      /\ t[2] \in Fields /\ k \in Nat
      /\ \A i \in DOMAIN at : at[i] <= clock[t[2]]
  BY DEF Shape, TypeOK, TaskOK, Busy, Tasks, Task
<1>2. NewRows(t) = {[nr |-> k + i, at |-> at[i], of |-> t[2], is |-> vs[i]] : i \in DOMAIN vs}
  BY DEF NewRows
<1>3. DOMAIN vs = 1 .. Len(vs) /\ DOMAIN at = 1 .. Len(vs) /\ Len(vs) \in Nat
  BY <1>1
<1>4. \A i \in 1 .. Len(vs) : at[i] \in Nat /\ vs[i] \in Values \cup {Base} /\ i \in Nat /\ i > 0
  BY <1>1, <1>3
<1> HIDE DEF vs, at, k
<1>5. NewRows(t) \subseteq Row
  BY <1>1, <1>2, <1>3, <1>4 DEF Row
<1>6. ASSUME NEW n \in NewRows(t)
      PROVE  /\ n.of = t[2] /\ k < n.nr /\ n.nr <= k + Len(vs) /\ n.at <= clock[t[2]]
             /\ \E i \in DOMAIN at : n.at = at[i]
  BY <1>1, <1>2, <1>3, <1>4
<1>7. \A n, m \in NewRows(t) : n.nr = m.nr => n = m
  BY <1>1, <1>2, <1>3, <1>4
<1>8. ASSUME Len(vs) > 0 PROVE NewRows(t) # {}
  <2>1. 1 \in DOMAIN vs
    BY <1>3, <1>8
  <2> QED  BY <1>2, <2>1
<1> QED  BY <1>5, <1>6, <1>7, <1>8 DEF vs, at, k

LEMMA InsertShape ==
    ASSUME Shape, NEW t \in Tasks, Insert(t)
    PROVE  Shape'
<1> DEFINE f    == t[2]
           new  == NewRows(t)
           k    == Len(tasks[t].values)
           only == tasks[t].alone /\ \A n \in new, l \in tasks[t].list : ~Same(n, l)
           task == IF tasks[t].kind = "single" /\ tasks[t].list # {}
                   THEN [tasks[t] EXCEPT !.stage = "drop", !.alone = only] ELSE Idle
<1>1. /\ tasks[t] \in Task /\ TaskOK(t) /\ Busy(t) /\ RowsOK
      /\ tasks \in [Tasks -> Task] /\ tasks[t].stage = "insert"
      /\ links \subseteq Row /\ had \subseteq Row
      /\ f \in Fields /\ count \in [Fields -> Nat] /\ k \in Nat /\ clock \in [Fields -> Nat]
  BY DEF Shape, TypeOK, Insert, At, Busy, Tasks, Task
<1>2. /\ links' = links \cup new
      /\ had' = IF f = "property" THEN had \cup new ELSE had
      /\ count' = [count EXCEPT ![f] = count[f] + k]
      /\ clock' = clock /\ does' = does /\ restarts' = restarts /\ todo' = todo
  BY <1>1 DEF Insert
<1>3. tasks' = [tasks EXCEPT ![t] = task] /\ tasks'[t] = task
  BY <1>1 DEF Insert, End
<1>4. task \in Task
  BY <1>1, IdleOK DEF Task, Stages, Same
<1>5. /\ new \subseteq Row
      /\ \A n \in new : /\ n.of = f /\ count[f] < n.nr /\ n.nr <= count[f] + k
                        /\ n.at <= clock[f]
                        /\ \E i \in DOMAIN tasks[t].times : n.at = tasks[t].times[i]
      /\ \A n, m \in new : n.nr = m.nr => n = m
      /\ k > 0 => new # {}
  BY <1>1, RowsToCome
<1>6. count[f] \in Nat /\ count'[f] = count[f] + k /\ clock[f] \in Nat
  BY <1>1, <1>2
<1>7. Onward
  BY <1>1, <1>2, <1>6 DEF Onward
<1> HIDE DEF new, k
<1>8. TaskOK(t)'
  <2>1. CASE tasks[t].kind = "single" /\ tasks[t].list # {}
    <3>1. /\ task.stage = "drop" /\ task.kind = "single"
          /\ task.values = tasks[t].values /\ task.list = tasks[t].list
      BY <1>1, <2>1 DEF Task
    <3>2. PICK n \in new : TRUE
      BY <1>1, <1>5, <2>1 DEF TaskOK, Asks, k
    <3>3. \A l \in tasks[t].list :
             l \in Row /\ OfPast(l) /\ l.of = f /\ (l.of = "property" => l \in had)
      BY <1>1, <2>1 DEF TaskOK, Task, OneField
    <3>4. \A l \in tasks[t].list : Sooner(l, n)
      <4>1. \A l \in tasks[t].list : l.at <= n.at
        BY <1>1, <1>5, <2>1 DEF TaskOK
      <4>2. \A l \in tasks[t].list : l.nr <= count[f] /\ l.nr \in Nat /\ l.at \in Nat
        BY <3>3 DEF OfPast, Row
      <4>3. count[f] < n.nr /\ n.nr \in Nat /\ n.at \in Nat
        BY <1>5 DEF Row
      <4> QED  BY <1>6, <4>1, <4>2, <4>3 DEF Sooner
    <3>5. f = "property" => \A l \in tasks[t].list : Later(l)'
      BY <1>2, <3>4 DEF Later
    <3>6. \A l \in tasks[t].list : OfPast(l)' /\ (l.of = "property" => l \in had')
      BY <1>2, <1>7, <3>3, PastStays DEF Shape
    <3> HIDE DEF task
    <3>7. Asks(t[1], tasks[t].kind, f, tasks[t].values)'
      <4>1. tasks'[t].kind = tasks[t].kind /\ tasks'[t].values = tasks[t].values
        BY <1>3, <3>1, <2>1
      <4>2. Asks(t[1], tasks[t].kind, f, tasks[t].values)
        BY <1>1 DEF TaskOK
      <4> QED  BY <1>2, <4>1, <4>2 DEF Asks
    <3>8. OneField(tasks[t].list, f)
      BY <1>1, <2>1 DEF TaskOK
    <3> QED  BY <1>3, <2>1, <3>1, <3>5, <3>6, <3>7, <3>8 DEF TaskOK, Busy, OneField
  <2>2. CASE ~(tasks[t].kind = "single" /\ tasks[t].list # {})
    BY <1>3, <2>2 DEF TaskOK, Busy, Idle
  <2> QED  BY <2>1, <2>2
<1> HIDE DEF task
<1>9. RowsOK'
  <2>1. On("property")' \subseteq had'
    BY <1>1, <1>2, <1>5 DEF RowsOK, On
  <2>2. \A x \in had' : x.of = "property"
    BY <1>1, <1>2, <1>5 DEF RowsOK
  <2>3. \A x \in links' \cup had' : x \in links \cup had \/ x \in new
    BY <1>2
  <2>4. \A x \in links \cup had : x \in Row /\ OfPast(x)
    BY <1>1 DEF RowsOK
  <2>5. \A x \in links \cup had : OfPast(x)'
    BY <1>7, <2>4, PastStays DEF Shape
  <2>6. \A x \in new : OfPast(x)'
    BY <1>2, <1>5, <1>6 DEF OfPast
  <2>7. \A x \in links \cup had, y \in new : x.of = y.of => x.nr # y.nr
    <3>1. \A x \in links \cup had : x.of = f => x.nr <= count[f] /\ x.nr \in Nat
      BY <2>4 DEF OfPast, Row
    <3>2. \A y \in new : y.of = f /\ count[f] < y.nr /\ y.nr \in Nat
      BY <1>5 DEF Row
    <3> QED  BY <1>6, <3>1, <3>2
  <2>8. \A x, y \in links' \cup had' : x.of = y.of /\ x.nr = y.nr => x = y
    BY <1>1, <1>5, <2>3, <2>7 DEF RowsOK
  <2> QED  BY <2>1, <2>2, <2>3, <2>5, <2>6, <2>8 DEF RowsOK
<1>10. links' \subseteq Row /\ had' \subseteq Row
  BY <1>1, <1>2, <1>5
<1> QED  BY <1>2, <1>3, <1>4, <1>7, <1>8, <1>9, <1>10, OneTask

LEMMA DropShape ==
    ASSUME Shape, NEW t \in Tasks, Drop(t)
    PROVE  Shape'
<1>1. /\ tasks[t] \in Task /\ TaskOK(t) /\ Busy(t)
      /\ tasks \in [Tasks -> Task] /\ tasks[t].stage = "drop"
  BY DEF Shape, TypeOK, Drop, At, Busy
<1>2. PICK l \in tasks[t].list :
         LET left == tasks[t].list \ {l}
         IN  /\ links' = Without(l)
             /\ tasks' = [tasks EXCEPT ![t] =
                    IF left = {} THEN Idle ELSE [tasks[t] EXCEPT !.list = left]]
  BY DEF Drop
<1> DEFINE left == tasks[t].list \ {l}
<1>3. /\ had' = had /\ count' = count /\ clock' = clock /\ does' = does /\ restarts' = restarts
      /\ todo' = todo /\ links' \subseteq links
  BY <1>2 DEF Drop, Without
<1>4. CASE left = {}
  BY <1>2, <1>3, <1>4, EndShape
<1>5. CASE left # {}
  <2>1. tasks' = [tasks EXCEPT ![t] =
           [tasks[t] EXCEPT !.list = left, !.stage = "drop", !.alone = tasks[t].alone]]
    <3>1. tasks' = [tasks EXCEPT ![t] = [tasks[t] EXCEPT !.list = left]]
      BY <1>2, <1>5
    <3>2. [tasks[t] EXCEPT !.list = left]
            = [tasks[t] EXCEPT !.list = left, !.stage = "drop", !.alone = tasks[t].alone]
      BY <1>1 DEF Task
    <3> QED  BY <3>1, <3>2
  <2>2. /\ left \in SUBSET Row /\ "drop" \in Stages /\ tasks[t].alone \in BOOLEAN
        /\ \A m \in left : OfPast(m) /\ (m.of = "property" => m \in had)
        /\ tasks[t].kind # "purge" => OneField(left, t[2])
        /\ \/ tasks[t].kind = "purge"
           \/ /\ tasks[t].kind = "single"
              /\ t[2] = "property" => \A m \in left : Later(m)
    BY <1>1 DEF TaskOK, Stages, Task, OneField
  <2> HIDE DEF left
  <2> QED  BY <1>1, <1>3, <2>1, <2>2, MoveShape
<1> QED  BY <1>4, <1>5

(* What Asks says of the requests of an operation.                         *)
LEMMA ProgramAsks ==
    ASSUME NEW op \in AllOperations, NEW v \in Values, NEW w \in Values
    PROVE  /\ Program(op, v, w) \in Seq(SUBSET Requests)
           /\ \A i \in DOMAIN Program(op, v, w) : \A r \in Program(op, v, w)[i] :
                 /\ r.kind = "purge" => op = "remove"
                 /\ r.of = "property" => \/ r.kind \in {"add", "set", "single"}
                                         \/ r.kind = "remove" /\ op = "delete"
                 /\ r.kind \in {"set", "single"} => Len(r.values) > 0
<1> DEFINE Fit(r) == /\ r \in Requests
                     /\ r.kind = "purge" => op = "remove"
                     /\ r.of = "property" => \/ r.kind \in {"add", "set", "single"}
                                             \/ r.kind = "remove" /\ op = "delete"
                     /\ r.kind \in {"set", "single"} => Len(r.values) > 0
           Fits(s) == \A r \in s : Fit(r)
<1>1. \A x, y \in Values \cup {Base} :
         /\ <<>> \in Seq(Values \cup {Base})
         /\ <<x>> \in Seq(Values \cup {Base}) /\ Len(<<x>>) = 1
         /\ <<x, y>> \in Seq(Values \cup {Base})
  OBVIOUS
<1>2. Initial \in Values
  BY SubjectsAssumption
<1>3. /\ Fit(Construct) /\ Fit(Connect) /\ Fit(Set(v)) /\ Fit(Add(v))
      /\ Fit(Replace(<<v>>)) /\ Fit(Replace(<<v, w>>))
  BY <1>1, <1>2
  DEF Construct, Connect, Set, Add, Replace, Request, Requests, Kinds, Fields
<1>4. /\ Fit(Request("single", "property", <<v>>))
      /\ Fit(Request("remove", "collection", <<v>>))
      /\ op = "delete" => Fit(Request("remove", "property", <<Initial>>))
      /\ op = "remove" => Fit(Request("purge", "child", <<>>))
  BY <1>1, <1>2 DEF Request, Requests, Kinds, Fields
<1> HIDE DEF Fit
<1>5. ASSUME NEW a, NEW b, NEW c, NEW d
      PROVE  /\ Fits(a) => << a >> \in Seq(SUBSET Requests)
                           /\ \A i \in DOMAIN << a >> : Fits(<< a >>[i])
             /\ Fits(a) /\ Fits(b) =>
                   /\ << a, b >> \in Seq(SUBSET Requests)
                   /\ \A i \in DOMAIN << a, b >> : Fits(<< a, b >>[i])
             /\ Fits(a) /\ Fits(b) /\ Fits(c) =>
                   /\ << a, b, c >> \in Seq(SUBSET Requests)
                   /\ \A i \in DOMAIN << a, b, c >> : Fits(<< a, b, c >>[i])
             /\ Fits(a) /\ Fits(b) /\ Fits(c) /\ Fits(d) =>
                   /\ << a, b, c, d >> \in Seq(SUBSET Requests)
                   /\ \A i \in DOMAIN << a, b, c, d >> : Fits(<< a, b, c, d >>[i])
  <2>1. \A s : Fits(s) => s \in SUBSET Requests
    BY DEF Fit
  <2> HIDE DEF Fits
  <2> QED  BY <2>1
<1> DEFINE Good(p) == p \in Seq(SUBSET Requests) /\ \A i \in DOMAIN p : Fits(p[i])
<1>6. /\ Fits({Construct}) /\ Fits({Connect}) /\ Fits({Set(v)}) /\ Fits({Add(v)})
      /\ Fits({Replace(<<v>>)}) /\ Fits({Replace(<<v, w>>)}) /\ Fits({Set(v), Add(v)})
      /\ Fits({Request("single", "property", <<v>>)})
      /\ Fits({Request("remove", "collection", <<v>>)})
      /\ op = "delete" => Fits({Request("remove", "property", <<Initial>>)})
      /\ op = "remove" => Fits({Request("purge", "child", <<>>)})
  BY <1>3, <1>4
<1> HIDE DEF Fits
<1>7. \A a, b, c, d : /\ Fits(a) => Good(<< a >>)
                      /\ Fits(a) /\ Fits(b) => Good(<< a, b >>)
                      /\ Fits(a) /\ Fits(b) /\ Fits(c) => Good(<< a, b, c >>)
                      /\ Fits(a) /\ Fits(b) /\ Fits(c) /\ Fits(d) => Good(<< a, b, c, d >>)
  BY <1>5
<1> HIDE DEF Good
<1>8. Good(Program(op, v, w))
  BY <1>6, <1>7, Zenon DEF Program, AllOperations
<1> QED  BY <1>8 DEF Good, Fits, Fit

LEMMA CallShape ==
    ASSUME Shape, NEW c \in Calls, NEW op \in Operations, NEW v \in Values, NEW w \in Values,
           Call(c, op, v, w)
    PROVE  Shape'
<1>1. op \in AllOperations
  BY SubjectsAssumption
<1>2. /\ does' = [does EXCEPT ![c] = op] /\ does[c] = "none"
      /\ todo' = [todo EXCEPT ![c] = Program(op, v, w)]
      /\ links' = links /\ had' = had /\ count' = count /\ clock' = clock /\ tasks' = tasks
      /\ restarts' = restarts
  BY DEF Call, table
<1>3. TypeOK'
  BY <1>1, <1>2 DEF Shape, TypeOK
<1>4. TodoOK'
  <2>1. todo' \in [Calls -> Seq(SUBSET Requests)]
    BY <1>1, <1>2, ProgramAsks DEF Shape, TodoOK
  <2>2. \A i \in DOMAIN todo'[c] : \A r \in todo'[c][i] : Asks(c, r.kind, r.of, r.values)'
    <3>1. todo'[c] = Program(op, v, w) /\ does'[c] = op
      BY <1>2 DEF Shape, TodoOK, TypeOK
    <3> QED  BY <1>1, <3>1, ProgramAsks DEF Asks
  <2>3. ASSUME NEW d \in Calls, d # c
        PROVE  \A i \in DOMAIN todo'[d] : \A r \in todo'[d][i] : Asks(d, r.kind, r.of, r.values)'
    BY <1>2, <2>3 DEF Shape, TodoOK, TypeOK, Asks
  <2> QED  BY <2>1, <2>2, <2>3 DEF TodoOK
<1>5. Onward /\ RowsOK'
  BY <1>2, SameRows
<1>6. ASSUME NEW u \in Tasks PROVE TaskOK(u)'
  <2>1. tasks'[u] = [tasks[u] EXCEPT !.alone = tasks'[u].alone]
    BY <1>2 DEF Shape, TypeOK, Task
  <2>2. does'[u[1]] = does[u[1]] \/ does[u[1]] = "none"
    BY <1>2 DEF Shape, TypeOK, Tasks
  <2> QED  BY <1>2, <1>5, <2>1, <2>2, OtherTask DEF Shape
<1> QED  BY <1>3, <1>4, <1>5, <1>6 DEF Shape

LEMMA SendShape ==
    ASSUME Shape, NEW c \in Calls, Send(c)
    PROVE  Shape'
<1> DEFINE step    == Head(todo[c])
           For(t)  == \E r \in step : t = <<c, r.of>>
           Pick(t) == CHOOSE r \in step : t = <<c, r.of>>
<1>1. /\ todo[c] \in Seq(SUBSET Requests) /\ todo[c] # <<>>
      /\ \A r \in step : r \in Requests /\ Asks(c, r.kind, r.of, r.values)
  <2>1. todo[c] \in Seq(SUBSET Requests) /\ todo[c] # <<>>
    BY DEF Shape, TodoOK, Send
  <2>2. 1 \in DOMAIN todo[c] /\ step = todo[c][1] /\ step \in SUBSET Requests
    BY <2>1
  <2>3. \A r \in todo[c][1] : Asks(c, r.kind, r.of, r.values)
    BY <2>2 DEF Shape, TodoOK
  <2> QED  BY <2>1, <2>2, <2>3
<1>2. /\ links' = links /\ had' = had /\ count' = count /\ clock' = clock /\ does' = does
      /\ restarts' = restarts /\ todo' = [todo EXCEPT ![c] = Tail(@)]
      /\ tasks \in [Tasks -> Task]
  BY DEF Send, Shape, TypeOK, table
<1>3. Onward /\ RowsOK'
  BY <1>2, SameRows
<1>4. ASSUME NEW t \in Tasks, For(t)
      PROVE  tasks'[t] \in Task /\ TaskOK(t)'
  <2>1. Pick(t) \in step /\ t = <<c, Pick(t).of>>
    BY <1>4
  <2> DEFINE r == Pick(t)
             a == Quiet /\ Cardinality(step) = 1
  <2>2. tasks'[t] = [Idle EXCEPT !.stage  = FirstStage(r.kind), !.kind   = r.kind,
                                 !.values = r.values, !.alone  = a]
    BY <1>4 DEF Send
  <2>3. a \in BOOLEAN
    BY DEF Quiet
  <2> HIDE DEF r, a, step
  <2>4. r \in Requests /\ Asks(c, r.kind, t[2], r.values) /\ t[1] = c
    <3>1. r \in step /\ t = <<c, r.of>>
      BY <2>1 DEF r
    <3>2. t[1] = c /\ t[2] = r.of
      BY <3>1
    <3> QED  BY <1>1, <3>1, <3>2
  <2>5. tasks'[t] \in Task
    <3>1. r.kind \in Kinds /\ r.values \in Seq(Values \cup {Base}) /\ <<>> \in Seq(Nat)
      BY <2>4 DEF Requests
    <3>2. FirstStage(r.kind) \in Stages
      BY DEF FirstStage, Stages
    <3>3. tasks'[t] = [stage |-> FirstStage(r.kind), kind |-> r.kind, values |-> r.values,
                       list |-> {}, times |-> <<>>, alone |-> a]
      BY <2>2 DEF Idle
    <3> QED  BY <2>3, <3>1, <3>2, <3>3 DEF Task
  <2>6. /\ tasks'[t].stage = FirstStage(r.kind) /\ tasks'[t].kind = r.kind
        /\ tasks'[t].values = r.values /\ tasks'[t].list = {}
    BY <2>2 DEF Idle
  <2>7. TaskOK(t)'
    <3>1. PICK request : request = r
      OBVIOUS
    <3>2. Asks(t[1], request.kind, t[2], request.values)'
      BY <1>2, <2>4, <3>1 DEF Asks
    <3>3. Asks(t[1], tasks[t].kind, t[2], tasks[t].values)'
      BY <2>6, <3>1, <3>2 DEF Asks
    <3> QED  BY <2>6, <3>3 DEF TaskOK, FirstStage, OneField
  <2> QED  BY <2>5, <2>7
<1>5. ASSUME NEW t \in Tasks, ~For(t)
      PROVE  tasks'[t] \in Task /\ TaskOK(t)'
  <2>1. tasks'[t] = [tasks[t] EXCEPT !.alone = FALSE]
    BY <1>5 DEF Send
  <2>2. tasks'[t] \in Task /\ tasks'[t].alone = FALSE
    BY <1>2, <2>1 DEF Task
  <2> QED  BY <1>2, <1>3, <2>1, <2>2, OtherTask DEF Shape
<1>6. TypeOK'
  <2>1. tasks' \in [Tasks -> Task]
    <3>1. tasks' = [t \in Tasks |-> tasks'[t]]
      BY DEF Send
    <3> QED  BY <1>4, <1>5, <3>1
  <2> QED  BY <1>2, <2>1 DEF Shape, TypeOK
<1>7. TodoOK'
  <2>1. /\ Tail(todo[c]) \in Seq(SUBSET Requests)
        /\ \A i \in DOMAIN Tail(todo[c]) : /\ i + 1 \in DOMAIN todo[c]
                                           /\ Tail(todo[c])[i] = todo[c][i + 1]
    BY <1>1
  <2>2. todo' \in [Calls -> Seq(SUBSET Requests)]
    BY <1>2, <2>1 DEF Shape, TodoOK
  <2>3. \A d \in Calls : \A i \in DOMAIN todo'[d] :
           \E j \in DOMAIN todo[d] : todo'[d][i] = todo[d][j]
    BY <1>2, <2>1 DEF Shape, TodoOK
  <2>4. \A d \in Calls : \A i \in DOMAIN todo'[d] : \A r \in todo'[d][i] :
           Asks(d, r.kind, r.of, r.values)
    BY <2>3 DEF Shape, TodoOK
  <2> QED  BY <1>2, <2>2, <2>4 DEF TodoOK, Asks
<1>8. \A t \in Tasks : TaskOK(t)'
  BY <1>4, <1>5
<1> QED  BY <1>3, <1>6, <1>7, <1>8 DEF Shape

LEMMA RestartShape ==
    ASSUME Shape, Restart
    PROVE  Shape'
<1>1. /\ links' = links /\ had' = had /\ count' = count /\ clock' = clock /\ does' = does
      /\ restarts' = restarts + 1 /\ restarts < MaxRestarts
      /\ tasks' = [t \in Tasks |-> Idle] /\ todo' = [c \in Calls |-> <<>>]
  BY DEF Restart, table
<1>2. TypeOK'
  BY <1>1, IdleOK, SubjectsAssumption DEF Shape, TypeOK
<1>3. TodoOK'
  BY <1>1 DEF TodoOK
<1>4. \A t \in Tasks : TaskOK(t)'
  BY <1>1 DEF TaskOK, Busy, Idle
<1>5. RowsOK'
  BY <1>1, SameRows
<1> QED  BY <1>2, <1>3, <1>4, <1>5 DEF Shape

LEMMA NextShape ==
    ASSUME Shape, [Next]_vars
    PROVE  Shape'
<1>1. CASE UNCHANGED vars
  <2>1. UNCHANGED <<links, had, count, clock, does, todo, tasks, restarts>>
    BY <1>1 DEF vars, table
  <2>2. TypeOK' /\ RowsOK'
    BY <2>1, SameRows DEF Shape, TypeOK
  <2>3. TodoOK'
    BY <2>1 DEF Shape, TodoOK, Asks
  <2>4. \A t \in Tasks : TaskOK(t)'
    BY <2>1 DEF Shape, TaskOK, Busy, Asks, Later, OfPast
  <2> QED  BY <2>2, <2>3, <2>4 DEF Shape
<1>2. CASE \E c \in Calls : Send(c) \/ \E op \in Operations, v, w \in Values : Call(c, op, v, w)
  BY <1>2, SendShape, CallShape
<1>3. CASE \E t \in Tasks : \/ Read(t) \/ ReadOwn(t) \/ Look(t) \/ Delete(t)
                            \/ Sign(t) \/ Insert(t) \/ Drop(t)
  BY <1>3, ReadShape, ReadOwnShape, LookShape, DeleteShape, SignShape, InsertShape, DropShape
<1>4. CASE Restart
  BY <1>4, RestartShape
<1> QED  BY <1>1, <1>2, <1>3, <1>4 DEF Next

-----------------------------------------------------------------------------
(* GoneReplaced.                                                           *)

(* Whoever has gone before is still replaced if the request that does so   *)
(* goes on or has done so, and no row of the property is removed besides.  *)
LEMMA StillReplaced ==
    ASSUME Shape, Shape', GoneReplaced, Calm' => Calm, had \subseteq had',
           Calm' => \A x \in had' \ links' :
               \/ x \in had \ links
               \/ Later(x)' \/ \E t \in Tasks : Replaces(t, x)',
           Calm' => \A x \in had : \A t \in Tasks : Replaces(t, x) =>
               \/ Replaces(t, x)' \/ Later(x)'
    PROVE  GoneReplaced'
<1> SUFFICES ASSUME Calm', NEW x \in had' \ links'
             PROVE  Later(x)' \/ \E t \in Tasks : Replaces(t, x)'
  BY DEF GoneReplaced
<1>1. CASE x \in had \ links
  <2>1. Later(x) \/ \E t \in Tasks : Replaces(t, x)
    BY <1>1 DEF GoneReplaced
  <2>2. Later(x) => Later(x)'
    BY DEF Later
  <2> QED  BY <1>1, <2>1, <2>2
<1>2. CASE x \notin had \ links
  BY <1>2
<1> QED  BY <1>1, <1>2

(* ... as long as its task is not touched.                                 *)
LEMMA SameReplaces ==
    ASSUME NEW t \in Tasks, NEW x, Replaces(t, x), tasks'[t] = tasks[t]
    PROVE  Replaces(t, x)'
BY DEF Replaces

LEMMA CalmBefore ==
    ASSUME Shape, [Next]_vars
    PROVE  /\ Calm' => Calm /\ ~Restart
           /\ had \subseteq had'
<1>1. had \subseteq had'
  BY DEF Next, vars, table, Call, Send, Read, ReadOwn, Look, Delete, Sign, Insert, Drop, Restart
<1>2. Distinct(had)' => Distinct(had)
  BY <1>1 DEF Distinct, Same
<1>3. CASE \E c \in Calls, op \in Operations, v, w \in Values : Call(c, op, v, w)
  BY <1>1, <1>2, <1>3 DEF Call, Calm, Shape, TypeOK, Restart
<1>4. CASE Restart
  BY <1>1, <1>4, SubjectsAssumption DEF Restart, Calm, Shape, TypeOK
<1>5. CASE UNCHANGED <<does, restarts>>
  BY <1>1, <1>2, <1>5 DEF Calm, Restart, Shape, TypeOK
<1> QED
  BY <1>3, <1>4, <1>5
  DEF Next, vars, table, Send, Read, ReadOwn, Look, Delete, Sign, Insert, Drop

(* In a calm system only two kinds of requests remove a property's links.  *)
LEMMA CalmTask ==
    ASSUME Shape, Calm, NEW t \in Tasks, Busy(t)
    PROVE  /\ tasks[t].kind # "purge"
           /\ t[2] = "property" =>
                 /\ tasks[t].kind \in {"add", "set", "single"}
                 /\ tasks[t].list \subseteq had
           /\ OneField(tasks[t].list, t[2])
<1>1. TaskOK(t) /\ t[1] \in Calls
  BY DEF Shape, Tasks
<1>2. /\ tasks[t].kind # "purge"
      /\ t[2] = "property" => tasks[t].kind \in {"add", "set", "single"}
  BY <1>1 DEF TaskOK, Asks, Calm
<1>3. OneField(tasks[t].list, t[2])
  BY <1>1, <1>2 DEF TaskOK
<1>4. t[2] = "property" => tasks[t].list \subseteq had
  BY <1>1, <1>3 DEF TaskOK, OneField
<1> QED  BY <1>2, <1>3, <1>4

(* ... and a removal takes one row of the property, the one it is told.    *)
LEMMA CalmRemoval ==
    ASSUME Shape, Calm, NEW l, l.of = "property" => l \in had, links' = Without(l), had' = had
    PROVE  \A x \in had' \ links' : x \in had \ links \/ x = l
<1> SUFFICES ASSUME NEW x \in had, x \in links, Same(x, l) PROVE x = l
  BY DEF Without
<1>1. l \in had
  BY DEF Shape, RowsOK, Same
<1> QED  BY <1>1 DEF Calm, Distinct

(* The steps that remove nothing and of which nothing depends.             *)
LEMMA KeepsLinks ==
    ASSUME Shape, Shape', GoneReplaced, [Next]_vars, links' = links, had' = had,
           \A t \in Tasks : \A x \in had : Replaces(t, x) => Replaces(t, x)' \/ Later(x)'
    PROVE  GoneReplaced'
BY CalmBefore, StillReplaced

LEMMA OfRows ==
    ASSUME Shape
    PROVE  /\ had \subseteq Row
           /\ \A x \in had : /\ x.at \in Nat /\ x.nr \in Nat /\ x.of = "property"
                             /\ x.at <= clock["property"] /\ x.nr <= count["property"]
           /\ clock["property"] \in Nat /\ count["property"] \in Nat
           /\ \A x, y \in had : x.nr = y.nr => x = y
<1>1. had \subseteq Row /\ RowsOK
  BY DEF Shape, TypeOK
<1>2. clock["property"] \in Nat /\ count["property"] \in Nat
  BY DEF Shape, TypeOK, Fields
<1> QED  BY <1>1, <1>2 DEF RowsOK, OfPast, Row

LEMMA LookReplaced ==
    ASSUME Shape, Shape', GoneReplaced, NEW t \in Tasks, Look(t), [Next]_vars, Calm'
    PROVE  GoneReplaced'
<1> DEFINE e     == Earliest(tasks[t].list)
           found == \E m \in links : Same(m, e)
<1>1. links' = links /\ had' = had /\ tasks \in [Tasks -> Task] /\ tasks[t].stage = "look"
  BY DEF Look, Shape, TypeOK, table, At
<1>2. Calm /\ Busy(t) /\ TaskOK(t)
  BY CalmBefore DEF Look, At, Busy, Shape
<1>3. ASSUME NEW u \in Tasks, NEW x \in had, Replaces(u, x)
      PROVE  Replaces(u, x)' \/ Later(x)'
  <2>1. CASE u # t
    BY <1>1, <1>3, <2>1, SameReplaces DEF Look, Goto, End
  <2>2. CASE u = t /\ found
    <3>1. /\ tasks'[t].stage = "delete" /\ tasks'[t].kind = tasks[t].kind
          /\ tasks'[t].list = tasks[t].list
      BY <1>1, <2>2 DEF Look, Goto, Task
    <3> QED  BY <1>1, <1>3, <2>2, <3>1 DEF Replaces
  <2>3. CASE u = t /\ ~found
    <3>1. tasks[t].list # {} /\ t[2] = "property"
      BY <1>1, <1>2, <1>3, <2>3 DEF TaskOK, Replaces
    <3>2. tasks[t].list \subseteq had
      BY <1>2, <3>1, CalmTask
    <3>3. e \in tasks[t].list
      BY <3>1, <3>2, EarliestOfSome, OfRows
    <3> HIDE DEF e
    <3>4. e \in had /\ Sooner(x, e)
      BY <1>1, <1>3, <2>3, <3>2, <3>3 DEF Replaces
    <3> QED  BY <1>1, <3>4 DEF Later
  <2> QED  BY <2>1, <2>2, <2>3
<1> QED  BY <1>1, <1>3, KeepsLinks

LEMMA DeleteReplaced ==
    ASSUME Shape, Shape', GoneReplaced, NEW t \in Tasks, Delete(t), [Next]_vars, Calm'
    PROVE  GoneReplaced'
<1> DEFINE e    == Earliest(tasks[t].list)
           left == tasks[t].list \ {e}
           to   == IF left # {} THEN "look"
                   ELSE IF tasks[t].kind = "remove" THEN "idle" ELSE "sign"
<1>1. /\ had' = had /\ tasks \in [Tasks -> Task] /\ links' = Without(e)
      /\ tasks[t].stage = "delete"
      /\ \A u \in Tasks : u # t => tasks'[u] = tasks[u]
  BY DEF Delete, Shape, TypeOK, At
<1>2. /\ Calm /\ Busy(t) /\ TaskOK(t)
      /\ tasks[t].list # {} /\ tasks[t].list \in SUBSET Row
  BY <1>1, CalmBefore DEF Busy, Shape, TaskOK, Task
<1>3. CASE t[2] = "property"
  <2>1. tasks[t].kind = "set" /\ tasks[t].list \subseteq had
    BY <1>1, <1>2, <1>3, CalmTask DEF TaskOK
  <2>2. PICK l \in tasks[t].list : l = e /\ \A m \in tasks[t].list : l = m \/ Sooner(l, m)
    BY <1>2, <2>1, EarliestOfSome, OfRows
  <2>3. tasks' = [tasks EXCEPT ![t] = [tasks[t] EXCEPT !.list = left, !.stage = to]]
    BY <2>1 DEF Delete
  <2>4. to = IF left # {} THEN "look" ELSE "sign"
    BY <2>1
  <2>5. \A m \in left : m \in tasks[t].list /\ Sooner(l, m)
    BY <2>2
  <2> HIDE DEF left, to
  <2>6. tasks'[t].kind = "set" /\ tasks'[t].list = left /\ tasks'[t].stage = to
    BY <1>1, <2>1, <2>3 DEF Task
  <2>7. Replaces(t, l)'
    BY <1>3, <2>4, <2>5, <2>6 DEF Replaces
  <2>8. \A u \in Tasks : \A x : Replaces(u, x) => Replaces(u, x)'
    <3>1. \A x : Replaces(t, x) => Replaces(t, x)'
      BY <1>1, <1>3, <2>4, <2>5, <2>6 DEF Replaces
    <3> QED  BY <1>1, <3>1, SameReplaces
  <2>9. \A x \in had' \ links' : x \in had \ links \/ x = l
    BY <1>1, <1>2, <2>1, <2>2, CalmRemoval
  <2> QED  BY <1>1, <2>7, <2>8, <2>9, CalmBefore, StillReplaced
<1>4. CASE t[2] # "property"
  <2>1. \A x \in had' \ links' : x \in had \ links
    <3> SUFFICES ASSUME NEW x \in had PROVE ~Same(x, e) \/ x \notin links
      BY <1>1 DEF Without
    <3>1. x.of = "property"
      BY OfRows
    <3>2. ~Same(x, e)
      <4>1. e.of = t[2]
        BY <1>2, EarliestOfSome, CalmTask DEF OneField
      <4> QED  BY <1>4, <3>1, <4>1 DEF Same
    <3> QED  BY <3>2
  <2>2. \A u \in Tasks : \A x : Replaces(u, x) => Replaces(u, x)'
    BY <1>1, <1>4, SameReplaces DEF Replaces
  <2> QED  BY <1>1, <2>1, <2>2, CalmBefore, StillReplaced
<1> QED  BY <1>3, <1>4

LEMMA SignReplaced ==
    ASSUME Shape, Shape', GoneReplaced, NEW t \in Tasks, Sign(t), [Next]_vars
    PROVE  GoneReplaced'
<1>1. /\ links' = links /\ had' = had /\ tasks \in [Tasks -> Task]
      /\ \A u \in Tasks : u # t => tasks'[u] = tasks[u]
      /\ tasks[t].stage = "sign" /\ tasks'[t].stage = "insert"
      /\ tasks'[t].kind = tasks[t].kind
  <2>1. PICK at : tasks' = [tasks EXCEPT ![t].times = at, ![t].stage = "insert"]
    BY DEF Sign
  <2>2. /\ links' = links /\ had' = had /\ tasks \in [Tasks -> Task]
        /\ tasks[t].stage = "sign"
    BY DEF Sign, Shape, TypeOK, At, table
  <2> QED  BY <2>1, <2>2 DEF Task
<1>2. \A i \in DOMAIN tasks'[t].times :
         clock[t[2]] <= tasks'[t].times[i] /\ tasks'[t].times[i] \in Nat
  <2>1. tasks'[t] \in Task
    BY DEF Shape, TypeOK
  <2> QED  BY <2>1, SignShape DEF Task
<1>3. \A x \in had : x.at <= clock["property"] /\ x.at \in Nat /\ clock["property"] \in Nat
  BY OfRows
<1>4. ASSUME NEW u \in Tasks, NEW x \in had, Replaces(u, x)
      PROVE  Replaces(u, x)'
  <2>1. CASE u # t
    BY <1>1, <1>4, <2>1, SameReplaces
  <2>2. CASE u = t
    <3>1. t[2] = "property" /\ tasks[t].kind = "set"
      BY <1>4, <2>2 DEF Replaces
    <3>2. \A i \in DOMAIN tasks'[t].times : x.at <= tasks'[t].times[i]
      BY <1>2, <1>3, <3>1
    <3> QED  BY <1>1, <2>2, <3>1, <3>2 DEF Replaces
  <2> QED  BY <2>1, <2>2
<1> QED  BY <1>1, <1>4, KeepsLinks

LEMMA InsertReplaced ==
    ASSUME Shape, Shape', GoneReplaced, NEW t \in Tasks, Insert(t), [Next]_vars
    PROVE  GoneReplaced'
<1>1. /\ links' = links \cup NewRows(t)
      /\ t[2] = "property" => had' = had \cup NewRows(t)
      /\ t[2] # "property" => had' = had
      /\ \A u \in Tasks : u # t => tasks'[u] = tasks[u]
      /\ tasks[t].stage = "insert" /\ TaskOK(t) /\ Busy(t)
  BY DEF Insert, End, Shape, TypeOK, At, Busy
<1>2. \A x \in had' \ links' : x \in had \ links
  BY <1>1
<1>3. ASSUME NEW u \in Tasks, NEW x \in had, Replaces(u, x)
      PROVE  Replaces(u, x)' \/ Later(x)'
  <2>1. CASE u # t
    BY <1>1, <1>3, <2>1, SameReplaces
  <2>2. CASE u = t
    <3>1. t[2] = "property" /\ tasks[t].kind = "set"
      BY <1>3, <2>2 DEF Replaces
    <3>2. PICK n \in NewRows(t) : TRUE
      BY <1>1, <3>1, RowsToCome DEF TaskOK, Asks
    <3>3. /\ n \in Row /\ count["property"] < n.nr
          /\ \E i \in DOMAIN tasks[t].times : n.at = tasks[t].times[i]
      BY <1>1, <3>1, RowsToCome
    <3>4. x.at <= n.at
      BY <1>1, <1>3, <2>2, <3>3 DEF Replaces
    <3>5. /\ x.nr <= count["property"] /\ x.nr \in Nat /\ count["property"] \in Nat
          /\ n.nr \in Nat /\ x.at \in Nat /\ n.at \in Nat
      BY <3>3, OfRows DEF Row
    <3>6. Sooner(x, n)
      BY <3>3, <3>4, <3>5 DEF Sooner
    <3> QED  BY <1>1, <3>1, <3>2, <3>6 DEF Later
  <2> QED  BY <2>1, <2>2
<1> QED  BY <1>2, <1>3, CalmBefore, StillReplaced

LEMMA DropReplaced ==
    ASSUME Shape, Shape', GoneReplaced, NEW t \in Tasks, Drop(t), [Next]_vars, Calm'
    PROVE  GoneReplaced'
<1>1. PICK l \in tasks[t].list : links' = Without(l)
  BY DEF Drop
<1>2. /\ had' = had /\ tasks[t].stage = "drop" /\ TaskOK(t) /\ Busy(t)
      /\ \A u \in Tasks : u # t => tasks'[u] = tasks[u]
  BY DEF Drop, Shape, TypeOK, At, Busy
<1>3. /\ Calm /\ tasks[t].kind = "single" /\ l.of = t[2]
      /\ l.of = "property" => l \in had
  <2>1. Calm
    BY CalmBefore
  <2> QED  BY <1>2, <2>1, CalmTask DEF TaskOK, OneField
<1>4. l.of = "property" => Later(l)'
  <2>1. l.of = "property" => Later(l)
    BY <1>2, <1>3 DEF TaskOK
  <2> QED  BY <1>2, <2>1 DEF Later
<1>5. \A x \in had' \ links' : x \in had \ links \/ x = l
  BY <1>1, <1>2, <1>3, CalmRemoval
<1>6. \A x \in had' : x.of = "property"
  BY <1>2, OfRows
<1>7. ASSUME NEW u \in Tasks, NEW x, Replaces(u, x) PROVE Replaces(u, x)'
  <2>1. u # t
    BY <1>2, <1>7 DEF Replaces
  <2> QED  BY <1>2, <1>7, <2>1, SameReplaces
<1> QED  BY <1>3, <1>4, <1>5, <1>6, <1>7, CalmBefore, StillReplaced

LEMMA SendReplaced ==
    ASSUME Shape, Shape', GoneReplaced, NEW c \in Calls, Send(c), [Next]_vars
    PROVE  GoneReplaced'
<1>1. /\ links' = links /\ had' = had /\ tasks \in [Tasks -> Task]
      /\ \A f \in Fields : ~Busy(<<c, f>>)
  BY DEF Send, Shape, TypeOK, table
<1>2. ASSUME NEW u \in Tasks, NEW x, Replaces(u, x) PROVE Replaces(u, x)'
  <2>1. u[1] # c /\ u = <<u[1], u[2]>>
    BY <1>1, <1>2 DEF Replaces, Busy, Tasks
  <2>2. ~ \E r \in Head(todo[c]) : u = <<c, r.of>>
    BY <2>1
  <2>3. tasks'[u] = [tasks[u] EXCEPT !.alone = FALSE]
    BY <2>2 DEF Send
  <2>4. /\ tasks'[u].stage = tasks[u].stage /\ tasks'[u].kind = tasks[u].kind
        /\ tasks'[u].list = tasks[u].list /\ tasks'[u].times = tasks[u].times
    BY <1>1, <2>3 DEF Task
  <2> QED  BY <1>2, <2>4 DEF Replaces
<1> QED  BY <1>1, <1>2, KeepsLinks

LEMMA ReadReplaced ==
    ASSUME Shape, Shape', GoneReplaced, NEW t \in Tasks, Read(t) \/ ReadOwn(t), [Next]_vars
    PROVE  GoneReplaced'
<1>1. /\ links' = links /\ had' = had /\ tasks[t].stage \in {"read", "readTo"}
      /\ \A u \in Tasks : u # t => tasks'[u] = tasks[u]
  BY DEF Read, ReadOwn, At, Shape, TypeOK, table
<1>2. ASSUME NEW u \in Tasks, NEW x, Replaces(u, x) PROVE Replaces(u, x)'
  <2>1. u # t
    BY <1>1, <1>2 DEF Replaces
  <2> QED  BY <1>1, <1>2, <2>1, SameReplaces
<1> QED  BY <1>1, <1>2, KeepsLinks

LEMMA NextReplaced ==
    ASSUME Shape, Shape', GoneReplaced, [Next]_vars
    PROVE  GoneReplaced'
<1> SUFFICES ASSUME Calm' PROVE GoneReplaced'
  BY DEF GoneReplaced
<1>1. CASE UNCHANGED vars
  BY <1>1 DEF vars, table, GoneReplaced, Calm, Later, Replaces
<1>2. CASE \E c \in Calls, op \in Operations, v, w \in Values : Call(c, op, v, w)
  <2>1. links' = links /\ had' = had /\ tasks' = tasks
    BY <1>2 DEF Call, table
  <2> QED  BY <2>1, SameReplaces, KeepsLinks
<1>3. CASE \E c \in Calls : Send(c)
  BY <1>3, SendReplaced
<1>4. CASE \E t \in Tasks : Read(t) \/ ReadOwn(t)
  BY <1>4, ReadReplaced
<1>5. CASE \E t \in Tasks : Look(t) \/ Delete(t)
  BY <1>5, LookReplaced, DeleteReplaced
<1>6. CASE \E t \in Tasks : Sign(t) \/ Insert(t) \/ Drop(t)
  BY <1>6, SignReplaced, InsertReplaced, DropReplaced
<1>7. ~Restart
  BY CalmBefore
<1> QED  BY <1>1, <1>2, <1>3, <1>4, <1>5, <1>6, <1>7 DEF Next

-----------------------------------------------------------------------------
(* At rest the last row that the property ever had is still there.         *)
LEMMA RestHasValue == IInv => ValueKept
<1> SUFFICES ASSUME IInv, AtRest, Calm, had # {}
             PROVE  On("property") # {}
  BY DEF ValueKept
<1>1. Shape /\ GoneReplaced
  BY DEF IInv
<1>2. PICK l \in had : \A m \in had : ~Sooner(l, m)
  BY <1>1, OfRows, LatestOfSome
<1>3. ~Later(l)
  BY <1>2 DEF Later
<1>4. \A t \in Tasks : ~Replaces(t, l)
  BY DEF AtRest, Quiet, Busy, Replaces
<1>5. l \in links /\ l.of = "property"
  BY <1>1, <1>2, <1>3, <1>4, OfRows DEF GoneReplaced
<1> QED  BY <1>5 DEF On

(* Whatever the clients, the operations and the values are: what TypeOK    *)
(* says of the links and requests holds in every state.                    *)
THEOREM SubjectsTyped == Spec => []TypeOK
<1>1. Init => Shape
  BY InitShape
<1>2. Shape /\ [Next]_vars => Shape'
  BY NextShape
<1>3. Shape => TypeOK
  BY DEF Shape
<1> QED  BY <1>1, <1>2, <1>3, PTL DEF Spec

(* A property that once had a value has one whenever all clients are at    *)
(* rest, unless two of its rows were equal: setters that race for the same *)
(* links, also in one millisecond, never end up with none.                 *)
THEOREM PropertiesKeepAValue == Spec => []ValueKept
<1>1. Init => IInv
  <2> SUFFICES ASSUME Init PROVE IInv
    OBVIOUS
  <2>1. had \ links = {}
    BY DEF Init
  <2> QED  BY <2>1, InitShape DEF IInv, GoneReplaced
<1>2. IInv /\ [Next]_vars => IInv'
  BY NextShape, NextReplaced DEF IInv
<1>3. IInv => ValueKept
  BY RestHasValue
<1> QED  BY <1>1, <1>2, <1>3, PTL DEF Spec

-----------------------------------------------------------------------------
(* Writing alone.                                                          *)

(* A request that comes to its end.                                        *)
LeavesAtEnd(t) == tasks[t].alone /\ ~Busy(t)' => Leaves(t)

(* A step of a request: nobody else can be alone, before or after.         *)
LEMMA OnlyOneAlone ==
    ASSUME Shape, AloneInv, NEW t \in Tasks, Busy(t), NEW task,
           tasks' = [tasks EXCEPT ![t] = task],
           todo' = todo \/ todo' = [todo EXCEPT ![t[1]] = <<>>],
           Alone(t)', LeavesAtEnd(t)
    PROVE  AloneInv' /\ \A u \in Tasks : LeavesAtEnd(u)
<1>1. \A u \in Tasks : u # t => ~tasks[u].alone /\ tasks'[u] = tasks[u]
  BY DEF AloneInv, Alone, Shape, TypeOK
<1>2. \A u \in Tasks : Alone(u)'
  BY <1>1 DEF Alone
<1>3. \A c \in Calls : todo'[c] = todo[c] \/ todo'[c] = <<>>
  BY DEF Shape, TodoOK
<1>4. StepsFinite'
  BY <1>3 DEF AloneInv, StepsFinite
<1> QED  BY <1>1, <1>2, <1>4 DEF AloneInv, LeavesAtEnd

LEMMA OthersIdle ==
    ASSUME Shape, AloneInv, NEW t \in Tasks, tasks[t].alone, NEW task,
           tasks' = [tasks EXCEPT ![t] = task]
    PROVE  \A u \in Tasks : Busy(u)' => u = t
BY DEF AloneInv, Alone, Shape, TypeOK, Busy

LEMMA EndAlone ==
    ASSUME Shape, NEW t \in Tasks, tasks' = [tasks EXCEPT ![t] = Idle]
    PROVE  Alone(t)' /\ ~Busy(t)'
BY DEF Alone, Busy, Idle, Shape, TypeOK

LEMMA NothingAlone ==
    ASSUME AloneInv, tasks' = tasks, links' = links
    PROVE  \A t \in Tasks : Alone(t)' /\ LeavesAtEnd(t)
<1>1. \A f : On(f)' = On(f)
  BY DEF On
<1>2. \A t \in Tasks : (Busy(t)' <=> Busy(t)) /\ (tasks[t].alone => Busy(t))
  BY DEF AloneInv, Alone, Busy
<1> SUFFICES ASSUME NEW t \in Tasks PROVE Alone(t)' /\ LeavesAtEnd(t)
  OBVIOUS
<1>3. Alone(t)
  BY DEF AloneInv
<1> QED  BY <1>1, <1>2, <1>3 DEF Alone, LeavesAtEnd

LEMMA ReadAlone ==
    ASSUME Shape, AloneInv, NEW t \in Tasks, Read(t)
    PROVE  AloneInv' /\ \A u \in Tasks : LeavesAtEnd(u)
<1> DEFINE task == tasks[t]
           list == CASE task.kind = "remove" -> {l \in On(t[2]) : l.is \in Range(task.values)}
                     [] task.kind = "purge"  -> On("child")
                     [] OTHER                -> On(t[2])
           to   == IF task.kind = "purge" THEN "readTo"
                   ELSE AfterReading(task.kind, list)
           only == task.alone /\ (to = "look" => Distinct(list))
           next == IF to = "idle" THEN Idle
                   ELSE [task EXCEPT !.list = list, !.stage = to, !.alone = only]
<1>1. /\ tasks[t] \in Task /\ TaskOK(t) /\ Busy(t) /\ tasks \in [Tasks -> Task]
      /\ task.stage = "read" /\ task.kind # "add" /\ task.kind \in Kinds
  BY DEF Shape, TypeOK, Read, At, Busy, TaskOK, Task
<1>2. tasks' = [tasks EXCEPT ![t] = next] /\ tasks'[t] = next /\ links' = links /\ todo' = todo
  BY <1>1 DEF Read, table
<1>3. CASE to = "idle"
  <2>1. task.kind = "remove" /\ list = {}
    BY <1>1, <1>3 DEF AfterReading
  <2>2. \A l \in On(t[2]) : l.is \notin Range(task.values)
    BY <2>1
  <2>3. Leaves(t)
    BY <1>2, <2>1, <2>2 DEF Leaves, On
  <2>4. Alone(t)'
    BY <1>2, <1>3, EndAlone
  <2> QED  BY <1>1, <1>2, <2>3, <2>4, OnlyOneAlone DEF LeavesAtEnd
<1>4. CASE to # "idle"
  <2>1. /\ tasks'[t].stage = to /\ tasks'[t].list = list /\ tasks'[t].kind = task.kind
        /\ tasks'[t].values = task.values /\ tasks'[t].alone = only
    BY <1>1, <1>2, <1>4 DEF Task
  <2>2. /\ to \in {"readTo", "sign", "look"}
        /\ to = "readTo" => task.kind = "purge"
        /\ task.kind = "purge" => to = "readTo"
        /\ to = "sign" => task.kind # "remove" /\ (task.kind = "single" \/ list = {})
    BY <1>1, <1>4 DEF AfterReading
  <2>3. /\ task.kind = "remove" => list = {l \in On(t[2]) : l.is \in Range(task.values)}
        /\ task.kind = "purge" => list = On("child")
        /\ task.kind \notin {"remove", "purge"} => list = On(t[2])
    OBVIOUS
  <2>4. \A f : On(f)' = On(f)
    BY <1>2 DEF On
  <2>5. task.alone => \A u \in Tasks : Busy(u)' => u = t
    BY <1>2, OthersIdle
  <2>6. Busy(t)'
    BY <1>4, <2>1 DEF Busy
  <2>7. only => task.alone /\ (to = "look" => Distinct(list))
    OBVIOUS
  <2> HIDE DEF list, to, only, next
  <2>8. Alone(t)'
    BY <2>1, <2>2, <2>3, <2>4, <2>5, <2>6, <2>7 DEF Alone, Distinct, Same
  <2> QED  BY <1>1, <1>2, <2>6, <2>8, OnlyOneAlone DEF LeavesAtEnd
<1> QED  BY <1>3, <1>4

LEMMA ReadOwnAlone ==
    ASSUME Shape, AloneInv, NEW t \in Tasks, ReadOwn(t)
    PROVE  AloneInv' /\ \A u \in Tasks : LeavesAtEnd(u)
<1> DEFINE list == tasks[t].list \cup (links \ On("child"))
           next == IF list = {} THEN Idle ELSE [tasks[t] EXCEPT !.list = list, !.stage = "drop"]
<1>1. /\ tasks[t] \in Task /\ Busy(t) /\ tasks \in [Tasks -> Task]
      /\ tasks[t].stage = "readTo" /\ tasks[t].kind = "purge"
  BY DEF Shape, TypeOK, ReadOwn, At, Busy, TaskOK
<1>2. tasks' = [tasks EXCEPT ![t] = next] /\ tasks'[t] = next /\ links' = links /\ todo' = todo
  BY <1>1 DEF ReadOwn, table
<1>3. tasks[t].alone => links \subseteq list
  BY <1>1 DEF AloneInv, Alone, On
<1>4. CASE list = {}
  <2>1. tasks[t].alone => Leaves(t)
    BY <1>1, <1>2, <1>3, <1>4 DEF Leaves
  <2>2. Alone(t)'
    BY <1>2, <1>4, EndAlone
  <2> HIDE DEF next
  <2> QED  BY <1>1, <1>2, <2>1, <2>2, OnlyOneAlone DEF LeavesAtEnd
<1>5. CASE list # {}
  <2>1. /\ tasks'[t].stage = "drop" /\ tasks'[t].list = list /\ tasks'[t].kind = "purge"
        /\ tasks'[t].alone = tasks[t].alone
    BY <1>1, <1>2, <1>5 DEF Task
  <2>2. tasks[t].alone => \A u \in Tasks : Busy(u)' => u = t
    BY <1>2, OthersIdle
  <2> HIDE DEF list, next
  <2>3. Busy(t)'
    BY <2>1 DEF Busy
  <2>4. Alone(t)'
    BY <1>2, <1>3, <2>1, <2>2, <2>3 DEF Alone
  <2> QED  BY <1>1, <1>2, <2>3, <2>4, OnlyOneAlone DEF LeavesAtEnd
<1> QED  BY <1>4, <1>5

(* The list of one that is alone, while he removes.                        *)
LEMMA ListAlone ==
    ASSUME Shape, AloneInv, NEW t \in Tasks, tasks[t].alone, tasks[t].stage \in {"look", "delete"}
    PROVE  /\ tasks[t].list \subseteq On(t[2]) /\ Distinct(tasks[t].list)
           /\ Earliest(tasks[t].list) \in tasks[t].list
           /\ \A m \in links : Same(m, Earliest(tasks[t].list))
                 => m = Earliest(tasks[t].list)
<1> DEFINE list == tasks[t].list
           e    == Earliest(list)
<1>1. /\ list # {} /\ list \subseteq Row
  BY DEF Shape, TypeOK, TaskOK, Busy, Task
<1>2. /\ Distinct(list)
      /\ list = IF tasks[t].kind = "remove"
                THEN {l \in On(t[2]) : l.is \in Range(tasks[t].values)} ELSE On(t[2])
  BY DEF AloneInv, Alone
<1>3. list \subseteq On(t[2])
  BY <1>2
<1>4. \A l, m \in list : l.nr = m.nr => l = m
  BY <1>3 DEF On, Shape, RowsOK
<1>5. e \in list
  <2> HIDE DEF list
  <2> QED  BY <1>1, <1>4, EarliestOfSome
<1> HIDE DEF e
<1>6. ASSUME NEW m \in links, Same(m, e) PROVE m = e
  <2>1. m.of = e.of /\ m.is = e.is
    BY <1>6 DEF Same
  <2>2. m \in On(t[2])
    BY <1>3, <1>5, <2>1 DEF On
  <2>3. m \in list
    BY <1>2, <1>5, <2>1, <2>2
  <2> QED  BY <1>2, <1>5, <1>6, <2>3 DEF Distinct
<1> QED  BY <1>2, <1>3, <1>5, <1>6 DEF e

(* Nobody else has removed the link in between.                            *)
LEMMA LookAlone ==
    ASSUME Shape, AloneInv, NEW t \in Tasks, Look(t)
    PROVE  AloneInv' /\ \A u \in Tasks : LeavesAtEnd(u)
<1> DEFINE e     == Earliest(tasks[t].list)
           found == \E m \in links : Same(m, e)
<1>1. /\ tasks[t] \in Task /\ Busy(t) /\ tasks \in [Tasks -> Task]
      /\ tasks[t].stage = "look" /\ links' = links
  BY DEF Shape, TypeOK, Look, At, Busy, table
<1>2. tasks[t].alone => found
  BY <1>1, ListAlone DEF On, Same
<1>3. CASE found
  <2> DEFINE next == [tasks[t] EXCEPT !.stage = "delete"]
  <2>1. tasks' = [tasks EXCEPT ![t] = next] /\ tasks'[t] = next /\ todo' = todo
    BY <1>1, <1>3 DEF Look, Goto
  <2>2. /\ tasks'[t].stage = "delete" /\ tasks'[t].list = tasks[t].list
        /\ tasks'[t].kind = tasks[t].kind /\ tasks'[t].values = tasks[t].values
        /\ tasks'[t].alone = tasks[t].alone
    BY <1>1, <2>1 DEF Task
  <2>3. tasks[t].alone => \A u \in Tasks : Busy(u)' => u = t
    BY <2>1, OthersIdle
  <2> HIDE DEF next
  <2>4. On(t[2])' = On(t[2])
    BY <1>1 DEF On
  <2>5. Busy(t)'
    BY <2>2 DEF Busy
  <2>6. tasks[t].alone =>
           /\ Distinct(tasks[t].list)
           /\ tasks[t].list = IF tasks[t].kind = "remove"
                              THEN {l \in On(t[2]) : l.is \in Range(tasks[t].values)} ELSE On(t[2])
    BY <1>1 DEF AloneInv, Alone
  <2>7. Alone(t)'
    BY <2>2, <2>3, <2>4, <2>5, <2>6 DEF Alone, Distinct, Same
  <2> QED  BY <1>1, <2>1, <2>5, <2>7, OnlyOneAlone DEF LeavesAtEnd
<1>4. CASE ~found
  <2>1. tasks' = [tasks EXCEPT ![t] = Idle] /\ todo' = [todo EXCEPT ![t[1]] = <<>>]
    BY <1>4 DEF Look, End
  <2> QED  BY <1>1, <1>2, <1>4, <2>1, EndAlone, OnlyOneAlone DEF LeavesAtEnd
<1> QED  BY <1>3, <1>4

LEMMA DeleteAlone ==
    ASSUME Shape, AloneInv, NEW t \in Tasks, Delete(t)
    PROVE  AloneInv' /\ \A u \in Tasks : LeavesAtEnd(u)
<1> DEFINE l    == Earliest(tasks[t].list)
           left == tasks[t].list \ {l}
           to   == IF left # {} THEN "look"
                   ELSE IF tasks[t].kind = "remove" THEN "idle" ELSE "sign"
           next == IF to = "idle" THEN Idle ELSE [tasks[t] EXCEPT !.list = left, !.stage = to]
<1>1. /\ tasks[t] \in Task /\ Busy(t) /\ TaskOK(t) /\ tasks \in [Tasks -> Task]
      /\ tasks[t].stage = "delete" /\ tasks[t].kind \in {"set", "replace", "remove"}
  BY DEF Shape, TypeOK, Delete, At, Busy, TaskOK
<1>2. /\ tasks' = [tasks EXCEPT ![t] = next] /\ tasks'[t] = next
      /\ links' = Without(l) /\ todo' = todo
  BY <1>1 DEF Delete
<1>3. tasks[t].alone => On(t[2])' = On(t[2]) \ {l}
  <2>1. tasks[t].alone => \A m \in links : Same(m, l) <=> m = l
    BY <1>1, ListAlone DEF Same
  <2> HIDE DEF l
  <2> QED  BY <1>2, <2>1 DEF On, Without
<1> HIDE DEF l
<1>4. tasks[t].alone =>
         /\ Distinct(left)
         /\ left = IF tasks[t].kind = "remove"
                   THEN {x \in On(t[2])' : x.is \in Range(tasks[t].values)} ELSE On(t[2])'
  <2>1. tasks[t].alone =>
           /\ Distinct(tasks[t].list)
           /\ tasks[t].list = IF tasks[t].kind = "remove"
                              THEN {x \in On(t[2]) : x.is \in Range(tasks[t].values)} ELSE On(t[2])
    BY <1>1 DEF AloneInv, Alone
  <2>2. Distinct(tasks[t].list) => Distinct(left)
    BY DEF Distinct
  <2> QED  BY <1>3, <2>1, <2>2
<1>5. CASE to = "idle"
  <2>1. left = {} /\ tasks[t].kind = "remove"
    BY <1>5
  <2>2. tasks[t].alone => Leaves(t)
    BY <1>4, <2>1 DEF Leaves
  <2> QED  BY <1>1, <1>2, <1>5, <2>2, EndAlone, OnlyOneAlone DEF LeavesAtEnd
<1>6. CASE to # "idle"
  <2>1. /\ tasks'[t].stage = to /\ tasks'[t].list = left
        /\ tasks'[t].kind = tasks[t].kind /\ tasks'[t].values = tasks[t].values
        /\ tasks'[t].alone = tasks[t].alone
    BY <1>1, <1>2, <1>6 DEF Task
  <2>2. to \in {"look", "sign"} /\ (to = "sign" => left = {} /\ tasks[t].kind # "remove")
    BY <1>6
  <2>3. tasks[t].alone => \A u \in Tasks : Busy(u)' => u = t
    BY <1>2, OthersIdle
  <2> HIDE DEF left, to, next
  <2>4. Busy(t)'
    BY <1>6, <2>1 DEF Busy
  <2>5. Alone(t)'
    BY <1>1, <1>4, <2>1, <2>2, <2>3, <2>4 DEF Alone, Distinct, Same
  <2> QED  BY <1>1, <1>2, <2>4, <2>5, OnlyOneAlone DEF LeavesAtEnd
<1> QED  BY <1>5, <1>6

LEMMA SignAlone ==
    ASSUME Shape, AloneInv, NEW t \in Tasks, Sign(t)
    PROVE  AloneInv' /\ \A u \in Tasks : LeavesAtEnd(u)
<1>1. /\ tasks[t] \in Task /\ Busy(t) /\ TaskOK(t) /\ tasks \in [Tasks -> Task]
      /\ tasks[t].stage = "sign" /\ links' = links /\ todo' = todo /\ tasks[t].kind # "purge"
  BY DEF Shape, TypeOK, Sign, At, Busy, TaskOK, table
<1>2. PICK at : tasks' = [tasks EXCEPT ![t].times = at, ![t].stage = "insert"]
  BY DEF Sign
<1> DEFINE next == [tasks[t] EXCEPT !.times = at, !.stage = "insert"]
<1>3. tasks' = [tasks EXCEPT ![t] = next] /\ tasks'[t] = next
  BY <1>1, <1>2
<1>4. /\ tasks'[t].stage = "insert" /\ tasks'[t].list = tasks[t].list
      /\ tasks'[t].kind = tasks[t].kind /\ tasks'[t].values = tasks[t].values
      /\ tasks'[t].alone = tasks[t].alone
  BY <1>1, <1>3 DEF Task
<1>5. tasks[t].alone => \A u \in Tasks : Busy(u)' => u = t
  BY <1>3, OthersIdle
<1>6. On(t[2])' = On(t[2])
  BY <1>1 DEF On
<1> HIDE DEF next
<1>7. Busy(t)'
  BY <1>4 DEF Busy
<1>8. Alone(t)'
  BY <1>1, <1>4, <1>5, <1>6, <1>7 DEF AloneInv, Alone
<1> QED  BY <1>1, <1>3, <1>7, <1>8, OnlyOneAlone DEF LeavesAtEnd

(* A row is inserted for every value, and for each another one.            *)
LEMMA InsertedEach ==
    ASSUME Shape, NEW t \in Tasks
    PROVE  OneForEach(NewRows(t), tasks[t].values)
<1> DEFINE vs  == tasks[t].values
           n   == Len(vs)
           k   == count[t[2]]
           row == [i \in 1 .. n |-> [nr |-> k + i, at |-> tasks[t].times[i],
                                     of |-> t[2], is |-> vs[i]]]
           new == NewRows(t)
<1>1. n \in Nat /\ DOMAIN vs = 1 .. n /\ k \in Nat
  BY DEF Shape, TypeOK, Task, Tasks
<1>2. new = {row[i] : i \in 1 .. n}
  BY <1>1 DEF NewRows
<1>3. \A i, j \in 1 .. n : row[i] = row[j] => i = j
  <2>1. \A i \in 1 .. n : row[i].nr = k + i
    OBVIOUS
  <2> HIDE DEF row
  <2> QED  BY <1>1, <2>1
<1>4. row \in Bijection(1 .. n, new)
  <2>1. row \in [1 .. n -> new]
    BY <1>2
  <2>2. \A r \in new : \E i \in 1 .. n : row[i] = r
    BY <1>2
  <2> HIDE DEF row, new
  <2> QED  BY <1>3, <2>1, <2>2 DEF Bijection, Injection, Surjection, IsInjective
<1>5. {r.is : r \in new} = Range(vs)
  <2>1. \A i \in 1 .. n : row[i].is = vs[i]
    OBVIOUS
  <2> HIDE DEF row, new
  <2> QED  BY <1>1, <1>2, <2>1 DEF Range
<1>6. IsFiniteSet(1 .. n) /\ Cardinality(1 .. n) = n
  <2> HIDE DEF n
  <2> QED  BY <1>1, FS_Interval
<1>7. Cardinality(new) = n
  <2> HIDE DEF row, new, n
  <2> QED  BY <1>4, <1>6, FS_Bijection DEF ExistsBijection
<1> QED  BY <1>5, <1>7 DEF OneForEach

LEMMA InsertAlone ==
    ASSUME Shape, AloneInv, NEW t \in Tasks, Insert(t)
    PROVE  AloneInv' /\ \A u \in Tasks : LeavesAtEnd(u)
<1> DEFINE goes == tasks[t].kind = "single" /\ tasks[t].list # {}
           only == tasks[t].alone /\ \A n \in NewRows(t), l \in tasks[t].list : ~Same(n, l)
           next == IF goes THEN [tasks[t] EXCEPT !.stage = "drop", !.alone = only] ELSE Idle
<1>1. /\ tasks[t] \in Task /\ Busy(t) /\ TaskOK(t) /\ tasks \in [Tasks -> Task]
      /\ tasks[t].stage = "insert" /\ links' = links \cup NewRows(t) /\ todo' = todo
      /\ tasks[t].kind \in Kinds \ {"purge"}
  BY DEF Shape, TypeOK, Insert, At, Busy, TaskOK, Task
<1>2. tasks' = [tasks EXCEPT ![t] = next] /\ tasks'[t] = next
  BY <1>1 DEF Insert, End
<1>3. On(t[2])' = On(t[2]) \cup NewRows(t)
  BY <1>1, RowsToCome DEF On
<1>4. OneForEach(NewRows(t), tasks[t].values)
  BY InsertedEach
<1>5. CASE goes
  <2>1. /\ tasks'[t].stage = "drop" /\ tasks'[t].list = tasks[t].list
        /\ tasks'[t].kind = "single" /\ tasks'[t].values = tasks[t].values
        /\ tasks'[t].alone = only
    BY <1>1, <1>2, <1>5 DEF Task
  <2>2. tasks[t].alone => \A u \in Tasks : Busy(u)' => u = t
    BY <1>2, OthersIdle
  <2>3. Busy(t)'
    BY <2>1 DEF Busy
  <2>4. tasks[t].alone => On(t[2]) = tasks[t].list
    BY <1>1, <1>5 DEF AloneInv, Alone
  <2>5. only => tasks[t].alone /\ \A n \in NewRows(t), l \in tasks[t].list : ~Same(n, l)
    OBVIOUS
  <2> HIDE DEF next, goes, only
  <2>6. ASSUME only PROVE Alone(t)'
    <3>1. PICK new : new = NewRows(t)
      OBVIOUS
    <3>2. /\ new \in SUBSET (On(t[2])') /\ On(t[2])' \subseteq tasks'[t].list \cup new
          /\ OneForEach(new, tasks'[t].values)
          /\ \A n \in new, l \in tasks'[t].list : ~Same(n, l)
      BY <1>3, <1>4, <2>1, <2>4, <2>5, <2>6, <3>1
    <3>3. (OneForEach(new, tasks[t].values))' /\ \A n \in new, l \in tasks'[t].list : Same(n, l)' = Same(n, l)
      BY <3>2 DEF OneForEach, Same
    <3> QED  BY <2>1, <2>2, <2>3, <2>5, <2>6, <3>2, <3>3 DEF Alone
  <2>7. CASE ~only
    <3>1. Alone(t)'
      BY <2>1, <2>7 DEF Alone
    <3> QED  BY <1>1, <1>2, <2>3, <3>1, OnlyOneAlone DEF LeavesAtEnd
  <2> QED  BY <1>1, <1>2, <2>3, <2>6, <2>7, OnlyOneAlone DEF LeavesAtEnd
<1>6. CASE ~goes
  <2>1. ASSUME tasks[t].alone PROVE Leaves(t)
    <3>1. CASE tasks[t].kind \in {"set", "single", "replace"}
      <4>1. On(t[2]) = {}
        BY <1>1, <1>6, <2>1, <3>1 DEF AloneInv, Alone
      <4>2. On(t[2])' = NewRows(t)
        BY <1>3, <4>1
      <4> QED  BY <1>4, <3>1, <4>2 DEF Leaves, OneForEach
    <3>2. CASE tasks[t].kind = "add"
      BY <1>1, <3>2 DEF Leaves
    <3>3. tasks[t].kind # "remove"
      BY <1>1, <2>1 DEF AloneInv, Alone
    <3> QED  BY <1>1, <3>1, <3>2, <3>3 DEF Kinds
  <2> QED  BY <1>1, <1>2, <1>6, <2>1, EndAlone, OnlyOneAlone DEF LeavesAtEnd
<1> QED  BY <1>5, <1>6

LEMMA DropAlone ==
    ASSUME Shape, AloneInv, NEW t \in Tasks, Drop(t)
    PROVE  AloneInv' /\ \A u \in Tasks : LeavesAtEnd(u)
<1>1. /\ tasks[t] \in Task /\ Busy(t) /\ TaskOK(t) /\ tasks \in [Tasks -> Task]
      /\ tasks[t].stage = "drop" /\ tasks[t].kind \in {"single", "purge"} /\ todo' = todo
  BY DEF Shape, TypeOK, Drop, At, Busy, TaskOK
<1>2. PICK l \in tasks[t].list :
         LET left == tasks[t].list \ {l}
         IN  /\ links' = Without(l)
             /\ tasks' = [tasks EXCEPT ![t] =
                    IF left = {} THEN Idle ELSE [tasks[t] EXCEPT !.list = left]]
  BY DEF Drop
<1> DEFINE left == tasks[t].list \ {l}
           next == IF left = {} THEN Idle ELSE [tasks[t] EXCEPT !.list = left]
<1>3. /\ tasks' = [tasks EXCEPT ![t] = next] /\ tasks'[t] = next
      /\ links' = Without(l) /\ On(t[2])' = {m \in On(t[2]) : ~Same(m, l)}
  BY <1>1, <1>2 DEF On, Without
<1>4. ASSUME tasks[t].alone, tasks[t].kind = "purge"
      PROVE  links' \subseteq left
  <2>1. links \subseteq tasks[t].list
    BY <1>1, <1>4 DEF AloneInv, Alone
  <2> QED  BY <1>3, <2>1 DEF Without, Same
<1>5. ASSUME tasks[t].alone, tasks[t].kind = "single"
      PROVE  \E new \in SUBSET (On(t[2])') :
                /\ On(t[2])' \subseteq left \cup new
                /\ OneForEach(new, tasks[t].values)
                /\ \A n \in new, m \in left : ~Same(n, m)
  <2>1. PICK new \in SUBSET On(t[2]) :
           /\ On(t[2]) \subseteq tasks[t].list \cup new
           /\ OneForEach(new, tasks[t].values)
           /\ \A n \in new, m \in tasks[t].list : ~Same(n, m)
    BY <1>1, <1>5 DEF AloneInv, Alone
  <2>2. new \in SUBSET (On(t[2])')
    BY <1>3, <2>1
  <2>3. On(t[2])' \subseteq left \cup new
    BY <1>3, <2>1 DEF Same
  <2> QED  BY <2>1, <2>2, <2>3
<1>6. CASE left = {}
  <2>1. ASSUME tasks[t].alone PROVE Leaves(t)
    <3>1. CASE tasks[t].kind = "purge"
      BY <1>4, <1>6, <2>1, <3>1 DEF Leaves
    <3>2. CASE tasks[t].kind = "single"
      <4>1. PICK new : new = On(t[2])' /\ OneForEach(new, tasks[t].values)
        BY <1>5, <1>6, <2>1, <3>2
      <4> QED  BY <3>2, <4>1 DEF Leaves, OneForEach
    <3> QED  BY <1>1, <3>1, <3>2
  <2> QED  BY <1>1, <1>3, <1>6, <2>1, EndAlone, OnlyOneAlone DEF LeavesAtEnd
<1>7. CASE left # {}
  <2>1. /\ tasks'[t].stage = "drop" /\ tasks'[t].list = left
        /\ tasks'[t].kind = tasks[t].kind /\ tasks'[t].values = tasks[t].values
        /\ tasks'[t].alone = tasks[t].alone
    BY <1>1, <1>3, <1>7 DEF Task
  <2>2. tasks[t].alone => \A u \in Tasks : Busy(u)' => u = t
    BY <1>3, OthersIdle
  <2> HIDE DEF left, next
  <2>3. Busy(t)'
    BY <2>1 DEF Busy
  <2>4. ASSUME tasks[t].alone, tasks[t].kind = "purge" PROVE Alone(t)'
    BY <1>4, <2>1, <2>2, <2>3, <2>4 DEF Alone
  <2>5. ASSUME tasks[t].alone, tasks[t].kind = "single" PROVE Alone(t)'
    <3>1. PICK new \in SUBSET (On(t[2])') :
             /\ On(t[2])' \subseteq tasks'[t].list \cup new
             /\ OneForEach(new, tasks'[t].values)
             /\ \A n \in new, m \in tasks'[t].list : ~Same(n, m)
      BY <1>5, <2>1, <2>5
    <3>2. (OneForEach(new, tasks[t].values))' /\ \A n \in new, m \in tasks'[t].list : Same(n, m)' = Same(n, m)
      BY <3>1 DEF OneForEach, Same
    <3> QED  BY <2>1, <2>2, <2>3, <2>5, <3>1, <3>2 DEF Alone
  <2>6. ASSUME ~tasks[t].alone PROVE Alone(t)'
    BY <2>1, <2>6 DEF Alone
  <2> QED  BY <1>1, <1>3, <2>3, <2>4, <2>5, <2>6, OnlyOneAlone DEF LeavesAtEnd
<1> QED  BY <1>6, <1>7

LEMMA SendAlone ==
    ASSUME Shape, AloneInv, NEW c \in Calls, Send(c)
    PROVE  AloneInv' /\ \A u \in Tasks : LeavesAtEnd(u)
<1> DEFINE step    == Head(todo[c])
           For(t)  == \E r \in step : t = <<c, r.of>>
           Pick(t) == CHOOSE r \in step : t = <<c, r.of>>
<1>1. /\ todo[c] \in Seq(SUBSET Requests) /\ todo[c] # <<>>
      /\ todo' = [todo EXCEPT ![c] = Tail(@)] /\ tasks \in [Tasks -> Task]
      /\ \A f \in Fields : ~Busy(<<c, f>>)
  BY DEF Shape, TodoOK, TypeOK, Send
<1>2. 1 \in DOMAIN todo[c] /\ step = todo[c][1] /\ step \in SUBSET Requests
  BY <1>1
<1>3. IsFiniteSet(step)
  BY <1>2 DEF AloneInv, StepsFinite
<1>4. StepsFinite'
  <2>1. \A i \in DOMAIN Tail(todo[c]) : /\ i + 1 \in DOMAIN todo[c]
                                        /\ Tail(todo[c])[i] = todo[c][i + 1]
    BY <1>1
  <2>2. \A d \in Calls : \A i \in DOMAIN todo'[d] :
           \E j \in DOMAIN todo[d] : todo'[d][i] = todo[d][j]
    BY <1>1, <2>1 DEF Shape, TodoOK
  <2> QED  BY <2>2 DEF AloneInv, StepsFinite
<1>5. ASSUME NEW t \in Tasks, ~For(t)
      PROVE  ~tasks'[t].alone /\ (Busy(t)' <=> Busy(t))
  <2>1. tasks'[t] = [tasks[t] EXCEPT !.alone = FALSE]
    BY <1>5 DEF Send
  <2> QED  BY <1>1, <2>1 DEF Task, Busy
<1>6. ASSUME NEW t \in Tasks, For(t)
      PROVE  /\ tasks'[t].alone <=> Quiet /\ Cardinality(step) = 1
             /\ tasks'[t].stage \in {"read", "sign"} /\ Busy(t)'
             /\ tasks'[t].stage = "sign" => tasks'[t].kind = "add"
             /\ ~tasks[t].alone
  <2>1. tasks'[t] = [Idle EXCEPT !.stage  = FirstStage(Pick(t).kind), !.kind = Pick(t).kind,
                                 !.values = Pick(t).values,
                                 !.alone  = Quiet /\ Cardinality(step) = 1]
    BY <1>6 DEF Send
  <2>2. \E f \in Fields : t = <<c, f>>
    BY <1>2, <1>6 DEF Requests
  <2>3. ~Busy(t)
    BY <1>1, <2>2
  <2>4. ~tasks[t].alone
    BY <2>3 DEF AloneInv, Alone
  <2> HIDE DEF step
  <2> QED  BY <2>1, <2>4 DEF Idle, FirstStage, Busy
<1>7. ASSUME NEW t \in Tasks, tasks'[t].alone
      PROVE  For(t) /\ \A u \in Tasks : Busy(u)' => u = t
  <2>1. For(t) /\ Quiet /\ Cardinality(step) = 1
    BY <1>5, <1>6, <1>7
  <2>2. PICK r : step = {r}
    BY <1>3, <2>1, FS_Singleton
  <2>3. \A u \in Tasks : For(u) => u = t
    BY <2>1, <2>2
  <2>4. \A u \in Tasks : ~For(u) => ~Busy(u)'
    BY <1>5, <2>1 DEF Quiet
  <2> HIDE DEF For
  <2> QED  BY <2>1, <2>3, <2>4
<1>8. \A t \in Tasks : Alone(t)'
  <2> SUFFICES ASSUME NEW t \in Tasks, tasks'[t].alone PROVE Alone(t)'
    BY DEF Alone
  <2> HIDE DEF For
  <2>1. For(t) /\ \A u \in Tasks : Busy(u)' => u = t
    BY <1>7
  <2> QED  BY <1>6, <2>1 DEF Alone
<1>9. \A t \in Tasks : LeavesAtEnd(t)
  <2> SUFFICES ASSUME NEW t \in Tasks, tasks[t].alone, ~Busy(t)' PROVE FALSE
    BY DEF LeavesAtEnd
  <2>1. Busy(t)
    BY DEF AloneInv, Alone
  <2> HIDE DEF For
  <2> QED  BY <1>5, <1>6, <2>1
<1> QED  BY <1>4, <1>8, <1>9 DEF AloneInv

LEMMA FiniteSteps ==
    ASSUME NEW a, NEW b, NEW c, NEW d,
           IsFiniteSet(a), IsFiniteSet(b), IsFiniteSet(c), IsFiniteSet(d)
    PROVE  /\ \A i \in DOMAIN <<a>> : IsFiniteSet(<<a>>[i])
           /\ \A i \in DOMAIN <<a, b>> : IsFiniteSet(<<a, b>>[i])
           /\ \A i \in DOMAIN <<a, b, c>> : IsFiniteSet(<<a, b, c>>[i])
           /\ \A i \in DOMAIN <<a, b, c, d>> : IsFiniteSet(<<a, b, c, d>>[i])
OBVIOUS

LEMMA CallAlone ==
    ASSUME Shape, AloneInv, NEW c \in Calls, NEW op \in Operations, NEW v \in Values, NEW w \in Values,
           Call(c, op, v, w)
    PROVE  AloneInv' /\ \A u \in Tasks : LeavesAtEnd(u)
<1>1. /\ todo' = [todo EXCEPT ![c] = Program(op, v, w)] /\ links' = links /\ tasks' = tasks
      /\ op \in AllOperations
  BY SubjectsAssumption DEF Call, table
<1>2. \A i \in DOMAIN Program(op, v, w) : IsFiniteSet(Program(op, v, w)[i])
  <2>1. \A x : IsFiniteSet({x})
    BY FS_Singleton
  <2>2. ASSUME NEW x, NEW y PROVE IsFiniteSet({x, y})
    <3>1. {x, y} = {x} \cup {y}
      OBVIOUS
    <3>2. IsFiniteSet({x})
      BY <2>1
    <3>3. IsFiniteSet({x} \cup {y})
      BY <3>2, FS_AddElement
    <3> QED  BY <3>1, <3>3
  <2> DEFINE Finite(seq) == \A i \in DOMAIN seq : IsFiniteSet(seq[i])
  <2>3. \A x, y : Finite(<< {x} >>) /\ Finite(<< {x}, {y} >>)
    BY <2>1, FiniteSteps
  <2>4. \A x, y, z, u : Finite(<< {x}, {y}, {z}, {u} >>) /\ Finite(<< {x}, {y}, {z, u} >>)
    BY <2>1, <2>2, FiniteSteps
  <2>5. \A x, y : Finite(<< {x, y} >>)
    BY <2>2, FiniteSteps
  <2> HIDE DEF Finite
  <2>6. Finite(Program(op, v, w))
    BY <1>1, <2>3, <2>4, <2>5, Zenon DEF Program, AllOperations
  <2> QED  BY <2>6 DEF Finite
<1>3. StepsFinite'
  BY <1>1, <1>2 DEF AloneInv, StepsFinite, Shape, TodoOK
<1>4. \A t \in Tasks : Alone(t)' /\ LeavesAtEnd(t)
  BY <1>1, NothingAlone
<1> QED  BY <1>3, <1>4 DEF AloneInv

LEMMA NextAlone ==
    ASSUME Shape, AloneInv, [Next]_vars
    PROVE  /\ AloneInv'
           /\ restarts' = restarts => \A t \in Tasks : LeavesAtEnd(t)
<1>1. CASE UNCHANGED vars
  <2>1. tasks' = tasks /\ todo' = todo /\ links' = links
    BY <1>1 DEF vars, table
  <2>2. StepsFinite'
    BY <2>1 DEF AloneInv, StepsFinite
  <2> QED  BY <2>1, <2>2, NothingAlone DEF AloneInv
<1>2. CASE \E c \in Calls : Send(c) \/ \E op \in Operations, v, w \in Values : Call(c, op, v, w)
  BY <1>2, SendAlone, CallAlone
<1>3. CASE \E t \in Tasks : \/ Read(t) \/ ReadOwn(t) \/ Look(t) \/ Delete(t)
                            \/ Sign(t) \/ Insert(t) \/ Drop(t)
  BY <1>3, ReadAlone, ReadOwnAlone, LookAlone, DeleteAlone, SignAlone, InsertAlone, DropAlone
<1>4. CASE Restart
  <2>1. /\ restarts' # restarts /\ tasks' = [t \in Tasks |-> Idle]
        /\ todo' = [c \in Calls |-> <<>>]
    BY <1>4, SubjectsAssumption DEF Restart, Shape, TypeOK
  <2> QED  BY <2>1 DEF AloneInv, StepsFinite, Alone, Idle
<1> QED  BY <1>1, <1>2, <1>3, <1>4 DEF Next

(* A request that is carried out while no other is leaves in its field     *)
(* what it was told to and nothing else, whatever it finds there: setters  *)
(* and setSingleTarget() one link, setters of collections one per element, *)
(* removers none with the value, remove() of SubjectRepository nothing of  *)
(* the subject.  Requests that find two equal rows to remove, and          *)
(* setSingleTarget() if it writes what equals a row, are not counted.      *)
THEOREM AloneIsExact == Spec => WrittenAlone
<1>1. Init => Shape /\ AloneInv
  <2>1. Init => AloneInv
    BY DEF Init, AloneInv, StepsFinite, Alone, Idle
  <2> QED  BY <2>1, InitShape
<1>2. Shape /\ AloneInv /\ [Next]_vars => (Shape /\ AloneInv)'
  BY NextShape, NextAlone
<1>3. Shape /\ AloneInv /\ [Next]_vars
         => [\A t \in Tasks : tasks[t].alone /\ ~Busy(t)' /\ restarts' = restarts => Leaves(t)]_vars
  BY NextAlone DEF LeavesAtEnd
<1> QED  BY <1>1, <1>2, <1>3, PTL DEF Spec, WrittenAlone
=============================================================================
