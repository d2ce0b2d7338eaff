------------------------------ MODULE Subjects ------------------------------
(***************************************************************************)
(* Clients that write the same subject at the same time.                   *)
(*                                                                         *)
(* A subject is a set of links around a base expression: a property is the *)
(* target of the link with its predicate, a collection has one link per    *)
(* element, and the subject hangs from its source by a link of its own.    *)
(* Subject, SubjectEntity and SubjectRepository turn what they are told    *)
(* into requests to the executor, and execute_commands() (or, for          *)
(* setSingleTarget() of PerspectiveProxy, the client itself) carries each  *)
(* out in steps: read the links there are, remove one after the other,     *)
(* sign the new ones and insert them.  Nothing is locked in between.       *)
(*                                                                         *)
(* A link gets its timestamp when it is signed, some time before it is     *)
(* inserted, and get_links() sorts by timestamp and leaves rows of one     *)
(* timestamp in the order of the table.  Timestamps are milliseconds: two  *)
(* clients of an executor, or one that writes an element twice, can sign   *)
(* the same link in the same millisecond.  The table then has it twice,    *)
(* and what finds, updates or deletes a link knows no difference between   *)
(* the two rows.  Times and the order of the table are compared within a   *)
(* field only, so each counts its own.  The Prolog side of a subject class *)
(* is data.                                                                *)
(***************************************************************************)
EXTENDS Naturals, Sequences, FiniteSets, Functions

CONSTANTS
    Calls,        \* calls of clients, of one operation each
    Operations,   \* what those may be
    Values,       \* what properties and elements of collections are set to
    Initial,      \* the property's value in the constructor of the class
    Before,       \* bounds: rows that the property may have at the start,
    MaxRestarts   \* and restarts of the executor

AllOperations ==
    {"setter", "single", "save", "update", "addTo", "removeFrom",
     "delete", "create", "change", "remove"}

ASSUME SubjectsAssumption ==
    /\ Operations \subseteq AllOperations
    /\ Initial \in Values /\ IsFiniteSet(Values)
    /\ Before \in Nat /\ MaxRestarts \in Nat

Fields == {"property", "collection", "child"}
Base   == "base"      \* the target of the link from the source
Row    == [nr : Nat, at : Nat, of : Fields, is : Values \cup {Base}]

VARIABLES
    links,      \* what the database has of the subject
    had,        \* all rows that its property ever had
    count,      \* per field, how many rows it ever had
    clock,      \* ... the time of its last signature
    does,       \* per call, its operation, or "none" before it begins
    todo,       \* ... the steps it has left
    tasks,      \* per call and field, the request that is carried out
    restarts

table == <<links, had, count>>
vars  == <<table, clock, does, todo, tasks, restarts>>

Tasks  == Calls \X Fields
Stages == {"idle", "read", "readTo", "look", "delete", "sign", "insert", "drop"}
Kinds  == {"set", "single", "replace", "add", "remove", "purge"}

(* What a request is told to write, the rows it has read, the times of its *)
(* signatures; has it been alone so far, and read and written no two equal *)
(* rows?                                                                   *)
Task == [stage : Stages, kind : Kinds, values : Seq(Values \cup {Base}),
         list : SUBSET Row, times : Seq(Nat), alone : BOOLEAN]

Idle == [stage |-> "idle", kind |-> "add", values |-> <<>>, list |-> {},
         times |-> <<>>, alone |-> FALSE]

TypeOK ==
    /\ links \subseteq Row /\ had \subseteq Row
    /\ count \in [Fields -> Nat] /\ clock \in [Fields -> Nat]
    /\ does \in [Calls -> AllOperations \cup {"none"}]
    /\ tasks \in [Tasks -> Task]
    /\ restarts \in 0 .. MaxRestarts

(* The times of n signatures, one after the other, after the time now: in  *)
(* the same millisecond or in the next one with a signature.               *)
Times(now, n) ==
    {at \in [1 .. n -> now .. now + n] :
        /\ \A i, j \in 1 .. n : i <= j => at[j] \in at[i] .. at[i] + j - i
        /\ \A i \in 1 .. n : at[i] \in 1 .. now + i}

After(now, at) == IF at = <<>> THEN now ELSE at[Len(at)]

Init ==
    /\ \E n \in 0 .. Before : \E at \in Times(0, n) :
          /\ links = {[nr |-> i, at |-> at[i], of |-> "property", is |-> Initial] : i \in 1 .. n}
          /\ count = [f \in Fields |-> IF f = "property" THEN n ELSE 0]
          /\ clock = [f \in Fields |-> IF f = "property" THEN After(0, at) ELSE 0]
    /\ had = links
    /\ does = [c \in Calls |-> "none"]
    /\ todo = [c \in Calls |-> <<>>]
    /\ tasks = [t \in Tasks |-> Idle]
    /\ restarts = 0

On(f)       == {l \in links : l.of = f}
Same(l, m)  == l.at = m.at /\ l.of = m.of /\ l.is = m.is
Distinct(S) == \A l, m \in S : Same(l, m) => l = m
Busy(t)     == tasks[t].stage # "idle"
Quiet       == \A t \in Tasks : ~Busy(t)
AtRest      == Quiet /\ \A c \in Calls : todo[c] = <<>>

-----------------------------------------------------------------------------
(* The operations: a sequence of steps, each of which makes some requests  *)
(* at once and awaits their answers.                                       *)

Request(kind, f, vs) == [kind |-> kind, of |-> f, values |-> vs]

Construct   == Request("add", "property", <<Initial>>)
Connect     == Request("add", "child", <<Base>>)
Set(v)      == Request("set", "property", <<v>>)
Replace(vs) == Request("replace", "collection", vs)
Add(v)      == Request("add", "collection", <<v>>)

(* "setter" to "delete" are methods of Subject, PerspectiveProxy and       *)
(* SubjectEntity, the others of SubjectRepository, which does not await    *)
(* what it sets.  A remover of an entity's update() is followed by the     *)
(* setter of the collection, which is told what the entity holds: any      *)
(* elements in any order, one of them perhaps twice.                       *)
Program(op, v, w) ==
    CASE op = "setter"     -> << {Set(v)} >>
      [] op = "single"     -> << {Request("single", "property", <<v>>)} >>
      [] op = "save"       -> << {Construct}, {Connect}, {Set(v)}, {Replace(<<v>>)} >>
      [] op = "update"     -> << {Set(v)}, {Replace(<<v, w>>)} >>
      [] op = "addTo"      -> << {Set(v)}, {Add(v)} >>
      [] op = "removeFrom" -> << {Request("remove", "collection", <<v>>)}, {Replace(<<v>>)} >>
      [] op = "delete"     -> << {Request("remove", "property", <<Initial>>)} >>
      [] op = "create"     -> << {Construct}, {Connect}, {Set(v), Add(v)} >>
      [] op = "change"     -> << {Set(v), Add(v)} >>
      [] op = "remove"     -> << {Request("purge", "child", <<>>)} >>

Creating == {"save", "create", "single"}

(* Only an instance of the class has a proxy; an entity is one by itself.  *)
Call(c, op, v, w) ==
    /\ does[c] = "none"
    /\ op \in Creating \/ had # {}
    /\ does' = [does EXCEPT ![c] = op]
    /\ todo' = [todo EXCEPT ![c] = Program(op, v, w)]
    /\ UNCHANGED <<table, clock, tasks, restarts>>

FirstStage(kind) == IF kind = "add" THEN "sign" ELSE "read"

(* The requests of the next step are on their way.                         *)
Send(c) ==
    /\ todo[c] # <<>>
    /\ \A f \in Fields : ~Busy(<<c, f>>)
    /\ tasks' = [t \in Tasks |->
          IF \E r \in Head(todo[c]) : t = <<c, r.of>>
          THEN LET r == CHOOSE r \in Head(todo[c]) : t = <<c, r.of>>
               IN  [Idle EXCEPT !.stage  = FirstStage(r.kind),
                                !.kind   = r.kind,
                                !.values = r.values,
                                !.alone  = Quiet /\ Cardinality(Head(todo[c])) = 1]
          ELSE [tasks[t] EXCEPT !.alone = FALSE]]
    /\ todo' = [todo EXCEPT ![c] = Tail(@)]
    /\ UNCHANGED <<table, clock, does, restarts>>

-----------------------------------------------------------------------------
(* The steps of a request.                                                 *)

At(t, stage) == tasks[t].stage = stage
Goto(t, stage) == tasks' = [tasks EXCEPT ![t].stage = stage]
End(t) == tasks' = [tasks EXCEPT ![t] = Idle]

AfterReading(kind, list) ==
    IF kind = "single" THEN "sign"
    ELSE IF list # {} THEN "look"
    ELSE IF kind = "remove" THEN "idle" ELSE "sign"

(* get_links(): of the links of a field, or with one target of it.         *)
Read(t) ==
    /\ At(t, "read")
    /\ LET task == tasks[t]
           list == CASE task.kind = "remove" -> {l \in On(t[2]) : l.is \in Range(task.values)}
                     [] task.kind = "purge"  -> On("child")
                     [] OTHER                -> On(t[2])
           to   == IF task.kind = "purge" THEN "readTo"
                   ELSE AfterReading(task.kind, list)
       IN  tasks' = [tasks EXCEPT ![t] =
                IF to = "idle" THEN Idle
                ELSE [task EXCEPT !.list = list, !.stage = to,
                                  !.alone = @ /\ (to = "look" => Distinct(list))]]
    /\ UNCHANGED <<table, clock, does, todo, restarts>>

(* remove() of SubjectRepository also asks for the links of the subject.   *)
ReadOwn(t) ==
    /\ At(t, "readTo")
    /\ LET list == tasks[t].list \cup (links \ On("child"))
       IN  tasks' = [tasks EXCEPT ![t] =
                IF list = {} THEN Idle ELSE [tasks[t] EXCEPT !.list = list, !.stage = "drop"]]
    /\ UNCHANGED <<table, clock, does, todo, restarts>>

Sooner(l, m) == l.at < m.at \/ (l.at = m.at /\ l.nr < m.nr)
Earliest(ls) == CHOOSE l \in ls : \A m \in ls : l = m \/ Sooner(l, m)

(* What deleting a row leaves: no row that equals it.                      *)
Without(l) == {m \in links : ~Same(m, l)}

\* mutant: the links are removed in any order
RemoveAny(t) ==
    /\ At(t, "look")
    /\ \E l \in tasks[t].list :
          IF \E m \in links : Same(m, l)
          THEN /\ links' = Without(l)
               /\ tasks' = [tasks EXCEPT ![t].list = @ \ {l},
                               ![t].stage = IF tasks[t].list = {l} THEN "sign" ELSE "look"]
               /\ UNCHANGED todo
          ELSE End(t) /\ todo' = [todo EXCEPT ![t[1]] = <<>>] /\ UNCHANGED links
    /\ UNCHANGED <<had, count, clock, does, restarts>>

(* remove_link() finds the link, or the whole request fails and the call   *)
(* with it, what it has not asked for yet included.                        *)
Look(t) ==
    /\ At(t, "look")
    /\ IF \E m \in links : Same(m, Earliest(tasks[t].list))
       THEN Goto(t, "delete") /\ UNCHANGED todo
       ELSE End(t) /\ todo' = [todo EXCEPT ![t[1]] = <<>>]
    /\ UNCHANGED <<table, clock, does, restarts>>

(* ... and deletes it, with all rows that equal it.  Another request may   *)
(* have done so in between.                                                *)
Delete(t) ==
    /\ At(t, "delete")
    /\ LET l    == Earliest(tasks[t].list)
           left == tasks[t].list \ {l}
           to   == IF left # {} THEN "look"
                   ELSE IF tasks[t].kind = "remove" THEN "idle" ELSE "sign"
       IN  /\ links' = Without(l)
           /\ tasks' = [tasks EXCEPT ![t] =
                  IF to = "idle" THEN Idle ELSE [tasks[t] EXCEPT !.list = left, !.stage = to]]
    /\ UNCHANGED <<had, count, clock, does, todo, restarts>>

(* add_link(), add_links() and link_mutations(): every link is signed, one *)
(* after the other, in the millisecond of the last signature or later.     *)
Sign(t) ==
    /\ At(t, "sign")
    /\ \E at \in Times(clock[t[2]], Len(tasks[t].values)) :
          /\ tasks' = [tasks EXCEPT ![t].times = at, ![t].stage = "insert"]
          /\ clock' = [clock EXCEPT ![t[2]] = After(@, at)]
    /\ UNCHANGED <<table, does, todo, restarts>>

\* mutant: "value" in the target of an action is not replaced
NamedRows(t) == {[nr |-> count[t[2]] + i, at |-> tasks[t].times[i], of |-> t[2], is |-> "value"] :
                    i \in DOMAIN tasks[t].values}

NewRows(t) == {[nr |-> count[t[2]] + i, at |-> tasks[t].times[i], of |-> t[2], is |-> tasks[t].values[i]] :
                  i \in DOMAIN tasks[t].values}

(* ... and then all are inserted, also what the table has already.         *)
Insert(t) ==
    /\ At(t, "insert")
    /\ links' = links \cup NewRows(t)
    /\ had' = IF t[2] = "property" THEN had \cup NewRows(t) ELSE had
    /\ count' = [count EXCEPT ![t[2]] = @ + Len(tasks[t].values)]
    /\ IF tasks[t].kind = "single" /\ tasks[t].list # {}
       THEN tasks' = [tasks EXCEPT ![t].stage = "drop",
                         ![t].alone = @ /\ \A n \in NewRows(t), l \in tasks[t].list : ~Same(n, l)]
       ELSE End(t)
    /\ UNCHANGED <<clock, does, todo, restarts>>

\* mutant: only the first of the links that were read is removed
DropOne(t) ==
    /\ At(t, "drop")
    /\ \E l \in tasks[t].list : links' = Without(l) /\ End(t)
    /\ UNCHANGED <<had, count, clock, does, todo, restarts>>

(* link_mutations() and remove_links() delete what was read, in the order  *)
(* of get_links(), and mind no link that is gone.                          *)
Drop(t) ==
    /\ At(t, "drop")
    /\ \E l \in tasks[t].list :
          LET left == tasks[t].list \ {l}
          IN  /\ \A m \in left : IF m.of = l.of THEN Sooner(l, m) ELSE l.of # "child"
              /\ links' = Without(l)
              /\ tasks' = [tasks EXCEPT ![t] =
                    IF left = {} THEN Idle ELSE [tasks[t] EXCEPT !.list = left]]
    /\ UNCHANGED <<had, count, clock, does, todo, restarts>>

(* The executor stops and starts again: no request goes on.                *)
Restart ==
    /\ restarts < MaxRestarts /\ ~Quiet
    /\ restarts' = restarts + 1
    /\ tasks' = [t \in Tasks |-> Idle]
    /\ todo' = [c \in Calls |-> <<>>]
    /\ UNCHANGED <<table, clock, does>>

Next ==
    \/ \E c \in Calls : Send(c) \/ \E op \in Operations, v, w \in Values : Call(c, op, v, w)
    \/ \E t \in Tasks : \/ Read(t) \/ ReadOwn(t) \/ Look(t) \/ Delete(t)
                        \/ Sign(t) \/ Insert(t) \/ Drop(t)
    \/ Restart

Spec == Init /\ [][Next]_vars

-----------------------------------------------------------------------------
(* No subject was deleted, no request was cut off, and no two rows of the  *)
(* property have ever been equal.                                          *)
Calm ==
    /\ restarts = 0 /\ \A c \in Calls : does[c] \notin {"delete", "remove"}
    /\ Distinct(had)

(* A property that once had a value has one at rest, however many clients  *)
(* set it at the same time, and in the same millisecond if not to the same *)
(* value: of those that remove the same links, the one that removes the    *)
(* last of them does not fail.  It is not so once two rows are equal: a    *)
(* setter removes both with the first, does not find the second, and gives *)
(* up with nothing in their place.                                         *)
ValueKept ==
    AtRest /\ Calm /\ had # {} => On("property") # {}

(* Whoever writes a field with nobody else around leaves what he was told  *)
(* to and nothing else, whatever earlier writers have left there, and an   *)
(* element as often as he was told; unless a setter or remover finds two   *)
(* equal rows, of which it does not find the second, or setSingleTarget()  *)
(* adds what equals a row that it is to remove.  Who deletes a subject     *)
(* deletes equal rows as well.                                             *)
Leaves(t) ==
    CASE tasks[t].kind \in {"set", "single", "replace"} ->
            /\ {l.is : l \in On(t[2])'} = Range(tasks[t].values)
            /\ Cardinality(On(t[2])') = Len(tasks[t].values)
      [] tasks[t].kind = "remove" -> \A l \in On(t[2])' : l.is \notin Range(tasks[t].values)
      [] tasks[t].kind = "purge"  -> links' = {}
      [] OTHER                    -> NewRows(t) \subseteq links'

WrittenAlone ==
    [][\A t \in Tasks : tasks[t].alone /\ ~Busy(t)' /\ restarts' = restarts => Leaves(t)]_vars
=============================================================================
