------------------------------ MODULE AIModels ------------------------------
(***************************************************************************)
(* The language models of AIService: ai_service/mod.rs.                    *)
(*                                                                         *)
(* Models, tasks and the default model are rows of the database.  Each     *)
(* model runs in a thread of its own, which is reached by the channel that *)
(* llm_channel has for it and keeps the tasks that were spawned in it.     *)
(* Whoever sends a request to a thread holds the lock of llm_channel until *)
(* the answer is there, also while the thread still loads its model.       *)
(* The calls of clients change the rows and the threads one after the      *)
(* other; nothing but that lock keeps two calls apart.                     *)
(*                                                                         *)
(* A behaviour begins with load(), over whatever rows the last life of the *)
(* process has left, so that restarts are behaviours that begin.  Calls    *)
(* that are refused before they have changed anything are left out, and    *)
(* the order of the rows of a table is any.  Local and remote models       *)
(* differ in what may fail and in the status that is published; a model    *)
(* stays what it is.  Embeddings and transcription have no tasks and no    *)
(* rows that change; their threads are left out.                           *)
(***************************************************************************)
EXTENDS Naturals, Sequences, FiniteSets, Functions

CONSTANTS
    Models,      \* ids of models, each given out once
    Tasks,       \* ids of tasks, the same
    Calls,       \* calls of clients
    Local,       \* models that run here; the others are remote
    MaxFailures, \* bound: builds that fail
    NoModel

Loader  == "load"
Default == "default"

(* Ids are neither of the words that stand for no id, nor clients' calls   *)
(* that of the executor.                                                   *)
ASSUME IdsDiffer ==
    /\ {"none", "gone", Default} \cap (Models \cup {NoModel}) = {} /\ NoModel \notin Models
    /\ "none" \notin Tasks /\ Loader \notin Calls

Callers == Calls \cup {Loader}
Bodies  == {"bare", "whole"}

VARIABLES
    models,      \* the rows of models, each with or without a definition
    default,     \* the row of default_models for language models
    tasks,       \* the rows of tasks
    loaded,      \* `loaded' in the rows of model_status
    texts,       \* number of texts written to tasks so far
    threads,     \* all threads there have been
    channel,     \* llm_channel: the thread of each model, or 0
    lock,        \* its lock: the holder, then those who wait
    does,        \* per call, what it is told to do
    stage,       \* ... how far it is
    request,     \* ... what it asks a thread for
    rest,        \* ... the tasks it has still to spawn
    starts,      \* the models load() has still to start, as it read them
    overlapped,  \* did two calls that write overlap?
    unspawned    \* tasks that the code gave up to spawn, or passed over

rows == <<models, default, tasks, texts>>
vars == <<models, default, tasks, loaded, texts, threads, channel, lock, does,
          stage, request, rest, starts, overlapped, unspawned>>

Operations == {"load", "addModel", "updateModel", "removeModel", "setDefault",
               "addTask", "updateTask", "deleteTask", "prompt"}
Stages     == {"idle", "again", "ask", "await", "ok", "err", "start", "insert",
               "ready", "read", "init", "list", "next", "fetch", "erase", "done"}

Row     == [task : Tasks, on : Models \cup {Default, "none", "gone"}, text : Nat]
Request == [kind : {"none", "spawn", "remove", "prompt", "shutdown"},
            task : Tasks \cup {"none"}, on : Models \cup {Default, "none"},
            text : Nat]
Thread  == [model : Models, by : Callers,
            phase : {"spawned", "building", "ready", "failed", "over"},
            late : BOOLEAN,            \* has it still a progress to publish?
            tasks : [Tasks -> Nat],    \* their texts, 0 for none
            inbox : Seq([from : Callers, ask : Request])]

TypeOK ==
    /\ models \in [Models -> Bodies \cup {"none", "gone"}]
    /\ default \in Models \cup {NoModel}
    /\ tasks \in [Tasks -> Row]
    /\ loaded \in [Models -> BOOLEAN]
    /\ threads \in Seq(Thread)
    /\ channel \in [Models -> 0 .. Len(threads)]
    /\ \A m \in Models : channel[m] # 0 => threads[channel[m]].model = m
    /\ lock \in Seq(Callers)
    /\ stage \in [Callers -> Stages]
    /\ request \in [Callers -> Request]
    /\ rest \in [Callers -> SUBSET Row]
    /\ starts \subseteq Models \X Bodies
    /\ unspawned \subseteq Tasks

Present  == {m \in Models : models[m] \in Bodies}
Known    == {m \in Models : models[m] # "none"}
Stored   == {t \in Tasks : tasks[t].on \notin {"none", "gone"}}
Writers  == {c \in Callers : /\ does[c].op # "prompt"
                             /\ stage[c] \notin {"idle", "done"}}
Quiet    == Writers = {}
Alive    == {"spawned", "building", "ready"}

(* replace_model_variables()                                               *)
Resolve(on) == IF on = Default THEN default ELSE on

Ask(kind, t, on, text) ==
    [kind |-> kind, task |-> t, on |-> on, text |-> text]
Nothing == Ask("none", "none", "none", 0)

Init ==
    /\ models \in [Models -> Bodies \cup {"none", "gone"}]
    /\ default \in Known \cup {NoModel}
    /\ \E on \in [Tasks -> Known \cup {Default, "none"}] :
         tasks = [t \in Tasks |-> [task |-> t, on |-> on[t], text |-> 1]]
    /\ loaded \in [Models -> BOOLEAN]
    /\ \A m \in Models : loaded[m] => m \in Known
    /\ texts = 1
    /\ threads = <<>>
    /\ channel = [m \in Models |-> 0]
    /\ lock = <<>>
    /\ does = [c \in Callers |-> [op |-> "load", body |-> "whole",
                                  model |-> NoModel, task |-> "none"]]
    /\ stage = [c \in Callers |-> IF c = Loader THEN "read" ELSE "idle"]
    /\ request = [c \in Callers |-> Nothing]
    /\ rest = [c \in Callers |-> {}]
    /\ starts = {}
    /\ overlapped = FALSE
    /\ unspawned = {}

-----------------------------------------------------------------------------
(* What the steps of calls are made of.                                    *)

Holds(c) == lock # <<>> /\ Head(lock) = c

Go(c, s)     == stage' = [stage EXCEPT ![c] = s]
Queue(c, s)  == Go(c, s) /\ lock' = Append(lock, c)
Asks(c, r)   == request' = [request EXCEPT ![c] = r]
Spawns(c, r) == Asks(c, Ask("spawn", r.task, r.on, r.text)) /\ Queue(c, "ask")
GiveUp(ts)   == unspawned' = unspawned \cup ts

Call(c, op, m, t, body) ==
    /\ stage[c] = "idle"
    /\ does' = [does EXCEPT ![c] = [op |-> op, body |-> body, model |-> m,
                                    task |-> t]]
    /\ overlapped' = (overlapped \/ (op # "prompt" /\ ~Quiet))
    /\ UNCHANGED <<loaded, threads, channel, rest, starts, unspawned>>

Write(t, on) ==
    /\ texts' = texts + 1
    /\ tasks' = [tasks EXCEPT ![t] = [task |-> t, on |-> on, text |-> texts + 1]]
    /\ UNCHANGED <<models, default>>

-----------------------------------------------------------------------------
(* The calls: what each does before it waits for the first time.           *)

(* add_model(): spawn_llm_model() refuses a model without a definition.    *)
AddModel(c, m, body) ==
    /\ Call(c, "addModel", m, "none", body)
    /\ models[m] = "none"
    /\ models' = [models EXCEPT ![m] = body]
    /\ IF body = "whole" THEN Queue(c, "insert")
                         ELSE Go(c, "done") /\ UNCHANGED lock
    /\ UNCHANGED <<default, tasks, texts, request>>

(* update_model() writes the row, then reads it again.                     *)
UpdateModel(c, m, body) ==
    /\ Call(c, "updateModel", m, "none", body)
    /\ m \in Present
    /\ models' = [models EXCEPT ![m] = body]
    /\ Go(c, "again")
    /\ UNCHANGED <<default, tasks, texts, lock, request>>

RemoveModel(c, m) ==
    /\ Call(c, "removeModel", m, "none", "whole")
    /\ m \in Present
    /\ Asks(c, Ask("shutdown", "none", m, 0))
    /\ Queue(c, "ask")
    /\ UNCHANGED rows

SetDefault(c, m) ==
    /\ Call(c, "setDefault", m, "none", "whole")
    /\ m \in Present
    /\ default' = m
    /\ Go(c, "list")
    /\ UNCHANGED <<models, tasks, texts, lock, request>>

AddTask(c, t, on) ==
    /\ Call(c, "addTask", NoModel, t, "whole")
    /\ tasks[t].on = "none"
    /\ Write(t, on)
    /\ Spawns(c, tasks'[t])

(* update_task() writes the row, and then has the task removed where the   *)
(* new row says it is.                                                     *)
UpdateTask(c, t, on) ==
    /\ Call(c, "updateTask", NoModel, t, "whole")
    /\ t \in Stored
    /\ Write(t, on)
    /\ Asks(c, Ask("remove", t, on, 0))
    /\ Queue(c, "ask")

DeleteTask(c, t) ==
    /\ Call(c, "deleteTask", NoModel, t, "whole")
    /\ t \in Stored
    /\ Asks(c, Ask("remove", t, tasks[t].on, 0))
    /\ Queue(c, "ask")
    /\ UNCHANGED rows

(* prompt() resolves the model before it waits for the lock.               *)
Prompt(c, t) ==
    /\ Call(c, "prompt", NoModel, t, "whole")
    /\ t \in Stored
    /\ Resolve(tasks[t].on) # NoModel
    /\ Asks(c, Ask("prompt", t, Resolve(tasks[t].on), 0))
    /\ Queue(c, "ask")
    /\ UNCHANGED rows

-----------------------------------------------------------------------------
(* Requests to threads, under the lock.                                    *)

(* spawn_task() and remove_task() resolve the model now, the latter from   *)
(* the row as it is now; the others know it.                               *)
Target(c) ==
    LET r == request[c] IN
    CASE r.kind = "spawn"  -> Resolve(r.on)
      [] r.kind = "remove" -> IF r.task \in Stored THEN Resolve(tasks[r.task].on)
                                                   ELSE NoModel
      [] OTHER             -> r.on

Reachable(m) ==
    m # NoModel /\ channel[m] # 0 /\ threads[channel[m]].phase \in Alive

AtLock == UNCHANGED <<rows, loaded, does, starts, overlapped>>

Send(c) ==
    /\ stage[c] = "ask"
    /\ Holds(c)
    /\ Reachable(Target(c))
    /\ threads' = [threads EXCEPT ![channel[Target(c)]].inbox =
                     Append(@, [from |-> c, ask |-> request[c]])]
    /\ Go(c, "await")
    /\ AtLock
    /\ UNCHANGED <<channel, lock, request, rest, unspawned>>

(* No model, no channel for it, or nobody who listens: an error, except    *)
(* for who wants to shut the thread down.                                  *)
NotSent(c) ==
    /\ stage[c] = "ask"
    /\ Holds(c)
    /\ ~Reachable(Target(c))
    /\ Go(c, IF request[c].kind = "shutdown" THEN "ok" ELSE "err")
    /\ AtLock
    /\ UNCHANGED <<threads, channel, lock, request, rest, unspawned>>

\* mutant: remove_model() leaves the row
FollowingLeft(op, kind) ==
    CASE kind = "shutdown" -> IF op = "updateModel" THEN "start" ELSE "done"
      [] kind = "remove"   -> IF op = "updateTask" THEN "fetch" ELSE "erase"
      [] kind = "spawn"    -> IF op \in {"addTask", "updateTask"}
                                THEN "done" ELSE "next"
      [] kind = "prompt"   -> "done"

(* What comes after an answer; the lock is released.                       *)
Following(op, kind) ==
    CASE kind = "shutdown" -> IF op = "updateModel" THEN "start" ELSE "erase"
      [] kind = "remove"   -> IF op = "updateTask" THEN "fetch" ELSE "erase"
      [] kind = "spawn"    -> IF op \in {"addTask", "updateTask"}
                                THEN "done" ELSE "next"
      [] kind = "prompt"   -> "done"

Answered(c) ==
    /\ stage[c] = "ok"
    /\ Holds(c)
    /\ lock' = Tail(lock)
    /\ Go(c, Following(does[c].op, request[c].kind))
    /\ channel' = IF request[c].kind = "shutdown"
                    THEN [channel EXCEPT ![request[c].on] = 0] ELSE channel
    /\ AtLock
    /\ UNCHANGED <<threads, request, rest, unspawned>>

(* The first error ends the call, a loop over tasks as well; the answer to *)
(* a shutdown is not looked at.                                            *)
Refused(c) ==
    /\ stage[c] = "err"
    /\ Holds(c)
    /\ lock' = Tail(lock)
    /\ IF request[c].kind = "shutdown"
         THEN /\ Go(c, Following(does[c].op, "shutdown"))
              /\ channel' = [channel EXCEPT ![request[c].on] = 0]
              /\ UNCHANGED <<rest, unspawned>>
         ELSE /\ Go(c, "done")
              /\ rest' = [rest EXCEPT ![c] = {}]
              /\ IF does[c].op \in {"deleteTask", "prompt"}
                   THEN UNCHANGED unspawned
                   ELSE GiveUp({request[c].task} \cup {r.task : r \in rest[c]})
              /\ UNCHANGED channel
    /\ AtLock
    /\ UNCHANGED <<threads, request>>

-----------------------------------------------------------------------------
(* The other steps of calls.                                               *)

Calling == UNCHANGED <<loaded, starts, overlapped>>

(* update_model(): the row as it is now, if it is still there.             *)
Again(c) ==
    /\ stage[c] = "again"
    /\ LET m == does[c].model IN
         IF m \in Present
           THEN /\ does' = [does EXCEPT ![c].body = models[m]]
                /\ Asks(c, Ask("shutdown", "none", m, 0))
                /\ Queue(c, "ask")
           ELSE Go(c, "done") /\ UNCHANGED <<does, request, lock>>
    /\ Calling
    /\ UNCHANGED <<rows, threads, channel, rest, unspawned>>

(* update_model(): spawn_llm_model() with the new definition, if any.      *)
Start(c) ==
    /\ stage[c] = "start"
    /\ IF does[c].body = "whole" THEN Queue(c, "insert")
                                 ELSE Go(c, "done") /\ UNCHANGED lock
    /\ Calling
    /\ UNCHANGED <<rows, threads, channel, does, request, rest, unspawned>>

Spawned(c, m) == [model |-> m, by |-> c, phase |-> "spawned", late |-> FALSE,
                  tasks |-> [t \in Tasks |-> 0], inbox |-> <<>>]

\* mutant: the channel of the thread before
FreshLast == Len(threads)

Fresh == Len(threads) + 1

(* spawn_llm_model(): a new channel replaces the one of the model.         *)
Insert(c) ==
    /\ stage[c] = "insert"
    /\ Holds(c)
    /\ lock' = Tail(lock)
    /\ LET m == IF c = Loader THEN request[c].on ELSE does[c].model IN
         /\ threads' = Append(threads, Spawned(c, m))
         /\ channel' = [channel EXCEPT ![m] = Fresh]
    /\ Go(c, CASE does[c].op = "addModel"    -> "done"
               [] does[c].op = "updateModel" -> "ready"
               [] does[c].op = "load"        -> "init")
    /\ Calling
    /\ UNCHANGED <<rows, does, request, rest, unspawned>>

(* update_model() waits until the new thread is ready, or gives up.        *)
Ready(c) ==
    /\ stage[c] = "ready"
    /\ \E i \in DOMAIN threads :
         /\ threads[i].by = c
         /\ threads[i].phase \notin {"spawned", "building"}
         /\ Go(c, IF threads[i].phase = "failed" THEN "done" ELSE "list")
    /\ Calling
    /\ UNCHANGED <<rows, threads, channel, lock, does, request, rest, unspawned>>

(* load() reads the models and starts them all.                            *)
ReadModels ==
    /\ stage[Loader] = "read"
    /\ starts' = {<<m, models[m]>> : m \in Present}
    /\ Go(Loader, "init")
    /\ UNCHANGED <<rows, loaded, threads, channel, lock, does, request, rest,
                   overlapped, unspawned>>

(* init_model() of one of them, in the order in which they get the lock;   *)
(* the definition is the one that was read.                                *)
InitModel(m, body) ==
    /\ stage[Loader] = "init"
    /\ <<m, body>> \in starts
    /\ starts' = starts \ {<<m, body>>}
    /\ IF body = "whole"
         THEN Asks(Loader, Ask("none", "none", m, 0)) /\ Queue(Loader, "insert")
         ELSE UNCHANGED <<request, stage, lock>>
    /\ UNCHANGED <<rows, loaded, threads, channel, does, rest, overlapped,
                   unspawned>>

Initialised ==
    /\ stage[Loader] = "init"
    /\ starts = {}
    /\ Go(Loader, "list")
    /\ Calling
    /\ UNCHANGED <<rows, threads, channel, lock, does, request, rest, unspawned>>

(* The tasks to spawn: all of them in load(), those of the default model   *)
(* in set_default_model(), and those of the model by its own name in       *)
(* update_model().                                                         *)
Listed(op, m) ==
    {t \in Stored : CASE op = "load"        -> TRUE
                     [] op = "setDefault"  -> tasks[t].on = Default
                     [] op = "updateModel" -> tasks[t].on = m}

(* So update_model() leaves the tasks of the default model without their   *)
(* thread.                                                                 *)
List(c) ==
    /\ stage[c] = "list"
    /\ LET op == does[c].op
           m  == does[c].model
       IN  /\ rest' = [rest EXCEPT ![c] = {tasks[t] : t \in Listed(op, m)}]
           /\ GiveUp({t \in Stored : /\ op = "updateModel" /\ default = m
                                     /\ tasks[t].on = Default})
    /\ Go(c, "next")
    /\ Calling
    /\ UNCHANGED <<rows, threads, channel, lock, does, request>>

SpawnNext(c) ==
    /\ stage[c] = "next"
    /\ IF rest[c] = {}
         THEN Go(c, "done") /\ UNCHANGED <<request, rest, lock>>
         ELSE \E r \in rest[c] :
                /\ rest' = [rest EXCEPT ![c] = @ \ {r}]
                /\ Spawns(c, r)
    /\ Calling
    /\ UNCHANGED <<rows, threads, channel, does, unspawned>>

(* update_task(): the row as it is now is spawned.                         *)
Fetch(c) ==
    /\ stage[c] = "fetch"
    /\ LET t == request[c].task IN
         IF t \in Stored THEN Spawns(c, tasks[t])
                         ELSE Go(c, "done") /\ UNCHANGED <<request, lock>>
    /\ Calling
    /\ UNCHANGED <<rows, threads, channel, does, rest, unspawned>>

(* remove_model() and delete_task(): the row goes last.                    *)
Erase(c) ==
    /\ stage[c] = "erase"
    /\ IF does[c].op = "removeModel"
         THEN /\ models' = [models EXCEPT ![does[c].model] = "gone"]
              /\ UNCHANGED tasks
         ELSE /\ tasks' = [tasks EXCEPT ![does[c].task].on = "gone"]
              /\ UNCHANGED models
    /\ Go(c, "done")
    /\ Calling
    /\ UNCHANGED <<default, texts, threads, channel, lock, does, request, rest,
                   unspawned>>

CallStep(c) ==
    \/ Send(c) \/ NotSent(c) \/ Answered(c) \/ Refused(c)
    \/ Again(c) \/ Start(c) \/ Insert(c) \/ Ready(c)
    \/ List(c) \/ SpawnNext(c) \/ Fetch(c) \/ Erase(c)

LoadStep ==
    ReadModels \/ Initialised \/ \E m \in Models, b \in Bodies : InitModel(m, b)

-----------------------------------------------------------------------------
(* The threads.                                                            *)

Threading == UNCHANGED <<rows, channel, lock, does, request, rest, starts,
                         overlapped>>

Publish(i, is) == loaded' = [loaded EXCEPT ![threads[i].model] = is]
IsLocal(i)     == threads[i].model \in Local
Phase(i, p)    == [threads[i] EXCEPT !.phase = p]

\* mutant: who waits for a thread that ends is not told
DroppedSilently(i, from) == UNCHANGED stage

(* What waits in the channel of a thread that ends is answered by none.    *)
Dropped(i, from) ==
    stage' = [c \in Callers |->
                IF \E k \in from .. Len(threads[i].inbox) :
                     threads[i].inbox[k].from = c
                  THEN "err" ELSE stage[c]]

(* "Spawning model thread..."                                              *)
Begin(i) ==
    /\ threads[i].phase = "spawned"
    /\ threads' = [threads EXCEPT ![i] = Phase(i, "building")]
    /\ Publish(i, FALSE)
    /\ Threading
    /\ UNCHANGED <<stage, unspawned>>

(* The model is there, "Ready"; a task of handle_progress() may not have   *)
(* run yet.                                                                *)
Built(i, late) ==
    /\ threads[i].phase = "building"
    /\ late => IsLocal(i)
    /\ threads' = [threads EXCEPT ![i] = [Phase(i, "ready") EXCEPT !.late = late]]
    /\ Publish(i, TRUE)
    /\ Threading
    /\ UNCHANGED <<stage, unspawned>>

BuildFailed(i) ==
    /\ threads[i].phase = "building"
    /\ Cardinality({k \in DOMAIN threads : threads[k].phase = "failed"}) < MaxFailures
    /\ threads' = [threads EXCEPT ![i] = [Phase(i, "failed") EXCEPT !.inbox = <<>>]]
    /\ Publish(i, FALSE)
    /\ Dropped(i, 1)
    /\ Threading
    /\ UNCHANGED unspawned

(* handle_progress(), after the model is ready and before the thread ends, *)
(* which cancels it.                                                       *)
Late(i) ==
    /\ threads[i].late
    /\ threads' = [threads EXCEPT ![i].late = FALSE]
    /\ Publish(i, FALSE)
    /\ Threading
    /\ UNCHANGED <<stage, unspawned>>

First(i) == threads[i].phase = "ready" /\ threads[i].inbox # <<>>
Served(i) == [threads[i] EXCEPT !.inbox = Tail(@)]
Answers(i, s) == Go(Head(threads[i].inbox).from, s)

(* A task is spawned or replaced, or removed; a local model is "Ready"     *)
(* again after the former.                                                 *)
SpawnTask(i) ==
    /\ First(i)
    /\ LET r == Head(threads[i].inbox).ask IN
         /\ r.kind = "spawn"
         /\ threads' = [threads EXCEPT ![i] =
                          [Served(i) EXCEPT !.tasks[r.task] = r.text]]
         /\ unspawned' = unspawned \ {r.task}
    /\ Answers(i, "ok")
    /\ IF IsLocal(i) THEN Publish(i, TRUE) ELSE UNCHANGED loaded
    /\ Threading

RemoveTask(i) ==
    /\ First(i)
    /\ LET r == Head(threads[i].inbox).ask IN
         /\ r.kind = "remove"
         /\ threads' = [threads EXCEPT ![i] =
                          [Served(i) EXCEPT !.tasks[r.task] = 0]]
    /\ Answers(i, "ok")
    /\ Threading
    /\ UNCHANGED <<loaded, unspawned>>

(* A task that was not spawned is an error; a remote model may fail.       *)
AnswerPrompt(i) ==
    /\ First(i)
    /\ LET r == Head(threads[i].inbox).ask IN
         /\ r.kind = "prompt"
         /\ threads' = [threads EXCEPT ![i] = Served(i)]
         /\ \/ threads[i].tasks[r.task] # 0 /\ Answers(i, "ok")
            \/ /\ ~IsLocal(i) \/ threads[i].tasks[r.task] = 0
               /\ Answers(i, "err")
         /\ IF IsLocal(i) /\ threads[i].tasks[r.task] # 0
              THEN Publish(i, TRUE) ELSE UNCHANGED loaded
    /\ Threading
    /\ UNCHANGED unspawned

(* "Shutting down": the answer is sent before the thread ends.             *)
Shutdown(i) ==
    /\ First(i)
    /\ Head(threads[i].inbox).ask.kind = "shutdown"
    /\ threads' = [threads EXCEPT ![i] =
                     [Phase(i, "over") EXCEPT !.inbox = <<>>, !.late = FALSE]]
    /\ stage' = [c \in Callers |->
                   IF c = Head(threads[i].inbox).from THEN "ok"
                   ELSE IF \E k \in 2 .. Len(threads[i].inbox) :
                             threads[i].inbox[k].from = c
                     THEN "err" ELSE stage[c]]
    /\ Publish(i, FALSE)
    /\ Threading
    /\ UNCHANGED unspawned

Left(i) == channel[threads[i].model] # i

(* The channel is in the map no more: recv() returns None.                 *)
Closed(i) ==
    /\ threads[i].phase = "ready"
    /\ threads[i].inbox = <<>>
    /\ Left(i)
    /\ threads' = [threads EXCEPT ![i] = [Phase(i, "over") EXCEPT !.late = FALSE]]
    /\ Threading
    /\ UNCHANGED <<stage, loaded, unspawned>>

ThreadStep(i) ==
    \/ Begin(i) \/ BuildFailed(i) \/ \E late \in BOOLEAN : Built(i, late)
    \/ SpawnTask(i) \/ RemoveTask(i) \/ AnswerPrompt(i) \/ Shutdown(i) \/ Closed(i)

-----------------------------------------------------------------------------
Begins(c) ==
    \/ \E m \in Models, b \in Bodies : AddModel(c, m, b) \/ UpdateModel(c, m, b)
    \/ \E m \in Models : RemoveModel(c, m) \/ SetDefault(c, m)
    \/ \E t \in Tasks, on \in Known \cup {Default} : AddTask(c, t, on) \/ UpdateTask(c, t, on)
    \/ \E t \in Tasks : DeleteTask(c, t) \/ Prompt(c, t)

Next ==
    \/ \E c \in Calls : Begins(c)
    \/ \E c \in Callers : CallStep(c)
    \/ LoadStep
    \/ \E i \in DOMAIN threads : ThreadStep(i) \/ Late(i)

(* The runtime runs every task that can go on, and the system every        *)
(* thread; the lock is given in the order of the requests.  A model is     *)
(* built or fails to, and an inference ends.                               *)
AllThreads == 1 .. Cardinality(Models) + Cardinality(Calls)

Fairness ==
    /\ \A c \in Callers : WF_vars(CallStep(c))
    /\ WF_vars(LoadStep)
    /\ \A i \in AllThreads : WF_vars(i \in DOMAIN threads /\ ThreadStep(i))

Spec == Init /\ [][Next]_vars /\ Fairness

-----------------------------------------------------------------------------
(* The thread of a task's model, or 0.                                     *)
ThreadOf(t) ==
    LET m == Resolve(tasks[t].on) IN
    IF t \in Stored /\ m # NoModel THEN channel[m] ELSE 0

SpawnedIn(t) ==
    ThreadOf(t) # 0 /\ threads[ThreadOf(t)].phase = "ready"
        => threads[ThreadOf(t)].tasks[t] = tasks[t].text

Begun(m) ==
    \E i \in DOMAIN threads : threads[i].model = m /\ threads[i].phase # "spawned"

(* After calls that did not overlap, the threads are as the rows say.  The *)
(* models with a channel are those with a definition; a task is spawned as *)
(* it is in the database where its model runs, but for those that a loop   *)
(* over tasks did not come to and those of the default model that          *)
(* update_model() passes over; and a model that is recorded as loaded is,  *)
(* once its thread has begun.                                              *)
ThreadsAsStored ==
    Quiet /\ ~overlapped =>
        /\ \A m \in Models : channel[m] # 0 <=> models[m] = "whole"
        /\ \A t \in Tasks \ unspawned : SpawnedIn(t)
        /\ \A m \in Models : loaded[m] /\ Begun(m) =>
               channel[m] # 0 /\ threads[channel[m]].phase = "ready"

(* Nobody holds the lock for ever, so every call comes to its end, and so  *)
(* does every thread whose channel was replaced or removed.                *)
EventuallyOver ==
    []<>(/\ \A c \in Callers : stage[c] \in {"idle", "done"}
         /\ \A i \in DOMAIN threads :
               channel[threads[i].model] = i \/ threads[i].phase \in {"failed", "over"})
=============================================================================
