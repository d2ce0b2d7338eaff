----------------------------- MODULE ZomeQueue -----------------------------
(***************************************************************************)
(* The zome calls of one language: AsyncQueue in Queue.ts, through which   *)
(* HolochainLanguageDelegate.call() goes.  HolochainService keeps one      *)
(* queue per language for as long as the process lives, whichever          *)
(* instances of the language come and go.                                  *)
(*                                                                         *)
(* JavaScript runs to the next await: add() with the start of the first    *)
(* job is one step, and so is the end of a job with the start of the next. *)
(* Calls are numbered as they are added.                                   *)
(***************************************************************************)
EXTENDS Naturals, Sequences, FiniteSets

CONSTANT MaxCalls      \* bound: calls in the life of a process

ASSUME CallsAssumption == MaxCalls \in Nat

VARIABLES
    added,         \* the calls added so far are 1 .. added
    queue,         \* AsyncQueue's #queue
    pendingCount,  \* #pendingCount
    running,       \* calls that the conductor works on
    answered       \* calls whose promise is settled

queueVars == <<added, queue, pendingCount, running, answered>>

Calls == 1 .. MaxCalls

QueueTypeOK ==
    /\ added \in 0 .. MaxCalls
    /\ queue \in Seq(Calls)
    /\ pendingCount \in Nat
    /\ running \in SUBSET Calls
    /\ answered \in SUBSET Calls

QueueInit ==
    /\ added = 0
    /\ queue = <<>>
    /\ pendingCount = 0
    /\ running = {}
    /\ answered = {}

-----------------------------------------------------------------------------
\* mutant: a job is started whatever is pending
StartEagerly(jobs, pending, atWork) ==
    IF jobs # <<>>
    THEN /\ queue' = Tail(jobs)
         /\ running' = atWork \cup {Head(jobs)}
         /\ pendingCount' = pending + 1
    ELSE /\ queue' = jobs
         /\ running' = atWork
         /\ pendingCount' = pending

(* startAnotherFunc(), and the first lines of the job it takes from the    *)
(* queue.                                                                  *)
StartAnother(jobs, pending, atWork) ==
    IF jobs # <<>> /\ pending = 0
    THEN /\ queue' = Tail(jobs)
         /\ running' = atWork \cup {Head(jobs)}
         /\ pendingCount' = pending + 1
    ELSE /\ queue' = jobs
         /\ running' = atWork
         /\ pendingCount' = pending

(* call(): the job is put at the end of the queue.                         *)
Add ==
    /\ added < MaxCalls
    /\ added' = added + 1
    /\ StartAnother(Append(queue, added + 1), pendingCount, running)
    /\ UNCHANGED answered

(* The conductor answers, with a result or an error, which is returned as  *)
(* a result; the promise is settled, and next() starts another job.        *)
Answer(j) ==
    /\ j \in running
    /\ answered' = answered \cup {j}
    /\ StartAnother(queue, pendingCount - 1, running \ {j})
    /\ UNCHANGED added

QueueNext == Add \/ \E j \in Calls : Answer(j)

QueueSpec == QueueInit /\ [][QueueNext]_queueVars

-----------------------------------------------------------------------------
(* How many of the calls that were added have been started.                *)
Started == added - Len(queue)

(* One call of a language is under way at a time, and they are started in  *)
(* the order in which they were added: what a caller reads from its zome   *)
(* is what all calls before it have left there.                            *)
OneByOne ==
    /\ pendingCount <= 1
    /\ \A j, k \in running : j = k
    /\ running \cup answered = 1 .. Started
    /\ \A j \in running, k \in answered : k < j
    /\ \A i \in DOMAIN queue : queue[i] = Started + i

(* Nobody waits in the queue while nothing runs: a job that is added       *)
(* between the end of one and the start of the next is not forgotten.      *)
NoLostWakeup == queue # <<>> => running # {}
=============================================================================
