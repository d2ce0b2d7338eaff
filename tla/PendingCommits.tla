--------------------------- MODULE PendingCommits ---------------------------
(***************************************************************************)
(* How a shared perspective of rust-executor hands the diffs of its user   *)
(* to its link language: perspective_instance.rs.                          *)
(*                                                                         *)
(* Every mutation of shared links spawns a task that runs commit(): it     *)
(* looks whether older diffs are waiting in the table perspective_diff of  *)
(* the database, waits for the lock link_language, and commits, or else    *)
(* stores the diff in that table.  pending_diffs_loop() commits the table  *)
(* in batches under the same lock; ensure_link_language() takes it to set  *)
(* the link language, and nh_sync_loop() has it while it syncs.            *)
(* A perspective is private until it is published as a neighbourhood, or   *)
(* shared from the start for those who join one.                           *)
(*                                                                         *)
(* The table and the link language survive the process, the tasks do not.  *)
(* The conditions on elapsed time of the loop are left out: it may commit  *)
(* as soon as a row is there, and must after MAX_PENDING_SECONDS.          *)
(* ensure_link_language() calls ensure_public_links_are_shared() only in   *)
(* the state NeighbourhoodCreationInitiated, which nothing in the          *)
(* repository ever sets: neighbourhood_publish_from_perspective() sets     *)
(* Synced.  It is left out.                                                *)
(***************************************************************************)
EXTENDS Naturals, Sequences, FiniteSets

CONSTANTS
    MaxDiffs,                \* bound: diffs in a behaviour
    ImmediateCommits,        \* IMMEDIATE_COMMITS_COUNT
    MaxPending,              \* MAX_PENDING_DIFFS_COUNT
    MaxFaults,               \* bound: failed commits and lost answers
    MaxCrashes               \* bound: restarts of the process

ASSUME ConstantsAssumption ==
    /\ MaxDiffs \in Nat /\ ImmediateCommits \in Nat
    /\ MaxPending \in Nat \ {0}
    /\ MaxFaults \in Nat /\ MaxCrashes \in Nat

Diffs == 1 .. MaxDiffs       \* in the order of the mutations
Row   == [id : Nat, diff : Diffs]

\* those who wait for the lock link_language, besides the tasks
Loop   == MaxDiffs + 1       \* pending_diffs_loop()
Ensure == MaxDiffs + 2       \* ensure_link_language()
Syncer == MaxDiffs + 3       \* nh_sync_loop()
Actors == 1 .. MaxDiffs + 3

VARIABLES
    made,        \* number of mutations so far; their links are in the database
    task,        \* per diff: how far its task is in commit()
    rows,        \* the pending rows of the table perspective_diff
    log,         \* the diffs of every commit the link language made, in order
    lock,        \* the lock link_language: its holder, then those waiting
    published,   \* is handle.neighbourhood set?
    installed,   \* is link_language set?
    loop,        \* how far commit_pending_diffs() is
    batch,       \* ... and the rows it has read
    ensure,      \* how far ensure_link_language() is
    immediate,   \* immediate_commits_remaining
    revisions,   \* does commit() of this link language return a revision?
    faults, crashes

vars == <<made, task, rows, log, lock, published, installed, loop, batch,
          ensure, immediate, revisions, faults, crashes>>

TypeOK ==
    /\ made \in 0 .. MaxDiffs
    /\ task \in [Diffs -> {"none", "spawned", "queued", "calling", "applied",
                           "failed", "done", "private", "killed"}]
    /\ rows \in SUBSET Row
    /\ log \in Seq(SUBSET Diffs)
    /\ lock \in Seq(Actors)
    /\ published \in BOOLEAN
    /\ installed \in BOOLEAN
    /\ loop \in {"idle", "queued", "calling", "applied"}
    /\ batch \in SUBSET Row
    /\ ensure \in {"waiting", "found", "done"}
    /\ immediate \in 0 .. ImmediateCommits
    /\ revisions \in BOOLEAN
    /\ faults \in 0 .. MaxFaults
    /\ crashes \in 0 .. MaxCrashes

Init ==
    /\ made = 0
    /\ task = [d \in Diffs |-> "none"]
    /\ rows = {}
    /\ log = <<>>
    /\ lock = <<>>
    /\ published \in BOOLEAN
    /\ installed = FALSE
    /\ loop = "idle"
    /\ batch = {}
    /\ ensure = "waiting"
    /\ immediate = ImmediateCommits
    /\ revisions \in BOOLEAN
    /\ faults = 0
    /\ crashes = 0

DiffsOf(rs) == {r.diff : r \in rs}
Committed   == UNION {log[i] : i \in DOMAIN log}

(* tokio's Mutex is fair: those who wait get it in the order they came; it *)
(* is released where the guard of its holder goes out of scope.            *)
Holds(x)    == lock # <<>> /\ Head(lock) = x
WaitFor(x)  == lock' = Append(lock, x)
Release(x)  == Holds(x) /\ lock' = Tail(lock)

Fault == faults < MaxFaults /\ faults' = faults + 1

-----------------------------------------------------------------------------
(* add_link_expression(), add_links(), link_mutations(), update_link(),    *)
(* remove_link(), remove_links() on shared links: the change is in the     *)
(* database, then the task is spawned.                                     *)
Mutate ==
    /\ made < MaxDiffs
    /\ made' = made + 1
    /\ task' = [task EXCEPT ![made + 1] = "spawned"]
    /\ UNCHANGED <<rows, log, lock, published, installed, loop, batch, ensure,
                   immediate, revisions, faults, crashes>>

(* neighbourhood_publish_from_perspective(), with the link language        *)
(* installed and the neighbourhood created: update_perspective().          *)
Publish ==
    /\ ~published
    /\ published' = TRUE
    /\ UNCHANGED <<made, task, rows, log, lock, installed, loop, batch, ensure,
                   immediate, revisions, faults, crashes>>

Becomes(d, state) == task' = [task EXCEPT ![d] = state]

TaskOnly == UNCHANGED <<made, log, published, installed, loop, batch, ensure,
                        revisions, crashes>>

(* commit(): nothing to do for a perspective that is not shared.           *)
NotShared(d) ==
    /\ task[d] = "spawned"
    /\ ~published
    /\ Becomes(d, "private")
    /\ TaskOnly
    /\ UNCHANGED <<rows, lock, immediate, faults>>

(* commit(): are there pending diffs already?                              *)
Check(d) ==
    /\ task[d] = "spawned"
    /\ published
    /\ IF rows = {} THEN Becomes(d, "queued") /\ WaitFor(d)
                    ELSE Becomes(d, "failed") /\ UNCHANGED lock
    /\ TaskOnly
    /\ UNCHANGED <<rows, immediate, faults>>

\* mutant: the burst is not limited, and the counter goes below zero
CallUnlimited(d) ==
    /\ task[d] = "queued"
    /\ Holds(d)
    /\ installed
    /\ immediate' = immediate - 1
    /\ Becomes(d, "calling")
    /\ TaskOnly
    /\ UNCHANGED <<rows, lock, faults>>

(* It has the lock; the link language has a revision, and the burst is not *)
(* too long: call its commit().                                            *)
Call(d) ==
    /\ task[d] = "queued"
    /\ Holds(d)
    /\ installed
    /\ immediate > 0
    /\ immediate' = immediate - 1
    /\ Becomes(d, "calling")
    /\ TaskOnly
    /\ UNCHANGED <<rows, lock, faults>>

\* mutant: commit() returns early instead of storing the diff
NotNowNotStored(d) ==
    /\ task[d] = "queued"
    /\ Release(d)
    /\ Becomes(d, "done")
    /\ TaskOnly
    /\ UNCHANGED <<rows, immediate, faults>>

(* No link language, no revision yet, or a burst: not now.                 *)
NotNow(d) ==
    /\ task[d] = "queued"
    /\ Release(d)
    /\ Becomes(d, "failed")
    /\ TaskOnly
    /\ UNCHANGED <<rows, immediate, faults>>

(* The link language commits the diff.                                     *)
Applied(ds) == log' = Append(log, ds)

Apply(d) ==
    /\ task[d] = "calling"
    /\ Applied({d})
    /\ Becomes(d, "applied")
    /\ UNCHANGED <<made, rows, lock, published, installed, loop, batch,
                   ensure, immediate, revisions, faults, crashes>>

\* mutant: the revision of the answer is not recognised
AnswerIgnored(d) ==
    /\ task[d] = "applied"
    /\ Release(d)
    /\ Becomes(d, "failed")
    /\ TaskOnly
    /\ UNCHANGED <<rows, immediate, faults>>

(* The language has committed.  An empty revision, which is all that       *)
(* centralized-p-diff-sync returns, is none to commit(): it stores the     *)
(* diff as it does after a failure.                                        *)
Answer(d) ==
    /\ task[d] = "applied"
    /\ Release(d)
    /\ Becomes(d, IF revisions THEN "done" ELSE "failed")
    /\ TaskOnly
    /\ UNCHANGED <<rows, immediate, faults>>

(* The call fails or returns nothing, before or after it took effect;      *)
(* the adapter itself may also try again after a lost answer.              *)
CallFails(d) ==
    /\ task[d] \in {"calling", "applied"}
    /\ Fault
    /\ \/ Becomes(d, "failed") /\ Release(d)
       \/ task[d] = "applied" /\ Becomes(d, "calling") /\ UNCHANGED lock
    /\ TaskOnly
    /\ UNCHANGED <<rows, immediate>>

(* add_pending_diff(): INTEGER PRIMARY KEY takes the next id.              *)
NextId(id) ==
    /\ \A r \in rows : r.id < id
    /\ id = 1 \/ \E r \in rows : r.id = id - 1

Store(d) ==
    /\ task[d] = "failed"
    /\ \E id \in 1 .. MaxDiffs + 1 :
          NextId(id) /\ rows' = rows \cup {[id |-> id, diff |-> d]}
    /\ Becomes(d, "done")
    /\ TaskOnly
    /\ UNCHANGED <<lock, immediate, faults>>

-----------------------------------------------------------------------------
(* pending_diffs_loop() and commit_pending_diffs().                        *)

LoopOnly == UNCHANGED <<made, task, published, installed, ensure, revisions,
                        crashes>>

(* get_pending_diffs_by_size(): MAX_PENDING_DIFFS_COUNT rows, or half of   *)
(* them, and so on until the diff is small enough or a single row.         *)
RowsRead(b) ==
    \E k \in 0 .. MaxPending :
        LET count == MaxPending \div (2 ^ k)
        IN  /\ count > 0
            /\ b \subseteq rows
            /\ \A r \in b, q \in rows \ b : r.id < q.id
            /\ Cardinality(b) <= count
            /\ b = rows \/ Cardinality(b) = count

LoopReads ==
    /\ loop = "idle"
    /\ installed
    /\ rows # {}
    /\ \E b \in SUBSET rows : RowsRead(b) /\ batch' = b
    /\ loop' = "queued"
    /\ WaitFor(Loop)
    /\ LoopOnly
    /\ UNCHANGED <<rows, log, immediate, faults>>

\* mutant: the guard is dropped before the call
LoopCallsAtOnce ==
    /\ loop = "queued"
    /\ loop' = "calling"
    /\ LoopOnly
    /\ UNCHANGED <<rows, log, lock, batch, immediate, faults>>

LoopCalls ==
    /\ loop = "queued"
    /\ Holds(Loop)
    /\ loop' = "calling"
    /\ LoopOnly
    /\ UNCHANGED <<rows, log, lock, batch, immediate, faults>>

LoopApply ==
    /\ loop = "calling"
    /\ Applied(DiffsOf(batch))
    /\ loop' = "applied"
    /\ LoopOnly
    /\ UNCHANGED <<rows, lock, batch, immediate, faults>>

\* mutant: everything pending is deleted
LoopClearsAll ==
    /\ loop = "applied"
    /\ rows' = {}
    /\ immediate' = ImmediateCommits
    /\ loop' = "idle"
    /\ batch' = {}
    /\ Release(Loop)
    /\ LoopOnly
    /\ UNCHANGED <<log, faults>>

(* Any revision will do here, an empty one too.  clear_pending_diffs()     *)
(* deletes the rows that were read, and the next burst may start.          *)
LoopClears ==
    /\ loop = "applied"
    /\ rows' = {r \in rows : \A b \in batch : r.id # b.id}
    /\ immediate' = ImmediateCommits
    /\ loop' = "idle"
    /\ batch' = {}
    /\ Release(Loop)
    /\ LoopOnly
    /\ UNCHANGED <<log, faults>>

LoopFails ==
    /\ loop \in {"calling", "applied"}
    /\ Fault
    /\ \/ loop' = "idle" /\ batch' = {} /\ Release(Loop)
       \/ loop = "applied" /\ loop' = "calling" /\ UNCHANGED <<batch, lock>>
    /\ LoopOnly
    /\ UNCHANGED <<rows, log, immediate>>

-----------------------------------------------------------------------------
(* ensure_link_language(), every five seconds until the language is there. *)

EnsureOnly == UNCHANGED <<made, task, rows, log, published, loop, batch,
                          immediate, revisions, faults, crashes>>

LanguageFound ==
    /\ ensure = "waiting"
    /\ published
    /\ ensure' = "found"
    /\ WaitFor(Ensure)
    /\ UNCHANGED installed
    /\ EnsureOnly

Install ==
    /\ ensure = "found"
    /\ Release(Ensure)
    /\ installed' = TRUE
    /\ ensure' = "done"
    /\ EnsureOnly

-----------------------------------------------------------------------------
(* nh_sync_loop() keeps the lock from sync() to its next tick.             *)
SyncWaits ==
    /\ \A i \in DOMAIN lock : lock[i] # Syncer
    /\ WaitFor(Syncer)
    /\ UNCHANGED <<installed, ensure>>
    /\ EnsureOnly

SyncEnds ==
    /\ Release(Syncer)
    /\ UNCHANGED <<installed, ensure>>
    /\ EnsureOnly

(* The process dies and starts again.                                      *)
Crash ==
    /\ crashes < MaxCrashes
    /\ crashes' = crashes + 1
    /\ task' = [d \in Diffs |->
                   IF task[d] \in {"none", "done", "private"} THEN task[d]
                   ELSE "killed"]
    /\ lock' = <<>>
    /\ installed' = FALSE
    /\ loop' = "idle"
    /\ batch' = {}
    /\ ensure' = "waiting"
    /\ immediate' = ImmediateCommits
    /\ UNCHANGED <<made, rows, log, published, revisions, faults>>

TaskStep(d) ==
    \/ NotShared(d) \/ Check(d) \/ Call(d) \/ NotNow(d) \/ Apply(d) \/ Answer(d)
    \/ CallFails(d) \/ Store(d)

LoopStep == LoopReads \/ LoopCalls \/ LoopApply \/ LoopClears \/ LoopFails

EnsureStep == LanguageFound \/ Install

Next ==
    \/ Mutate
    \/ Publish
    \/ \E d \in Diffs : TaskStep(d)
    \/ LoopStep
    \/ EnsureStep
    \/ SyncWaits
    \/ SyncEnds
    \/ Crash

Spec == Init /\ [][Next]_vars

(* tokio runs every task that can run, the lock is fair, the loop commits  *)
(* at the latest after MAX_PENDING_SECONDS, and a call of the link         *)
(* language returns.  Nobody has to mutate, or to publish.                 *)
Fairness ==
    /\ \A d \in Diffs : WF_vars(TaskStep(d))
    /\ WF_vars(LoopStep)
    /\ WF_vars(EnsureStep)
    /\ WF_vars(SyncEnds)

FairSpec == Spec /\ Fairness

-----------------------------------------------------------------------------
(* No diff falls between the task and the table: when its task is over, a  *)
(* diff was committed or is a row that the loop will commit, although the  *)
(* loop reads, commits and deletes rows while tasks add some.              *)
NoneDropped ==
    \A d \in Diffs : task[d] = "done" => d \in Committed \cup DiffsOf(rows)

(* A diff is committed once, by its task or by the loop but not by both,   *)
(* unless a call failed or the process died, or the link language returns  *)
(* an empty revision: then the loop repeats all that tasks have committed. *)
CommittedOnce ==
    revisions /\ faults = 0 /\ crashes = 0 =>
        \A i, j \in DOMAIN log : log[i] \cap log[j] # {} => i = j

(* Every diff reaches the link language in the end, unless its task died   *)
(* with the process or ran before the perspective was published: bursts,   *)
(* failures and a missing language only delay it.                          *)
EventuallyShared ==
    \A d \in Diffs :
        task[d] # "none" ~>
            d \in Committed \/ task[d] \in {"killed", "private"}

(* "All links added by some agent to their local Perspective will be       *)
(* shared" once it is a neighbourhood, those added before it was included. *)
AllLinksShared ==
    \A d \in Diffs :
        published /\ d <= made ~> d \in Committed \/ task[d] = "killed"

-----------------------------------------------------------------------------
(* What NoneDropped and CommittedOnce need to be inductive.                *)

(* The ids are the table's key, and the loop holds rows of the table.      *)
RowsOK ==
    /\ \A r, q \in rows : r.id = q.id => r = q
    /\ batch \subseteq rows

(* Whoever has applied its diffs finds them in the log.                    *)
AppliedCommitted ==
    /\ \A d \in Diffs : d > made => task[d] = "none"
    /\ \A d \in Diffs : task[d] = "applied" => d \in Committed
    /\ loop = "applied" => DiffsOf(batch) \subseteq Committed

(* A diff is with its task, in the table, or in the log.                   *)
OnePlace ==
    revisions /\ faults = 0 /\ crashes = 0 =>
        /\ \A d \in Diffs :
              /\ task[d] # "done" => d \notin DiffsOf(rows)
              /\ task[d] \notin {"done", "applied"} => d \notin Committed
        /\ \A r \in rows :
              /\ r.diff \in Committed => loop = "applied" /\ r \in batch
              /\ \A q \in rows : r.diff = q.diff => r = q

-----------------------------------------------------------------------------
(* The lock link_language.                                                 *)

Queued == {lock[i] : i \in DOMAIN lock}

(* Whose code is between lock().await and the end of the guard.            *)
Locking ==
    {d \in Diffs : task[d] \in {"queued", "calling", "applied"}}
        \cup {x \in {Loop} : loop # "idle"} \cup {x \in {Ensure} : ensure = "found"}

(* Who waits for the lock or has it is on the way to release it, and is    *)
(* there once: no early return, failure or restart leaves it behind.       *)
NoneLeftBehind ==
    /\ Queued \ {Syncer} = Locking
    /\ \A i, j \in DOMAIN lock : lock[i] = lock[j] => i = j

(* The link language is never called by two at a time, nor while it syncs, *)
(* although commits come from tasks, from the loop, and after failures.    *)
Calling ==
    {d \in Diffs : task[d] \in {"calling", "applied"}}
        \cup {x \in {Loop} : loop \in {"calling", "applied"}}
        \cup {x \in {Syncer} : Holds(x)}

CalledAlone == \A x, y \in Calling : x = y
=============================================================================
