------------------------- MODULE PerspectiveProofs --------------------------
(***************************************************************************)
(* Proofs about MCPerspective: what becomes of diffs that are not yet      *)
(* committed (PendingCommits) and of matches of notifications              *)
(* (Notifications), for any number of diffs, links and notifications, any  *)
(* limits, and however often the process restarts.                         *)
(***************************************************************************)
EXTENDS MCPerspective, TLAPS

(***************************************************************************)
(* PendingCommits.                                                         *)
(***************************************************************************)

IInv ==
    /\ TypeOK
    /\ RowsOK
    /\ AppliedCommitted
    /\ NoneDropped
    /\ OnePlace
    /\ CommittedOnce

(* A commit of the link language adds its diffs to those committed.        *)
LEMMA AppliedGrows ==
    ASSUME log \in Seq(SUBSET Diffs), NEW ds \in SUBSET Diffs, Applied(ds)
    PROVE  /\ Committed' = Committed \cup ds
           /\ log' \in Seq(SUBSET Diffs)
           /\ (\A i, j \in DOMAIN log : log[i] \cap log[j] # {} => i = j)
                 /\ ds \cap Committed = {}
                 => \A i, j \in DOMAIN log' : log'[i] \cap log'[j] # {} => i = j
<1>1. /\ log' \in Seq(SUBSET Diffs)
      /\ DOMAIN log = 1 .. Len(log) /\ Len(log) \in Nat
      /\ DOMAIN log' = 1 .. Len(log) + 1
      /\ \A i \in DOMAIN log : log'[i] = log[i]
      /\ log'[Len(log) + 1] = ds
  BY DEF Applied
<1>2. DOMAIN log' = DOMAIN log \cup {Len(log) + 1}
  BY <1>1
<1>3. Committed' = Committed \cup ds
  BY <1>1, <1>2 DEF Committed
<1>4. \A i \in DOMAIN log : log[i] \subseteq Committed
  BY DEF Committed
<1> QED
  BY <1>1, <1>2, <1>3, <1>4

-----------------------------------------------------------------------------
(* Every step keeps the state in its types.                                *)
LEMMA TypeStep ==
    ASSUME IInv, [Next]_vars PROVE TypeOK'
<1> USE DEF IInv
<1>1. ASSUME Fault PROVE faults' \in 0 .. MaxFaults
  BY <1>1, ConstantsAssumption DEF Fault, TypeOK
<1>2. \A d \in Diffs : d \in Actors /\ Loop \in Actors /\ Ensure \in Actors
                       /\ Syncer \in Actors
  BY ConstantsAssumption DEF Diffs, Actors, Loop, Ensure, Syncer
<1>3. Loop \in Actors /\ Ensure \in Actors /\ Syncer \in Actors
  BY ConstantsAssumption DEF Actors, Loop, Ensure, Syncer
<1>4. ASSUME NEW x \in Actors, WaitFor(x) PROVE lock' \in Seq(Actors)
  BY <1>4 DEF WaitFor, TypeOK
<1>5. ASSUME NEW x, Release(x) PROVE lock' \in Seq(Actors)
  BY <1>5 DEF Holds, Release, TypeOK
<1>6. ASSUME NEW ds \in SUBSET Diffs, Applied(ds)
      PROVE  log' \in Seq(SUBSET Diffs)
  BY <1>6, AppliedGrows DEF TypeOK
<1>14. CASE Publish
  BY <1>14 DEF Publish, TypeOK
<1>7. CASE Mutate
  BY <1>7, ConstantsAssumption DEF Mutate, TypeOK, Diffs
<1>8. ASSUME NEW d \in Diffs, TaskStep(d) PROVE TypeOK'
  <2>8. CASE NotShared(d)
    BY <2>8 DEF NotShared, Becomes, TaskOnly, TypeOK
  <2>1. CASE Check(d)
    BY <2>1, <1>2, <1>4 DEF Check, Becomes, TaskOnly, TypeOK
  <2>2. CASE Call(d)
    BY <2>2, ConstantsAssumption DEF Call, Becomes, TaskOnly, TypeOK
  <2>3. CASE NotNow(d)
    BY <2>3, <1>5 DEF NotNow, Becomes, TaskOnly, TypeOK
  <2>4. CASE Apply(d)
    BY <2>4, <1>6 DEF Apply, Becomes, TypeOK
  <2>5. CASE Answer(d)
    BY <2>5, <1>5 DEF Answer, Becomes, TaskOnly, TypeOK
  <2>6. CASE CallFails(d)
    <3>1. lock' \in Seq(Actors) /\ faults' \in 0 .. MaxFaults
      BY <2>6, <1>1, <1>5 DEF CallFails, TypeOK
    <3>2. task' \in [Diffs -> {"none", "spawned", "queued", "calling",
                               "applied", "failed", "done", "private",
                             "killed"}]
      BY <2>6 DEF CallFails, Becomes, TypeOK
    <3> QED
      BY <2>6, <3>1, <3>2 DEF CallFails, TaskOnly, TypeOK
  <2>7. CASE Store(d)
    BY <2>7 DEF Store, Becomes, TaskOnly, TypeOK, Row
  <2> QED
    BY <1>8, <2>1, <2>2, <2>3, <2>4, <2>5, <2>6, <2>7, <2>8 DEF TaskStep
<1>9. CASE LoopStep
  <2>1. CASE LoopReads
    BY <2>1, <1>3, <1>4 DEF LoopReads, RowsRead, LoopOnly, TypeOK
  <2>2. CASE LoopCalls
    BY <2>2 DEF LoopCalls, LoopOnly, TypeOK
  <2>3. CASE LoopApply
    <3>1. DiffsOf(batch) \in SUBSET Diffs
      BY DEF TypeOK, Row, DiffsOf
    <3> QED
      BY <2>3, <3>1, <1>6 DEF LoopApply, LoopOnly, TypeOK
  <2>4. CASE LoopClears
    BY <2>4, <1>5, ConstantsAssumption DEF LoopClears, LoopOnly, TypeOK
  <2>5. CASE LoopFails
    <3>1. lock' \in Seq(Actors) /\ faults' \in 0 .. MaxFaults
      BY <2>5, <1>1, <1>5 DEF LoopFails, TypeOK
    <3> QED
      BY <2>5, <3>1 DEF LoopFails, LoopOnly, TypeOK
  <2> QED
    BY <1>9, <2>1, <2>2, <2>3, <2>4, <2>5 DEF LoopStep
<1>10. CASE EnsureStep
  <2>1. CASE LanguageFound
    BY <2>1, <1>3, <1>4 DEF LanguageFound, EnsureOnly, TypeOK
  <2>2. CASE Install
    BY <2>2, <1>5 DEF Install, EnsureOnly, TypeOK
  <2> QED
    BY <1>10, <2>1, <2>2 DEF EnsureStep
<1>11. CASE SyncWaits \/ SyncEnds
  <2>1. lock' \in Seq(Actors)
    BY <1>11, <1>3, <1>4, <1>5 DEF SyncWaits, SyncEnds
  <2> QED
    BY <1>11, <2>1 DEF SyncWaits, SyncEnds, EnsureOnly, TypeOK
<1>12. CASE Crash
  <2>1. task' \in [Diffs -> {"none", "spawned", "queued", "calling",
                             "applied", "failed", "done", "private",
                             "killed"}]
    BY <1>12 DEF Crash, TypeOK
  <2>2. lock' \in Seq(Actors) /\ batch' \in SUBSET Row
    BY <1>12 DEF Crash
  <2>3. immediate' \in 0 .. ImmediateCommits
    BY <1>12, ConstantsAssumption DEF Crash
  <2>6. /\ installed' \in BOOLEAN
        /\ loop' \in {"idle", "queued", "calling", "applied"}
        /\ ensure' \in {"waiting", "found", "done"}
    BY <1>12, Zenon DEF Crash
  <2>5. crashes' \in 0 .. MaxCrashes
    <3>1. crashes \in 0 .. MaxCrashes
      BY DEF TypeOK
    <3> QED
      BY <1>12, <3>1, ConstantsAssumption DEF Crash
  <2>4. UNCHANGED <<made, rows, log, published, revisions, faults>>
    BY <1>12 DEF Crash
  <2> QED
    BY <2>1, <2>2, <2>3, <2>4, <2>5, <2>6 DEF TypeOK
<1>13. CASE UNCHANGED vars
  BY <1>13 DEF vars, TypeOK
<1> QED
  BY <1>7, <1>8, <1>9, <1>10, <1>11, <1>12, <1>13, <1>14 DEF Next

-----------------------------------------------------------------------------
(* The steps that leave the table, the log and the diffs' places alone.    *)
Quiet ==
    /\ UNCHANGED <<rows, log, revisions>>
    /\ made' \in Nat /\ made' >= made
    /\ \A d \in Diffs : d > made' => task'[d] = "none"
    /\ \A d \in Diffs :
          /\ task'[d] = "done" => task[d] = "done" \/ task[d] = "applied"
          /\ task'[d] = "applied" => task[d] = "applied"
          /\ task[d] = "applied" =>
                \/ task'[d] \in {"applied", "done"}
                \/ ~revisions \/ faults' > 0 \/ crashes' > 0
          /\ task[d] = "done" => task'[d] = "done"
    /\ \/ batch' = batch /\ loop' = loop
       \/ batch' = batch /\ loop' # "applied" /\ loop # "applied"
       \/ batch' \subseteq rows /\ loop' # "applied" /\ loop # "applied"
       \/ batch' \subseteq rows /\ loop' # "applied"
             /\ (faults' > 0 \/ crashes' > 0)
    /\ faults' \in Nat /\ crashes' \in Nat
    /\ faults' >= faults /\ crashes' >= crashes

LEMMA QuietStep ==
    ASSUME IInv, Quiet, TypeOK'
    PROVE  IInv'
<1> USE DEF IInv
<1>1. Committed' = Committed /\ DiffsOf(rows)' = DiffsOf(rows)
  BY DEF Quiet, Committed, DiffsOf
<1>2. RowsOK'
  BY DEF Quiet, RowsOK
<1>3. AppliedCommitted'
  <2>1. loop' = "applied" => batch' = batch /\ loop = "applied"
    BY DEF Quiet
  <2>2. DiffsOf(batch') = DiffsOf(batch) \/ loop' # "applied"
    BY <2>1
  <2> QED
    BY <1>1, <2>1, <2>2 DEF Quiet, AppliedCommitted, DiffsOf
<1>4. NoneDropped'
  BY <1>1 DEF Quiet, NoneDropped, AppliedCommitted
<1>5. OnePlace'
  <2> SUFFICES ASSUME revisions', faults' = 0, crashes' = 0
               PROVE  OnePlace'
    BY DEF OnePlace
  <2>1. revisions /\ faults = 0 /\ crashes = 0
    BY DEF Quiet, TypeOK
  <2>2. \A r \in rows : r.diff \in Committed => loop' = "applied" /\ r \in batch'
    BY <2>1 DEF Quiet, OnePlace
  <2>3. \A d \in Diffs :
           /\ task'[d] # "done" => task[d] # "done"
           /\ task'[d] \notin {"done", "applied"}
                 => task[d] \notin {"done", "applied"}
    BY <2>1 DEF Quiet
  <2> QED
    BY <1>1, <2>1, <2>2, <2>3 DEF Quiet, OnePlace
<1>6. CommittedOnce'
  BY DEF Quiet, CommittedOnce, TypeOK
<1> QED
  BY <1>2, <1>3, <1>4, <1>5, <1>6

(* All steps but those that commit, and those that write the table.        *)
LEMMA QuietSteps ==
    ASSUME IInv, [Next]_vars, TypeOK',
           ~LoopApply, ~LoopClears,
           \A d \in Diffs : ~Apply(d) /\ ~Store(d)
    PROVE  Quiet
<1> USE DEF IInv
<1>1. /\ made \in Nat /\ made' \in Nat /\ faults \in Nat /\ faults' \in Nat
      /\ crashes \in Nat /\ crashes' \in Nat /\ Diffs \subseteq Nat
  BY ConstantsAssumption DEF TypeOK, Diffs
<1>2. CASE Mutate
  BY <1>1, <1>2 DEF Mutate, Quiet, AppliedCommitted, TypeOK
<1>9. CASE Publish
  BY <1>1, <1>9 DEF Publish, Quiet, AppliedCommitted, TypeOK
<1>3. ASSUME NEW d \in Diffs, TaskStep(d) PROVE Quiet
  <2>6. CASE NotShared(d)
    BY <1>1, <2>6
    DEF NotShared, Becomes, TaskOnly, Quiet, AppliedCommitted, TypeOK
  <2>1. CASE Check(d)
    BY <1>1, <2>1
    DEF Check, Becomes, TaskOnly, Quiet, AppliedCommitted, TypeOK
  <2>2. CASE Call(d)
    BY <1>1, <2>2
    DEF Call, Becomes, TaskOnly, Quiet, AppliedCommitted, TypeOK
  <2>3. CASE NotNow(d)
    BY <1>1, <2>3
    DEF NotNow, Becomes, TaskOnly, Quiet, AppliedCommitted, TypeOK
  <2>4. CASE Answer(d)
    BY <1>1, <2>4
    DEF Answer, Becomes, TaskOnly, Quiet, AppliedCommitted, TypeOK
  <2>5. CASE CallFails(d)
    <3>1. faults' > 0 /\ faults' >= faults
      BY <1>1, <2>5 DEF CallFails, Fault
    <3>2. Becomes(d, "failed") \/ Becomes(d, "calling")
      BY <2>5 DEF CallFails
    <3> QED
      BY <1>1, <2>5, <3>1, <3>2
      DEF CallFails, Becomes, TaskOnly, Quiet, AppliedCommitted, TypeOK
  <2> QED
    BY <1>3, <2>1, <2>2, <2>3, <2>4, <2>5, <2>6 DEF TaskStep
<1>4. CASE LoopStep
  <2>1. CASE LoopReads
    BY <1>1, <2>1
    DEF LoopReads, RowsRead, LoopOnly, Quiet, AppliedCommitted, TypeOK
  <2>2. CASE LoopCalls
    BY <1>1, <2>2 DEF LoopCalls, LoopOnly, Quiet, AppliedCommitted, TypeOK
  <2>3. CASE LoopFails
    <3>1. faults' > 0 /\ faults' >= faults
      BY <1>1, <2>3 DEF LoopFails, Fault
    <3>2. batch' \subseteq rows /\ loop' # "applied"
      BY <2>3 DEF LoopFails, RowsOK
    <3> QED
      BY <1>1, <2>3, <3>1, <3>2
      DEF LoopFails, LoopOnly, Quiet, AppliedCommitted, TypeOK
  <2> QED
    BY <1>4, <2>1, <2>2, <2>3 DEF LoopStep
<1>5. CASE EnsureStep
  <2>1. CASE LanguageFound
    BY <1>1, <2>1
    DEF LanguageFound, EnsureOnly, Quiet, AppliedCommitted, TypeOK
  <2>2. CASE Install
    BY <1>1, <2>2 DEF Install, EnsureOnly, Quiet, AppliedCommitted, TypeOK
  <2> QED
    BY <1>5, <2>1, <2>2 DEF EnsureStep
<1>6. CASE SyncWaits \/ SyncEnds
  BY <1>1, <1>6
  DEF SyncWaits, SyncEnds, EnsureOnly, Quiet, AppliedCommitted, TypeOK
<1>7. CASE Crash
  <2>1. crashes' > 0 /\ crashes' >= crashes
    BY <1>1, <1>7 DEF Crash
  <2>2. \A d \in Diffs :
           task'[d] = IF task[d] \in {"none", "done", "private"}
                      THEN task[d] ELSE "killed"
    BY <1>7 DEF Crash
  <2> QED
    BY <1>1, <1>7, <2>1, <2>2 DEF Crash, Quiet, AppliedCommitted, TypeOK
<1>8. CASE UNCHANGED vars
  BY <1>1, <1>8 DEF vars, Quiet, AppliedCommitted, TypeOK
<1> QED
  BY <1>2, <1>3, <1>4, <1>5, <1>6, <1>7, <1>8, <1>9 DEF Next

-----------------------------------------------------------------------------
(* A task's own commit.                                                    *)
LEMMA ApplyStep ==
    ASSUME IInv, TypeOK', NEW d \in Diffs, Apply(d)
    PROVE  IInv'
<1> USE DEF IInv
<1>1. /\ Committed' = Committed \cup {d}
      /\ CommittedOnce /\ (d \notin Committed \/ ~revisions \/ faults # 0
                            \/ crashes # 0) => CommittedOnce'
  BY AppliedGrows DEF Apply, TypeOK, CommittedOnce
<1>2. /\ task[d] = "calling"
      /\ task' = [task EXCEPT ![d] = "applied"]
      /\ UNCHANGED <<made, rows, loop, batch, ensure, revisions, faults, crashes>>
  BY DEF Apply, Becomes
<1>3. RowsOK'
  BY <1>2 DEF RowsOK
<1>4. AppliedCommitted'
  BY <1>1, <1>2 DEF AppliedCommitted, DiffsOf, TypeOK
<1>5. NoneDropped'
  BY <1>1, <1>2 DEF NoneDropped, DiffsOf, TypeOK
<1>6. OnePlace'
  BY <1>1, <1>2 DEF OnePlace, DiffsOf, TypeOK
<1>7. CommittedOnce'
  BY <1>1, <1>2 DEF OnePlace
<1> QED
  BY <1>3, <1>4, <1>5, <1>6, <1>7

(* A diff enters the table.                                                *)
LEMMA StoreStep ==
    ASSUME IInv, TypeOK', NEW d \in Diffs, Store(d)
    PROVE  IInv'
<1> USE DEF IInv
<1>1. PICK id \in 1 .. MaxDiffs + 1 :
         NextId(id) /\ rows' = rows \cup {[id |-> id, diff |-> d]}
  BY DEF Store
<1>2. /\ task[d] = "failed"
      /\ task' = [task EXCEPT ![d] = "done"]
      /\ UNCHANGED <<made, log, loop, batch, ensure, revisions, faults, crashes>>
      /\ Committed' = Committed
  BY DEF Store, Becomes, TaskOnly, Committed
<1>3. DiffsOf(rows)' = DiffsOf(rows) \cup {d}
  <2> DEFINE row == [id |-> id, diff |-> d]
  <2>1. row.diff = d /\ rows' = rows \cup {row}
    BY <1>1
  <2> HIDE DEF row
  <2> QED
    BY <2>1 DEF DiffsOf
<1>4. \A r \in rows : r.id # id
  BY <1>1 DEF NextId, TypeOK, Row
<1>5. RowsOK'
  BY <1>1, <1>2, <1>4 DEF RowsOK
<1>6. AppliedCommitted'
  BY <1>2 DEF AppliedCommitted, DiffsOf, TypeOK
<1>7. NoneDropped'
  BY <1>2, <1>3 DEF NoneDropped, TypeOK
<1>8. OnePlace'
  <2> SUFFICES ASSUME revisions, faults = 0, crashes = 0 PROVE OnePlace'
    BY <1>2 DEF OnePlace
  <2>1. d \notin DiffsOf(rows) /\ d \notin Committed
    BY <1>2 DEF OnePlace
  <2>2. \A r \in rows : r.diff # d
    BY <2>1 DEF DiffsOf
  <2>3. \A r \in rows' : r \in rows \/ r.diff = d
    BY <1>1
  <2> QED
    BY <1>1, <1>2, <1>3, <2>1, <2>2, <2>3 DEF OnePlace, TypeOK
<1>9. CommittedOnce'
  BY <1>2 DEF CommittedOnce
<1> QED
  BY <1>5, <1>6, <1>7, <1>8, <1>9

(* The loop's commit.                                                      *)
LEMMA LoopApplyStep ==
    ASSUME IInv, TypeOK', LoopApply
    PROVE  IInv'
<1> USE DEF IInv
<1>1. DiffsOf(batch) \in SUBSET Diffs
  BY DEF TypeOK, Row, DiffsOf
<1>2. /\ Committed' = Committed \cup DiffsOf(batch)
      /\ CommittedOnce /\ (DiffsOf(batch) \cap Committed = {} \/ ~revisions
                            \/ faults # 0 \/ crashes # 0) => CommittedOnce'
  BY <1>1, AppliedGrows DEF LoopApply, LoopOnly, TypeOK, CommittedOnce
<1>3. /\ loop = "calling" /\ loop' = "applied"
      /\ UNCHANGED <<made, task, rows, batch, ensure, revisions, faults, crashes>>
  BY DEF LoopApply, LoopOnly
<1>4. DiffsOf(rows)' = DiffsOf(rows) /\ DiffsOf(batch)' = DiffsOf(batch)
  BY <1>3 DEF DiffsOf
<1>5. RowsOK' /\ AppliedCommitted' /\ NoneDropped'
  BY <1>2, <1>3, <1>4 DEF RowsOK, AppliedCommitted, NoneDropped
<1>6. ASSUME revisions, faults = 0, crashes = 0
      PROVE  /\ DiffsOf(batch) \cap Committed = {}
             /\ \A r \in rows : r.diff \in DiffsOf(batch) => r \in batch
             /\ DiffsOf(batch) \subseteq DiffsOf(rows)
  BY <1>3, <1>6 DEF OnePlace, RowsOK, DiffsOf
<1>7. OnePlace'
  BY <1>2, <1>3, <1>4, <1>6 DEF OnePlace
<1>8. CommittedOnce'
  BY <1>2, <1>6
<1> QED
  BY <1>5, <1>7, <1>8

(* The rows that the loop committed leave the table.                       *)
LEMMA LoopClearsStep ==
    ASSUME IInv, TypeOK', LoopClears
    PROVE  IInv'
<1> USE DEF IInv
<1>1. /\ loop = "applied" /\ loop' = "idle" /\ batch' = {}
      /\ UNCHANGED <<made, task, log, ensure, revisions, faults, crashes>>
      /\ Committed' = Committed
  BY DEF LoopClears, LoopOnly, Committed
<1>2. rows' = rows \ batch
  BY DEF LoopClears, RowsOK
<1>3. \A d \in DiffsOf(rows) : d \in DiffsOf(rows') \/ d \in Committed
  BY <1>1, <1>2 DEF AppliedCommitted, DiffsOf
<1>4. DiffsOf(rows') \subseteq DiffsOf(rows)
  BY <1>2 DEF DiffsOf
<1>5. RowsOK' /\ AppliedCommitted' /\ NoneDropped'
  BY <1>1, <1>2, <1>3 DEF RowsOK, AppliedCommitted, NoneDropped, DiffsOf
<1>6. OnePlace' /\ CommittedOnce'
  BY <1>1, <1>2, <1>4 DEF OnePlace, CommittedOnce, DiffsOf
<1> QED
  BY <1>5, <1>6

-----------------------------------------------------------------------------
LEMMA TypesBegin == Init => TypeOK
<1> SUFFICES ASSUME Init PROVE TypeOK
  OBVIOUS
<1>1. log \in Seq(SUBSET Diffs) /\ lock \in Seq(Actors)
  BY DEF Init
<1>2. task \in [Diffs -> {"none", "spawned", "queued", "calling", "applied",
                         "failed", "done", "private", "killed"}]
  BY DEF Init
<1>3. /\ made \in 0 .. MaxDiffs /\ immediate \in 0 .. ImmediateCommits
      /\ faults \in 0 .. MaxFaults /\ crashes \in 0 .. MaxCrashes
  BY ConstantsAssumption DEF Init
<1>4. /\ rows \in SUBSET Row /\ batch \in SUBSET Row
      /\ published \in BOOLEAN /\ installed \in BOOLEAN /\ revisions \in BOOLEAN
      /\ loop \in {"idle", "queued", "calling", "applied"}
      /\ ensure \in {"waiting", "found", "done"}
  BY ConstantsAssumption DEF Init
<1> QED
  BY <1>1, <1>2, <1>3, <1>4 DEF TypeOK

(* IInv is inductive.                                                      *)
THEOREM PendingInvariance == Spec => []IInv
<1>1. Init => IInv
  <2> SUFFICES ASSUME Init PROVE IInv
    OBVIOUS
  <2>1. TypeOK
    BY TypesBegin
  <2>2. Committed = {}
    BY DEF Init, Committed
  <2> QED
    BY <2>1, <2>2
    DEF Init, IInv, RowsOK, AppliedCommitted, NoneDropped, OnePlace,
        CommittedOnce, DiffsOf
<1>2. IInv /\ [Next]_vars => IInv'
  <2> SUFFICES ASSUME IInv, [Next]_vars PROVE IInv'
    OBVIOUS
  <2>1. TypeOK'
    BY TypeStep
  <2>2. ASSUME NEW d \in Diffs, Apply(d) \/ Store(d) PROVE IInv'
    BY <2>1, <2>2, ApplyStep, StoreStep
  <2>3. CASE LoopApply \/ LoopClears
    BY <2>1, <2>3, LoopApplyStep, LoopClearsStep
  <2>4. CASE /\ ~LoopApply /\ ~LoopClears
             /\ \A d \in Diffs : ~Apply(d) /\ ~Store(d)
    BY <2>1, <2>4, QuietSteps, QuietStep
  <2> QED
    BY <2>2, <2>3, <2>4
<1> QED
  BY <1>1, <1>2, PTL DEF Spec

(* For any number of diffs, failures and restarts, every variable keeps    *)
(* its type.                                                               *)
THEOREM PendingTyped == Spec => []TypeOK
BY PendingInvariance, PTL DEF IInv

(* No diff is forgotten between its task and the table.                    *)
THEOREM DiffsKept == Spec => []NoneDropped
BY PendingInvariance, PTL DEF IInv

(* Without failures and restarts, every diff is committed at most once by  *)
(* a link language that returns revisions.                                 *)
THEOREM DiffsCommittedOnce == Spec => []CommittedOnce
BY PendingInvariance, PTL DEF IInv

-----------------------------------------------------------------------------
(* The lock of the link language.                                          *)

Once == \A i, j \in DOMAIN lock : lock[i] = lock[j] => i = j

(* Who calls the link language has the lock.                               *)
CallersHold == \A x \in Calling : Holds(x)

LockInv ==
    /\ TypeOK
    /\ NoneLeftBehind
    /\ CallersHold

LEMMA ActorsDiffer ==
    /\ Loop \notin Diffs /\ Ensure \notin Diffs /\ Syncer \notin Diffs
    /\ Loop # Ensure /\ Loop # Syncer /\ Ensure # Syncer
    /\ Diffs \subseteq Actors /\ {Loop, Ensure, Syncer} \subseteq Actors
BY ConstantsAssumption DEF Diffs, Actors, Loop, Ensure, Syncer

LEMMA WaitForFacts ==
    ASSUME lock \in Seq(Actors), Once, NEW x, x \notin Queued, WaitFor(x)
    PROVE  /\ Queued' = Queued \cup {x}
           /\ Once'
           /\ \A y : Holds(y) => Holds(y)'
<1>1. /\ Len(lock) \in Nat /\ DOMAIN lock = 1 .. Len(lock)
      /\ DOMAIN lock' = 1 .. Len(lock) + 1
      /\ \A i \in DOMAIN lock : lock'[i] = lock[i]
      /\ lock'[Len(lock) + 1] = x
  BY DEF WaitFor
<1>2. DOMAIN lock' = DOMAIN lock \cup {Len(lock) + 1}
  BY <1>1
<1>3. Queued' = Queued \cup {x}
  BY <1>1, <1>2 DEF Queued
<1>4. Once'
  BY <1>1, <1>2 DEF Queued, Once
<1>5. ASSUME NEW y, Holds(y) PROVE Holds(y)'
  <2>1. 1 \in DOMAIN lock /\ lock[1] = y
    BY <1>1, <1>5 DEF Holds
  <2>2. lock' # <<>> /\ Head(lock') = lock'[1]
    BY <1>1 DEF WaitFor
  <2> QED
    BY <1>1, <2>1, <2>2 DEF Holds
<1> QED
  BY <1>3, <1>4, <1>5

LEMMA ReleaseFacts ==
    ASSUME lock \in Seq(Actors), Once, NEW x, Release(x)
    PROVE  /\ Queued' = Queued \ {x}
           /\ Once'
           /\ \A y : Holds(y) => y = x
<1>1. /\ Len(lock) \in Nat /\ DOMAIN lock = 1 .. Len(lock) /\ lock # <<>>
      /\ lock' = Tail(lock) /\ DOMAIN lock' = 1 .. Len(lock) - 1
      /\ \A i \in DOMAIN lock' : lock'[i] = lock[i + 1]
      /\ 1 \in DOMAIN lock /\ lock[1] = x
  BY DEF Release, Holds
<1>2. \A i \in DOMAIN lock : i # 1 => i - 1 \in DOMAIN lock' /\ (i - 1) + 1 = i
  BY <1>1
<1>3. \A i \in DOMAIN lock' : i + 1 \in DOMAIN lock /\ i + 1 # 1 /\ i \in Nat
  BY <1>1
<1>4. Queued' \subseteq Queued \ {x}
  BY <1>1, <1>3 DEF Queued, Once
<1>5. Queued \ {x} \subseteq Queued'
  BY <1>1, <1>2 DEF Queued
<1>6. Once'
  <2> SUFFICES ASSUME NEW i \in DOMAIN lock', NEW j \in DOMAIN lock', lock'[i] = lock'[j]
               PROVE  i = j
    BY DEF Once
  <2>1. i + 1 = j + 1
    BY <1>1, <1>3 DEF Once
  <2> QED
    BY <1>3, <2>1
<1> QED
  BY <1>4, <1>5, <1>6 DEF Release, Holds

LEMMA LockingFacts ==
    /\ \A d \in Diffs : d \in Locking <=> task[d] \in {"queued", "calling", "applied"}
    /\ Loop \in Locking <=> loop # "idle"
    /\ Ensure \in Locking <=> ensure = "found"
    /\ Syncer \notin Locking
BY ActorsDiffer DEF Locking

(* The three ways a step treats the lock: somebody waits for it, releases  *)
(* it, or it is left alone.                                                *)
LEMMA WaitStep ==
    ASSUME LockInv, TypeOK', NEW x \in Actors, x \notin Queued, WaitFor(x),
           Locking' = Locking \cup ({x} \ {Syncer}),
           Calling' \ {Syncer} \subseteq Calling
    PROVE  LockInv'
<1>1. Queued' = Queued \cup {x} /\ Once' /\ \A y : Holds(y) => Holds(y)'
  BY WaitForFacts DEF LockInv, TypeOK, NoneLeftBehind, Once
<1>2. NoneLeftBehind'
  BY <1>1 DEF LockInv, NoneLeftBehind, Once
<1>3. ASSUME NEW y \in Calling' PROVE Holds(y)'
  <2>1. CASE y = Syncer
    BY <1>3, <2>1, ActorsDiffer DEF Calling
  <2>2. CASE y # Syncer
    BY <1>1, <1>3, <2>2 DEF LockInv, CallersHold
  <2> QED
    BY <2>1, <2>2
<1> QED
  BY <1>2, <1>3 DEF LockInv, CallersHold

LEMMA ReleaseStep ==
    ASSUME LockInv, TypeOK', NEW x \in Actors, Release(x),
           Locking' = Locking \ {x},
           Calling' \ {Syncer} \subseteq Calling \ {x}
    PROVE  LockInv'
<1>1. Queued' = Queued \ {x} /\ Once' /\ \A y : Holds(y) => y = x
  BY ReleaseFacts DEF LockInv, TypeOK, NoneLeftBehind, Once
<1>2. NoneLeftBehind'
  BY <1>1 DEF LockInv, NoneLeftBehind, Once
<1>3. ASSUME NEW y \in Calling' PROVE Holds(y)'
  <2>1. CASE y = Syncer
    BY <1>3, <2>1, ActorsDiffer DEF Calling
  <2>2. CASE y # Syncer
    BY <1>1, <1>3, <2>2 DEF LockInv, CallersHold
  <2> QED
    BY <2>1, <2>2
<1> QED
  BY <1>2, <1>3 DEF LockInv, CallersHold

LEMMA KeepStep ==
    ASSUME LockInv, TypeOK', lock' = lock, Locking' = Locking,
           \A x \in Calling' \ {Syncer} : Holds(x)
    PROVE  LockInv'
<1>1. NoneLeftBehind'
  BY DEF LockInv, NoneLeftBehind, Queued
<1>2. ASSUME NEW y \in Calling' PROVE Holds(y)'
  <2>1. CASE y = Syncer
    BY <1>2, <2>1, ActorsDiffer DEF Calling
  <2>2. CASE y # Syncer
    BY <1>2, <2>2 DEF Holds
  <2> QED
    BY <2>1, <2>2
<1> QED
  BY <1>1, <1>2 DEF LockInv, CallersHold

(* What a step of one task changes of who is at the lock.                  *)
LEMMA TaskChange ==
    ASSUME TypeOK, NEW d \in Diffs, NEW s, Becomes(d, s), UNCHANGED <<loop, ensure>>
    PROVE  /\ Locking' = IF s \in {"queued", "calling", "applied"} THEN Locking \cup {d}
                         ELSE Locking \ {d}
           /\ s \in {"calling", "applied"} => Calling' \ {Syncer} \subseteq Calling \cup {d}
           /\ s \notin {"calling", "applied"} => Calling' \ {Syncer} \subseteq Calling \ {d}
<1>1. task'[d] = s /\ \A e \in Diffs : e # d => task'[e] = task[e]
  BY DEF Becomes, TypeOK
<1>2. d # Loop /\ d # Ensure /\ d # Syncer
  BY ActorsDiffer
<1> QED
  BY <1>1, <1>2 DEF Locking, Calling

LEMMA LockTaskStep ==
    ASSUME LockInv, TypeOK', NEW d \in Diffs, TaskStep(d)
    PROVE  LockInv'
<1>1. TypeOK /\ d \in Actors /\ d # Syncer /\ (Queued \ {Syncer} = Locking)
  BY ActorsDiffer DEF LockInv, NoneLeftBehind
<1>2. d \in Locking <=> task[d] \in {"queued", "calling", "applied"}
  BY LockingFacts
<1>3. \A x \in Calling : Holds(x)
  BY DEF LockInv, CallersHold
<1>4. ASSUME NEW s, Becomes(d, s), UNCHANGED <<loop, ensure, lock>>,
             task[d] \in {"queued", "calling", "applied"} <=> s \in {"queued", "calling", "applied"},
             s \in {"calling", "applied"} => Holds(d)
      PROVE  LockInv'
  BY <1>1, <1>2, <1>3, <1>4, TaskChange, KeepStep
<1>5. ASSUME NEW s, Becomes(d, s), UNCHANGED <<loop, ensure>>, Release(d),
             s \notin {"queued", "calling", "applied"}
      PROVE  LockInv'
  BY <1>1, <1>5, TaskChange, ReleaseStep
<1>6. CASE NotShared(d)
  BY <1>4, <1>6 DEF NotShared, TaskOnly
<1>7. CASE Check(d)
  <2>1. CASE Becomes(d, "queued") /\ WaitFor(d)
    <3>1. d \notin Queued /\ UNCHANGED <<loop, ensure>>
      BY <1>1, <1>2, <1>7 DEF Check, TaskOnly
    <3>2. Locking' = Locking \cup ({d} \ {Syncer}) /\ Calling' \ {Syncer} \subseteq Calling
      BY <1>1, <2>1, <3>1, TaskChange
    <3> QED
      BY <1>1, <2>1, <3>1, <3>2, WaitStep
  <2>2. CASE Becomes(d, "failed") /\ UNCHANGED lock
    BY <1>4, <1>7, <2>2 DEF Check, TaskOnly
  <2> QED
    BY <1>7, <2>1, <2>2 DEF Check
<1>8. CASE Call(d)
  BY <1>4, <1>8 DEF Call, TaskOnly
<1>9. CASE NotNow(d)
  BY <1>5, <1>9 DEF NotNow, TaskOnly
<1>10. task[d] \in {"calling", "applied"} => Holds(d)
  BY <1>3 DEF Calling
<1>11. CASE Apply(d)
  BY <1>4, <1>10, <1>11 DEF Apply
<1>12. CASE Answer(d)
  BY <1>5, <1>12 DEF Answer, TaskOnly
<1>13. CASE CallFails(d)
  BY <1>4, <1>5, <1>10, <1>13 DEF CallFails, TaskOnly
<1>14. CASE Store(d)
  BY <1>4, <1>14 DEF Store, TaskOnly
<1> QED
  BY <1>6, <1>7, <1>8, <1>9, <1>11, <1>12, <1>13, <1>14 DEF TaskStep

LEMMA LockLoopStep ==
    ASSUME LockInv, TypeOK', LoopStep
    PROVE  LockInv'
<1>1. TypeOK /\ Loop \in Actors /\ Loop # Syncer /\ Queued \ {Syncer} = Locking
  BY ActorsDiffer DEF LockInv, NoneLeftBehind
<1>2. Loop \in Locking <=> loop # "idle"
  BY LockingFacts
<1>3. \A x \in Calling : Holds(x)
  BY DEF LockInv, CallersHold
<1>4. task' = task /\ ensure' = ensure
  BY DEF LoopStep, LoopReads, LoopCalls, LoopApply, LoopClears, LoopFails, LoopOnly
<1>5. /\ Locking' = IF loop' # "idle" THEN Locking \cup {Loop} ELSE Locking \ {Loop}
      /\ loop' \in {"calling", "applied"} => Calling' \ {Syncer} \subseteq Calling \cup {Loop}
      /\ loop' \notin {"calling", "applied"} => Calling' \ {Syncer} \subseteq Calling \ {Loop}
  BY <1>4, ActorsDiffer DEF Locking, Calling
<1>6. loop \in {"calling", "applied"} => Holds(Loop)
  BY <1>3 DEF Calling
<1>7. ASSUME lock' = lock, loop # "idle", loop' # "idle", Holds(Loop) PROVE LockInv'
  BY <1>1, <1>2, <1>3, <1>5, <1>7, KeepStep
<1>8. ASSUME loop' = "idle", Release(Loop) PROVE LockInv'
  BY <1>1, <1>5, <1>8, ReleaseStep
<1>9. CASE LoopReads
  <2>1. Loop \notin Queued /\ loop' = "queued" /\ WaitFor(Loop)
    BY <1>1, <1>2, <1>9 DEF LoopReads
  <2>2. Locking' = Locking \cup ({Loop} \ {Syncer}) /\ Calling' \ {Syncer} \subseteq Calling
    BY <1>1, <1>5, <2>1
  <2> QED
    BY <1>1, <2>1, <2>2, WaitStep
<1>10. CASE LoopCalls
  BY <1>7, <1>10 DEF LoopCalls
<1>11. CASE LoopApply
  BY <1>6, <1>7, <1>11 DEF LoopApply
<1>12. CASE LoopClears
  BY <1>8, <1>12 DEF LoopClears
<1>13. CASE LoopFails
  BY <1>6, <1>7, <1>8, <1>13 DEF LoopFails
<1> QED
  BY <1>9, <1>10, <1>11, <1>12, <1>13 DEF LoopStep

LEMMA LockOtherStep ==
    ASSUME IInv, LockInv, TypeOK', Mutate \/ Publish \/ EnsureStep \/ SyncWaits \/ SyncEnds \/ Crash
    PROVE  LockInv'
<1>1. /\ TypeOK /\ Queued \ {Syncer} = Locking /\ \A x \in Calling : Holds(x)
      /\ Ensure \in Actors /\ Syncer \in Actors /\ Ensure # Syncer
  BY ActorsDiffer DEF LockInv, NoneLeftBehind, CallersHold
<1>2. CASE Mutate
  <2>1. made + 1 \in Diffs
    BY <1>1, <1>2, ConstantsAssumption DEF Mutate, TypeOK, Diffs
  <2>2. /\ Becomes(made + 1, "spawned")
        /\ UNCHANGED <<loop, ensure, lock>>
    BY <1>2 DEF Mutate, Becomes
  <2>3. task[made + 1] = "none"
    BY <1>1, <2>1, ConstantsAssumption DEF IInv, AppliedCommitted, TypeOK, Diffs
  <2>4. Locking' = Locking /\ Calling' \ {Syncer} \subseteq Calling
    BY <1>1, <2>1, <2>2, <2>3, TaskChange, LockingFacts
  <2> QED
    BY <1>1, <2>2, <2>4, KeepStep
<1>3. CASE Publish
  <2>1. UNCHANGED <<task, loop, ensure, lock>>
    BY <1>3 DEF Publish
  <2>2. Locking' = Locking /\ Calling' = Calling
    BY <2>1 DEF Locking, Calling, Holds
  <2> QED
    BY <1>1, <2>1, <2>2, KeepStep
<1>4. ASSUME UNCHANGED <<task, loop>>
      PROVE  /\ Locking' = IF ensure' = "found" THEN Locking \cup {Ensure} ELSE Locking \ {Ensure}
             /\ Calling' \ {Syncer} \subseteq Calling \ {Syncer, Ensure}
  BY <1>4, ActorsDiffer DEF Locking, Calling
<1>5. CASE LanguageFound
  <2>1. /\ UNCHANGED <<task, loop>> /\ ensure' = "found" /\ WaitFor(Ensure)
        /\ Ensure \notin Queued
    BY <1>1, <1>5, LockingFacts DEF LanguageFound, EnsureOnly
  <2>2. Locking' = Locking \cup ({Ensure} \ {Syncer}) /\ Calling' \ {Syncer} \subseteq Calling
    BY <1>1, <1>4, <2>1
  <2> QED
    BY <1>1, <2>1, <2>2, WaitStep
<1>6. CASE Install
  <2>1. UNCHANGED <<task, loop>> /\ ensure' = "done" /\ Release(Ensure)
    BY <1>6 DEF Install, EnsureOnly
  <2>2. Locking' = Locking \ {Ensure} /\ Calling' \ {Syncer} \subseteq Calling \ {Ensure}
    BY <1>4, <2>1
  <2> QED
    BY <1>1, <2>1, <2>2, ReleaseStep
<1>7. ASSUME UNCHANGED <<task, loop, ensure>>
      PROVE  Locking' = Locking /\ Calling' \ {Syncer} \subseteq Calling \ {Syncer}
  BY <1>7 DEF Locking, Calling
<1>8. CASE SyncWaits
  <2>1. UNCHANGED <<task, loop, ensure>> /\ WaitFor(Syncer) /\ Syncer \notin Queued
    BY <1>8 DEF SyncWaits, EnsureOnly, Queued
  <2>2. Locking' = Locking \cup ({Syncer} \ {Syncer}) /\ Calling' \ {Syncer} \subseteq Calling
    BY <1>7, <2>1
  <2> QED
    BY <1>1, <2>1, <2>2, WaitStep
<1>9. CASE SyncEnds
  <2>1. UNCHANGED <<task, loop, ensure>> /\ Release(Syncer)
    BY <1>9 DEF SyncEnds, EnsureOnly
  <2>2. Locking' = Locking \ {Syncer} /\ Calling' \ {Syncer} \subseteq Calling \ {Syncer}
    BY <1>7, <2>1, LockingFacts
  <2> QED
    BY <1>1, <2>1, <2>2, ReleaseStep
<1>10. CASE Crash
  <2>1. lock' = <<>> /\ loop' = "idle" /\ ensure' = "waiting"
    BY <1>10 DEF Crash
  <2>2. \A d \in Diffs : task'[d] \notin {"queued", "calling", "applied"}
    BY <1>10 DEF Crash
  <2>3. Queued' = {} /\ Locking' = {} /\ Calling' = {}
    BY <2>1, <2>2 DEF Queued, Locking, Calling, Holds
  <2>4. NoneLeftBehind'
    BY <2>1, <2>3 DEF NoneLeftBehind
  <2> QED
    BY <2>3, <2>4 DEF LockInv, CallersHold
<1> QED
  BY <1>2, <1>3, <1>5, <1>6, <1>8, <1>9, <1>10 DEF EnsureStep

LEMMA LockInvariance == Spec => []LockInv
<1>1. Init => LockInv
  <2> SUFFICES ASSUME Init PROVE LockInv
    OBVIOUS
  <2>1. TypeOK
    BY TypesBegin
  <2>2. lock = <<>> /\ loop = "idle" /\ ensure = "waiting" /\ \A d \in Diffs : task[d] = "none"
    BY DEF Init
  <2>3. Queued = {} /\ Locking = {} /\ Calling = {}
    BY <2>2 DEF Queued, Locking, Calling, Holds
  <2> QED
    BY <2>1, <2>2, <2>3 DEF LockInv, NoneLeftBehind, CallersHold
<1>2. IInv /\ LockInv /\ [Next]_vars => LockInv'
  <2> SUFFICES ASSUME IInv, LockInv, [Next]_vars PROVE LockInv'
    OBVIOUS
  <2>1. TypeOK'
    BY TypeStep
  <2>2. CASE UNCHANGED vars
    <3>1. UNCHANGED <<task, loop, ensure, lock>>
      BY <2>2 DEF vars
    <3>2. Locking' = Locking /\ Calling' = Calling
      BY <3>1 DEF Locking, Calling, Holds
    <3> QED
      BY <2>1, <3>1, <3>2, KeepStep DEF LockInv, CallersHold
  <2> QED
    BY <2>1, <2>2, LockTaskStep, LockLoopStep, LockOtherStep DEF Next
<1> QED
  BY <1>1, <1>2, PendingInvariance, PTL DEF Spec

(* Whoever waits for the lock of the link language, or has it, is on the   *)
(* way to release it; failures and restarts leave nobody behind in it.     *)
THEOREM LockIsReleased == Spec => []NoneLeftBehind
BY LockInvariance, PTL DEF LockInv

(* Two calls never reach the link language of a perspective at a time.     *)
THEOREM LanguageCalledAlone == Spec => []CalledAlone
<1>1. LockInv => CalledAlone
  BY DEF LockInv, CallersHold, CalledAlone, Holds
<1> QED
  BY <1>1, LockInvariance, PTL

(***************************************************************************)
(* Notifications.                                                          *)
(***************************************************************************)

(* A row has as many versions as it was changed, and the loop rests with   *)
(* nothing to ask for.                                                     *)
Versions == \A r \in notifications : r.version <= actions + 1

AtRest == phase \in {"begins", "idle"} => todo = {} /\ after = {}

(* Matches that were found, in this round or before.                       *)
Found == announced \cup after

FoundLinks == \A m \in Found : m.link \in 1 .. latest

(* Rows that the loop has or had were in the table, and come back in no    *)
(* other form: a row of the table is the same or a later version.          *)
Past(r) == r.note \in ids /\ \A q \in notifications : q.note = r.note => r.version <= q.version

RowsPast == (\A m \in Found : Past(m.row)) /\ \A r \in todo : Past(r)

(* An engine that is fit has the facts of what it has found.               *)
FactsKept == engine = "fit" => \A m \in Found : m.link \in links => m.link \in facts

(* Between two rounds and in one, the last round has had every match that  *)
(* was announced and whose row is asked for.                               *)
Asked == notifications \cup todo \cup {m.row : m \in after}

BeforeHasAll ==
    phase \in {"idle", "round"} =>
        \A m \in announced : m.link \in links /\ m.row \in Asked => m \in before

(* A round has found it again, unless it has not asked for its row yet.    *)
AfterWillHave ==
    phase \in {"first", "round"} =>
        \A m \in announced :
            m.link \in links /\ m.row \in notifications => m.row \in todo \/ m \in after

NotesInv ==
    /\ N!TypeOK /\ Versions /\ AtRest /\ FoundLinks /\ RowsPast
    /\ errors = 0 => ~repeated /\ FactsKept /\ BeforeHasAll /\ AfterWillHave

(* Steps of the flag and of the channels.                                  *)
LEMMA NotesElsewhere ==
    ASSUME NotesInv, N!TypeOK',
           UNCHANGED <<links, latest, facts, engine, notifications, ids, phase, todo, before, after,
                       announced, repeated, errors>>,
           actions' \in {actions, actions + 1}
    PROVE  NotesInv'
<1>1. Versions' /\ AtRest' /\ FoundLinks' /\ RowsPast'
  BY DEF NotesInv, N!TypeOK, N!Row, Versions, AtRest, FoundLinks, RowsPast, Past, Found
<1>2. FactsKept' <=> FactsKept
  BY DEF FactsKept, Found
<1>3. BeforeHasAll' <=> BeforeHasAll
  BY DEF BeforeHasAll, Asked
<1>4. AfterWillHave' <=> AfterWillHave
  BY DEF AfterWillHave
<1> QED
  BY <1>1, <1>2, <1>3, <1>4 DEF NotesInv

LEMMA NotesAddLink ==
    ASSUME NotesInv, N!AddLink
    PROVE  NotesInv'
<1>1. N!TypeOK'
  BY BoundsOfNotifications DEF NotesInv, N!AddLink, N!Act, N!content, N!prolog, N!flag, N!table, N!rounds, N!channels, N!history, N!bounds, N!TypeOK, Versions, N!Row, N!Match, N!Message, N!Links
<1>2. (Versions /\ AtRest /\ FoundLinks)'
  BY BoundsOfNotifications DEF NotesInv, N!AddLink, N!Act, N!content, N!prolog, N!flag, N!table, N!rounds, N!channels, N!history, N!bounds, Versions, AtRest, FoundLinks, Found, N!TypeOK, N!Row, N!Match
<1>3. RowsPast'
  BY BoundsOfNotifications DEF NotesInv, N!AddLink, N!Act, N!content, N!prolog, N!flag, N!table, N!rounds, N!channels, N!history, N!bounds, RowsPast, Past, Found, Versions, N!TypeOK, N!Row, N!Match
<1>4. (errors = 0 => ~repeated /\ FactsKept /\ BeforeHasAll /\ AfterWillHave)'
  BY BoundsOfNotifications DEF NotesInv, N!AddLink, N!Act, N!content, N!prolog, N!flag, N!table, N!rounds, N!channels, N!history, N!bounds, BeforeHasAll, AfterWillHave, Asked, Found, FactsKept, FoundLinks, RowsPast, Past, AtRest, N!TypeOK, N!Row, N!Match
<1> QED
  BY <1>1, <1>2, <1>3, <1>4 DEF NotesInv

LEMMA NotesRemoveLink ==
    ASSUME NotesInv, NEW l \in links, N!RemoveLink(l)
    PROVE  NotesInv'
<1>1. N!TypeOK'
  BY BoundsOfNotifications DEF NotesInv, N!RemoveLink, N!Act, N!content, N!prolog, N!flag, N!table, N!rounds, N!channels, N!history, N!bounds, N!TypeOK, Versions, N!Row, N!Match, N!Message, N!Links
<1>2. (Versions /\ AtRest /\ FoundLinks)'
  BY BoundsOfNotifications DEF NotesInv, N!RemoveLink, N!Act, N!content, N!prolog, N!flag, N!table, N!rounds, N!channels, N!history, N!bounds, Versions, AtRest, FoundLinks, Found, N!TypeOK, N!Row, N!Match
<1>3. RowsPast'
  BY BoundsOfNotifications DEF NotesInv, N!RemoveLink, N!Act, N!content, N!prolog, N!flag, N!table, N!rounds, N!channels, N!history, N!bounds, RowsPast, Past, Found, Versions, N!TypeOK, N!Row, N!Match
<1>4. (errors = 0 => ~repeated /\ FactsKept /\ BeforeHasAll /\ AfterWillHave)'
  BY BoundsOfNotifications DEF NotesInv, N!RemoveLink, N!Act, N!content, N!prolog, N!flag, N!table, N!rounds, N!channels, N!history, N!bounds, BeforeHasAll, AfterWillHave, Asked, Found, FactsKept, FoundLinks, RowsPast, Past, AtRest, N!TypeOK, N!Row, N!Match
<1> QED
  BY <1>1, <1>2, <1>3, <1>4 DEF NotesInv

LEMMA NotesSetFlag ==
    ASSUME NotesInv, N!SetFlag
    PROVE  NotesInv'
<1>1. N!TypeOK'
  BY BoundsOfNotifications DEF NotesInv, N!SetFlag, N!FlagFree, N!content, N!prolog, N!flag, N!table, N!rounds, N!channels, N!history, N!bounds, N!TypeOK, Versions, N!Row, N!Match, N!Message, N!Links
<1> QED
  BY <1>1, NotesElsewhere DEF N!SetFlag, N!content, N!prolog, N!table, N!rounds, N!history, N!bounds

LEMMA NotesOtherChange ==
    ASSUME NotesInv, N!OtherChange
    PROVE  NotesInv'
<1>1. N!TypeOK'
  BY BoundsOfNotifications DEF NotesInv, N!OtherChange, N!FlagFree, N!content, N!prolog, N!flag, N!table, N!rounds, N!channels, N!history, N!bounds, N!TypeOK, Versions, N!Row, N!Match, N!Message, N!Links
<1> QED
  BY <1>1, NotesElsewhere DEF N!OtherChange, N!content, N!prolog, N!table, N!rounds, N!history, N!bounds

LEMMA NotesAssertFact ==
    ASSUME NotesInv, NEW l \in asserting, N!AssertFact(l)
    PROVE  NotesInv'
<1>1. N!TypeOK'
  <2>1. asserting' \subseteq 1 .. latest /\ facts' \subseteq 1 .. latest
    BY DEF NotesInv, N!TypeOK, N!AssertFact, N!Answers, N!Fails, N!Ensured
  <2>2. errors' \in 0 .. MaxErrors /\ engine' \in {"fit", "unfit"} /\ UNCHANGED <<actions, stops>>
    BY BoundsOfNotifications DEF NotesInv, N!TypeOK, N!AssertFact, N!Answers, N!Fails, N!bounds
  <2>3. UNCHANGED <<links, latest, reloading, unset, changed, notifications, ids, phase, todo, before,
                   after, sending, topic, unread, there, due, announced, repeated>>
    BY DEF N!AssertFact, N!content, N!prolog, N!flag, N!table, N!rounds, N!channels, N!history, N!bounds
  <2> QED
    BY <2>1, <2>2, <2>3 DEF NotesInv, N!TypeOK
<1>2. (Versions /\ AtRest /\ FoundLinks)'
  BY BoundsOfNotifications DEF NotesInv, N!AssertFact, N!Answers, N!Ensured, N!Fails, N!content, N!prolog, N!flag, N!table, N!rounds, N!channels, N!history, N!bounds, Versions, AtRest, FoundLinks, Found, N!TypeOK, N!Row, N!Match
<1>3. RowsPast'
  BY BoundsOfNotifications DEF NotesInv, N!AssertFact, N!Answers, N!Ensured, N!Fails, N!content, N!prolog, N!flag, N!table, N!rounds, N!channels, N!history, N!bounds, RowsPast, Past, Found, Versions, N!TypeOK, N!Row, N!Match
<1>4. (errors = 0 => ~repeated /\ FactsKept /\ BeforeHasAll /\ AfterWillHave)'
  BY BoundsOfNotifications DEF NotesInv, N!AssertFact, N!Answers, N!Ensured, N!Fails, N!content, N!prolog, N!flag, N!table, N!rounds, N!channels, N!history, N!bounds, BeforeHasAll, AfterWillHave, Asked, Found, FactsKept, FoundLinks, RowsPast, Past, AtRest, N!TypeOK, N!Row, N!Match
<1> QED
  BY <1>1, <1>2, <1>3, <1>4 DEF NotesInv

LEMMA NotesReload ==
    ASSUME NotesInv, N!Reload
    PROVE  NotesInv'
<1>1. N!TypeOK'
  BY BoundsOfNotifications DEF NotesInv, N!Reload, N!Answers, N!content, N!prolog, N!flag, N!table, N!rounds, N!channels, N!history, N!bounds, N!TypeOK, Versions, N!Row, N!Match, N!Message, N!Links
<1>2. (Versions /\ AtRest /\ FoundLinks)'
  BY BoundsOfNotifications DEF NotesInv, N!Reload, N!Answers, N!content, N!prolog, N!flag, N!table, N!rounds, N!channels, N!history, N!bounds, Versions, AtRest, FoundLinks, Found, N!TypeOK, N!Row, N!Match
<1>3. RowsPast'
  BY BoundsOfNotifications DEF NotesInv, N!Reload, N!Answers, N!content, N!prolog, N!flag, N!table, N!rounds, N!channels, N!history, N!bounds, RowsPast, Past, Found, Versions, N!TypeOK, N!Row, N!Match
<1>4. (errors = 0 => ~repeated /\ FactsKept /\ BeforeHasAll /\ AfterWillHave)'
  BY BoundsOfNotifications DEF NotesInv, N!Reload, N!Answers, N!content, N!prolog, N!flag, N!table, N!rounds, N!channels, N!history, N!bounds, BeforeHasAll, AfterWillHave, Asked, Found, FactsKept, FoundLinks, RowsPast, Past, AtRest, N!TypeOK, N!Row, N!Match
<1> QED
  BY <1>1, <1>2, <1>3, <1>4 DEF NotesInv

LEMMA NotesRequest ==
    ASSUME NotesInv, NEW n \in Notes, N!Request(n)
    PROVE  NotesInv'
<1>1. N!TypeOK'
  BY BoundsOfNotifications DEF NotesInv, N!Request, N!Act, N!TableOnly, N!content, N!prolog, N!flag, N!table, N!rounds, N!channels, N!history, N!bounds, N!TypeOK, Versions, N!Row, N!Match, N!Message, N!Links
<1>2. (Versions /\ AtRest /\ FoundLinks)'
  BY BoundsOfNotifications DEF NotesInv, N!Request, N!Act, N!TableOnly, N!content, N!prolog, N!flag, N!table, N!rounds, N!channels, N!history, N!bounds, Versions, AtRest, FoundLinks, Found, N!TypeOK, N!Row, N!Match
<1>3. RowsPast'
  BY BoundsOfNotifications DEF NotesInv, N!Request, N!Act, N!TableOnly, N!content, N!prolog, N!flag, N!table, N!rounds, N!channels, N!history, N!bounds, RowsPast, Past, Found, Versions, N!TypeOK, N!Row, N!Match
<1>4. (errors = 0 => ~repeated /\ FactsKept /\ BeforeHasAll /\ AfterWillHave)'
  BY BoundsOfNotifications DEF NotesInv, N!Request, N!Act, N!TableOnly, N!content, N!prolog, N!flag, N!table, N!rounds, N!channels, N!history, N!bounds, BeforeHasAll, AfterWillHave, Asked, Found, FactsKept, FoundLinks, RowsPast, Past, AtRest, N!TypeOK, N!Row, N!Match
<1> QED
  BY <1>1, <1>2, <1>3, <1>4 DEF NotesInv

LEMMA NotesChange ==
    ASSUME NotesInv, NEW r \in notifications, N!Change(r)
    PROVE  NotesInv'
<1>1. N!TypeOK'
  BY BoundsOfNotifications DEF NotesInv, N!Change, N!Act, N!TableOnly, N!content, N!prolog, N!flag, N!table, N!rounds, N!channels, N!history, N!bounds, N!TypeOK, Versions, N!Row, N!Match, N!Message, N!Links
<1>2. (Versions /\ AtRest /\ FoundLinks)'
  BY BoundsOfNotifications DEF NotesInv, N!Change, N!Act, N!TableOnly, N!content, N!prolog, N!flag, N!table, N!rounds, N!channels, N!history, N!bounds, Versions, AtRest, FoundLinks, Found, N!TypeOK, N!Row, N!Match
<1>3. RowsPast'
  BY BoundsOfNotifications DEF NotesInv, N!Change, N!Act, N!TableOnly, N!content, N!prolog, N!flag, N!table, N!rounds, N!channels, N!history, N!bounds, RowsPast, Past, Found, Versions, N!TypeOK, N!Row, N!Match
<1>4. (errors = 0 => ~repeated /\ FactsKept /\ BeforeHasAll /\ AfterWillHave)'
  BY BoundsOfNotifications DEF NotesInv, N!Change, N!Act, N!TableOnly, N!content, N!prolog, N!flag, N!table, N!rounds, N!channels, N!history, N!bounds, BeforeHasAll, AfterWillHave, Asked, Found, FactsKept, FoundLinks, RowsPast, Past, AtRest, N!TypeOK, N!Row, N!Match
<1> QED
  BY <1>1, <1>2, <1>3, <1>4 DEF NotesInv

LEMMA NotesRemoveNotification ==
    ASSUME NotesInv, NEW r \in notifications, N!RemoveNotification(r)
    PROVE  NotesInv'
<1>1. N!TypeOK'
  BY BoundsOfNotifications DEF NotesInv, N!RemoveNotification, N!Act, N!TableOnly, N!content, N!prolog, N!flag, N!table, N!rounds, N!channels, N!history, N!bounds, N!TypeOK, Versions, N!Row, N!Match, N!Message, N!Links
<1>2. (Versions /\ AtRest /\ FoundLinks)'
  BY BoundsOfNotifications DEF NotesInv, N!RemoveNotification, N!Act, N!TableOnly, N!content, N!prolog, N!flag, N!table, N!rounds, N!channels, N!history, N!bounds, Versions, AtRest, FoundLinks, Found, N!TypeOK, N!Row, N!Match
<1>3. RowsPast'
  BY BoundsOfNotifications DEF NotesInv, N!RemoveNotification, N!Act, N!TableOnly, N!content, N!prolog, N!flag, N!table, N!rounds, N!channels, N!history, N!bounds, RowsPast, Past, Found, Versions, N!TypeOK, N!Row, N!Match
<1>4. (errors = 0 => ~repeated /\ FactsKept /\ BeforeHasAll /\ AfterWillHave)'
  BY BoundsOfNotifications DEF NotesInv, N!RemoveNotification, N!Act, N!TableOnly, N!content, N!prolog, N!flag, N!table, N!rounds, N!channels, N!history, N!bounds, BeforeHasAll, AfterWillHave, Asked, Found, FactsKept, FoundLinks, RowsPast, Past, AtRest, N!TypeOK, N!Row, N!Match
<1> QED
  BY <1>1, <1>2, <1>3, <1>4 DEF NotesInv

LEMMA NotesFirstRound ==
    ASSUME NotesInv, N!FirstRound
    PROVE  NotesInv'
<1>1. N!TypeOK'
  BY BoundsOfNotifications DEF NotesInv, N!FirstRound, N!Begins, N!LoopOnly, N!content, N!prolog, N!flag, N!table, N!rounds, N!channels, N!history, N!bounds, N!TypeOK, Versions, N!Row, N!Match, N!Message, N!Links
<1>2. (Versions /\ AtRest /\ FoundLinks)'
  BY BoundsOfNotifications DEF NotesInv, N!FirstRound, N!Begins, N!LoopOnly, N!content, N!prolog, N!flag, N!table, N!rounds, N!channels, N!history, N!bounds, Versions, AtRest, FoundLinks, Found, N!TypeOK, N!Row, N!Match
<1>3. RowsPast'
  BY BoundsOfNotifications DEF NotesInv, N!FirstRound, N!Begins, N!LoopOnly, N!content, N!prolog, N!flag, N!table, N!rounds, N!channels, N!history, N!bounds, RowsPast, Past, Found, Versions, N!TypeOK, N!Row, N!Match
<1>4. (errors = 0 => ~repeated /\ FactsKept /\ BeforeHasAll /\ AfterWillHave)'
  BY BoundsOfNotifications DEF NotesInv, N!FirstRound, N!Begins, N!LoopOnly, N!content, N!prolog, N!flag, N!table, N!rounds, N!channels, N!history, N!bounds, BeforeHasAll, AfterWillHave, Asked, Found, FactsKept, FoundLinks, RowsPast, Past, AtRest, N!TypeOK, N!Row, N!Match
<1> QED
  BY <1>1, <1>2, <1>3, <1>4 DEF NotesInv

LEMMA NotesRound ==
    ASSUME NotesInv, N!Round
    PROVE  NotesInv'
<1>1. N!TypeOK'
  BY BoundsOfNotifications DEF NotesInv, N!Round, N!Begins, N!LoopOnly, N!content, N!prolog, N!flag, N!table, N!rounds, N!channels, N!history, N!bounds, N!TypeOK, Versions, N!Row, N!Match, N!Message, N!Links
<1>2. (Versions /\ AtRest /\ FoundLinks)'
  BY BoundsOfNotifications DEF NotesInv, N!Round, N!Begins, N!LoopOnly, N!content, N!prolog, N!flag, N!table, N!rounds, N!channels, N!history, N!bounds, Versions, AtRest, FoundLinks, Found, N!TypeOK, N!Row, N!Match
<1>3. RowsPast'
  BY BoundsOfNotifications DEF NotesInv, N!Round, N!Begins, N!LoopOnly, N!content, N!prolog, N!flag, N!table, N!rounds, N!channels, N!history, N!bounds, RowsPast, Past, Found, Versions, N!TypeOK, N!Row, N!Match
<1>4. (errors = 0 => ~repeated /\ FactsKept /\ BeforeHasAll /\ AfterWillHave)'
  BY BoundsOfNotifications DEF NotesInv, N!Round, N!Begins, N!LoopOnly, N!content, N!prolog, N!flag, N!table, N!rounds, N!channels, N!history, N!bounds, BeforeHasAll, AfterWillHave, Asked, Found, FactsKept, FoundLinks, RowsPast, Past, AtRest, N!TypeOK, N!Row, N!Match
<1> QED
  BY <1>1, <1>2, <1>3, <1>4 DEF NotesInv

LEMMA NotesAskTrigger ==
    ASSUME NotesInv, NEW r \in todo, N!AskTrigger(r)
    PROVE  NotesInv'
<1>1. N!TypeOK'
  BY BoundsOfNotifications DEF NotesInv, N!AskTrigger, N!Answers, N!Ensured, N!Matches, N!LoopOnly, N!content, N!prolog, N!flag, N!table, N!rounds, N!channels, N!history, N!bounds, N!TypeOK, Versions, N!Row, N!Match, N!Message, N!Links
<1>2. (Versions /\ AtRest /\ FoundLinks)'
  <2>1. /\ UNCHANGED <<notifications, latest, actions, phase, announced>>
        /\ phase \notin {"begins", "idle"}
    BY DEF NotesInv, AtRest, N!AskTrigger, N!Answers, N!LoopOnly, N!content, N!table, N!history,
           N!bounds
  <2>2. facts' \subseteq 1 .. latest
    BY DEF NotesInv, N!TypeOK, N!AskTrigger, N!Answers, N!Ensured
  <2>3. \A m \in after' : m \in after \/ m.link \in facts'
    BY DEF N!AskTrigger, N!Matches
  <2> QED
    BY <2>1, <2>2, <2>3 DEF NotesInv, Versions, AtRest, FoundLinks, Found
<1>3. RowsPast'
  BY BoundsOfNotifications DEF NotesInv, N!AskTrigger, N!Answers, N!Ensured, N!Matches, N!LoopOnly, N!content, N!prolog, N!flag, N!table, N!rounds, N!channels, N!history, N!bounds, RowsPast, Past, Found, Versions, N!TypeOK, N!Row, N!Match
<1>4. (errors = 0 => ~repeated /\ FactsKept /\ BeforeHasAll /\ AfterWillHave)'
  BY BoundsOfNotifications DEF NotesInv, N!AskTrigger, N!Answers, N!Ensured, N!Matches, N!LoopOnly, N!content, N!prolog, N!flag, N!table, N!rounds, N!channels, N!history, N!bounds, BeforeHasAll, AfterWillHave, Asked, Found, FactsKept, FoundLinks, RowsPast, Past, AtRest, N!TypeOK, N!Row, N!Match
<1> QED
  BY <1>1, <1>2, <1>3, <1>4 DEF NotesInv

LEMMA NotesTriggerFails ==
    ASSUME NotesInv, N!TriggerFails
    PROVE  NotesInv'
<1>1. N!TypeOK'
  BY BoundsOfNotifications DEF NotesInv, N!TriggerFails, N!Fails, N!LoopOnly, N!content, N!prolog, N!flag, N!table, N!rounds, N!channels, N!history, N!bounds, N!TypeOK, Versions, N!Row, N!Match, N!Message, N!Links
<1>2. (Versions /\ AtRest /\ FoundLinks)'
  BY BoundsOfNotifications DEF NotesInv, N!TriggerFails, N!Fails, N!LoopOnly, N!content, N!prolog, N!flag, N!table, N!rounds, N!channels, N!history, N!bounds, Versions, AtRest, FoundLinks, Found, N!TypeOK, N!Row, N!Match
<1>3. RowsPast'
  BY BoundsOfNotifications DEF NotesInv, N!TriggerFails, N!Fails, N!LoopOnly, N!content, N!prolog, N!flag, N!table, N!rounds, N!channels, N!history, N!bounds, RowsPast, Past, Found, Versions, N!TypeOK, N!Row, N!Match
<1>4. (errors = 0 => ~repeated /\ FactsKept /\ BeforeHasAll /\ AfterWillHave)'
  BY BoundsOfNotifications DEF NotesInv, N!TriggerFails, N!Fails, N!LoopOnly, N!content, N!prolog, N!flag, N!table, N!rounds, N!channels, N!history, N!bounds, BeforeHasAll, AfterWillHave, Asked, Found, FactsKept, FoundLinks, RowsPast, Past, AtRest, N!TypeOK, N!Row, N!Match
<1> QED
  BY <1>1, <1>2, <1>3, <1>4 DEF NotesInv

LEMMA NotesFirstOver ==
    ASSUME NotesInv, N!FirstOver
    PROVE  NotesInv'
<1>1. N!TypeOK'
  BY BoundsOfNotifications DEF NotesInv, N!FirstOver, N!LoopOnly, N!content, N!prolog, N!flag, N!table, N!rounds, N!channels, N!history, N!bounds, N!TypeOK, Versions, N!Row, N!Match, N!Message, N!Links
<1>2. (Versions /\ AtRest /\ FoundLinks)'
  BY BoundsOfNotifications DEF NotesInv, N!FirstOver, N!LoopOnly, N!content, N!prolog, N!flag, N!table, N!rounds, N!channels, N!history, N!bounds, Versions, AtRest, FoundLinks, Found, N!TypeOK, N!Row, N!Match
<1>3. RowsPast'
  BY BoundsOfNotifications DEF NotesInv, N!FirstOver, N!LoopOnly, N!content, N!prolog, N!flag, N!table, N!rounds, N!channels, N!history, N!bounds, RowsPast, Past, Found, Versions, N!TypeOK, N!Row, N!Match
<1>4. (errors = 0 => ~repeated /\ FactsKept /\ BeforeHasAll /\ AfterWillHave)'
  BY BoundsOfNotifications DEF NotesInv, N!FirstOver, N!LoopOnly, N!content, N!prolog, N!flag, N!table, N!rounds, N!channels, N!history, N!bounds, BeforeHasAll, AfterWillHave, Asked, Found, FactsKept, FoundLinks, RowsPast, Past, AtRest, N!TypeOK, N!Row, N!Match
<1> QED
  BY <1>1, <1>2, <1>3, <1>4 DEF NotesInv

LEMMA NotesRoundOver ==
    ASSUME NotesInv, N!RoundOver
    PROVE  NotesInv'
<1>1. N!TypeOK'
  <2>1. N!NewMatches \subseteq N!Match
    BY DEF NotesInv, N!TypeOK, N!NewMatches
  <2>2. \A ms \in SUBSET N!Match : N!Messages(ms) \subseteq N!Message
    BY DEF N!Messages, N!Message, N!Match
  <2>3. sending' \subseteq N!Message
    BY <2>1, <2>2 DEF NotesInv, N!TypeOK, N!RoundOver
  <2>4. /\ phase' = "idle" /\ before' = after /\ after' = {} /\ changed' = FALSE
        /\ announced' = announced \cup N!NewMatches /\ repeated' \in BOOLEAN
        /\ UNCHANGED <<links, latest, facts, engine, asserting, reloading, unset, notifications, ids,
                       todo, topic, unread, there, due, actions, errors, stops>>
    BY DEF NotesInv, N!TypeOK, N!RoundOver, N!LoopOnly, N!content, N!prolog, N!flag, N!table, N!rounds, N!channels, N!history, N!bounds
  <2> QED
    BY <2>1, <2>3, <2>4 DEF NotesInv, N!TypeOK
<1>2. (Versions /\ AtRest /\ FoundLinks)'
  BY BoundsOfNotifications DEF NotesInv, N!RoundOver, N!LoopOnly, N!NewMatches, N!Messages, N!content, N!prolog, N!flag, N!table, N!rounds, N!channels, N!history, N!bounds, Versions, AtRest, FoundLinks, Found, N!TypeOK, N!Row, N!Match
<1>3. RowsPast'
  BY BoundsOfNotifications DEF NotesInv, N!RoundOver, N!LoopOnly, N!NewMatches, N!Messages, N!content, N!prolog, N!flag, N!table, N!rounds, N!channels, N!history, N!bounds, RowsPast, Past, Found, Versions, N!TypeOK, N!Row, N!Match
<1>4. (errors = 0 => ~repeated /\ FactsKept /\ BeforeHasAll /\ AfterWillHave)'
  BY BoundsOfNotifications DEF NotesInv, N!RoundOver, N!LoopOnly, N!NewMatches, N!Messages, N!content, N!prolog, N!flag, N!table, N!rounds, N!channels, N!history, N!bounds, BeforeHasAll, AfterWillHave, Asked, Found, FactsKept, FoundLinks, RowsPast, Past, AtRest, N!TypeOK, N!Row, N!Match
<1> QED
  BY <1>1, <1>2, <1>3, <1>4 DEF NotesInv

LEMMA NotesPublish ==
    ASSUME NotesInv, NEW m \in sending, N!Publish(m)
    PROVE  NotesInv'
<1>1. N!TypeOK'
  BY BoundsOfNotifications DEF NotesInv, N!Publish, N!content, N!prolog, N!flag, N!table, N!rounds, N!channels, N!history, N!bounds, N!TypeOK, Versions, N!Row, N!Match, N!Message, N!Links
<1> QED
  BY <1>1, NotesElsewhere DEF N!Publish, N!content, N!prolog, N!table, N!rounds, N!history, N!bounds

LEMMA NotesSubscribe ==
    ASSUME NotesInv, NEW s \in Subscribers, N!Subscribe(s)
    PROVE  NotesInv'
<1>1. N!TypeOK'
  BY BoundsOfNotifications DEF NotesInv, N!Subscribe, N!Act, N!ChannelsOnly, N!content, N!prolog, N!flag, N!table, N!rounds, N!channels, N!history, N!bounds, N!TypeOK, Versions, N!Row, N!Match, N!Message, N!Links
<1> QED
  BY <1>1, NotesElsewhere DEF N!Subscribe, N!Act, N!ChannelsOnly, N!content, N!prolog, N!table, N!rounds, N!history, N!bounds

LEMMA NotesReceive ==
    ASSUME NotesInv, NEW s \in Subscribers, N!Receive(s)
    PROVE  NotesInv'
<1>1. N!TypeOK'
  BY BoundsOfNotifications DEF NotesInv, N!Receive, N!ChannelsOnly, N!content, N!prolog, N!flag, N!table, N!rounds, N!channels, N!history, N!bounds, N!TypeOK, Versions, N!Row, N!Match, N!Message, N!Links
<1> QED
  BY <1>1, NotesElsewhere DEF N!Receive, N!ChannelsOnly, N!content, N!prolog, N!table, N!rounds, N!history, N!bounds

LEMMA NotesClose ==
    ASSUME NotesInv, NEW s \in Subscribers, N!Close(s)
    PROVE  NotesInv'
<1>1. N!TypeOK'
  BY BoundsOfNotifications DEF NotesInv, N!Close, N!ChannelsOnly, N!content, N!prolog, N!flag, N!table, N!rounds, N!channels, N!history, N!bounds, N!TypeOK, Versions, N!Row, N!Match, N!Message, N!Links
<1> QED
  BY <1>1, NotesElsewhere DEF N!Close, N!ChannelsOnly, N!content, N!prolog, N!table, N!rounds, N!history, N!bounds

LEMMA NotesRestart ==
    ASSUME NotesInv, N!Restart
    PROVE  NotesInv'
<1>1. N!TypeOK'
  <2>1. stops' \in 0 .. MaxStops
    BY BoundsOfNotifications DEF NotesInv, N!TypeOK, N!Restart
  <2>2. /\ facts' = {} /\ engine' = "unfit" /\ asserting' = {} /\ reloading' = 0
        /\ unset' = 0 /\ changed' = FALSE /\ phase' = "begins"
        /\ todo' = {} /\ before' = {} /\ after' = {} /\ sending' = {}
        /\ topic' = {} /\ unread' = {} /\ there' = {} /\ due' = {}
        /\ UNCHANGED <<links, latest, notifications, ids, announced, repeated, actions, errors>>
    BY DEF N!Restart, N!content, N!table, N!history
  <2> QED
    BY <2>1, <2>2 DEF NotesInv, N!TypeOK
<1>2. (Versions /\ AtRest /\ FoundLinks)'
  BY BoundsOfNotifications DEF NotesInv, N!Restart, N!content, N!prolog, N!flag, N!table, N!rounds, N!channels, N!history, N!bounds, Versions, AtRest, FoundLinks, Found, N!TypeOK, N!Row, N!Match
<1>3. RowsPast'
  BY BoundsOfNotifications DEF NotesInv, N!Restart, N!content, N!prolog, N!flag, N!table, N!rounds, N!channels, N!history, N!bounds, RowsPast, Past, Found, Versions, N!TypeOK, N!Row, N!Match
<1>4. (errors = 0 => ~repeated /\ FactsKept /\ BeforeHasAll /\ AfterWillHave)'
  BY BoundsOfNotifications DEF NotesInv, N!Restart, N!content, N!prolog, N!flag, N!table, N!rounds, N!channels, N!history, N!bounds, BeforeHasAll, AfterWillHave, Asked, Found, FactsKept, FoundLinks, RowsPast, Past, AtRest, N!TypeOK, N!Row, N!Match
<1> QED
  BY <1>1, <1>2, <1>3, <1>4 DEF NotesInv

(* Every step of notifications keeps the invariant.                        *)
LEMMA NotesStep == NotesInv /\ [N!Next]_noteVars => NotesInv'
<1> SUFFICES ASSUME NotesInv, [N!Next]_noteVars
             PROVE  NotesInv'
  OBVIOUS
<1>1. CASE N!Next
  BY <1>1, NotesAddLink, NotesRemoveLink, NotesSetFlag, NotesOtherChange, NotesAssertFact, NotesReload, NotesRequest, NotesChange, NotesRemoveNotification, NotesFirstRound, NotesRound, NotesAskTrigger, NotesTriggerFails, NotesFirstOver, NotesRoundOver, NotesPublish, NotesSubscribe, NotesReceive, NotesClose, NotesRestart
     DEF N!Next, N!FactsStep, N!LoopStep, N!PublishStep
<1>2. CASE UNCHANGED noteVars
  <2>1. N!TypeOK'
    BY <1>2 DEF noteVars, NotesInv, N!TypeOK
  <2> QED
    BY <1>2, <2>1, NotesElsewhere DEF noteVars
<1> QED
  BY <1>1, <1>2

LEMMA NotesInit == N!Init => NotesInv
<1> SUFFICES ASSUME N!Init
             PROVE  NotesInv
  OBVIOUS
<1> USE DEF N!Init
<1>1. N!TypeOK
  <2>1. /\ 0 \in 0 .. MaxActions /\ 0 \in 0 .. MaxErrors /\ 0 \in 0 .. MaxStops
        /\ 0 \in 0 .. MaxLinks /\ 1 \in 1 .. MaxActions + 1
    BY BoundsOfNotifications
  <2>2. notifications \subseteq N!Row
    BY <2>1 DEF N!Row
  <2>3. \A r, q \in notifications : r.note \in ids /\ (r.note = q.note => r = q)
    OBVIOUS
  <2> QED
    BY <2>1, <2>2, <2>3 DEF N!TypeOK
<1>2. Versions /\ AtRest /\ FoundLinks /\ RowsPast
  BY DEF Versions, AtRest, FoundLinks, RowsPast, Found
<1>3. FactsKept /\ BeforeHasAll /\ AfterWillHave
  BY DEF FactsKept, BeforeHasAll, AfterWillHave
<1> QED
  BY <1>1, <1>2, <1>3 DEF NotesInv

-----------------------------------------------------------------------------
(* Steps of MCPerspective are steps of one of the two.                     *)
LEMMA StepsOfOne ==
    [PerspectiveNext]_allVars => [Next]_vars /\ [N!Next]_noteVars
BY DEF PerspectiveNext, FollowCommits, FollowNotes, allVars, noteVars, vars

LEMMA CommitsFollow == PerspectiveSpec => Spec
<1>1. PerspectiveInit => Init
  BY DEF PerspectiveInit
<1> QED
  BY <1>1, StepsOfOne, PTL DEF PerspectiveSpec, Spec

THEOREM NotesInvariance == PerspectiveSpec => []NotesInv
<1>1. PerspectiveInit => NotesInv
  BY NotesInit DEF PerspectiveInit
<1>2. NotesInv /\ [PerspectiveNext]_allVars => NotesInv'
  BY NotesStep, StepsOfOne
<1> QED
  BY <1>1, <1>2, PTL DEF PerspectiveSpec

(* Every variable keeps its type, of commits and of notifications.         *)
THEOREM PerspectiveTyped == PerspectiveSpec => []TypesOK
<1>1. IInv /\ NotesInv => TypesOK
  BY DEF IInv, NotesInv, TypesOK
<1> QED
  BY <1>1, CommitsFollow, PendingInvariance, NotesInvariance, PTL

(* A match is announced once for each version of a notification, however   *)
(* links, facts, notifications and rounds overlap, and however often the   *)
(* process restarts, unless a query failed.                                *)
THEOREM MatchesToldOnce == PerspectiveSpec => []ToldOnce
<1>1. NotesInv => ToldOnce
  BY DEF NotesInv, ToldOnce, N!ToldOnce
<1> QED
  BY <1>1, NotesInvariance, PTL
=============================================================================
