--------------------------- MODULE DiffSyncProofs ---------------------------
(* Proofs about DiffSync for any set of agents and any bounds.             *)
EXTENDS DiffSyncReplicas, TLAPS

IInv ==
    /\ TypeOK
    /\ GraphOK
    /\ RefsMade
    /\ CommittedKept
    /\ EmittedComplete
    /\ EmittedExact
    /\ CurrentFetchable

-----------------------------------------------------------------------------
(* Creating a revision from made ones keeps the graph in order and leaves  *)
(* what is already there as it was (commit.rs, merge() in pull.rs).        *)
LEMMA NewRevisionKeepsGraph ==
    ASSUME TypeOK, GraphOK,
           NEW ps \in SUBSET Made, NewRevision(ps)
    PROVE  /\ made' \in RevOpt
           /\ parents' \in [Rev -> SUBSET Rev]
           /\ past' \in [Rev -> SUBSET Rev]
           /\ made + 1 \in Rev
           /\ Made' = Made \cup {made + 1}
           /\ \A r \in Made : past'[r] = past[r] /\ parents'[r] = parents[r]
           /\ past'[made + 1] = PastFrom(made + 1, ps)
           /\ GraphOK'
<1> DEFINE n == made + 1
<1>1. /\ made \in Nat /\ MaxRev \in Nat /\ made < MaxRev
      /\ n \in Rev /\ n \notin Made /\ Made \subseteq Rev
  BY BoundsAssumption DEF TypeOK, RevOpt, Rev, Made, NewRevision
<1>2. Made' = Made \cup {n}
  BY <1>1 DEF Made, NewRevision
<1>3. \A r \in Made : past[r] \subseteq 1 .. r /\ past[r] \subseteq Rev
  BY <1>1 DEF GraphOK, TypeOK
<1>4. PastFrom(n, ps) \subseteq Rev
  BY <1>1, <1>3 DEF PastFrom
<1>5. ps \subseteq Rev
  BY <1>1
<1>6. /\ made' \in RevOpt
      /\ parents' \in [Rev -> SUBSET Rev]
      /\ past' \in [Rev -> SUBSET Rev]
  BY <1>1, <1>4, <1>5 DEF TypeOK, RevOpt, NewRevision
<1>7. \A r \in Made : past'[r] = past[r] /\ parents'[r] = parents[r]
  BY <1>1 DEF NewRevision, TypeOK
<1>8. past'[n] = PastFrom(n, ps) /\ parents'[n] = ps
  BY <1>1 DEF NewRevision, TypeOK
<1>9. GraphOK'
  <2> SUFFICES ASSUME NEW r \in Made'
               PROVE  /\ parents'[r] \subseteq 1 .. (r - 1)
                      /\ past'[r] = {r} \cup UNION {past'[p] : p \in parents'[r]}
                      /\ \A q \in past'[r] :
                             q \in 1 .. r /\ past'[q] \subseteq past'[r]
    BY DEF GraphOK, PastFrom
  <2>1. CASE r \in Made
    <3>1. /\ parents[r] \subseteq Made
          /\ past[r] \subseteq Made
      BY <2>1, <1>1 DEF GraphOK, Made
    <3>2. {past'[p] : p \in parents'[r]} = {past[p] : p \in parents[r]}
      BY <2>1, <3>1, <1>7
    <3>3. past'[r] = {r} \cup UNION {past'[p] : p \in parents'[r]}
      BY <2>1, <3>2, <1>7 DEF GraphOK, PastFrom
    <3> QED
      BY <2>1, <3>1, <3>3, <1>7 DEF GraphOK
  <2>2. CASE r = n
    <3>1. {past'[p] : p \in parents'[n]} = {past[p] : p \in ps}
      BY <1>7, <1>8
    <3>2. ps \subseteq 1 .. (n - 1)
      BY <1>1 DEF Made
    <3>3. ASSUME NEW q \in past'[n]
          PROVE  q \in 1 .. n /\ past'[q] \subseteq past'[n]
      <4>1. CASE q = n
        BY <4>1, <1>1 DEF Rev
      <4>2. CASE q # n
        <5>1. PICK p \in ps : q \in past[p]
          BY <4>2, <3>3, <1>8 DEF PastFrom
        <5>2. q \in 1 .. p /\ past[q] \subseteq past[p] /\ q \in Made
          BY <5>1, <1>1 DEF GraphOK, Made
        <5>3. past[p] \subseteq PastFrom(n, ps)
          BY <5>1 DEF PastFrom
        <5> QED
          BY <5>2, <5>3, <1>1, <1>7, <1>8 DEF Made
      <4> QED
        BY <4>1, <4>2
    <3> QED
      BY <2>2, <3>1, <3>2, <3>3, <1>8 DEF PastFrom
  <2> QED
    BY <2>1, <2>2, <1>2
<1> QED
  BY <1>1, <1>2, <1>6, <1>7, <1>8, <1>9

-----------------------------------------------------------------------------
(* The parents that commit() and merge() choose.                           *)
LEMMA ParentsChosen ==
    ASSUME IInv, NEW a \in Agents
    PROVE  ParentsFor(a) \in SUBSET Made
BY DEF IInv, RefsMade, ParentsFor

LEMMA MergeParentsChosen ==
    ASSUME IInv, NEW a \in Agents, NEW p \in Agents,
           Pulling(a, p), current[a] # NoRev
    PROVE  {revisions[a][p], current[a]} \in SUBSET Made
BY DEF IInv, RefsMade, Pulling

(* What pull() may emit is made of made revisions.                         *)
LEMMA PastIsMade ==
    ASSUME IInv, NEW r \in Made
    PROVE  /\ r \in Rev
           /\ r \in past[r]
           /\ past[r] \subseteq Made
           /\ past[r] \subseteq Rev
<1>1. /\ made \in Nat /\ made <= MaxRev /\ MaxRev \in Nat /\ r \in 1 .. made
  BY BoundsAssumption DEF IInv, TypeOK, RevOpt, Made
<1>2. past[r] = PastFrom(r, parents[r]) /\ \A q \in past[r] : q \in 1 .. r
  BY DEF IInv, GraphOK
<1> QED
  BY <1>1, <1>2 DEF PastFrom, Made, Rev

-----------------------------------------------------------------------------
LEMMA TypeStep ==
    ASSUME IInv, Next
    PROVE  TypeOK'
<1> USE DEF IInv
<1>0. /\ made \in Nat /\ MaxRev \in Nat /\ MaxFaults \in Nat
      /\ RevOpt = Rev \cup {NoRev} /\ Made \subseteq Rev
  BY BoundsAssumption DEF TypeOK, RevOpt, Rev, NoRev, Made
<1>1. ASSUME Fault PROVE faults' \in 0 .. MaxFaults
  BY <1>0, <1>1 DEF Fault, TypeOK
<1>2. ASSUME NEW a \in Agents, NEW r \in Rev
      PROVE  BroadcastsOf(a, r) \subseteq Broadcast
  BY DEF BroadcastsOf, Broadcast
<1>3. ASSUME NEW a \in Agents, Commit(a) PROVE TypeOK'
  <2>1. NewRevision(ParentsFor(a))
    BY <1>3 DEF Commit
  <2>2. /\ made' \in RevOpt /\ made + 1 \in Rev
        /\ parents' \in [Rev -> SUBSET Rev] /\ past' \in [Rev -> SUBSET Rev]
    BY <2>1, ParentsChosen, NewRevisionKeepsGraph
  <2> QED
    BY <1>0, <1>2, <1>3, <2>2 DEF Commit, TypeOK, gossipVars
<1>4. ASSUME NEW a \in Agents, CommitRefused(a) PROVE TypeOK'
  <2>1. NewRevision(ParentsFor(a))
    BY <1>4 DEF CommitRefused
  <2>2. /\ made' \in RevOpt /\ made + 1 \in Rev
        /\ parents' \in [Rev -> SUBSET Rev] /\ past' \in [Rev -> SUBSET Rev]
    BY <2>1, ParentsChosen, NewRevisionKeepsGraph
  <2> QED
    BY <1>1, <1>2, <1>4, <2>2
    DEF CommitRefused, TypeOK, adapterVars, gossipVars
<1>5. ASSUME NEW a \in Agents, Sync(a) PROVE TypeOK'
  BY <1>0, <1>2, <1>5 DEF Sync, TypeOK, zomeVars, graphVars, gossipVars
<1>6. ASSUME NEW a \in Agents, SyncFails(a) PROVE TypeOK'
  BY <1>1, <1>6 DEF SyncFails, TypeOK, zomeVars, graphVars, gossipVars
<1>7. ASSUME NEW a \in Agents, NEW lost \in SUBSET Heard(peers[a]),
             GossipStart(a, lost)
      PROVE  TypeOK'
  <2> DEFINE map == Without(peers[a], lost)
  <2>1. map \in [Agents -> RevOpt]
    BY <1>0 DEF TypeOK, Without
  <2>2. Heard(map) \subseteq Agents
    BY DEF Heard
  <2>3. SyncStateFor(a, map, myRevision[a])
            \in {"unknown", "notSynced", "synced"}
    BY DEF SyncStateFor, TypeOK
  <2>4. faults' \in 0 .. MaxFaults
    BY <1>1, <1>7 DEF GossipStart, TypeOK
  <2> HIDE DEF map
  <2>5. /\ pc' = [pc EXCEPT ![a] = "gossip"]
        /\ peers' = [peers EXCEPT ![a] = map]
        /\ revisions' = [revisions EXCEPT ![a] = map]
        /\ todo' = [todo EXCEPT ![a] = Heard(map)]
        /\ isScribe' \in [Agents -> BOOLEAN]
        /\ syncState' = [syncState EXCEPT ![a] =
                            SyncStateFor(a, map, myRevision[a])]
        /\ UNCHANGED <<zomeVars, net, myRevision>>
    BY <1>7 DEF GossipStart, Scribe, TypeOK, map
  <2> QED
    BY <2>1, <2>2, <2>3, <2>4, <2>5 DEF TypeOK, zomeVars, graphVars
<1>8. ASSUME NEW a \in Agents, GossipEnd(a) PROVE TypeOK'
  BY <1>0, <1>8 DEF GossipEnd, TypeOK, zomeVars, graphVars, NobodyKnown
<1>9. ASSUME NEW m \in net, Deliver(m) \/ DeliverRefused(m) \/ Lose(m)
      PROVE  TypeOK'
  <2>1. m.to \in Agents /\ m.from \in Agents /\ m.rev \in Rev
    BY DEF TypeOK, Broadcast
  <2>2. ASSUME Forwarded(m) PROVE peers' \in [Agents -> [Agents -> RevOpt]]
    BY <1>0, <2>1, <2>2 DEF Forwarded, TypeOK
  <2>3. ASSUME Emit(m.to, {m.rev}) PROVE emitted' \in [Agents -> SUBSET Rev]
    BY <2>1, <2>3 DEF Emit, TypeOK
  <2>4. CASE Deliver(m)
    <3>1. /\ current' \in [Agents -> RevOpt]
          /\ emitted' \in [Agents -> SUBSET Rev]
      BY <1>0, <2>1, <2>3, <2>4 DEF Deliver, TypeOK
    <3> QED
      BY <2>2, <2>4, <3>1 DEF Deliver, TypeOK, graphVars, gossipVars
  <2>5. CASE DeliverRefused(m)
    BY <1>1, <2>2, <2>3, <2>5
    DEF DeliverRefused, TypeOK, graphVars, gossipVars
  <2>6. CASE Lose(m)
    BY <1>1, <2>6 DEF Lose, TypeOK, zomeVars, graphVars, gossipVars, adapterVars
  <2> QED
    BY <1>9, <2>4, <2>5, <2>6
<1>10. ASSUME NEW a \in Agents, NEW p \in Agents, Pulling(a, p),
              NEW rev \in RevOpt, AfterPull(a, p, rev)
       PROVE  /\ net' = net /\ pc' = pc /\ peers' = peers
              /\ revisions' = revisions /\ isScribe' = isScribe
              /\ faults' = faults
              /\ todo' \in [Agents -> SUBSET Agents]
              /\ myRevision' \in [Agents -> RevOpt]
              /\ syncState' \in [Agents -> {"unknown", "notSynced", "synced"}]
  <2>1. SyncStateFor(a, revisions[a], rev)
            \in {"unknown", "notSynced", "synced"}
    BY DEF SyncStateFor, TypeOK
  <2>2. todo' \in [Agents -> SUBSET Agents]
    BY <1>10 DEF AfterPull, Pulled, TypeOK
  <2>3. myRevision' \in [Agents -> RevOpt]
    BY <1>10 DEF AfterPull, TypeOK
  <2>4. syncState' \in [Agents -> {"unknown", "notSynced", "synced"}]
    BY <1>10, <2>1 DEF AfterPull, TypeOK
  <2> QED
    BY <1>10, <2>2, <2>3, <2>4 DEF AfterPull
<1>11. ASSUME NEW a \in Agents, NEW p \in Agents, PullStep(a, p)
       PROVE  TypeOK'
  <2> DEFINE theirs == revisions[a][p]
  <2>0. Pulling(a, p) /\ theirs \in Made /\ theirs \in Rev
        /\ past[theirs] \subseteq Rev
    BY <1>11, PastIsMade
    DEF PullStep, PullSkipped, PullFirst, PullNothing, PullFastForward,
        PullMerge, PullFails, CanPull, Pulling, RefsMade
  <2>1. CASE PullSkipped(a, p)
    BY <2>1 DEF PullSkipped, Pulled, TypeOK, zomeVars, graphVars
  <2>2. CASE PullFirst(a, p)
    BY <1>0, <2>0, <2>2 DEF PullFirst, Unseen, Known, Pulled, Emit, TypeOK, graphVars
  <2>3. CASE PullNothing(a, p)
    <3>1. AfterPull(a, p, current[a]) /\ current[a] \in RevOpt
      BY <2>3 DEF PullNothing, TypeOK
    <3> QED
      BY <2>0, <2>3, <3>1, <1>10 DEF PullNothing, TypeOK, zomeVars, graphVars
  <2>4. CASE PullFastForward(a, p)
    <3>1. AfterPull(a, p, theirs) /\ theirs \in RevOpt
      BY <1>0, <2>0, <2>4 DEF PullFastForward
    <3> QED
      BY <2>0, <2>4, <3>1, <1>10 DEF PullFastForward, Unseen, Emit, TypeOK, graphVars
  <2>5. CASE PullMerge(a, p)
    <3>1. NewRevision({theirs, current[a]})
      BY <2>5 DEF PullMerge
    <3>2. /\ made' \in RevOpt /\ made + 1 \in Rev
          /\ parents' \in [Rev -> SUBSET Rev]
          /\ past' \in [Rev -> SUBSET Rev]
      BY <2>0, <2>5, <3>1, MergeParentsChosen, NewRevisionKeepsGraph
      DEF PullMerge, Diverged, Known
    <3>3. AfterPull(a, p, made + 1) /\ made + 1 \in RevOpt
      BY <1>0, <3>2, <2>5 DEF PullMerge
    <3> QED
      BY <2>0, <2>5, <3>2, <3>3, <1>10 DEF PullMerge, Unseen, Emit, TypeOK
  <2>6. CASE PullFails(a, p)
    <3>1. faults' \in 0 .. MaxFaults
      BY <1>1, <2>6 DEF PullFails, TypeOK
    <3>2. emitted' \in [Agents -> SUBSET Rev]
      BY <2>0, <2>6 DEF PullFails, Unseen, Emit, TypeOK
    <3> QED
      BY <2>6, <3>1, <3>2 DEF PullFails, Pulled, TypeOK, graphVars
  <2> QED
    BY <1>11, <2>1, <2>2, <2>3, <2>4, <2>5, <2>6 DEF PullStep
<1> QED
  BY <1>3, <1>4, <1>5, <1>6, <1>7, <1>8, <1>9, <1>11 DEF Next

-----------------------------------------------------------------------------
(* What a step does to the zomes' state: the adapter only decides when.    *)
Committed(a) ==
    /\ NewRevision(ParentsFor(a))
    /\ own' = [own EXCEPT ![a] = @ \cup {made + 1}]
    /\ current' = [current EXCEPT ![a] = made + 1]
    /\ UNCHANGED emitted

Merged(a, theirs) ==
    /\ current[a] # NoRev
    /\ theirs \notin past[current[a]] /\ current[a] \notin past[theirs]
    /\ Emit(a, past[theirs] \ past[current[a]])
    /\ NewRevision({theirs, current[a]})
    /\ own' = [own EXCEPT ![a] = @ \cup {made + 1}]
    /\ current' = [current EXCEPT ![a] = made + 1]

(* Moved to a made revision: the first one, a descendant, or a child.      *)
Moved(a, r) ==
    /\ ~AbortLeaksSignals => r \in Stored
    /\ current' = [current EXCEPT ![a] = r]
    /\ UNCHANGED <<graphVars, own>>
    /\ \/ /\ current[a] = NoRev
          /\ Emit(a, past[r])
       \/ /\ current[a] # NoRev /\ current[a] \in past[r]
          /\ r \notin past[current[a]]
          /\ Emit(a, past[r] \ past[current[a]])
       \/ /\ current[a] # NoRev /\ parents[r] = {current[a]}
          /\ Emit(a, {r})

Leaked ==
    /\ AbortLeaksSignals
    /\ UNCHANGED <<own, current>>
    /\ \/ /\ \E a \in Agents : NewRevision(ParentsFor(a))
          /\ UNCHANGED emitted
       \/ /\ \E a \in Agents : \E revs \in SUBSET Made : Emit(a, revs)
          /\ UNCHANGED graphVars

LEMMA ZomeStep ==
    ASSUME IInv, Next
    PROVE  \/ UNCHANGED zomeVars
           \/ \E a \in Agents : Committed(a)
           \/ \E a \in Agents : \E r \in Made : Merged(a, r) \/ Moved(a, r)
           \/ Leaked
<1> USE DEF IInv
<1>1. ASSUME NEW a \in Agents, Commit(a) PROVE Committed(a)
  BY <1>1 DEF Commit, Committed
<1>2. ASSUME NEW a \in Agents, CommitRefused(a) PROVE Leaked
  BY <1>2 DEF CommitRefused, Leaked
<1>3. ASSUME NEW a \in Agents, NEW p \in Agents, PullStep(a, p)
      PROVE  \/ UNCHANGED zomeVars
             \/ \E r \in Made : Merged(a, r) \/ Moved(a, r)
             \/ Leaked
  <2> DEFINE theirs == revisions[a][p]
  <2>1. /\ theirs \in Made /\ theirs # NoRev
        /\ past[theirs] \subseteq Made /\ theirs \in past[theirs]
    <3>1. theirs \in Made
      BY <1>3 DEF PullStep, PullSkipped, PullFirst, PullNothing, CanPull,
                  PullFastForward, PullMerge, PullFails, Pulling, RefsMade
    <3> QED
      BY <3>1, PastIsMade DEF Rev, NoRev
  <2>2. CASE PullSkipped(a, p) \/ PullNothing(a, p)
    BY <2>2 DEF PullSkipped, PullNothing
  <2>3. CASE PullFirst(a, p)
    BY <2>1, <2>3 DEF PullFirst, Unseen, Known, CanPull, Moved
  <2>4. CASE PullFastForward(a, p)
    <3>1. theirs \in Stored
      BY <2>1, <2>4, PastIsMade DEF PullFastForward, Known, CanPull
    <3> QED
      BY <2>1, <2>4, <3>1 DEF PullFastForward, Unseen, Known, Moved
  <2>5. CASE PullMerge(a, p)
    BY <2>1, <2>5 DEF PullMerge, Unseen, Diverged, Known, Merged
  <2>6. CASE PullFails(a, p)
    <3>1. CASE UNCHANGED emitted
      BY <2>6, <3>1 DEF PullFails, zomeVars
    <3>2. CASE ~UNCHANGED emitted
      <4>1. PICK revs \in SUBSET Made : Emit(a, revs) /\ AbortLeaksSignals
        BY <2>1, <2>6, <3>2 DEF PullFails, Unseen
      <4> QED
        BY <2>6, <4>1 DEF PullFails, Leaked
    <3> QED
      BY <3>1, <3>2
  <2> QED
    BY <1>3, <2>2, <2>3, <2>4, <2>5, <2>6 DEF PullStep
<1>4. ASSUME NEW m \in net, Deliver(m) \/ DeliverRefused(m) \/ Lose(m)
      PROVE  \/ UNCHANGED zomeVars
             \/ \E a \in Agents : \E r \in Made : Moved(a, r)
             \/ Leaked
  <2>0. m.to \in Agents
    BY DEF TypeOK, Broadcast
  <2>1. m.to \in Agents /\ m.rev \in Made
        /\ (~AbortLeaksSignals => m.rev \in Stored)
    BY <2>0 DEF RefsMade
  <2>2. CASE Deliver(m)
    BY <2>1, <2>2 DEF Deliver, FollowsOn, Moved, zomeVars
  <2>3. CASE DeliverRefused(m)
    BY <2>1, <2>3 DEF DeliverRefused, Leaked
  <2>4. CASE Lose(m)
    BY <2>4 DEF Lose
  <2> QED
    BY <1>4, <2>2, <2>3, <2>4
<1>5. ASSUME NEW a \in Agents, Sync(a) \/ SyncFails(a) \/ GossipEnd(a)
      PROVE  UNCHANGED zomeVars
  BY <1>5 DEF Sync, SyncFails, GossipEnd
<1>6. ASSUME NEW a \in Agents, NEW lost, GossipStart(a, lost)
      PROVE  UNCHANGED zomeVars
  BY <1>6 DEF GossipStart
<1> QED
  BY <1>1, <1>2, <1>3, <1>4, <1>5, <1>6 DEF Next

(* No step takes a revision back or changes what it contains.              *)
LEMMA GraphStep ==
    ASSUME IInv, Next
    PROVE  /\ GraphOK'
           /\ Made \subseteq Made' /\ made' \in Nat /\ made' >= made
           /\ \A r \in Made : past'[r] = past[r] /\ parents'[r] = parents[r]
           /\ Stored \subseteq Stored'
<1> USE DEF IInv
<1>1. made \in Nat /\ MaxRev \in Nat
  BY BoundsAssumption DEF TypeOK, RevOpt
<1>2. ASSUME UNCHANGED graphVars
      PROVE  /\ GraphOK'
             /\ Made \subseteq Made' /\ made' \in Nat /\ made' >= made
             /\ \A r \in Made : past'[r] = past[r] /\ parents'[r] = parents[r]
  <2>1. made' = made /\ parents' = parents /\ past' = past
    BY <1>2 DEF graphVars
  <2> QED
    BY <1>1, <2>1 DEF GraphOK, PastFrom, Made
<1>3. ASSUME NEW ps \in SUBSET Made, NewRevision(ps)
      PROVE  /\ GraphOK'
             /\ Made \subseteq Made' /\ made' \in Nat /\ made' >= made
             /\ \A r \in Made : past'[r] = past[r] /\ parents'[r] = parents[r]
  <2>1. made' = made + 1
    BY <1>3 DEF NewRevision
  <2> QED
    BY <1>1, <1>3, <2>1, NewRevisionKeepsGraph
<1>4. \/ UNCHANGED graphVars
      \/ \E ps \in SUBSET Made : NewRevision(ps)
  <2>1. ASSUME NEW a \in Agents, NEW r \in Made, Merged(a, r)
        PROVE  {r, current[a]} \in SUBSET Made
               /\ NewRevision({r, current[a]})
    BY <2>1 DEF Merged, RefsMade
  <2> QED
    BY <2>1, ZomeStep, ParentsChosen DEF Committed, Moved, Leaked, zomeVars
<1>5. own' \in [Agents -> SUBSET Rev]
  BY TypeStep DEF TypeOK
<1>6. \A a \in Agents : own[a] \subseteq own'[a]
  <2>1. \/ own' = own
        \/ \E a \in Agents : own' = [own EXCEPT ![a] = @ \cup {made + 1}]
    BY ZomeStep DEF Committed, Merged, Moved, Leaked, zomeVars
  <2>2. CASE own' = own
    BY <2>2
  <2>3. ASSUME NEW a \in Agents, own' = [own EXCEPT ![a] = @ \cup {made + 1}]
        PROVE  \A b \in Agents : own[b] \subseteq own'[b]
    BY <2>3 DEF TypeOK
  <2> QED
    BY <2>1, <2>2, <2>3
<1>7. Stored \subseteq Stored'
  BY <1>6 DEF Stored
<1> QED
  BY <1>2, <1>3, <1>4, <1>7

-----------------------------------------------------------------------------
(* Nobody refers to a revision before it is made, nor, unless refused      *)
(* calls leak, broadcasts one that is not stored.                          *)
LEMMA RefsStep ==
    ASSUME IInv, Next
    PROVE  RefsMade'
<1> USE DEF IInv
<1>1. made \in Nat /\ made' \in Nat /\ made' >= made /\ MaxRev \in Nat
      /\ Made \subseteq Made' /\ Stored \subseteq Stored'
  BY GraphStep, BoundsAssumption DEF TypeOK, RevOpt
<1>2. TypeOK'
  BY TypeStep
<1>3. ASSUME NEW a \in Agents
      PROVE  own'[a] \subseteq Made' /\ (current'[a] # NoRev => current'[a] \in Made')
  <2>1. own[a] \subseteq Made /\ (current[a] # NoRev => current[a] \in Made)
    BY DEF RefsMade
  <2>2. ASSUME NEW ps, NewRevision(ps) PROVE made + 1 \in Made'
    BY <1>1, <2>2 DEF NewRevision, Made
  <2>3. CASE UNCHANGED zomeVars \/ Leaked
    BY <1>1, <2>1, <2>3 DEF zomeVars, Leaked
  <2>4. ASSUME NEW b \in Agents, Committed(b)
        PROVE  own'[a] \subseteq Made' /\ (current'[a] # NoRev => current'[a] \in Made')
    BY <1>1, <2>1, <2>2, <2>4 DEF Committed, TypeOK
  <2>5. ASSUME NEW b \in Agents, NEW r \in Made, Merged(b, r)
        PROVE  own'[a] \subseteq Made' /\ (current'[a] # NoRev => current'[a] \in Made')
    BY <1>1, <2>1, <2>2, <2>5 DEF Merged, TypeOK
  <2>6. ASSUME NEW b \in Agents, NEW r \in Made, Moved(b, r)
        PROVE  own'[a] \subseteq Made' /\ (current'[a] # NoRev => current'[a] \in Made')
    BY <1>1, <2>1, <2>6 DEF Moved, TypeOK
  <2> QED
    BY <2>3, <2>4, <2>5, <2>6, ZomeStep
<1>4. \A a, p \in Agents : peers[a][p] \in 0 .. made
  BY DEF RefsMade
<1>5. \A m \in net : /\ m.to \in Agents /\ m.from \in Agents
                     /\ m.rev \in Made /\ m.rev \in 0 .. made
  BY <1>1 DEF RefsMade, TypeOK, Broadcast, Made
<1>6. ASSUME NEW a \in Agents, NEW p \in Agents PROVE peers'[a][p] \in 0 .. made'
  <2>1. \/ peers' = peers
        \/ \E b \in Agents, lost \in SUBSET Agents :
               peers' = [peers EXCEPT ![b] = Without(peers[b], lost)]
        \/ \E m \in net : Forwarded(m)
    <3>1. ASSUME NEW b \in Agents, NEW q \in Agents, PullStep(b, q)
          PROVE  peers' = peers
      BY <3>1 DEF PullStep, PullSkipped, PullFirst, PullNothing, PullMerge,
                  PullFastForward, PullFails, AfterPull
    <3>2. ASSUME NEW b \in Agents, NEW lost \in SUBSET Heard(peers[b]),
                 GossipStart(b, lost)
          PROVE  /\ lost \in SUBSET Agents
                 /\ peers' = [peers EXCEPT ![b] = Without(peers[b], lost)]
      BY <3>2 DEF GossipStart, Heard
    <3>3. ASSUME NEW b \in Agents,
                 \/ Commit(b) \/ CommitRefused(b)
                 \/ Sync(b) \/ SyncFails(b) \/ GossipEnd(b)
          PROVE  peers' = peers
      BY <3>3 DEF Commit, CommitRefused, Sync, SyncFails, GossipEnd, adapterVars
    <3>4. ASSUME NEW m \in net, Deliver(m) \/ DeliverRefused(m) \/ Lose(m)
          PROVE  peers' = peers \/ Forwarded(m)
      BY <3>4 DEF Deliver, DeliverRefused, Lose, adapterVars
    <3> QED
      BY <3>1, <3>2, <3>3, <3>4 DEF Next
  <2>2. peers[a][p] \in 0 .. made' /\ NoRev \in 0 .. made'
    BY <1>1, <1>4 DEF NoRev
  <2>3. ASSUME NEW b \in Agents, NEW lost \in SUBSET Agents,
               peers' = [peers EXCEPT ![b] = Without(peers[b], lost)]
        PROVE  peers'[a][p] \in 0 .. made'
    BY <2>2, <2>3 DEF Without, TypeOK
  <2>4. ASSUME NEW m \in net, Forwarded(m) PROVE peers'[a][p] \in 0 .. made'
    BY <1>1, <1>5, <2>2, <2>4 DEF Forwarded, TypeOK
  <2> QED
    BY <2>1, <2>2, <2>3, <2>4
<1>7. ASSUME NEW a \in Agents, NEW p \in todo'[a]
      PROVE  revisions'[a][p] \in Made'
  <2>1. \/ revisions' = revisions /\ \A b \in Agents : todo'[b] \subseteq todo[b]
        \/ \E b \in Agents, lost \in SUBSET Agents :
              /\ revisions' = [revisions EXCEPT ![b] = Without(peers[b], lost)]
              /\ todo' = [todo EXCEPT ![b] = Heard(Without(peers[b], lost))]
        \/ \E b \in Agents :
              /\ todo[b] = {} /\ todo' = todo
              /\ revisions' = [revisions EXCEPT ![b] = NobodyKnown]
    <3>1. ASSUME NEW b \in Agents, NEW q \in Agents, PullStep(b, q)
          PROVE  revisions' = revisions /\ Pulled(b, q)
      BY <3>1 DEF PullStep, PullSkipped, PullFirst, PullNothing,
                  PullFastForward, PullMerge, PullFails, AfterPull
    <3>2. ASSUME NEW b \in Agents, NEW q \in Agents, PullStep(b, q)
          PROVE  revisions' = revisions /\ \A c \in Agents : todo'[c] \subseteq todo[c]
      <4>1. revisions' = revisions /\ Pulled(b, q)
        BY <3>1, <3>2
      <4> QED
        BY <4>1 DEF Pulled, TypeOK
    <3>3. ASSUME NEW b \in Agents, NEW lost \in SUBSET Heard(peers[b]),
                 GossipStart(b, lost)
          PROVE  \E c \in Agents, l \in SUBSET Agents :
              /\ revisions' = [revisions EXCEPT ![c] = Without(peers[c], l)]
              /\ todo' = [todo EXCEPT ![c] = Heard(Without(peers[c], l))]
      <4>1. lost \in SUBSET Agents
        BY DEF Heard
      <4> QED
        BY <3>3, <4>1 DEF GossipStart
    <3>4. ASSUME NEW b \in Agents, GossipEnd(b)
          PROVE  /\ todo[b] = {} /\ todo' = todo
                 /\ revisions' = [revisions EXCEPT ![b] = NobodyKnown]
      BY <3>4 DEF GossipEnd
    <3>5. ASSUME NEW b \in Agents,
                 Commit(b) \/ CommitRefused(b) \/ Sync(b) \/ SyncFails(b)
          PROVE  revisions' = revisions /\ todo' = todo
      BY <3>5 DEF Commit, CommitRefused, Sync, SyncFails, adapterVars, gossipVars
    <3>6. ASSUME NEW m \in net, Deliver(m) \/ DeliverRefused(m) \/ Lose(m)
          PROVE  revisions' = revisions /\ todo' = todo
      BY <3>6 DEF Deliver, DeliverRefused, Lose, adapterVars, gossipVars
    <3> QED
      BY <3>2, <3>3, <3>4, <3>5, <3>6 DEF Next
  <2>2. CASE revisions' = revisions /\ \A b \in Agents : todo'[b] \subseteq todo[b]
    BY <1>1, <2>2 DEF RefsMade
  <2>3. ASSUME NEW b \in Agents, NEW lost \in SUBSET Agents,
               revisions' = [revisions EXCEPT ![b] = Without(peers[b], lost)],
               todo' = [todo EXCEPT ![b] = Heard(Without(peers[b], lost))]
        PROVE  revisions'[a][p] \in Made'
    <3>1. CASE a = b
      <4>1. p \in Agents /\ Without(peers[b], lost)[p] # NoRev
        BY <2>3, <3>1 DEF TypeOK, Heard
      <4>2. Without(peers[b], lost)[p] = peers[b][p] /\ peers[b][p] # 0
        BY <4>1 DEF Without, NoRev
      <4>3. peers[b][p] \in Made
        BY <1>1, <1>4, <4>1, <4>2 DEF Made
      <4> QED
        BY <1>1, <2>3, <3>1, <4>2, <4>3 DEF TypeOK
    <3>2. CASE a # b
      BY <1>1, <2>3, <3>2 DEF RefsMade, TypeOK
    <3> QED
      BY <3>1, <3>2
  <2>4. ASSUME NEW b \in Agents, todo[b] = {}, todo' = todo,
               revisions' = [revisions EXCEPT ![b] = NobodyKnown]
        PROVE  revisions'[a][p] \in Made'
    BY <1>1, <2>4 DEF RefsMade, TypeOK
  <2> QED
    BY <2>1, <2>2, <2>3, <2>4
<1>8. ASSUME NEW m \in net'
      PROVE  m.rev \in Made' /\ (~AbortLeaksSignals => m.rev \in Stored')
  <2>1. CASE m \in net
    BY <1>1, <2>1 DEF RefsMade
  <2>2. ASSUME NEW a \in Agents, Commit(a), m \notin net
        PROVE  m.rev \in Made' /\ m.rev \in Stored'
    <3>1. m.rev = made + 1
      BY <2>2 DEF Commit, BroadcastsOf
    <3>2. made + 1 \in own'[a]
      BY <2>2 DEF Commit, TypeOK
    <3> QED
      BY <1>3, <3>1, <3>2 DEF Stored
  <2>3. ASSUME NEW a \in Agents, CommitRefused(a), m \notin net
        PROVE  m.rev \in Made' /\ AbortLeaksSignals
    BY <1>1, <2>3 DEF CommitRefused, BroadcastsOf, NewRevision, Made
  <2>4. ASSUME NEW a \in Agents, Sync(a), m \notin net
        PROVE  m.rev \in Made' /\ m.rev \in Stored'
    <3>1. current[a] # NoRev /\ m.rev = current[a] /\ current[a] \in Stored
      BY <2>4 DEF Sync, BroadcastsOf, ParentsFor
    <3> QED
      BY <1>1, <3>1 DEF RefsMade
  <2>5. \/ net' \subseteq net
        \/ \E a \in Agents : Commit(a) \/ CommitRefused(a) \/ Sync(a)
    <3>1. ASSUME NEW a \in Agents, NEW p \in Agents, PullStep(a, p)
          PROVE  net' = net
      BY <3>1 DEF PullStep, PullSkipped, PullFirst, PullNothing, PullMerge,
                  PullFastForward, PullFails, AfterPull
    <3>2. ASSUME NEW a \in Agents, NEW lost, GossipStart(a, lost)
          PROVE  net' = net
      BY <3>2 DEF GossipStart
    <3>3. ASSUME NEW a \in Agents, SyncFails(a) \/ GossipEnd(a)
          PROVE  net' = net
      BY <3>3 DEF SyncFails, GossipEnd
    <3>4. ASSUME NEW k \in net, Deliver(k) \/ DeliverRefused(k) \/ Lose(k)
          PROVE  net' \subseteq net
      BY <3>4 DEF Deliver, DeliverRefused, Lose
    <3> QED
      BY <3>1, <3>2, <3>3, <3>4 DEF Next
  <2> QED
    BY <2>1, <2>2, <2>3, <2>4, <2>5
<1> QED
  BY <1>3, <1>6, <1>7, <1>8 DEF RefsMade

-----------------------------------------------------------------------------
(* The four promises of DiffSync, for one agent.                           *)
AgentOK(a) ==
    /\ own[a] # {} => current[a] # NoRev /\ own[a] \subseteq past[current[a]]
    /\ current[a] # NoRev => past[current[a]] \subseteq own[a] \cup emitted[a]
    /\ ~AbortLeaksSignals =>
          emitted[a] = IF current[a] = NoRev THEN {}
                       ELSE past[current[a]] \ own[a]
    /\ ~AbortLeaksSignals => ParentsFor(a) \subseteq Stored

LEMMA AgentsOK ==
    (\A a \in Agents : AgentOK(a))
        <=> (CommittedKept /\ EmittedComplete /\ EmittedExact /\ CurrentFetchable)
BY DEF AgentOK, CommittedKept, EmittedComplete, EmittedExact, CurrentFetchable,
       Known

(* An agent that a step leaves alone keeps its promises.                   *)
LEMMA LeftAlone ==
    ASSUME IInv, Next, NEW a \in Agents, own'[a] = own[a],
           current'[a] = current[a], emitted'[a] = emitted[a]
    PROVE  AgentOK(a)'
<1>1. AgentOK(a)
  BY AgentsOK DEF IInv
<1>2. current[a] # NoRev => past'[current[a]] = past[current[a]]
  BY GraphStep DEF IInv, RefsMade
<1>3. Stored \subseteq Stored'
  BY GraphStep
<1>4. ParentsFor(a)' = ParentsFor(a)
  BY DEF ParentsFor
<1> QED
  BY <1>1, <1>2, <1>3, <1>4 DEF AgentOK

LEMMA HistoryStep ==
    ASSUME IInv, Next
    PROVE  \A a \in Agents : AgentOK(a)'
<1> USE DEF IInv
<1>1. /\ made \in Nat /\ made + 1 \notin Made
      /\ Stored \subseteq Stored'
      /\ \A r \in Made : past'[r] = past[r]
      /\ TypeOK'
  BY GraphStep, TypeStep DEF TypeOK, RevOpt, Made
<1>2. CASE UNCHANGED zomeVars
  BY <1>2, LeftAlone DEF zomeVars
<1>3. ASSUME NEW b \in Agents, NEW c \in Agents, b # c,
             \/ Committed(b)
             \/ \E r \in Made : Merged(b, r) \/ Moved(b, r)
      PROVE  AgentOK(c)'
  <2>1. own'[c] = own[c] /\ current'[c] = current[c] /\ emitted'[c] = emitted[c]
    BY <1>3 DEF Committed, Merged, Moved, Emit, TypeOK
  <2> QED
    BY <2>1, LeftAlone
<1>4. ASSUME NEW b \in Agents
      PROVE  /\ AgentOK(b)
             /\ own[b] \subseteq Made
             /\ current[b] # NoRev => /\ current[b] \in Made
                                     /\ current[b] \in past[current[b]]
                                     /\ past[current[b]] \subseteq Made
                                     /\ own[b] \subseteq past[current[b]]
             /\ current[b] = NoRev => own[b] = {}
             /\ ~AbortLeaksSignals =>
                   emitted[b] = IF current[b] = NoRev THEN {}
                                ELSE past[current[b]] \ own[b]
  BY AgentsOK, PastIsMade DEF RefsMade, AgentOK
<1>5. ASSUME NEW b \in Agents, Committed(b) PROVE AgentOK(b)'
  <2> DEFINE n == made + 1
  <2>1. past'[n] = PastFrom(n, ParentsFor(b)) /\ n # NoRev
    <3>1. n # NoRev
      BY <1>1 DEF NoRev
    <3> QED
      BY <3>1, <1>5, ParentsChosen, NewRevisionKeepsGraph DEF Committed
  <2>2. past'[n] = {n} \cup IF current[b] = NoRev THEN {} ELSE past[current[b]]
    BY <2>1 DEF PastFrom, ParentsFor
  <2>3. own'[b] = own[b] \cup {n} /\ current'[b] = n /\ emitted'[b] = emitted[b]
    BY <1>5 DEF Committed, TypeOK
  <2>4. n \in Stored'
    BY <2>3 DEF Stored
  <2>5. own'[b] \subseteq past'[n] /\ past'[n] \subseteq own'[b] \cup emitted'[b]
    BY <1>4, <2>2, <2>3 DEF AgentOK
  <2>6. ASSUME ~AbortLeaksSignals PROVE emitted'[b] = past'[n] \ own'[b]
    <3>1. CASE current[b] = NoRev
      BY <1>4, <2>2, <2>3, <2>6, <3>1 DEF AgentOK
    <3>2. CASE current[b] # NoRev
      <4>1. emitted[b] = past[current[b]] \ own[b] /\ n \notin past[current[b]]
        BY <1>1, <1>4, <2>6, <3>2
      <4> QED
        BY <2>2, <2>3, <3>2, <4>1
    <3> QED
      BY <3>1, <3>2
  <2>7. ParentsFor(b)' = {n}
    BY <2>1, <2>3 DEF ParentsFor
  <2> HIDE DEF n
  <2> QED
    BY <2>1, <2>3, <2>4, <2>5, <2>6, <2>7 DEF AgentOK
<1>6. ASSUME NEW b \in Agents, NEW r \in Made, Merged(b, r) PROVE AgentOK(b)'
  <2> DEFINE n == made + 1
             ps == {r, current[b]}
  <2>1. ps \in SUBSET Made /\ NewRevision(ps)
    <3>1. current[b] \in Made
      BY <1>6 DEF Merged, RefsMade
    <3> QED
      BY <1>6, <3>1 DEF Merged
  <2>2. past'[n] = PastFrom(n, ps) /\ n # NoRev
    <3>1. n # NoRev
      BY <1>1 DEF NoRev
    <3> QED
      BY <3>1, <2>1, NewRevisionKeepsGraph
  <2>3. past'[n] = {n} \cup past[r] \cup past[current[b]]
    BY <2>2 DEF PastFrom
  <2>4. /\ own'[b] = own[b] \cup {n} /\ current'[b] = n
        /\ emitted'[b] = emitted[b] \cup (past[r] \ past[current[b]])
        /\ current[b] # NoRev
    BY <1>6 DEF Merged, Emit, TypeOK
  <2>5. n \in Stored'
    BY <2>4 DEF Stored
  <2>6. own'[b] \subseteq past'[n] /\ past'[n] \subseteq own'[b] \cup emitted'[b]
    BY <1>4, <2>3, <2>4 DEF AgentOK
  <2>7. past[r] \subseteq Made
    BY PastIsMade
  <2>8. ASSUME ~AbortLeaksSignals PROVE emitted'[b] = past'[n] \ own'[b]
    <3>1. emitted[b] = past[current[b]] \ own[b]
      BY <1>4, <2>4, <2>8
    <3>2. /\ own[b] \subseteq past[current[b]]
          /\ n \notin past[r] /\ n \notin past[current[b]]
      BY <1>1, <1>4, <2>4, <2>7
    <3> HIDE DEF n
    <3> QED
      BY <2>3, <2>4, <3>1, <3>2
  <2>9. ParentsFor(b)' = {n}
    BY <2>2, <2>4 DEF ParentsFor
  <2> HIDE DEF n
  <2> QED
    BY <2>2, <2>4, <2>5, <2>6, <2>8, <2>9 DEF AgentOK
<1>7. ASSUME NEW b \in Agents, NEW r \in Made, Moved(b, r) PROVE AgentOK(b)'
  <2>1. /\ own'[b] = own[b] /\ current'[b] = r /\ past'[r] = past[r]
        /\ r # NoRev /\ r \in past[r]
    BY <1>1, <1>7, PastIsMade DEF Moved, TypeOK, NoRev, Rev
  <2>2. ~AbortLeaksSignals => ParentsFor(b)' \subseteq Stored'
    BY <1>1, <1>7, <2>1 DEF ParentsFor, Moved
  <2>3. CASE current[b] = NoRev
    <3>1. emitted'[b] = emitted[b] \cup past[r]
      BY <1>7, <2>3 DEF Moved, Emit, TypeOK
    <3> QED
      BY <1>4, <2>1, <2>2, <2>3, <3>1 DEF AgentOK
  <2>4. CASE current[b] # NoRev /\ current[b] \in past[r]
             /\ Emit(b, past[r] \ past[current[b]])
    <3>1. emitted'[b] = emitted[b] \cup (past[r] \ past[current[b]])
      BY <2>4 DEF Emit, TypeOK
    <3>2. past[current[b]] \subseteq past[r]
      BY <2>4 DEF GraphOK
    <3> QED
      BY <1>4, <2>1, <2>2, <2>4, <3>1, <3>2 DEF AgentOK
  <2>5. CASE current[b] # NoRev /\ parents[r] = {current[b]} /\ Emit(b, {r})
    <3>1. emitted'[b] = emitted[b] \cup {r}
      BY <2>5 DEF Emit, TypeOK
    <3>2. past[r] = {r} \cup past[current[b]]
      BY <2>5 DEF GraphOK, PastFrom
    <3>3. r \notin past[current[b]]
      <4>1. current[b] \in 1 .. (r - 1) /\ current[b] \in Made
        BY <1>4, <2>5 DEF GraphOK
      <4>2. \A q \in past[current[b]] : q \in 1 .. current[b]
        BY <4>1 DEF GraphOK
      <4> QED
        BY <1>1, <4>1, <4>2 DEF Made
    <3> QED
      <4>1. own[b] \subseteq past[current[b]]
        BY <1>4, <2>5
      <4>2. ASSUME ~AbortLeaksSignals PROVE emitted'[b] = past'[r] \ own'[b]
        <5>1. emitted[b] = past[current[b]] \ own[b]
          BY <1>4, <2>5, <4>2
        <5> QED
          BY <2>1, <3>1, <3>2, <3>3, <4>1, <5>1
      <4>3. past'[r] \subseteq own'[b] \cup emitted'[b]
        BY <1>4, <2>1, <2>5, <3>1, <3>2 DEF AgentOK
      <4> QED
        BY <2>1, <2>2, <3>2, <4>1, <4>2, <4>3 DEF AgentOK
  <2> QED
    BY <1>7, <2>3, <2>4, <2>5 DEF Moved
<1>8. CASE Leaked
  <2> SUFFICES ASSUME NEW b \in Agents PROVE AgentOK(b)'
    OBVIOUS
  <2>1. /\ AbortLeaksSignals /\ own'[b] = own[b] /\ current'[b] = current[b]
        /\ emitted[b] \subseteq emitted'[b]
    <3>1. ASSUME NEW a \in Agents, NEW revs, Emit(a, revs)
          PROVE  emitted[b] \subseteq emitted'[b]
      BY <3>1 DEF Emit, TypeOK
    <3> QED
      BY <1>8, <3>1 DEF Leaked
  <2> QED
    BY <1>1, <1>4, <2>1 DEF AgentOK
<1> QED
  BY <1>2, <1>3, <1>5, <1>6, <1>7, <1>8, ZomeStep

-----------------------------------------------------------------------------
(* IInv is inductive.                                                      *)
THEOREM Invariance == Spec => []IInv
<1>1. Init => IInv
  BY BoundsAssumption
  DEF Init, IInv, TypeOK, GraphOK, RefsMade, CommittedKept,
      EmittedComplete, EmittedExact, CurrentFetchable, Made, RevOpt, Rev,
      NoRev, NobodyKnown, Known, ParentsFor
<1>2. IInv /\ [Next]_vars => IInv'
  <2> SUFFICES ASSUME IInv, [Next]_vars PROVE IInv'
    OBVIOUS
  <2>1. CASE Next
    <3>1. GraphOK'
      BY <2>1, GraphStep
    <3>2. (CommittedKept /\ EmittedComplete /\ EmittedExact /\ CurrentFetchable)'
      BY <2>1, HistoryStep, AgentsOK
      DEF AgentOK, Known, CommittedKept, EmittedComplete, EmittedExact,
          CurrentFetchable
    <3> QED
      BY <2>1, <3>1, <3>2, TypeStep, RefsStep DEF IInv
  <2>2. CASE UNCHANGED vars
    BY <2>2
    DEF vars, zomeVars, graphVars, adapterVars, gossipVars, IInv, TypeOK,
        GraphOK, RefsMade, CommittedKept, EmittedComplete,
        EmittedExact, CurrentFetchable, Made, Stored, Known, ParentsFor, PastFrom
  <2> QED
    BY <2>1, <2>2
<1> QED
  BY <1>1, <1>2, PTL DEF Spec

(* Every variable keeps its type.                                          *)
THEOREM TypeCorrect == Spec => []TypeOK
BY Invariance, PTL DEF IInv

(* No agent ever loses a revision it wrote.                                *)
THEOREM NothingLost == Spec => []CommittedKept
BY Invariance, PTL DEF IInv

(* Whatever an agent's current revision contains, its executor was given.  *)
THEOREM NothingHidden == Spec => []EmittedComplete
BY Invariance, PTL DEF IInv

(* ... once, and nothing else, unless refused calls leak.                  *)
THEOREM NothingTwice == Spec => []EmittedExact
BY Invariance, PTL DEF IInv

(* Unless refused calls leak, nobody is at a revision the DHT cannot find. *)
THEOREM NobodyStranded == Spec => []CurrentFetchable
BY Invariance, PTL DEF IInv

(* Every move of a current revision is to a descendant.                    *)
THEOREM ForwardOnly == Spec => MovesForward
<1>1. IInv /\ [Next]_vars =>
        [\A a \in Agents :
            current'[a] # current[a] =>
               current[a] = NoRev \/ current[a] \in past'[current'[a]]]_vars
  <2> SUFFICES ASSUME IInv, Next, NEW a \in Agents,
                      current'[a] # current[a], current[a] # NoRev
               PROVE  current[a] \in past'[current'[a]]
    OBVIOUS
  <2>1. /\ current[a] \in Made /\ current[a] \in past[current[a]]
        /\ current \in [Agents -> RevOpt]
    BY PastIsMade DEF IInv, RefsMade, TypeOK
  <2>2. \A r \in Made : past'[r] = past[r]
    BY GraphStep
  <2>3. ASSUME NEW b \in Agents, Committed(b) PROVE current[a] \in past'[current'[a]]
    <3>1. b = a /\ current'[a] = made + 1 /\ ParentsFor(a) = {current[a]}
      BY <2>1, <2>3 DEF Committed, ParentsFor
    <3>2. past'[made + 1] = PastFrom(made + 1, ParentsFor(a))
      BY <2>3, <3>1, ParentsChosen, NewRevisionKeepsGraph DEF Committed, IInv
    <3> QED
      BY <2>1, <3>1, <3>2 DEF PastFrom
  <2>4. ASSUME NEW b \in Agents, NEW r \in Made, Merged(b, r)
        PROVE  current[a] \in past'[current'[a]]
    <3>1. b = a /\ current'[a] = made + 1
      BY <2>1, <2>4 DEF Merged
    <3>2. {r, current[a]} \in SUBSET Made
          /\ NewRevision({r, current[a]})
      BY <2>1, <2>4, <3>1 DEF Merged
    <3>3. past'[made + 1] = PastFrom(made + 1, {r, current[a]})
      BY <3>2, NewRevisionKeepsGraph DEF IInv
    <3> QED
      BY <2>1, <3>1, <3>3 DEF PastFrom
  <2>5. ASSUME NEW b \in Agents, NEW r \in Made, Moved(b, r)
        PROVE  current[a] \in past'[current'[a]]
    <3>1. b = a /\ current'[a] = r
      BY <2>1, <2>5 DEF Moved
    <3>2. CASE current[a] \in past[r]
      BY <2>2, <3>1, <3>2
    <3>3. CASE parents[r] = {current[a]}
      BY <2>1, <2>2, <3>1, <3>3 DEF IInv, GraphOK, PastFrom
    <3> QED
      BY <2>5, <3>1, <3>2, <3>3 DEF Moved
  <2> QED
    BY <2>3, <2>4, <2>5, ZomeStep DEF zomeVars, Leaked
<1> QED
  BY <1>1, Invariance, PTL DEF Spec, MovesForward

-----------------------------------------------------------------------------
(* DiffSync implements CausalReplicas.  What an executor holds, per agent, *)
(* and the histories of the revisions that were made:                      *)
View(a) == own[a] \cup emitted[a]
ViewMap == [a \in Agents |-> View(a)]
HistorySet == {past[r] : r \in Made}

(* An executor holds exactly the history of its link language's revision.  *)
LEMMA ViewIsHistory ==
    ASSUME IInv, ~AbortLeaksSignals, NEW a \in Agents
    PROVE  View(a) = Known(a)
BY DEF IInv, CommittedKept, EmittedExact, View

(* Creating a revision adds its history and keeps the others.              *)
LEMMA HistoryAdded ==
    ASSUME IInv, NEW ps \in SUBSET Made, NewRevision(ps)
    PROVE  /\ made + 1 \in Rev
           /\ \A h \in HistorySet : made + 1 \notin h
           /\ HistorySet' = HistorySet \cup {PastFrom(made + 1, ps)}
           /\ past'[made + 1] = PastFrom(made + 1, ps)
<1>1. /\ made + 1 \in Rev /\ Made' = Made \cup {made + 1}
      /\ \A r \in Made : past'[r] = past[r]
  BY NewRevisionKeepsGraph DEF IInv
<1>2. past'[made + 1] = PastFrom(made + 1, ps)
  BY <1>1 DEF NewRevision, IInv, TypeOK
<1>3. made \in Nat /\ made + 1 \notin Made
  BY BoundsAssumption DEF IInv, TypeOK, RevOpt, Made
<1>4. \A h \in HistorySet : made + 1 \notin h
  BY <1>3, PastIsMade DEF HistorySet
<1>5. HistorySet' = HistorySet \cup {PastFrom(made + 1, ps)}
  BY <1>1, <1>2 DEF HistorySet
<1> QED
  BY <1>1, <1>2, <1>4, <1>5

(* An executor's view is the history of a revision, or nothing.            *)
LEMMA KnownIsMade ==
    ASSUME IInv, NEW a \in Agents, current[a] # NoRev
    PROVE  current[a] \in Made /\ Known(a) = past[current[a]]
           /\ current[a] \in past[current[a]]
<1>1. current[a] \in Made
  BY DEF IInv, RefsMade
<1> QED
  BY <1>1, PastIsMade DEF Known

LEMMA WriteStep ==
    ASSUME IInv, IInv', ~AbortLeaksSignals, NEW a \in Agents, Committed(a)
    PROVE  Replicas!Write(a, made + 1)
<1>1. ParentsFor(a) \in SUBSET Made
  BY ParentsChosen
<1>2. /\ made + 1 \in Rev
      /\ \A h \in HistorySet : made + 1 \notin h
      /\ HistorySet' = HistorySet \cup {PastFrom(made + 1, ParentsFor(a))}
  BY <1>1, HistoryAdded DEF Committed
<1>3. PastFrom(made + 1, ParentsFor(a)) = View(a) \cup {made + 1}
  <2>1. PastFrom(made + 1, ParentsFor(a)) = Known(a) \cup {made + 1}
    <3>1. CASE current[a] = NoRev
      BY <3>1 DEF PastFrom, ParentsFor, Known
    <3>2. CASE current[a] # NoRev
      BY <3>2 DEF PastFrom, ParentsFor, Known
    <3> QED
      BY <3>1, <3>2
  <2> QED
    BY <2>1, ViewIsHistory
<1>4. ViewMap' = [ViewMap EXCEPT ![a] = @ \cup {made + 1}]
  BY DEF Committed, ViewMap, View, IInv, TypeOK
<1> QED
  BY <1>2, <1>3, <1>4
  DEF Replicas!Write, Replicas!Fresh, HistorySet, ViewMap, View

LEMMA JoinStep ==
    ASSUME IInv, IInv', ~AbortLeaksSignals,
           NEW a \in Agents, NEW r \in Made, Merged(a, r)
    PROVE  Replicas!Join(a, past[r], made + 1)
<1>1. current[a] \in Made /\ Known(a) = past[current[a]]
      /\ current[a] \in past[current[a]] /\ r \in past[r]
  BY KnownIsMade, PastIsMade DEF Merged
<1>2. {r, current[a]} \in SUBSET Made
  BY <1>1 DEF Merged
<1>3. /\ made + 1 \in Rev
      /\ \A h \in HistorySet : made + 1 \notin h
      /\ HistorySet' = HistorySet \cup {PastFrom(made + 1, {r, current[a]})}
  BY <1>2, HistoryAdded DEF Merged
<1>4. View(a) = past[current[a]]
  BY <1>1, ViewIsHistory
<1>5. PastFrom(made + 1, {r, current[a]}) = View(a) \cup past[r] \cup {made + 1}
  BY <1>4 DEF PastFrom
<1>6. ViewMap' = [ViewMap EXCEPT ![a] = @ \cup past[r] \cup {made + 1}]
  <2>1. own'[a] \cup emitted'[a] = View(a) \cup past[r] \cup {made + 1}
    BY <1>4 DEF Merged, Emit, View, IInv, TypeOK
  <2>2. \A b \in Agents \ {a} : own'[b] = own[b] /\ emitted'[b] = emitted[b]
    BY DEF Merged, Emit, IInv, TypeOK
  <2> QED
    BY <2>1, <2>2 DEF ViewMap, View
<1>7. ~(past[r] \subseteq View(a)) /\ ~(View(a) \subseteq past[r])
  BY <1>1, <1>4 DEF Merged
<1> QED
  BY <1>3, <1>5, <1>6, <1>7
  DEF Replicas!Join, Replicas!Fresh, HistorySet, ViewMap, View

LEMMA AdoptStep ==
    ASSUME IInv, IInv', ~AbortLeaksSignals,
           NEW a \in Agents, NEW r \in Made, Moved(a, r)
    PROVE  Replicas!Adopt(a, past[r])
<1>1. View(a) \subseteq past[r]
  <2>1. CASE current[a] = NoRev
    BY <2>1, ViewIsHistory DEF Known
  <2>2. CASE current[a] # NoRev
    <3>1. current[a] \in past[r]
      <4>1. past[r] = PastFrom(r, parents[r])
        BY DEF IInv, GraphOK
      <4> QED
        BY <2>2, <4>1, KnownIsMade DEF Moved, PastFrom
    <3> QED
      BY <2>2, <3>1, ViewIsHistory, KnownIsMade DEF IInv, GraphOK
  <2> QED
    BY <2>1, <2>2
<1>2. ViewMap' = [ViewMap EXCEPT ![a] = past[r]]
  <2>1. View(a)' = past[r]
    <3>1. View(a)' = Known(a)'
      BY DEF IInv, CommittedKept, EmittedExact, View
    <3>2. r # NoRev
      BY DEF Made, NoRev
    <3> QED
      BY <3>1, <3>2 DEF Moved, Known, graphVars, IInv, TypeOK
  <2>2. \A b \in Agents \ {a} : own'[b] = own[b] /\ emitted'[b] = emitted[b]
    BY DEF Moved, Emit, IInv, TypeOK
  <2> QED
    BY <2>1, <2>2 DEF ViewMap, View
<1>3. HistorySet' = HistorySet
  BY DEF Moved, graphVars, HistorySet, Made
<1> QED
  BY <1>1, <1>2, <1>3
  DEF Replicas!Adopt, HistorySet, ViewMap, View

-----------------------------------------------------------------------------
(* CausalReplicas by itself, for any agents and any diffs.                 *)
CONSTANT Diffs
VARIABLES histories, view

Held == INSTANCE CausalReplicas

HeldTyped == view \in [Agents -> SUBSET Diffs] /\ histories \subseteq SUBSET Diffs

(* What makes Causal inductive: a view is a history, or nothing yet.       *)
ViewsAreHistories ==
    \A a \in Agents : view[a] = {} \/ view[a] \in histories

HeldInv == HeldTyped /\ ViewsAreHistories /\ Held!Causal

(* A step that adds at most the history n, made of histories and of one    *)
(* fresh diff d, and moves one agent's view to a history, keeps HeldInv.   *)
LEMMA GrowthKeepsHeld ==
    ASSUME HeldInv, NEW a \in Agents, NEW d \in Diffs, Held!Fresh(d),
           NEW parts \in SUBSET histories, NEW n, n = (UNION parts) \cup {d},
           histories' = histories \cup {n},
           view' = [view EXCEPT ![a] = n]
    PROVE  HeldInv'
<1> USE DEF HeldInv
<1>1. HeldTyped' /\ ViewsAreHistories'
  BY DEF HeldTyped, ViewsAreHistories
<1>2. ASSUME NEW g \in histories', NEW e \in g
      PROVE  \E h \in histories' :
                /\ e \in h
                /\ \A k \in histories' : e \in k => h \subseteq k
                /\ \A b \in Agents : e \in view'[b] => h \subseteq view'[b]
  <2>1. CASE e = d
    <3>1. \A k \in histories : e \notin k
      BY <2>1 DEF Held!Fresh
    <3>2. \A b \in Agents : e \in view'[b] => view'[b] = n
      BY <3>1 DEF HeldTyped, ViewsAreHistories
    <3> QED
      BY <2>1, <3>1, <3>2
  <2>2. CASE e # d
    <3>1. PICK f \in histories : e \in f
      BY <1>2, <2>2
    <3>2. PICK h \in histories :
             /\ e \in h
             /\ \A k \in histories : e \in k => h \subseteq k
             /\ \A b \in Agents : e \in view[b] => h \subseteq view[b]
      BY <3>1 DEF Held!Causal
    <3>3. e \in n => h \subseteq n
      BY <2>2, <3>2
    <3>4. \A b \in Agents : e \in view'[b] => h \subseteq view'[b]
      BY <3>2, <3>3 DEF HeldTyped
    <3> QED
      BY <3>2, <3>3, <3>4
  <2> QED
    BY <2>1, <2>2
<1> QED
  BY <1>1, <1>2 DEF Held!Causal

(* Causal delivery follows from the three ways in which a view may grow.   *)
THEOREM CausalDelivered == Held!Spec => []Held!Causal
<1>1. Held!Init => HeldInv
  BY DEF Held!Init, HeldInv, HeldTyped, ViewsAreHistories, Held!Causal
<1>2. HeldInv /\ [Held!Next]_Held!vars => HeldInv'
  <2> SUFFICES ASSUME HeldInv, [Held!Next]_Held!vars PROVE HeldInv'
    OBVIOUS
  <2>1. ASSUME NEW a \in Agents, NEW d \in Diffs, Held!Write(a, d) PROVE HeldInv'
    <3>1. PICK parts \in SUBSET histories : view[a] = UNION parts
      <4>1. CASE view[a] = {}
        BY <4>1, {} \in SUBSET histories, UNION {} = {}
      <4>2. CASE view[a] \in histories
        BY <4>2, {view[a]} \in SUBSET histories, UNION {view[a]} = view[a]
      <4> QED
        BY <4>1, <4>2 DEF HeldInv, ViewsAreHistories
    <3> DEFINE n == (UNION parts) \cup {d}
    <3>2. histories' = histories \cup {n} /\ view' = [view EXCEPT ![a] = n]
      BY <2>1, <3>1 DEF Held!Write
    <3> HIDE DEF n
    <3> QED
      BY <2>1, <3>2, GrowthKeepsHeld DEF Held!Write, n
  <2>2. ASSUME NEW a \in Agents, NEW h \in histories, Held!Adopt(a, h) PROVE HeldInv'
    <3>1. HeldTyped' /\ ViewsAreHistories'
      BY <2>2 DEF Held!Adopt, HeldInv, HeldTyped, ViewsAreHistories
    <3>2. Held!Causal'
      BY <2>2 DEF Held!Adopt, HeldInv, HeldTyped, Held!Causal
    <3> QED
      BY <3>1, <3>2 DEF HeldInv
  <2>3. ASSUME NEW a \in Agents, NEW h \in histories, NEW d \in Diffs,
               Held!Join(a, h, d)
        PROVE  HeldInv'
    <3>1. view[a] \in histories
      BY <2>3 DEF Held!Join, HeldInv, ViewsAreHistories
    <3> DEFINE n == (UNION {view[a], h}) \cup {d}
    <3>2. histories' = histories \cup {n} /\ view' = [view EXCEPT ![a] = n]
      BY <2>3 DEF Held!Join
    <3>3. {view[a], h} \in SUBSET histories
      BY <3>1
    <3> HIDE DEF n
    <3> QED
      BY <2>3, <3>2, <3>3, GrowthKeepsHeld DEF Held!Join, n
  <2>4. CASE UNCHANGED Held!vars
    BY <2>4 DEF Held!vars, HeldInv, HeldTyped, ViewsAreHistories, Held!Causal
  <2> QED
    BY <2>1, <2>2, <2>3, <2>4 DEF Held!Next
<1>3. HeldInv => Held!Causal
  BY DEF HeldInv
<1> QED
  BY <1>1, <1>2, <1>3, PTL DEF Held!Spec

-----------------------------------------------------------------------------
(* Unless refused calls leak, every behaviour of the link language is one  *)
(* of CausalReplicas: commit() writes, merge() joins, and every other move *)
(* of a current revision adopts a history.                                 *)
THEOREM ReplicasImplemented ==
    ASSUME ~AbortLeaksSignals PROVE Spec => ImplementsReplicas
<1>1. Init => Replicas!Init
  BY DEF Init, Replicas!Init, Made
<1>2. IInv /\ IInv' /\ [Next]_vars => [Replicas!Next]_Replicas!vars
  <2> SUFFICES ASSUME IInv, IInv', [Next]_vars
               PROVE  Replicas!Next \/ UNCHANGED Replicas!vars
    OBVIOUS
  <2>1. CASE UNCHANGED zomeVars \/ UNCHANGED vars
    BY <2>1 DEF vars, zomeVars, graphVars, Replicas!vars, Made
  <2>2. ASSUME NEW a \in Agents, Committed(a) PROVE Replicas!Next
    <3>1. made + 1 \in Rev
      BY <2>2, ParentsChosen, HistoryAdded DEF Committed
    <3> QED
      BY <2>2, <3>1, WriteStep
      DEF Replicas!Next, Replicas!Write, Replicas!Fresh
  <2>3. ASSUME NEW a \in Agents, NEW r \in Made, Merged(a, r)
        PROVE  Replicas!Next
    <3>1. Replicas!Join(a, past[r], made + 1)
      BY <2>3, JoinStep
    <3>2. made + 1 \in Rev
      BY <3>1 DEF Replicas!Join, Replicas!Fresh
    <3>3. \E d \in Rev : Replicas!Join(a, past[r], d)
      BY <3>1, <3>2 DEF Replicas!Join, Replicas!Fresh
    <3>4. past[r] \in {past[q] : q \in Made}
      OBVIOUS
    <3>5. \E h \in {past[q] : q \in Made} :
             \E d \in Rev : Replicas!Join(a, h, d)
      BY <3>3, <3>4 DEF Replicas!Join, Replicas!Fresh
    <3> QED
      BY <3>5 DEF Replicas!Next, Replicas!Join, Replicas!Fresh
  <2>4. ASSUME NEW a \in Agents, NEW r \in Made, Moved(a, r)
        PROVE  Replicas!Next
    <3>1. Replicas!Adopt(a, past[r])
      BY <2>4, AdoptStep
    <3>2. past[r] \in {past[q] : q \in Made}
      OBVIOUS
    <3>3. \E h \in {past[q] : q \in Made} : Replicas!Adopt(a, h)
      BY <3>1, <3>2 DEF Replicas!Adopt
    <3> QED
      BY <3>3 DEF Replicas!Next, Replicas!Adopt
  <2>5. CASE Leaked
    BY <2>5 DEF Leaked
  <2> QED
    BY <2>1, <2>2, <2>3, <2>4, <2>5, ZomeStep
<1> QED
  BY <1>1, <1>2, Invariance, PTL DEF Spec, ImplementsReplicas, Replicas!Spec

(* Hence executors are handed links causally.                              *)
THEOREM DeliveredCausally ==
    ASSUME ~AbortLeaksSignals PROVE Spec => []CausalDelivery
<1>1. IInv => CausalDelivery
  <2> SUFFICES ASSUME IInv, NEW r \in Made, NEW d \in past[r]
               PROVE  /\ d \in Made /\ d \in past[d]
                      /\ \A k \in Made : d \in past[k] => past[d] \subseteq past[k]
                      /\ \A a \in Agents : d \in View(a) => past[d] \subseteq View(a)
    BY DEF CausalDelivery, Replicas!Causal, View
  <2>1. d \in Made /\ d \in past[d]
    BY PastIsMade
  <2>2. \A k \in Made : d \in past[k] => past[d] \subseteq past[k]
    BY DEF IInv, GraphOK
  <2>3. \A a \in Agents : d \in View(a) => past[d] \subseteq View(a)
    BY <2>2, ViewIsHistory, KnownIsMade DEF Known
  <2> QED
    BY <2>1, <2>2, <2>3
<1> QED
  BY <1>1, Invariance, PTL
=============================================================================
