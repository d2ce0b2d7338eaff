------------------------------ MODULE DiffSync ------------------------------
(***************************************************************************)
(* The link language of a shared perspective: perspective-diff-sync.       *)
(*                                                                         *)
(* Every agent of a neighbourhood runs linksAdapter.ts on top of a         *)
(* Holochain zome.  The zome keeps, on the agent's source chain, the hash  *)
(* of the agent's current revision; a revision is an entry of the shared   *)
(* DHT that names its parents and a diff.  commit() appends a revision,    *)
(* pull() fast-forwards to, or merges with, the revision of a peer,        *)
(* broadcast_current() tells the other agents where one is, and            *)
(* handle_broadcast() fast-forwards over a single step.  The adapter calls *)
(* commit, sync and pull under generalMutex; broadcasts are handled        *)
(* without it.                                                             *)
(*                                                                         *)
(* A zome call is one step: the conductor flushes the entries a call made  *)
(* at once, and refuses them when the agent's chain moved since the call   *)
(* began.  What a refused call has already sent is not taken back if       *)
(* AbortLeaksSignals.                                                      *)
(***************************************************************************)
EXTENDS Naturals, FiniteSets

CONSTANTS
    Agents,            \* agents, by the rank of their DID in lexical order
    MaxRev,            \* bound: revisions created in a behaviour
    MaxCommits,        \* bound: those of them that commit() creates
    MaxFaults,         \* bound: lost broadcasts, failed calls, lost peers
    AbortLeaksSignals  \* does the signal of a refused call still go out?

ASSUME AgentsAssumption == Agents \subseteq Nat
ASSUME BoundsAssumption == MaxRev \in Nat /\ MaxCommits \in Nat /\ MaxFaults \in Nat
ASSUME LeakAssumption   == AbortLeaksSignals \in BOOLEAN

NoRev  == 0                 \* Option::None, or a peer missing from `peers`
Rev    == 1 .. MaxRev       \* revision hashes, numbered as they are created
RevOpt == 0 .. MaxRev

VARIABLES
    made,        \* number of revisions created so far
    parents,     \* PerspectiveDiffEntryReference.parents, as a set
    past,        \* a revision with all its ancestors, fixed by its hash
    own,         \* per agent: the revisions its source chain holds
    current,     \* per agent: the latest LocalHashReference of its chain
    emitted,     \* per agent: revisions whose diff reached linkCallback
    net,         \* HashBroadcast signals under way
    pc,          \* per agent: where the adapter's sync() is
    myRevision,  \* LinkAdapter.myCurrentRevision
    peers,       \* LinkAdapter.peers: the last revision heard of each peer
    revisions,   \* gossip(): the peers' revisions when the loop began
    todo,        \* gossip(): the peers whose revision is still to be pulled
    isScribe,    \* gossip(): is_scribe of the running loop
    syncState,   \* what syncStateChangeCallback was last told
    faults       \* faults so far

graphVars   == <<made, parents, past>>
zomeVars    == <<graphVars, own, current, emitted>>
gossipVars  == <<revisions, todo, isScribe>>
adapterVars == <<pc, myRevision, peers, gossipVars, syncState>>
vars        == <<zomeVars, net, adapterVars, faults>>

Broadcast == [to : Agents, from : Agents, rev : Rev]

TypeOK ==
    /\ made \in RevOpt
    /\ parents \in [Rev -> SUBSET Rev]
    /\ past \in [Rev -> SUBSET Rev]
    /\ own \in [Agents -> SUBSET Rev]
    /\ current \in [Agents -> RevOpt]
    /\ emitted \in [Agents -> SUBSET Rev]
    /\ net \in SUBSET Broadcast
    /\ pc \in [Agents -> {"idle", "synced", "gossip"}]
    /\ myRevision \in [Agents -> RevOpt]
    /\ peers \in [Agents -> [Agents -> RevOpt]]
    /\ revisions \in [Agents -> [Agents -> RevOpt]]
    /\ todo \in [Agents -> SUBSET Agents]
    /\ isScribe \in [Agents -> BOOLEAN]
    /\ syncState \in [Agents -> {"unknown", "notSynced", "synced"}]
    /\ faults \in 0 .. MaxFaults

NobodyKnown == [p \in Agents |-> NoRev]

Init ==
    /\ made = 0
    /\ parents = [r \in Rev |-> {}]
    /\ past = [r \in Rev |-> {}]
    /\ own = [a \in Agents |-> {}]
    /\ current = [a \in Agents |-> NoRev]
    /\ emitted = [a \in Agents |-> {}]
    /\ net = {}
    /\ pc = [a \in Agents |-> "idle"]
    /\ myRevision = [a \in Agents |-> NoRev]
    /\ peers = [a \in Agents |-> NobodyKnown]
    /\ revisions = [a \in Agents |-> NobodyKnown]
    /\ todo = [a \in Agents |-> {}]
    /\ isScribe = [a \in Agents |-> FALSE]
    /\ syncState = [a \in Agents |-> "unknown"]
    /\ faults = 0

-----------------------------------------------------------------------------
(* The revision graph and the signals.                                     *)

Made == 1 .. made

(* Revisions that the DHT can return: those some chain holds.  A revision  *)
(* created by a refused call is in nobody's chain and is never found.      *)
Stored == UNION {own[a] : a \in Agents}

(* all_ancestors(): the revision and everything reachable through parents. *)
PastFrom(r, ps) == {r} \cup UNION {past[p] : p \in ps}

(* create_entry(PerspectiveDiffEntryReference): the next hash of the pool. *)
NewRevision(ps) ==
    LET r == made + 1
    IN  /\ made < MaxRev
        /\ made' = r
        /\ parents' = [parents EXCEPT ![r] = ps]
        /\ past' = [past EXCEPT ![r] = PastFrom(r, ps)]

(* commit() gives a revision at most one parent, merge() two.              *)
CommitsLeft ==
    Cardinality({r \in Made : Cardinality(parents[r]) < 2}) < MaxCommits

ParentsFor(a) == IF current[a] = NoRev THEN {} ELSE {current[a]}

(* What the agent's current revision contains.                             *)
Known(a) == IF current[a] = NoRev THEN {} ELSE past[current[a]]

(* send_remote_signal() to get_active_agents(), without oneself.           *)
BroadcastsOf(a, r) == {[to |-> b, from |-> a, rev |-> r] : b \in Agents \ {a}}

Fault == faults < MaxFaults /\ faults' = faults + 1

-----------------------------------------------------------------------------
(* LinkAdapter.commit(): generalMutex is free unless gossip() holds it.    *)

Commit(a) ==
    LET r == made + 1
    IN  /\ pc[a] # "gossip"
        /\ CommitsLeft
        /\ ParentsFor(a) \subseteq Stored
        /\ NewRevision(ParentsFor(a))
        /\ own' = [own EXCEPT ![a] = @ \cup {r}]
        /\ current' = [current EXCEPT ![a] = r]
        /\ net' = net \cup BroadcastsOf(a, r)
        /\ myRevision' = [myRevision EXCEPT ![a] = r]
        /\ UNCHANGED <<emitted, pc, peers, gossipVars, syncState, faults>>

\* mutant: commit() broadcasts what is not yet on the chain
CommitNotFlushed(a) ==
    /\ pc[a] # "gossip"
    /\ CommitsLeft
    /\ ParentsFor(a) \subseteq Stored
    /\ NewRevision(ParentsFor(a))
    /\ net' = net \cup BroadcastsOf(a, made + 1)
    /\ Fault
    /\ UNCHANGED <<own, current, emitted, adapterVars>>

(* An attempt of the retry loop that the conductor refuses at the flush:   *)
(* nothing is stored, but the broadcast was already sent.  An attempt that *)
(* fails earlier changes nothing and is not a step.                        *)
CommitRefused(a) ==
    /\ AbortLeaksSignals
    /\ pc[a] # "gossip"
    /\ CommitsLeft
    /\ ParentsFor(a) \subseteq Stored
    /\ NewRevision(ParentsFor(a))
    /\ net' = net \cup BroadcastsOf(a, made + 1)
    /\ Fault
    /\ UNCHANGED <<own, current, emitted, adapterVars>>

-----------------------------------------------------------------------------
(* LinkAdapter.sync(): broadcast_current(), then gossip().                 *)

Sync(a) ==
    /\ pc[a] = "idle"
    /\ ParentsFor(a) \subseteq Stored
    /\ pc' = [pc EXCEPT ![a] = "synced"]
    /\ IF current[a] = NoRev
       THEN UNCHANGED <<net, myRevision>>
       ELSE /\ net' = net \cup BroadcastsOf(a, current[a])
            /\ myRevision' = [myRevision EXCEPT ![a] = current[a]]
    /\ UNCHANGED <<zomeVars, peers, gossipVars, syncState, faults>>

(* The sync zome call returns an error, which is logged: gossip() follows. *)
SyncFails(a) ==
    /\ pc[a] = "idle"
    /\ pc' = [pc EXCEPT ![a] = "synced"]
    /\ \/ Fault
       \/ ~(ParentsFor(a) \subseteq Stored) /\ UNCHANGED faults
    /\ UNCHANGED <<zomeVars, net, myRevision, peers, gossipVars, syncState>>

-----------------------------------------------------------------------------
(* LinkAdapter.gossip().                                                   *)

Heard(map) == {p \in Agents : map[p] # NoRev}

(* generateRevisionStates() and checkSyncState(): a peer's revision counts *)
(* once per peer, mine counts as one of the same.                          *)
SyncStateFor(a, map, mine) ==
    LET same      == Cardinality({p \in Heard(map) : map[p] = mine}) + 1
        different == Cardinality({p \in Heard(map) : map[p] # mine})
    IN  IF mine = NoRev THEN syncState[a]
        ELSE IF same <= different THEN "notSynced" ELSE "synced"

(* Takes the mutex, forgets the peers not seen for ten seconds, decides    *)
(* who is scribe and which revisions to look at.                           *)
(* is_scribe: the lowest DID among those the agent knows of merges.        *)
Scribe(a, map) == \A p \in Heard(map) : a <= p

Without(map, lost) == [p \in Agents |-> IF p \in lost THEN NoRev ELSE map[p]]

GossipStart(a, lost) ==
    LET map == Without(peers[a], lost)
    IN  /\ pc[a] = "synced"
        /\ pc' = [pc EXCEPT ![a] = "gossip"]
        /\ IF lost = {} THEN UNCHANGED faults ELSE Fault
        /\ peers' = [peers EXCEPT ![a] = map]
        /\ revisions' = [revisions EXCEPT ![a] = map]
        /\ todo' = [todo EXCEPT ![a] = Heard(map)]
        /\ isScribe' = [isScribe EXCEPT ![a] = Scribe(a, map)]
        /\ syncState' = [syncState EXCEPT ![a] =
                            SyncStateFor(a, map, myRevision[a])]
        /\ UNCHANGED <<zomeVars, net, myRevision>>

(* One round of the loop for the revision of peer p is about to run.       *)
Pulling(a, p) == pc[a] = "gossip" /\ p \in todo[a]
Pulled(a, p)  == todo' = [todo EXCEPT ![a] = @ \ {p}]

(* The pull zome call is made, and can fetch what it walks over.           *)
CanPull(a, p) ==
    /\ Pulling(a, p)
    /\ revisions[a][p] # myRevision[a]
    /\ \/ revisions[a][p] = current[a]
       \/ ({revisions[a][p]} \cup ParentsFor(a)) \subseteq Stored

(* myCurrentRevision follows the result of pull() only when the decoded    *)
(* hash is a Buffer, which the decoder outside src/ decides.               *)
AfterPull(a, p, rev) ==
    /\ Pulled(a, p)
    /\ \/ UNCHANGED <<myRevision, syncState>>
       \/ /\ myRevision' = [myRevision EXCEPT ![a] = rev]
          /\ syncState' = [syncState EXCEPT ![a] =
                               SyncStateFor(a, revisions[a], rev)]
    /\ UNCHANGED <<net, pc, peers, revisions, isScribe, faults>>

\* mutant: the range of new diffs includes the revision it starts from
EmitFromCurrent(a, revs) ==
    emitted' = [emitted EXCEPT ![a] = @ \cup revs \cup {current[a]}]

Emit(a, revs) == emitted' = [emitted EXCEPT ![a] = @ \cup revs]

\* mutants: what we have seen is not filtered out; any difference is a fork
NotFiltered(a, theirs) == past[theirs]
DifferentRevision(a, theirs) == theirs # current[a]

(* The unseen diffs of a pull, and the case in which only merge() helps.   *)
Unseen(a, theirs) == past[theirs] \ Known(a)
Diverged(a, theirs) == theirs \notin Known(a) /\ current[a] \notin past[theirs]

(* gossip() skips a revision that it takes to be its own.                  *)
PullSkipped(a, p) ==
    /\ Pulling(a, p)
    /\ revisions[a][p] = myRevision[a]
    /\ Pulled(a, p)
    /\ UNCHANGED <<zomeVars, net, pc, myRevision, peers, revisions, isScribe,
                   syncState, faults>>

(* The first revision of an agent without one: take it over as it is.      *)
PullFirst(a, p) ==
    LET theirs == revisions[a][p]
    IN  /\ CanPull(a, p)
        /\ current[a] = NoRev
        /\ current' = [current EXCEPT ![a] = theirs]
        /\ Emit(a, Unseen(a, theirs))
        /\ Pulled(a, p)
        /\ UNCHANGED <<graphVars, own, net, pc, myRevision, peers, revisions,
                       isScribe, syncState, faults>>

(* We are at theirs or ahead of it, or only a scribe could merge.          *)
PullNothing(a, p) ==
    LET theirs == revisions[a][p]
    IN  /\ CanPull(a, p)
        /\ current[a] # NoRev
        /\ theirs \in Known(a) \/ (Diverged(a, theirs) /\ ~isScribe[a])
        /\ AfterPull(a, p, current[a])
        /\ UNCHANGED zomeVars

PullFastForward(a, p) ==
    LET theirs == revisions[a][p]
    IN  /\ CanPull(a, p)
        /\ current[a] # NoRev
        /\ theirs \notin Known(a)
        /\ current[a] \in past[theirs]
        /\ Emit(a, Unseen(a, theirs))
        /\ current' = [current EXCEPT ![a] = theirs]
        /\ AfterPull(a, p, theirs)
        /\ UNCHANGED <<graphVars, own>>

(* merge(): a revision without changes, with both as parents.  It is not   *)
(* broadcast before the next sync.                                         *)
PullMerge(a, p) ==
    LET theirs == revisions[a][p]
        r      == made + 1
    IN  /\ CanPull(a, p)
        /\ current[a] # NoRev
        /\ Diverged(a, theirs)
        /\ isScribe[a]
        /\ Emit(a, Unseen(a, theirs))
        /\ NewRevision({theirs, current[a]})
        /\ own' = [own EXCEPT ![a] = @ \cup {r}]
        /\ current' = [current EXCEPT ![a] = r]
        /\ AfterPull(a, p, r)

(* The pull call returns an error, which the loop ignores.  A call refused *)
(* at the flush has already emitted the diffs it would have gained.        *)
PullFails(a, p) ==
    LET theirs == revisions[a][p]
    IN  /\ Pulling(a, p)
        /\ theirs # myRevision[a]
        /\ \/ ~CanPull(a, p) /\ UNCHANGED <<emitted, faults>>
           \/ Fault /\ UNCHANGED emitted
           \/ AbortLeaksSignals /\ CanPull(a, p) /\ Fault
                /\ Emit(a, Unseen(a, theirs))
        /\ Pulled(a, p)
        /\ UNCHANGED <<graphVars, own, current, net, pc, myRevision, peers,
                       revisions, isScribe, syncState>>

(* The loop is over: its locals are gone and the mutex is released.        *)
GossipEnd(a) ==
    /\ pc[a] = "gossip"
    /\ todo[a] = {}
    /\ pc' = [pc EXCEPT ![a] = "idle"]
    /\ revisions' = [revisions EXCEPT ![a] = NobodyKnown]
    /\ isScribe' = [isScribe EXCEPT ![a] = FALSE]
    /\ UNCHANGED <<zomeVars, net, myRevision, peers, todo, syncState, faults>>

-----------------------------------------------------------------------------
(* recv_remote_signal() -> handle_broadcast(), then the adapter's          *)
(* handleHolochainSignal() for the forwarded broadcast.  No mutex.         *)

\* mutant: only the first revision heard from a peer is noted
ForwardedOnce(m) ==
    peers' = [peers EXCEPT ![m.to][m.from] = IF @ = NoRev THEN m.rev ELSE @]

Forwarded(m) == peers' = [peers EXCEPT ![m.to][m.from] = m.rev]

\* mutants: any broadcast is followed; one parent of several is enough
FollowsAny(a, r)     == current[a] # NoRev
FollowsOneOf(a, r)   == current[a] # NoRev /\ current[a] \in parents[r]

FollowsOn(a, r) == current[a] # NoRev /\ parents[r] = {current[a]}

Deliver(m) ==
    /\ m \in net
    /\ net' = net \ {m}
    /\ Forwarded(m)
    /\ IF FollowsOn(m.to, m.rev)
       THEN /\ current' = [current EXCEPT ![m.to] = m.rev]
            /\ Emit(m.to, {m.rev})
       ELSE UNCHANGED <<current, emitted>>
    /\ UNCHANGED <<graphVars, own, pc, myRevision, gossipVars, syncState,
                   faults>>

(* handle_broadcast() refused at the flush: its signals are out already.   *)
DeliverRefused(m) ==
    /\ AbortLeaksSignals
    /\ m \in net
    /\ FollowsOn(m.to, m.rev)
    /\ net' = net \ {m}
    /\ Forwarded(m)
    /\ Emit(m.to, {m.rev})
    /\ Fault
    /\ UNCHANGED <<graphVars, own, current, pc, myRevision, gossipVars,
                   syncState>>

(* Remote signals are sent and forgotten.                                  *)
Lose(m) ==
    /\ m \in net
    /\ net' = net \ {m}
    /\ Fault
    /\ UNCHANGED <<zomeVars, adapterVars>>

-----------------------------------------------------------------------------
PullStep(a, p) ==
    \/ PullSkipped(a, p)
    \/ PullFirst(a, p)
    \/ PullNothing(a, p)
    \/ PullFastForward(a, p)
    \/ PullMerge(a, p)
    \/ PullFails(a, p)

Next ==
    \/ \E a \in Agents :
          \/ Commit(a)
          \/ CommitRefused(a)
          \/ Sync(a)
          \/ SyncFails(a)
          \/ \E lost \in SUBSET Heard(peers[a]) : GossipStart(a, lost)
          \/ \E p \in Agents : PullStep(a, p)
          \/ GossipEnd(a)
    \/ \E m \in net : Deliver(m) \/ DeliverRefused(m) \/ Lose(m)

Spec == Init /\ [][Next]_vars

(***************************************************************************)
(* The executor calls sync() of every link language again and again, the   *)
(* event loop runs what is queued on it, and a signal that is not lost     *)
(* arrives.  Nobody has to commit.                                         *)
(***************************************************************************)
Fairness ==
    /\ \A a \in Agents :
          /\ WF_vars(Sync(a))
          /\ WF_vars(\E lost \in SUBSET Heard(peers[a]) : GossipStart(a, lost))
          /\ WF_vars(\E p \in Agents : PullStep(a, p))
          /\ WF_vars(GossipEnd(a))
    /\ \A m \in Broadcast : WF_vars(Deliver(m))

FairSpec == Spec /\ Fairness

-----------------------------------------------------------------------------
(* Nobody loses what he wrote: every revision on an agent's chain is in    *)
(* the history of the agent's current revision, whatever peers, merges and *)
(* broadcasts moved that revision to (commit.rs, pull.rs).                 *)
CommittedKept ==
    \A a \in Agents : own[a] \subseteq Known(a)

(* The executor has seen what its link language claims to be at: every     *)
(* diff in the history of the current revision was either written by the   *)
(* agent itself or handed to its linkCallback (pull.rs).                   *)
EmittedComplete ==
    \A a \in Agents : Known(a) \subseteq own[a] \cup emitted[a]

(* Unless refused calls leak, a diff reaches linkCallback only together    *)
(* with the revision that contains it and is never the agent's own, so     *)
(* what pull() or a broadcast hands over next was never handed over before.*)
EmittedExact ==
    ~AbortLeaksSignals =>
        \A a \in Agents : emitted[a] = Known(a) \ own[a]

(* Unless refused calls leak, no agent follows a broadcast to a revision   *)
(* that the DHT will never return: it could neither commit nor sync again. *)
CurrentFetchable ==
    ~AbortLeaksSignals => \A a \in Agents : ParentsFor(a) \subseteq Stored

(* An agent's current revision only ever moves to one of its descendants,  *)
(* by whatever of commit, pull, merge and broadcast it moves.              *)
MovesForward ==
    [][\A a \in Agents :
          current'[a] # current[a] =>
              current[a] = NoRev \/ current[a] \in past'[current'[a]]]_vars

Converged == \E r \in RevOpt : \A a \in Agents : current[a] = r
AllSynced == \A a \in Agents : syncState[a] = "synced"

(* When commits and faults are over, all agents end up at one revision,    *)
(* through gossip, fast-forwards and the merges of the scribe, and each of *)
(* them is told so by its syncStateChangeCallback.                         *)
EventuallyConverged == <>[](made > 0 => Converged /\ AllSynced)

-----------------------------------------------------------------------------
(* What the proofs need besides: the graph only refers to older revisions, *)
(* histories are closed, and nobody knows a revision that was not made.    *)
GraphOK ==
    \A r \in Made :
        /\ parents[r] \subseteq 1 .. (r - 1)
        /\ past[r] = PastFrom(r, parents[r])
        /\ \A q \in past[r] : q \in 1 .. r /\ past[q] \subseteq past[r]

RefsMade ==
    /\ \A m \in net :
          /\ m.rev \in Made
          /\ ~AbortLeaksSignals => m.rev \in Stored
    /\ \A a \in Agents :
          /\ own[a] \subseteq Made
          /\ current[a] # NoRev => current[a] \in Made
          /\ \A p \in Agents : peers[a][p] \in 0 .. made
          /\ \A p \in todo[a] : revisions[a][p] \in Made

=============================================================================
