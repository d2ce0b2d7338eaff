------------------------------ MODULE Snapshots ------------------------------
(***************************************************************************)
(* Snapshots of the revision graph of perspective-diff-sync.               *)
(*                                                                         *)
(* commit() counts the revisions since the last snapshot and, every        *)
(* SNAPSHOT_INTERVAL, attaches all changes of the history to its revision, *)
(* in chunks (snapshots.rs, chunked_diffs.rs).  Who needs a whole history, *)
(* in the first pull() of a new agent or in render(), collects revisions   *)
(* down to the snapshots only (collect_only_from_latest()).                *)
(*                                                                         *)
(* The links that lead to snapshots come from the DHT, which may not have  *)
(* all of them yet: `found` is the set of those it returns.                *)
(***************************************************************************)
EXTENDS Naturals, Sequences, SequencesExt, FiniteSets

CONSTANTS
    MaxRevs,             \* bound: revisions in the graph
    SNAPSHOT_INTERVAL,   \* revisions from one snapshot to the next
    CHUNK_SIZE           \* changes in a chunk

ASSUME ConstantsAssumption ==
    MaxRevs \in Nat /\ SNAPSHOT_INTERVAL \in Nat /\ CHUNK_SIZE \in Nat \ {0}

VARIABLES
    refs,        \* PerspectiveDiffEntryReferences, in the order of creation
    snapshots    \* of the revisions that have one: its chunks and what it includes

vars == <<refs, snapshots>>

Revs   == DOMAIN refs
Link   == 1 .. MaxRevs           \* a link has the number of who added it
Change == {"add", "remove"} \X Link

TypeOK ==
    /\ refs \in Seq([parents : Seq(Revs), changes : SUBSET Change, since : Nat])
    /\ DOMAIN snapshots = {r \in Revs : refs[r].since = 0}
    /\ \A r \in DOMAIN snapshots :
          /\ snapshots[r].included \subseteq Revs
          /\ \A k \in DOMAIN snapshots[r].chunks :
                /\ snapshots[r].chunks[k] \subseteq Change
                /\ Cardinality(snapshots[r].chunks[k]) <= CHUNK_SIZE

Init == refs = <<>> /\ snapshots = <<>>

(* A revision with all its ancestors, and what they change.                *)
Past(r) ==
    LET past[q \in 1 .. r] == {q} \cup UNION {past[p] : p \in ToSet(refs[q].parents)}
    IN  past[r]

Changes(rs) == UNION {refs[r].changes : r \in rs}

LinksAt(r) ==
    {l \in Link : <<"add", l>> \in Changes(Past(r))
                    /\ <<"remove", l>> \notin Changes(Past(r))}

-----------------------------------------------------------------------------
(* generate_snapshot(): w is where the search is, whether it came there as *)
(* an unseen parent, which of those are left, and what it has collected.   *)

Over == 0

Onwards(w) ==
    IF w.unseen = <<>> THEN [w EXCEPT !.at = Over]
    ELSE [w EXCEPT !.at = Head(w.unseen), !.isUnseen = TRUE, !.unseen = Tail(@)]

HandleParents(g, w) ==
    LET ref   == g[w.at]
        taken == [w EXCEPT !.seen = @ \cup {w.at}, !.changes = @ \cup ref.changes]
    IN  IF \/ w.at \in w.seen /\ w.isUnseen
           \/ ToSet(ref.parents) \subseteq taken.seen
        THEN Onwards(taken)
        ELSE [taken EXCEPT !.at       = Head(ref.parents),
                           !.isUnseen = FALSE,
                           !.unseen   = @ \o Tail(ref.parents)]

Included(w) ==
    [w EXCEPT !.seen    = @ \cup snapshots[w.at].included,
              !.changes = @ \cup UNION Range(snapshots[w.at].chunks)]

\* mutant: a snapshot ends the search, whatever parents are left
TakeSnapshotAndStop(w) == [Included(w) EXCEPT !.at = Over]

TakeSnapshot(w) == Onwards(Included(w))

Walks(g) == [at : DOMAIN g \cup {Over}, isUnseen : BOOLEAN, unseen : Seq(DOMAIN g),
             seen : SUBSET DOMAIN g, changes : SUBSET Change]

Search(g, latest, found, start) ==
    LET search[w \in Walks(g)] ==
            IF w.at = Over THEN w
            ELSE search[IF w.at \in found /\ w.at # latest
                        THEN TakeSnapshot(w)
                        ELSE HandleParents(g, w)]
    IN  search[start]

\* mutant: a chunk takes one change more than it should
ChunkTooFull(i) == (i - 1) \div (CHUNK_SIZE + 1) + 1

(* add_additions(), then add_removals(): one chunk is filled after another.*)
ChunkOf(i) == (i - 1) \div CHUNK_SIZE + 1

Chunked(changes) ==
    LET Of(kind) == SetToSeq({c \in changes : c[1] = kind})
        all      == Of("add") \o Of("remove")
    IN  [k \in 1 .. ChunkOf(Len(all)) |->
            {all[i] : i \in {j \in DOMAIN all : ChunkOf(j) = k}}]

GenerateSnapshot(g, latest, found) ==
    LET w == Search(g, latest, found,
                    [at |-> latest, isUnseen |-> FALSE, unseen |-> <<>>,
                     seen |-> {}, changes |-> {}])
    IN  [chunks |-> Chunked(w.changes), included |-> w.seen]

-----------------------------------------------------------------------------
(* The graph grows: any revision may be the current one of some agent.     *)

New == Len(refs) + 1

(* commit() on the revision tip, or without one: it adds a link, removes   *)
(* one that is there, or replaces one.                                     *)
Commit(tip, changes) ==
    LET since   == (IF tip = 0 THEN 0 ELSE refs[tip].since) + 1
        create  == since >= SNAPSHOT_INTERVAL
        ref     == [parents |-> IF tip = 0 THEN <<>> ELSE <<tip>>,
                    changes |-> changes,
                    since   |-> IF create THEN 0 ELSE since]
    IN  /\ New <= MaxRevs
        /\ refs' = Append(refs, ref)
        /\ IF create
           THEN \E found \in SUBSET DOMAIN snapshots :
                   snapshots' =
                      [r \in DOMAIN snapshots \cup {New} |->
                          IF r = New THEN GenerateSnapshot(refs', New, found)
                          ELSE snapshots[r]]
           ELSE UNCHANGED snapshots

ChangesOn(tip) ==
    LET removals == {<<"remove", l>> : l \in IF tip = 0 THEN {} ELSE LinksAt(tip)}
    IN  {{<<"add", New>>}} \cup {{c} : c \in removals}
            \cup {{<<"add", New>>, c} : c \in removals}

SinceMerged(theirs, ours) == refs[theirs].since + refs[ours].since + 1

(* merge(), which never makes a snapshot.                                  *)
Merge(theirs, ours) ==
    /\ New <= MaxRevs
    /\ theirs \notin Past(ours) /\ ours \notin Past(theirs)
    /\ refs' = Append(refs, [parents |-> <<theirs, ours>>,
                             changes |-> {},
                             since   |-> SinceMerged(theirs, ours)])
    /\ UNCHANGED snapshots

Next ==
    \/ \E tip \in 0 .. Len(refs) : \E changes \in ChangesOn(tip) : Commit(tip, changes)
    \/ \E theirs, ours \in Revs : Merge(theirs, ours)

Spec == Init /\ [][Next]_vars

-----------------------------------------------------------------------------
(* collect_only_from_latest(): the branches to look at, the keys of        *)
(* entry_map (of chunk k of the snapshot of r, or of r itself if k = 0),   *)
(* and what the snapshots on the way include.                              *)

Chunks(r) == {<<r, k>> : k \in DOMAIN snapshots[r].chunks}

CloseBranch(c) == [c EXCEPT !.branches = Tail(@)]

\* mutant: a snapshot closes all branches
SnapshotClosesAll(c, r) ==
    [branches |-> <<>>,
     entries  |-> c.entries \cup Chunks(r) \cup {<<r, 0>>},
     included |-> c.included \cup snapshots[r].included]

FromSnapshot(c, r) ==
    [branches |-> Tail(c.branches),
     entries  |-> c.entries \cup Chunks(r) \cup {<<r, 0>>},
     included |-> c.included \cup snapshots[r].included]

ToParents(c, r) ==
    LET ps == refs[r].parents
    IN  [c EXCEPT !.entries = @ \cup {<<r, 0>>},
                  !.branches =
                      IF ps = <<>> THEN Tail(@)
                      ELSE <<Head(ps)>> \o Tail(@) \o Tail(ps)]

Keys        == {<<r, 0>> : r \in Revs} \cup UNION {Chunks(r) : r \in DOMAIN snapshots}
Collections == [branches : Seq(Revs), entries : SUBSET Keys, included : SUBSET Revs]

Collected(latest, found) ==
    LET collect[c \in Collections] ==
            IF c.branches = <<>> THEN c.entries
            ELSE LET r == Head(c.branches)
                 IN  collect[IF <<r, 0>> \in c.entries /\ r \notin c.included
                             THEN CloseBranch(c)
                             ELSE IF r \in found THEN FromSnapshot(c, r)
                             ELSE ToParents(c, r)]
    IN  collect[[branches |-> <<latest>>, entries |-> {}, included |-> {}]]

ChangesAt(key) ==
    IF key[2] = 0 THEN refs[key[1]].changes ELSE snapshots[key[1]].chunks[key[2]]

(* squashed_diff(), the diff that the first pull() of an agent hands over. *)
SquashedDiff(latest, found) ==
    UNION {ChangesAt(key) : key \in Collected(latest, found)}

(* render(): the diffs one after the other, in the order of their hashes.  *)
LinksOf(key, kind) == {l \in Link : <<kind, l>> \in ChangesAt(key)}

ApplyDiff(links, key) ==
    SelectSeq(links \o SetToSeq(LinksOf(key, "add")),
              LAMBDA l : l \notin LinksOf(key, "remove"))

Render(order) == FoldLeft(ApplyDiff, <<>>, order)

-----------------------------------------------------------------------------
(* A snapshot stands for exactly the history of its revision, whichever    *)
(* branches join below or beside it and whichever older snapshots were     *)
(* found when it was made.                                                 *)
SnapshotCovers ==
    \A r \in DOMAIN snapshots :
        /\ snapshots[r].included = Past(r)
        /\ UNION Range(snapshots[r].chunks) = Changes(Past(r))

ReadBeforeSnapshots(r) ==
    LET open[q \in 1 .. r] ==
            IF q \in DOMAIN snapshots THEN {}
            ELSE {q} \cup UNION {open[p] : p \in ToSet(refs[q].parents)}
    IN  open[r]

(* Whoever starts from a revision gets the changes of its whole history    *)
(* and no others, whichever snapshots the DHT returns; and if it returns   *)
(* all, diffs_since_snapshot bounds what has to be read before them,       *)
(* merges of long branches included: the next commit on too long a history *)
(* makes a snapshot.                                                       *)
HistoryCollected ==
    \A r \in Revs :
        /\ \A found \in SUBSET DOMAIN snapshots : SquashedDiff(r, found) = Changes(Past(r))
        /\ Cardinality(ReadBeforeSnapshots(r)) <= refs[r].since

(* A rendered perspective has every link once: two commits of a link each, *)
(* with a snapshot at every second revision, make two links.               *)
RenderedOnce ==
    \A r \in Revs :
        \A order \in SetToSeqs(Collected(r, DOMAIN snapshots)) :
            IsInjective(Render(order))
=============================================================================
