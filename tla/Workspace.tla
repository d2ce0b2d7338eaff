----------------------------- MODULE Workspace -----------------------------
(***************************************************************************)
(* How pull() of perspective-diff-sync finds out what a peer's revision    *)
(* brings: workspace.rs.  build_diffs() walks the graph of revisions from  *)
(* theirs and from ours at once until it meets a common ancestor, then     *)
(* looks for branches that leave the region above that ancestor, and       *)
(* searches again from each of them; pull() decides on the region found    *)
(* whether to do nothing, to fast-forward or to merge, and which diffs it  *)
(* has not seen.                                                           *)
(*                                                                         *)
(* One step is one branch of one side of the search.  A map or set that    *)
(* the code orders by hash has no order here.                              *)
(***************************************************************************)
EXTENDS Integers, Sequences, SequencesExt, FiniteSets

CONSTANT MaxNodes            \* bound: revisions in the graph, at least 1

Node == 1 .. MaxNodes        \* revisions, in the order of their creation
NULL_NODE == 0               \* where the revisions without parents end
None == MaxNodes + 1         \* no common ancestor yet

Side == {"theirs", "ours"}
OtherSide(s) == IF s = "theirs" THEN "ours" ELSE "theirs"

VARIABLES
    parents,      \* PerspectiveDiffEntryReference.parents of every revision
    theirs, ours, \* what pull() compares: the peer's revision and the current
    pc,           \* "pass", "branch", "sort", "decide", "done" or "error"
    searches,     \* BfsSearch of each side
    side,         \* the side whose branches are looked at
    index,        \* branch_index
    count,        \* branches.len() when the pass over a side began
    ancestor,     \* the common ancestor of this search, or None
    diffs,        \* keys of Workspace.diffs
    backLinks,    \* Workspace.back_links, as pairs of parent and child
    region,       \* keys of sorted_diffs
    outcome       \* what pull() decides, and the unseen diffs

graph  == <<parents, theirs, ours>>
vars   == <<graph, pc, searches, side, index, count, ancestor, diffs,
            backLinks, region, outcome>>

-----------------------------------------------------------------------------
(* The graph, and what a pull should find in it.                           *)

ParentSet(n) == ToSet(parents[n])
ParentsAt(n) == IF n = NULL_NODE THEN {} ELSE ParentSet(n)

(* All revisions that n reaches, itself included, by levels.               *)
Closure(next, n) ==
    LET level[k \in 0 .. MaxNodes + 1] ==
            IF k = 0 THEN {n}
            ELSE level[k - 1] \cup UNION {next[m] : m \in level[k - 1]}
    IN  level[MaxNodes + 1]

Past(n) == Closure([m \in Node |-> ParentSet(m)], n)

(* Graphs that commit() and merge() build, one revision after the other:   *)
(* a revision has no parent, one, or two of which neither contains the     *)
(* other.                                                                  *)
ParentLists(n) ==
    {<<>>} \cup {<<p>> : p \in 1 .. n - 1}
           \cup {<<p, q>> : p, q \in 1 .. n - 1}

MergesForks ==
    \A n \in Node : Len(parents[n]) = 2 =>
        /\ parents[n][1] \notin Past(parents[n][2])
        /\ parents[n][2] \notin Past(parents[n][1])

Graphs ==
    LET upTo[n \in 0 .. MaxNodes] ==
            IF n = 0 THEN {<<>>}
            ELSE {Append(g, l) : g \in upTo[n - 1], l \in ParentLists(n)}
    IN  upTo[MaxNodes]

NewSearch(start) == [found |-> <<>>, branches |-> <<start>>, ended |-> FALSE]

SearchesFrom(t, o) ==
    [s \in Side |-> NewSearch(IF s = "theirs" THEN t ELSE o)]

Init ==
    /\ parents \in Graphs
    /\ MergesForks
    /\ theirs \in Node
    /\ ours \in Node \ {theirs}
    /\ Node = Past(theirs) \cup Past(ours)
    /\ pc = "pass"
    /\ searches = SearchesFrom(theirs, ours)
    /\ side = "theirs"
    /\ index = 1
    /\ count = 0
    /\ ancestor = None
    /\ diffs = {}
    /\ backLinks = {}
    /\ region = {}
    /\ outcome = [does |-> "search", unseen |-> {}]

-----------------------------------------------------------------------------
(* collect_until_common_ancestor().                                        *)

Search  == searches[side]
Other   == searches[OtherSide(side)]
Current == Search.branches[index]

Found(s, n) == \E i \in DOMAIN searches[s].found : searches[s].found[i] = n
OnBranch(s, n) ==
    \E i \in DOMAIN searches[s].branches : searches[s].branches[i] = n

(* The search after n is noted as found, if it is not yet.                 *)
WithFound(search, n) ==
    IF n \in ToSet(search.found) THEN search
    ELSE [search EXCEPT !.found = Append(@, n)]

(* branches.dedup(): of equal neighbours the first is kept.                *)
Dedup(s) ==
    LET kept == {i \in DOMAIN s : i = 1 \/ s[i] # s[i - 1]}
    IN  [k \in 1 .. Cardinality(kept) |->
            s[CHOOSE i \in kept : Cardinality({j \in kept : j <= i}) = k]]

PassBegins ==
    /\ pc = "pass"
    /\ LET branches == Dedup(Search.branches)
       IN  /\ searches' = [searches EXCEPT ![side].branches = branches]
           /\ count' = Len(branches)
    /\ index' = 1
    /\ pc' = "branch"
    /\ UNCHANGED <<graph, side, ancestor, diffs, backLinks, region, outcome>>

(* The loop over the branches of a side is over: the other side's turn,    *)
(* even when a common ancestor was just found.                             *)
PassEnds ==
    /\ pc = "branch"
    /\ index > count
    /\ side' = OtherSide(side)
    /\ pc' = IF side = "ours" /\ ancestor # None THEN "sort" ELSE "pass"
    /\ UNCHANGED <<graph, searches, index, count, ancestor, diffs, backLinks,
                   region, outcome>>

AtBranch == pc = "branch" /\ index <= count

Break ==
    /\ index' = count + 1
    /\ UNCHANGED <<graph, pc, side, count, region, outcome>>

ClosedNotEnded(search, n) ==
    [WithFound(search, n) EXCEPT !.branches = RemoveAt(@, index)]

(* The search after a branch came to an end at n.                          *)
Closed(search, n) ==
    [WithFound(search, n) EXCEPT !.branches = RemoveAt(@, index),
                                 !.ended = TRUE]

(* This side has been here: the branch is closed.                          *)
AlreadyVisited ==
    /\ AtBranch
    /\ Found(side, Current)
    /\ searches' = [searches EXCEPT ![side].branches = RemoveAt(@, index)]
    /\ Break
    /\ UNCHANGED <<ancestor, diffs, backLinks>>

(* The other side has been here, or is about to: a common ancestor.        *)
MetOther == Found(OtherSide(side), Current) \/ OnBranch(OtherSide(side), Current)

SeenOnOtherSide ==
    /\ AtBranch
    /\ ~Found(side, Current)
    /\ MetOther
    /\ searches' = [s \in Side |-> WithFound(searches[s], Current)]
    /\ diffs' = diffs \cup ({Current} \ {NULL_NODE})
    /\ ancestor' = Current
    /\ Break
    /\ UNCHANGED backLinks

(* terminate_with_null_node(): both sides end in revisions without         *)
(* parents, and those become children of the null node.                    *)
Tips(n) == {n, Last(<<NULL_NODE>> \o Other.found)} \ {NULL_NODE}

(* The null node, or a revision without parents: the branch is closed, and *)
(* when the other side came to such an end too, that is the ancestor.      *)
ReachedEnd ==
    /\ AtBranch
    /\ ~Found(side, Current)
    /\ ~MetOther
    /\ ParentsAt(Current) = {}
    /\ LET n    == Current
           here == Closed(Search, n)
       IN  IF ancestor = None /\ Other.ended
           THEN /\ searches' = [s \in Side |->
                      WithFound(IF s = side THEN here ELSE Other, NULL_NODE)]
                /\ ancestor' = NULL_NODE
                /\ diffs' = diffs \cup {n, NULL_NODE}
                /\ backLinks' = backLinks \cup ({NULL_NODE} \X Tips(n))
           ELSE /\ searches' = [searches EXCEPT ![side] = here]
                /\ diffs' = diffs \cup ({n} \ {NULL_NODE})
                /\ UNCHANGED <<ancestor, backLinks>>
    /\ Break

(* The branch goes on with the first parent; the second opens a branch,    *)
(* unless one of the sides knows it.                                       *)
ToParents ==
    /\ AtBranch
    /\ ~Found(side, Current)
    /\ ~MetOther
    /\ ParentsAt(Current) # {}
    /\ LET n      == Current
           found  == Append(Search.found, n)
           moved  == [Search.branches EXCEPT ![index] = parents[n][1]]
           second == {p \in ParentSet(n) : Len(parents[n]) = 2
                                            /\ p = parents[n][2]}
           new    == {p \in second : /\ p \notin ToSet(found)
                                     /\ ~OnBranch(OtherSide(side), p)
                                     /\ ~Found(OtherSide(side), p)}
       IN  /\ searches' = [searches EXCEPT
                 ![side].found = found,
                 ![side].branches = moved \o SetToSeq(new)]
           /\ diffs' = diffs \cup {n}
           /\ backLinks' = backLinks \cup {<<p, n>> : p \in ParentSet(n)}
    /\ index' = index + 1
    /\ UNCHANGED <<graph, pc, side, count, ancestor, region, outcome>>

-----------------------------------------------------------------------------
(* sort_graph() and the loop of build_diffs().                             *)

Children(n) == {l[2] : l \in {k \in backLinks : k[1] = n}}

Above(n) == Closure([m \in Node \cup {NULL_NODE} |-> Children(m)], n)

SiblingsOnly(n) == (UNION {ParentsAt(c) : c \in Children(n)}) \ Above(n)

(* Parents of the revisions above the ancestor that are not above it.      *)
SideBranches(n) ==
    (UNION {ParentsAt(c) : c \in UNION {Children(m) : m \in Above(n)}}) \ Above(n)

(* expect("diffs should be populated") holds.                              *)
Populated == Above(ancestor) \subseteq diffs

(* The region is complete, and pull() can decide, or it is searched again  *)
(* from one of the side branches (the one with the greatest hash).         *)
Sort ==
    /\ pc = "sort"
    /\ region' = Above(ancestor)
    /\ IF SideBranches(ancestor) = {} \/ ~Populated
       THEN /\ pc' = IF Populated THEN "decide" ELSE "error"
            /\ UNCHANGED <<searches, ancestor>>
       ELSE /\ \E branch \in SideBranches(ancestor) :
                  searches' = SearchesFrom(branch, ancestor)
            /\ ancestor' = None
            /\ pc' = "pass"
    /\ side' = "theirs"
    /\ UNCHANGED <<graph, index, count, diffs, backLinks, outcome>>

-----------------------------------------------------------------------------
(* topo_sort_diff_references(), build_graph(), and pull() on the result.   *)

FirstParent(n) == IF n \in {ancestor, NULL_NODE} THEN {}
                  ELSE {parents[n][i] : i \in DOMAIN parents[n] \cap {1}}

(* The ancestor's parents are dropped, all others must be in the region.   *)
RegionParents(n) == IF n = ancestor THEN {} ELSE ParentsAt(n)

RegionClosed == \A n \in region : RegionParents(n) \subseteq region

(* all_ancestors() on the graph of the region.                             *)
AllAncestors(n) == Closure([m \in region |-> RegionParents(m)], n)

(* What pull() does, from the ancestors of theirs and of ours and from the *)
(* revisions of the graph.                                                 *)
Decision(ofTheirs, ofOurs, all) ==
    IF theirs \in ofOurs THEN [does |-> "nothing", unseen |-> {}]
    ELSE [does   |-> IF ours \in ofTheirs THEN "fast-forward" ELSE "merge",
          unseen |-> (all \ {NULL_NODE, ours}) \ ofOurs]

(* Neither the topological sort lacks a parent, nor the graph a revision.  *)
Decidable == RegionClosed /\ {theirs, ours} \subseteq region

Decide ==
    /\ pc = "decide"
    /\ pc' = IF Decidable THEN "done" ELSE "error"
    /\ outcome' =
          IF Decidable
          THEN Decision(AllAncestors(theirs), AllAncestors(ours), region)
          ELSE outcome
    /\ UNCHANGED <<graph, searches, side, index, count, ancestor, diffs,
                   backLinks, region>>

Next ==
    \/ PassBegins \/ PassEnds
    \/ AlreadyVisited \/ SeenOnOtherSide \/ ReachedEnd \/ ToParents
    \/ Sort \/ Decide

(* One call, run to its end.                                               *)
Spec == Init /\ [][Next]_vars /\ WF_vars(Next)

-----------------------------------------------------------------------------
TypeOK ==
    /\ pc \in {"pass", "branch", "sort", "decide", "done", "error"}
    /\ side \in Side
    /\ count \in Nat
    /\ index \in 1 .. count + 1
    /\ \A s \in Side :
          /\ ToSet(searches[s].found) \subseteq Node \cup {NULL_NODE}
          /\ ToSet(searches[s].branches) \subseteq Node \cup {NULL_NODE}
          /\ searches[s].ended \in BOOLEAN
    /\ ancestor \in Node \cup {NULL_NODE, None}
    /\ diffs \cup region \subseteq Node \cup {NULL_NODE}
    /\ \A l \in backLinks : l[1] < l[2] /\ l[2] \in Node

(* branches[branch_index] is never out of bounds, although the loop runs   *)
(* to the number of branches there were when it began and takes closed     *)
(* branches out of the vector as it goes.                                  *)
InBounds == AtBranch => index <= Len(Search.branches)

(* The pull decides as if it had compared the whole histories, and hands   *)
(* over exactly the revisions in theirs that are not in ours, although it  *)
(* only looked at the graph down to a common ancestor.                     *)
DecidesRight ==
    pc = "done" =>
        outcome = Decision(Past(theirs), Past(ours), Past(theirs) \cup Past(ours))

(* No unwrap or expect of the search fails, and no error ends it.          *)
NeverFails == pc # "error"

(* The search comes to an end, whichever side branch it takes first.       *)
Terminates == <>(pc = "done")
=============================================================================
