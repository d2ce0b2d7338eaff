------------------------------- MODULE MCPull -------------------------------
(***************************************************************************)
(* The two ways of pull() in perspective-diff-sync, for one check of both. *)
(* An agent without a revision takes the history of the other's revision,  *)
(* from the snapshots on (Snapshots, in whose graph any revision may be    *)
(* that one); an agent with a revision compares it with the other's        *)
(* (Workspace).                                                            *)
(***************************************************************************)
EXTENDS Snapshots

CONSTANT MaxNodes

ASSUME NodesAssumption == MaxNodes \in Nat \ {0}

VARIABLES
    first,       \* is the agent without a revision?
    parents, theirs, ours, pc, searches, side, index, count, ancestor, diffs,
    backLinks, region, outcome

searchVars == <<parents, theirs, ours, pc, searches, side, index, count, ancestor, diffs,
                backLinks, region, outcome>>

W == INSTANCE Workspace

NoSearch ==
    /\ parents = <<>> /\ theirs = 0 /\ ours = 0 /\ pc = "done"
    /\ searches = <<>> /\ side = "theirs" /\ index = 1 /\ count = 0
    /\ ancestor = 0 /\ diffs = {} /\ backLinks = {} /\ region = {}
    /\ outcome = [does |-> "nothing", unseen |-> {}]

PullInit ==
    /\ first \in BOOLEAN /\ Init
    /\ \/ first /\ NoSearch
       \/ ~first /\ W!Init

GrowsHistory == first /\ Next /\ UNCHANGED <<first, searchVars>>
Searches     == ~first /\ W!Next /\ UNCHANGED <<first, vars>>

PullNext == GrowsHistory \/ Searches

PullSpec ==
    /\ PullInit
    /\ [][PullNext]_<<first, searchVars, vars>>
    /\ WF_<<first, searchVars, vars>>(Searches)

-----------------------------------------------------------------------------
(* The types of the snapshots and of the search.                           *)
TypesOK == TypeOK /\ (~first => W!TypeOK)

(* The pull decides as if it had compared the whole histories, and hands   *)
(* over exactly the revisions in theirs that are not in ours, although it  *)
(* only looked at the graph down to a common ancestor.                     *)
DecidesRight == ~first => W!DecidesRight

(* No unwrap or expect of the search fails, and no error ends it; and      *)
(* branches[branch_index] is never out of bounds, although the loop runs   *)
(* to the number of branches there were when it began and takes closed     *)
(* branches out of the vector as it goes.                                  *)
NeverFails == ~first => W!NeverFails /\ W!InBounds

(* The search comes to an end, whichever side branch it takes first.       *)
Terminates == W!Terminates
=============================================================================
