----------------------------- MODULE MCDiffSync -----------------------------
(* DiffSync from the moment after a partition: every agent has committed   *)
(* one revision that nobody else has seen, and the broadcasts were lost.   *)
EXTENDS DiffSync

Forked == Cardinality(Agents)

ForkedInit ==
    /\ made = Forked
    /\ parents = [r \in Rev |-> {}]
    /\ past = [r \in Rev |-> IF r <= Forked THEN {r} ELSE {}]
    /\ own = [a \in Agents |-> {a}]
    /\ current = [a \in Agents |-> a]
    /\ emitted = [a \in Agents |-> {}]
    /\ net = {}
    /\ pc = [a \in Agents |-> "idle"]
    /\ myRevision = [a \in Agents |-> a]
    /\ peers = [a \in Agents |-> NobodyKnown]
    /\ revisions = [a \in Agents |-> NobodyKnown]
    /\ todo = [a \in Agents |-> {}]
    /\ isScribe = [a \in Agents |-> FALSE]
    /\ syncState = [a \in Agents |-> "unknown"]
    /\ faults = 0

\* bounds: signals under way at once; commits after the partition, other than
\* a refused one; after a fault, revisions made and agents in gossip() at once
Narrow ==
    /\ Cardinality(net) <= 2
    /\ \A r \in Stored : r > Forked => Cardinality(parents[r]) = 2
    /\ faults > 0 => /\ made <= Forked + 1
                     /\ Cardinality({a \in Agents : pc[a] # "idle"}) <= 1

ForkedSpec == ForkedInit /\ [][Next]_vars /\ Fairness
=============================================================================
