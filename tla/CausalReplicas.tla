--------------------------- MODULE CausalReplicas ---------------------------
(***************************************************************************)
(* What the link language of a shared perspective promises the executors   *)
(* of a neighbourhood, whatever protocol it uses: every agent holds a set  *)
(* of diffs that grows by whole histories.  An agent writes a diff on top  *)
(* of what it holds, adopts a history that contains what it holds, or      *)
(* joins a history with what it holds by a diff that changes no links.     *)
(***************************************************************************)
CONSTANTS Agents, Diffs

VARIABLES
    histories,   \* the histories that diffs were created with
    view         \* per agent: the diffs its executor holds

vars == <<histories, view>>

Init ==
    /\ histories = {}
    /\ view = [a \in Agents |-> {}]

Fresh(d) == d \in Diffs /\ \A h \in histories : d \notin h

(* commit(): the diff d on top of everything the agent holds.              *)
Write(a, d) ==
    /\ Fresh(d)
    /\ histories' = histories \cup {view[a] \cup {d}}
    /\ view' = [view EXCEPT ![a] = @ \cup {d}]

(* A fast-forward, of a pull or of a broadcast.                            *)
Adopt(a, h) ==
    /\ h \in histories
    /\ view[a] \subseteq h
    /\ view' = [view EXCEPT ![a] = h]
    /\ UNCHANGED histories

(* merge(): only where neither side contains the other.                    *)
Join(a, h, d) ==
    /\ h \in histories
    /\ ~(h \subseteq view[a])
    /\ ~(view[a] \subseteq h)
    /\ Fresh(d)
    /\ histories' = histories \cup {view[a] \cup h \cup {d}}
    /\ view' = [view EXCEPT ![a] = @ \cup h \cup {d}]

Next ==
    \E a \in Agents :
        \/ \E d \in Diffs : Write(a, d)
        \/ \E h \in histories : Adopt(a, h) \/ \E d \in Diffs : Join(a, h, d)

Spec == Init /\ [][Next]_vars

-----------------------------------------------------------------------------
(* Causal delivery: whoever holds a diff also holds the whole history that *)
(* the diff was written on, so no executor ever sees a link removed or     *)
(* retracted before it saw it added.                                       *)
Causal ==
    \A g \in histories : \A d \in g :
        \E h \in histories :
            /\ d \in h
            /\ \A k \in histories : d \in k => h \subseteq k
            /\ \A a \in Agents : d \in view[a] => h \subseteq view[a]
=============================================================================
