--------------------------- MODULE DiffSyncReplicas ---------------------------
(***************************************************************************)
(* perspective-diff-sync implements CausalReplicas, unless refused calls   *)
(* leak: what an executor holds is what its agent wrote and what its link  *)
(* language handed over, and a history is a revision with its ancestors.   *)
(***************************************************************************)
EXTENDS DiffSync

Replicas == INSTANCE CausalReplicas WITH
                Diffs     <- Rev,
                histories <- {past[r] : r \in Made},
                view      <- [a \in Agents |-> own[a] \cup emitted[a]]

(* Every step of the zomes and adapters gives executors only what some     *)
(* step of CausalReplicas would: commit() writes, pull() and               *)
(* handle_broadcast() adopt or join whole histories.                       *)
ImplementsReplicas == Replicas!Spec

(* An executor that was handed a diff has been handed everything the diff  *)
(* was committed on, although broadcasts carry single diffs and pulls may  *)
(* skip, fail or be overtaken by broadcasts.                               *)
CausalDelivery == Replicas!Causal
=============================================================================
