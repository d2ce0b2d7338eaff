----------------------------- MODULE MCExecutor -----------------------------
(***************************************************************************)
(* What clients ask of the executor besides links and languages: its       *)
(* models (AIModels), its agent (Agent) and the handles of its             *)
(* perspectives (Registry), for one check of all.  They share no state;    *)
(* `service' says which of them is asked.                                  *)
(*                                                                         *)
(* AIModels begins with few of the databases that a process may find: a    *)
(* first model with a definition, which is the default one, perhaps a      *)
(* second one, tasks of the first or of the default model, and the status  *)
(* that a process leaves when it is stopped while its models run.          *)
(* Registry begins with one private perspective or none.                   *)
(***************************************************************************)
EXTENDS AIModels, TLC

CONSTANTS
    Kept,        \* the model that is there from the start
    Second,      \* what may be there of the others
    Clients, Passphrases, NoAgent, Failures, Restarts,
    Requests, Foreign, NoUrl, MaxPerspectives, MaxReboots

VARIABLES
    service,
    file, profileFile, cipher, keys, agent, published, holochain, language, zome,
    call, at, given, held, told, raced, missed, failures, restarts,
    used, perspectives, persisted, running, handles, neighbourhoods, asked, step, uuid, url,
    copy, meant, crossed, joinedTwice, reboots

(* URLs of neighbourhoods differ, and there is room for one perspective.   *)
ASSUME UrlsDiffer == Foreign \notin Requests /\ NoUrl \notin Requests \cup {Foreign}
ASSUME BoundsOfPerspectives == MaxPerspectives \in Nat \ {0} /\ MaxReboots \in Nat

ASSUME BoundsOfAgent == Failures \in Nat /\ Restarts \in Nat

A == INSTANCE Agent
R == INSTANCE Registry

ASSUME NoAgentIsNone == NoAgent \notin Passphrases \cup A!Profile

agentVars == <<file, profileFile, cipher, keys, agent, published, holochain, language,
               zome, call, at, given, held, told, raced, missed, failures, restarts>>
registryVars == <<used, perspectives, persisted, running, handles, neighbourhoods, asked,
                  step, uuid, url, copy, meant, crossed, joinedTwice, reboots>>
allVars == <<service, vars, agentVars, registryVars>>

ModelsInit ==
    /\ Init
    /\ models[Kept] = "whole" /\ default = Kept
    /\ \A m \in Models \ {Kept} : models[m] \in Second
    /\ \A m \in Models : loaded[m] <=> models[m] = "whole"
    /\ \A t \in Tasks : tasks[t].on \in {Kept, Default}

(* No model is there, and none is asked for.                               *)
NoModels ==
    /\ Init
    /\ models = [m \in Models |-> "none"]
    /\ \A t \in Tasks : tasks[t].on = "none"

ExecutorInit ==
    /\ A!Init /\ R!Init
    /\ service \in {"models", "agent", "registry"}
    /\ IF service = "models" THEN ModelsInit ELSE NoModels
    /\ used \in (IF service = "registry" THEN {0, 1} ELSE {0})

AskedModels(act) == service = "models" /\ act /\ UNCHANGED <<service, agentVars, registryVars>>

AskModels == AskedModels(Next)
AskAgent == service = "agent" /\ A!Next /\ UNCHANGED <<service, vars, registryVars>>
AskRegistry == service = "registry" /\ R!Next /\ UNCHANGED <<service, vars, agentVars>>

ExecutorNext == AskModels \/ AskAgent \/ AskRegistry

(* Fairness of AIModels, where they are asked.                             *)
ExecutorFairness ==
    /\ \A c \in Callers : WF_allVars(AskedModels(CallStep(c)))
    /\ WF_allVars(AskedModels(LoadStep))
    /\ \A i \in AllThreads : WF_allVars(AskedModels(i \in DOMAIN threads /\ ThreadStep(i)))

ExecutorSpec == ExecutorInit /\ [][ExecutorNext]_allVars /\ ExecutorFairness

-----------------------------------------------------------------------------
(* The types of all.                                                       *)
TypesOK == TypeOK /\ A!TypeOK /\ R!TypeOK

(* The agent's profile is what the calls have made of it.                  *)
UpdatesKept == A!UpdatesKept

(* The agent is published as it is.                                        *)
ProfilePublished == A!ProfilePublished

(* A perspective's handle is the same in memory and in the database, and   *)
(* is what the calls have made of it; a neighbourhood has one perspective. *)
HandlesKept == R!HandlesKept /\ R!JoinedOnce

(* Calls to the models end, and so do threads that are left alone.         *)
ModelsEventuallyOver == service = "models" => EventuallyOver
=============================================================================
