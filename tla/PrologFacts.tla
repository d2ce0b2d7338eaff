----------------------------- MODULE PrologFacts -----------------------------
(***************************************************************************)
(* The Prolog engine of a perspective: perspective_instance.rs.            *)
(*                                                                         *)
(* The engine holds a fact for every link of the perspective.  It is built *)
(* from the links in the database by whoever needs it first, and again     *)
(* after a query failed.  Every mutation of links, of a client or from the *)
(* link language, spawns a task: it asserts the facts of what is added, or *)
(* loads all facts anew when something is removed or SDNA is added.        *)
(* Queries and tasks share three locks of tokio, all fair: the flag        *)
(* prolog_needs_rebuild, prolog_update_mutex, and prolog_engine.           *)
(*                                                                         *)
(* A call is a query of a client, or the task of a mutation; what a call   *)
(* adds has the number of the call.                                        *)
(***************************************************************************)
EXTENDS Naturals, Sequences

CONSTANTS
    MaxCalls,        \* bound: queries and mutations
    MaxErrors,       \* bound: queries that fail in the engine
    MaxBuildErrors   \* bound: engines that cannot be made, and failing loads

ASSUME BoundsAssumption ==
    MaxCalls \in Nat /\ MaxErrors \in Nat /\ MaxBuildErrors \in Nat

Calls == 1 .. MaxCalls
Kinds == {"query", "addition", "assertion", "removal", "change"}

VARIABLES
    links,         \* links in the database, each with the call that added it
    engine,        \* prolog_engine: "none", "live", or "dead" once dropped
    facts,         \* links that the live engine has facts of
    unloaded,      \* links whose own load failed, until all are loaded again
    needsRebuild,  \* *prolog_needs_rebuild
    kind,          \* per call: what it is doing
    pc,            \* per call: how far it is
    has,           \* per call: has_prolog_engine of its ensure_prolog_engine()
    read,          \* per call: the links it has read from the database
    engineLock,    \* prolog_engine: its holder, then those waiting
    flagLock,      \* prolog_needs_rebuild: its holder, then those waiting
    updateLock,    \* prolog_update_mutex: its holders, then those waiting
    errors, buildErrors

locks == <<engineLock, flagLock, updateLock>>
state == <<engine, facts, unloaded, needsRebuild>>
vars  == <<links, state, kind, pc, has, read, locks, errors, buildErrors>>

Added == {c \in Calls : kind[c] \in {"addition", "assertion", "change"}}

\* everything but the queue of prolog_update_mutex
StateOK ==
    /\ links \subseteq Added /\ facts \subseteq Added /\ unloaded \subseteq Added
    /\ engine \in {"none", "live", "dead"}
    /\ needsRebuild \in BOOLEAN
    /\ kind \in [Calls -> Kinds]
    /\ pc \in [Calls -> {"none", "start", "looking", "looked", "flag", "write",
                         "engine", "building", "ready", "read", "run",
                         "failing", "update", "loading", "done"}]
    /\ has \in [Calls -> BOOLEAN]
    /\ read \in [Calls -> SUBSET Added]
    /\ engineLock \in Seq(Calls)
    /\ flagLock \in Seq(Calls)
    /\ errors \in 0 .. MaxErrors
    /\ buildErrors \in 0 .. MaxBuildErrors

TypeOK == StateOK /\ updateLock \in Seq([call : Calls, writes : BOOLEAN])

Init ==
    /\ links = {}
    /\ engine = "none"
    /\ facts = {}
    /\ unloaded = {}
    /\ needsRebuild = TRUE
    /\ kind = [c \in Calls |-> "query"]
    /\ pc = [c \in Calls |-> "none"]
    /\ has = [c \in Calls |-> FALSE]
    /\ read = [c \in Calls |-> {}]
    /\ engineLock = <<>>
    /\ flagLock = <<>>
    /\ updateLock = <<>>
    /\ errors = 0
    /\ buildErrors = 0

-----------------------------------------------------------------------------
(* The locks.  A reader of the RwLock has it when nobody before it waits   *)
(* to write, a writer when nobody is before it.                            *)
HasEngine(c) == engineLock # <<>> /\ Head(engineLock) = c
HasFlag(c)   == flagLock # <<>> /\ Head(flagLock) = c
HasUpdate(c) ==
    \E i \in DOMAIN updateLock :
        /\ updateLock[i].call = c
        /\ i = 1 \/ \A j \in 1 .. i : ~updateLock[j].writes

WaitEngine(c)    == engineLock' = Append(engineLock, c)
WaitFlag(c)      == flagLock' = Append(flagLock, c)
WaitUpdate(c, w) ==
    updateLock' = Append(updateLock, [call |-> c, writes |-> w])

ReleaseEngine == engineLock' = Tail(engineLock)
ReleaseFlag   == flagLock' = Tail(flagLock)
ReleaseUpdate(c) ==
    \E i \in DOMAIN updateLock :
        /\ updateLock[i].call = c
        /\ updateLock' = SubSeq(updateLock, 1, i - 1)
                            \o SubSeq(updateLock, i + 1, Len(updateLock))

Goes(c, to) == pc' = [pc EXCEPT ![c] = to]
At(c, at)   == pc[c] = at

LocalOnly == UNCHANGED <<links, state, kind, read, errors, buildErrors>>

-----------------------------------------------------------------------------
(* Calls come in.  A mutation changes the database, then spawns its task.  *)

NewCall(c) ==
    /\ At(c, "none")
    /\ \A d \in 1 .. c - 1 : pc[d] # "none"
    /\ Goes(c, "start")
    /\ UNCHANGED <<state, has, read, locks, errors, buildErrors>>

Query(c) == NewCall(c) /\ UNCHANGED <<links, kind>>

(* Additions without SDNA: their facts will be asserted.                   *)
AddLink(c) ==
    /\ NewCall(c)
    /\ links' = links \cup {c}
    /\ kind' = [kind EXCEPT ![c] = "addition"]

RemoveLink(c) ==
    /\ NewCall(c)
    /\ \E l \in links : links' = links \ {l}
    /\ kind' = [kind EXCEPT ![c] = "removal"]

(* Additions with SDNA among them, or with removals: link_mutations(),     *)
(* update_link(), a diff of the link language.  All facts will be loaded.  *)
ChangeLinks(c) ==
    /\ NewCall(c)
    /\ \E gone \in {{}} \cup {{l} : l \in links} : links' = (links \ gone) \cup {c}
    /\ kind' = [kind EXCEPT ![c] = "change"]

-----------------------------------------------------------------------------
(* ensure_prolog_engine().                                                 *)

AskEngine(c) ==
    /\ At(c, "start")
    /\ WaitEngine(c)
    /\ Goes(c, "looking")
    /\ LocalOnly
    /\ UNCHANGED <<has, flagLock, updateLock>>

\* mutant: the guard of the look is kept while the flag is awaited
LookKeepsLock(c) ==
    /\ At(c, "looking")
    /\ HasEngine(c)
    /\ has' = [has EXCEPT ![c] = engine # "none"]
    /\ Goes(c, "looked")
    /\ LocalOnly
    /\ UNCHANGED locks

Look(c) ==
    /\ At(c, "looking")
    /\ HasEngine(c)
    /\ has' = [has EXCEPT ![c] = engine # "none"]
    /\ ReleaseEngine
    /\ Goes(c, "looked")
    /\ LocalOnly
    /\ UNCHANGED <<flagLock, updateLock>>

AskFlag(c) ==
    /\ At(c, "looked")
    /\ WaitFlag(c)
    /\ Goes(c, "flag")
    /\ LocalOnly
    /\ UNCHANGED <<has, engineLock, updateLock>>

EngineFine(c) ==
    /\ At(c, "flag")
    /\ HasFlag(c)
    /\ has[c] /\ ~needsRebuild
    /\ has' = [has EXCEPT ![c] = FALSE]
    /\ ReleaseFlag
    /\ Goes(c, "ready")
    /\ LocalOnly
    /\ UNCHANGED <<engineLock, updateLock>>

(* It keeps the flag and waits to write, then for the engine.              *)
MustBuild(c) ==
    /\ At(c, "flag")
    /\ HasFlag(c)
    /\ ~has[c] \/ needsRebuild
    /\ has' = [has EXCEPT ![c] = FALSE]
    /\ WaitUpdate(c, TRUE)
    /\ Goes(c, "write")
    /\ LocalOnly
    /\ UNCHANGED <<engineLock, flagLock>>

MayWrite(c) ==
    /\ At(c, "write")
    /\ HasUpdate(c)
    /\ WaitEngine(c)
    /\ Goes(c, "engine")
    /\ LocalOnly
    /\ UNCHANGED <<has, flagLock, updateLock>>

(* The old engine is dropped and the flag cleared only if both are there;  *)
(* the new one is made from the links in the database.                     *)
BuildBegins(c) ==
    /\ At(c, "engine")
    /\ HasEngine(c)
    /\ IF needsRebuild /\ engine # "none"
       THEN engine' = "dead" /\ facts' = {} /\ needsRebuild' = FALSE /\ UNCHANGED unloaded
       ELSE UNCHANGED state
    /\ read' = [read EXCEPT ![c] = links]
    /\ Goes(c, "building")
    /\ UNCHANGED <<links, kind, has, locks, errors, buildErrors>>

LoadsAll(c) == facts' = read[c] /\ unloaded' = unloaded \ read[c]

ReleaseAll(c) == ReleaseEngine /\ ReleaseFlag /\ ReleaseUpdate(c)

BuildEnds(c) ==
    /\ At(c, "building")
    /\ engine' = "live"
    /\ LoadsAll(c)
    /\ read' = [read EXCEPT ![c] = {}]
    /\ ReleaseAll(c)
    /\ Goes(c, "ready")
    /\ UNCHANGED <<links, needsRebuild, kind, has, errors, buildErrors>>

(* spawn() or init_engine_facts() fails: a query returns the error, while  *)
(* the task of a mutation logs it and goes on.                             *)
BuildFails(c) ==
    /\ At(c, "building")
    /\ buildErrors < MaxBuildErrors
    /\ buildErrors' = buildErrors + 1
    /\ read' = [read EXCEPT ![c] = {}]
    /\ ReleaseAll(c)
    /\ Goes(c, IF kind[c] \in {"query", "assertion"} THEN "done" ELSE "ready")
    /\ UNCHANGED <<links, state, kind, has, errors>>

-----------------------------------------------------------------------------
(* prolog_query(), and the assertion of an addition, which is a query.     *)

AssertFacts(c) ==
    /\ At(c, "ready")
    /\ kind[c] = "addition"
    /\ kind' = [kind EXCEPT ![c] = "assertion"]
    /\ Goes(c, "start")
    /\ UNCHANGED <<links, state, has, read, locks, errors, buildErrors>>

AskRead(c) ==
    /\ At(c, "ready")
    /\ kind[c] \in {"query", "assertion"}
    /\ WaitUpdate(c, FALSE)
    /\ Goes(c, "read")
    /\ LocalOnly
    /\ UNCHANGED <<has, engineLock, flagLock>>

MayRead(c) ==
    /\ At(c, "read")
    /\ HasUpdate(c)
    /\ WaitEngine(c)
    /\ Goes(c, "run")
    /\ LocalOnly
    /\ UNCHANGED <<has, flagLock, updateLock>>

AtEngine(c) == At(c, "run") /\ HasEngine(c)

QueryOver(c) ==
    /\ ReleaseEngine
    /\ ReleaseUpdate(c)
    /\ Goes(c, "done")

\* mutant: a query leaves something behind
QueryAsserts(c) == facts' = facts \cup {c}

Asserts(c) == facts' = IF kind[c] = "assertion" THEN facts \cup {c} ELSE facts

Answer(c) ==
    /\ AtEngine(c)
    /\ engine = "live"
    /\ Asserts(c)
    /\ QueryOver(c)
    /\ UNCHANGED <<links, engine, unloaded, needsRebuild, kind, has, read, flagLock,
                   errors, buildErrors>>

(* The engine is gone, or was never built and the expect() of the call     *)
(* panics: the call ends with an error, the flag stays as it is.           *)
NoAnswer(c) ==
    /\ AtEngine(c)
    /\ engine # "live"
    /\ QueryOver(c)
    /\ LocalOnly
    /\ UNCHANGED <<has, flagLock>>

(* The query fails in the engine: with its locks held, it asks for the     *)
(* flag to be set.                                                         *)
QueryFails(c) ==
    /\ AtEngine(c)
    /\ engine = "live"
    /\ errors < MaxErrors
    /\ errors' = errors + 1
    /\ WaitFlag(c)
    /\ Goes(c, "failing")
    /\ UNCHANGED <<links, state, kind, has, read, engineLock, updateLock,
                   buildErrors>>

\* mutant: the error is returned, and the flag is not set
ErrorReturned(c) ==
    /\ At(c, "failing")
    /\ HasFlag(c)
    /\ ReleaseFlag
    /\ QueryOver(c)
    /\ LocalOnly
    /\ UNCHANGED has

SetFlag(c) ==
    /\ At(c, "failing")
    /\ HasFlag(c)
    /\ needsRebuild' = TRUE
    /\ ReleaseFlag
    /\ QueryOver(c)
    /\ UNCHANGED <<links, engine, facts, unloaded, kind, has, read, errors, buildErrors>>

-----------------------------------------------------------------------------
(* update_prolog_engine_facts(), without prolog_update_mutex.              *)

AskUpdate(c) ==
    /\ At(c, "ready")
    /\ kind[c] \in {"removal", "change"}
    /\ WaitEngine(c)
    /\ Goes(c, "update")
    /\ LocalOnly
    /\ UNCHANGED <<has, flagLock, updateLock>>

ReadLinks(c) ==
    /\ At(c, "update")
    /\ HasEngine(c)
    /\ read' = [read EXCEPT ![c] = links]
    /\ Goes(c, "loading")
    /\ UNCHANGED <<links, state, kind, has, locks, errors, buildErrors>>

(* The links cannot be read or loaded: it is logged, the flag stays.       *)
LoadFails(c) ==
    /\ buildErrors < MaxBuildErrors
    /\ buildErrors' = buildErrors + 1
    /\ unloaded' = unloaded \cup (({c} \cap links) \ facts)
    /\ UNCHANGED facts

(* Into an engine that is not live nothing is loaded.                      *)
Load(c) ==
    /\ At(c, "loading")
    /\ \/ engine = "live" /\ LoadsAll(c) /\ UNCHANGED buildErrors
       \/ engine # "live" /\ UNCHANGED <<facts, unloaded, buildErrors>>
       \/ LoadFails(c)
    /\ read' = [read EXCEPT ![c] = {}]
    /\ ReleaseEngine
    /\ Goes(c, "done")
    /\ UNCHANGED <<links, engine, needsRebuild, kind, has, flagLock,
                   updateLock, errors>>

-----------------------------------------------------------------------------
CallStep(c) ==
    \/ AskEngine(c) \/ Look(c) \/ AskFlag(c) \/ EngineFine(c) \/ MustBuild(c)
    \/ MayWrite(c) \/ BuildBegins(c) \/ BuildEnds(c) \/ BuildFails(c)
    \/ AssertFacts(c) \/ AskRead(c) \/ MayRead(c) \/ Answer(c) \/ NoAnswer(c)
    \/ QueryFails(c) \/ SetFlag(c)
    \/ AskUpdate(c) \/ ReadLinks(c) \/ Load(c)

Next ==
    \E c \in Calls : Query(c) \/ AddLink(c) \/ RemoveLink(c) \/ ChangeLinks(c) \/ CallStep(c)

Spec == Init /\ [][Next]_vars

(* tokio runs every task that can run; engine calls return.                *)
FairSpec == Spec /\ \A c \in Calls : WF_vars(CallStep(c))

-----------------------------------------------------------------------------
(* No link is missing: once the task of a mutation is over, an engine that *)
(* is in use and not to be rebuilt has the facts of what it added, however *)
(* the assertion or the load fell between the reads, builds and loads of   *)
(* others.  Excepted is what was added by a mutation whose own load failed,*)
(* as long as no other build or load has succeeded: spawn_prolog_facts_    *)
(* update() only logs that failure and does not ask for a rebuild.         *)
FactsComplete ==
    engine = "live" /\ ~needsRebuild =>
        \A l \in links : pc[l] = "done" => l \in facts \cup unloaded

(* Without failing queries every call that has come is over in the end:    *)
(* the three locks are taken in an order that cannot block.                *)
AnsweredWithoutErrors ==
    <>[](errors > 0 \/ \A c \in Calls : pc[c] \in {"none", "done"})

(* prolog_query() "executes a Prolog query against the engine": every call *)
(* is answered, be it with the error of a query that failed.               *)
EventuallyAnswered ==
    \A c \in Calls : pc[c] # "none" ~> pc[c] = "done"

-----------------------------------------------------------------------------
(* What FactsComplete needs to be inductive.                               *)

Holding  == {"building", "loading", "failing"}
Reading  == {"building", "loading"}
Building == {"write", "engine", "building"}

(* Who reads links, loads them or waits to set the flag has the engine.    *)
EngineHeld == \A c \in Calls : pc[c] \in Holding => HasEngine(c)

(* Who is about to build has the flag: only one call is.                   *)
FlagHeld == \A c \in Calls : pc[c] \in Building => HasFlag(c)

(* Only a query can fail, and only a removal or a change loads.            *)
StageKinds ==
    \A c \in Calls :
        /\ pc[c] = "none" => kind[c] = "query"
        /\ pc[c] \in {"read", "run", "failing"} => kind[c] \in {"query", "assertion"}
        /\ pc[c] \in {"update", "loading"} => kind[c] \in {"removal", "change"}

(* A call that has looked at the engine did so before those links were     *)
(* read that are about to become facts: the link it added is among them.   *)
ReadComplete ==
    \A c \in Calls : pc[c] \in Reading =>
        \A l \in links :
            pc[l] \notin {"none", "start", "looking"} \/ kind[l] = "assertion"
                => l \in read[c]

(* An engine in use has the facts of those who are over, and of those who  *)
(* found no engine and still mean to build one.                            *)
FactsSeen ==
    engine = "live" /\ ~needsRebuild =>
        \A l \in links :
            \/ pc[l] = "done"
            \/ pc[l] \in Building
            \/ pc[l] \in {"looked", "flag"} /\ ~has[l]
            => l \in facts \cup unloaded
=============================================================================
