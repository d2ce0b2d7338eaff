-------------------------- MODULE PrologFactsProofs --------------------------
(* FactsComplete holds for any number of calls and any number of failures. *)
(* The lock of the engine carries the proof: nobody looks at the engine    *)
(* between the read of the links and the facts made of them.               *)
EXTENDS PrologFacts, SequenceTheorems, TLAPS

IInv ==
    /\ StateOK
    /\ EngineHeld
    /\ FlagHeld
    /\ StageKinds
    /\ ReadComplete
    /\ FactsSeen

(* The actions by what they do to a lock.                                  *)
LEMMA Waiting ==
    ASSUME StateOK, NEW c \in Calls, WaitEngine(c)
    PROVE  /\ engineLock' \in Seq(Calls)
           /\ \A d \in Calls : HasEngine(d) => HasEngine(d)'
  BY DEF StateOK, WaitEngine, HasEngine

LEMMA Releasing ==
    ASSUME StateOK, NEW c \in Calls, HasEngine(c), ReleaseEngine
    PROVE  /\ engineLock' \in Seq(Calls)
           /\ \A d \in Calls : HasEngine(d) => d = c
  BY DEF StateOK, ReleaseEngine, HasEngine

LEMMA WaitingFlag ==
    ASSUME StateOK, NEW c \in Calls, WaitFlag(c)
    PROVE  /\ flagLock' \in Seq(Calls)
           /\ \A d \in Calls : HasFlag(d) => HasFlag(d)'
  BY DEF StateOK, WaitFlag, HasFlag

LEMMA ReleasingFlag ==
    ASSUME StateOK, NEW c \in Calls, HasFlag(c), ReleaseFlag
    PROVE  /\ flagLock' \in Seq(Calls)
           /\ \A d \in Calls : HasFlag(d) => d = c
  BY DEF StateOK, ReleaseFlag, HasFlag

-----------------------------------------------------------------------------
(* Every step keeps the state in its types.                                *)

(* A call keeps being an addition once it is one.                          *)
LEMMA AddedGrows ==
    ASSUME StateOK, Added \subseteq Added',
           UNCHANGED <<facts, unloaded, read>>, links' \subseteq Added'
    PROVE  /\ facts' \subseteq Added' /\ unloaded' \subseteq Added'
           /\ read' \in [Calls -> SUBSET Added']
  BY DEF StateOK

LEMMA NewCallTyped ==
    ASSUME IInv, NEW c \in Calls, Query(c) \/ AddLink(c) \/ RemoveLink(c) \/ ChangeLinks(c)
    PROVE  StateOK'
<1> USE DEF IInv
<1>1. kind[c] = "query" /\ c \notin Added
  BY DEF Query, AddLink, RemoveLink, ChangeLinks, NewCall, At, StageKinds, Added
<1>2. kind' \in [Calls -> Kinds] /\ Added \subseteq Added' /\ links' \subseteq Added'
  <2>1. CASE Query(c)
    BY <2>1 DEF Query, StateOK, Added
  <2>2. CASE AddLink(c)
    BY <2>2 DEF AddLink, StateOK, Added, Kinds
  <2>3. CASE RemoveLink(c)
    BY <2>3, <1>1 DEF RemoveLink, StateOK, Added, Kinds
  <2>4. CASE ChangeLinks(c)
    BY <2>4 DEF ChangeLinks, StateOK, Added, Kinds
  <2> QED
    BY <2>1, <2>2, <2>3, <2>4
<1>3. NewCall(c)
  BY DEF Query, AddLink, RemoveLink, ChangeLinks
<1>4. facts' \subseteq Added' /\ unloaded' \subseteq Added' /\ read' \in [Calls -> SUBSET Added']
  BY <1>2, <1>3, AddedGrows DEF NewCall, state
<1> QED
  BY <1>2, <1>3, <1>4 DEF NewCall, Goes, At, StateOK, state, locks

LEMMA TypeStep ==
    ASSUME IInv, [Next]_vars PROVE StateOK'
<1> USE DEF IInv
<1>1. ASSUME NEW c \in Calls, CallStep(c) PROVE StateOK'
  <2> USE <1>1
  <2>1. ASSUME UNCHANGED kind PROVE Added' = Added
    BY <2>1 DEF Added
  <2>2. ASSUME NEW to \in {"none", "start", "looking", "looked", "flag",
                           "write", "engine", "building", "ready", "read",
                           "run", "failing", "update", "loading", "done"},
               Goes(c, to)
        PROVE  pc' \in [Calls -> {"none", "start", "looking", "looked", "flag",
                         "write", "engine", "building", "ready", "read", "run",
                         "failing", "update", "loading", "done"}]
    BY <2>2 DEF Goes, StateOK
  <2>3. read[c] \subseteq Added
    BY DEF StateOK
  <2>4. CASE AskEngine(c)
    BY <2>4, <2>1, <2>2, Waiting DEF AskEngine, LocalOnly, state, StateOK
  <2>5. CASE Look(c)
    BY <2>5, <2>1, <2>2, Releasing DEF Look, LocalOnly, state, StateOK
  <2>6. CASE AskFlag(c)
    BY <2>6, <2>1, <2>2, WaitingFlag DEF AskFlag, LocalOnly, state, StateOK
  <2>7. CASE EngineFine(c)
    BY <2>7, <2>1, <2>2, ReleasingFlag DEF EngineFine, LocalOnly, state, StateOK
  <2>8. CASE MustBuild(c)
    BY <2>8, <2>1, <2>2 DEF MustBuild, LocalOnly, state, StateOK
  <2>9. CASE MayWrite(c)
    BY <2>9, <2>1, <2>2, Waiting DEF MayWrite, LocalOnly, state, StateOK
  <2>10. CASE BuildBegins(c)
    BY <2>10, <2>1, <2>2 DEF BuildBegins, locks, state, StateOK
  <2>11. ASSUME At(c, "building"), ReleaseAll(c)
         PROVE  engineLock' \in Seq(Calls) /\ flagLock' \in Seq(Calls)
    <3>1. HasEngine(c) /\ HasFlag(c)
      BY <2>11 DEF At, EngineHeld, FlagHeld, Holding, Building
    <3> QED
      BY <2>11, <3>1, Releasing, ReleasingFlag DEF ReleaseAll
  <2>12. CASE BuildEnds(c)
    BY <2>12, <2>1, <2>2, <2>3, <2>11 DEF BuildEnds, LoadsAll, StateOK
  <2>13. CASE BuildFails(c)
    BY <2>13, <2>1, <2>2, <2>11, BoundsAssumption
    DEF BuildFails, state, StateOK
  <2>14. CASE AssertFacts(c)
    <3>1. Added' = Added
      BY <2>14 DEF AssertFacts, Added, StateOK
    <3>2. kind' \in [Calls -> Kinds]
      BY <2>14 DEF AssertFacts, Kinds, StateOK
    <3> QED
      BY <2>14, <2>2, <3>1, <3>2 DEF AssertFacts, locks, state, StateOK
  <2>15. CASE AskRead(c)
    BY <2>15, <2>1, <2>2 DEF AskRead, LocalOnly, state, StateOK
  <2>16. CASE MayRead(c)
    BY <2>16, <2>1, <2>2, Waiting DEF MayRead, LocalOnly, state, StateOK
  <2>17. ASSUME QueryOver(c), HasEngine(c)
         PROVE  engineLock' \in Seq(Calls) /\ Goes(c, "done")
    BY <2>17, Releasing DEF QueryOver
  <2>18. CASE Answer(c)
    <3>1. facts' \subseteq Added
      BY <2>18 DEF Answer, Asserts, StateOK, Added
    <3> QED
      BY <2>18, <2>1, <2>2, <2>17, <3>1 DEF Answer, AtEngine, StateOK
  <2>19. CASE NoAnswer(c)
    BY <2>19, <2>1, <2>2, <2>17 DEF NoAnswer, AtEngine, LocalOnly, state, StateOK
  <2>20. CASE QueryFails(c)
    BY <2>20, <2>1, <2>2, WaitingFlag, BoundsAssumption
    DEF QueryFails, state, StateOK
  <2>21. CASE SetFlag(c)
    <3>1. HasEngine(c)
      BY <2>21 DEF SetFlag, At, EngineHeld, Holding
    <3> QED
      BY <2>21, <2>1, <2>2, <2>17, <3>1, ReleasingFlag DEF SetFlag, StateOK
  <2>22. CASE AskUpdate(c)
    BY <2>22, <2>1, <2>2, Waiting DEF AskUpdate, LocalOnly, state, StateOK
  <2>23. CASE ReadLinks(c)
    BY <2>23, <2>1, <2>2 DEF ReadLinks, locks, state, StateOK
  <2>24. CASE Load(c)
    <3>1. HasEngine(c)
      BY <2>24 DEF Load, At, EngineHeld, Holding
    <3>2. /\ facts' \subseteq Added /\ unloaded' \subseteq Added
          /\ buildErrors' \in 0 .. MaxBuildErrors
      BY <2>24, <2>3, BoundsAssumption DEF Load, LoadsAll, LoadFails, StateOK
    <3> QED
      BY <2>24, <2>1, <2>2, <3>1, <3>2, Releasing DEF Load, StateOK
  <2> QED
    BY <1>1, <2>4, <2>5, <2>6, <2>7, <2>8, <2>9, <2>10, <2>12, <2>13, <2>14,
       <2>15, <2>16, <2>18, <2>19, <2>20, <2>21, <2>22, <2>23, <2>24
    DEF CallStep
<1>2. CASE UNCHANGED vars
  BY <1>2 DEF vars, state, locks, StateOK, Added
<1> QED
  BY <1>1, <1>2, NewCallTyped DEF Next

-----------------------------------------------------------------------------
(* The locks: no step takes a lock from the call that has it.              *)

LEMMA LocksStep ==
    ASSUME IInv, [Next]_vars PROVE EngineHeld' /\ FlagHeld'
<1> USE DEF IInv, Holding, Building
<1>1. ASSUME NEW c \in Calls, Query(c) \/ AddLink(c) \/ RemoveLink(c) \/ ChangeLinks(c)
      PROVE  EngineHeld' /\ FlagHeld'
  BY <1>1 DEF Query, AddLink, RemoveLink, ChangeLinks, NewCall, Goes, StateOK, locks,
              EngineHeld, FlagHeld, HasEngine, HasFlag
<1>2. ASSUME NEW c \in Calls, CallStep(c)
      PROVE  EngineHeld' /\ FlagHeld'
  <2>1. /\ \A d \in Calls \ {c} : pc'[d] = pc[d]
        /\ pc \in [Calls -> {"none", "start", "looking", "looked", "flag", "write",
                         "engine", "building", "ready", "read", "run",
                         "failing", "update", "loading", "done"}]
    BY <1>2 DEF CallStep, AskEngine, Look, AskFlag, EngineFine, MustBuild,
        MayWrite, BuildBegins, BuildEnds, BuildFails, AssertFacts, AskRead,
        MayRead, Answer, NoAnswer, QueryFails, SetFlag, AskUpdate, ReadLinks,
        Load, QueryOver, Goes, StateOK
  <2>2. pc[c] \in Holding => HasEngine(c)
    BY DEF EngineHeld
  <2>3. pc[c] \in Building => HasFlag(c)
    BY DEF FlagHeld
  (* The engine's lock is waited for, released by its holder, or left. *)
  <2>4. \/ WaitEngine(c) /\ pc'[c] \notin Holding
        \/ HasEngine(c) /\ ReleaseEngine /\ pc'[c] \notin Holding
        \/ engineLock' = engineLock /\ (pc'[c] \in Holding => HasEngine(c))
    BY <1>2, <2>1, <2>2
    DEF CallStep, AskEngine, Look, AskFlag, EngineFine, MustBuild,
        MayWrite, BuildBegins, BuildEnds, BuildFails, AssertFacts, AskRead,
        MayRead, Answer, NoAnswer, QueryFails, SetFlag, AskUpdate, ReadLinks,
        Load, QueryOver, ReleaseAll, AtEngine, At, Goes, locks
  <2>5. \/ WaitFlag(c) /\ pc'[c] \notin Building
        \/ HasFlag(c) /\ ReleaseFlag /\ pc'[c] \notin Building
        \/ flagLock' = flagLock /\ (pc'[c] \in Building => HasFlag(c))
    BY <1>2, <2>1, <2>3
    DEF CallStep, AskEngine, Look, AskFlag, EngineFine, MustBuild,
        MayWrite, BuildBegins, BuildEnds, BuildFails, AssertFacts, AskRead,
        MayRead, Answer, NoAnswer, QueryFails, SetFlag, AskUpdate, ReadLinks,
        Load, QueryOver, ReleaseAll, AtEngine, At, Goes, locks
  <2>6. EngineHeld'
    <3>1. CASE WaitEngine(c) /\ pc'[c] \notin Holding
      BY <2>1, <3>1, Waiting DEF EngineHeld
    <3>2. CASE HasEngine(c) /\ ReleaseEngine /\ pc'[c] \notin Holding
      BY <2>1, <3>2, Releasing DEF EngineHeld
    <3>3. CASE engineLock' = engineLock /\ (pc'[c] \in Holding => HasEngine(c))
      BY <2>1, <3>3 DEF EngineHeld, HasEngine
    <3> QED
      BY <2>4, <3>1, <3>2, <3>3
  <2>7. FlagHeld'
    <3>1. CASE WaitFlag(c) /\ pc'[c] \notin Building
      BY <2>1, <3>1, WaitingFlag DEF FlagHeld
    <3>2. CASE HasFlag(c) /\ ReleaseFlag /\ pc'[c] \notin Building
      BY <2>1, <3>2, ReleasingFlag DEF FlagHeld
    <3>3. CASE flagLock' = flagLock /\ (pc'[c] \in Building => HasFlag(c))
      BY <2>1, <3>3 DEF FlagHeld, HasFlag
    <3> QED
      BY <2>5, <3>1, <3>2, <3>3
  <2> QED
    BY <2>6, <2>7
<1>3. CASE UNCHANGED vars
  BY <1>3 DEF vars, locks, EngineHeld, FlagHeld, HasEngine, HasFlag
<1> QED
  BY <1>1, <1>2, <1>3 DEF Next

(* Only queries fail, and only removals and changes load.                  *)
LEMMA KindsStep ==
    ASSUME IInv, [Next]_vars PROVE StageKinds'
<1> USE DEF IInv
<1>1. ASSUME NEW c \in Calls, Query(c) \/ AddLink(c) \/ RemoveLink(c) \/ ChangeLinks(c)
      PROVE  StageKinds'
  BY <1>1 DEF Query, AddLink, RemoveLink, ChangeLinks, NewCall, Goes, StateOK, StageKinds
<1>2. ASSUME NEW c \in Calls, CallStep(c)
      PROVE  StageKinds'
  <2>1. CASE AskEngine(c) \/ Look(c) \/ AskFlag(c) \/ EngineFine(c) \/ MustBuild(c)
                \/ MayWrite(c) \/ BuildBegins(c) \/ BuildEnds(c) \/ BuildFails(c)
    BY <2>1
    DEF AskEngine, Look, AskFlag, EngineFine, MustBuild, MayWrite, BuildBegins,
        BuildEnds, BuildFails, At, Goes, LocalOnly, StateOK, StageKinds
  <2>2. CASE AssertFacts(c) \/ AskRead(c) \/ MayRead(c) \/ Answer(c) \/ NoAnswer(c)
                \/ QueryFails(c) \/ SetFlag(c)
    BY <2>2
    DEF AssertFacts, AskRead, MayRead, Answer, NoAnswer, QueryFails, SetFlag,
        QueryOver, AtEngine, At, Goes, LocalOnly, StateOK, StageKinds
  <2>3. CASE AskUpdate(c) \/ ReadLinks(c) \/ Load(c)
    BY <2>3 DEF AskUpdate, ReadLinks, Load, At, Goes, LocalOnly, StateOK, StageKinds
  <2> QED
    BY <1>2, <2>1, <2>2, <2>3 DEF CallStep
<1>3. CASE UNCHANGED vars
  BY <1>3 DEF vars, StageKinds
<1> QED
  BY <1>1, <1>2, <1>3 DEF Next

-----------------------------------------------------------------------------
(* Nobody passes the look at the engine while another reads the links.     *)

Early == {"none", "start", "looking"}

LEMMA ReadStep ==
    ASSUME IInv, [Next]_vars PROVE ReadComplete'
<1> USE DEF IInv, Reading
<1>1. ASSUME NEW c \in Calls, Query(c) \/ AddLink(c) \/ RemoveLink(c) \/ ChangeLinks(c)
      PROVE  ReadComplete'
  <2>1. c \notin links /\ kind[c] = "query"
    BY <1>1 DEF Query, AddLink, RemoveLink, ChangeLinks, NewCall, At, StageKinds, StateOK,
                Added
  <2>2. /\ links' \subseteq links \cup {c}
        /\ kind'[c] # "assertion"
        /\ \A d \in Calls \ {c} : kind'[d] = kind[d] /\ pc'[d] = pc[d]
        /\ pc'[c] = "start" /\ read' = read
    BY <1>1, <2>1 DEF Query, AddLink, RemoveLink, ChangeLinks, NewCall, Goes, StateOK
  <2> QED
    BY <2>1, <2>2 DEF ReadComplete, StateOK, Added
<1>2. ASSUME NEW c \in Calls, CallStep(c)
      PROVE  ReadComplete'
  <2>1. /\ \A d \in Calls \ {c} :
              pc'[d] = pc[d] /\ read'[d] = read[d] /\ kind'[d] = kind[d]
        /\ links' = links
        /\ pc'[c] \in Reading => read'[c] = links
    BY <1>2 DEF CallStep, AskEngine, Look, AskFlag, EngineFine, MustBuild,
        MayWrite, BuildBegins, BuildEnds, BuildFails, AssertFacts, AskRead,
        MayRead, Answer, NoAnswer, QueryFails, SetFlag, AskUpdate, ReadLinks,
        Load, QueryOver, LocalOnly, Goes, StateOK
  <2>2. \/ pc[c] \notin Early \/ kind[c] = "assertion"
        \/ HasEngine(c)
        \/ pc'[c] \in Early /\ kind'[c] # "assertion"
    <3>1. CASE AskEngine(c)
      BY <3>1 DEF Early, AskEngine, LocalOnly, Goes, StateOK
    <3>2. CASE Look(c)
      BY <3>2 DEF Look
    <3>3. CASE ~AskEngine(c) /\ ~Look(c)
      BY <1>2, <3>3
      DEF Early, CallStep, AskFlag, EngineFine, MustBuild,
          MayWrite, BuildBegins, BuildEnds, BuildFails, AssertFacts, AskRead,
          MayRead, Answer, NoAnswer, QueryFails, SetFlag, AskUpdate, ReadLinks,
          Load, AtEngine, At
    <3> QED
      BY <3>1, <3>2, <3>3
  <2>3. SUFFICES ASSUME NEW d \in Calls, pc'[d] \in Reading, d # c,
                        NEW l \in links,
                        pc'[l] \notin Early \/ kind'[l] = "assertion"
                 PROVE  l \in read[d]
    BY <2>1 DEF ReadComplete, Early
  <2>4. l \in Calls
    BY DEF StateOK, Added
  <2>5. HasEngine(d) /\ ~HasEngine(c)
    BY <2>1, <2>3 DEF EngineHeld, Holding, HasEngine
  <2>6. pc[l] \notin Early \/ kind[l] = "assertion"
    BY <2>1, <2>2, <2>3, <2>4, <2>5
  <2> QED
    BY <2>1, <2>3, <2>6 DEF ReadComplete, Early
<1>3. CASE UNCHANGED vars
  BY <1>3 DEF vars, ReadComplete
<1> QED
  BY <1>1, <1>2, <1>3 DEF Next

-----------------------------------------------------------------------------
(* The facts.                                                              *)

Seen(l) ==
    \/ pc[l] = "done"
    \/ pc[l] \in Building
    \/ pc[l] \in {"looked", "flag"} /\ ~has[l]

Usable == engine = "live" /\ ~needsRebuild

(* What is seen is no longer early, so a read of the links has it.         *)
LEMMA ReadSeen ==
    ASSUME IInv, NEW c \in Calls, pc[c] \in Reading,
           NEW l \in links, Seen(l)
    PROVE  l \in read[c]
  BY DEF IInv, ReadComplete, Seen, Building

LEMMA FactsStep ==
    ASSUME IInv, [Next]_vars PROVE FactsSeen'
<1> USE DEF IInv
<1>1. SUFFICES ASSUME Usable', NEW l \in links', Seen(l)'
               PROVE  l \in facts' \cup unloaded'
  BY DEF FactsSeen, Usable, Seen
<1>2. Usable /\ l \in links /\ Seen(l) => l \in facts \cup unloaded
  BY DEF FactsSeen, Usable, Seen
<1>3. l \in links => l \in Calls /\ kind[l] \in {"addition", "assertion", "change"}
  BY DEF StateOK, Added
<1>4. ASSUME NEW c \in Calls, Query(c) \/ AddLink(c) \/ RemoveLink(c) \/ ChangeLinks(c)
      PROVE  l \in facts' \cup unloaded'
  <2>1. pc'[c] = "start" /\ ~Seen(c)'
    BY <1>4 DEF Query, AddLink, RemoveLink, ChangeLinks, NewCall, Goes, StateOK, Seen,
                Building
  <2>2. /\ l \in links /\ l # c
        /\ \A d \in Calls \ {c} : pc'[d] = pc[d]
        /\ has' = has /\ Usable /\ facts' = facts /\ unloaded' = unloaded
    BY <1>1, <1>4, <2>1
    DEF Query, AddLink, RemoveLink, ChangeLinks, NewCall, Goes, StateOK, state, Usable
  <2> QED
    BY <1>1, <1>2, <1>3, <2>2 DEF Seen
<1>5. ASSUME NEW c \in Calls, CallStep(c)
      PROVE  l \in facts' \cup unloaded'
  <2>1. /\ \A d \in Calls \ {c} : pc'[d] = pc[d] /\ has'[d] = has[d]
        /\ links' = links
    BY <1>5 DEF CallStep, AskEngine, Look, AskFlag, EngineFine, MustBuild,
        MayWrite, BuildBegins, BuildEnds, BuildFails, AssertFacts, AskRead,
        MayRead, Answer, NoAnswer, QueryFails, SetFlag, AskUpdate, ReadLinks,
        Load, QueryOver, LocalOnly, Goes, StateOK
  <2>2. l # c => Seen(l)
    BY <1>1, <1>3, <2>1 DEF Seen
  (* The steps that touch neither the engine nor what its call has seen. *)
  <2>3. CASE UNCHANGED state /\ (Seen(c)' => Seen(c))
    BY <1>1, <1>2, <2>1, <2>2, <2>3 DEF state, Usable
  <2>4. CASE AskEngine(c) \/ AskFlag(c) \/ EngineFine(c) \/ MayWrite(c)
             \/ AssertFacts(c) \/ AskRead(c) \/ MayRead(c)
             \/ QueryFails(c) \/ AskUpdate(c) \/ ReadLinks(c)
    BY <2>3, <2>4
    DEF AskEngine, AskFlag, EngineFine, MayWrite, AssertFacts, AskRead,
        MayRead, QueryFails, AskUpdate, ReadLinks, LocalOnly, Goes, At,
        StateOK, Seen, Building
  <2>5. CASE Look(c)
    BY <1>1, <1>2, <2>1, <2>2, <2>5
    DEF Look, LocalOnly, state, Goes, StateOK, Seen, Usable, Building
  <2>6. CASE MustBuild(c)
    BY <1>1, <1>2, <2>1, <2>2, <2>6
    DEF MustBuild, LocalOnly, state, Goes, At, StateOK, Seen, Usable, Building
  <2>7. CASE BuildBegins(c)
    BY <1>1, <2>3, <2>7
    DEF BuildBegins, Goes, At, StateOK, Seen, Usable, Building
  <2>8. CASE BuildEnds(c)
    <3>1. ~Seen(c)'
      BY <2>8 DEF BuildEnds, Goes, StateOK, Seen, Building
    <3> QED
      BY <1>1, <2>1, <2>2, <2>8, <3>1, ReadSeen DEF BuildEnds, LoadsAll, At, Reading
  <2>9. CASE BuildFails(c)
    BY <2>3, <2>9 DEF BuildFails, Goes, At, StateOK, Seen, Building
  <2>10. CASE Answer(c)
    <3>1. kind[c] \in {"query", "assertion"}
      BY <2>10 DEF Answer, AtEngine, At, StageKinds
    <3>2. l = c => l \in facts'
      BY <1>3, <2>1, <2>10, <3>1 DEF Answer, Asserts
    <3>3. Usable /\ facts \subseteq facts' /\ unloaded' = unloaded
      BY <1>1, <2>10 DEF Answer, Asserts, Usable
    <3> QED
      BY <1>2, <2>1, <2>2, <3>2, <3>3
  <2>11. CASE NoAnswer(c) \/ SetFlag(c)
    BY <1>1, <2>11 DEF NoAnswer, SetFlag, LocalOnly, state, Usable
  <2>12. CASE Load(c)
    <3>1. Usable /\ At(c, "loading") /\ pc[c] \in Reading
      BY <1>1, <2>12 DEF Load, Usable, At, Reading
    <3>2. CASE LoadsAll(c)
      <4>1. l # c => l \in read[c]
        BY <2>1, <2>2, <3>1, ReadSeen
      <4>2. l = c => l \in read[c]
        BY <2>1, <3>1 DEF At, Reading, ReadComplete
      <4> QED
        BY <3>2, <4>1, <4>2 DEF LoadsAll
    <3>3. CASE LoadFails(c)
      BY <1>2, <2>1, <2>2, <3>1, <3>3 DEF LoadFails
    <3> QED
      BY <2>12, <3>1, <3>2, <3>3 DEF Load, Usable
  <2> QED
    BY <1>5, <2>4, <2>5, <2>6, <2>7, <2>8, <2>9, <2>10, <2>11, <2>12
    DEF CallStep
<1>6. CASE UNCHANGED vars
  BY <1>1, <1>2, <1>6 DEF vars, state, Usable, Seen
<1> QED
  BY <1>4, <1>5, <1>6 DEF Next

-----------------------------------------------------------------------------
(* The lock of the updates, of which the invariant says nothing.           *)

Waiters == [call : Calls, writes : BOOLEAN]

LEMMA UpdateTyped ==
    ASSUME updateLock \in Seq(Waiters), [Next]_vars
    PROVE  updateLock' \in Seq(Waiters)
<1>1. ASSUME NEW c \in Calls, NEW w \in BOOLEAN, WaitUpdate(c, w)
      PROVE  updateLock' \in Seq(Waiters)
  <2>1. [call |-> c, writes |-> w] \in Waiters
    BY DEF Waiters
  <2> QED
    BY <1>1, <2>1, AppendProperties DEF WaitUpdate
<1>2. ASSUME NEW c \in Calls, ReleaseUpdate(c)
      PROVE  updateLock' \in Seq(Waiters)
  <2>1. PICK i \in DOMAIN updateLock :
              updateLock' = SubSeq(updateLock, 1, i - 1)
                               \o SubSeq(updateLock, i + 1, Len(updateLock))
    BY <1>2 DEF ReleaseUpdate
  <2>2. /\ SubSeq(updateLock, 1, i - 1) \in Seq(Waiters)
        /\ SubSeq(updateLock, i + 1, Len(updateLock)) \in Seq(Waiters)
    <3>1. i \in 1 .. Len(updateLock) /\ Len(updateLock) \in Nat
      OBVIOUS
    <3>2. \A k \in 1 .. i - 1 : updateLock[k] \in Waiters
      BY <3>1
    <3>3. \A k \in i + 1 .. Len(updateLock) : updateLock[k] \in Waiters
      BY <3>1
    <3> QED
      BY <3>1, <3>2, <3>3, SubSeqProperties
  <2> QED
    BY <2>1, <2>2, ConcatProperties
<1>3. ASSUME NEW c \in Calls, CallStep(c)
      PROVE  \/ updateLock' = updateLock \/ ReleaseUpdate(c)
             \/ \E w \in BOOLEAN : WaitUpdate(c, w)
  <2>1. CASE AskEngine(c) \/ Look(c) \/ AskFlag(c) \/ EngineFine(c) \/ MayWrite(c)
                \/ BuildBegins(c) \/ AssertFacts(c) \/ MayRead(c) \/ QueryFails(c)
                \/ AskUpdate(c) \/ ReadLinks(c) \/ Load(c)
    BY <2>1
    DEF AskEngine, Look, AskFlag, EngineFine, MayWrite, BuildBegins, AssertFacts,
        MayRead, QueryFails, AskUpdate, ReadLinks, Load, locks
  <2>2. CASE MustBuild(c) \/ AskRead(c)
    BY <2>2 DEF MustBuild, AskRead
  <2>3. CASE BuildEnds(c) \/ BuildFails(c)
    BY <2>3 DEF BuildEnds, BuildFails, ReleaseAll
  <2>4. CASE Answer(c) \/ NoAnswer(c) \/ SetFlag(c)
    BY <2>4 DEF Answer, NoAnswer, SetFlag, QueryOver
  <2> QED
    BY <1>3, <2>1, <2>2, <2>3, <2>4 DEF CallStep
<1>4. ASSUME NEW c \in Calls, Query(c) \/ AddLink(c) \/ RemoveLink(c) \/ ChangeLinks(c)
      PROVE  updateLock' = updateLock
  BY <1>4 DEF Query, AddLink, RemoveLink, ChangeLinks, NewCall, locks
<1>5. CASE UNCHANGED vars
  BY <1>5 DEF vars, locks
<1> QED
  BY <1>1, <1>2, <1>3, <1>4, <1>5 DEF Next

-----------------------------------------------------------------------------
LEMMA Initially == Init => IInv
<1> USE DEF Init
<1>1. Init => StateOK
  BY BoundsAssumption DEF StateOK, Added, Kinds
<1>2. Init => EngineHeld /\ FlagHeld /\ StageKinds /\ ReadComplete
  BY DEF EngineHeld, FlagHeld, StageKinds, ReadComplete, Holding, Building,
         Reading
<1>3. Init => FactsSeen
  BY DEF FactsSeen
<1> QED
  BY <1>1, <1>2, <1>3 DEF IInv

LEMMA Invariance == Spec => []IInv
<1>1. IInv /\ [Next]_vars => IInv'
  BY TypeStep, LocksStep, KindsStep, ReadStep, FactsStep DEF IInv
<1> QED
  BY <1>1, Initially, PTL DEF Spec

(* For any number of calls and failures, every variable keeps its type.    *)
THEOREM PrologTyped == Spec => []TypeOK
<1>1. Init => updateLock \in Seq(Waiters)
  BY DEF Init
<1>2. IInv /\ updateLock \in Seq(Waiters) => TypeOK
  BY DEF IInv, TypeOK, Waiters
<1>3. updateLock \in Seq(Waiters) /\ [Next]_vars => (updateLock \in Seq(Waiters))'
  BY UpdateTyped
<1> QED
  BY <1>1, <1>2, <1>3, Invariance, PTL DEF Spec

(* An engine in use has the fact of every link whose mutation is over,     *)
(* unless the load of that very mutation failed: no interleaving of        *)
(* ensure_prolog_engine(), prolog_query() and the tasks of mutations loses *)
(* one.                                                                    *)
THEOREM FactsKept == Spec => []FactsComplete
<1>1. IInv => FactsComplete
  BY DEF IInv, FactsSeen, FactsComplete
<1> QED
  BY <1>1, Invariance, PTL

(* One call at most makes an engine, and it alone has the lock of the      *)
(* engine and the flag while it does.                                      *)
OneBuilder ==
    \A c, d \in Calls :
        pc[c] = "building" /\ pc[d] \in Building \cup Holding => c = d

THEOREM BuildsAlone == Spec => []OneBuilder
<1>1. IInv => OneBuilder
  BY DEF IInv, EngineHeld, FlagHeld, HasEngine, HasFlag, Holding, Building,
         OneBuilder
<1> QED
  BY <1>1, Invariance, PTL
=============================================================================
