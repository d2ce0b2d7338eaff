-------------------------- MODULE LanguagesProofs --------------------------
(***************************************************************************)
(* For any number of callers, failures, crashes, unlocks and removals: the *)
(* language that is handed out is heard of, and its zome calls go one by   *)
(* one, although the queue survives the instances that use it.             *)
(*                                                                         *)
(* The queue comes first, on its own: it serves one call at a time, in the *)
(* order of their arrival, and forgets none.                               *)
(*                                                                         *)
(* Why a loaded language is heard of: a disabled app is one that somebody  *)
(* is just enabling, unless an installation was broken off; the conductor  *)
(* answers nobody else meanwhile, so nobody finds it disabled, and whoever *)
(* enables it found no app before, so that no language was loaded.  In a   *)
(* process that has not removed the language its app forwards signals,     *)
(* either since the start of the conductor or since install_app().  So     *)
(* whoever has passed ensureInstallDNAforLanguage() has left a callback    *)
(* and found or made an enabled app, and neither is taken away afterwards. *)
(*                                                                         *)
(* Why a signal is handled once: with one unlock, one perspective and no   *)
(* query, the loader is on the way before the language controller is ready *)
(* and the task of the perspective after that, so that nobody else is when *)
(* a callback is registered; and nobody starts once the map has the        *)
(* instance of that callback.                                              *)
(***************************************************************************)
EXTENDS Languages, FiniteSetTheorems, TLAPS

-----------------------------------------------------------------------------
(* The queue.                                                              *)

(* What the code maintains: pendingCount is the number of running jobs.    *)
CountRight ==
    \/ pendingCount = 0 /\ running = {}
    \/ pendingCount = 1 /\ \E j \in Calls : running = {j}

QueueInv ==
    /\ QueueTypeOK
    /\ Len(queue) <= added
    /\ CountRight
    /\ OneByOne
    /\ NoLostWakeup

(* Starting the next job keeps the invariant, whoever calls it: from a     *)
(* queue of consecutive calls behind those that are done, when nothing     *)
(* else runs.                                                              *)
LEMMA StartsNext ==
    ASSUME QueueInv,
           NEW n \in 0 .. MaxCalls, NEW jobs \in Seq(Calls), Len(jobs) <= n,
           NEW done \in SUBSET Calls, done = 1 .. (n - Len(jobs)),
           \A i \in DOMAIN jobs : jobs[i] = n - Len(jobs) + i,
           added' = n, answered' = done,
           StartAnother(jobs, 0, {})
    PROVE  QueueInv'
<1>1. CASE jobs = <<>>
  <2>1. queue' = <<>> /\ running' = {} /\ pendingCount' = 0
    BY <1>1 DEF StartAnother
  <2>2. Len(queue') = 0 /\ DOMAIN queue' = {}
    BY <2>1
  <2>3. Started' = n /\ Len(jobs) = 0
    BY <2>2, <1>1 DEF Started
  <2> QED
    BY <2>1, <2>2, <2>3
    DEF QueueInv, QueueTypeOK, CountRight, OneByOne, NoLostWakeup
<1>2. CASE jobs # <<>>
  <2> DEFINE h == Head(jobs)
  <2>1. queue' = Tail(jobs) /\ running' = {h} /\ pendingCount' = 1
    BY <1>2 DEF StartAnother
  <2>2. /\ h \in Calls /\ h = n - Len(jobs) + 1
        /\ Tail(jobs) \in Seq(Calls) /\ Len(Tail(jobs)) = Len(jobs) - 1
        /\ \A i \in DOMAIN Tail(jobs) : Tail(jobs)[i] = jobs[i + 1] /\ i + 1 \in DOMAIN jobs
    BY <1>2
  <2>3. Len(jobs) \in Nat /\ Len(jobs) > 0 /\ n \in Nat
    BY <1>2
  <2>4. Started' = n - Len(jobs) + 1
    BY <2>1, <2>2, <2>3 DEF Started
  <2>5. running' \cup answered' = 1 .. Started'
    BY <2>1, <2>2, <2>3, <2>4
  <2>6. \A i \in DOMAIN queue' : queue'[i] = Started' + i
    BY <2>1, <2>2, <2>3, <2>4
  <2>7. \A j \in running', k \in answered' : k < j
    BY <2>1, <2>2, <2>3
  <2> HIDE DEF h
  <2>8. OneByOne' /\ CountRight' /\ NoLostWakeup'
    BY <2>1, <2>2, <2>5, <2>6, <2>7 DEF OneByOne, CountRight, NoLostWakeup
  <2> QED
    BY <2>1, <2>2, <2>3, <2>8 DEF QueueInv, QueueTypeOK
<1> QED
  BY <1>1, <1>2

LEMMA QueueStarts == QueueInit => QueueInv
  BY CallsAssumption DEF QueueInit, QueueInv, QueueTypeOK, CountRight, OneByOne, NoLostWakeup,
     Started

LEMMA QueueStep == QueueInv /\ [QueueNext]_queueVars => QueueInv'
<1> SUFFICES ASSUME QueueInv, [QueueNext]_queueVars PROVE QueueInv'
  OBVIOUS
<1>0. MaxCalls \in Nat
  BY CallsAssumption
<1>1. CASE Add
  <2> DEFINE jobs == Append(queue, added + 1)
  <2>1. /\ added + 1 \in Calls /\ added' = added + 1 /\ answered' = answered
        /\ StartAnother(jobs, pendingCount, running)
    BY <1>0, <1>1 DEF Add, QueueInv, QueueTypeOK, Calls
  <2>2. /\ jobs \in Seq(Calls) /\ Len(jobs) = Len(queue) + 1 /\ jobs # <<>>
        /\ \A i \in DOMAIN jobs : jobs[i] = (added + 1) - Len(jobs) + i
    BY <2>1 DEF QueueInv, QueueTypeOK, OneByOne, Started
  <2>3. CASE pendingCount = 0
    <3>1. running = {} /\ queue = <<>>
      BY <2>3 DEF QueueInv, CountRight, NoLostWakeup
    <3>2. answered = 1 .. ((added + 1) - Len(jobs)) /\ answered \in SUBSET Calls
      BY <2>2, <3>1 DEF QueueInv, QueueTypeOK, OneByOne, Started
    <3>3. StartAnother(jobs, 0, {})
      BY <2>1, <2>3, <3>1
    <3>4. added + 1 \in 0 .. MaxCalls
      BY <1>0, <2>1 DEF Calls
    <3>5. Len(jobs) <= added + 1
      BY <2>1, <2>2 DEF QueueInv, QueueTypeOK
    <3> HIDE DEF jobs
    <3> QED
      BY <3>3, <3>4, <3>5, <3>2, <2>1, <2>2, StartsNext
  <2>4. CASE pendingCount # 0
    <3>1. queue' = jobs /\ running' = running /\ pendingCount' = pendingCount
      BY <2>1, <2>4 DEF StartAnother
    <3>2. running # {} /\ pendingCount = 1
      BY <2>4 DEF QueueInv, CountRight
    <3>3. Started' = Started /\ Started \in Nat
      BY <2>1, <2>2, <3>1 DEF Started, QueueInv, QueueTypeOK
    <3>4. \A i \in DOMAIN queue' : queue'[i] = Started' + i
      BY <2>1, <2>2, <3>1 DEF Started
    <3> HIDE DEF jobs
    <3>5. OneByOne' /\ CountRight' /\ NoLostWakeup'
      BY <2>1, <3>1, <3>2, <3>3, <3>4
      DEF QueueInv, OneByOne, CountRight, NoLostWakeup
    <3> QED
      BY <2>1, <2>2, <3>1, <3>5, <1>0 DEF QueueInv, QueueTypeOK, Calls
  <2> QED
    BY <2>3, <2>4
<1>2. ASSUME NEW j \in Calls, Answer(j) PROVE QueueInv'
  <2>1. running = {j} /\ pendingCount = 1
    BY <1>2 DEF Answer, QueueInv, CountRight
  <2>2. /\ added' = added /\ answered' = answered \cup {j}
        /\ StartAnother(queue, 0, {})
    BY <1>2, <2>1 DEF Answer
  <2>3. answered \cup {j} = 1 .. (added - Len(queue))
    BY <2>1 DEF QueueInv, OneByOne, Started
  <2>4. \A i \in DOMAIN queue : queue[i] = added - Len(queue) + i
    BY DEF QueueInv, OneByOne, Started
  <2> QED
    BY <2>2, <2>3, <2>4, StartsNext DEF QueueInv, QueueTypeOK
<1>3. CASE UNCHANGED queueVars
  BY <1>3 DEF queueVars, QueueInv, QueueTypeOK, CountRight, OneByOne, NoLostWakeup, Started
<1> QED
  BY <1>1, <1>2, <1>3 DEF QueueNext

LEMMA QueueInvariance == QueueSpec => []QueueInv
<1>1. QueueInit => QueueInv
  BY QueueStarts
<1>2. QueueInv /\ [QueueNext]_queueVars => QueueInv'
  BY QueueStep
<1> QED
  BY <1>1, <1>2, PTL DEF QueueSpec

(* AsyncQueue: at most one zome call of a language is under way, and they  *)
(* are started in the order of their arrival.                              *)
THEOREM CallsOneByOne == QueueSpec => []OneByOne
<1>1. QueueInv => OneByOne
  BY DEF QueueInv
<1> QED
  BY <1>1, QueueInvariance, PTL

(* AsyncQueue: a call waits only behind one that is under way.             *)
THEOREM CallsNotForgotten == QueueSpec => []NoLostWakeup
<1>1. QueueInv => NoLostWakeup
  BY DEF QueueInv
<1> QED
  BY <1>1, QueueInvariance, PTL

-----------------------------------------------------------------------------
(* The language.                                                           *)

(* An instance exists before its DNA is registered.                        *)
InstanceMade == \A c \in Loads : pc[c] \in {"info", "app", "enable"} => inst[c] \in Instances

(* Controllers are made by unlocking.                                      *)
UnlockedOnce == phase = "locked" <=> controller = 0

LInv == TypeOK /\ QueueInv /\ InstanceMade /\ UnlockedOnce

Trusted == ~brokenOff /\ ~disturbed

Heard == callbacks # {} /\ app = "enabled"

HearingInv ==
    /\ removing => disturbed
    /\ ~brokenOff /\ app = "disabled" => ~ConductorFree
    /\ \A c \in Loads : At(c, "enable") =>
          app = "disabled" /\ \A d \in Loads : At(d, "enable") => d = c
    /\ controller > 0 /\ Trusted /\ app = "enabled" => streamed
    /\ Trusted => \A c \in Loads : At(c, "link") => Heard
    /\ Trusted => \A k \in Controllers : languages[k] # 0 => Heard

-----------------------------------------------------------------------------
(* Whatever happens to a language, its queue makes a step of its own, or   *)
(* the process dies and it is empty.                                       *)
LEMMA QueueOfLanguage ==
    ASSUME [Next]_vars
    PROVE  [QueueNext]_queueVars \/ QueueInit'
<1>1. CASE UNCHANGED vars
  BY <1>1 DEF vars
<1>2. CASE Unlock \/ LoadInstalled \/ LanguagesReady \/ Remove \/ Removed \/ PutSettings
  BY <1>2 DEF Unlock, LoadInstalled, LanguagesReady, Remove, Removed, PutSettings, Disturb
<1>3. CASE ZomeAnswer
  BY <1>3 DEF ZomeAnswer, QueueNext
<1>4. CASE \E c \in Callers : Refer(c) \/ Publish(c)
  BY <1>4 DEF Refer, Publish, Enter
<1>5. ASSUME NEW c \in Loads, GetMeta(c) \/ Pack(c) \/ Install(c) \/ Fetch(c) \/ Import(c)
                              \/ AppMissing(c) \/ Loaded(c) \/ Fail(c)
      PROVE  UNCHANGED queueVars
  BY <1>5 DEF GetMeta, Pack, Install, Fetch, Import, AppMissing, Loaded, Fail
<1>6. ASSUME NEW c \in Loads,
             AppFound(c) \/ InstallApp(c) \/ EnableApp(c) \/ InstallTimesOut(c)
      PROVE  [QueueNext]_queueVars
  BY <1>6 DEF AppFound, InstallApp, EnableApp, Installed, InstallTimesOut, Link, QueueNext
<1>7. CASE Crash
  BY <1>7 DEF Crash, QueueInit
<1> QED  BY <1>1, <1>2, <1>3, <1>4, <1>5, <1>6, <1>7 DEF Next, Proceed

LEMMA QueueKept ==
    ASSUME QueueInv, [Next]_vars
    PROVE  QueueInv'
<1>1. CASE [QueueNext]_queueVars
  BY <1>1, QueueStep
<1>2. CASE QueueInit'
  <2>1. (QueueInit => QueueInv)'
    BY CallsAssumption DEF QueueInit, QueueInv, QueueTypeOK, CountRight, OneByOne,
       NoLostWakeup, Started
  <2> QED  BY <1>2, <2>1
<1> QED  BY <1>1, <1>2, QueueOfLanguage

-----------------------------------------------------------------------------
(* The type invariant.                                                     *)

LEMMA InitLInv == Init => LInv
<1> SUFFICES ASSUME Init PROVE LInv
  OBVIOUS
<1>1. QueueInv
  BY QueueStarts DEF Init
<1>2. QueueTypeOK
  BY <1>1 DEF QueueInv
<1>3. /\ 0 \in 0 .. MaxMade /\ 0 \in 0 .. MaxCalls /\ 0 \in 0 .. MaxTroubles
  BY LanguagesAssumption, CallsAssumption
<1>4. TypeOK
  BY <1>2, <1>3 DEF Init, TypeOK
<1> QED  BY <1>1, <1>4 DEF Init, LInv, InstanceMade, UnlockedOnce

LEMMA TroubleTyped == LInv /\ (Trouble \/ UNCHANGED troubles) => troubles' \in 0 .. MaxTroubles
BY LanguagesAssumption DEF LInv, TypeOK, Trouble

(* Where a caller goes.                                                    *)
LEMMA ChainTyped ==
    ASSUME TypeOK, InstanceMade, NEW c \in Loads,
           \/ UNCHANGED chain
           \/ End(c)
           \/ \E s \in {"meta", "packing", "source", "fetch", "import"} : Goto(c, s) \/ Begin(c, s)
    PROVE  /\ pc' \in [Loads -> {"idle", "meta", "packing", "source", "fetch", "import",
                                 "info", "app", "enable", "link"}]
           /\ self' \in [Loads -> {0} \cup Controllers]
           /\ inst' \in [Loads -> 0 .. MaxMade]
           /\ call' \in [Loads -> 0 .. MaxCalls]
           /\ InstanceMade'
<1> USE DEF TypeOK, InstanceMade
<1>1. CASE UNCHANGED chain
  BY <1>1 DEF chain
<1>2. CASE End(c)
  BY <1>2, CallsAssumption, LanguagesAssumption DEF End
<1>3. ASSUME NEW s \in {"meta", "packing", "source", "fetch", "import"}, Goto(c, s) \/ Begin(c, s)
      PROVE  /\ pc' \in [Loads -> {"idle", "meta", "packing", "source", "fetch", "import",
                                 "info", "app", "enable", "link"}]
             /\ self' \in [Loads -> {0} \cup Controllers]
             /\ inst' = inst /\ call' = call
             /\ \A d \in Loads : pc'[d] \in {"info", "app", "enable"} => pc'[d] = pc[d]
  <2>1. controller \in {0} \cup Controllers
    OBVIOUS
  <2> QED  BY <1>3, <2>1 DEF Goto, Begin
<1> QED  BY <1>1, <1>2, <1>3

(* create() has made the zome call.                                        *)
LEMMA LinkTyped ==
    ASSUME LInv, QueueTypeOK', NEW c \in Loads, NEW cbs \in SUBSET Instances, Link(c, cbs),
           streamed' \in BOOLEAN, bundle' = bundle, temp' = temp,
           app' \in {"absent", "disabled", "enabled"}, brokenOff' \in BOOLEAN,
           troubles' \in 0 .. MaxTroubles
    PROVE  TypeOK' /\ InstanceMade'
<1>1. added + 1 \in 0 .. MaxCalls
  BY CallsAssumption DEF LInv, TypeOK, QueueTypeOK, Link, Add
<1>2. /\ pc' = [pc EXCEPT ![c] = "link"] /\ self' = self /\ inst' = inst
      /\ call' = [call EXCEPT ![c] = added + 1]
  BY DEF Link
<1>3. InstanceMade'
  BY <1>2 DEF LInv, TypeOK, InstanceMade
<1>4. UNCHANGED <<phase, ready, controller, languages, made, served, removing, disturbed,
                  referrers>> /\ callbacks' = cbs
  BY DEF Link
<1> QED  BY <1>1, <1>2, <1>3, <1>4 DEF LInv, TypeOK

LEMMA NextTyped ==
    ASSUME LInv, [Next]_vars
    PROVE  LInv'
<1>1. QueueInv' /\ QueueTypeOK'
  BY QueueKept DEF LInv, QueueInv
<1> USE DEF LInv
<1>0. UnlockedOnce'
  <2>1. CASE Crash \/ Unlock
    BY <2>1 DEF Crash, Unlock, UnlockedOnce, TypeOK, Controllers
  <2>2. CASE LoadInstalled \/ LanguagesReady
    BY <2>2 DEF LoadInstalled, LanguagesReady, UnlockedOnce
  <2>3. CASE UNCHANGED <<phase, controller>>
    BY <2>3 DEF UnlockedOnce
  <2> QED
    BY <2>1, <2>2, <2>3
    DEF Next, Proceed, vars, process, ZomeAnswer, Refer, Publish, Enter, GetMeta, Pack,
        Install, Fetch, Import, AppFound, AppMissing, InstallApp, EnableApp, Installed,
        InstallTimesOut, Link, Loaded, Fail, Remove, Removed, PutSettings, Disturb
<1> SUFFICES TypeOK' /\ InstanceMade'
  BY <1>1, <1>0
<1>2. CASE UNCHANGED vars
  BY <1>1, <1>2 DEF vars, disk, process, chain, bounds, TypeOK, InstanceMade
<1>3. CASE Unlock
  <2>1. controller' \in {0} \cup Controllers
    BY <1>3, LanguagesAssumption DEF Unlock, TypeOK, Controllers, UnlockedOnce
  <2>2. streamed' \in BOOLEAN
    BY <1>3 DEF Unlock
  <2>3. troubles' \in 0 .. MaxTroubles
    BY <1>3, LanguagesAssumption DEF Unlock, Trouble, TypeOK
  <2> QED  BY <1>1, <1>3, <2>1, <2>2, <2>3 DEF Unlock, disk, chain, TypeOK, InstanceMade
<1>4. CASE LoadInstalled
  <2>1. \E c \in Loads : UNCHANGED chain \/ Begin(c, "import")
    BY <1>4 DEF LoadInstalled, Loads
  <2> QED  BY <1>1, <1>4, <2>1, ChainTyped DEF LoadInstalled, disk, bounds, TypeOK
<1>5. CASE LanguagesReady
  BY <1>1, <1>5 DEF LanguagesReady, disk, chain, bounds, TypeOK, InstanceMade
<1>6. CASE ZomeAnswer
  BY <1>1, <1>6 DEF ZomeAnswer, disk, process, chain, bounds, TypeOK, InstanceMade
<1>7. ASSUME NEW c \in Callers, Refer(c) \/ Publish(c) PROVE TypeOK' /\ InstanceMade'
  <2>1. PICK s \in {"meta", "import", "fetch"} : Enter(c, s)
    BY <1>7 DEF Refer, Publish, FromDiskOrNet
  <2>2. c \in Loads /\ (UNCHANGED chain \/ Begin(c, s))
    BY <2>1 DEF Enter, Loads
  <2> QED  BY <1>1, <2>1, <2>2, ChainTyped DEF Enter, disk, bounds, TypeOK
<1>8. ASSUME NEW c \in Loads, GetMeta(c) \/ Pack(c) \/ Install(c) \/ Fetch(c)
      PROVE  TypeOK' /\ InstanceMade'
  <2>1. End(c) \/ \E s \in {"meta", "packing", "source", "fetch", "import"} : Goto(c, s)
    BY <1>8 DEF GetMeta, Pack, Install, Fetch, Serve, FromDiskOrNet
  <2>2. served' \subseteq Tasks
    BY <1>8 DEF GetMeta, Pack, Install, Fetch, Serve, TypeOK, process
  <2>3. bundle' \in BOOLEAN /\ temp' \in BOOLEAN
    BY <1>8 DEF GetMeta, Pack, Install, Fetch, TypeOK, disk
  <2>4. UNCHANGED <<app, streamed, phase, ready, controller, languages, callbacks, made,
                    removing, disturbed, referrers, bounds>>
    BY <1>8 DEF GetMeta, Pack, Install, Fetch, disk, process
  <2> QED  BY <1>1, <2>1, <2>2, <2>3, <2>4, ChainTyped DEF bounds, TypeOK
<1>9. ASSUME NEW c \in Loads, Import(c) PROVE TypeOK' /\ InstanceMade'
  <2>1. CASE bundle
    <3>1. made + 1 \in Instances /\ made + 1 \in 0 .. MaxMade
      BY <1>9, <2>1, LanguagesAssumption DEF Import, TypeOK, Instances
    <3>2. /\ made' = made + 1 /\ inst' = [inst EXCEPT ![c] = made + 1]
          /\ pc' = [pc EXCEPT ![c] = "info"] /\ self' = self /\ call' = call
      BY <1>9, <2>1 DEF Import
    <3>3. InstanceMade'
      BY <3>1, <3>2 DEF TypeOK, InstanceMade
    <3> QED  BY <1>1, <1>9, <3>1, <3>2, <3>3 DEF Import, disk, bounds, TypeOK
  <2>2. CASE ~bundle
    BY <1>1, <1>9, <2>2, ChainTyped DEF Import, disk, bounds, TypeOK
  <2> QED  BY <2>1, <2>2
<1>10. ASSUME NEW c \in Loads, AppMissing(c) PROVE TypeOK' /\ InstanceMade'
  BY <1>1, <1>10
  DEF AppMissing, Goto, At, disk, process, bounds, TypeOK, InstanceMade
<1>11. ASSUME NEW c \in Loads, AppFound(c) \/ InstallApp(c) \/ EnableApp(c)
       PROVE  TypeOK' /\ InstanceMade'
  <2>1. callbacks \cup {inst[c]} \in SUBSET Instances
    BY <1>11 DEF AppFound, InstallApp, EnableApp, At, InstanceMade, TypeOK
  <2>2. CASE AppFound(c)
    BY <1>1, <2>1, <2>2, LinkTyped DEF AppFound, disk, bounds, TypeOK
  <2>3. CASE InstallApp(c) /\ app # "absent"
    BY <1>1, <2>1, <2>3, LinkTyped DEF InstallApp, Installed, bounds, TypeOK
  <2>4. CASE InstallApp(c) /\ app = "absent"
    BY <1>1, <2>4 DEF InstallApp, Goto, At, process, bounds, TypeOK, InstanceMade
  <2>5. CASE EnableApp(c)
    BY <1>1, <2>1, <2>5, LinkTyped DEF EnableApp, Installed, bounds, TypeOK
  <2> QED  BY <1>11, <2>2, <2>3, <2>4, <2>5
<1>12. ASSUME NEW c \in Loads, InstallTimesOut(c) PROVE TypeOK' /\ InstanceMade'
  <2>1. callbacks \in SUBSET Instances /\ troubles' \in 0 .. MaxTroubles
    BY <1>12, LanguagesAssumption DEF InstallTimesOut, Trouble, TypeOK
  <2>2. app' \in {"absent", "disabled", "enabled"}
    BY <1>12 DEF InstallTimesOut, TypeOK
  <2> QED  BY <1>1, <1>12, <2>1, <2>2, LinkTyped DEF InstallTimesOut, TypeOK
<1>13. ASSUME NEW c \in Loads, Loaded(c) PROVE TypeOK' /\ InstanceMade'
  <2>1. languages' \in [Controllers -> 0 .. MaxMade]
    BY <1>13 DEF Loaded, TypeOK
  <2>2. End(c) /\ served' \subseteq Tasks
    BY <1>13 DEF Loaded, Serve, TypeOK
  <2> QED  BY <1>1, <1>13, <2>1, <2>2, ChainTyped DEF Loaded, disk, bounds, TypeOK
<1>14. ASSUME NEW c \in Loads, Fail(c) PROVE TypeOK' /\ InstanceMade'
  <2>1. End(c) /\ brokenOff' = brokenOff /\ troubles' \in 0 .. MaxTroubles
    BY <1>14, LanguagesAssumption DEF Fail, Trouble, bounds, TypeOK
  <2> QED  BY <1>1, <1>14, <2>1, ChainTyped DEF Fail, disk, process, TypeOK
<1>15. CASE Remove \/ PutSettings
  <2>1. languages' \in [Controllers -> 0 .. MaxMade]
    BY <1>15, LanguagesAssumption DEF Remove, PutSettings, Disturb, TypeOK
  <2>2. troubles' \in 0 .. MaxTroubles
    BY <1>15, TroubleTyped DEF Remove, PutSettings, Disturb
  <2>4. disturbed' \in BOOLEAN /\ removing' \in BOOLEAN
    BY <1>15 DEF Remove, PutSettings, Disturb, TypeOK
  <2>3. UNCHANGED <<disk, streamed, phase, ready, controller, callbacks, made, served,
                    referrers, chain, brokenOff>>
    BY <1>15 DEF Remove, PutSettings, Disturb
  <2> QED  BY <1>1, <2>1, <2>2, <2>3, <2>4 DEF disk, chain, TypeOK, InstanceMade
<1>16. CASE Removed
  BY <1>1, <1>16 DEF Removed, chain, bounds, TypeOK, InstanceMade
<1>17. CASE Crash
  <2>1. troubles' \in 0 .. MaxTroubles
    BY <1>17, LanguagesAssumption DEF Crash, Trouble, TypeOK
  <2>2. 0 \in 0 .. MaxMade /\ 0 \in 0 .. MaxCalls
    BY LanguagesAssumption, CallsAssumption
  <2>3. /\ languages' \in [Controllers -> 0 .. MaxMade] /\ inst' \in [Loads -> 0 .. MaxMade]
        /\ call' \in [Loads -> 0 .. MaxCalls] /\ made' \in 0 .. MaxMade
    BY <1>17, <2>2 DEF Crash
  <2>4. pc' = [c \in Loads |-> "idle"] /\ self' = [c \in Loads |-> 0]
    BY <1>17 DEF Crash
  <2>5. /\ streamed' = FALSE /\ phase' = "locked" /\ ready' = FALSE /\ controller' = 0
        /\ callbacks' = {} /\ served' = {} /\ removing' = FALSE /\ disturbed' = FALSE
        /\ referrers' = {} /\ UNCHANGED <<bundle, temp, app>> /\ brokenOff' \in BOOLEAN
    BY <1>17 DEF Crash, disk, ConductorFree, TypeOK
  <2> QED  BY <1>1, <2>1, <2>3, <2>4, <2>5 DEF TypeOK, InstanceMade
<1> QED
  BY <1>2, <1>3, <1>4, <1>5, <1>6, <1>7, <1>8, <1>9, <1>10, <1>11, <1>12, <1>13, <1>14,
     <1>15, <1>16, <1>17
  DEF Next, Proceed

-----------------------------------------------------------------------------
(* Who is on the way.                                                      *)

OnTheWay(c) == ~At(c, "idle")

(* What a caller on the way leaves alone.                                  *)
LEMMA StepOnTheWay ==
    ASSUME LInv, NEW c \in Loads, Proceed(c) \/ Fail(c) \/ InstallTimesOut(c)
    PROVE  /\ OnTheWay(c)
           /\ UNCHANGED <<phase, ready, controller, disturbed, referrers>>
           /\ \A d \in Loads \ {c} : pc'[d] = pc[d] /\ inst'[d] = inst[d]
           /\ \A d \in Loads : pc'[d] # "idle" => self'[d] = self[d]
           /\ pc'[c] = "link" => inst'[c] \in Instances
<1> USE DEF LInv, TypeOK, InstanceMade, OnTheWay, At
<1>1. CASE GetMeta(c) \/ Pack(c) \/ Install(c) \/ Fetch(c) \/ AppMissing(c)
  BY <1>1 DEF GetMeta, Pack, Install, Fetch, AppMissing, Serve, FromDiskOrNet, Goto, End, process
<1>2. CASE Import(c)
  BY <1>2 DEF Import, End
<1>3. CASE AppFound(c) \/ InstallApp(c) \/ EnableApp(c) \/ InstallTimesOut(c)
  <2>1. /\ pc[c] \in {"info", "app", "enable"}
        /\ inst' = inst /\ self' = self
        /\ UNCHANGED <<phase, ready, controller, disturbed, referrers>>
    BY <1>3 DEF AppFound, InstallApp, EnableApp, Installed, InstallTimesOut, Link, Goto, process
  <2>2. \E t \in {"enable", "link"} : pc' = [pc EXCEPT ![c] = t]
    BY <1>3 DEF AppFound, InstallApp, EnableApp, Installed, InstallTimesOut, Link, Goto
  <2> QED  BY <2>1, <2>2
<1>4. CASE Loaded(c)
  BY <1>4 DEF Loaded, Serve, End
<1>5. CASE Fail(c)
  BY <1>5 DEF Fail, End, process
<1> QED  BY <1>1, <1>2, <1>3, <1>4, <1>5 DEF Proceed

(* loadInstalledLanguages() is awaited before the next unlock.             *)
LoaderAwaited == OnTheWay(Loader) => phase = "installed"

LEMMA NextLoader ==
    ASSUME LInv, LoaderAwaited, [Next]_vars
    PROVE  LoaderAwaited'
<1> USE DEF OnTheWay, At
<1>0. /\ Loader \in Loads /\ Loader \notin Callers
      /\ pc \in [Loads -> {"idle", "meta", "packing", "source", "fetch", "import",
                            "info", "app", "enable", "link"}]
  BY LanguagesAssumption DEF Loads, LInv, TypeOK
<1>1. CASE UNCHANGED <<phase, pc>>
  BY <1>1 DEF LoaderAwaited
<1>2. CASE Unlock \/ LoadInstalled \/ LanguagesReady \/ Crash
  BY <1>0, <1>2 DEF Unlock, LoadInstalled, LanguagesReady, Crash, LoaderAwaited, chain
<1>3. ASSUME NEW c \in Callers, Refer(c) \/ Publish(c) PROVE LoaderAwaited'
  BY <1>0, <1>3 DEF Refer, Publish, Enter, Begin, chain, LoaderAwaited
<1>4. ASSUME NEW c \in Loads, Proceed(c) \/ Fail(c) \/ InstallTimesOut(c)
      PROVE  LoaderAwaited'
  BY <1>0, <1>4, StepOnTheWay DEF LoaderAwaited
<1> QED
  BY <1>1, <1>2, <1>3, <1>4
  DEF Next, vars, process, chain, ZomeAnswer, Remove, Removed, PutSettings, Disturb

-----------------------------------------------------------------------------
(* What is heard of.                                                       *)

(* A step that makes no callback, app, instance or entry of the map, and   *)
(* trusts no more than before, keeps all of it.                            *)
LEMMA NothingHeard ==
    ASSUME HearingInv,
           \A c \in Loads : pc'[c] = "link" => pc[c] = "link",
           \A c \in Loads : (pc'[c] = "enable") <=> (pc[c] = "enable"),
           \A k \in Controllers : languages'[k] # 0 => languages[k] # 0,
           brokenOff \in BOOLEAN, disturbed \in BOOLEAN,
           UNCHANGED <<app, streamed, callbacks, brokenOff>>,
           disturbed => disturbed', removing' => disturbed',
           controller' > 0 => controller > 0 \/ (app = "enabled" => streamed)
    PROVE  HearingInv'
BY DEF HearingInv, Trusted, Heard, At, ConductorFree

LEMMA NextHearing ==
    ASSUME LInv, LoaderAwaited, HearingInv, [Next]_vars
    PROVE  HearingInv'
<1> USE DEF LInv
<1>1. /\ brokenOff \in BOOLEAN /\ disturbed \in BOOLEAN /\ controller \in Nat
      /\ app \in {"absent", "disabled", "enabled"}
  BY LanguagesAssumption DEF TypeOK, Controllers
<1>2. removing => disturbed
  BY DEF HearingInv
<1>3. CASE UNCHANGED vars
  BY <1>1, <1>2, <1>3, NothingHeard DEF vars, disk, process, chain, bounds
<1>4. CASE Unlock
  <2>1. UNCHANGED <<app, languages, callbacks, pc, brokenOff, disturbed, removing>>
    BY <1>4 DEF Unlock, disk, chain
  <2>2. ASSUME Trusted, app = "enabled" PROVE streamed'
    <3>1. controller = 0 \/ streamed
      BY <1>1, <2>2 DEF HearingInv
    <3>2. streamed' = (streamed \/ (controller = 0 /\ app = "enabled"))
      BY <1>4 DEF Unlock
    <3> QED  BY <2>2, <3>1, <3>2, Zenon
  <2> QED  BY <2>1, <2>2 DEF HearingInv, Trusted, Heard, At, ConductorFree
<1>5. CASE LoadInstalled \/ LanguagesReady \/ ZomeAnswer
  <2>1. /\ \A c \in Loads : pc'[c] = "link" => pc[c] = "link"
        /\ \A c \in Loads : (pc'[c] = "enable") <=> (pc[c] = "enable")
    <3>1. CASE UNCHANGED pc
      BY <3>1
    <3>2. CASE LoadInstalled /\ Begin(Loader, "import")
      <4>1. pc[Loader] # "enable"
        BY <3>2 DEF LoadInstalled, LoaderAwaited, OnTheWay, At
      <4> QED  BY <3>2, <4>1 DEF Begin, TypeOK
    <3> QED  BY <1>5, <3>1, <3>2 DEF LoadInstalled, LanguagesReady, ZomeAnswer, chain
  <2>2. UNCHANGED <<app, streamed, callbacks, brokenOff, languages, controller, disturbed,
                    removing>>
    BY <1>5 DEF LoadInstalled, LanguagesReady, ZomeAnswer, disk, process, bounds
  <2> QED  BY <1>1, <1>2, <2>1, <2>2, NothingHeard
<1>6. ASSUME NEW c \in Callers, Refer(c) \/ Publish(c) PROVE HearingInv'
  <2>1. PICK s \in {"meta", "import", "fetch"} : Enter(c, s)
    BY <1>6 DEF Refer, Publish, FromDiskOrNet
  <2>2. /\ \A d \in Loads : pc'[d] = "link" => pc[d] = "link"
        /\ \A d \in Loads : (pc'[d] = "enable") <=> (pc[d] = "enable")
    BY <2>1 DEF Enter, chain, Begin, At, TypeOK
  <2>3. UNCHANGED <<app, streamed, callbacks, brokenOff, languages, controller, disturbed,
                    removing>>
    BY <2>1 DEF Enter, disk, bounds
  <2> QED  BY <1>1, <1>2, <2>2, <2>3, NothingHeard
<1>7. ASSUME NEW c \in Loads,
             GetMeta(c) \/ Pack(c) \/ Install(c) \/ Fetch(c) \/ Import(c) \/ AppMissing(c)
             \/ Fail(c)
      PROVE  HearingInv'
  <2>1. /\ \A d \in Loads : pc'[d] = "link" => pc[d] = "link"
        /\ \A d \in Loads : (pc'[d] = "enable") <=> (pc[d] = "enable")
    BY <1>7 DEF GetMeta, Pack, Install, Fetch, Import, AppMissing, Fail, Serve,
                FromDiskOrNet, Goto, End, At, TypeOK
  <2>2. UNCHANGED <<app, streamed, callbacks, brokenOff, languages, controller, disturbed,
                    removing>>
    BY <1>7 DEF GetMeta, Pack, Install, Fetch, Import, AppMissing, Fail, disk, process, bounds
  <2> QED  BY <1>1, <1>2, <2>1, <2>2, NothingHeard
<1>8. ASSUME NEW c \in Loads, AppFound(c) \/ (InstallApp(c) /\ app # "absent") \/ EnableApp(c)
      PROVE  HearingInv'
  <2>1. /\ callbacks' = callbacks \cup {inst[c]}
        /\ UNCHANGED <<brokenOff, languages, controller, disturbed, removing>>
        /\ pc' = [pc EXCEPT ![c] = "link"]
    BY <1>8 DEF AppFound, InstallApp, EnableApp, Installed, Link, bounds
  <2>2. ~brokenOff => app' = "enabled" /\ (app # app' => streamed')
    BY <1>1, <1>8 DEF AppFound, InstallApp, EnableApp, Installed, HearingInv, disk
  <2>3. streamed => streamed'
    BY <1>8 DEF AppFound, InstallApp, EnableApp, Installed
  <2>4. Trusted => Heard'
    BY <2>1, <2>2 DEF Trusted, Heard
  <2>5. \A d \in Loads : pc'[d] # "enable"
    <3>1. \A d \in Loads \ {c} : pc[d] # "enable"
      BY <1>8 DEF AppFound, InstallApp, EnableApp, ConductorFree, HearingInv, At
    <3> QED  BY <2>1, <3>1 DEF TypeOK
  <2> QED  BY <1>1, <2>1, <2>2, <2>3, <2>4, <2>5 DEF HearingInv, Trusted, At
<1>14. ASSUME NEW c \in Loads, InstallApp(c), app = "absent" PROVE HearingInv'
  <2>1. /\ app' = "disabled" /\ pc' = [pc EXCEPT ![c] = "enable"]
        /\ \A d \in Loads : pc[d] # "enable"
        /\ UNCHANGED <<callbacks, brokenOff, languages, controller, disturbed, removing>>
    BY <1>14 DEF InstallApp, Goto, ConductorFree, At, process, bounds
  <2>2. pc'[c] = "enable" /\ \A d \in Loads \ {c} : pc'[d] = pc[d]
    BY <2>1 DEF TypeOK
  <2>3. ~ConductorFree'
    BY <2>2 DEF ConductorFree, At
  <2>4. /\ Trusted => \A d \in Loads : pc[d] # "link"
        /\ Trusted => \A k \in Controllers : languages[k] = 0
    BY <1>14 DEF HearingInv, Heard, At
  <2> QED  BY <1>1, <1>2, <2>1, <2>2, <2>3, <2>4 DEF HearingInv, Trusted, At
<1>9. ASSUME NEW c \in Loads, InstallTimesOut(c) PROVE HearingInv'
  <2>1. brokenOff' /\ UNCHANGED <<disturbed, removing>> /\ pc' = [pc EXCEPT ![c] = "link"]
    BY <1>9 DEF InstallTimesOut, Link
  <2>2. \A d \in Loads : pc'[d] # "enable"
    <3>1. \A d \in Loads \ {c} : pc[d] # "enable"
      BY <1>9 DEF InstallTimesOut, ConductorFree, HearingInv, At
    <3> QED  BY <2>1, <3>1 DEF TypeOK
  <2> QED  BY <2>1, <2>2 DEF HearingInv, Trusted, At
<1>10. ASSUME NEW c \in Loads, Loaded(c) PROVE HearingInv'
  <2>1. UNCHANGED <<app, streamed, callbacks, brokenOff, controller, disturbed, removing>>
    BY <1>10 DEF Loaded, disk, bounds
  <2>2. /\ \A d \in Loads : pc'[d] = "link" => pc[d] = "link"
        /\ \A d \in Loads : (pc'[d] = "enable") <=> (pc[d] = "enable")
    BY <1>10 DEF Loaded, Serve, End, At, TypeOK
  <2>3. Trusted => Heard
    BY <1>10 DEF Loaded, HearingInv
  <2> QED  BY <2>1, <2>2, <2>3 DEF HearingInv, Trusted, Heard, At, ConductorFree
<1>11. CASE Remove \/ PutSettings
  <2>1. disturbed' /\ UNCHANGED <<app, brokenOff, pc>>
    BY <1>11 DEF Remove, PutSettings, Disturb, disk, chain
  <2> QED  BY <2>1 DEF HearingInv, Trusted, At, ConductorFree
<1>12. CASE Removed
  BY <1>2, <1>12 DEF Removed, chain, bounds, HearingInv, Trusted, At, ConductorFree
<1>13. CASE Crash
  <2>1. /\ controller' = 0 /\ removing' = FALSE /\ app' = app
        /\ \A k \in Controllers : languages'[k] = 0
        /\ \A c \in Loads : pc'[c] = "idle"
    BY <1>13 DEF Crash, disk
  <2>2. ~brokenOff' => ~brokenOff /\ ConductorFree
    BY <1>13, Zenon DEF Crash
  <2>3. ~brokenOff' => app # "disabled"
    BY <2>2 DEF HearingInv
  <2> QED  BY <2>1, <2>3 DEF HearingInv, Trusted, At
<1> QED
  BY <1>3, <1>4, <1>5, <1>6, <1>7, <1>8, <1>9, <1>10, <1>11, <1>12, <1>13,
     <1>14
  DEF Next, Proceed

-----------------------------------------------------------------------------
LEMMA LanguagesInv == Spec => [](LInv /\ LoaderAwaited /\ HearingInv)
<1>1. Init => HearingInv
  BY DEF Init, HearingInv, Trusted, Heard, At, ConductorFree
<1>2. Init => LoaderAwaited
  BY DEF Init, LoaderAwaited, OnTheWay, At, Loads
<1>3. LInv /\ LoaderAwaited /\ HearingInv /\ [Next]_vars => (LInv /\ LoaderAwaited /\ HearingInv)'
  BY NextTyped, NextLoader, NextHearing
<1> QED  BY InitLInv, <1>1, <1>2, <1>3, PTL DEF Spec

(* Every variable keeps its type, whoever loads, removes or dies when.     *)
THEOREM LanguagesTyped == Spec => []TypeOK
<1>1. LInv => TypeOK
  BY DEF LInv
<1> QED  BY LanguagesInv, <1>1, PTL

(* A language that languageByRef() returns has an enabled app, whose       *)
(* signals the process forwards, and a callback for them, until an         *)
(* installation was not carried through (it failed, timed out, or the      *)
(* process died between the installing and the enabling of the app), or    *)
(* the language was removed or reloaded.                                   *)
THEOREM LanguageIsHeard == Spec => []SomebodyHears
<1>1. LInv /\ HearingInv => SomebodyHears
  <2> SUFFICES ASSUME LInv, HearingInv, controller > 0, languages[controller] # 0,
                      ~brokenOff, ~disturbed
               PROVE  app = "enabled" /\ streamed /\ callbacks # {}
    BY DEF SomebodyHears
  <2>1. controller \in Controllers
    BY DEF LInv, TypeOK
  <2> QED  BY <2>1 DEF HearingInv, Trusted, Heard
<1> QED  BY LanguagesInv, <1>1, PTL

(* The calls of a language go one by one and none is forgotten, although   *)
(* crashes empty the queue and all instances of the language share it.     *)
THEOREM LanguageCallsOneByOne == Spec => [](OneByOne /\ NoLostWakeup)
<1>1. LInv => OneByOne /\ NoLostWakeup
  BY DEF LInv, QueueInv
<1> QED  BY LanguagesInv, <1>1, PTL

-----------------------------------------------------------------------------
(* What is heard once.                                                     *)

LEMMA AtMostOne ==
    ASSUME NEW S, IsFiniteSet(S)
    PROVE  Cardinality(S) <= 1 <=> \A x, y \in S : x = y
<1>1. Cardinality(S) \in Nat
  BY FS_CardinalityType
<1>2. Cardinality(S) = 0 <=> S = {}
  BY FS_EmptySet
<1>3. Cardinality(S) = 1 <=> \E x : S = {x}
  BY FS_Singleton
<1>4. Cardinality(S) <= 1 <=> Cardinality(S) = 0 \/ Cardinality(S) = 1
  BY <1>1
<1>5. (\A x, y \in S : x = y) <=> S = {} \/ \E x : S = {x}
  OBVIOUS
<1> QED  BY <1>2, <1>3, <1>4, <1>5

(* Who is on the way: the loader before the language controller is ready,  *)
(* a task after that, and both for the controller of the only unlock.      *)
Coming ==
    /\ controller <= 1 =>
          (ready <=> phase = "up") /\ (OnTheWay(Loader) => phase = "installed")
    /\ \A c \in Loads : OnTheWay(c) =>
          /\ controller > 0 /\ (controller = 1 => self[c] = 1)
          /\ c # Loader => c \in referrers
          /\ c \in Tasks => ready
    /\ \A c \in Loads : At(c, "link") => inst[c] \in Instances
    /\ IsFiniteSet(referrers)

Calm ==
    /\ controller <= 1 /\ ~disturbed
    /\ referrers \subseteq Tasks /\ \A b, d \in referrers : b = d

(* Who registers a callback is alone on the way, and until the map has its *)
(* instance nobody else can start; afterwards nobody does.                 *)
OnceInv ==
    Calm =>
       /\ \A i, j \in callbacks : i = j
       /\ callbacks # {} => languages[1] # 0 \/ \E c \in Loads : At(c, "link")
       /\ languages[1] # 0 =>
             phase \in {"installed", "up"} /\ \A c \in Loads : ~OnTheWay(c)

LEMMA AloneOnTheWay ==
    ASSUME Coming, Calm, NEW b \in Loads, NEW d \in Loads, OnTheWay(b), OnTheWay(d)
    PROVE  b = d
BY LanguagesAssumption DEF Coming, Calm, Loads

LEMMA NextComing ==
    ASSUME LInv, Coming, [Next]_vars
    PROVE  Coming'
<1> USE DEF OnTheWay, At
<1>0. Loader \in Loads /\ Callers \subseteq Loads /\ Loader \notin Callers
  BY LanguagesAssumption DEF Loads
<1>1. controller \in Nat /\ pc \in [Loads -> {"idle", "meta", "packing", "source", "fetch",
                                      "import", "info", "app", "enable", "link"}]
      /\ self \in [Loads -> {0} \cup Controllers]
  BY LanguagesAssumption DEF LInv, TypeOK, Controllers
<1>2. CASE UNCHANGED <<phase, ready, controller, referrers, chain>>
  BY <1>2 DEF Coming, chain
<1>3. CASE Unlock
  <2>1. /\ phase \in {"locked", "up"} /\ controller' = controller + 1 /\ phase' = "system"
        /\ UNCHANGED <<ready, referrers, chain>>
    BY <1>3 DEF Unlock
  <2>2. controller' <= 1 => phase = "locked" /\ controller = 0
    BY <1>1, <2>1 DEF LInv, UnlockedOnce
  <2>3. controller' = 1 => ~ready /\ \A c \in Loads : pc[c] = "idle"
    BY <1>1, <2>1, <2>2 DEF Coming
  <2> QED  BY <1>0, <1>1, <2>1, <2>3 DEF Coming, chain
<1>4. CASE LoadInstalled
  <2>1. /\ phase = "system" /\ phase' = "installed" /\ UNCHANGED <<ready, controller, referrers>>
        /\ UNCHANGED chain \/ Begin(Loader, "import")
    BY <1>4 DEF LoadInstalled
  <2>2. controller > 0
    BY <1>1, <2>1 DEF LInv, UnlockedOnce
  <2>3. CASE UNCHANGED chain
    BY <1>0, <1>1, <2>1, <2>3 DEF Coming, chain
  <2>4. CASE Begin(Loader, "import")
    <3>1. /\ \A c \in Callers : pc'[c] = pc[c] /\ self'[c] = self[c] /\ inst'[c] = inst[c]
          /\ pc'[Loader] = "import" /\ self'[Loader] = controller
      BY <1>0, <1>1, <2>4 DEF Begin
    <3>2. Loader \notin Tasks
      BY <1>0 DEF Callers
    <3> QED  BY <1>0, <1>1, <2>1, <2>2, <3>1, <3>2 DEF Coming, Loads
  <2> QED  BY <2>1, <2>3, <2>4
<1>5. CASE LanguagesReady
  <2>1. /\ phase' = "up" /\ ready' = TRUE /\ pc[Loader] = "idle"
        /\ UNCHANGED <<controller, referrers, chain>>
    BY <1>5 DEF LanguagesReady
  <2> QED  BY <2>1 DEF Coming, chain
<1>6. ASSUME NEW c \in Callers, Refer(c) \/ Publish(c) PROVE Coming'
  <2>1. PICK s \in {"meta", "import", "fetch"} : Enter(c, s)
    BY <1>6 DEF Refer, Publish, FromDiskOrNet
  <2>2. c \in Tasks => ready
    BY <1>6 DEF Refer, Publish
  <2>3. /\ controller > 0 /\ referrers' = referrers \cup {c}
        /\ UNCHANGED <<phase, ready, controller>>
        /\ UNCHANGED chain \/ Begin(c, s)
    BY <2>1 DEF Enter
  <2>6. IsFiniteSet(referrers')
    BY <2>3, FS_AddElement DEF Coming
  <2>4. CASE UNCHANGED chain
    BY <2>3, <2>4, <2>6 DEF Coming, chain
  <2>5. CASE Begin(c, s)
    <3>1. /\ \A d \in Loads \ {c} : pc'[d] = pc[d] /\ self'[d] = self[d] /\ inst'[d] = inst[d]
          /\ pc'[c] = s /\ self'[c] = controller
      BY <1>0, <1>1, <2>5 DEF Begin
    <3> QED  BY <1>0, <2>2, <2>3, <2>6, <3>1 DEF Coming
  <2> QED  BY <2>3, <2>4, <2>5
<1>7. ASSUME NEW c \in Loads, Proceed(c) \/ Fail(c) \/ InstallTimesOut(c) PROVE Coming'
  BY <1>0, <1>7, StepOnTheWay DEF Coming
<1>8. CASE Crash
  <2>1. /\ controller' = 0 /\ ready' = FALSE /\ phase' = "locked"
        /\ \A c \in Loads : pc'[c] = "idle"
        /\ IsFiniteSet(referrers')
    BY <1>8, FS_EmptySet DEF Crash
  <2> QED  BY <1>0, <2>1 DEF Coming
<1> QED
  BY <1>2, <1>3, <1>4, <1>5, <1>6, <1>7, <1>8
  DEF Next, vars, process, ZomeAnswer, Remove, Removed, PutSettings, Disturb

LEMMA NextOnce ==
    ASSUME LInv, Coming, OnceInv, [Next]_vars
    PROVE  OnceInv'
<1> SUFFICES ASSUME Calm' PROVE OnceInv'
  BY DEF OnceInv
<1> USE DEF OnTheWay, At
<1>0. Loader \in Loads /\ Callers \subseteq Loads /\ Loader \notin Callers /\ 1 \in Controllers
  BY LanguagesAssumption DEF Loads, Controllers
<1>1. controller \in Nat /\ pc \in [Loads -> {"idle", "meta", "packing", "source", "fetch",
                                      "import", "info", "app", "enable", "link"}]
      /\ languages \in [Controllers -> 0 .. MaxMade]
      /\ phase \in {"locked", "system", "installed", "up"}
  BY LanguagesAssumption DEF LInv, TypeOK, Controllers
<1>2. CASE UNCHANGED <<phase, controller, languages, callbacks, disturbed, referrers, chain>>
  BY <1>2 DEF OnceInv, Calm, chain
<1>3. CASE Unlock
  <2>1. /\ phase \in {"locked", "up"} /\ controller' = controller + 1
        /\ UNCHANGED <<languages, callbacks, disturbed, referrers, chain>>
    BY <1>3 DEF Unlock
  <2>2. phase = "locked" /\ controller = 0 /\ Calm
    BY <1>1, <2>1 DEF LInv, UnlockedOnce, Calm
  <2>3. \A c \in Loads : pc[c] = "idle"
    BY <2>2 DEF Coming
  <2> QED  BY <2>1, <2>2, <2>3 DEF OnceInv, chain
<1>4. CASE LoadInstalled
  <2>1. /\ phase = "system" /\ UNCHANGED <<controller, languages, callbacks, disturbed, referrers>>
        /\ UNCHANGED chain \/ Begin(Loader, "import")
    BY <1>4 DEF LoadInstalled
  <2>2. Calm
    BY <2>1 DEF Calm
  <2>3. \A c \in Loads : pc[c] = "idle"
    BY <2>1, <2>2, LanguagesAssumption DEF Coming, Calm, Loads
  <2>4. languages[1] = 0 /\ callbacks = {}
    BY <2>1, <2>2, <2>3 DEF OnceInv
  <2> QED  BY <2>1, <2>4 DEF OnceInv
<1>5. CASE LanguagesReady
  <2>1. phase' = "up" /\ UNCHANGED <<controller, languages, callbacks, disturbed, referrers, chain>>
    BY <1>5 DEF LanguagesReady
  <2> QED  BY <2>1 DEF OnceInv, Calm, chain
<1>6. ASSUME NEW c \in Callers, Refer(c) \/ Publish(c) PROVE OnceInv'
  <2>1. PICK s \in {"meta", "import", "fetch"} : Enter(c, s)
    BY <1>6 DEF Refer, Publish, FromDiskOrNet
  <2>2. /\ controller > 0 /\ referrers' = referrers \cup {c} /\ pc[c] = "idle"
        /\ UNCHANGED <<phase, controller, languages, callbacks, disturbed>>
        /\ IF languages[controller] # 0 THEN UNCHANGED chain ELSE Begin(c, s)
    BY <2>1 DEF Enter
  <2>3. Calm /\ controller = 1
    BY <1>1, <2>2 DEF Calm
  <2>4. CASE languages[1] # 0
    BY <2>2, <2>3, <2>4 DEF OnceInv, chain
  <2>5. CASE languages[1] = 0
    <3>1. Begin(c, s)
      BY <2>2, <2>3, <2>5
    <3>2. \A d \in Loads : pc[d] = "link" => pc'[d] = "link"
      BY <1>1, <2>2, <3>1 DEF Begin
    <3> QED  BY <2>2, <2>3, <2>5, <3>2 DEF OnceInv
  <2> QED  BY <2>4, <2>5
<1>7. ASSUME NEW c \in Loads, Proceed(c) \/ Fail(c) \/ InstallTimesOut(c) PROVE OnceInv'
  <2>1. /\ OnTheWay(c) /\ UNCHANGED <<phase, ready, controller, disturbed, referrers>>
        /\ \A d \in Loads \ {c} : pc'[d] = pc[d]
    BY <1>7, StepOnTheWay
  <2>2. Calm
    BY <2>1 DEF Calm
  <2>3. /\ \A d \in Loads \ {c} : pc[d] = "idle"
        /\ languages[1] = 0
        /\ callbacks # {} => pc[c] = "link"
        /\ self[c] = 1
    BY <1>1, <2>1, <2>2, AloneOnTheWay DEF OnceInv, Calm, Coming
  <2>4. CASE GetMeta(c) \/ Pack(c) \/ Install(c) \/ Fetch(c) \/ Import(c) \/ AppMissing(c)
             \/ Fail(c)
    <3>1. UNCHANGED <<languages, callbacks>> /\ pc[c] # "link"
      BY <2>4 DEF GetMeta, Pack, Install, Fetch, Import, AppMissing, Fail, process
    <3> QED  BY <2>3, <3>1 DEF OnceInv
  <2>7. CASE InstallApp(c) /\ app = "absent"
    <3>1. UNCHANGED <<languages, callbacks>> /\ pc[c] # "link"
      BY <2>7 DEF InstallApp, process
    <3> QED  BY <2>3, <3>1 DEF OnceInv
  <2>5. CASE \/ AppFound(c) \/ (InstallApp(c) /\ app # "absent") \/ EnableApp(c)
             \/ InstallTimesOut(c)
    <3>1. /\ pc[c] # "link" /\ pc'[c] = "link" /\ languages' = languages
          /\ callbacks' = callbacks \/ callbacks' = callbacks \cup {inst[c]}
      BY <1>1, <2>5 DEF AppFound, InstallApp, EnableApp, Installed, InstallTimesOut, Link
    <3>2. callbacks = {}
      BY <2>3, <3>1
    <3> QED  BY <2>3, <3>1, <3>2 DEF OnceInv
  <2>6. CASE Loaded(c)
    <3>1. /\ pc[c] = "link" /\ languages' = [languages EXCEPT ![1] = inst[c]]
          /\ callbacks' = callbacks /\ pc'[c] = "idle"
      BY <1>1, <2>3, <2>6 DEF Loaded, Serve, End
    <3>2. inst[c] \in Instances /\ inst[c] # 0
      BY <3>1 DEF Coming, Instances
    <3>3. languages'[1] # 0
      BY <1>0, <1>1, <3>1, <3>2
    <3>4. phase \in {"installed", "up"}
      BY <2>1, <2>2, LanguagesAssumption DEF Coming, Calm, Loads
    <3> QED  BY <2>1, <2>2, <2>3, <3>1, <3>3, <3>4 DEF OnceInv
  <2> QED  BY <1>7, <2>4, <2>5, <2>6, <2>7 DEF Proceed
<1>8. CASE Remove \/ PutSettings
  BY <1>8 DEF Remove, PutSettings, Disturb, Calm
<1>9. CASE Crash
  BY <1>0, <1>9 DEF Crash, OnceInv
<1> QED
  BY <1>2, <1>3, <1>4, <1>5, <1>6, <1>7, <1>8, <1>9
  DEF Next, vars, process, ZomeAnswer, Removed

(* A signal of the language is handled once, while one perspective alone   *)
(* refers to it in a process that was unlocked once: languageByRef() waits *)
(* for the loader, and everybody else for the map.                         *)
THEOREM SignalsHandledOnce == Spec => []HeardOnce
<1>1. Init => Coming /\ OnceInv
  BY LanguagesAssumption, FS_EmptySet DEF Init, Coming, OnceInv, OnTheWay, At, Loads, Controllers
<1>2. LInv /\ Coming /\ OnceInv /\ [Next]_vars => (LInv /\ Coming /\ OnceInv)'
  BY NextTyped, NextComing, NextOnce
<1>3. LInv /\ Coming /\ OnceInv => HeardOnce
  <2> SUFFICES ASSUME LInv, Coming, OnceInv, controller <= 1, ~disturbed,
                      referrers \subseteq Tasks, Cardinality(referrers) <= 1
               PROVE  Cardinality(callbacks) <= 1
    BY DEF HeardOnce
  <2>1. IsFiniteSet(referrers) /\ IsFiniteSet(callbacks)
    <3>1. callbacks \in SUBSET (1 .. MaxMade)
      BY DEF LInv, TypeOK, Instances
    <3>2. IsFiniteSet(1 .. MaxMade)
      BY LanguagesAssumption, FS_Interval
    <3> QED  BY <3>1, <3>2, FS_Subset DEF Coming
  <2>2. \A i, j \in callbacks : i = j
    BY <2>1, AtMostOne DEF OnceInv, Calm
  <2> QED  BY <2>1, <2>2, AtMostOne
<1> QED  BY InitLInv, <1>1, <1>2, <1>3, PTL DEF Spec
=============================================================================
