----------------------------- MODULE Languages -----------------------------
(***************************************************************************)
(* How one Holochain language comes into the executor and goes: the        *)
(* LanguageController and HolochainService of the TypeScript core, the     *)
(* Rust proxies that call it, and the conductor's app of the language.     *)
(*                                                                         *)
(* Loading a language is a long chain of awaits, and nothing keeps two     *)
(* callers from being in it at the same time: the map #languages is looked *)
(* at when the chain starts and written when it ends.  Callers are the     *)
(* background tasks of shared perspectives, which wait for the promise of  *)
(* waitForLanguages() and try again when they fail, queries of clients,    *)
(* which do neither, and the controller itself, which loads at the unlock  *)
(* whatever was installed before.  Every unlock makes a new controller     *)
(* with an empty map; HolochainService, its callbacks and its queues stay. *)
(*                                                                         *)
(* The disk and the conductor's apps survive a crash.  An instance of the  *)
(* language is what create() of its bundle returns.  The conductor serves  *)
(* one request after the other (holochain_service/mod.rs).  Whether the    *)
(* author is trusted, and what is in a template, is data.                  *)
(***************************************************************************)
EXTENDS ZomeQueue

CONSTANTS
    Tasks,        \* perspectives that have this link language
    Queries,      \* requests of clients that refer to the language, each of
                  \* which comes at most once in the life of a process
    MaxMade,      \* bound: instances in the life of a process
    MaxTroubles,  \* bound: failures, crashes, further unlocks, removals and
    MaxUnlocks,   \* changes of settings together; unlocks of a process
    Templated     \* is the author untrusted, so that the source is templated?

Loader  == "loader"             \* loadInstalledLanguages()
Callers == Tasks \cup Queries
Loads   == Callers \cup {Loader}

ASSUME LanguagesAssumption ==
    /\ Loader \notin Callers /\ Tasks \cap Queries = {}
    /\ Templated \in BOOLEAN
    /\ MaxMade \in Nat /\ MaxTroubles \in Nat /\ MaxUnlocks \in Nat \ {0}

VARIABLES
    bundle,       \* is bundle.js of the language on the disk?
    temp,         \* is the directory for templating its source there?
    app,          \* the conductor's app: "absent", "disabled", "enabled"
    streamed,     \* are the app's signals forwarded in this process?
    phase,        \* how far the last unlock is
    ready,        \* is the promise of waitForLanguages() resolved?
    controller,   \* the controllers of this process are 1 .. controller
    languages,    \* per controller, the instance in #languages, or 0
    callbacks,    \* the instances in #signalCallbacks
    made,         \* the instances of this process are 1 .. made
    pc,           \* per caller: where it awaits
    self,         \* ... the controller it started in
    inst,         \* ... the instance it has made
    call,         \* ... the zome call of its create()
    served,       \* the tasks that have their link language
    removing,     \* is languageRemove() under way?
    disturbed,    \* was the language removed or reloaded in this process?
    referrers,    \* the callers that came in this process
    brokenOff,    \* was an installation of the app not carried through?
    troubles

disk    == <<bundle, temp, app>>
process == <<streamed, phase, ready, controller, languages, callbacks, made, served,
             removing, disturbed, referrers>>
chain   == <<pc, self, inst, call>>
bounds  == <<brokenOff, troubles>>
vars    == <<disk, process, chain, bounds, queueVars>>

Instances   == 1 .. MaxMade
Controllers == 1 .. MaxUnlocks

TypeOK ==
    /\ QueueTypeOK
    /\ bundle \in BOOLEAN /\ temp \in BOOLEAN
    /\ app \in {"absent", "disabled", "enabled"}
    /\ streamed \in BOOLEAN /\ ready \in BOOLEAN
    /\ phase \in {"locked", "system", "installed", "up"}
    /\ controller \in {0} \cup Controllers
    /\ languages \in [Controllers -> 0 .. MaxMade]
    /\ callbacks \subseteq Instances
    /\ made \in 0 .. MaxMade
    /\ pc \in [Loads -> {"idle", "meta", "packing", "source", "fetch", "import",
                          "info", "app", "enable", "link"}]
    /\ self \in [Loads -> {0} \cup Controllers]
    /\ inst \in [Loads -> 0 .. MaxMade]
    /\ call \in [Loads -> 0 .. MaxCalls]
    /\ served \subseteq Tasks /\ referrers \subseteq Callers
    /\ removing \in BOOLEAN /\ disturbed \in BOOLEAN
    /\ brokenOff \in BOOLEAN /\ troubles \in 0 .. MaxTroubles

Init ==
    /\ bundle = FALSE /\ temp = FALSE /\ app = "absent"
    /\ streamed = FALSE /\ phase = "locked" /\ ready = FALSE
    /\ controller = 0 /\ languages = [k \in Controllers |-> 0]
    /\ callbacks = {} /\ made = 0
    /\ pc = [c \in Loads |-> "idle"] /\ self = [c \in Loads |-> 0]
    /\ inst = [c \in Loads |-> 0] /\ call = [c \in Loads |-> 0]
    /\ served = {} /\ removing = FALSE /\ disturbed = FALSE /\ referrers = {}
    /\ brokenOff = FALSE /\ troubles = 0
    /\ QueueInit

At(c, s)   == pc[c] = s
Goto(c, s) == pc' = [pc EXCEPT ![c] = s] /\ UNCHANGED <<self, inst, call>>
Begin(c, s) == /\ pc' = [pc EXCEPT ![c] = s] /\ UNCHANGED <<inst, call>>
               /\ self' = [self EXCEPT ![c] = controller]
End(c)     == /\ pc' = [pc EXCEPT ![c] = "idle"] /\ self' = [self EXCEPT ![c] = 0]
              /\ inst' = [inst EXCEPT ![c] = 0] /\ call' = [call EXCEPT ![c] = 0]
Trouble    == troubles < MaxTroubles /\ troubles' = troubles + 1

-----------------------------------------------------------------------------
(* agentUnlock and agentGenerate: initControllers(), and initLanguages()   *)
(* begins with the system languages.  The second unlock of a process finds *)
(* the service of Holochain running.                                       *)
Unlock ==
    /\ \/ phase = "locked" /\ UNCHANGED troubles
       \/ phase = "up" /\ controller < MaxUnlocks /\ Trouble
    /\ controller' = controller + 1
    /\ phase' = "system"
    /\ streamed' = (streamed \/ (controller = 0 /\ app = "enabled"))
    /\ UNCHANGED <<disk, ready, languages, callbacks, made, served, removing,
                   disturbed, referrers, chain, brokenOff, queueVars>>

(* loadSystemLanguages() is done; loadInstalledLanguages() loads what has  *)
(* a bundle on the disk.                                                   *)
LoadInstalled ==
    /\ phase = "system"
    /\ phase' = "installed"
    /\ IF bundle THEN Begin(Loader, "import") ELSE UNCHANGED chain
    /\ UNCHANGED <<disk, streamed, ready, controller, languages, callbacks, made, served,
                   removing, disturbed, referrers, bounds, queueVars>>

(* initLanguages(): loadLanguages() has returned.                          *)
LanguagesReady ==
    /\ phase = "installed" /\ At(Loader, "idle")
    /\ phase' = "up" /\ ready' = TRUE
    /\ UNCHANGED <<disk, streamed, controller, languages, callbacks, made, served,
                   removing, disturbed, referrers, chain, bounds, queueVars>>

-----------------------------------------------------------------------------
\* mutant: the loader keeps a proxy as well
ServeAnybody(c) == End(c) /\ served' = served \cup {c}

(* A caller has its language, and the task of a perspective keeps the      *)
(* proxy of it.                                                            *)
Serve(c) == End(c) /\ served' = served \cup ({c} \cap Tasks)

Enter(c, next) ==
    /\ controller > 0 /\ At(c, "idle")
    /\ c \in Queries => c \notin referrers
    /\ referrers' = referrers \cup {c}
    /\ IF languages[controller] # 0
       THEN served' = served \cup ({c} \cap Tasks) /\ UNCHANGED chain
       ELSE Begin(c, next) /\ UNCHANGED served
    /\ UNCHANGED <<disk, streamed, phase, ready, controller, languages, callbacks, made,
                   removing, disturbed, bounds, queueVars>>

\* mutant: the task of a perspective does not wait for the languages
ReferAtOnce(c) == Enter(c, "meta")

\* mutant: a task tries once
ReferOnce(c) ==
    /\ (c \in Tasks) => (ready /\ c \notin referrers)
    /\ Enter(c, "meta")

(* languageByRef(): of a task after waitForLanguages() in                  *)
(* language_by_address(), once and again every five seconds, and with      *)
(* every call of the language; of a query at any time.                     *)
Refer(c) ==
    /\ c \in Tasks => ready
    /\ Enter(c, "meta")

(* Where installLanguage() has the bundle from.                            *)
FromDiskOrNet == IF bundle THEN "import" ELSE "fetch"

(* install_language() of neighbourhood_publish_from_perspective(), which   *)
(* goes straight to installLanguage().                                     *)
Publish(c) == c \in Tasks \ served /\ ready /\ Enter(c, FromDiskOrNet)

(* Nothing that a caller awaited is there, or the conductor did not unpack *)
(* or pack the DNA in time: languageByRef() throws, and temp is not        *)
(* removed.                                                                *)
Fail(c) ==
    /\ pc[c] \in {"meta", "packing", "source", "fetch", "info"}
    /\ (Trouble /\ UNCHANGED brokenOff) \/ (phase = "system" /\ At(c, "meta") /\ UNCHANGED bounds)
    /\ End(c)
    /\ UNCHANGED <<disk, process, queueVars>>

(* The expression of the language is there.  From a trusted author, its    *)
(* source is fetched and hashed.  Otherwise readAndTemplateHolochainDNA()  *)
(* makes the directory for templating, which throws when it exists.        *)
GetMeta(c) ==
    /\ At(c, "meta")
    /\ IF ~Templated THEN Goto(c, "source") /\ UNCHANGED temp
       ELSE IF temp THEN End(c) /\ UNCHANGED temp
       ELSE Goto(c, "packing") /\ temp' = TRUE
    /\ UNCHANGED <<bundle, app, process, bounds, queueVars>>

(* The DNA is packed and the directory removed.                            *)
Pack(c) ==
    /\ At(c, "packing")
    /\ temp' = FALSE
    /\ Goto(c, "source")
    /\ UNCHANGED <<bundle, app, process, bounds, queueVars>>

(* The source of the language has the hash that its expression names.      *)
(* installLanguage(): unless the map has the language now, the bundle is   *)
(* taken from the disk, or fetched.                                        *)
Install(c) ==
    /\ At(c, "source")
    /\ IF languages[self[c]] # 0 THEN Serve(c) ELSE Goto(c, FromDiskOrNet) /\ UNCHANGED served
    /\ UNCHANGED <<disk, streamed, phase, ready, controller, languages, callbacks, made,
                   removing, disturbed, referrers, bounds, queueVars>>

(* saveLanguageBundle()                                                    *)
Fetch(c) ==
    /\ At(c, "fetch")
    /\ bundle' = TRUE
    /\ Goto(c, "import")
    /\ UNCHANGED <<temp, app, process, bounds, queueVars>>

-----------------------------------------------------------------------------
(* loadLanguage(): the bundle is imported, which fails when it was removed *)
(* in between; create() makes an instance, whose registerDNAs() asks the   *)
(* conductor for the app.                                                  *)
Import(c) ==
    /\ At(c, "import")
    /\ IF bundle
       THEN /\ made < MaxMade
            /\ made' = made + 1
            /\ inst' = [inst EXCEPT ![c] = made + 1]
            /\ pc' = [pc EXCEPT ![c] = "info"] /\ UNCHANGED <<self, call>>
       ELSE End(c) /\ UNCHANGED made
    /\ UNCHANGED <<disk, streamed, phase, ready, controller, languages, callbacks, served,
                   removing, disturbed, referrers, bounds, queueVars>>

(* registerDNAs() returns, with the callbacks cbs registered; create()     *)
(* links the agent's DID to its key by a zome call.                        *)
Link(c, cbs) ==
    /\ callbacks' = cbs
    /\ call' = [call EXCEPT ![c] = added + 1]
    /\ pc' = [pc EXCEPT ![c] = "link"]
    /\ Add
    /\ UNCHANGED <<phase, ready, controller, languages, made, served, removing, disturbed,
                   referrers, self, inst>>

\* mutant: an app that is there already gets no callback
AppFoundUnheard(c) ==
    /\ At(c, "info") /\ app # "absent"
    /\ Link(c, callbacks)
    /\ UNCHANGED <<disk, streamed, bounds>>

(* Requests to the conductor wait while it installs and enables the app.   *)
ConductorFree == \A c \in Loads : ~At(c, "enable")

(* ensureInstallDNAforLanguage(): the conductor has the app, enabled or    *)
(* not.                                                                    *)
AppFound(c) ==
    /\ At(c, "info") /\ app # "absent" /\ ConductorFree
    /\ Link(c, callbacks \cup {inst[c]})
    /\ UNCHANGED <<disk, streamed, bounds>>

(* ... or has not, and is asked to install it.                             *)
AppMissing(c) ==
    /\ At(c, "info") /\ app = "absent"
    /\ Goto(c, "app")
    /\ UNCHANGED <<disk, process, bounds, queueVars>>

(* install_app() of holochain_service has returned: the signals of the app *)
(* are forwarded from now on.                                              *)
Installed(c) == streamed' = TRUE /\ Link(c, callbacks \cup {inst[c]})

(* install_app(): an app that somebody else has installed since is         *)
(* returned as it is.  Otherwise it is installed, ...                      *)
InstallApp(c) ==
    /\ At(c, "app") /\ ConductorFree
    /\ IF app # "absent"
       THEN Installed(c) /\ UNCHANGED app
       ELSE app' = "disabled" /\ Goto(c, "enable") /\ UNCHANGED <<process, queueVars>>
    /\ UNCHANGED <<bundle, temp, bounds>>

(* ... and enabled by a second call, which nothing makes up for.           *)
EnableApp(c) ==
    /\ At(c, "enable")
    /\ app' = "enabled"
    /\ Installed(c)
    /\ UNCHANGED <<bundle, temp, bounds>>

(* The conductor fails, or is not done in ten seconds and stops where it   *)
(* is: ensureInstallDNAforLanguage() registers no callback and returns.    *)
InstallTimesOut(c) ==
    /\ (At(c, "app") /\ ConductorFree) \/ At(c, "enable")
    /\ Trouble
    /\ brokenOff' = TRUE
    /\ app' \in {app} \cup (IF At(c, "enable") THEN {"enabled"}
                           ELSE IF app = "absent" THEN {"disabled"} ELSE {})
    /\ Link(c, callbacks)
    /\ UNCHANGED <<bundle, temp, streamed>>

(* create() returns: the instance replaces what the map has.               *)
Loaded(c) ==
    /\ At(c, "link") /\ call[c] \in answered
    /\ languages' = [languages EXCEPT ![self[c]] = inst[c]]
    /\ Serve(c)
    /\ UNCHANGED <<disk, streamed, phase, ready, controller, callbacks, made, removing,
                   disturbed, referrers, bounds, queueVars>>

(* The conductor answers a zome call of some instance.                     *)
ZomeAnswer ==
    /\ ConductorFree
    /\ \E j \in Calls : Answer(j)
    /\ UNCHANGED <<disk, process, chain, bounds>>

-----------------------------------------------------------------------------
Disturb ==
    /\ Trouble
    /\ disturbed' = TRUE
    /\ controller > 0
    /\ languages' = [languages EXCEPT ![controller] = 0]
    /\ UNCHANGED <<disk, streamed, phase, ready, controller, callbacks, made, served,
                   referrers, chain, brokenOff, queueVars>>

(* languageRemove(): out of the map, then the app is to be removed.        *)
Remove == ~removing /\ Disturb /\ removing' = TRUE

(* ... and when that is done or has failed, the files of the language.     *)
(* The callbacks stay.                                                     *)
Removed ==
    /\ removing /\ ConductorFree
    /\ removing' = FALSE
    /\ app' = "absent" /\ streamed' = FALSE /\ bundle' = FALSE
    /\ UNCHANGED <<temp, phase, ready, controller, languages, callbacks, made,
                   served, disturbed, referrers, chain, bounds, queueVars>>

(* putSettings(): reloadLanguage() takes the language out of the map and   *)
(* fails at the name address, which nothing declares.                      *)
PutSettings ==
    /\ controller > 0 /\ languages[controller] # 0
    /\ Disturb /\ UNCHANGED removing

(* The process dies, and the disk and the conductor's apps stay: also one  *)
(* that was installed and has yet to be enabled.                           *)
Crash ==
    /\ phase # "locked" /\ Trouble
    /\ streamed' = FALSE /\ phase' = "locked" /\ ready' = FALSE
    /\ controller' = 0 /\ languages' = [k \in Controllers |-> 0]
    /\ callbacks' = {} /\ made' = 0
    /\ pc' = [c \in Loads |-> "idle"] /\ self' = [c \in Loads |-> 0]
    /\ inst' = [c \in Loads |-> 0] /\ call' = [c \in Loads |-> 0]
    /\ served' = {} /\ removing' = FALSE /\ disturbed' = FALSE /\ referrers' = {}
    /\ added' = 0 /\ queue' = <<>> /\ pendingCount' = 0
    /\ running' = {} /\ answered' = {}
    /\ brokenOff' = (brokenOff \/ ~ConductorFree)
    /\ UNCHANGED disk

(* What a caller does when what it awaits is there.                        *)
Proceed(c) ==
    \/ GetMeta(c) \/ Pack(c) \/ Install(c) \/ Fetch(c)
    \/ Import(c) \/ AppFound(c) \/ AppMissing(c) \/ InstallApp(c)
    \/ EnableApp(c) \/ Loaded(c)

Next ==
    \/ Unlock \/ LoadInstalled \/ LanguagesReady \/ ZomeAnswer
    \/ \E c \in Callers : Refer(c) \/ Publish(c)
    \/ \E c \in Loads : Proceed(c) \/ Fail(c) \/ InstallTimesOut(c)
    \/ Remove \/ Removed \/ PutSettings \/ Crash

(* What is awaited comes, the user unlocks a locked executor, and a task   *)
(* without its language comes back every five seconds.  Nobody is obliged  *)
(* to query, publish, remove, fail or crash.                               *)
Fairness ==
    /\ WF_vars(phase = "locked" /\ Unlock)
    /\ WF_vars(LoadInstalled) /\ WF_vars(LanguagesReady)
    /\ WF_vars(ZomeAnswer) /\ WF_vars(Removed)
    /\ \A c \in Loads : WF_vars(Proceed(c))
    /\ \A c \in Tasks : WF_vars(c \notin served /\ Refer(c))

Spec     == Init /\ [][Next]_vars
FairSpec == Spec /\ Fairness

-----------------------------------------------------------------------------
(* A language that the controller hands out is heard of by somebody: its   *)
(* app is enabled, the process forwards its signals, and one of its        *)
(* instances has a callback for them; also after crashes on the way to its *)
(* first installation, whoever else was on it.  Unless an installation was *)
(* not carried through, as when it failed, timed out, or the process died  *)
(* between the conductor's installing and enabling of the app: a disabled  *)
(* app is found by whoever comes later and never enabled.  And until the   *)
(* user removes or reconfigures the language.                              *)
SomebodyHears ==
    (controller > 0 /\ languages[controller] # 0 /\ ~brokenOff /\ ~disturbed)
        => app = "enabled" /\ streamed /\ callbacks # {}

(* No signal is handled twice, while the language is referred to by the    *)
(* task of one perspective only, in a process that was unlocked once:      *)
(* the task waits for loadInstalledLanguages().  With a second perspective *)
(* or a query it is not so, nor after a second unlock or a removal.        *)
HeardOnce ==
    (controller <= 1 /\ ~disturbed /\ referrers \subseteq Tasks /\ Cardinality(referrers) <= 1)
        => Cardinality(callbacks) <= 1

(* Nobody is templating, and the directory is there: who comes next finds  *)
(* it and fails, in this process and in all later ones.                    *)
LeftBehind == temp /\ \A c \in Loads : ~At(c, "packing")

(* A perspective gets its link language in the end, whatever fails, is     *)
(* removed or restarted on the way; unless templating was interrupted.     *)
(* That the app of the language is left disabled does not keep it from it. *)
EventuallyServed == \A c \in Tasks : <>[](c \in served \/ LeftBehind)
=============================================================================
