# A TLA+ model of the AD4M executor

AD4M (Agent-Centric Distributed Application Meta-ontology) is run by an
*executor* on every user's machine. Agents keep graphs of links
(*perspectives*), query them with Prolog, and share them as *neighbourhoods*
through *link languages*, the default one being `perspective-diff-sync` on
Holochain. This directory models the parts of the executor where concurrency,
failures and delivery decide whether a shared graph stays whole, checks them
with TLC, and proves the central results for any number of agents and diffs
with TLAPS.

Contents: [the system](#1-the-system), [the plan](#2-the-plan),
[the modules](#3-the-modules-and-the-code), [the runs](#4-the-runs),
[fairness](#5-fairness), [the proofs](#6-the-proofs),
[findings](#7-where-code-and-text-disagree), [what is left out](#8-what-is-not-modelled).

## 1. The system

Paths are relative to `src/`. `RE` stands for `rust-executor/src`, `PDS` for
`bootstrap-languages/p-diff-sync`.

```
 clients ── GraphQL ──> RE/graphql ──> RE/perspectives ── rows ──> RE/db.rs (SQLite)
                              │            │    │
                       RE/pubsub.rs        │    └── facts, queries ──> RE/prolog_service
                     (subscriptions)       │
                                           │ lock `link_language`
                                           ▼
                    RE/languages ──> RE/js_core (Deno) ──> executor/ (TypeScript):
                                                           LanguageController, HolochainService
                                                               │ sync, commit; callbacks for diffs,
                                                               ▼ sync state and signals
                              PDS/linksAdapter.ts ── zome calls ──> PDS/hc-dna (Rust zomes)
                                                               │            │
                                                               └── remote signals and DHT entries
                                                                   to and from the other agents
```

| Component | State it keeps | Operations | What is hard | What makes it correct |
|---|---|---|---|---|
| **perspective-diff-sync** (`PDS/hc-dna/.../link_adapter`, `PDS/linksAdapter.ts`) | source chain with the agent's revisions and current revision; entries of the DHT; in the adapter: remembered revision, peers' revisions, sync state | `commit`, `sync`, `gossip`/`pull`, `merge`, `handle_broadcast`, signals | broadcasts beside the adapter's mutex, lost or overtaken signals, refused calls, a scribe chosen from a stale set of peers | no revision lost; a diff handed over once, with its whole history; agents converge |
| **Search of the revision graph** (`workspace.rs`, `topo_sort.rs`) | two breadth-first searches, the region found | `build_diffs`, `collect_until_common_ancestor`, `sort_graph`, `all_ancestors` | vectors that shrink while they are walked, side branches that leave the region, more than one root | ends; decides like the whole histories |
| **Snapshots and render** (`snapshots.rs`, `chunked_diffs.rs`, `render.rs`) | snapshot entries | `generate_snapshot`, `load`, `render` | branches that join below a snapshot | a snapshot stands for exactly the history below it |
| **A link language behind a server** (`bootstrap-languages/centralized-p-diff-sync`) | the server's log and the date it keeps per agent; in the adapter: `myCurrentTime`, `hasCalledSync` | `sync`, `commit`, `render`, the socket's events | signals before the first sync, answers that overtake each other, broken connections, restarts, diffs that are stored by tasks of their own | no date is past a diff that the agent lacks; everything comes |
| **Telepresence** (`PDS/telepresenceAdapter.ts`, `telepresence/`) | online status | signals to agents | – | – (sent and forgotten) |
| **PerspectiveInstance: commits** (`RE/perspectives/perspective_instance.rs`, `RE/db.rs`) | rows of `perspective_diff`, the lock `link_language`, the count of immediate commits | `commit`, `pending_diffs_loop`, `ensure_link_language`, `nh_sync_loop` | a decision made before a lock is awaited, rows added while others are committed, failures, restarts, a language that is not there yet | a diff is with its task, in the table or committed; each is committed in the end |
| **PerspectiveInstance: Prolog** (same file, `sdna.rs`, `RE/prolog_service`) | engine, facts, `prolog_needs_rebuild`, `prolog_update_mutex` | `ensure_prolog_engine`, `prolog_query`, `spawn_prolog_facts_update` | three locks, tasks spawned without an order, failing queries and builds | facts equal the links; every call is answered |
| **Links and the clients that write subjects** (same file, `core/src/perspectives`, `core/src/subject`, `ad4m-hooks/helpers`) | the links of a subject | `execute_commands`, `link_mutations`, setters, adders, removers | every request is several steps and nothing is locked between them; timestamps are milliseconds, and rows may be equal | a property keeps a value; who writes alone leaves what it was told to |
| **Notifications** (`perspective_instance.rs`, `RE/db.rs`, `RE/pubsub.rs`) | rows of `notifications`, the flag `links_have_changed`, matches of the last round, a watch channel per subscriber | `notification_check_loop`, `notification_trigger_snapshot`, request, update, grant, remove, publish, subscribe | rows, facts, flag and matches that are read at different times; queries that fail; channels that hold one message | no match is told twice; every match is told in the end and heard by all |
| **PerspectiveInstance: incoming diffs** | rows of links | `diff_from_link_language`, in a task per diff | tasks in any order | the graph is that of the revision |
| **Registry of perspectives** (`RE/perspectives/mod.rs`, `RE/neighbourhoods.rs`) | the map `PERSPECTIVES`, a handle in each instance and one in each row | add, update, remove, publish, join, state changes | check-then-insert, read-modify-write, languages that are waited for in between, restarts between the two stores | one instance per row, no lost update, one perspective of a neighbourhood |
| **Neighbourhoods** (`RE/neighbourhoods.rs`) | – | publish, join | what was there before publication | everything in the perspective is shared |
| **Ad4mDb** (`RE/db.rs`) | SQLite tables behind one mutex | keyed reads and writes | batches of diffs | – |
| **Holochain calls** (`executor/src/core/storage-services/Holochain`) | queue of zome calls, callbacks | `callZomeFunction`, `AsyncQueue` | errors returned as values, a call inside a callback | every call is answered, in order |
| **Languages** (`executor/src/core/LanguageController.ts`, `RE/languages`) | the map of languages per unlock, bundles on the disk, the conductor's apps and callbacks, which outlive it | refer, template, install, load, reload, remove | a long chain of awaits that several callers are in at once, slow conductor, crash half-way | what is handed out is heard of; a perspective gets its language in the end |
| **JavaScript core** (`RE/js_core`), **conductor service** (`RE/holochain_service`) | channels to an embedded runtime | request, answer | – | every request is answered |
| **PubSub** (`RE/pubsub.rs`, `RE/graphql/subscription_resolvers.rs`) | per topic a watch channel for each subscriber | publish, subscribe | only the last message is kept, dead subscribers are removed while publishing | subscribers see the last message |
| **Agent and wallet** (`RE/agent`, `RE/wallet.rs`, `executor/src/core/agent`, `Ad4mCore.ts`) | keys, locked or not; `agent.json`, `agentProfile.json`; the profile in memory, and its expression in the agent language | generate, unlock, lock, load, update of the profile | a profile that is read, awaited with and written back; a restart or a lock half-way; errors that are answers | the profile is what the calls made of it, and it is what others see |
| **AI service** (`RE/ai_service`) | rows of models, tasks, the default model and the status; `llm_channel`, a thread per model | `load`, add, update and remove of models and tasks, `set_default_model`, `prompt` | one lock held while a model is loaded or infers, loops that end at the first failure, tasks that move between threads, late progress | calls end; threads run what the rows say |
| **Capabilities** (`RE/agent/capabilities`) | requests, permits and tokens | request, permit, generate | a permit used twice | a token only for what was permitted |
| **Runtime, entanglement, resolvers** | rows | keyed reads and writes | – | – |
| **Other bootstrap languages; client library, CLI, launcher, hooks** | – | store and fetch; clients of GraphQL | – | – |

How the shared graph travels. A mutation writes the links into the database and
spawns a task for `PerspectiveInstance::commit()` and one that brings the Prolog
facts up to date. The task, or `pending_diffs_loop()` after it, calls the link
language under the lock `link_language`; `linksAdapter.ts` calls the zome, which
appends a revision to the source chain and broadcasts it. Peers that are
exactly one step behind follow the broadcast; all others learn of the revision
from `sync`'s broadcast of the current revision and pull it in their next round
of `gossip()`, where the *scribe*, the lowest DID an agent knows of, merges
revisions that have forked. What a zome gains is emitted as a signal, which
`linkCallback` hands to `diff_from_link_language()`, by a task of its own for each
(`handle_perspective_diff_from_link_language()`), so that diffs may be stored in any order.

`PROJECT.json` lists under `hazards` what is hard to test in this code, each at
the line where it bites, with the properties that watch it or the reason why
none does yet.

## 2. The plan

In the order of what matters most to a user of a shared graph:

| | Module | Composes, or implements | State |
|---|---|---|---|
| 1 | `DiffSync` | zomes and adapters of all agents of a neighbourhood | done, proved |
| 2 | `CausalReplicas` | abstract: what any link language promises | done, proved |
| 3 | `DiffSyncReplicas` | `DiffSync` implements `CausalReplicas` | done, proved |
| 4 | `Workspace` | justifies the atomic pull of `DiffSync` | done, safety proved |
| 5 | `PendingCommits` | the executor's side of the link language | done, safety proved |
| 6 | `PrologFacts` | what queries see of the database | done, proved |
| 7 | `Snapshots` | `generate_snapshot()`, `collect_only_from_latest()` and `render()` against whole histories | done, proved |
| 8 | `MCPull` | `Workspace` and `Snapshots`: the two ways of `pull()` | done, safety proved |
| 9 | `ZomeQueue` | `AsyncQueue`, through which the zome calls of a language go | done, proved |
| 10 | `Languages` | how a language comes and goes; extends `ZomeQueue` | done, safety proved |
| 11 | `ServerSync` | the link language behind a server | done, safety proved |
| 12 | `Subjects` | concurrent writers of one subject | done, proved |
| 13 | `AIModels` | language models, their threads and tasks | done, safety proved |
| 14 | `Agent` | keys, profile and publication of the agent | done, proved |
| 15 | `Registry` | map of instances, rows and handles; publishing and joining | done, proved |
| 16 | `MCExecutor` | `AIModels`, `Agent` and `Registry`, side by side | done, safety proved |
| 17 | `Notifications` | from a change of links to the clients that listen | done, safety proved |
| 18 | `MCPerspective` | `PendingCommits` and `Notifications`, side by side | done, safety proved |
| 19 | `Capabilities` | requests, permits and tokens | not begun |

Abstract specifications worth stating: causally closed replicas (2, stated and
implemented); a commit log that takes each diff from a queue (for 5). Theorems worth
proving next: that `PendingCommits` implements the queue; that
`ServerSync` implements `CausalReplicas` as long as nothing is skipped.

## 3. The modules and the code

### DiffSync

| TLA+ | code |
|---|---|
| `made`, `parents`, `past` | `PerspectiveDiffEntryReference` entries; a hash is the number of its creation, and fixes the ancestors |
| `own` | what the agent's source chain holds; the DHT (`Stored`) returns what some chain holds |
| `current` | the latest `LocalHashReference` of the chain (`current_revision()`) |
| `emitted` | revisions whose diff `emit_signal` gave to `linkCallback` |
| `net` | `HashBroadcast` signals sent and not yet delivered |
| `pc`, `revisions`, `todo`, `isScribe` | where `LinkAdapter.sync()` is, and the locals of `gossip()` |
| `myRevision`, `peers`, `syncState` | `myCurrentRevision`, `peers`, the argument of the last `syncStateChangeCallback` |
| `Commit`, `CommitRefused` | `LinkAdapter.commit()` and zome `commit()` |
| `Sync`, `SyncFails` | the first half of `LinkAdapter.sync()` and zome `sync()` (`broadcast_current()`) |
| `GossipStart`, `PullStep`, `GossipEnd` | `gossip()`; one `Pull...` action per path of `pull()`, with `merge()` in `PullMerge` |
| `Deliver`, `DeliverRefused`, `Lose` | `recv_remote_signal()`, `handle_broadcast()` and `handleHolochainSignal()` |

Decisions a reader should know:

* A zome call is one step. The conductor writes the entries of a call at its
  end, and refuses them when the chain has moved meanwhile; a call that was
  refused is the same as one that came later. What is *not* taken back is a
  signal, if it goes out before the entries are flushed. The conductor is not part of the
  repository, so both are modelled: `AbortLeaksSignals`.
* `callZomeFunction` returns errors instead of throwing them. A failing pull
  therefore does not end `gossip()`, and a failing sync is followed by it.
* `gossip()` updates `myCurrentRevision` only if the answer of `pull()` is a
  `Buffer`; which it is depends on a decoder outside the repository, so
  `AfterPull` allows both.
* `revisions` in `gossip()` is a `Set` of byte arrays, which JavaScript compares
  by reference: a revision heard from two peers is pulled twice and counted
  twice, which is why `todo` is a set of peers.
* `generalMutex` gives up after ten seconds. The executor holds `link_language`
  around both `sync` and `commit` anyway, so the time-out is left out.
* A pull fetches and compares in one step: `Workspace` shows that the search
  decides as the whole histories would.
* Data that is left out: the links of a diff. `Snapshots` has them, for the one
  pull where they matter: a new agent's first, which hands over
  `squashed_diff()`. That nothing is handed over twice means in `DiffSync` that no
  *revision* is; within that first diff a link can be there twice (section 7).

### CausalReplicas and DiffSyncReplicas

`CausalReplicas` knows histories, sets of diffs, and what each executor holds:
`Write`, `Adopt`, `Join`. `DiffSyncReplicas` maps the histories to the sets
`past[r]` of the revisions made, and an executor's view to `own \cup emitted`.

### Workspace

State of `build_diffs()`: `searches` (the two `BfsSearch` values), `side`,
`index` and `count` (the loops, whose count is taken before branches are removed and pushed), `ancestor`,
`diffs`, `backLinks`, and the sorted `region`. One step looks at one branch:
`AlreadyVisited`, `SeenOnOtherSide`, `ReachedEnd` and `ToParents` are the
branches of `collect_until_common_ancestor()`; `Sort` is
`sort_graph()` with the search for side branches and the new searches they start;
`Decide` is what `pull()` does with the result. Maps and sets the code orders
by hash have no order here, so every order of hashes is covered.

### PendingCommits

| TLA+ | code |
|---|---|
| `task` | how far `commit()` of a spawned task is; `queued` is waiting for, or holding, the lock |
| `rows`, `batch` | pending rows of `perspective_diff`, and those read by `commit_pending_diffs()` |
| `lock` | the lock `link_language`, a fair queue |
| `installed` | whether `link_language` holds a language |
| `published` | `handle.neighbourhood` |
| `immediate` | `immediate_commits_remaining` |
| `log` | commits the link language made: the state `Commit` of `DiffSync` would add |
| `revisions` | whether the language returns a revision, as `perspective-diff-sync` does, or an empty one, as `centralized-p-diff-sync` does |

`Crash` loses the tasks, the lock, the language and the count, and keeps the
rows, the log and the handle. A failing call is one of two: nothing was
committed, or the answer was lost. An empty revision is a failure to `commit()`, which then stores
what is committed already (`Answer`), and a success to `commit_pending_diffs()`
(`LoopClears`). Constants of the code that only set the pace
(three seconds, 150 rows) are parameters or left to fairness.

### PrologFacts

A call is a query or a mutation with its task: an addition, whose fact is asserted (`AddLink`); a
removal; or a change, which adds SDNA, or adds and removes, as `link_mutations()`,
`update_link()` and diffs of the link language do (`ChangeLinks`). After the last two all
facts are loaded anew. `pc` follows it through `ensure_prolog_engine()` (`AskEngine` to `BuildFails`),
`prolog_query()` (`AskRead` to `SetFlag`) or `update_prolog_engine_facts()`
(`AskUpdate` to `Load`). The three locks are queues, as those of tokio are;
a reader of `prolog_update_mutex` waits behind a writer that came first. `engine`
tells `None` from a live engine and from one that was dropped and never
replaced. Links and facts are compared as sets of additions. `unloaded` is not state of the code: it
remembers the links whose own load failed, which the code only logs (`LoadFails`), until all links are
loaded again. The last part of the
module names what `FactsComplete` needs to be inductive.

### Snapshots

| TLA+ | code |
|---|---|
| `refs` | `PerspectiveDiffEntryReference` entries: parents, the diff, `diffs_since_snapshot` |
| `snapshots` | `Snapshot` entries: `diff_chunks` and `included_diffs` |
| `found` | the revisions whose link to a snapshot the DHT returns; any subset |
| `Commit`, `Merge` | `commit()` with `generate_snapshot()`, and `merge()`, which never makes one |
| `Walks`, `Search`, `HandleParents`, `TakeSnapshot` | the variables of `generate_snapshot()`, its loop and the two branches of that |
| `Chunked`, `ChunkOf` | `ChunkedDiffs::add_additions()`, `add_removals()` |
| `Collections`, `Collected`, `CloseBranch`, `FromSnapshot`, `ToParents` | the variables of `collect_only_from_latest()`, its loop and the branches of that |
| `SquashedDiff`, `Render` | `squashed_diff()`, `render()` |

A loop is a recursive function on the set of the states its variables can have, so that it can be
proved about. `Past` and `Changes` are the reference: what a revision and all its
ancestors change. The properties quantify over all `found` and, for
`render()`, over all orders of the entries, because the code walks a map
ordered by hash.

### MCPull

`pull()` takes one of two ways: an agent without a revision collects the history of the
other's (`Snapshots`), an agent with one compares the two (`Workspace`, as `W`).
`first` says which; the module only composes them, so that one check covers
both. The properties of the search are stated for the runs that are on its way.

### ZomeQueue and Languages

| TLA+ | code |
|---|---|
| `queue`, `pendingCount`, `running` | `AsyncQueue` in `Queue.ts`; one for each language, as long as the process lives |
| `Add`, `Answer`, `StartAnother` | `add()`, the end of a job, `startAnotherFunc()`; each runs to the next await, and so is one step |
| `bundle`, `temp`, `app` | `bundle.js`, the directory for templating, the conductor's app: what survives a crash |
| `controller`, `languages` | every unlock makes a new `LanguageController` with an empty `#languages` |
| `callbacks`, `streamed` | `#signalCallbacks` of `HolochainService`; whether the process forwards the app's signals |
| `pc`, `self`, `inst`, `call` | per caller: where it awaits, and what it has in its locals |
| `Unlock`, `LoadInstalled`, `LanguagesReady` | `initControllers()`, `initLanguages()`, `loadInstalledLanguages()` |
| `Refer`, `Publish` | `languageByRef()`; `install_language()` of a publication |
| `GetMeta`, `Pack`, `Install`, `Fetch`, `Import` | `languageByRef()`, `readAndTemplateHolochainDNA()`, `installLanguage()`, `saveLanguageBundle()`, `loadLanguage()` |
| `AppFound`, `AppMissing` | `ensureInstallDNAforLanguage()`, which takes any app it finds for a working one |
| `InstallApp`, `EnableApp`, `Installed`, `InstallTimesOut` | the two calls of `install_app()`, its return, and its failure or timeout at either; other requests to the conductor wait meanwhile (`ConductorFree`) |
| `Remove`, `Removed`, `PutSettings` | `languageRemove()`; `putSettings()`, whose reload fails half-way |

The module follows one language. A caller is a background task of a shared
perspective, which waits for `waitForLanguages()` and tries again; a query of a
client, which does neither; or the controller's own loading. `disturbed` and
`brokenOff` are not state of the code: they remember that the language was
removed or reloaded, or that an installation was not carried through (it failed, timed out, or the process died
between installing and enabling the app), which the properties except.

### ServerSync

One agent; the others are the growth of `log`. The server is not part of the
repository: `Serve` answers what the adapter's calls take it for. `up` and
`down` are the socket: ordered, lost when the connection breaks, except for what was
emitted while there was none. `Connect` is the handler of `connect`, which joins the room. The handler of
`reconnect`, which was to sync again, is left out: it is registered on the socket, and in the
version of socket.io-client in use (4.7.2) only the manager emits that event. `Receive` runs the handler or
callback of one message:
`Signal`, `SyncAnswer`, `DateAnswer`, each with `updateServerSyncState()` (`Report`).
`inbox` is what the executor was handed and has a task for that is to store it; `Apply` stores
any of these, whichever task comes first (`perspectives/mod.rs` 161). `skipped`, `lost` and
`dropped` are not state of the code. They remember that a date went ahead of a sync of the connection, that a connection
was lost after its sync, and that a crash lost something
of the inbox: the exceptions the properties make, see section 7.

### Subjects

A subject is the set of `links` of three `Fields`: a property (its value is the
target of the link with its predicate), a collection, and the link that its source has
to it. `Program` gives for each operation of `Subject`, `PerspectiveProxy`,
`SubjectEntity` and `SubjectRepository` the requests it makes, a set of which is
sent at once; `Read`, `Look`, `Delete`, `Sign`, `Insert` and `Drop`
are the steps of a request in `execute_commands()`, `remove_link()`, `add_link(s)()` and
`link_mutations()`.

| TLA+ | code |
|---|---|
| `Row` | a row of the table `link`: `nr` its place in the table, `at` its timestamp |
| `Times`, `clock` | `create_signed_expression()` for one link after the other: in the millisecond of the last signature, or later |
| `Same`, `Without` | `DELETE FROM link WHERE ...`, which takes all rows with one content and timestamp |
| `Sooner`, `Earliest` | the order of `get_links()`: by timestamp, and rows of one timestamp as the table has them |
| `NewRows` | `add_many_links()`, which inserts what the table has already too |

Two links that are signed in one millisecond can be equal, whether two clients write them or
one request does, and both get a row. `had` (every row that the property ever had) is not state of the
code: it serves the properties, which except equal rows where these break them (section 7).
`MCSubjects` gives TLC the symmetry of the calls, which nothing tells apart.

### AIModels

| TLA+ | code |
|---|---|
| `models`, `default`, `tasks`, `loaded` | the rows of `models`, `default_models`, `tasks` and of `model_status` |
| `threads` | every thread that `spawn_llm_model()` started, with the tasks it knows and the requests in its channel |
| `channel`, `lock` | `llm_channel` and its lock, a fair queue |
| `does`, `stage`, `request`, `rest`, `starts` | per call, what it does, where it awaits, and its locals |
| `AddModel` ... `Prompt` | the methods of `AIService` that resolvers call, up to their first wait |
| `Send`, `NotSent`, `Answered`, `Refused` | a request to a thread, from the lock to the answer: `spawn_task()`, `remove_task()`, `prompt()`, `remove_model()` |
| `Again`, `Start`, `Insert`, `Ready`, `List`, `SpawnNext` | `update_model()`, `set_default_model()`, `load()` |
| `Fetch`, `Erase` | the ends of `update_task()`, `delete_task()`, `remove_model()` |
| `Begin`, `Built`, `BuildFailed`, `Late` | a thread's start, and `handle_progress()` |
| `SpawnTask`, `RemoveTask`, `AnswerPrompt`, `Shutdown`, `Closed` | the thread's loop |

A behaviour begins with `load()` over rows that any earlier life may have left, so a
restart is a behaviour that begins. `texts` numbers what is written into tasks, so that
an old text in a thread is told from the new one. `overlapped` and `unspawned` are not
state of the code: they remember that two calls that write overlapped, and which
tasks a loop gave up or passed over (section 7), which `ThreadsAsStored` excepts.

### Agent

| TLA+ | code |
|---|---|
| `file`, `profileFile` | `agent.json` (the passphrase of its keys) and `agentProfile.json` |
| `cipher`, `keys` | `Wallet`; keys are `"whole"`, or `"public"` where `load()` makes them from the DID |
| `agent` | `AgentService.agent`: links, and the direct message language |
| `published` | the latest expression in the DHT of the agent language |
| `holochain`, `language`, `zome` | the `HolochainService` of the core, whether the agent language is set, and the queue of its zome calls |
| `at`, `given`, `held` | per call: where it awaits, its passphrase, and the profile it has read |
| `Generate` | `create_new_keys()` and `save()` |
| `Unlock`, `UnlockAgain`, `StoreUnlocked`, `StartHolochain` | `agent_unlock()` and `agentUnlock` |
| `HolochainRuns`, `LanguagesLoaded`, `LanguagesFail` | `initHolochain()`, `initLanguages()` |
| `Templated`, `TemplateFails` | `initializeAgentsDirectMessageLanguage()` |
| `SetDm`, `Me`, `UpdatePerspective` | the updates of the profile, and `mutatePublicPerspective()` of the client |
| `Update`, `Store`, `Ask`, `Created` | `updateAgent()`, `storeAgentProfile()`, `createPublic()` and its answer |
| `Found`, `Missing` | `ensureAgentExpression()` |
| `Lock`, `Restart` | `agent_lock()`; `load()` in a new process |

`told`, `raced` and `missed` are not state of the code: the profile as the calls would
have made it one by one, whether one of them changed it while another held a copy, and whether the
last change could not be handed over. The two properties are stated for the other
cases; what happens in these is in section 7.

### Registry

| TLA+ | code |
|---|---|
| `perspectives`, `running` | the entries of `PERSPECTIVES`, and the instances whose background tasks have not been told to end |
| `persisted`, `handles` | `PerspectiveInstance.persisted`, and the rows of `perspective_handle` |
| `neighbourhoods` | URLs that a client can know: `Foreign`, and those of publications that were stored |
| `asked`, `step`, `uuid`, `url`, `copy` | per call: what it does, where it waits, and its locals; `copy` is the handle it will hand to `update_perspective()` |
| `AddPerspective`, `Known` | `add_perspective()`: row and instance, then the entry of the map |
| `Join`, `Joined` | `install_neighbourhood()`: the check, and what follows the languages |
| `Rename`, `SetState`, `Publish`, `Created` | `perspective_update`, `update_perspective_state()`, `neighbourhood_publish_from_perspective()` |
| `StoreInMemory`, `StoreInRow` | `update_perspective()` |
| `Remove`, `Forgotten` | `remove_perspective()` |
| `Restart` | `initialize_from_db()` in a new process |

A handle is its name, the URL of its neighbourhood and its state, all failures of which are
`NotSynced`. `meant`, `crossed` and `joinedTwice` are not state of the code: the handles as the updates would
have changed them one by one; whether a handle was stored while another call had read it, or was only in
memory when a process ended; whether two calls joined a neighbourhood at a time.

### Notifications and MCPerspective

| TLA+ | code |
|---|---|
| `links`, `latest` | links in the database that match a trigger, and how many there have been |
| `facts`, `engine`, `asserting`, `reloading` | what the Prolog engine knows, and the tasks of mutations that tell it: `PrologFacts`, whose locks are left out here |
| `unset`, `changed` | mutations that have yet to set `links_have_changed`, and the flag |
| `notifications`, `ids` | the rows of the table, each with a version for what a client or a grant writes |
| `phase`, `todo`, `before`, `after` | `notification_check_loop()`, the rows that a snapshot has still to query, and its matches |
| `sending` | tasks of `publish_notification_matches()` |
| `topic`, `unread`, `there`, `due` | the subscribers of the topic, channels with a message, clients that listen, and those who have not read the last message |
| `Round`, `AskTrigger`, `TriggerFails`, `RoundOver` | a round of the loop; a query that fails ends it, as if nothing matched |
| `Publish`, `Subscribe`, `Receive`, `Close` | `PubSub` and `subscribe_and_process()` |

The loop holds the lock of the flag for the whole round (`FlagFree`). `announced` and
`repeated` are not state of the code. `MCPerspective` puts `PendingCommits` and `Notifications`
side by side: `follows` says which of them a behaviour is about.

### MCExecutor

`AIModels`, `Agent` and `Registry` share no state. `service` says which of them a behaviour is
about, so that one check covers all; `ModelsInit` picks the databases it begins with.

## 4. The runs

`tlc -config X.cfg M`. All bounds are constants of the modules.

| Run | Module | Bounds | Shows |
|---|---|---|---|
| `sync_two` | `DiffSyncReplicas` | 2 agents, 3 revisions, 2 commits, 1 fault | nothing written is lost; nothing is handed over twice or without its history; nobody has a current revision that the DHT cannot return; every step is one of `CausalReplicas`; once commits stop, all agents reach one revision and are told that they are synced |
| `sync_fork` | `MCDiffSync` | 3 agents with a revision each after a partition, 2 merges, 2 signals at once, 1 fault after which one further revision is made and one agent gossips at a time; leaking signals | whatever scribes chosen from different sets of peers merge, and even when a refused call leaks its signals, executors have seen what their revision contains |
| `pull` | `MCPull` | search: all graphs of up to 5 revisions that commits and merges can build, all pairs, all hash orders; snapshots: all graphs of up to 6 revisions, a snapshot at every 2nd, chunks of 2 changes, all sets of snapshots found | the search ends, is in bounds, has no error, decides right; a snapshot stands for exactly its history; a new agent collects exactly the history it starts from, and reads no more revisions than `diffs_since_snapshot` says |
| `commits_shared` | `MCPerspective` | commits: 3 diffs, 1 immediate commit, batches of 2, 1 fault, 1 restart; notifications: 2 of them, one there from the start, 2 clients that listen, 2 links that match, 2 changes, 1 query that fails, 1 restart | no diff is dropped; none is committed twice by a language that returns a revision; the language is called by one at a time; every diff is committed in the end; no match is announced twice, and as long as links change every match is announced and heard by all |
| `commits_published` | `PendingCommits` | 2 diffs | *violation*: links from before the publication are never committed |
| `prolog_facts` | `PrologFacts` | 3 calls, 1 failing query, 1 failing build or load | no link is missing from an engine in use, but for one whose own load failed; without failing queries all calls end |
| `prolog_blocks` | `PrologFacts` | 2 calls, 1 failing query | *violation*: two calls wait for each other |
| `languages` | `Languages` | 1 perspective, 1 query, 5 instances and 5 zome calls in a process, 2 unlocks, 2 troubles (failing step, time-out, crash, second unlock, removal, change of settings) | a language that is handed out is heard of, unless its installation was not carried through, and once where the code waits; its zome calls go one by one, in order; the perspective gets it in the end |
| `server_sync` | `ServerSync` | 4 diffs, 1 commit or render, 2 messages under way when the agent adds one, 2 troubles (broken connection, refusal, restart) | unless a date goes ahead of a sync or a crash drops the inbox, no date is past a diff that the agent lacks, and no diff is handed over before an older one; unless a connection was lost after its sync, everything comes and is stored |
| `subjects` | `MCSubjects` | 2 calls, 10 operations, 2 values, up to 1 row of the property beforehand, 1 restart; calls symmetric | a property keeps a value unless two of its rows were ever equal; who writes alone leaves what it was told to unless it meets equal rows |
| `executor` | `MCExecutor` | models: 2 of them, the second with, without or not there, 1 task, 1 call besides `load()`, 1 failing build; agent: 3 calls, 2 passphrases, 1 failing step, 1 restart; perspectives: 3 calls, 2 perspectives, one there or none, 1 restart | threads, channels and tasks are as the rows say after calls that did not overlap; every call ends, and every thread whose channel is gone; the profile is what the calls made of it, and is published; a handle is the same in memory and in its row and is what the calls made of it, and a neighbourhood has one perspective |
| `snapshots_render` | `Snapshots` | 3 revisions | *violation*: a link is rendered twice |

Why the bounds are enough to be interesting. Two agents with three revisions
reach a fork and its merge, with a lost signal or a refused call anywhere in
between (`sync_two`). Two agents
cannot have two scribes with different views, which `sync_fork` is for: it
starts where three agents have forked, and has revisions for two merges, so that
two scribes can merge at once, and a merge can meet a revision made by another. Five
revisions are enough for a merge whose parents' histories join at different
depths, for two roots, and for a side branch that leaves the region. Three diffs
are one that is committed at once, one that is stored and one that arrives while the
batch is committed; more than `MaxPending` rows leave a remainder. In
`PrologFacts` three calls suffice for an assertion between the read and the
load of a rebuild that another call waits for, or for a load that fails between two others. In
`Snapshots` six revisions hold three snapshots on one branch, and two branches,
each with its snapshot, that join below a third. In `languages` a perspective and a query
are two callers at different places of the chain, with the controller's
loading as a third; two troubles are a failure, and a crash or removal in what
follows it; the bounds on instances and calls leave room for both. In
`server_sync` four diffs are one before the sync, two during it and one after,
and two troubles let a connection break again before the next sync is
answered. In `subjects` two calls of every pair of operations suffice for one to
remove what the other has read; a row beforehand and what the first call adds are enough for
a request that is cut off between two removals, and rows of one millisecond, equal or not, come
from the two calls or from one. In `executor` one call beside `load()` suffices for a thread to
be shut down, replaced or waited for while another request is about to be sent, and
three calls to the agent for an unlock after a restart while a profile is held and
changed; three calls about perspectives are a publication that waits, a change and a removal
meanwhile, and two perspectives one that is joined beside it. In `commits_shared` two
changes are a link that is added, and one that is removed, or a notification that is
changed, granted or removed, while the loop is between reading rows and asking for
them; two clients are one that is closed and one behind it in the topic. What holds for every instance is proved
(section 6).

Deadlock is checked in the runs of `DiffSync`, `MCPerspective` and `Languages`, where
`Sync`, `SyncWaits`, a fresh round, a change of other links or a further reference are always possible. In `pull` a search is one call
that ends and there are finitely many revisions, `PrologFacts`, `Subjects` and `MCExecutor` have
finitely many calls, and `ServerSync` is quiet once it is synced and the log has
ended, so `CHECK_DEADLOCK FALSE` is right there; that calls do end is what their temporal properties say.

## 5. Fairness

* `DiffSync`: the executor calls `sync` of every link language again and again
  (`nh_sync_loop`), the event loop runs what is queued on it, and a
  signal that is not lost arrives: weak fairness of `Sync`, of the steps of
  `gossip()`, and of the delivery of every signal. Nobody has to commit, and
  nothing makes faults stop but their bound. A fair delivery of each signal is
  an assumption on Holochain; the temporal properties of `sync_two` would be meaningless without it, because an agent that
  never hears of a revision cannot pull it.
* `PendingCommits`: tokio runs every task that can run and its mutexes are
  first-come-first-served (the queue in `lock`); the loop commits at the latest after
  `MAX_PENDING_SECONDS`; language calls return, and `nh_sync_loop` ends its round. Nobody has to mutate or publish.
* `Notifications`: tasks run, the engine answers, the loop looks every few seconds, and a client
  that listens reads its channel. Nobody has to change links: `EventuallyTold` supposes that they
  go on changing (`[]<>changed`), since what a round misses only the next one finds.
* `PrologFacts`: weak fairness of every call, for the same reason. Clients need
  not call.
* `Workspace` is sequential: one call, run to its end (in `pull`, weak fairness
  of `Searches`). `Snapshots` and `Subjects` state no liveness.
* `Languages`: what a caller awaits comes (`Proceed`, `ZomeAnswer`, `Removed`), the
  user unlocks a locked executor, and a task without its language comes back
  every five seconds. Nobody has to query or publish, and troubles stop only at their bound.
* `ServerSync`: the socket connects again by itself, messages arrive and are
  handled, every task that is to store a diff runs, and `nh_sync_loop()` calls `sync` every three
  seconds. Nobody has to commit or render.
* `AIModels`: the runtime runs every task and the system every thread, the lock is
  first-come-first-served, a model is built or fails to be, and an inference ends. Clients need
  not call, and late progress need not be published. `Agent` and `Registry` state no liveness.

## 6. The proofs

`tlapm M.tla` for the modules named here. Assumed are only the `ASSUME`s of the
modules: agents are numbers (ranks of DIDs), bounds are naturals (`BoundsOfNotifications`,
`BoundsOfAgent`, `BoundsOfPerspectives` and the like), `AbortLeaksSignals` is a Boolean, the URL of a
neighbourhood of others is none of one's own nor "no URL" (`UrlsDiffer`), `NoAgent` is neither a
passphrase nor a profile (`NoAgentIsNone`), and ids of models and tasks, which the code makes from random UUIDs, are not
the word "default" nor one of those that stand for no id (`IdsDiffer`). Nothing is assumed finite: the theorems hold for any set of agents,
any number of revisions, commits and faults. (In `Subjects` the set of values is
finite, as the program's is.)

**DiffSyncProofs.** The invariants are not inductive alone. `MovesForward`,
`CommittedKept` and `EmittedComplete` rest on how histories nest: when an agent
moves to a revision whose history contains its own current revision, everything it had is
kept *because* `past` is transitively closed, and the merge's history is the
union of two closed ones. That is `GraphOK`: revisions refer to older ones,
`past` is what `parents` say, and is closed. The second strengthening is `RefsMade`:
whatever a signal, a peer table, a chain or a loop of `gossip()` refers to was made,
and, unless refused calls leak, every broadcast revision is on some chain; without it
`CurrentFetchable` would break at the next delivery. `IInv` is the conjunction
of `TypeOK`, `GraphOK`, `RefsMade` and the safety properties. The proof has one
lemma per part: `TypeStep`, `GraphStep`, `RefsStep`, and `HistoryStep` for
the agents, which looks only at the agent that moved (`LeftAlone` for all
others) and splits by the paths of `commit`, `pull` and `handle_broadcast`.
`Invariance` joins them; `NothingLost`, `NothingHidden`, `NothingTwice`,
`NobodyStranded` and the action property `ForwardOnly`
follow.

`CausalDelivered` (of `CausalReplicas`, in the same module): replicas that write, adopt and join whole
histories are causally closed. Inductive with `ViewsAreHistories`; the one
lemma treats writing and joining alike, as adding a history that is a union of
histories and one fresh diff.

`ReplicasImplemented` (of `DiffSyncReplicas`, in the same module): from the invariant, an
executor's view is `past[current]`, so each zome step is a `Write`, `Adopt` or
`Join` of `CausalReplicas`, or a stutter. It needs `~AbortLeaksSignals`: a
refused pull that leaks shows an executor diffs it does not hold yet.
`DeliveredCausally` is the abstract theorem seen through the mapping: whoever was handed
a diff was handed its history (`CausalDelivery`; `sync_two` checks the refinement it
follows from).

**PerspectiveProofs.** Of the commits: a diff is with its task, in the table or in the log
(`OnePlace`); rows have distinct ids and the loop's batch is in the
table (`RowsOK`); whoever has applied finds its diffs in the log
(`AppliedCommitted`). `DiffsKept` and `DiffsCommittedOnce` follow, the second for languages that return a
revision: with an empty one the task stores what is committed, and a diff is in two places.

Of the lock `link_language`: its queue holds exactly those whose code is between taking and dropping the guard, each
once (`NoneLeftBehind`), and whoever calls the language is its head (`CallersHold`). Each step appends one who was not in it, takes the head
out, or leaves it alone (`WaitStep`, `ReleaseStep`, `KeepStep`). So nobody ever waits for one who will not come to the release
(`LockIsReleased`), and commits and syncs never overlap (`LanguageCalledAlone`, of `CalledAlone`), which `DiffSync`
relies on where it leaves out the time-out of `generalMutex`.

Of the notifications: `ToldOnce` only says that nothing was repeated, so `NotesInv` follows a match that was
found from round to round. It is repeated when a round finds it that the round before
did not have. As long as no query failed, an engine that is in use keeps the facts of what it has found and
what is still there (`FactsKept`: whoever loads facts loads all links, and an addition only adds); so a
round has found every announced match whose row it was told to ask for, or has yet to ask
(`AfterWillHave`), and between rounds the last one has had them all (`BeforeHasAll`). Rows that the loop
holds are the same or an earlier version of those in the table (`RowsPast`), or a row that was changed
twice might come back. After a restart nothing is announced before the first round has found anew what there is.
`MatchesToldOnce` and `PerspectiveTyped`, the types of both, follow.

**PrologFactsProofs.** `FactsComplete` says nothing of calls that are not over,
so it is not inductive: the links a rebuild has read become facts later, and an
addition may end in between. The strengthening follows the lock of the engine. Whoever
reads links, loads them or waits to set the flag has it (`EngineHeld`),
so nobody passes the *look* at the engine during a read; hence the links read
include that of every addition that has looked (`ReadComplete`). An addition
that has looked either saw an engine, and will assert its fact, or saw none,
and is in the facts of any engine that is made after it looked
(`FactsSeen`). A mutation that is to load all facts is over when it has loaded them, its own link included, or else
its link is `unloaded`; whoever loads later takes it out of there only by giving it its fact. `FlagHeld` and `StageKinds` say who can be where. `FactsKept` and
`BuildsAlone` follow; `prolog_update_mutex` plays no part in either.

`PrologTyped` adds the type of `updateLock`, and with it that of everything.

**LanguagesProofs.** First the queue, on its own. `OneByOne` speaks of the calls that
run; the code only has a counter, and `CountRight` says that it counts them. `StartsNext`
is the one lemma: from a queue of consecutive calls behind those that are done,
starting another keeps everything, whoever does it. `CallsOneByOne` and `CallsNotForgotten` follow
for `QueueSpec`. Then the language: each of its steps is a step of the queue, a stutter, or the
crash that empties it (`QueueOfLanguage`), so `LanguageCallsOneByOne`. Beside
the types the invariant has two helpers (`InstanceMade`, `UnlockedOnce`), which the types of
`callbacks` and `self` need, and `HearingInv`: as long as every installation was carried through and nothing was
removed or reloaded, an app that exists is enabled, or the conductor is about to enable it and lets nobody else ask
for it; in a process that is
unlocked an enabled app's signals are forwarded, either since the conductor was
started or since `install_app()`; and whoever is past
`ensureInstallDNAforLanguage()` has left a callback, so what `#languages` has
is heard of (`LanguageIsHeard`).

`SignalsHandledOnce` speaks of a process in which one task only refers to the language. Its
invariant follows that caller through the chain. Only the controller's own loading and
the task can leave a callback, and not both at a time, because the task waits for
`loadInstalledLanguages()` (`Coming`); so in a calm process one caller at most is on the way to a
callback (`AloneOnTheWay`). Until the map has its instance no other callback is there or can come, and afterwards
nobody is on the way again (`OnceInv`). A set of referrers with at most one member is put into words
without numbers first (`AtMostOne`), which takes that it is finite.

**ServerSyncProofs.** `NothingSkipped` says nothing of what is under way, and would
break at the next message. The strengthening is `Accounted`: from the answer of a sync on,
what the agent has and what is under way to it make up the whole log, and each
date under way is preceded, in the socket, by all that is before it. A connection that is made
again after its sync accounts for nothing (`lost`): there the first date that advances is an exception. In which order tasks store what was handed over
makes no difference, since the agent has what is in the inbox. `DatesReached` adds the dates that
are under way to the server, and `ConnectionOK` that who was answered is in
the room and so hears of what is committed after. Two lemmas carry it: a
message is received (`AccountedTail`), and the server sends some (`AccountedGrow`).
That diffs come in the order of the log (`InOrder`) follows from the dates: what a message hands over is not newer than its
date (`NewUpToDate`), and up to the date the agent then has everything. `ServerTyped` and `NothingIsSkipped` follow.

**SubjectsProofs.** `ValueKept` is about the end; on the way a property can be without
a value. Who removes a link has read it, and signs what he puts in its place
no sooner, and inserts it later. So `GoneReplaced`: for every row of the property that is gone there was
one that is later in the order of `get_links()`, or a request will put one there and removes none that is later. It
needs that a request removes from the earliest on: one that fails at a link
that is gone has not removed the latest; and that a removal takes one row at a time, which is so as long as no two
rows of the property were ever equal (`Calm`). `TaskOK` ties the stages of a request to what it has read
and signed, `RowsOK` tells the rows of a field apart by their place in the table. At rest the latest row there
ever was cannot be gone (`PropertiesKeepAValue`).

`AloneIsExact` is about a request through all its steps: as long as nobody has overlapped it (`Alone`) it is the
only one that is busy, what it has read is what its field has, what it signs is exactly what it was told to, and
what it is about to drop is all the rest. A request that finds two equal rows to remove, or writes one that equals
a row it is to drop, no longer counts as alone. A last step then leaves what it should (`LeavesAtEnd`), and the others, being idle, have
nothing to leave (`OnlyOneAlone`).

**ExecutorProofs.** `MCExecutor` takes a step of one service at a time, so each is proved of its own
(`ExecutorSteps`). *Handles* (`HandlesAreKept`). `HandlesKept` speaks of the times when no call is between its
two stores. The rest of the way: map and table differ exactly by the perspectives of calls that are between
them (`Tabled`, `AboutThem`); unless stores crossed, a row differs from its instance only while a call is about
to store it, and what a call has read differs from what is there only in the fields it is to change
(`InStep`), which is why a publication that waited for its languages undoes nothing: it reads after the
wait. One perspective per neighbourhood needs `UrlsKnown`, that nobody can join what is not stored yet, and
`OneEach`, over the perspectives that are in the map *or* in the table. *Agent* (`UpdatesAreKept`,
`ProfileIsPublished`). Before keys are generated there is nothing (`Generated`); the profile on the disk is that
in memory (`OnDisk`), so that a restart changes nothing; copies that are held are the profile itself, unless
calls raced (`HeldIsNow`); the last call in the queue that publishes has the profile as it is (`LastIsNow`), which needs that
who awaits an answer about the profile has asked once (`Getting`), since a missing one is published too.

*Models* (`ThreadsMatchRows`). `ThreadsAsStored` speaks of the times when no call writes; `ModelsInv` says what holds
in the middle of one. Two parts hold whatever overlaps: each call is where its operation leads, with locals that
fit it (`Programs`), and mail is only in the inbox of one living thread, sent by whoever has the lock, who awaits the
answer (`Mail`). The rest (`WritersAlone`) holds while calls that write do not overlap, and follows the one writer: what it
has read of the rows is still so (`CallsAsRead`), the request under way is for the thread that its model has *now* (`MailRight`),
a thread that can still read has its model's channel (`AliveReached`), so `Closed` cannot happen, and each model
without its channel, or task that its thread does not have as stored, is one that the writer is about to
start, spawn, remove or erase (`Changing`, `Pending`). Prompts come in between at any time and change nothing of
this (`PrompterStep`). When there is no writer nothing is pending (`NotWriting`), which is the property. A step of a thread is
seen as the change of one thread, with the stage of the one call that it answers (`Becomes`), so all of them share
two lemmas (`ThreadAlone`, `TasksKept`). `ExecutorTyped` joins the types of the three.

**PullProofs.** The theorems hold for every `SNAPSHOT_INTERVAL`, every `CHUNK_SIZE` but zero, and any number of
revisions; the graph is any that commits and merges can build. Both ways of a pull are recursive, and the
library's induction theorems cannot be used here, so the module begins with its own:
a set of naturals that is not empty has a least member (`LeastNatural`, since inclusion of finite sets is
well-founded), and one that has 0 and all successors is `Nat` (`AllNaturals`). That a recursive function exists, and not only is chosen,
is then shown for each by induction on how far it is defined: `LevelsExist` for closures, `GraphsExist` for the graphs,
`PastIsHist` for the histories, `LoopDefined` for the loops.

*The search* (`SearchKept`). `DecidesRight` and `NeverFails` speak of the end. On the way, `SearchInv` says that
links noted are links of the graph (`LinksReal`), and that `diffs` has whatever a link or a search refers to (`Noted`, so the `expect` finds
it); that whatever our side has found or is about to look at has links up to our revision, and
either theirs does so to their revision or ours does to both (`Joined`: the one in the first search, the other in each search from a side
branch); that the ancestor, once there is one, has links up to both (`AncestorBelow`); and what holds at
each place of the loop (`Progressed`), where the branches left are enough for those that are counted. Links are
only added, so nothing of this is lost when a search begins anew (`ReachGrows`). When no side branch is left the region has all parents of what
is above the ancestor but the ancestor's own (`RegionFound`, so neither `expect` nor the sort can fail), and whatever either history has
outside the region is in the ancestor's, which both have (`HistoryBelow`, `OnlyAncestorBelow`): so what the
region says of who is above whom is what the histories say (`AncestorsAgree`, `RightDecision`).

*The snapshots* (`SnapshotsKept`). `SnapInv`: revisions refer to older ones (`Grown`), the revisions with a snapshot are those that
count none since, a snapshot includes its revision's history and what that changed (`Covers`), in chunks
of the size (`ChunksFit`), and a counter is one more than those of its parents together (`Counts`), which bounds the revisions that are
not behind a snapshot (`ReadIsBounded`). The two loops first have to end, or what they return is nothing: each revision is given a weight
that is greater than that of any two older ones together (`WeightsExist`), so the queue loses weight with every round although it may grow
(`FuelReplaced`, `FuelParents`, `LoopEnds`). Then each has an invariant: whatever was seen or waits is in the
history, and the parents of what was seen are seen or wait (`GoodWalks`, `GoodCollections`). At the end nothing waits, so
what was seen is the history; an early end of a branch, at a revision or snapshot that was seen, loses nothing.
This needs that an older snapshot covers *its* history, which is how the induction goes on from one snapshot to
the next, for whatever set of them the DHT returns (`SnapshotMade`, `CollectedChanges`).

Only model-checked: everything temporal (`EventuallyConverged`, `EventuallyShared`, `EventuallyTold`,
`Terminates`, `AnsweredWithoutErrors`, `EventuallyServed`, `EverythingComes`,
`ModelsEventuallyOver`), since liveness under fairness is out of the prover's reach. Every invariant that a
passing run checks is stated by a theorem. No module uses an operator that is declared recursive, which the provers could not expand.

## 7. Where code and text disagree

The runs that expect a violation are the evidence; `PROJECT.json` has the quotes.

* **Publishing** (`commits_published`). The links in a perspective when it is
  published are only shared in the state `NeighbourhoodCreationInitiated`, which
  nothing sets.
* **A query that fails** (`prolog_blocks`) waits for `prolog_needs_rebuild` while it holds
  the other two locks; a call that is to rebuild the engine takes them in
  the opposite order. Both, and every call after them, wait for ever.
* **A link that is rendered twice** (`snapshots_render`).
  `collect_only_from_latest()` takes a revision's own diff besides the chunks of its
  snapshot, which contain it. `squashed_diff()` hands both over in a new agent's first pull,
  where `Ad4mDb` has nothing that would keep the second row out.

Noticed and not the subject of a run:

* *Rendering, snapshots, zomes.* `render()` applies diffs in the order of
  their hashes, so a removal may come before its addition. A refused call whose
  signal leaked can leave a peer at a revision that the DHT never returns
  (`CurrentFetchable` is stated for the other case).
* *Prolog.* The tasks of an addition and a removal run in any order, so the
  fact of a link that was removed at once can stay. An engine whose rebuild failed is never built again,
  because the flag is cleared before the new engine exists. When a load of all facts fails
  (`spawn_prolog_facts_update()`, 1200), that is logged and nothing more, and the link of SDNA, or what a mixed or incoming diff
  added, has no fact until somebody else loads or builds (`unloaded`).
* *Commits.* `commit()` looks into the table first, "to not
  overtake older commits" (`perspective_instance.rs` 468), and then waits for the lock; a diff that was stored
  meanwhile is overtaken. Log messages in `perspective_instance.rs` name limits (3 immediate commits, 10 seconds, 100 diffs) other than the
  constants (20, 3, 150). A batch appends all its additions and then all its removals.
  An empty revision is a failure in `commit()` (499–508) and a success in `commit_pending_diffs()` (337), and
  `centralized-p-diff-sync` returns `""` when it has committed (`linksAdapter.ts` 249): with that language every
  diff that a task commits is stored and committed again by the loop (`CommittedOnce` is stated for the other case).
* *Handles.* `update_perspective_state()` and `perspective_update` copy a handle, change and store it with nothing
  locked: two at once, and one of the changes is undone (`crossed`). The check of
  `install_neighbourhood()` and the insertion have two languages between them: two joins at once make two
  perspectives of a neighbourhood (`joinedTwice`).
* *Notifications.* A round clears the flag although the facts of the change that set it may come later; the
  match is then found by the round that the next change causes, if any (`EventuallyTold` supposes further
  changes), while the comment in `core/src/runtime/RuntimeResolver.ts` (line 70) has the client told whenever there is a new match.
  The first trigger that fails ends the snapshot with no match of any notification; the round after tells
  all that match again. Nothing looks at `granted`, and granting a notification makes its matches new.
* *Languages* (`LanguageController.ts`). "Cleanup temp directory" (line 667) only happens when
  templating succeeds; after a failure `mkdirSync` (614) throws for every later
  caller, also after a restart: `LeftBehind`. `putSettings()` ends in `reloadLanguage()`, which
  uses a name that nothing declares (`address`, 316): the language is out of the
  map until somebody refers to it again. With two perspectives, a query, or a second unlock
  a language gets two instances and a callback for each, so signals are
  handled twice (`HeardOnce` says when not). An installation that takes more
  than ten seconds leaves a language without a callback. `install_app()` (`holochain_service/mod.rs` 450–460) installs and then enables
  an app; when the process dies in between, `getAppInfo()` finds a disabled app from then on (`HolochainService.ts` 157), which nothing enables (`brokenOff`). The cache of
  expressions (1066) is keyed by the expression alone, whatever the language.
* *Server* (`linksAdapter.ts` of `centralized-p-diff-sync`). By the comment at line 89 the server is told "what we have seen"; a commit or
  a render before the first sync reports a date too, and what lies before it is
  never asked for: `skipped`. The date is reported before the executor has written the diffs: `dropped`.
  "If we have disconnected and reconnected, we need to sync again" (line 79): the handler is registered on the socket, and in
  socket.io-client 4.7.2 `reconnect` is an event of the manager, so it never runs. `hasCalledSync` stays
  set, and what was signalled meanwhile is not asked for before a restart (`lost`); by then a later signal or commit may have reported a date
  past it (`skipped`). `sync()` called twice before the first answer brings the same diffs twice, and `add_many_links()` inserts
  both. What is handed over is stored by a task each (`perspectives/mod.rs` 162), so a
  removal may be stored before the addition it undoes, which then stays. An answer that is lost
  leaves `commit()` waiting, with the lock of the executor.
* *Subjects.* The case of the remover in `SubjectEntity.ts` (179–181) has no
  `break` and runs into the next. `delete` removes the link to the value the class starts with, whatever the
  value is now. Two `setSingleTarget()` at once leave two targets (`PerspectiveProxy.ts`, 203–206). A restart between
  removal and insertion leaves a property without a value, which is why `ValueKept` is stated for `Calm`. Timestamps have milliseconds
  (`agent/mod.rs` 67), nothing keeps equal rows out of the table (`db.rs` 75), and `remove_link()` deletes all that are equal (`db.rs` 796):
  when two clients have set one value in the same millisecond, or a collection was set to a repeated element, the
  next setter removes both rows with the first, fails at the second with "Link not found", and leaves
  no value. `create()` and `update()` of
  `SubjectRepository` return before their setters are done.
* *Models* (`ai_service/mod.rs`). `update_model()` respawns the tasks with the model's own id (1055), not
  those of `default` while it is the default one. `load()` ends its loop at the first task that
  cannot be spawned (205), and the tasks after it stay unspawned. Progress that is published
  late (368) leaves a model that runs recorded as not loaded, and the settings page polling
  (`AI.tsx` 88). `update_task()` has the task removed where the new row says it is (720), so the old
  model's thread keeps it; `delete_task()` fails, and the row stays, when the
  model has no thread. `remove_model()` leaves the default model pointing nowhere, and
  one that overlaps `update_model()` leaves a thread and a channel for no model.
* *Agent.* Two changes of the profile at once lose one of them, the longest gap being the one in
  which the direct message language is made (`raced`). A profile that was saved and not
  published before a restart stays unpublished until the next change, since
  `ensureAgentExpression()` only asks whether there is one (`missed`). After a restart between
  `agent.json` and the first profile, `load()` makes keys without a secret, with which the
  wallet counts as unlocked. `agent_lock` takes any passphrase, and from then on
  needs that one, until a restart. The direct message language is made by `agentGenerate` only: when that fails
  nothing makes one later. An `initHolochain()` that failed leaves the `HolochainService` behind, and later
  unlocks do without starting it.

## 8. What is not modelled

* Incoming diffs are written by a task each, in any order. `ServerSync` has the tasks (`Apply`), with diffs that add; `PrologFacts` has what becomes of
  their facts (`ChangeLinks`). Not modelled is what the order does to a removal and its addition, and the rows of a
  diff that is handed over twice: see section 7. The order of the rows in a batch of diffs (`db.rs` 1026), which is
  noticed in section 7. Capabilities: see section 2. Subscriptions other than those of notifications pass through the same
  `PubSub`.
* Embedding and transcription models: a thread each, without tasks or rows that change. Of the
  agent: trusted agents, friends and entanglement, which are rows of the database.
* `p-diff-sync-socket-signaling` has the zomes of `perspective-diff-sync`, whose
  broadcasts go through a server outside the repository. Other bootstrap languages store and fetch content-addressed
  expressions.
* Telepresence: signals that are sent and forgotten.
* The JavaScript core: a channel to an embedded runtime
  whose concurrency is that of a library. Of the conductor service only `install_app()` with its timeout, removal and
  the forwarding of signals are modelled (`Languages`).
* Expressions and interactions of languages: calls without state of the
  controller. Whether an author is trusted, and what templating puts into a bundle, are data.
* `update_link()` of a subject, which none of the modelled clients calls, and what a subject class makes of
  links when it reads them, which is Prolog.
* Runtime and GraphQL resolvers: single reads and writes, and translation.
* Client library, CLI, launcher, hooks and documentation: clients of the
  GraphQL interface, but for what they write of subjects.
* Cryptography, templates, Prolog answers and Social DNA code are data.
