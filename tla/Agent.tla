------------------------------- MODULE Agent --------------------------------
(***************************************************************************)
(* The agent of an executor: its keys, its profile, and the expression of  *)
(* the agent language by which others know it.  AgentService and Wallet    *)
(* (rust-executor/src/agent, wallet.rs), AgentService and Ad4mCore         *)
(* (executor/src/core), and AgentClient of the clients.                    *)
(*                                                                         *)
(* agent.json has the encrypted keys from when they are generated, and     *)
(* agentProfile.json the profile from its first change on; both survive a  *)
(* restart, the keys and the profile in memory do not.  The profile is     *)
(* changed in memory and on the disk, and then published through the queue *)
(* of the agent language.  A step is what a call does from one await to    *)
(* the next.                                                               *)
(*                                                                         *)
(* A profile is abstracted to the links that clients added to its          *)
(* perspective, each named by the call that did, and to whose direct       *)
(* message language it has.  Clients generate an agent only if there is    *)
(* none, unlock only one that was generated, and do not lock keys without  *)
(* a secret (Restart).  Capabilities are left out.                         *)
(***************************************************************************)
EXTENDS Naturals, Sequences

CONSTANTS
    Clients,      \* calls, one of each
    Passphrases,
    NoAgent,
    Failures,     \* steps that fail
    Restarts

VARIABLES
    file,         \* agent.json: the passphrase of its keys
    profileFile,  \* agentProfile.json
    cipher, keys, \* Wallet: what opens the cipher, and the keys
    agent,        \* AgentService.agent
    published,    \* the latest expression of the agent in the DHT
    holochain,    \* HolochainService of the core
    language,     \* has AgentService its agent language?
    zome,         \* the queue of zome calls of the agent language
    call, at,     \* per client, what it calls and where it awaits
    given,        \* ... the passphrase it was given
    held,         \* ... the profile it has read
    told,         \* the profile as the calls have changed it one by one
    raced,        \* was the profile changed while another call held it?
    missed,       \* was the last change not handed to the conductor?
    failures, restarts

disk     == <<file, profileFile>>
wallet   == <<cipher, keys>>
core     == <<holochain, language>>
bounds   == <<failures, restarts>>
history  == <<told, raced>>
vars     == <<disk, wallet, agent, published, core, zome, call, at, given, held,
              history, missed, bounds>>

Profile  == [links : SUBSET Clients, dm : Clients \cup {"none", "template"}]
Nobody   == [links |-> {}, dm |-> "none"]
Asked    == {"none", "generate", "unlock", "lock", "setDm", "mutate"}
Stages   == {"idle", "unlocked", "again", "store", "holochain", "languages", "template",
             "get", "me", "publish", "done"}

TypeOK ==
    /\ file \in Passphrases \cup {NoAgent}
    /\ cipher \in Passphrases \cup {NoAgent}
    /\ keys \in {"none", "whole", "public"}
    /\ {profileFile, agent, published} \subseteq Profile \cup {NoAgent}
    /\ holochain \in {"none", "starting", "running"}
    /\ language \in BOOLEAN /\ raced \in BOOLEAN /\ missed \in BOOLEAN
    /\ zome \in Seq([from : Clients, fn : {"create", "get"}, profile : Profile])
    /\ call \in [Clients -> Asked] /\ at \in [Clients -> Stages]
    /\ given \in [Clients -> Passphrases \cup {NoAgent}]
    /\ held \in [Clients -> Profile]
    /\ told \in Profile
    /\ failures \in 0 .. Failures /\ restarts \in 0 .. Restarts

Init ==
    /\ file = NoAgent /\ profileFile = NoAgent
    /\ cipher = NoAgent /\ keys = "none"
    /\ agent = NoAgent /\ published = NoAgent
    /\ holochain = "none" /\ language = FALSE
    /\ zome = <<>>
    /\ call = [c \in Clients |-> "none"]
    /\ at = [c \in Clients |-> "idle"]
    /\ given = [c \in Clients |-> NoAgent]
    /\ held = [c \in Clients |-> Nobody]
    /\ told = Nobody /\ raced = FALSE /\ missed = FALSE
    /\ failures = 0 /\ restarts = 0

-----------------------------------------------------------------------------
(* What the steps of calls are made of.                                    *)

Go(c, s)    == at' = [at EXCEPT ![c] = s]
Begin(c, o) == at[c] = "idle" /\ call' = [call EXCEPT ![c] = o]
Holds(c)    == held' = [held EXCEPT ![c] = agent]
Fail        == failures < Failures /\ failures' = failures + 1 /\ UNCHANGED restarts

\* mutant: a zome call overtakes those that wait
AskFirst(c, fn, p) == zome' = <<[from |-> c, fn |-> fn, profile |-> p]>> \o zome

Ask(c, fn, p) == zome' = Append(zome, [from |-> c, fn |-> fn, profile |-> p])

(* storeAgentProfile() of the profile p in memory: without the agent       *)
(* language, or without keys to sign with, it throws.                      *)
CanStore == language /\ keys = "whole"

Store(c, p, then, otherwise) ==
    \/ CanStore /\ Ask(c, "create", p) /\ Go(c, then)
    \/ ~CanStore /\ UNCHANGED zome /\ Go(c, otherwise)

\* mutant: the profile is written to the disk with the keys only
InMemory(c, p) == agent' = p /\ UNCHANGED profileFile

(* save_agent_profile()                                                    *)
Save(c, p) == agent' = p /\ profileFile' = p

Holders == {c \in Clients : at[c] \in {"template", "get", "me"}}

(* updateAgent(): the profile is saved whether or not it can be published. *)
Update(c, p, then) ==
    /\ Save(c, p)
    /\ Store(c, p, "publish", "done")
    /\ missed' = ~CanStore
    /\ told' = then
    /\ raced' = (raced \/ Holders \ {c} # {})
    /\ UNCHANGED <<file, wallet, published, core, call, given, held, bounds>>

Quiet == UNCHANGED <<disk, wallet, agent, published, history, missed>>

-----------------------------------------------------------------------------
(* agent_generate(): create_new_keys() and save(), under one lock; the     *)
(* profile is written to no file.  Then agentGenerate starts Holochain.    *)
Generate(c, p) ==
    /\ Begin(c, "generate")
    /\ file = NoAgent
    /\ keys' = "whole" /\ cipher' = p /\ file' = p
    /\ agent' = Nobody
    /\ holochain' = "starting"
    /\ missed' = TRUE
    /\ Go(c, "holochain")
    /\ UNCHANGED <<profileFile, published, language, zome, given, held, history, bounds>>

(* agent_unlock(): decrypt() fails for another passphrase.                 *)
Unlock(c, p) ==
    /\ Begin(c, "unlock")
    /\ cipher # NoAgent
    /\ \/ p = cipher /\ keys' = "whole" /\ Go(c, "unlocked")
       \/ p # cipher /\ UNCHANGED keys /\ Go(c, "done")
    /\ given' = [given EXCEPT ![c] = p]
    /\ UNCHANGED <<disk, cipher, agent, published, core, zome, held, history, missed,
                   bounds>>

(* The call ends if the agent was locked before it looks; agentUnlock in   *)
(* the core unlocks once more, whose error is not waited for.              *)
UnlockAgain(c) ==
    /\ at[c] = "unlocked"
    /\ \/ keys = "none" /\ UNCHANGED keys /\ Go(c, "done")
       \/ keys' = (IF given[c] = cipher THEN "whole" ELSE keys) /\ Go(c, "again")
    /\ UNCHANGED <<disk, cipher, agent, published, core, zome, call, given, held,
                   history, missed, bounds>>

(* agent_lock() encrypts the keys with whatever passphrase it is given.    *)
Lock(c, p) ==
    /\ Begin(c, "lock")
    /\ keys # "public"
    /\ \/ keys = "whole" /\ cipher' = p /\ keys' = "none"
       \/ keys = "none" /\ UNCHANGED wallet
    /\ Go(c, "done")
    /\ UNCHANGED <<disk, agent, published, core, zome, given, held, history, missed, bounds>>

(* AgentService.unlock() stores the profile, which fails until the         *)
(* languages are loaded.                                                   *)
StoreUnlocked(c) ==
    /\ at[c] = "again"
    /\ Store(c, agent, "store", "store")
    /\ missed' = (missed /\ ~CanStore)
    /\ UNCHANGED <<disk, wallet, agent, published, core, call, given, held, history, bounds>>

Stored(c) == at[c] = "store" /\ \A k \in DOMAIN zome : zome[k].from # c

(* Then Holochain, unless it was started, and the languages; nothing if    *)
(* the agent was locked meanwhile.                                         *)
StartHolochain(c) ==
    /\ Stored(c)
    /\ \/ keys = "none" /\ Go(c, "done") /\ UNCHANGED holochain
       \/ keys # "none" /\ holochain = "none" /\ holochain' = "starting" /\ Go(c, "holochain")
       \/ keys # "none" /\ holochain # "none" /\ UNCHANGED holochain /\ Go(c, "languages")
    /\ Quiet
    /\ UNCHANGED <<language, zome, call, given, held, bounds>>

(* run() ends, or throws and leaves the HolochainService behind.           *)
HolochainRuns(c) ==
    /\ at[c] = "holochain"
    /\ \/ holochain' = "running" /\ Go(c, "languages") /\ UNCHANGED bounds
       \/ Fail /\ Go(c, "done") /\ UNCHANGED holochain
    /\ Quiet
    /\ UNCHANGED <<language, zome, call, given, held>>

(* initLanguages(); then agentGenerate goes on with                        *)
(* initializeAgentsDirectMessageLanguage(), and agentUnlock with           *)
(* ensureAgentExpression().  Both have read the profile when they wait.    *)
LanguagesLoaded(c) ==
    /\ at[c] = "languages"
    /\ holochain = "running"
    /\ language' = TRUE
    /\ Holds(c)
    /\ \/ /\ call[c] = "generate"
          /\ Go(c, IF agent.dm = "none" THEN "template" ELSE "done")
          /\ UNCHANGED zome
       \/ call[c] = "unlock" /\ Ask(c, "get", agent) /\ Go(c, "get")
    /\ Quiet
    /\ UNCHANGED <<holochain, call, given, bounds>>

LanguagesFail(c) ==
    /\ at[c] = "languages"
    /\ \/ Fail
       \/ holochain = "starting" /\ UNCHANGED bounds
    /\ Go(c, "done")
    /\ Quiet
    /\ UNCHANGED <<core, zome, call, given, held>>

(* The language is made from the template, published and installed; it     *)
(* becomes part of the profile that was read before.                       *)
Templated(c) ==
    /\ at[c] = "template"
    /\ Update(c, [held[c] EXCEPT !.dm = "template"], [told EXCEPT !.dm = "template"])

TemplateFails(c) ==
    /\ at[c] = "template"
    /\ Fail
    /\ Go(c, "done")
    /\ Quiet
    /\ UNCHANGED <<core, zome, call, given, held>>

(* agentUpdateDirectMessageLanguage reads and saves without an await.      *)
SetDm(c) ==
    /\ at[c] = "idle"
    /\ agent # NoAgent
    /\ call' = [call EXCEPT ![c] = "setDm"]
    /\ Save(c, [agent EXCEPT !.dm = c])
    /\ Store(c, agent', "publish", "done")
    /\ missed' = ~CanStore
    /\ told' = [told EXCEPT !.dm = c]
    /\ raced' = (raced \/ Holders # {})
    /\ UNCHANGED <<file, wallet, published, core, given, held, bounds>>

(* mutatePublicPerspective() of the client: it asks for the agent, changes *)
(* a copy of the perspective,                                              *)
Me(c) ==
    /\ Begin(c, "mutate")
    /\ agent # NoAgent
    /\ Holds(c)
    /\ Go(c, "me")
    /\ Quiet
    /\ UNCHANGED <<core, zome, given, bounds>>

(* and sends it; agentUpdatePublicPerspective puts it into the profile as  *)
(* it is now.                                                              *)
UpdatePerspective(c) ==
    /\ at[c] = "me"
    /\ Update(c, [agent EXCEPT !.links = held[c].links \cup {c}],
                 [told EXCEPT !.links = @ \cup {c}])

-----------------------------------------------------------------------------
(* The first zome call of the queue is answered.  An error is an answer    *)
(* like any other, so that nobody notices it.                              *)
Others == \E k \in 2 .. Len(zome) : zome[k].fn = "create"

Created ==
    /\ zome # <<>> /\ Head(zome).fn = "create"
    /\ \/ published' = Head(zome).profile /\ UNCHANGED <<missed, bounds>>
       \/ Fail /\ UNCHANGED published /\ missed' = (missed \/ ~Others)
    /\ zome' = Tail(zome)
    /\ LET c == Head(zome).from IN
       IF at[c] = "publish" THEN Go(c, "done") ELSE UNCHANGED at
    /\ UNCHANGED <<disk, wallet, agent, core, call, given, held, history>>

(* ensureAgentExpression(): there is an expression, or what get() returned *)
(* is an error.                                                            *)
Found ==
    /\ zome # <<>> /\ Head(zome).fn = "get"
    /\ \/ published # NoAgent /\ UNCHANGED bounds
       \/ Fail
    /\ zome' = Tail(zome)
    /\ Go(Head(zome).from, "done")
    /\ Quiet
    /\ UNCHANGED <<core, call, given, held>>

(* There is none: the profile that was read before is saved and published. *)
Missing ==
    /\ zome # <<>> /\ Head(zome).fn = "get"
    /\ published = NoAgent
    /\ LET c == Head(zome).from IN
       /\ Save(c, held[c])
       /\ IF CanStore
          THEN /\ Go(c, "publish")
               /\ zome' = Append(Tail(zome), [from |-> c, fn |-> "create",
                                              profile |-> held[c]])
          ELSE Go(c, "done") /\ zome' = Tail(zome)
       /\ raced' = (raced \/ Holders \ {c} # {})
    /\ missed' = ~CanStore
    /\ UNCHANGED <<file, wallet, published, core, call, given, held, told, bounds>>

(* The process ends and begins again: load().  Without a profile on the    *)
(* disk it makes one, and keys without a secret, with which the wallet     *)
(* counts as unlocked.  Clients go on with what they have read.            *)
Restart ==
    /\ restarts < Restarts /\ restarts' = restarts + 1
    /\ file # NoAgent
    /\ cipher' = file
    /\ \/ profileFile # NoAgent /\ keys' = "none" /\ agent' = profileFile
       \/ profileFile = NoAgent /\ keys' = "public" /\ agent' = Nobody
    /\ holochain' = "none" /\ language' = FALSE
    /\ zome' = <<>>
    /\ missed' = (missed \/ \E k \in DOMAIN zome : zome[k].fn = "create")
    /\ at' = [c \in Clients |-> IF at[c] \in {"idle", "me"} THEN at[c] ELSE "done"]
    /\ UNCHANGED <<disk, published, call, given, held, history, failures>>

Next ==
    \/ \E c \in Clients, p \in Passphrases : Generate(c, p) \/ Unlock(c, p) \/ Lock(c, p)
    \/ \E c \in Clients :
         \/ UnlockAgain(c) \/ StoreUnlocked(c) \/ StartHolochain(c) \/ HolochainRuns(c)
         \/ LanguagesLoaded(c) \/ LanguagesFail(c) \/ Templated(c) \/ TemplateFails(c)
         \/ SetDm(c) \/ Me(c) \/ UpdatePerspective(c)
    \/ Created \/ Found \/ Missing \/ Restart

Spec == Init /\ [][Next]_vars

-----------------------------------------------------------------------------
(* As long as no call changes the profile while another holds a copy of it *)
(* that it will write, the profile is what the calls have made of it,      *)
(* whatever was locked, failed or restarted in between.                    *)
UpdatesKept == agent # NoAgent /\ ~raced => agent = told

(* When no zome call is under way, the agent is published as it is, unless *)
(* its last change could not be handed over.                               *)
ProfilePublished == zome = <<>> /\ agent # NoAgent /\ ~missed => published = agent
=============================================================================
