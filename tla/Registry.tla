----------------------------- MODULE Registry ------------------------------
(***************************************************************************)
(* The perspectives of an executor and their handles: perspectives/mod.rs, *)
(* neighbourhoods.rs, update_perspective_state() of perspective_instance.rs*)
(* and the table perspective_handle of db.rs.                              *)
(*                                                                         *)
(* A handle is kept twice: in the instance that PERSPECTIVES has, and as a *)
(* row that the next process begins with.  Whoever changes a handle reads  *)
(* a copy, changes the copy, and hands it to update_perspective(), which   *)
(* stores it in the instance and then in the row: nothing is locked from   *)
(* one to the next.  Publishing and joining a neighbourhood wait for       *)
(* languages in between.                                                   *)
(*                                                                         *)
(* A handle is abstracted to its name, by the call that gave it, to the    *)
(* URL of its neighbourhood, by the call that published it, and to its     *)
(* state of synchronisation, where all failures are NotSynced.             *)
(***************************************************************************)
EXTENDS Naturals, FiniteSets

CONSTANTS
    Requests,          \* calls, one of each
    Foreign,           \* the URL of a neighbourhood of others
    NoUrl,
    MaxPerspectives,   \* bound: perspectives
    MaxReboots         \* bound: restarts of the process

VARIABLES
    used,              \* number of uuids that were given out
    perspectives,      \* uuids in PERSPECTIVES
    persisted,         \* per instance: its handle
    running,           \* instances whose background tasks run
    handles,           \* the table: handles by uuid
    neighbourhoods,    \* URLs of neighbourhoods that clients may know
    asked, step,       \* per call: what it does, and how far it is
    uuid, url,         \* ... the perspective and the URL that it is about
    copy,              \* ... the handle that it will store
    meant,             \* handles as the updates changed them one by one
    crossed,           \* was a handle stored while another call had read it, or
                       \* in memory only when a process ended?
    joinedTwice,       \* did two calls join the same neighbourhood at a time?
    reboots

memory == <<perspectives, persisted, running>>
calls  == <<asked, step, uuid, url, copy>>
vars   == <<used, memory, handles, neighbourhoods, calls, meant, crossed, joinedTwice, reboots>>

Uuids  == 1 .. MaxPerspectives
Urls   == Requests \cup {Foreign}
States == {"Private", "NotSynced", "Synced"}
Named  == "named"           \* the name that a perspective has from before
Handle == [name : Requests \cup {Named}, url : Urls \cup {NoUrl}, state : States]

TypeOK ==
    /\ used \in 0 .. MaxPerspectives
    /\ perspectives \subseteq 1 .. used /\ running \subseteq 1 .. used
    /\ persisted \in [1 .. used -> Handle] /\ meant \in [1 .. used -> Handle]
    /\ DOMAIN handles \subseteq 1 .. used
    /\ \A u \in DOMAIN handles : handles[u] \in Handle
    /\ neighbourhoods \subseteq Urls
    /\ asked \in [Requests -> {"none", "add", "join", "rename", "publish", "sync", "remove"}]
    /\ step \in [Requests -> {"idle", "join", "publish", "read", "stored", "added",
                              "removed", "done"}]
    /\ uuid \in [Requests -> Uuids]
    /\ url \in [Requests -> Urls \cup {NoUrl}]
    /\ copy \in [Requests -> Handle \cup {NoUrl}]
    /\ \A c \in Requests : step[c] \in {"read", "stored"} => copy[c] \in Handle
    /\ crossed \in BOOLEAN /\ joinedTwice \in BOOLEAN
    /\ reboots \in 0 .. MaxReboots

\* initialize_from_db(), with private perspectives
Init ==
    /\ used \in 0 .. MaxPerspectives
    /\ handles = [u \in 1 .. used |-> [name |-> Named, url |-> NoUrl, state |-> "Private"]]
    /\ persisted = handles /\ meant = handles
    /\ perspectives = DOMAIN handles /\ running = DOMAIN handles
    /\ neighbourhoods = {Foreign}
    /\ asked = [c \in Requests |-> "none"] /\ step = [c \in Requests |-> "idle"]
    /\ uuid = [c \in Requests |-> 1] /\ url = [c \in Requests |-> NoUrl]
    /\ copy = [c \in Requests |-> NoUrl]
    /\ crossed = FALSE /\ joinedTwice = FALSE
    /\ reboots = 0

With(table, u, handle) == [v \in DOMAIN table \cup {u} |-> IF v = u THEN handle ELSE table[v]]

At(c, from, to) == step[c] = from /\ step' = [step EXCEPT ![c] = to]

Begin(c, what, to) == At(c, "idle", to) /\ asked' = [asked EXCEPT ![c] = what]

-----------------------------------------------------------------------------
(* add_perspective(): the row, then the instance, its tasks, and the entry *)
(* of the map.                                                             *)

Insert(c, handle) ==
    /\ used < MaxPerspectives /\ used' = used + 1
    /\ handles' = With(handles, used', handle)
    /\ persisted' = With(persisted, used', handle)
    /\ meant' = With(meant, used', handle)
    /\ uuid' = [uuid EXCEPT ![c] = used']
    /\ UNCHANGED <<perspectives, running, neighbourhoods, copy, crossed, reboots>>

AddPerspective(c) ==
    /\ Begin(c, "add", "added")
    /\ Insert(c, [name |-> c, url |-> NoUrl, state |-> "Private"])
    /\ UNCHANGED <<url, joinedTwice>>

Known(c) ==
    /\ At(c, "added", "done")
    /\ perspectives' = perspectives \cup {uuid[c]}
    /\ running' = running \cup {uuid[c]}
    /\ UNCHANGED <<used, persisted, handles, neighbourhoods, asked, uuid, url, copy, meant,
                   crossed, joinedTwice, reboots>>

(* install_neighbourhood(): no perspective has the URL; then the           *)
(* neighbourhood and its language are looked up.                           *)
Join(c, there) ==
    /\ Begin(c, "join", "join")
    /\ \A u \in perspectives : persisted[u].url # there
    /\ url' = [url EXCEPT ![c] = there]
    /\ joinedTwice' = (joinedTwice \/ \E d \in Requests : step[d] \in {"join", "added"} /\ url[d] = there)
    /\ UNCHANGED <<used, memory, handles, neighbourhoods, uuid, copy, meant, crossed, reboots>>

Joined(c) ==
    /\ At(c, "join", "added")
    /\ Insert(c, [name |-> c, url |-> url[c], state |-> "NotSynced"])
    /\ UNCHANGED <<asked, url, joinedTwice>>

-----------------------------------------------------------------------------
(* Changes of a handle: a call reads it once, and changes some fields.     *)

Fields == [rename |-> {"name"}, publish |-> {"url", "state"}, sync |-> {"state"}]

Holds(c, handle) == copy' = [copy EXCEPT ![c] = handle]

ReadsOnly == UNCHANGED <<used, memory, handles, meant, crossed, joinedTwice, reboots>>

About(c, u) == uuid' = [uuid EXCEPT ![c] = u]

(* perspective_update of the clients.                                      *)
Rename(c, u) ==
    /\ Begin(c, "rename", "read")
    /\ About(c, u)
    /\ Holds(c, [persisted[u] EXCEPT !.name = c])
    /\ UNCHANGED <<neighbourhoods, url>>
    /\ ReadsOnly

(* update_perspective_state(), which the loops of the instance and the     *)
(* link language call.                                                     *)
SetState(c, u, state) ==
    /\ Begin(c, "sync", "read")
    /\ persisted[u].url # NoUrl
    /\ persisted[u].state # state
    /\ About(c, u)
    /\ Holds(c, [persisted[u] EXCEPT !.state = state])
    /\ UNCHANGED <<neighbourhoods, url>>
    /\ ReadsOnly

(* neighbourhood_publish_from_perspective(): the link language is          *)
(* installed and the neighbourhood created, which may fail; the handle is  *)
(* read after that.                                                        *)
Publish(c, u) ==
    /\ Begin(c, "publish", "publish")
    /\ About(c, u)
    /\ UNCHANGED <<neighbourhoods, url, copy>>
    /\ ReadsOnly

Created(c) ==
    /\ At(c, "publish", "read")
    /\ Holds(c, [persisted[uuid[c]] EXCEPT !.url = c, !.state = "Synced"])
    /\ UNCHANGED <<neighbourhoods, asked, uuid, url>>
    /\ ReadsOnly

(* The languages fail, of a publication or of a join.                      *)
LanguagesFail(c) ==
    /\ step[c] \in {"publish", "join"}
    /\ step' = [step EXCEPT ![c] = "done"]
    /\ UNCHANGED <<neighbourhoods, asked, uuid, url, copy>>
    /\ ReadsOnly

(* update_perspective(): the instance, then the row; an error if the       *)
(* perspective is not there any more.                                      *)
Merged(c, handle) ==
    [f \in DOMAIN handle |-> IF f \in Fields[asked[c]] THEN copy[c][f] ELSE handle[f]]

StoreInMemory(c) ==
    /\ At(c, "read", IF uuid[c] \in perspectives THEN "stored" ELSE "done")
    /\ IF uuid[c] \in perspectives
       THEN /\ persisted' = [persisted EXCEPT ![uuid[c]] = copy[c]]
            /\ meant' = [meant EXCEPT ![uuid[c]] = Merged(c, @)]
            /\ crossed' = (crossed \/ \E d \in Requests \ {c} :
                               step[d] \in {"read", "stored"} /\ uuid[d] = uuid[c])
            /\ neighbourhoods' = neighbourhoods \cup ({copy[c].url} \ {NoUrl})
       ELSE UNCHANGED <<persisted, meant, crossed, neighbourhoods>>
    /\ UNCHANGED <<used, perspectives, running, handles, asked, uuid, url, copy, joinedTwice,
                   reboots>>

\* mutant: the row is inserted if it is not there
StoreInAnyRow(c) ==
    /\ At(c, "stored", "done")
    /\ handles' = With(handles, uuid[c], copy[c])
    /\ UNCHANGED <<used, memory, neighbourhoods, asked, uuid, url, copy, meant, crossed,
                   joinedTwice, reboots>>

StoreInRow(c) ==
    /\ At(c, "stored", "done")
    /\ handles' = IF uuid[c] \in DOMAIN handles THEN With(handles, uuid[c], copy[c]) ELSE handles
    /\ UNCHANGED <<used, memory, neighbourhoods, asked, uuid, url, copy, meant, crossed,
                   joinedTwice, reboots>>

-----------------------------------------------------------------------------
(* remove_perspective(): the row, then the entry of the map, and the tasks *)
(* of the instance are told to end.                                        *)

Remove(c, u) ==
    /\ Begin(c, "remove", "removed")
    /\ About(c, u)
    /\ handles' = [v \in DOMAIN handles \ {u} |-> handles[v]]
    /\ UNCHANGED <<used, memory, neighbourhoods, url, copy, meant, crossed, joinedTwice,
                   reboots>>

Forgotten(c) ==
    /\ At(c, "removed", "done")
    /\ perspectives' = perspectives \ {uuid[c]}
    /\ running' = running \ {uuid[c]}
    /\ UNCHANGED <<used, persisted, handles, neighbourhoods, asked, uuid, url, copy, meant,
                   crossed, joinedTwice, reboots>>

(* initialize_from_db() of the next process.                               *)
Restart ==
    /\ reboots < MaxReboots /\ reboots' = reboots + 1
    /\ perspectives' = DOMAIN handles /\ running' = DOMAIN handles
    /\ persisted' = [u \in 1 .. used |-> IF u \in DOMAIN handles THEN handles[u] ELSE persisted[u]]
    /\ meant' = [u \in 1 .. used |-> IF u \in DOMAIN handles THEN handles[u] ELSE meant[u]]
    /\ step' = [c \in Requests |-> IF step[c] = "idle" THEN "idle" ELSE "done"]
    /\ crossed' = (crossed \/ \E c \in Requests : step[c] = "stored")
    /\ UNCHANGED <<used, handles, neighbourhoods, asked, uuid, url, copy, joinedTwice>>

Next ==
    \/ \E c \in Requests :
          \/ AddPerspective(c) \/ Known(c) \/ Joined(c) \/ Created(c) \/ LanguagesFail(c)
          \/ StoreInMemory(c) \/ StoreInRow(c) \/ Forgotten(c)
          \/ \E there \in neighbourhoods : Join(c, there)
          \/ \E u \in perspectives :
                \/ Rename(c, u) \/ Publish(c, u) \/ Remove(c, u)
                \/ \E state \in {"NotSynced", "Synced"} : SetState(c, u, state)
    \/ Restart

Spec == Init /\ [][Next]_vars

-----------------------------------------------------------------------------
Settled == \A c \in Requests : step[c] \notin {"stored", "added", "removed"}

(* When no call is between its two stores, the table has the perspectives  *)
(* of the map, and the tasks of no others run; and as long as no handle    *)
(* was stored while another call had read it, an instance has the handle   *)
(* that the calls have made it, and so has its row.  Nothing that happens  *)
(* while a publication waits for its languages is undone, and no restart   *)
(* brings back a perspective that was removed.                             *)
HandlesKept ==
    Settled =>
        /\ perspectives = DOMAIN handles /\ running = perspectives
        /\ ~crossed => \A u \in perspectives : persisted[u] = handles[u] /\ persisted[u] = meant[u]

(* There is one perspective of a neighbourhood, however joins, publications*)
(* and removals follow each other, unless two calls join it at a time.     *)
JoinedOnce ==
    ~crossed /\ ~joinedTwice =>
        \A u, v \in perspectives :
            persisted[u].url = persisted[v].url /\ persisted[u].url # NoUrl => u = v
=============================================================================
