----------------------------- MODULE ServerSync -----------------------------
(***************************************************************************)
(* A perspective that is shared through a server:                          *)
(* bootstrap-languages/centralized-p-diff-sync, linksAdapter.ts.           *)
(*                                                                         *)
(* The server keeps the diffs of the perspective in a log, and for every   *)
(* agent the date up to which it has seen them.  The language asks once,   *)
(* by a sync, for what is newer than that date; from then on it lives on   *)
(* the signals of the room, and tells the server the date of each.  It     *)
(* remembers the last date in myCurrentTime.  The executor's loops call    *)
(* sync(), commit() and render() when they like, and none of them waits    *)
(* for another.                                                            *)
(*                                                                         *)
(* The model is of one agent; the other agents are the growth of the log.  *)
(* The server is no part of the repository: it is what these calls take it *)
(* for.  A date is the number of the diffs in the log, and somebody has    *)
(* committed before, so that the server always has a date to give.  The    *)
(* socket keeps the order of messages while it is connected, loses what is *)
(* under way when it breaks, and sends what was emitted meanwhile when it  *)
(* is connected again.  The handler of "reconnect", which was to sync      *)
(* again, never runs: in socket.io-client 4.7.2 that is an event of the    *)
(* manager and not of the socket.  It is left out.                         *)
(***************************************************************************)
EXTENDS Naturals, Sequences

CONSTANTS
    MaxLog,       \* bound: diffs in the log
    MaxCalls,     \* bound: commits and renders of the agent
    MaxUnderWay,  \* bound: messages under way when the agent adds one of these
    MaxTroubles   \* bound: broken connections, restarts and refusals, together

ASSUME ServerAssumption ==
    MaxLog \in Nat \ {0} /\ MaxCalls \in Nat /\ MaxUnderWay \in Nat /\ MaxTroubles \in Nat

VARIABLES
    log,            \* the authors of the diffs: "me" or "other"
    recorded,       \* the date that the server has for this agent
    member,         \* is the agent's socket in the room?
    connected,      \* is the socket connected?
    up, down,       \* messages to and from the server
    myCurrentTime,  \* 0 stands for null
    hasCalledSync,
    inbox,          \* what was handed to the executor and has a task that is to
                    \* store it: the diff of a signal, those of a sync
    db,             \* diffs in the database
    lost,           \* was a connection lost after its sync, in this process?
    skipped,        \* has the date advanced before a sync of the connection was
                    \* answered, or was one answered before the agent was in the room?
    dropped,        \* did a crash lose something of the inbox?
    calls, troubles

server  == <<log, recorded, member>>
socket  == <<connected, up, down>>
adapter == <<myCurrentTime, hasCalledSync>>
rest    == <<inbox, db, lost, skipped, dropped, calls, troubles>>
vars    == <<server, socket, adapter, rest>>

Dates == 1 .. MaxLog
Now   == Len(log)

Question == [is : {"join", "sync", "commit", "render"}] \cup [is : {"date"}, t : Dates]
Answer   == [is : {"signal", "commit", "render"}, t : Dates]
                \cup [is : {"sync"}, t : Dates, new : SUBSET Dates]

TypeOK ==
    /\ log \in Seq({"me", "other"}) /\ Now \in Dates
    /\ recorded \in 0 .. MaxLog
    /\ member \in BOOLEAN /\ connected \in BOOLEAN
    /\ up \in Seq(Question) /\ down \in Seq(Answer)
    /\ myCurrentTime \in 0 .. MaxLog /\ hasCalledSync \in BOOLEAN
    /\ inbox \subseteq SUBSET Dates /\ db \subseteq Dates
    /\ lost \in BOOLEAN /\ skipped \in BOOLEAN /\ dropped \in BOOLEAN
    /\ troubles \in 0 .. MaxTroubles /\ calls \in 0 .. MaxCalls

Init ==
    /\ log = <<"other">> /\ recorded = 0 /\ member = FALSE
    /\ connected = FALSE /\ up = <<>> /\ down = <<>>
    /\ myCurrentTime = 0 /\ hasCalledSync = FALSE
    /\ inbox = {} /\ db = {}
    /\ lost = FALSE /\ skipped = FALSE /\ dropped = FALSE /\ troubles = 0 /\ calls = 0

Trouble == troubles < MaxTroubles /\ troubles' = troubles + 1

-----------------------------------------------------------------------------
(* The executor.                                                           *)

(* The handler of "connect": what was emitted meanwhile is sent first.     *)
Connect ==
    /\ ~connected
    /\ connected' = TRUE
    /\ up' = Append(up, [is |-> "join"])
    /\ UNCHANGED <<server, down, adapter, rest>>

Ask(q) ==
    /\ Len(up) + Len(down) < MaxUnderWay
    /\ up' = Append(up, [is |-> q])
    /\ UNCHANGED <<server, connected, down, inbox, db, lost, skipped, dropped, troubles>>

\* mutant: it is asked once
SyncOnce == ~hasCalledSync /\ hasCalledSync' = TRUE /\ Ask("sync") /\ UNCHANGED <<myCurrentTime, calls>>

(* sync(), from nh_sync_loop() every three seconds: until the first answer *)
(* it is asked again and again.                                            *)
Sync == ~hasCalledSync /\ Ask("sync") /\ UNCHANGED <<adapter, calls>>

(* commit(), from the executor's tasks or its loop.                        *)
Commit == calls < MaxCalls /\ calls' = calls + 1 /\ Ask("commit") /\ UNCHANGED adapter

(* render(), for a snapshot of the perspective.                            *)
Render == calls < MaxCalls /\ calls' = calls + 1 /\ Ask("render") /\ UNCHANGED adapter

\* mutant: the date that is reported is the one that is still to come
ReportNext(t) == up' = Append(up, [is |-> "date", t |-> t + 1])

(* updateServerSyncState()                                                 *)
Report(t) == up' = Append(up, [is |-> "date", t |-> t])

Advance(t) ==
    /\ myCurrentTime' = t
    /\ Report(t)
    /\ skipped' = (skipped \/ lost \/ ~hasCalledSync)

\* mutant: the date is reported although the diff is not taken
SignalReported(m) ==
    /\ m.is = "signal"
    /\ Report(m.t)
    /\ IF myCurrentTime # 0 /\ myCurrentTime < m.t
       THEN /\ myCurrentTime' = m.t /\ inbox' = inbox \cup {{m.t}}
            /\ skipped' = (skipped \/ lost \/ ~hasCalledSync)
       ELSE UNCHANGED <<myCurrentTime, skipped, inbox>>
    /\ UNCHANGED hasCalledSync

(* The handler of "signal-emit".                                           *)
Signal(m) ==
    /\ m.is = "signal"
    /\ IF myCurrentTime # 0 /\ myCurrentTime < m.t
       THEN Advance(m.t) /\ inbox' = inbox \cup {{m.t}}
       ELSE UNCHANGED <<myCurrentTime, up, skipped, inbox>>
    /\ UNCHANGED hasCalledSync

(* The callback of sync(): the date first, then the diffs, if any.         *)
SyncAnswer(m) ==
    /\ m.is = "sync"
    /\ myCurrentTime' = m.t
    /\ Report(m.t)
    /\ hasCalledSync' = TRUE
    /\ inbox' = inbox \cup ({m.new} \ {{}})
    /\ UNCHANGED skipped

(* The callbacks of commit() and render(): the server's date becomes ours. *)
DateAnswer(m) ==
    /\ m.is \in {"commit", "render"}
    /\ Advance(m.t)
    /\ UNCHANGED <<hasCalledSync, inbox>>

Receive ==
    /\ down # <<>>
    /\ down' = Tail(down)
    /\ Signal(Head(down)) \/ SyncAnswer(Head(down)) \/ DateAnswer(Head(down))
    /\ UNCHANGED <<server, connected, db, lost, dropped, calls, troubles>>

(* handleSignal() ends in handle_perspective_diff_from_link_language(),    *)
(* which spawns a task of its own for what it is handed: they come to      *)
(* diff_from_link_language() of the perspective in any order.              *)
Apply(handed) ==
    /\ handed \in inbox
    /\ db' = db \cup handed /\ inbox' = inbox \ {handed}
    /\ UNCHANGED <<server, socket, adapter, lost, skipped, dropped, calls, troubles>>

(* The executor stops and starts: create() makes a new socket.             *)
Restart ==
    /\ Trouble
    /\ connected' = FALSE /\ member' = FALSE
    /\ up' = <<>> /\ down' = <<>>
    /\ myCurrentTime' = 0 /\ hasCalledSync' = FALSE /\ lost' = FALSE
    /\ dropped' = (dropped \/ inbox # {}) /\ inbox' = {}
    /\ UNCHANGED <<log, recorded, db, skipped, calls>>

-----------------------------------------------------------------------------
(* The server and the network.                                             *)

ToRoom(t) == IF member THEN <<[is |-> "signal", t |-> t]>> ELSE <<>>

Commits(author) == Now < MaxLog /\ log' = Append(log, author)

Joins == member' = TRUE /\ UNCHANGED <<log, recorded, down>>

(* What is newer than the agent's date, and the date of now.               *)
AnswersSync ==
    /\ down' = Append(down, [is |-> "sync", t |-> Now, new |-> recorded + 1 .. Now])
    /\ skipped' = (skipped \/ ~member)
    /\ UNCHANGED server

(* The commit of the agent is answered, and signalled to the room, in      *)
(* which the agent may be itself.                                          *)
AnswersCommit ==
    /\ Commits("me")
    /\ \E echo \in {<<>>, ToRoom(Now + 1)} :
          down' = down \o echo \o <<[is |-> "commit", t |-> Now + 1]>>
    /\ UNCHANGED <<recorded, member>>

AnswersRender ==
    /\ down' = Append(down, [is |-> "render", t |-> Now])
    /\ UNCHANGED server

Records(t) == recorded' = t /\ UNCHANGED <<log, member, down>>

Serve ==
    /\ connected /\ up # <<>>
    /\ up' = Tail(up)
    /\ \/ Head(up).is = "sync" /\ AnswersSync
       \/ /\ \/ Head(up).is = "join" /\ Joins
             \/ Head(up).is = "commit" /\ AnswersCommit
             \/ Head(up).is = "render" /\ AnswersRender
             \/ Head(up).is = "date" /\ Records(Head(up).t)
          /\ UNCHANGED skipped
    /\ UNCHANGED <<connected, adapter, inbox, db, lost, dropped, calls, troubles>>

(* The server answers a call with an error, which its callback throws.     *)
Refuse ==
    /\ connected /\ up # <<>> /\ Head(up).is \in {"sync", "commit", "render"}
    /\ up' = Tail(up)
    /\ Trouble \/ (Head(up).is = "commit" /\ Now = MaxLog /\ UNCHANGED troubles)
    /\ UNCHANGED <<server, connected, down, adapter, inbox, db, lost, skipped, dropped, calls>>

OtherCommits ==
    /\ Commits("other")
    /\ down' = down \o ToRoom(Now + 1)
    /\ UNCHANGED <<recorded, member, connected, up, adapter, rest>>

Disconnect ==
    /\ connected /\ Trouble
    /\ connected' = FALSE /\ member' = FALSE
    /\ up' = <<>> /\ down' = <<>>
    /\ lost' = (lost \/ hasCalledSync)
    /\ UNCHANGED <<log, recorded, adapter, inbox, db, skipped, dropped, calls>>

Next ==
    \/ Connect \/ Sync \/ Commit \/ Render \/ Receive \/ Restart
    \/ \E handed \in inbox : Apply(handed)
    \/ Serve \/ Refuse \/ OtherCommits \/ Disconnect

(* The socket connects again by itself, messages arrive and are handled,   *)
(* every task that was spawned is run, and nh_sync_loop() calls sync()     *)
(* every three seconds.  Nobody has to commit or render.                   *)
Fairness ==
    /\ WF_vars(Connect) /\ WF_vars(Serve \/ Refuse) /\ WF_vars(Receive)
    /\ WF_vars(\E handed \in inbox : Apply(handed)) /\ WF_vars(Sync)

Spec     == Init /\ [][Next]_vars
FairSpec == Spec /\ Fairness

-----------------------------------------------------------------------------
Mine == {i \in 1 .. Now : log[i] = "me"}
Has  == Mine \cup db \cup UNION inbox

(* The executor has been handed a diff only with all that were before it.  *)
InOrder == \A d \in db \cup UNION inbox : 1 .. d \subseteq Has

(* The date that the server keeps for the agent, and the one that the      *)
(* agent goes by once it is synced, have no diff before them that the      *)
(* agent does not have: a later sync would not bring it.  Through lost     *)
(* connections and restarts, as long as no answer of a commit or a render  *)
(* and no signal advances the date before a sync of this connection is     *)
(* answered, the sync is not sent before the room is joined (as it is when *)
(* the loop calls it while the socket is not connected yet), and no crash  *)
(* comes between the report and the database.  A connection that is made   *)
(* again after its sync has none: there any signal advances the date.  Nor *)
(* is the executor handed a diff before one that is older.                 *)
NothingSkipped ==
    ~skipped /\ ~dropped =>
        /\ 1 .. recorded \subseteq Has
        /\ hasCalledSync => 1 .. myCurrentTime \subseteq Has
        /\ InOrder

(* When the others have ceased to commit, the agent has everything in the  *)
(* end, with the same exceptions, and unless a connection was lost after   *)
(* its sync: then a restart is needed.                                     *)
EverythingComes ==
    <>[](1 .. Now \subseteq Mine \cup db \/ lost \/ skipped \/ dropped)
=============================================================================
