-------------------------- MODULE ServerSyncProofs --------------------------
(***************************************************************************)
(* For any number of diffs, calls and troubles: the date that the server   *)
(* has for an agent is never past a diff that the agent lacks, unless a    *)
(* date has advanced before the sync of the connection was answered, or a  *)
(* crash came between a report and the database.                           *)
(*                                                                         *)
(* Why: from the answer of a sync on, and until it is lost, the connection *)
(* accounts for the whole log.  What the agent has and what is under way   *)
(* to it make up all that was committed, and each date under way is        *)
(* preceded by all that is before it, because the socket keeps the order.  *)
(* So a date that the agent takes over, and reports, has nothing before it *)
(* that is missing.  A connection that is made again after its sync        *)
(* accounts for nothing, and the first date that it brings is an exception.*)
(***************************************************************************)
EXTENDS ServerSync, SequenceTheorems, TLAPS

(* The diffs that a message hands over.                                    *)
Brings(m) == IF m.is = "signal" THEN {m.t}
             ELSE IF m.is = "sync" THEN m.new ELSE {}

(* All up to n is there, or comes with the messages from i to j.           *)
Upto(n, i, j) ==
    \A d \in 1 .. n : d \in Has \/ \E k \in DOMAIN down :
                                      i <= k /\ k <= j /\ d \in Brings(down[k])

(* From message i on everything is accounted for: it answers a sync, or,   *)
(* for 0, a sync has been answered before and no connection lost since.    *)
Accounts(i) ==
    \/ i = 0 /\ hasCalledSync /\ ~lost
    \/ i \in DOMAIN down /\ down[i].is = "sync"

Accounted ==
    \A i \in Nat : Accounts(i) =>
        /\ \A j \in DOMAIN down : i <= j => Upto(down[j].t, i, j)
        /\ connected => Upto(Now, i, Len(down))

DatesReached ==
    /\ 1 .. recorded \subseteq Has
    /\ hasCalledSync => 1 .. myCurrentTime \subseteq Has
    /\ \A i \in DOMAIN up : up[i].is = "date" => 1 .. up[i].t \subseteq Has

ConnectionOK ==
    /\ ~connected => down = <<>> /\ ~member /\ (hasCalledSync => lost)
    /\ hasCalledSync => myCurrentTime # 0
    /\ ~skipped /\ connected /\ (\E i \in Nat : Accounts(i)) => member

(* The answer of a sync brings nothing newer than its date.                *)
NewUpToDate ==
    \A k \in DOMAIN down : down[k].is = "sync" => down[k].new \subseteq 1 .. down[k].t

IInv ==
    /\ TypeOK
    /\ ConnectionOK
    /\ NewUpToDate
    /\ ~skipped /\ ~dropped => DatesReached /\ Accounted /\ InOrder

-----------------------------------------------------------------------------
(* The type invariant.                                                     *)

LEMMA AnswerFields ==
    ASSUME NEW m \in Answer
    PROVE  /\ m.is \in {"signal", "commit", "render", "sync"} /\ m.t \in Dates
           /\ m.is = "sync" => m.new \in SUBSET Dates
BY DEF Answer

LEMMA QuestionFields ==
    ASSUME NEW q \in Question
    PROVE  q.is = "date" => q.t \in Dates
BY DEF Question

LEMMA MakesQuestion ==
    /\ \A s \in {"join", "sync", "commit", "render"} : [is |-> s] \in Question
    /\ \A d \in Dates : [is |-> "date", t |-> d] \in Question
BY DEF Question

LEMMA MakesAnswer ==
    /\ \A s \in {"signal", "commit", "render"}, d \in Dates : [is |-> s, t |-> d] \in Answer
    /\ \A d \in Dates, ds \in SUBSET Dates : [is |-> "sync", t |-> d, new |-> ds] \in Answer
BY DEF Answer

LEMMA QueueTyped ==
    ASSUME NEW S, NEW s \in Seq(S), s # <<>>
    PROVE  Head(s) \in S /\ Tail(s) \in Seq(S)
BY HeadTailProperties

(* What Receive does to the types.                                         *)
LEMMA ReceiveTyped == TypeOK /\ Receive => TypeOK'
<1> SUFFICES ASSUME TypeOK, Receive PROVE TypeOK'
  OBVIOUS
<1> DEFINE m == Head(down)
<1>1. m \in Answer /\ down' \in Seq(Answer)
  BY QueueTyped DEF Receive, TypeOK
<1>2. m.t \in Dates /\ (m.is = "sync" => m.new \in SUBSET Dates)
  BY <1>1, AnswerFields
<1>3. [is |-> "date", t |-> m.t] \in Question
  BY <1>2, MakesQuestion
<1>4. \A s \in Seq(Question) : Append(s, [is |-> "date", t |-> m.t]) \in Seq(Question)
  BY <1>3, AppendProperties
<1>5. /\ up' \in Seq(Question) /\ myCurrentTime' \in 0 .. MaxLog
      /\ inbox' \subseteq SUBSET Dates /\ skipped' \in BOOLEAN /\ hasCalledSync' \in BOOLEAN
  <2> HIDE DEF m
  <2>0. m.t \in 0 .. MaxLog /\ {m.t} \subseteq Dates
    BY <1>2, ServerAssumption DEF Dates
  <2>1. CASE Signal(m)
    <3>1. inbox' = inbox \/ inbox' = inbox \cup {{m.t}}
      BY <2>1 DEF Signal
    <3>2. inbox' \subseteq SUBSET Dates
      BY <2>0, <3>1 DEF TypeOK
    <3> QED  BY <2>0, <2>1, <1>4, <3>2 DEF TypeOK, Signal, Advance, Report
  <2>2. CASE SyncAnswer(m)
    <3>1. inbox' \subseteq SUBSET Dates
      BY <2>2, <1>2 DEF TypeOK, SyncAnswer
    <3> QED  BY <2>0, <2>2, <1>4, <3>1 DEF TypeOK, SyncAnswer, Report
  <2>3. CASE DateAnswer(m)
    BY <2>0, <2>3, <1>4 DEF TypeOK, DateAnswer, Advance, Report
  <2> QED  BY <2>1, <2>2, <2>3 DEF Receive, m
<1> QED  BY <1>1, <1>5 DEF Receive, TypeOK, server, Now

(* What the server and the others append to the log and to the answers.    *)
LEMMA CommitTyped ==
    ASSUME TypeOK, NEW author \in {"me", "other"}, Commits(author)
    PROVE  /\ log' \in Seq({"me", "other"}) /\ Now' = Now + 1 /\ Now + 1 \in Dates
           /\ \A i \in 1 .. Now : log'[i] = log[i]
           /\ log'[Now + 1] = author
           /\ ToRoom(Now + 1) \in Seq(Answer)
<1>1. log \in Seq({"me", "other"}) /\ Now < MaxLog /\ log' = Append(log, author)
  BY DEF TypeOK, Commits
<1>2. /\ log' \in Seq({"me", "other"}) /\ Now' = Now + 1
      /\ \A i \in 1 .. Now : log'[i] = log[i]
      /\ log'[Now + 1] = author
  BY <1>1, AppendProperties DEF Now
<1>3. Now + 1 \in Dates
  BY <1>1, ServerAssumption DEF Now, Dates, TypeOK
<1>4. [is |-> "signal", t |-> Now + 1] \in Answer
  BY <1>3, MakesAnswer
<1>5. ToRoom(Now + 1) \in Seq(Answer)
  BY <1>4 DEF ToRoom
<1> QED  BY <1>2, <1>3, <1>5

(* What the server answers.                                                *)
LEMMA ServeTyped == TypeOK /\ Serve => TypeOK'
<1> SUFFICES ASSUME TypeOK, Serve PROVE TypeOK'
  OBVIOUS
<1>1. Head(up) \in Question /\ up' \in Seq(Question)
  BY QueueTyped DEF Serve, TypeOK
<1>2. Now \in Dates /\ down \in Seq(Answer) /\ recorded \in 0 .. MaxLog
  BY DEF TypeOK
<1>3. /\ log' \in Seq({"me", "other"}) /\ Now' \in Dates /\ recorded' \in 0 .. MaxLog
      /\ member' \in BOOLEAN /\ down' \in Seq(Answer) /\ skipped' \in BOOLEAN
  <2>1. CASE AnswersSync
    <3>0. recorded + 1 .. Now \in SUBSET Dates
      BY <1>2, ServerAssumption DEF Dates
    <3>1. [is |-> "sync", t |-> Now, new |-> recorded + 1 .. Now] \in Answer
      BY <3>0, <1>2, MakesAnswer
    <3>2. Append(down, [is |-> "sync", t |-> Now, new |-> recorded + 1 .. Now]) \in Seq(Answer)
      BY <3>1, <1>2, AppendProperties
    <3> QED  BY <2>1, <3>2 DEF AnswersSync, TypeOK, server, Now
  <2>2. CASE Joins /\ UNCHANGED skipped
    BY <2>2 DEF Joins, TypeOK, Now
  <2>3. CASE AnswersCommit /\ UNCHANGED skipped
    <3>1. PICK echo \in {<<>>, ToRoom(Now + 1)} :
              down' = down \o echo \o <<[is |-> "commit", t |-> Now + 1]>>
      BY <2>3 DEF AnswersCommit
    <3>2. /\ log' \in Seq({"me", "other"}) /\ Now' = Now + 1 /\ Now + 1 \in Dates
          /\ echo \in Seq(Answer)
      <4>1. Commits("me")
        BY <2>3 DEF AnswersCommit
      <4>2. /\ log' \in Seq({"me", "other"}) /\ Now' = Now + 1 /\ Now + 1 \in Dates
            /\ ToRoom(Now + 1) \in Seq(Answer)
        BY <4>1, CommitTyped
      <4>3. echo \in Seq(Answer)
        <5>1. CASE echo = <<>>
          BY <5>1
        <5>2. CASE echo = ToRoom(Now + 1)
          BY <5>2, <4>2
        <5> QED  BY <5>1, <5>2
      <4> QED  BY <4>2, <4>3
    <3>3. <<[is |-> "commit", t |-> Now + 1]>> \in Seq(Answer)
      <4>1. \A m \in Answer : <<m>> \in Seq(Answer)
        OBVIOUS
      <4>2. \A n \in Dates : [is |-> "commit", t |-> n] \in Answer
        BY MakesAnswer
      <4> QED  BY <4>1, <4>2, <3>2
    <3>4. down' \in Seq(Answer)
      BY <3>1, <3>2, <3>3, <1>2, ConcatProperties
    <3> QED  BY <2>3, <3>2, <3>4 DEF AnswersCommit, TypeOK
  <2>4. CASE AnswersRender /\ UNCHANGED skipped
    <3>1. Append(down, [is |-> "render", t |-> Now]) \in Seq(Answer)
      BY <1>2, MakesAnswer, AppendProperties
    <3> QED  BY <2>4, <3>1 DEF AnswersRender, TypeOK, server, Now
  <2>5. CASE Head(up).is = "date" /\ Records(Head(up).t) /\ UNCHANGED skipped
    <3>1. Head(up).t \in Dates
      BY <2>5, <1>1, QuestionFields
    <3> QED  BY <2>5, <3>1 DEF Records, TypeOK, Now, Dates
  <2> QED  BY <2>1, <2>2, <2>3, <2>4, <2>5 DEF Serve
<1> QED  BY <1>1, <1>3 DEF Serve, TypeOK, adapter

LEMMA InitTyped == Init => TypeOK
<1> SUFFICES ASSUME Init PROVE TypeOK
  OBVIOUS
<1>1. log = <<"other">> /\ log \in Seq({"me", "other"}) /\ Now = 1
  BY DEF Init, Now
<1>2. up \in Seq(Question) /\ down \in Seq(Answer)
  BY DEF Init
<1>3. Now \in Dates /\ recorded \in 0 .. MaxLog /\ myCurrentTime \in 0 .. MaxLog
  BY <1>1, ServerAssumption DEF Init, Dates
<1>4. /\ member \in BOOLEAN /\ connected \in BOOLEAN /\ lost \in BOOLEAN
      /\ hasCalledSync \in BOOLEAN /\ skipped \in BOOLEAN /\ dropped \in BOOLEAN
      /\ inbox \subseteq SUBSET Dates /\ db \subseteq Dates
  BY DEF Init
<1>5. troubles \in 0 .. MaxTroubles /\ calls \in 0 .. MaxCalls
  BY ServerAssumption DEF Init
<1> QED  BY <1>1, <1>2, <1>3, <1>4, <1>5 DEF TypeOK

(* What the agent asks for, and what goes wrong.                           *)
LEMMA AgentTyped ==
    ASSUME TypeOK, \/ Connect \/ Sync \/ Commit \/ Render \/ Restart
                   \/ \E handed \in inbox : Apply(handed)
                   \/ Refuse \/ OtherCommits \/ Disconnect
    PROVE  TypeOK'
<1>1. CASE Connect
  <2>1. up' \in Seq(Question)
    BY <1>1, MakesQuestion, AppendProperties DEF Connect, TypeOK
  <2> QED  BY <1>1, <2>1 DEF Connect, TypeOK, server, adapter, rest, Now
<1>2. CASE Sync \/ Commit \/ Render
  <2>1. PICK q \in {"sync", "commit", "render"} : Ask(q)
    BY <1>2 DEF Sync, Commit, Render
  <2>2. [is |-> q] \in Question
    BY MakesQuestion
  <2>3. up' \in Seq(Question)
    BY <2>1, <2>2, AppendProperties DEF Ask, TypeOK
  <2>4. calls' \in 0 .. MaxCalls
    BY <1>2, ServerAssumption DEF Sync, Commit, Render, TypeOK
  <2>5. UNCHANGED adapter
    BY <1>2 DEF Sync, Commit, Render
  <2> QED  BY <2>1, <2>3, <2>4, <2>5 DEF Ask, TypeOK, server, adapter, Now
<1>3. CASE \E handed \in inbox : Apply(handed)
  BY <1>3 DEF Apply, TypeOK, server, socket, adapter, Now
<1>4. CASE Restart
  <2>1. up' \in Seq(Question) /\ down' \in Seq(Answer)
    BY <1>4 DEF Restart
  <2>2. log' = log /\ Now' = Now
    BY <1>4 DEF Restart, Now
  <2>3. /\ troubles' \in 0 .. MaxTroubles /\ myCurrentTime' \in 0 .. MaxLog
        /\ recorded' = recorded /\ calls' = calls
    BY <1>4, ServerAssumption DEF Restart, Trouble, TypeOK
  <2>4. /\ member' \in BOOLEAN /\ connected' \in BOOLEAN /\ lost' \in BOOLEAN
        /\ hasCalledSync' \in BOOLEAN /\ skipped' \in BOOLEAN /\ dropped' \in BOOLEAN
        /\ inbox' \subseteq SUBSET Dates /\ db' = db
    BY <1>4 DEF Restart, TypeOK
  <2> QED  BY <2>1, <2>2, <2>3, <2>4 DEF TypeOK
<1>5. CASE Refuse
  <2>1. up' \in Seq(Question)
    BY <1>5, QueueTyped DEF Refuse, TypeOK
  <2> QED  BY <1>5, <2>1, ServerAssumption DEF Refuse, Trouble, TypeOK, server, adapter, Now
<1>6. CASE OtherCommits
  <2>1. Commits("other")
    BY <1>6 DEF OtherCommits
  <2>2. /\ log' \in Seq({"me", "other"}) /\ Now' \in Dates
        /\ ToRoom(Now + 1) \in Seq(Answer)
    BY <2>1, CommitTyped
  <2>3. down' \in Seq(Answer)
    <3>1. down' = down \o ToRoom(Now + 1) /\ down \in Seq(Answer)
      BY <1>6 DEF OtherCommits, TypeOK
    <3> QED  BY <2>2, <3>1, ConcatProperties
  <2> QED  BY <1>6, <2>2, <2>3 DEF OtherCommits, TypeOK, adapter, rest
<1>7. CASE Disconnect
  <2>1. up' \in Seq(Question) /\ down' \in Seq(Answer)
    BY <1>7 DEF Disconnect
  <2>2. log' = log /\ Now' = Now
    BY <1>7 DEF Disconnect, Now
  <2>3. troubles' \in 0 .. MaxTroubles
    BY <1>7, ServerAssumption DEF Disconnect, Trouble, TypeOK
  <2>4. /\ member' \in BOOLEAN /\ connected' \in BOOLEAN /\ lost' \in BOOLEAN
        /\ UNCHANGED <<recorded, adapter, inbox, db, skipped, dropped, calls>>
    BY <1>7 DEF Disconnect, TypeOK
  <2> QED  BY <2>1, <2>2, <2>3, <2>4 DEF TypeOK, adapter
<1> QED  BY <1>1, <1>2, <1>3, <1>4, <1>5, <1>6, <1>7

LEMMA NextTyped == TypeOK /\ [Next]_vars => TypeOK'
<1>1. TypeOK /\ UNCHANGED vars => TypeOK'
  BY DEF TypeOK, vars, server, socket, adapter, rest, Now
<1> QED  BY <1>1, AgentTyped, ReceiveTyped, ServeTyped DEF Next

-----------------------------------------------------------------------------
(* What the agent has, and what is accounted for.                          *)

LEMMA MineKept ==
    ASSUME TypeOK, log' = log \/ (\E author \in {"me", "other"} : Commits(author))
    PROVE  Mine \subseteq Mine'
<1>1. CASE log' = log
  BY <1>1 DEF Mine, Now
<1>2. ASSUME NEW author \in {"me", "other"}, Commits(author)
      PROVE  Mine \subseteq Mine'
  <2>1. Now' = Now + 1 /\ Now \in Nat /\ \A i \in 1 .. Now : log'[i] = log[i]
    BY <1>2, CommitTyped DEF TypeOK, Dates
  <2> QED  BY <2>1 DEF Mine
<1> QED  BY <1>1, <1>2

(* Nothing that the agent has is lost, unless a crash drops it.            *)
LEMMA HasKept ==
    ASSUME TypeOK, log' = log \/ (\E author \in {"me", "other"} : Commits(author)),
           db \cup UNION inbox \subseteq db' \cup UNION inbox'
    PROVE  Has \subseteq Has'
<1>1. Mine \subseteq Mine'
  BY MineKept
<1> QED  BY <1>1 DEF Has

(* A message is received.                                                  *)
LEMMA AccountedTail ==
    ASSUME TypeOK, Accounted, down # <<>>, down' = Tail(down),
           connected' = connected, log' = log, Has \subseteq Has',
           hasCalledSync' /\ ~lost' =>
              /\ (hasCalledSync /\ ~lost) \/ Head(down).is = "sync"
              /\ Brings(Head(down)) \subseteq Has'
    PROVE  Accounted'
<1>1. /\ Len(down) \in Nat /\ Len(down) > 0 /\ Head(down) = down[1]
      /\ DOMAIN down = 1 .. Len(down) /\ DOMAIN down' = 1 .. Len(down) - 1
      /\ Len(down') = Len(down) - 1
      /\ \A k \in DOMAIN down' : down'[k] = down[k + 1]
  BY HeadTailProperties DEF TypeOK
<1>2. Now' = Now
  BY DEF Now
<1> SUFFICES ASSUME NEW i \in Nat, Accounts(i)'
             PROVE  /\ \A j \in DOMAIN down' : i <= j => Upto(down[j].t, i, j)'
                    /\ connected' => Upto(Now, i, Len(down))'
  BY DEF Accounted
<1>3. PICK h \in Nat : Accounts(h) /\ h <= i + 1 /\ (i # 0 => h = i + 1)
                      /\ (i = 0 => h \in {0, 1} /\ Brings(down[1]) \subseteq Has')
  <2>1. CASE i = 0
    <3>1. hasCalledSync' /\ ~lost'
      BY <2>1, <1>1 DEF Accounts
    <3>2. CASE hasCalledSync /\ ~lost
      BY <2>1, <3>1, <3>2, <1>1 DEF Accounts
    <3>3. CASE Head(down).is = "sync"
      BY <2>1, <3>1, <3>3, <1>1 DEF Accounts
    <3> QED  BY <3>1, <3>2, <3>3
  <2>2. CASE i # 0
    <3>1. i \in DOMAIN down' /\ down'[i].is = "sync"
      BY <2>2 DEF Accounts
    <3>2. i + 1 \in DOMAIN down /\ down[i + 1].is = "sync"
      BY <3>1, <1>1
    <3> QED  BY <2>2, <3>2 DEF Accounts
  <2> QED  BY <2>1, <2>2
<1>4. ASSUME NEW n \in Nat, NEW j \in Nat, Upto(n, h, j + 1)
      PROVE  \A d \in 1 .. n : d \in Has' \/ \E k \in DOMAIN down' :
                                    i <= k /\ k <= j /\ d \in Brings(down'[k])
  <2> SUFFICES ASSUME NEW d \in 1 .. n, d \notin Has'
               PROVE  \E k \in DOMAIN down' : i <= k /\ k <= j /\ d \in Brings(down'[k])
    OBVIOUS
  <2>1. PICK k \in DOMAIN down : h <= k /\ k <= j + 1 /\ d \in Brings(down[k])
    BY <1>4 DEF Upto
  <2>2. k # 1
    BY <2>1, <1>1, <1>3
  <2>3. k - 1 \in DOMAIN down' /\ down'[k - 1] = down[k]
    BY <2>2, <1>1
  <2> QED  BY <2>1, <2>2, <2>3, <1>1, <1>3
<1>5. ASSUME NEW j \in DOMAIN down', i <= j PROVE Upto(down[j].t, i, j)'
  <2>1. j \in Nat /\ j + 1 \in DOMAIN down /\ down'[j] = down[j + 1] /\ h <= j + 1
    BY <1>5, <1>1, <1>3
  <2>2. down[j + 1].t \in Nat
    BY <2>1, AnswerFields DEF TypeOK, Dates
  <2>3. Upto(down[j + 1].t, h, j + 1)
    BY <2>1, <1>3 DEF Accounted
  <2> QED  BY <2>1, <2>2, <2>3, <1>4 DEF Upto
<1>6. ASSUME connected' PROVE Upto(Now, i, Len(down))'
  <2>1. Now \in Nat /\ Upto(Now, h, Len(down))
    BY <1>6, <1>3 DEF Accounted, TypeOK, Dates
  <2>2. Len(down') \in Nat /\ Len(down) = Len(down') + 1
    BY <1>1
  <2> QED  BY <2>1, <2>2, <1>2, <1>4 DEF Upto
<1> QED  BY <1>5, <1>6

(* The server answers, or signals a diff: all dates that it sends are the  *)
(* one of now, and a diff that is new is had or comes with the first of    *)
(* the messages.                                                           *)
LEMMA AccountedGrow ==
    ASSUME TypeOK, Accounted, connected, Has \subseteq Has',
           Now' \in Nat, NEW more \in Seq(Answer), more # <<>>, down' = down \o more,
           hasCalledSync' = hasCalledSync, lost' = lost,
           \A k \in DOMAIN more : more[k].t = Now',
           \A d \in 1 .. Now' : d \in 1 .. Now \/ d \in Has' \/ d \in Brings(more[1]),
           \A k \in DOMAIN more : more[k].is = "sync" =>
              \A d \in 1 .. Now' : d \in Has' \/ d \in Brings(more[k])
    PROVE  Accounted'
<1>1. /\ Len(down) \in Nat /\ Len(more) \in Nat /\ Len(more) > 0
      /\ DOMAIN down = 1 .. Len(down) /\ DOMAIN more = 1 .. Len(more)
      /\ Len(down') = Len(down) + Len(more) /\ DOMAIN down' = 1 .. Len(down) + Len(more)
      /\ \A k \in 1 .. Len(down) : down'[k] = down[k]
      /\ \A k \in 1 .. Len(more) : down'[Len(down) + k] = more[k]
  BY ConcatProperties DEF TypeOK
<1> SUFFICES ASSUME NEW i \in Nat, Accounts(i)'
             PROVE  /\ \A j \in DOMAIN down' : i <= j => Upto(down[j].t, i, j)'
                    /\ connected' => Upto(Now, i, Len(down))'
  BY DEF Accounted
<1> DEFINE Here(n, j) == \A d \in 1 .. n : d \in Has' \/ \E k \in DOMAIN down' :
                              i <= k /\ k <= j /\ d \in Brings(down'[k])
<1> HIDE DEF Here
<1> SUFFICES /\ \A j \in DOMAIN down' : i <= j => Here(down'[j].t, j)
             /\ connected' => Here(Now', Len(down'))
  BY DEF Upto, Here
<1>2. CASE i > Len(down)
  <2>1. i \in DOMAIN down' /\ i - Len(down) \in DOMAIN more
        /\ down'[i] = more[i - Len(down)] /\ down'[i].is = "sync"
    BY <1>2, <1>1 DEF Accounts
  <2>2. \A d \in 1 .. Now' : d \in Has' \/ d \in Brings(down'[i])
    BY <2>1
  <2>3. \A j \in DOMAIN down' : i <= j => down'[j].t = Now'
    <3> SUFFICES ASSUME NEW j \in DOMAIN down', i <= j PROVE down'[j].t = Now'
      OBVIOUS
    <3>1. j - Len(down) \in DOMAIN more /\ down'[j] = more[j - Len(down)]
      BY <1>2, <1>1
    <3> QED  BY <3>1
  <2>4. i <= Len(down')
    BY <2>1, <1>1
  <2>5. ASSUME NEW j \in Nat, i <= j PROVE Here(Now', j)
    <3>1. ASSUME NEW d \in 1 .. Now', d \notin Has'
          PROVE  i \in DOMAIN down' /\ i <= i /\ i <= j /\ d \in Brings(down'[i])
      BY <3>1, <2>1, <2>2, <2>5
    <3> QED  BY <3>1 DEF Here
  <2> QED  BY <2>3, <2>4, <2>5, <1>1
<1>3. CASE i <= Len(down)
  <2>1. Accounts(i)
    BY <1>3, <1>1 DEF Accounts
  <2>2. Upto(Now, i, Len(down)) /\ \A j \in DOMAIN down : i <= j => Upto(down[j].t, i, j)
    BY <2>1 DEF Accounted
  <2>3. ASSUME NEW j \in Nat, Len(down) < j PROVE Here(Now', j)
    <3> SUFFICES ASSUME NEW d \in 1 .. Now', d \notin Has'
                 PROVE  \E k \in DOMAIN down' : i <= k /\ k <= j /\ d \in Brings(down'[k])
      BY DEF Here
    <3>1. CASE d \in 1 .. Now
      <4>1. PICK k \in DOMAIN down : i <= k /\ k <= Len(down) /\ d \in Brings(down[k])
        BY <3>1, <2>2 DEF Upto
      <4>2. k \in DOMAIN down' /\ down'[k] = down[k] /\ k <= j
        BY <4>1, <1>1, <2>3
      <4> QED  BY <4>1, <4>2
    <3>2. CASE d \in Brings(more[1])
      <4>1. Len(down) + 1 \in DOMAIN down' /\ down'[Len(down) + 1] = more[1]
        BY <1>1
      <4>2. i <= Len(down) + 1 /\ Len(down) + 1 <= j
        BY <1>1, <1>3, <2>3
      <4> QED  BY <3>2, <4>1, <4>2
    <3> QED  BY <3>1, <3>2
  <2>4. ASSUME NEW j \in DOMAIN down', i <= j PROVE Here(down'[j].t, j)
    <3>1. CASE j <= Len(down)
      <4>1. j \in DOMAIN down /\ down'[j] = down[j]
        BY <3>1, <1>1
      <4>2. Upto(down[j].t, i, j)
        BY <2>2, <2>4, <4>1
      <4>3. \A k \in DOMAIN down : k \in DOMAIN down' /\ down'[k] = down[k]
        BY <1>1
      <4> QED  BY <4>1, <4>2, <4>3 DEF Upto, Here
    <3>2. CASE Len(down) < j
      <4>1. j - Len(down) \in DOMAIN more /\ down'[j] = more[j - Len(down)] /\ j \in Nat
        BY <3>2, <1>1
      <4>2. down'[j].t = Now'
        BY <4>1
      <4> QED  BY <4>1, <4>2, <3>2, <2>3
    <3> QED  BY <3>1, <3>2, <1>1
  <2>5. Len(down') \in Nat /\ Len(down) < Len(down')
    BY <1>1
  <2> QED  BY <2>3, <2>4, <2>5
<1> QED  BY <1>2, <1>3, <1>1

(* Nothing is under way, and the connection has to be accounted for anew.  *)
LEMMA AccountedAnew ==
    ASSUME down' = <<>>, ~connected' \/ ~hasCalledSync' \/ lost'
    PROVE  Accounted'
BY DEF Accounted, Accounts

LEMMA AccountedSame ==
    ASSUME Accounted, UNCHANGED <<down, log, connected, hasCalledSync, lost>>, Has \subseteq Has'
    PROVE  Accounted'
<1>1. \A i \in Nat : Accounts(i)' => Accounts(i)
  BY DEF Accounts
<1>2. Now' = Now /\ down' = down
  BY DEF Now
<1>3. \A n, i, j : Upto(n, i, j) => \A d \in 1 .. n : d \in Has' \/
                     \E k \in DOMAIN down : i <= k /\ k <= j /\ d \in Brings(down[k])
  BY DEF Upto
<1> QED  BY <1>1, <1>2, <1>3 DEF Accounted, Upto

(* The dates, wherever they are.                                           *)
LEMMA ReachedStep ==
    ASSUME DatesReached, Has \subseteq Has',
           recorded' = recorded \/ 1 .. recorded' \subseteq Has',
           hasCalledSync' => \/ hasCalledSync /\ myCurrentTime' = myCurrentTime
                             \/ 1 .. myCurrentTime' \subseteq Has',
           \A i \in DOMAIN up' : up'[i].is = "date" =>
              \/ \E k \in DOMAIN up : up'[i] = up[k]
              \/ 1 .. up'[i].t \subseteq Has'
    PROVE  DatesReached'
<1>1. 1 .. recorded' \subseteq Has'
  BY DEF DatesReached
<1>2. hasCalledSync' => 1 .. myCurrentTime' \subseteq Has'
  BY DEF DatesReached
<1>3. ASSUME NEW i \in DOMAIN up', up'[i].is = "date"
      PROVE  1 .. up'[i].t \subseteq Has'
  BY <1>3 DEF DatesReached
<1> QED  BY <1>1, <1>2, <1>3 DEF DatesReached

-----------------------------------------------------------------------------
(* The steps.                                                              *)

LEMMA ReportedUp ==
    ASSUME TypeOK, NEW d, up' = Append(up, [is |-> "date", t |-> d])
    PROVE  \A i \in DOMAIN up' : (\E k \in DOMAIN up : up'[i] = up[k]) \/ up'[i].t = d
<1>1. /\ Len(up) \in Nat /\ DOMAIN up = 1 .. Len(up) /\ DOMAIN up' = 1 .. Len(up) + 1
      /\ \A i \in 1 .. Len(up) : up'[i] = up[i]
      /\ up'[Len(up) + 1] = [is |-> "date", t |-> d]
  BY DEF TypeOK
<1> QED  BY <1>1

LEMMA ReceiveStep ==
    ASSUME IInv, Receive, ~skipped', ~dropped'
    PROVE  DatesReached' /\ Accounted'
<1> DEFINE m == Head(down)
<1>1. TypeOK /\ down # <<>> /\ down' = Tail(down) /\ m \in Answer /\ m = down[1]
      /\ 1 \in DOMAIN down
  BY QueueTyped DEF IInv, TypeOK, Receive
<1>2. /\ log' = log /\ connected' = connected /\ recorded' = recorded
      /\ db' = db /\ lost' = lost /\ ~dropped
  BY DEF Receive, server
<1>3. ~skipped /\ inbox \subseteq inbox'
  <2> HIDE DEF m
  <2>1. Signal(m) \/ SyncAnswer(m) \/ DateAnswer(m)
    BY DEF Receive, m
  <2>2. CASE Signal(m)
    BY <2>2 DEF Signal, Advance
  <2>3. CASE SyncAnswer(m)
    BY <2>3 DEF SyncAnswer
  <2>4. CASE DateAnswer(m)
    BY <2>4 DEF DateAnswer, Advance
  <2> QED  BY <2>1, <2>2, <2>3, <2>4
<1>4. DatesReached /\ Accounted
  BY <1>2, <1>3 DEF IInv
<1>5. Has \subseteq Has'
  BY <1>1, <1>2, <1>3, HasKept
<1>6. m.t \in Dates /\ (m.is = "sync" => m.new \in SUBSET Dates)
  BY <1>1, AnswerFields
<1>7. hasCalledSync /\ ~lost => \A d \in 1 .. m.t : d \in Has \/ d \in Brings(m)
  <2> SUFFICES ASSUME hasCalledSync, ~lost PROVE \A d \in 1 .. m.t : d \in Has \/ d \in Brings(m)
    OBVIOUS
  <2>1. Accounts(0)
    BY DEF Accounts
  <2>2. Upto(m.t, 0, 1)
    BY <2>1, <1>1, <1>4 DEF Accounted
  <2>3. \A k \in DOMAIN down : k <= 1 => k = 1
    BY <1>1 DEF TypeOK
  <2> QED  BY <2>2, <2>3, <1>1 DEF Upto
<1>8. m.is = "sync" => \A d \in 1 .. m.t : d \in Has \/ d \in Brings(m)
  <2> SUFFICES ASSUME m.is = "sync" PROVE \A d \in 1 .. m.t : d \in Has \/ d \in Brings(m)
    OBVIOUS
  <2>1. Accounts(1)
    BY <1>1 DEF Accounts
  <2>2. Upto(m.t, 1, 1)
    BY <2>1, <1>1, <1>4 DEF Accounted
  <2>3. \A k \in DOMAIN down : 1 <= k /\ k <= 1 => k = 1
    BY <1>1 DEF TypeOK
  <2> QED  BY <2>2, <2>3, <1>1 DEF Upto
<1> HIDE DEF m
<1>9. ASSUME \/ Signal(m) /\ myCurrentTime # 0 /\ myCurrentTime < m.t
             \/ SyncAnswer(m) \/ DateAnswer(m)
      PROVE  /\ up' = Append(up, [is |-> "date", t |-> m.t]) /\ myCurrentTime' = m.t
             /\ (hasCalledSync /\ ~lost) \/ m.is = "sync"
             /\ Brings(m) \subseteq Has'
  <2>1. CASE Signal(m) /\ myCurrentTime # 0 /\ myCurrentTime < m.t
    BY <2>1 DEF Signal, Advance, Report, Brings, Has
  <2>2. CASE SyncAnswer(m)
    BY <2>2 DEF SyncAnswer, Report, Brings, Has
  <2>3. CASE DateAnswer(m)
    BY <2>3 DEF DateAnswer, Advance, Report, Brings
  <2> QED  BY <1>9, <2>1, <2>2, <2>3
<1>10. CASE \/ Signal(m) /\ myCurrentTime # 0 /\ myCurrentTime < m.t
            \/ SyncAnswer(m) \/ DateAnswer(m)
  <2>1. 1 .. m.t \subseteq Has'
    BY <1>10, <1>9, <1>5, <1>7, <1>8
  <2>2. DatesReached'
    <3>1. \A i \in DOMAIN up' : up'[i].is = "date" =>
              \/ \E k \in DOMAIN up : up'[i] = up[k]
              \/ 1 .. up'[i].t \subseteq Has'
      BY <1>10, <1>9, <1>1, <2>1, ReportedUp
    <3> QED  BY <1>10, <1>9, <1>2, <1>4, <1>5, <2>1, <3>1, ReachedStep
  <2>3. Accounted'
    BY <1>10, <1>9, <1>1, <1>2, <1>4, <1>5, AccountedTail DEF m
  <2> QED  BY <2>2, <2>3
<1>11. CASE Signal(m) /\ ~(myCurrentTime # 0 /\ myCurrentTime < m.t)
  <2>1. UNCHANGED <<myCurrentTime, up, hasCalledSync>> /\ m.is = "signal"
    BY <1>11 DEF Signal
  <2>2. hasCalledSync => Brings(m) \subseteq Has'
    <3> SUFFICES ASSUME hasCalledSync PROVE m.t \in Has'
      BY <2>1 DEF Brings
    <3>1. m.t \in 1 .. myCurrentTime
      BY <1>11, <1>6 DEF IInv, ConnectionOK, TypeOK, Dates
    <3> QED  BY <3>1, <1>4, <1>5 DEF DatesReached
  <2>3. DatesReached'
    BY <2>1, <1>2, <1>4, <1>5, ReachedStep
  <2>4. Accounted'
    BY <2>1, <2>2, <1>1, <1>2, <1>4, <1>5, AccountedTail DEF m
  <2> QED  BY <2>3, <2>4
<1> QED  BY <1>10, <1>11 DEF Receive, m

LEMMA ServeStep ==
    ASSUME IInv, Serve, ~skipped', ~dropped'
    PROVE  DatesReached' /\ Accounted'
<1>1. /\ TypeOK /\ connected /\ up # <<>> /\ up' = Tail(up) /\ Head(up) = up[1]
      /\ Head(up) \in Question /\ up \in Seq(Question) /\ 1 \in DOMAIN up
  BY QueueTyped DEF IInv, TypeOK, Serve
<1>2. /\ UNCHANGED <<connected, hasCalledSync, myCurrentTime, inbox, db, lost, dropped>>
      /\ ~skipped /\ ~dropped
  <2>1. UNCHANGED <<connected, hasCalledSync, myCurrentTime, inbox, db, lost, dropped>>
    BY DEF Serve, adapter
  <2>2. skipped => skipped'
    BY DEF Serve, AnswersSync
  <2> QED  BY <2>1, <2>2
<1>3. DatesReached /\ Accounted
  BY <1>2 DEF IInv
<1>4. \A i \in DOMAIN up' : \E k \in DOMAIN up : up'[i] = up[k]
  <2>1. \A i \in DOMAIN up' : i + 1 \in DOMAIN up /\ up'[i] = up[i + 1]
    BY <1>1, HeadTailProperties
  <2> QED  BY <2>1
<1>5. Now \in Dates /\ Now \in Nat
  BY <1>1 DEF TypeOK, Dates
<1>6. CASE AnswersSync
  <2> DEFINE x == [is |-> "sync", t |-> Now, new |-> recorded + 1 .. Now]
  <2>1. UNCHANGED <<log, recorded>> /\ Now' = Now /\ down' = Append(down, x)
    BY <1>6 DEF AnswersSync, server, Now
  <2>2. Has \subseteq Has'
    BY <1>1, <1>2, <2>1, HasKept
  <2>3. x \in Answer
    <3>1. recorded + 1 .. Now \in SUBSET Dates
      BY <1>1, <1>5, ServerAssumption DEF TypeOK, Dates
    <3> QED  BY <3>1, <1>5, MakesAnswer
  <2>4. \A d \in 1 .. Now : d \in Has' \/ d \in x.new
    BY <1>1, <1>3, <1>5, <2>2 DEF DatesReached, TypeOK
  <2>5. x.t = Now /\ x.is = "sync" /\ Brings(x) = x.new
    BY DEF Brings
  <2> HIDE DEF x
  <2>6. <<x>> \in Seq(Answer) /\ <<x>> # <<>> /\ DOMAIN <<x>> = {1} /\ <<x>>[1] = x
    BY <2>3
  <2>7. down' = down \o <<x>>
    BY <2>1, <2>3, <1>1, AppendIsConcat DEF TypeOK
  <2>8. Accounted'
    BY <1>1, <1>2, <1>3, <1>5, <2>1, <2>2, <2>4, <2>5, <2>6, <2>7, AccountedGrow
  <2>9. DatesReached'
    BY <1>2, <1>3, <1>4, <2>1, <2>2, ReachedStep
  <2> QED  BY <2>8, <2>9
<1>7. CASE Joins
  <2>1. UNCHANGED <<log, recorded, down>>
    BY <1>7 DEF Joins
  <2>2. Has \subseteq Has'
    BY <1>1, <1>2, <2>1, HasKept
  <2> QED  BY <1>2, <1>3, <1>4, <2>1, <2>2, ReachedStep, AccountedSame
<1>8. CASE AnswersCommit
  <2> DEFINE n == Now + 1
             x == [is |-> "commit", t |-> n]
  <2>1. Commits("me") /\ recorded' = recorded
    BY <1>8 DEF AnswersCommit
  <2>2. /\ Now' = n /\ n \in Dates /\ n \in Nat /\ ToRoom(n) \in Seq(Answer)
        /\ log'[n] = "me"
    BY <1>1, <1>5, <2>1, CommitTyped
  <2>3. Has \subseteq Has'
    BY <1>1, <1>2, <2>1, HasKept
  <2>4. \A d \in 1 .. n : d \in 1 .. Now \/ d \in Has'
    <3>1. n \in Mine'
      BY <2>2, <1>5 DEF Mine
    <3> QED  BY <3>1, <1>5 DEF Has
  <2>5. PICK echo \in {<<>>, ToRoom(n)} : down' = down \o echo \o <<x>>
    BY <1>8 DEF AnswersCommit
  <2>6. x \in Answer /\ x.is = "commit" /\ x.t = n
    BY <2>2, MakesAnswer
  <2> HIDE DEF x, n
  <2>7. \/ echo = <<>> \/ echo = <<[is |-> "signal", t |-> n]>>
    BY DEF ToRoom
  <2>8. echo \in Seq(Answer) /\ <<x>> \in Seq(Answer) /\ down \in Seq(Answer)
    <3>1. CASE echo = <<>>
      BY <3>1, <2>6, <1>1 DEF TypeOK
    <3>2. CASE echo = ToRoom(n)
      BY <3>2, <2>2, <2>6, <1>1 DEF TypeOK
    <3> QED  BY <3>1, <3>2
  <2> DEFINE more == echo \o <<x>>
  <2>9. down' = down \o more
    BY <2>5, <2>8, ConcatAssociative
  <2>10. /\ more \in Seq(Answer) /\ more # <<>>
         /\ \A k \in DOMAIN more : more[k].t = n /\ more[k].is # "sync"
    <3>1. CASE echo = <<>>
      <4>1. more = <<x>>
        BY <3>1
      <4>2. \A k \in DOMAIN <<x>> : <<x>>[k] = x
        OBVIOUS
      <4> QED  BY <4>1, <4>2, <2>6, <2>8
    <3>2. CASE echo = <<[is |-> "signal", t |-> n]>>
      <4> DEFINE y == [is |-> "signal", t |-> n]
      <4>1. y.t = n /\ y.is = "signal"
        OBVIOUS
      <4> HIDE DEF y
      <4>2. echo = <<y>> /\ Len(echo) = 1 /\ echo[1] = y
        BY <3>2 DEF y
      <4>3. Len(<<x>>) = 1 /\ <<x>>[1] = x
        OBVIOUS
      <4>4. /\ more \in Seq(Answer) /\ Len(more) = 2 /\ more[1] = y /\ more[2] = x
        BY <2>8, <4>2, <4>3, ConcatProperties
      <4>5. DOMAIN more = {1, 2}
        BY <4>4
      <4> QED  BY <4>1, <4>4, <4>5, <2>6
    <3> QED  BY <3>1, <3>2, <2>7
  <2> HIDE DEF more
  <2>11. Accounted'
    BY <1>1, <1>2, <1>3, <2>2, <2>3, <2>4, <2>9, <2>10, AccountedGrow
  <2>12. DatesReached'
    BY <1>2, <1>3, <1>4, <2>1, <2>3, ReachedStep
  <2> QED  BY <2>11, <2>12
<1>9. CASE AnswersRender
  <2> DEFINE x == [is |-> "render", t |-> Now]
  <2>1. UNCHANGED <<log, recorded>> /\ Now' = Now /\ down' = Append(down, x)
    BY <1>9 DEF AnswersRender, server, Now
  <2>2. Has \subseteq Has'
    BY <1>1, <1>2, <2>1, HasKept
  <2>3. x \in Answer /\ x.t = Now /\ x.is # "sync"
    BY <1>5, MakesAnswer
  <2> HIDE DEF x
  <2>4. <<x>> \in Seq(Answer) /\ <<x>> # <<>> /\ DOMAIN <<x>> = {1} /\ <<x>>[1] = x
    BY <2>3
  <2>5. down' = down \o <<x>>
    BY <2>1, <2>3, <1>1, AppendIsConcat DEF TypeOK
  <2>6. Accounted'
    BY <1>1, <1>2, <1>3, <1>5, <2>1, <2>2, <2>3, <2>4, <2>5, AccountedGrow
  <2>7. DatesReached'
    BY <1>2, <1>3, <1>4, <2>1, <2>2, ReachedStep
  <2> QED  BY <2>6, <2>7
<1>10. CASE Head(up).is = "date" /\ Records(Head(up).t)
  <2>1. UNCHANGED <<log, down>>
    BY <1>10 DEF Records
  <2>2. Has \subseteq Has'
    BY <1>1, <1>2, <2>1, HasKept
  <2>3. 1 .. recorded' \subseteq Has'
    BY <1>10, <1>1, <1>3, <2>2 DEF Records, DatesReached
  <2> QED  BY <1>2, <1>3, <1>4, <2>1, <2>2, <2>3, ReachedStep, AccountedSame
<1> QED  BY <1>6, <1>7, <1>8, <1>9, <1>10 DEF Serve

(* What is asked adds no date.                                             *)
LEMMA AskedUp ==
    ASSUME TypeOK, NEW more \in Seq(Question), up' = up \o more,
           \A k \in DOMAIN more : more[k].is # "date"
    PROVE  \A i \in DOMAIN up' : up'[i].is = "date" => \E k \in DOMAIN up : up'[i] = up[k]
<1> SUFFICES ASSUME NEW i \in DOMAIN up', up'[i].is = "date"
             PROVE  \E k \in DOMAIN up : up'[i] = up[k]
  OBVIOUS
<1>1. /\ Len(up) \in Nat /\ Len(more) \in Nat /\ DOMAIN up = 1 .. Len(up)
      /\ DOMAIN more = 1 .. Len(more) /\ DOMAIN up' = 1 .. Len(up) + Len(more)
      /\ \A k \in 1 .. Len(up) : up'[k] = up[k]
      /\ \A k \in 1 .. Len(more) : up'[Len(up) + k] = more[k]
  BY ConcatProperties DEF TypeOK
<1>2. CASE i > Len(up)
  <2>1. i - Len(up) \in DOMAIN more /\ up'[i] = more[i - Len(up)]
    BY <1>1, <1>2
  <2> QED  BY <2>1
<1> QED  BY <1>1, <1>2

LEMMA AgentStep ==
    ASSUME IInv, ~skipped', ~dropped',
           \/ Connect \/ Sync \/ Commit \/ Render \/ Restart
           \/ \E handed \in inbox : Apply(handed)
           \/ Refuse \/ OtherCommits \/ Disconnect
    PROVE  DatesReached' /\ Accounted'
<1>1. TypeOK /\ ConnectionOK
  BY DEF IInv
<1>2. CASE Connect
  <2>1. /\ UNCHANGED <<log, recorded, db, inbox, down, hasCalledSync, myCurrentTime, lost,
                       skipped, dropped>>
        /\ ~connected /\ down = <<>> /\ (hasCalledSync => lost)
        /\ up' = Append(up, [is |-> "join"])
    BY <1>1, <1>2 DEF Connect, server, adapter, rest, ConnectionOK
  <2>2. DatesReached
    BY <2>1 DEF IInv
  <2>3. Has \subseteq Has'
    BY <1>1, <2>1, HasKept
  <2> DEFINE x == [is |-> "join"]
  <2>4. x \in Question /\ x.is # "date" /\ up' = Append(up, x)
    BY <2>1, MakesQuestion
  <2> HIDE DEF x
  <2>5. <<x>> \in Seq(Question) /\ \A k \in DOMAIN <<x>> : <<x>>[k] = x
    BY <2>4
  <2>6. up' = up \o <<x>>
    BY <1>1, <2>4, AppendIsConcat DEF TypeOK
  <2>7. DatesReached'
    BY <1>1, <2>1, <2>2, <2>3, <2>4, <2>5, <2>6, AskedUp, ReachedStep
  <2> QED  BY <2>1, <2>7, AccountedAnew
<1>3. CASE Sync \/ Commit \/ Render
  <2>1. PICK q \in {"sync", "commit", "render"} : Ask(q)
    BY <1>3 DEF Sync, Commit, Render
  <2>2. /\ UNCHANGED <<log, recorded, down, connected, hasCalledSync, myCurrentTime,
                       inbox, db, lost, skipped, dropped>>
        /\ up' = Append(up, [is |-> q])
    BY <1>3, <2>1 DEF Sync, Commit, Render, Ask, server, adapter
  <2>3. DatesReached /\ Accounted
    BY <2>2 DEF IInv
  <2>4. Has \subseteq Has'
    BY <1>1, <2>2, HasKept
  <2> DEFINE x == [is |-> q]
  <2>5. x \in Question /\ x.is # "date"
    BY MakesQuestion
  <2>6. up' = Append(up, x)
    BY <2>2
  <2> HIDE DEF x
  <2>7. <<x>> \in Seq(Question) /\ \A k \in DOMAIN <<x>> : <<x>>[k] = x
    BY <2>5
  <2>8. up' = up \o <<x>>
    BY <1>1, <2>5, <2>6, AppendIsConcat DEF TypeOK
  <2>9. DatesReached'
    BY <1>1, <2>2, <2>3, <2>4, <2>5, <2>7, <2>8, AskedUp, ReachedStep
  <2> QED  BY <2>2, <2>3, <2>4, <2>9, AccountedSame
<1>4. CASE \E handed \in inbox : Apply(handed)
  <2>1. /\ UNCHANGED <<log, recorded, up, down, connected, hasCalledSync, myCurrentTime,
                       lost, skipped, dropped>>
        /\ db \cup UNION inbox \subseteq db' \cup UNION inbox'
    BY <1>4 DEF Apply, server, socket, adapter
  <2>2. DatesReached /\ Accounted
    BY <2>1 DEF IInv
  <2>3. Has \subseteq Has'
    BY <1>1, <2>1, HasKept
  <2> QED  BY <2>1, <2>2, <2>3, ReachedStep, AccountedSame
<1>5. CASE Restart
  <2>1. /\ UNCHANGED <<log, recorded, db, skipped>> /\ ~dropped /\ inbox = {}
        /\ up' = <<>> /\ down' = <<>> /\ ~connected' /\ ~hasCalledSync'
    BY <1>5 DEF Restart
  <2>2. DatesReached
    BY <2>1 DEF IInv
  <2>3. Has \subseteq Has'
    BY <1>1, <2>1, HasKept
  <2>4. DOMAIN up' = {}
    BY <2>1
  <2> QED  BY <2>1, <2>2, <2>3, <2>4, ReachedStep, AccountedAnew
<1>6. CASE Refuse
  <2>1. /\ UNCHANGED <<log, recorded, down, connected, hasCalledSync, myCurrentTime,
                       inbox, db, lost, skipped, dropped>>
        /\ up # <<>> /\ up' = Tail(up)
    BY <1>6 DEF Refuse, server, adapter
  <2>2. DatesReached /\ Accounted
    BY <2>1 DEF IInv
  <2>3. Has \subseteq Has'
    BY <1>1, <2>1, HasKept
  <2>4. \A i \in DOMAIN up' : i + 1 \in DOMAIN up /\ up'[i] = up[i + 1]
    BY <1>1, <2>1, HeadTailProperties DEF TypeOK
  <2> QED  BY <2>1, <2>2, <2>3, <2>4, ReachedStep, AccountedSame
<1>7. CASE OtherCommits
  <2>1. /\ Commits("other") /\ down' = down \o ToRoom(Now + 1)
        /\ UNCHANGED <<recorded, up, connected, hasCalledSync, myCurrentTime,
                       inbox, db, lost, skipped, dropped>>
    BY <1>7 DEF OtherCommits, adapter, rest
  <2>2. DatesReached /\ Accounted
    BY <2>1 DEF IInv
  <2>3. Has \subseteq Has'
    BY <1>1, <2>1, HasKept
  <2>4. DatesReached'
    BY <2>1, <2>2, <2>3, ReachedStep
  <2> DEFINE n == Now + 1
             x == [is |-> "signal", t |-> n]
  <2>5. /\ Now' = n /\ n \in Nat /\ ToRoom(n) \in Seq(Answer) /\ Now \in Nat
    BY <1>1, <2>1, CommitTyped DEF TypeOK, Dates
  <2>6. CASE member
    <3>1. connected
      BY <1>1, <2>6 DEF ConnectionOK
    <3>2. ToRoom(n) = <<x>> /\ x.t = n /\ x.is = "signal" /\ Brings(x) = {n}
      BY <2>6 DEF ToRoom, Brings
    <3>3. \A d \in 1 .. n : d \in 1 .. Now \/ d = n
      BY <2>5
    <3>4. down' = down \o ToRoom(n)
      BY <2>1
    <3> HIDE DEF x, n
    <3>5. <<x>> # <<>> /\ DOMAIN <<x>> = {1} /\ <<x>>[1] = x
      OBVIOUS
    <3>6. Accounted'
      BY <1>1, <2>1, <2>2, <2>3, <2>5, <3>1, <3>2, <3>3, <3>4, <3>5, AccountedGrow
    <3> QED  BY <2>4, <3>6
  <2>7. CASE ~member
    <3>1. down' = down
      BY <1>1, <2>1, <2>7 DEF ToRoom, TypeOK
    <3>2. ~connected \/ \A i \in Nat : ~Accounts(i)
      BY <1>1, <2>1, <2>7 DEF ConnectionOK
    <3>3. CASE ~connected
      <4>1. down' = <<>> /\ ~connected'
        BY <1>1, <2>1, <3>1, <3>3 DEF ConnectionOK
      <4> QED  BY <4>1, <2>4, AccountedAnew
    <3>4. CASE \A i \in Nat : ~Accounts(i)
      <4>1. \A i \in Nat : ~Accounts(i)'
        BY <2>1, <3>1, <3>4 DEF Accounts
      <4> QED  BY <4>1, <2>4 DEF Accounted
    <3> QED  BY <3>2, <3>3, <3>4
  <2> QED  BY <2>6, <2>7
<1>8. CASE Disconnect
  <2>1. /\ UNCHANGED <<log, recorded, db, inbox, hasCalledSync, myCurrentTime,
                       skipped, dropped>>
        /\ up' = <<>> /\ down' = <<>> /\ ~connected'
    BY <1>8 DEF Disconnect, adapter
  <2>2. DatesReached
    BY <2>1 DEF IInv
  <2>3. Has \subseteq Has'
    BY <1>1, <2>1, HasKept
  <2>4. DOMAIN up' = {}
    BY <2>1
  <2> QED  BY <2>1, <2>2, <2>3, <2>4, ReachedStep, AccountedAnew
<1> QED  BY <1>2, <1>3, <1>4, <1>5, <1>6, <1>7, <1>8

LEMMA NoSyncAdded ==
    ASSUME NEW s \in Seq(Answer), NEW x \in Answer, x.is # "sync"
    PROVE  \A i \in DOMAIN Append(s, x) :
              Append(s, x)[i].is = "sync" => i \in DOMAIN s /\ s[i].is = "sync"
OBVIOUS

(* Who has asked for what it lacks is in the room.                         *)
LEMMA ConnectionStep ==
    ASSUME TypeOK, ConnectionOK, Next
    PROVE  ConnectionOK'
<1>1. CASE Connect
  <2>1. /\ connected' /\ (hasCalledSync' => lost' /\ myCurrentTime' # 0) /\ down' = <<>>
    BY <1>1 DEF Connect, ConnectionOK, adapter, rest
  <2> QED  BY <2>1 DEF ConnectionOK, Accounts
<1>2. CASE Sync \/ Commit \/ Render \/ (\E handed \in inbox : Apply(handed)) \/ Refuse
  <2>1. UNCHANGED <<down, connected, member, hasCalledSync, myCurrentTime, lost, skipped>>
    BY <1>2 DEF Sync, Commit, Render, Ask, Apply, Refuse, server, socket, adapter
  <2> QED  BY <2>1 DEF ConnectionOK, Accounts
<1>3. CASE Restart \/ Disconnect
  <2>1. ~connected' /\ ~member' /\ down' = <<>>
    BY <1>3 DEF Restart, Disconnect
  <2>2. hasCalledSync' => hasCalledSync /\ myCurrentTime' = myCurrentTime /\ lost'
    BY <1>3 DEF Restart, Disconnect, adapter
  <2> QED  BY <2>1, <2>2 DEF ConnectionOK
<1>4. CASE Receive
  <2> DEFINE m == Head(down)
  <2>1. /\ down # <<>> /\ down' = Tail(down) /\ m \in Answer /\ m = down[1]
        /\ 1 \in DOMAIN down
        /\ \A i \in DOMAIN down' : i \in Nat /\ i + 1 \in DOMAIN down /\ down'[i] = down[i + 1]
    BY <1>4, QueueTyped, HeadTailProperties DEF TypeOK, Receive
  <2>2. UNCHANGED <<connected, member, lost>> /\ connected
    BY <1>4, <2>1 DEF Receive, server, ConnectionOK
  <2>3. m.t \in Dates
    BY <2>1, AnswerFields
  <2>4. Signal(m) \/ SyncAnswer(m) \/ DateAnswer(m)
    BY <1>4 DEF Receive
  <2> HIDE DEF m
  <2>5. /\ hasCalledSync' => hasCalledSync \/ m.is = "sync"
        /\ skipped => skipped'
        /\ hasCalledSync' => myCurrentTime' # 0
    <3>1. m.t # 0
      BY <2>3, ServerAssumption DEF Dates
    <3>2. CASE Signal(m)
      BY <3>1, <3>2 DEF Signal, Advance, ConnectionOK
    <3>3. CASE SyncAnswer(m)
      BY <3>1, <3>3 DEF SyncAnswer
    <3>4. CASE DateAnswer(m)
      BY <3>1, <3>4 DEF DateAnswer, Advance
    <3> QED  BY <2>4, <3>2, <3>3, <3>4
  <2>6. ASSUME NEW i \in Nat, Accounts(i)' PROVE \E h \in Nat : Accounts(h)
    <3>1. CASE i \in DOMAIN down' /\ down'[i].is = "sync"
      BY <3>1, <2>1 DEF Accounts
    <3>2. CASE ~lost' /\ hasCalledSync
      BY <2>2, <3>2 DEF Accounts
    <3>3. CASE m.is = "sync"
      BY <3>3, <2>1 DEF Accounts
    <3> QED  BY <2>5, <2>6, <3>1, <3>2, <3>3 DEF Accounts
  <2> QED  BY <2>2, <2>5, <2>6 DEF ConnectionOK
<1>5. CASE Serve
  <2>1. UNCHANGED <<connected, hasCalledSync, myCurrentTime, lost>> /\ connected
    BY <1>5 DEF Serve, adapter
  <2>2. CASE AnswersSync
    <3>1. member' = member /\ (~skipped' => member)
      BY <2>2 DEF AnswersSync, server
    <3> QED  BY <2>1, <3>1 DEF ConnectionOK
  <2>3. CASE Joins
    BY <2>1, <2>3 DEF Joins, ConnectionOK
  <2>4. CASE (AnswersCommit \/ AnswersRender) /\ UNCHANGED skipped
    <3>1. member' = member
      BY <2>4 DEF AnswersCommit, AnswersRender, server
    <3>2. \A i \in DOMAIN down' : down'[i].is = "sync" => i \in DOMAIN down /\ down[i].is = "sync"
      <4>1. CASE AnswersRender
        <5> DEFINE x == [is |-> "render", t |-> Now]
        <5>1. down' = Append(down, x) /\ x.is = "render"
          BY <4>1 DEF AnswersRender
        <5> HIDE DEF x
        <5> QED  BY <5>1 DEF TypeOK
      <4>2. CASE AnswersCommit
        <5> DEFINE x == [is |-> "commit", t |-> Now + 1]
                   y == [is |-> "signal", t |-> Now + 1]
        <5>1. Commits("me")
          BY <4>2 DEF AnswersCommit
        <5>2. Now + 1 \in Dates
          BY <5>1, CommitTyped
        <5>3. x \in Answer /\ y \in Answer /\ x.is = "commit" /\ y.is = "signal"
          BY <5>2, MakesAnswer
        <5>4. \/ down' = down \o <<>> \o <<x>>
              \/ down' = down \o <<y>> \o <<x>>
          BY <4>2 DEF AnswersCommit, ToRoom
        <5> HIDE DEF x, y
        <5>5. /\ down \in Seq(Answer) /\ down \o <<>> = down
              /\ down \o <<y>> = Append(down, y) /\ Append(down, y) \in Seq(Answer)
          BY <5>3, AppendIsConcat, AppendProperties, ConcatEmptySeq DEF TypeOK
        <5>6. down' = Append(down, x) \/ down' = Append(Append(down, y), x)
          BY <5>3, <5>4, <5>5, AppendIsConcat
        <5> QED  BY <5>3, <5>5, <5>6, NoSyncAdded
      <4> QED  BY <2>4, <4>1, <4>2
    <3> QED  BY <2>1, <2>4, <3>1, <3>2 DEF ConnectionOK, Accounts
  <2>5. CASE Records(Head(up).t) /\ UNCHANGED skipped
    <3>1. UNCHANGED <<member, down>>
      BY <2>5 DEF Records
    <3> QED  BY <2>1, <2>5, <3>1 DEF ConnectionOK, Accounts
  <2> QED  BY <1>5, <2>2, <2>3, <2>4, <2>5 DEF Serve
<1>6. CASE OtherCommits
  <2> DEFINE y == [is |-> "signal", t |-> Now + 1]
  <2>1. UNCHANGED <<member, connected, hasCalledSync, myCurrentTime, lost, skipped>>
    BY <1>6 DEF OtherCommits, adapter, rest
  <2>2. y.is = "signal" /\ (down' = down \o <<y>> \/ (down' = down \o <<>> /\ ~member))
    BY <1>6 DEF OtherCommits, ToRoom
  <2> HIDE DEF y
  <2>3. down' = Append(down, y) \/ down' = down
    BY <2>2 DEF TypeOK
  <2>4. ~member => down' = down
    BY <1>6 DEF OtherCommits, ToRoom, TypeOK
  <2>5. \A i \in DOMAIN down' : down'[i].is = "sync" => i \in DOMAIN down /\ down[i].is = "sync"
    BY <2>2, <2>3 DEF TypeOK
  <2> QED  BY <2>1, <2>4, <2>5 DEF ConnectionOK, Accounts
<1> QED  BY <1>1, <1>2, <1>3, <1>4, <1>5, <1>6 DEF Next

-----------------------------------------------------------------------------
(* Nothing is handed over before what is older.                            *)

LEMMA UpToDateMore ==
    ASSUME TypeOK, NewUpToDate, NEW more \in Seq(Answer), down' = down \o more,
           \A k \in DOMAIN more : more[k].is = "sync" => more[k].new \subseteq 1 .. more[k].t
    PROVE  NewUpToDate'
<1>1. down \in Seq(Answer)
  BY DEF TypeOK
<1> SUFFICES ASSUME NEW k \in DOMAIN (down \o more), (down \o more)[k].is = "sync"
             PROVE  (down \o more)[k].new \subseteq 1 .. (down \o more)[k].t
  BY DEF NewUpToDate
<1>2. CASE k \in DOMAIN down
  <2>1. (down \o more)[k] = down[k]
    BY <1>1, <1>2
  <2> QED  BY <2>1, <1>2 DEF NewUpToDate
<1>3. CASE k \notin DOMAIN down
  <2>1. k - Len(down) \in DOMAIN more /\ (down \o more)[k] = more[k - Len(down)]
    BY <1>1, <1>3
  <2> QED  BY <2>1
<1> QED  BY <1>2, <1>3

LEMMA UpToDateStep ==
    ASSUME TypeOK, NewUpToDate, Next
    PROVE  NewUpToDate'
<1>1. down \in Seq(Answer) /\ Now \in Nat /\ Now \in Dates /\ recorded \in Nat
  BY DEF TypeOK, Dates
<1>2. CASE down' = down \/ down' = <<>>
  BY <1>2 DEF NewUpToDate
<1>3. CASE Receive
  <2>1. down # <<>> /\ down' = Tail(down)
    BY <1>3 DEF Receive
  <2>2. \A k \in DOMAIN Tail(down) : k + 1 \in DOMAIN down /\ Tail(down)[k] = down[k + 1]
    BY <1>1, <2>1
  <2> QED  BY <2>1, <2>2 DEF NewUpToDate
<1>4. CASE OtherCommits
  <2>1. ToRoom(Now + 1) \in Seq(Answer) /\ down' = down \o ToRoom(Now + 1)
    BY <1>4, CommitTyped DEF OtherCommits
  <2>2. \A k \in DOMAIN ToRoom(Now + 1) : ToRoom(Now + 1)[k].is # "sync"
    BY DEF ToRoom
  <2> QED  BY <2>1, <2>2, UpToDateMore
<1>5. CASE Serve
  <2>1. CASE AnswersSync
    <3> DEFINE m == [is |-> "sync", t |-> Now, new |-> recorded + 1 .. Now]
    <3>1. recorded + 1 .. Now \subseteq 1 .. Now
      BY <1>1
    <3>2. m \in Answer
      <4>1. 1 .. Now \subseteq Dates
        BY <1>1, ServerAssumption DEF Dates
      <4>2. recorded + 1 .. Now \in SUBSET Dates
        BY <3>1, <4>1
      <4> QED  BY <4>2, <1>1, MakesAnswer
    <3>3. <<m>> \in Seq(Answer) /\ down' = down \o <<m>>
      BY <2>1, <3>2, <1>1 DEF AnswersSync
    <3>4. m.new \subseteq 1 .. m.t
      BY <3>1
    <3> HIDE DEF m
    <3>5. \A k \in DOMAIN <<m>> : <<m>>[k] = m
      OBVIOUS
    <3> QED  BY <3>3, <3>4, <3>5, UpToDateMore
  <2>2. CASE AnswersCommit
    <3>1. PICK echo \in {<<>>, ToRoom(Now + 1)} :
              down' = down \o echo \o <<[is |-> "commit", t |-> Now + 1]>>
      BY <2>2 DEF AnswersCommit
    <3>2. Now + 1 \in Dates /\ echo \in Seq(Answer)
      <4>1. Now + 1 \in Dates /\ ToRoom(Now + 1) \in Seq(Answer)
        BY <2>2, CommitTyped DEF AnswersCommit
      <4>2. <<>> \in Seq(Answer)
        OBVIOUS
      <4> QED  BY <4>1, <4>2
    <3>3. \A k \in DOMAIN echo : echo[k].is # "sync"
      BY DEF ToRoom
    <3> DEFINE m == [is |-> "commit", t |-> Now + 1]
    <3>4. m \in Answer /\ m.is # "sync"
      BY <3>2, MakesAnswer
    <3> HIDE DEF m
    <3>5. Append(echo, m) \in Seq(Answer) /\ down' = down \o Append(echo, m)
      <4>1. down' = down \o echo \o <<m>>
        BY <3>1 DEF m
      <4>2. Append(echo, m) = echo \o <<m>> /\ Append(echo, m) \in Seq(Answer)
            /\ <<m>> \in Seq(Answer)
        BY <3>2, <3>4
      <4>3. (down \o echo) \o <<m>> = down \o (echo \o <<m>>)
        BY <3>2, <4>2, <1>1
      <4> QED  BY <4>1, <4>2, <4>3
    <3>6. \A k \in DOMAIN Append(echo, m) : Append(echo, m)[k].is # "sync"
      BY <3>2, <3>3, <3>4
    <3> QED  BY <3>5, <3>6, UpToDateMore
  <2>3. CASE AnswersRender
    <3> DEFINE m == [is |-> "render", t |-> Now]
    <3>1. m \in Answer /\ m.is # "sync"
      BY <1>1, MakesAnswer
    <3>2. <<m>> \in Seq(Answer) /\ down' = down \o <<m>>
      BY <2>3, <3>1, <1>1 DEF AnswersRender
    <3> HIDE DEF m
    <3>3. \A k \in DOMAIN <<m>> : <<m>>[k].is # "sync"
      BY <3>1
    <3> QED  BY <3>2, <3>3, UpToDateMore
  <2>4. CASE Joins \/ Records(Head(up).t)
    BY <1>2, <2>4 DEF Joins, Records
  <2> QED  BY <1>5, <2>1, <2>2, <2>3, <2>4 DEF Serve
<1> QED
  BY <1>2, <1>3, <1>4, <1>5 DEF Next, Connect, Sync, Commit, Render, Ask, Apply, Restart, Refuse,
                                Disconnect, socket

(* What the agent is handed is no newer than the date it goes by then, up  *)
(* to which it has everything.                                             *)
LEMMA InOrderStep ==
    ASSUME IInv, Next, ~skipped', ~dropped', DatesReached'
    PROVE  InOrder'
<1>1. ~skipped /\ ~dropped
  <2>1. ASSUME dropped' = dropped \/ dropped' = (dropped \/ inbox # {}) PROVE ~dropped
    BY <2>1, Zenon
  <2>2. ASSUME \/ skipped' = skipped \/ skipped' = (skipped \/ lost \/ ~hasCalledSync)
               \/ skipped' = (skipped \/ ~member)
        PROVE  ~skipped
    BY <2>2, Zenon
  <2>3. CASE Receive
    <3>1. Signal(Head(down)) \/ SyncAnswer(Head(down)) \/ DateAnswer(Head(down))
      BY <2>3, Zenon DEF Receive
    <3>2. skipped' = skipped \/ skipped' = (skipped \/ lost \/ ~hasCalledSync)
      BY <3>1, Zenon DEF Signal, SyncAnswer, DateAnswer, Advance
    <3>3. dropped' = dropped
      BY <2>3, Zenon DEF Receive
    <3> QED  BY <2>1, <2>2, <3>2, <3>3, Zenon
  <2>4. CASE Serve
    <3>1. dropped' = dropped
      BY <2>4, Zenon DEF Serve
    <3>2. skipped' = skipped \/ skipped' = (skipped \/ ~member)
      BY <2>4, Zenon DEF Serve, AnswersSync
    <3> QED  BY <2>1, <2>2, <3>1, <3>2, Zenon
  <2>5. CASE Connect \/ Sync \/ Commit \/ Render \/ \E handed \in inbox : Apply(handed)
    BY <2>5 DEF Connect, Sync, Commit, Render, Ask, Apply, rest
  <2>6. CASE Restart
    <3>1. dropped' = (dropped \/ inbox # {})
      BY <2>6, Zenon DEF Restart
    <3>2. skipped' = skipped
      BY <2>6 DEF Restart
    <3> QED  BY <2>1, <2>2, <3>1, <3>2, Zenon
  <2>7. CASE Refuse \/ OtherCommits \/ Disconnect
    BY <2>7 DEF Refuse, OtherCommits, Disconnect, rest
  <2> QED  BY <2>3, <2>4, <2>5, <2>6, <2>7 DEF Next
<1>2. TypeOK /\ InOrder /\ NewUpToDate /\ inbox \subseteq SUBSET Dates /\ db \subseteq Dates
  BY <1>1 DEF IInv, TypeOK
<1>3. \/ log' = log
      \/ \E author \in {"me", "other"} : Commits(author)
  BY DEF Next, Connect, Sync, Commit, Render, Ask, Receive, Apply, Restart, Serve, Joins,
         AnswersSync, AnswersCommit, AnswersRender, Records, Refuse, OtherCommits, Disconnect, server
<1>4. Mine \subseteq Mine'
  BY <1>2, <1>3, MineKept
<1>5. CASE UNCHANGED <<inbox, db>>
  BY <1>2, <1>4, <1>5 DEF InOrder, Has
<1>6. CASE \E handed \in inbox : Apply(handed)
  <2>1. db' \cup UNION inbox' = db \cup UNION inbox
    BY <1>6 DEF Apply
  <2> QED  BY <1>2, <1>4, <2>1 DEF InOrder, Has
<1>7. CASE Restart
  <2>1. db' \cup UNION inbox' = db \cup UNION inbox
    BY <1>1, <1>7 DEF Restart
  <2> QED  BY <1>2, <1>4, <2>1 DEF InOrder, Has
<1>8. CASE Receive
  <2> DEFINE m == Head(down)
  <2>1. m \in Answer /\ m = down[1] /\ 1 \in DOMAIN down /\ db' = db
    BY <1>2, <1>8, QueueTyped DEF Receive, TypeOK
  <2>2. m.t \in Nat /\ (m.is = "sync" => m.new \subseteq 1 .. m.t)
    BY <1>2, <2>1, AnswerFields DEF NewUpToDate, Dates
  <2> HIDE DEF m
  <2>3. \/ inbox' = inbox
        \/ /\ UNION inbox' = (UNION inbox) \cup Brings(m) /\ myCurrentTime' = m.t
           /\ hasCalledSync' /\ Brings(m) \subseteq 1 .. m.t
    <3>1. CASE Signal(m)
      <4>1. m.is = "signal" /\ hasCalledSync' = hasCalledSync /\ Brings(m) = {m.t}
        BY <3>1 DEF Signal, Brings
      <4>2. {m.t} \subseteq 1 .. m.t
        <5>1. m.t \in 1 .. MaxLog
          BY <2>1, AnswerFields DEF Dates
        <5> QED  BY <5>1, ServerAssumption
      <4>3. \/ inbox' = inbox
            \/ /\ inbox' = inbox \cup {{m.t}} /\ myCurrentTime' = m.t
               /\ skipped' = (skipped \/ lost \/ ~hasCalledSync)
        BY <3>1 DEF Signal, Advance
      <4> QED  BY <4>1, <4>2, <4>3
    <3>2. CASE SyncAnswer(m)
      <4>1. /\ m.is = "sync" /\ Brings(m) = m.new /\ hasCalledSync' /\ myCurrentTime' = m.t
            /\ inbox' = inbox \cup ({m.new} \ {{}})
        BY <3>2 DEF SyncAnswer, Brings
      <4>2. UNION inbox' = (UNION inbox) \cup m.new
        BY <4>1
      <4> QED  BY <2>2, <4>1, <4>2
    <3>3. CASE DateAnswer(m)
      BY <3>3 DEF DateAnswer
    <3> QED  BY <1>8, <3>1, <3>2, <3>3 DEF Receive, m
  <2>4. CASE inbox' = inbox
    BY <1>5, <2>1, <2>4
  <2>5. ASSUME UNION inbox' = (UNION inbox) \cup Brings(m), myCurrentTime' = m.t, hasCalledSync',
               Brings(m) \subseteq 1 .. m.t
        PROVE  InOrder'
    <3>1. 1 .. m.t \subseteq Has'
      BY <2>5 DEF DatesReached
    <3>2. \A d \in Brings(m) : 1 .. d \subseteq Has'
      BY <2>2, <2>5, <3>1
    <3>3. Has \subseteq Has'
      BY <1>4, <2>1, <2>5 DEF Has
    <3> QED  BY <1>2, <1>4, <2>1, <2>5, <3>2, <3>3 DEF InOrder
  <2> QED  BY <2>3, <2>4, <2>5
<1> QED
  BY <1>5, <1>6, <1>7, <1>8 DEF Next, Connect, Sync, Commit, Render, Ask, Serve, Refuse, OtherCommits,
                               Disconnect, rest

-----------------------------------------------------------------------------
(* IInv is inductive.                                                      *)

LEMMA Invariance == Spec => []IInv
<1>1. Init => IInv
  <2> SUFFICES ASSUME Init PROVE IInv
    OBVIOUS
  <2>1. /\ down = <<>> /\ up = <<>> /\ ~hasCalledSync /\ ~connected /\ ~member /\ recorded = 0
    BY DEF Init
  <2>2. DOMAIN up = {} /\ DOMAIN down = {} /\ 1 .. recorded = {}
    BY <2>1
  <2>3. InOrder /\ NewUpToDate
    BY <2>2 DEF Init, InOrder, NewUpToDate
  <2> QED  BY <2>1, <2>2, <2>3, InitTyped DEF IInv, ConnectionOK, DatesReached, Accounted, Accounts
<1>2. IInv /\ [Next]_vars => IInv'
  <2> SUFFICES ASSUME IInv, [Next]_vars PROVE IInv'
    OBVIOUS
  <2>1. TypeOK'
    BY NextTyped DEF IInv
  <2>2. CASE Next
    <3>1. ConnectionOK'
      BY <2>2, ConnectionStep DEF IInv
    <3>2. NewUpToDate'
      BY <2>2, UpToDateStep DEF IInv
    <3>3. ~skipped' /\ ~dropped' => DatesReached' /\ Accounted'
      BY <2>2, AgentStep, ReceiveStep, ServeStep DEF Next
    <3>4. ~skipped' /\ ~dropped' => InOrder'
      BY <2>2, <3>3, InOrderStep
    <3> QED  BY <2>1, <3>1, <3>2, <3>3, <3>4 DEF IInv
  <2>3. CASE UNCHANGED vars
    <3>1. UNCHANGED <<log, recorded, member, connected, up, down, myCurrentTime,
                      hasCalledSync, inbox, db, lost, skipped, dropped>>
      BY <2>3 DEF vars, server, socket, adapter, rest
    <3>2. ConnectionOK'
      BY <3>1 DEF IInv, ConnectionOK, Accounts
    <3>3. Has \subseteq Has'
      BY <3>1, HasKept DEF IInv
    <3>4. ~skipped /\ ~dropped => DatesReached' /\ Accounted'
      BY <3>1, <3>3, ReachedStep, AccountedSame DEF IInv
    <3>5. NewUpToDate' /\ (~skipped /\ ~dropped => InOrder')
      BY <3>1 DEF IInv, NewUpToDate, InOrder, Has, Mine, Now
    <3> QED  BY <2>1, <3>1, <3>2, <3>4, <3>5 DEF IInv
  <2> QED  BY <2>2, <2>3
<1> QED  BY <1>1, <1>2, PTL DEF Spec

(* For any bounds, every variable keeps its type.                          *)
THEOREM ServerTyped == Spec => []TypeOK
<1>1. IInv => TypeOK
  BY DEF IInv
<1> QED  BY <1>1, Invariance, PTL

(* Neither the date that the server keeps nor that by which the agent goes *)
(* is past a diff that the agent does not have, as long as no date         *)
(* advances before the sync of the connection is answered and no crash     *)
(* drops what was reported; and no diff is handed to the executor before   *)
(* one that is older.                                                      *)
THEOREM NothingIsSkipped == Spec => []NothingSkipped
<1>1. IInv => NothingSkipped
  BY DEF IInv, DatesReached, NothingSkipped
<1> QED  BY <1>1, Invariance, PTL
=============================================================================
