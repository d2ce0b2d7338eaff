--------------------------- MODULE Notifications ---------------------------
(***************************************************************************)
(* Notifications of a perspective, from a mutation of its links to the     *)
(* clients that subscribed: perspective_instance.rs, pubsub.rs, and the    *)
(* table notifications of db.rs.                                           *)
(*                                                                         *)
(* notification_check_loop() queries the triggers of all notifications     *)
(* when links have changed, and publishes the matches that were not there  *)
(* in the round before.  It keeps the flag links_have_changed locked for   *)
(* that, but the facts that the triggers are matched with are written by   *)
(* tasks of their own, which take no notice of the flag.  A topic gives    *)
(* each subscriber a watch channel, which holds the last message only.     *)
(*                                                                         *)
(* Every modelled link matches every trigger; a change of other links only *)
(* sets the flag.  A call of the engine is one step here: PrologFacts has  *)
(* its locks.  A row is abstracted to its version, since what matters is   *)
(* whether it is as it was.  The webhook, which gets what the topic got,   *)
(* is left out.                                                            *)
(***************************************************************************)
EXTENDS Naturals

CONSTANTS
    Notes,         \* ids of notifications, each given out once
    Subscribers,   \* clients that listen
    MaxLinks,      \* bound: links that match
    MaxActions,    \* bound: mutations of them, and changes of notifications
    MaxErrors,     \* bound: queries that fail
    MaxStops       \* bound: restarts of the process

VARIABLES
    links, latest, \* links in the database, and how many there have been
    facts,         \* links that the Prolog engine has facts of
    engine,        \* is the engine "fit", or to be built from the database?
    asserting,     \* additions whose task has not asserted the fact
    reloading,     \* number of removals whose task has not loaded the facts
    unset,         \* number of mutations that have not set the flag
    changed,       \* *links_have_changed
    notifications, \* the rows of the table
    ids,           \* ids that were given out
    phase,         \* how far the loop is
    todo,          \* rows that it has read and not yet asked for
    before, after, \* matches of the last round, and of this one
    sending,       \* messages of tasks that have not published them
    topic,         \* the channels of the topic, one of each subscriber
    unread,        \* channels with a message that their subscriber has not read
    there,         \* subscribers that are there
    due,           \* those of them that have not read the last message
    announced,     \* matches handed to a task that publishes, or of a first round
    repeated,      \* was a match announced again, while its link was there?
    actions, errors, stops

content  == <<links, latest>>
prolog   == <<facts, engine, asserting, reloading>>
flag     == <<unset, changed>>
table    == <<notifications, ids>>
rounds   == <<phase, todo, before, after>>
channels == <<topic, unread, there, due>>
history  == <<announced, repeated>>
bounds   == <<actions, errors, stops>>
vars == <<content, prolog, flag, table, rounds, sending, channels, history, bounds>>

Links   == 1 .. MaxLinks
Row     == [note : Notes, version : 1 .. MaxActions + 1]
Match   == [row : Row, link : Links]
Message == [row : Row, links : SUBSET Links]

TypeOK ==
    /\ links \subseteq 1 .. latest /\ latest \in 0 .. MaxLinks
    /\ facts \subseteq 1 .. latest /\ engine \in {"fit", "unfit"}
    /\ asserting \subseteq 1 .. latest /\ reloading \in Nat
    /\ unset \in Nat /\ changed \in BOOLEAN
    /\ ids \subseteq Notes
    /\ notifications \subseteq Row
    /\ \A r, q \in notifications : r.note \in ids /\ (r.note = q.note => r = q)
    /\ phase \in {"begins", "first", "idle", "round"}
    /\ todo \subseteq Row /\ before \subseteq Match /\ after \subseteq Match
    /\ sending \subseteq Message
    /\ topic \subseteq Subscribers
    /\ unread \subseteq Subscribers /\ there \subseteq Subscribers /\ due \subseteq there
    /\ announced \subseteq Match /\ repeated \in BOOLEAN
    /\ actions \in 0 .. MaxActions /\ errors \in 0 .. MaxErrors /\ stops \in 0 .. MaxStops

\* there may be notifications and clients before the perspective is added
Init ==
    /\ links = {} /\ latest = 0
    /\ facts = {} /\ engine = "unfit" /\ asserting = {} /\ reloading = 0
    /\ unset = 0 /\ changed = FALSE
    /\ ids \in SUBSET Notes
    /\ notifications = {[note |-> n, version |-> 1] : n \in ids}
    /\ phase = "begins" /\ todo = {} /\ before = {} /\ after = {}
    /\ sending = {}
    /\ there \in SUBSET Subscribers /\ topic = there
    /\ unread = {} /\ due = {}
    /\ announced = {} /\ repeated = FALSE
    /\ actions = 0 /\ errors = 0 /\ stops = 0

Act == actions < MaxActions /\ actions' = actions + 1 /\ UNCHANGED <<errors, stops>>

-----------------------------------------------------------------------------
(* Mutations of links, those of the link language included: the database,  *)
(* then the task for the facts is spawned, and at last the flag is set.    *)

AddLink ==
    /\ Act
    /\ latest < MaxLinks /\ latest' = latest + 1
    /\ links' = links \cup {latest'}
    /\ asserting' = asserting \cup {latest'}
    /\ unset' = unset + 1
    /\ UNCHANGED <<facts, engine, reloading, changed, table, rounds, sending, channels, history>>

RemoveLink(l) ==
    /\ Act
    /\ links' = links \ {l}
    /\ reloading' = reloading + 1
    /\ unset' = unset + 1
    /\ UNCHANGED <<latest, facts, engine, asserting, changed, table, rounds, sending, channels,
                   history>>

(* The lock of the flag is the loop's while it asks for the triggers.      *)
FlagFree == phase # "round"

SetFlag ==
    /\ unset > 0 /\ FlagFree
    /\ unset' = unset - 1
    /\ changed' = TRUE
    /\ UNCHANGED <<content, prolog, table, rounds, sending, channels, history, bounds>>

(* Links that no trigger matches.                                          *)
OtherChange ==
    /\ FlagFree
    /\ changed' = TRUE
    /\ UNCHANGED <<content, prolog, unset, table, rounds, sending, channels, history, bounds>>

-----------------------------------------------------------------------------
(* The engine.  Whoever calls it builds it first if it has to be built; a  *)
(* query that fails has it built anew.                                     *)

Ensured == IF engine = "fit" THEN facts ELSE links

Fails ==
    /\ errors < MaxErrors /\ errors' = errors + 1
    /\ facts' = {} /\ engine' = "unfit"
    /\ UNCHANGED <<actions, stops>>

Answers(fs) == facts' = fs /\ engine' = "fit" /\ UNCHANGED bounds

AssertFact(l) ==
    /\ asserting' = asserting \ {l}
    /\ Answers(Ensured \cup {l}) \/ Fails
    /\ UNCHANGED <<content, reloading, flag, table, rounds, sending, channels, history>>

Reload ==
    /\ reloading > 0 /\ reloading' = reloading - 1
    /\ Answers(links)
    /\ UNCHANGED <<content, asserting, flag, table, rounds, sending, channels, history>>

-----------------------------------------------------------------------------
(* The notifications, as clients request, change, grant and remove them.   *)

TableOnly == UNCHANGED <<content, prolog, flag, rounds, sending, channels, history>>

Request(n) ==
    /\ Act
    /\ n \notin ids /\ ids' = ids \cup {n}
    /\ notifications' = notifications \cup {[note |-> n, version |-> 1]}
    /\ TableOnly

(* An update, which takes the grant back, or a grant.                      *)
Change(r) ==
    /\ Act
    /\ notifications' = (notifications \ {r}) \cup {[r EXCEPT !.version = @ + 1]}
    /\ UNCHANGED ids
    /\ TableOnly

RemoveNotification(r) ==
    /\ Act
    /\ notifications' = notifications \ {r}
    /\ UNCHANGED ids
    /\ TableOnly

-----------------------------------------------------------------------------
(* notification_check_loop(), and a snapshot: the rows are read, and then  *)
(* the triggers asked for one by one.                                      *)

LoopOnly == UNCHANGED <<content, asserting, reloading, unset, table, channels>>

Begins ==
    /\ todo' = notifications /\ after' = {}
    /\ LoopOnly
    /\ UNCHANGED <<facts, engine, changed, before, sending, history, bounds>>

FirstRound == phase = "begins" /\ phase' = "first" /\ Begins

Round == phase = "idle" /\ changed /\ phase' = "round" /\ Begins

Matches(r, ls) == {[row |-> r, link |-> l] : l \in ls}

AskTrigger(r) ==
    /\ todo' = todo \ {r}
    /\ Answers(Ensured)
    /\ after' = after \cup Matches(r, facts')
    /\ LoopOnly
    /\ UNCHANGED <<changed, phase, before, sending, history>>

(* The snapshot of a query that fails counts as one without any match.     *)
TriggerFails ==
    /\ todo # {}
    /\ todo' = {} /\ after' = {}
    /\ Fails
    /\ LoopOnly
    /\ UNCHANGED <<changed, phase, before, sending, history>>

\* mutant: the first round is compared with none
FirstForgotten ==
    /\ phase = "first" /\ todo = {}
    /\ phase' = "idle"
    /\ before' = {} /\ after' = {}
    /\ announced' = announced \cup after
    /\ LoopOnly
    /\ UNCHANGED <<facts, engine, changed, todo, sending, repeated, bounds>>

FirstOver ==
    /\ phase = "first" /\ todo = {}
    /\ phase' = "idle"
    /\ before' = after /\ after' = {}
    /\ announced' = announced \cup after
    /\ LoopOnly
    /\ UNCHANGED <<facts, engine, changed, todo, sending, repeated, bounds>>

NewMatches == after \ before

Messages(ms) == {[row |-> m.row, links |-> {x.link : x \in {y \in ms : y.row = m.row}}] : m \in ms}

RoundOver ==
    /\ phase = "round" /\ todo = {}
    /\ phase' = "idle"
    /\ sending' = sending \cup Messages(NewMatches)
    /\ before' = after /\ after' = {}
    /\ changed' = FALSE
    /\ announced' = announced \cup NewMatches
    /\ repeated' = (repeated \/ \E m \in NewMatches \cap announced : m.link \in links)
    /\ LoopOnly
    /\ UNCHANGED <<facts, engine, todo, bounds>>

-----------------------------------------------------------------------------
(* The topic.  publish() and remove_dead_subscribers() drop the channels   *)
(* whose receiver is gone.                                                 *)

\* mutant: channels are removed while publish() goes through them, and the
\* one after a removed channel is skipped
PublishSkips(m) ==
    /\ sending' = sending \ {m}
    /\ topic' = topic \cap there
    /\ \E skipped \in SUBSET topic' :
          /\ skipped # {} <=> topic' # {} /\ topic # topic'
          /\ unread' = unread \cup (topic' \ skipped)
    /\ due' = there
    /\ UNCHANGED <<content, prolog, flag, table, rounds, there, history, bounds>>

Publish(m) ==
    /\ sending' = sending \ {m}
    /\ topic' = topic \cap there
    /\ unread' = unread \cup topic'
    /\ due' = there
    /\ UNCHANGED <<content, prolog, flag, table, rounds, there, history, bounds>>

ChannelsOnly == UNCHANGED <<content, prolog, flag, table, rounds, sending, history>>

Subscribe(s) ==
    /\ Act
    /\ s \notin there /\ s \notin topic
    /\ there' = there \cup {s}
    /\ topic' = (topic \cap there) \cup {s}
    /\ UNCHANGED <<unread, due>>
    /\ ChannelsOnly

Receive(s) ==
    /\ s \in unread
    /\ unread' = unread \ {s} /\ due' = due \ {s}
    /\ UNCHANGED <<topic, there, bounds>>
    /\ ChannelsOnly

Close(s) ==
    /\ s \in there /\ there' = there \ {s}
    /\ unread' = unread \ {s} /\ due' = due \ {s}
    /\ UNCHANGED <<topic, bounds>>
    /\ ChannelsOnly

-----------------------------------------------------------------------------
(* The process ends and begins again, with what the database has.          *)
Restart ==
    /\ stops < MaxStops /\ stops' = stops + 1
    /\ facts' = {} /\ engine' = "unfit" /\ asserting' = {} /\ reloading' = 0
    /\ unset' = 0 /\ changed' = FALSE
    /\ phase' = "begins" /\ todo' = {} /\ before' = {} /\ after' = {}
    /\ sending' = {}
    /\ topic' = {} /\ unread' = {} /\ there' = {} /\ due' = {}
    /\ UNCHANGED <<content, table, history, actions, errors>>

FactsStep == Reload \/ \E l \in asserting : AssertFact(l)

LoopStep ==
    FirstRound \/ Round \/ FirstOver \/ RoundOver \/ TriggerFails \/ \E r \in todo : AskTrigger(r)

PublishStep == \E m \in sending : Publish(m)

Next ==
    \/ AddLink \/ SetFlag \/ OtherChange
    \/ \E l \in links : RemoveLink(l)
    \/ \E n \in Notes : Request(n)
    \/ \E r \in notifications : Change(r) \/ RemoveNotification(r)
    \/ FactsStep \/ LoopStep \/ PublishStep
    \/ \E s \in Subscribers : Subscribe(s) \/ Receive(s) \/ Close(s)
    \/ Restart

Spec == Init /\ [][Next]_vars

(* tokio runs every task that can run, the engine answers, and a client    *)
(* that listens reads what its channel has.                                *)
Fairness ==
    /\ WF_vars(FactsStep) /\ WF_vars(SetFlag) /\ WF_vars(LoopStep) /\ WF_vars(PublishStep)
    /\ \A s \in Subscribers : WF_vars(Receive(s))

FairSpec == Spec /\ Fairness

-----------------------------------------------------------------------------
(* A match is announced once for a notification as it is, as long as its   *)
(* link is there and no query failed, although facts are loaded anew while *)
(* the loop looks and the process may restart in between.                  *)
ToldOnce == errors = 0 => ~repeated

(* All matches of all notifications have been announced, but for those of  *)
(* a first round, and every client has read the last message.              *)
AllTold ==
    /\ \A r \in notifications : Matches(r, links) \subseteq announced
    /\ sending = {} /\ due = {}

(* As long as links keep changing, every match is announced in the end,    *)
(* and reaches all who listen, unless a later message overwrites it: what  *)
(* the loop missed because the facts came late, or a query failed, it      *)
(* finds in a later round.                                                 *)
EventuallyTold == []<>changed => <>[]AllTold
=============================================================================
