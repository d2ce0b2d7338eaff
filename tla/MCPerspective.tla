---------------------------- MODULE MCPerspective ----------------------------
(***************************************************************************)
(* What follows the mutations of a shared perspective: commits to its link *)
(* language (PendingCommits) and notifications of clients (Notifications), *)
(* for one check of both.  They share no state; `follows' says which of    *)
(* them is looked at.                                                      *)
(*                                                                         *)
(* Notifications begins with one notification and with clients that        *)
(* listen.  A link language that returns no revision is looked at in a     *)
(* perspective that is shared from the start, and without other failures.  *)
(***************************************************************************)
EXTENDS PendingCommits

CONSTANTS
    Notes, Subscribers, MaxLinks, MaxActions, MaxErrors, MaxStops,
    Wanted       \* the notification that is there

VARIABLES
    follows,
    links, latest, facts, engine, asserting, reloading, unset, changed, notifications, ids,
    phase, todo, before, after, sending, topic, unread, there, due, announced, repeated,
    actions, errors, stops

ASSUME BoundsOfNotifications ==
    /\ MaxLinks \in Nat /\ MaxActions \in Nat /\ MaxErrors \in Nat /\ MaxStops \in Nat

N == INSTANCE Notifications

noteVars == <<links, latest, facts, engine, asserting, reloading, unset, changed,
              notifications, ids, phase, todo, before, after, sending, topic, unread, there,
              due, announced, repeated, actions, errors, stops>>
allVars == <<follows, vars, noteVars>>

PerspectiveInit ==
    /\ Init /\ N!Init
    /\ follows \in {"commits", "notifications"}
    /\ IF follows = "commits"
       THEN (published \/ revisions) /\ ids = {} /\ there = {}
       ELSE ~published /\ revisions /\ ids = {Wanted} /\ there = Subscribers

FollowCommits(act) == follows = "commits" /\ act /\ UNCHANGED <<follows, noteVars>>

FollowNotes(act) == follows = "notifications" /\ act /\ UNCHANGED <<follows, vars>>

Looked == revisions \/ UNCHANGED <<faults, crashes>>

PerspectiveNext == FollowCommits(Next /\ Looked) \/ FollowNotes(N!Next)

(* Fairness of PendingCommits and of Notifications, where they are looked  *)
(* at.                                                                     *)
PerspectiveFairness ==
    /\ \A d \in Diffs : WF_allVars(FollowCommits(TaskStep(d)))
    /\ WF_allVars(FollowCommits(LoopStep))
    /\ WF_allVars(FollowCommits(EnsureStep)) /\ WF_allVars(FollowCommits(SyncEnds))
    /\ WF_allVars(FollowNotes(N!FactsStep)) /\ WF_allVars(FollowNotes(N!SetFlag))
    /\ WF_allVars(FollowNotes(N!LoopStep)) /\ WF_allVars(FollowNotes(N!PublishStep))
    /\ \A s \in Subscribers : WF_allVars(FollowNotes(N!Receive(s)))

PerspectiveSpec == PerspectiveInit /\ [][PerspectiveNext]_allVars /\ PerspectiveFairness

-----------------------------------------------------------------------------
(* The types of both.                                                      *)
TypesOK == TypeOK /\ N!TypeOK

(* A match is announced once.                                              *)
ToldOnce == N!ToldOnce

(* Every match is announced, and heard, if links keep changing.            *)
EventuallyTold == N!EventuallyTold
=============================================================================
