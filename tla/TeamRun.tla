------------------------------- MODULE TeamRun -------------------------------
(***************************************************************************)
(* A Team run: the Lead delegates tasks to child agents and is woken by    *)
(* their completion reports (orchestration/orchestrator.ts), through a     *)
(* delivery with an identity of its own (acp/prompt-delivery.ts,           *)
(* team-report-delivery.ts).                                               *)
(*                                                                         *)
(* A child's end reaches the orchestrator several times: as its own        *)
(* report, as the end or the failure of its prompt, as an idle event, as a *)
(* session-end notice, the last three behind timers.  A wake sends the     *)
(* Lead a prompt and waits for the Lead's whole turn, so all the others    *)
(* fall into it.  The agent, the task and the Lead's history are durable;  *)
(* records, groups, timers, wakes and markers are in memory.               *)
(***************************************************************************)
EXTENDS Naturals, FiniteSets

CONSTANTS
  Tasks,          \* the Lead's tasks
  MaxDelegations, \* bound on the delegations of one task, each to a child of its own
  MaxChildren,    \* bound on all delegations
  NotifiesIdle,   \* the tasks whose child's provider has a LifecycleNotifier (Claude SDK, workspace)
  NoticesEnd,     \* the tasks whose child's provider sends session/update "completed" or "ended"
  Reports,        \* what an agent may report of its task: statuses out of COMPLETED, NEEDS_FIX
  None,
  MaxReports,     \* bound on the reports of one child
  MaxFailures,    \* bound on starts, turns, deliveries and receipts that fail
  MaxCrashes      \* bound on crashes of the server

Children == Tasks \X (1..MaxDelegations)
TaskOf(c) == c[1]

ASSUME ConstantsAssumption ==
  /\ MaxDelegations \in Nat
  /\ MaxChildren \in Nat
  /\ NotifiesIdle \subseteq Tasks
  /\ NoticesEnd \subseteq Tasks
  /\ Reports \subseteq {"COMPLETED", "NEEDS_FIX"}
  /\ None \notin Children
  /\ MaxReports \in Nat

VARIABLES
  task,        \* the durable tasks: status and assignedTo
  child,       \* the child agents, see NewChild
  delegating,  \* the children whose session is being made, inside taskDelegationGuards
  group,       \* delegationGroups, each under the child that opened it
  activeGroup, \* activeGroupByAgent of the Lead
  wake,        \* handleChildCompletion of each child: idle, or at a stage of wakeParent
  inflight,    \* inflightPromptDeliveries: the children whose report has a marker
  lead,        \* the Lead's history: receipts, reports its provider took, children they told of
  failures, crashes

vars == <<task, child, delegating, group, activeGroup, wake, inflight, lead, failures, crashes>>

NewChild ==
  [agent    |-> "none",  \* AgentStatus
   turn     |-> "none",  \* none, first, resumed, over, lost
   known    |-> FALSE,   \* it has a record in childAgents
   handled  |-> FALSE,   \* completionHandled
   late     |-> FALSE,   \* it joined a group while the Lead was being woken for that group
   reports  |-> 0,       \* how many reports it has made itself
   timers   |-> {}]      \* sleeps under way: sessionEnd (500 ms), idle and complete (2 s each)

NoGroup == [members |-> {}, done |-> {}]
NoWake == [stage |-> "none", group |-> None, covers |-> {}]
NothingDelivered == [receipts |-> 0, accepted |-> 0, told |-> FALSE]

Init ==
  /\ task = [t \in Tasks |-> [status |-> "PENDING", assignedTo |-> None]]
  /\ child = [c \in Children |-> NewChild]
  /\ delegating = {}
  /\ group = [c \in Children |-> NoGroup]
  /\ activeGroup = None
  /\ wake = [c \in Children |-> NoWake]
  /\ inflight = {}
  /\ lead = [c \in Children |-> NothingDelivered]
  /\ failures = 0
  /\ crashes = 0

Running(c) == child[c].turn \in {"first", "resumed"}

Fail == failures < MaxFailures /\ failures' = failures + 1

(***************************************************************************)
(* Delegation: executeTaskDelegation.                                      *)
(***************************************************************************)

\* The binding a repeated delegation of t answers with instead of starting an agent
\* (resolveActiveDelegationBinding).
ActiveBinding(t, c) ==
  /\ task[t] = [status |-> "IN_PROGRESS", assignedTo |-> c]
  /\ child[c].agent = "ACTIVE"
  /\ child[c].known

\* The children a restart of the server has left without a record.
Forgotten == {c \in Children : child[c].turn # "none" /\ ~child[c].known}

GuardDropped(t) == TRUE

\* withTaskDelegationGuard: one delegation of a task at a time.
GuardFree(t) == ~\E d \in delegating : TaskOf(d) = t

\* The Lead, recovered if need be with the records of its children, delegates a task whose
\* guard is free and that has no active binding: a fresh agent is created, its session is on
\* the way.
Delegate(c) ==
  /\ child[c].agent = "none"
  /\ Cardinality({d \in Children : child[d].agent # "none"}) < MaxChildren
  /\ \A d \in Children : TaskOf(d) = TaskOf(c) /\ child[d].agent = "none" => c[2] <= d[2]
  /\ Forgotten = {}
  /\ GuardFree(TaskOf(c))
  /\ ~\E d \in Children : ActiveBinding(TaskOf(c), d)
  /\ delegating' = delegating \cup {c}
  /\ child' = [child EXCEPT ![c].agent = "PENDING"]
  /\ UNCHANGED <<task, group, activeGroup, wake, inflight, lead, failures, crashes>>

\* createChildAgentSession throws, or the binding cannot be saved.
SpawnFails(c) ==
  /\ c \in delegating
  /\ Fail
  /\ delegating' = delegating \ {c}
  /\ child' = [child EXCEPT ![c].agent = "ERROR"]
  /\ UNCHANGED <<task, group, activeGroup, wake, inflight, lead, crashes>>

\* The session is there but its process is gone when the prompt is sent: the task is BLOCKED.
PromptFails(c) ==
  /\ c \in delegating
  /\ Fail
  /\ delegating' = delegating \ {c}
  /\ child' = [child EXCEPT ![c].agent = "ERROR"]
  /\ task' = [task EXCEPT ![TaskOf(c)] = [status |-> "BLOCKED", assignedTo |-> c]]
  /\ UNCHANGED <<group, activeGroup, wake, inflight, lead, crashes>>

\* Until wakeParent returns the group it reports is still the open one.
JoinsLate == \E d \in Children : activeGroup # None /\ wake[d].group = activeGroup

JoinGroup(c) ==
  IF activeGroup = None
  THEN /\ group' = [group EXCEPT ![c].members = {c}]
       /\ activeGroup' = c
  ELSE /\ group' = [group EXCEPT ![activeGroup].members = @ \cup {c}]
       /\ UNCHANGED activeGroup

\* The binding is saved, the agent activated and prompted, its record set; with wait mode
\* after_all it joins the Lead's open group.
Start(c, waitMode) ==
  /\ c \in delegating
  /\ delegating' = delegating \ {c}
  /\ task' = [task EXCEPT ![TaskOf(c)] = [status |-> "IN_PROGRESS", assignedTo |-> c]]
  /\ child' = [child EXCEPT ![c].agent = "ACTIVE", ![c].turn = "first", ![c].known = TRUE,
                            ![c].late = waitMode = "after_all" /\ JoinsLate]
  /\ CASE waitMode = "after_all" -> JoinGroup(c)
       [] waitMode = "immediate" -> UNCHANGED <<group, activeGroup>>
  /\ UNCHANGED <<wake, inflight, lead, failures, crashes>>

(***************************************************************************)
(* Completion: finalizeChildCompletion and handleChildCompletion.          *)
(***************************************************************************)

GroupsOf(c) == {g \in Children : c \in group[g].members}

DoneOffByOne(g) == Cardinality(group'[g].done) > Cardinality(group[g].members)

AllDone(g) == Cardinality(group'[g].done) >= Cardinality(group[g].members)

\* A child that is handled already or has a wake under way is left alone (the caller joins the
\* wake); one of a group wakes the Lead only as its last; any other wakes it at once.  ch is
\* what the caller makes of the children first.
Finalize(c, ch) ==
  IF ~ch[c].known \/ ch[c].handled \/ wake[c] # NoWake
  THEN child' = ch /\ UNCHANGED <<group, wake>>
  ELSE \/ /\ GroupsOf(c) = {}
          /\ wake' = [wake EXCEPT ![c] = [stage |-> "due", group |-> None, covers |-> {c}]]
          /\ child' = ch
          /\ UNCHANGED group
       \/ \E g \in GroupsOf(c) :
            /\ group' = [group EXCEPT ![g].done = @ \cup {c}]
            /\ IF AllDone(g)
               THEN /\ wake' = [wake EXCEPT
                                  ![c] = [stage |-> "due", group |-> g, covers |-> group[g].members]]
                    /\ child' = ch
               ELSE /\ child' = [ch EXCEPT ![c].handled = TRUE]
                    /\ UNCHANGED wake

\* reportToParent, and with its REPORT_SUBMITTED event handleReportSubmitted.
ReportToParent(c, status, ch) ==
  /\ task' = [task EXCEPT ![TaskOf(c)].status = status]
  /\ Finalize(c, [ch EXCEPT ![c].agent = "COMPLETED"])

\* The agent calls report_to_parent, or leaves its report file.
Report(c, status) ==
  /\ Running(c)
  /\ child[c].reports < MaxReports
  /\ ReportToParent(c, status, [child EXCEPT ![c].reports = @ + 1])
  /\ UNCHANGED <<delegating, activeGroup, inflight, lead, failures, crashes>>

TimersOfAnyTurn(c) == {"complete"}

\* The timers a finished turn starts, each for its own handler; the prompt of a resumed child
\* came from a user, its end concerns nobody.
TimersAfter(c) ==
  IF child[c].turn # "first" THEN {}
  ELSE {"complete"} \cup (IF TaskOf(c) \in NotifiesIdle THEN {"idle"} ELSE {})
                    \cup (IF TaskOf(c) \in NoticesEnd THEN {"sessionEnd"} ELSE {})

\* The turn ends.  notifyIdle puts the agent back to ACTIVE, whatever it had reported.
TurnEnds(c) ==
  /\ Running(c)
  /\ child' = [child EXCEPT
       ![c].turn = "over",
       ![c].timers = @ \cup TimersAfter(c),
       ![c].agent = IF "idle" \in TimersAfter(c) THEN "ACTIVE" ELSE @]
  /\ UNCHANGED <<task, delegating, group, activeGroup, wake, inflight, lead, failures, crashes>>

\* The turn fails: handleChildError.
TurnFails(c) ==
  /\ child[c].turn = "first"
  /\ Fail
  /\ task' = [task EXCEPT ![TaskOf(c)].status = "NEEDS_FIX"]
  /\ Finalize(c, [child EXCEPT ![c].turn = "over", ![c].agent = "ERROR"])
  /\ UNCHANGED <<delegating, activeGroup, inflight, lead, crashes>>

\* scheduleSessionEndCompletion goes on after its sleep.
SessionEndFires(c) ==
  /\ "sessionEnd" \in child[c].timers
  /\ Finalize(c, [child EXCEPT ![c].timers = @ \ {"sessionEnd"}])
  /\ UNCHANGED <<task, delegating, activeGroup, inflight, lead, failures, crashes>>

NeedsAutoReport(c) == child[c].known /\ ~child[c].handled /\ child[c].agent # "COMPLETED"

\* autoReportIfNeeded goes on after its sleep: it reports in the agent's name, or leaves it.
AutoReport(c, timer) ==
  /\ timer \in child[c].timers \ {"sessionEnd"}
  /\ NeedsAutoReport(c)
  /\ ReportToParent(c, "COMPLETED", [child EXCEPT ![c].timers = @ \ {timer}])
  /\ UNCHANGED <<delegating, activeGroup, inflight, lead, failures, crashes>>

SkipAutoReport(c, timer) ==
  /\ timer \in child[c].timers \ {"sessionEnd"}
  /\ ~NeedsAutoReport(c)
  /\ child' = [child EXCEPT ![c].timers = @ \ {timer}]
  /\ UNCHANGED <<task, delegating, group, activeGroup, wake, inflight, lead, failures, crashes>>

(***************************************************************************)
(* Waking the Lead: wakeParent and acknowledgePromptDeliveryOnce.          *)
(***************************************************************************)

\* handleSessionPrompt records the delivery, sets its marker and gives the prompt to the
\* Lead's provider.
Dispatch(c) ==
  /\ wake[c].stage = "due"
  /\ c \notin inflight
  /\ inflight' = inflight \cup {c}
  /\ wake' = [wake EXCEPT ![c].stage = "sent"]
  /\ UNCHANGED <<task, child, delegating, group, activeGroup, lead, failures, crashes>>

WokenUnhandled(c) ==
  /\ inflight' = inflight \ {c}
  /\ wake' = [wake EXCEPT ![c] = NoWake]
  /\ IF wake[c].group = None
     THEN UNCHANGED <<child, group, activeGroup>>
     ELSE /\ group' = [group EXCEPT ![wake[c].group] = NoGroup]
          /\ activeGroup' = None
          /\ UNCHANGED child

WokenGroupStaysOpen(c) ==
  /\ inflight' = inflight \ {c}
  /\ wake' = [wake EXCEPT ![c] = NoWake]
  /\ child' = [child EXCEPT ![c].handled = TRUE]
  /\ group' = IF wake[c].group = None THEN group ELSE [group EXCEPT ![wake[c].group] = NoGroup]
  /\ UNCHANGED activeGroup

\* wakeParent returns: the marker is cleared, the completion handled, the group closed.
Woken(c) ==
  /\ inflight' = inflight \ {c}
  /\ wake' = [wake EXCEPT ![c] = NoWake]
  /\ child' = [child EXCEPT ![c].handled = TRUE]
  /\ IF wake[c].group = None
     THEN UNCHANGED <<group, activeGroup>>
     ELSE /\ group' = [group EXCEPT ![wake[c].group] = NoGroup]
          /\ activeGroup' = None

TellOfOne(c, receipts) ==
  lead' = [lead EXCEPT ![c] = [receipts |-> receipts, accepted |-> @.accepted + 1, told |-> TRUE]]

\* The Lead's provider took the report.
Tell(c, receipts) ==
  lead' = [d \in Children |->
    [receipts |-> IF d = c THEN receipts ELSE lead[d].receipts,
     accepted |-> IF d = c THEN lead[d].accepted + 1 ELSE lead[d].accepted,
     told     |-> lead[d].told \/ d \in wake[c].covers]]

\* The Lead's turn is through and the receipt is written.
Delivered(c) ==
  /\ wake[c].stage = "sent"
  /\ Tell(c, lead[c].receipts + 1)
  /\ Woken(c)
  /\ UNCHANGED <<task, delegating, failures, crashes>>

\* The receipt cannot be written; the completion counts as handled all the same.
ReceiptFails(c) ==
  /\ wake[c].stage = "sent"
  /\ Fail
  /\ Tell(c, lead[c].receipts)
  /\ Woken(c)
  /\ UNCHANGED <<task, delegating, crashes>>

\* A marker is still there: the delivery is answered as a duplicate, which wakeParent takes for
\* an accepted prompt.
Duplicate(c) ==
  /\ wake[c].stage = "due"
  /\ c \in inflight
  /\ lead' = [lead EXCEPT ![c].receipts = @ + 1]
  /\ Woken(c)
  /\ UNCHANGED <<task, delegating, failures, crashes>>

\* The Lead cannot be recovered, the delivery not be recorded, or its provider fails.  The
\* completion stays unhandled, and a marker that was set stays.
DeliveryFails(c) ==
  /\ wake[c] # NoWake
  /\ Fail
  /\ wake' = [wake EXCEPT ![c] = NoWake]
  /\ UNCHANGED <<task, child, delegating, group, activeGroup, inflight, lead, crashes>>

\* Two minutes have passed since the marker was set.
MarkerExpires(c) ==
  /\ c \in inflight
  /\ inflight' = inflight \ {c}
  /\ UNCHANGED <<task, child, delegating, group, activeGroup, wake, lead, failures, crashes>>

(***************************************************************************)
(* A restart of the server, and the recovery of the Lead after it.         *)
(***************************************************************************)

Crash ==
  /\ crashes < MaxCrashes
  /\ crashes' = crashes + 1
  /\ child' = [c \in Children |->
       [child[c] EXCEPT !.known = FALSE, !.handled = FALSE, !.timers = {},
                        !.turn = IF @ = "none" THEN @ ELSE "lost"]]
  /\ delegating' = {}
  /\ group' = [c \in Children |-> NoGroup]
  /\ activeGroup' = None
  /\ wake' = [c \in Children |-> NoWake]
  /\ inflight' = {}
  /\ UNCHANGED <<task, lead, failures>>

\* restoreTeamRuntimeState with the records buildChildAgentRecords makes: the sessions of all
\* children, and "handled" read off the tasks they are assigned to.
Restore ==
  LET Finished(c) == task[TaskOf(c)].assignedTo = c /\ task[TaskOf(c)].status = "COMPLETED"
  IN /\ Forgotten # {}
     /\ child' = [c \in Children |->
          IF c \in Forgotten THEN [child[c] EXCEPT !.known = TRUE, !.handled = Finished(c)]
          ELSE child[c]]
     /\ UNCHANGED <<task, delegating, group, activeGroup, wake, inflight, lead, failures, crashes>>

\* A user prompts a child the crash interrupted.
Resume(c) ==
  /\ child[c].turn = "lost"
  /\ child' = [child EXCEPT ![c].turn = "resumed"]
  /\ UNCHANGED <<task, delegating, group, activeGroup, wake, inflight, lead, failures, crashes>>

Next ==
  \/ \E c \in Children :
       \/ Delegate(c) \/ SpawnFails(c) \/ PromptFails(c)
       \/ \E m \in {"immediate", "after_all"} : Start(c, m)
       \/ \E s \in Reports : Report(c, s)
       \/ TurnEnds(c) \/ TurnFails(c)
       \/ SessionEndFires(c)
       \/ \E m \in {"idle", "complete"} : AutoReport(c, m) \/ SkipAutoReport(c, m)
       \/ Dispatch(c) \/ Delivered(c) \/ ReceiptFails(c) \/ Duplicate(c) \/ DeliveryFails(c)
       \/ MarkerExpires(c)
       \/ Resume(c)
  \/ Crash
  \/ Restore

Spec == Init /\ [][Next]_vars

\* A started turn comes to its end, a timer fires, the Lead answers.
Progress(c) ==
  \/ \E m \in {"immediate", "after_all"} : Start(c, m)
  \/ TurnEnds(c)
  \/ SessionEndFires(c)
  \/ \E m \in {"idle", "complete"} : AutoReport(c, m) \/ SkipAutoReport(c, m)
  \/ Dispatch(c) \/ Delivered(c) \/ Duplicate(c)

FairSpec == Spec /\ \A c \in Children : WF_vars(Progress(c))

(***************************************************************************)
(* Properties.                                                             *)
(***************************************************************************)

ChildStates ==
  [agent : {"none", "PENDING", "ACTIVE", "COMPLETED", "ERROR"},
   turn : {"none", "first", "resumed", "over", "lost"},
   known : BOOLEAN, handled : BOOLEAN, late : BOOLEAN, reports : 0..MaxReports,
   timers : SUBSET {"sessionEnd", "idle", "complete"}]

TaskTypeOK ==
  /\ task \in [Tasks -> [status : {"PENDING", "IN_PROGRESS", "COMPLETED", "NEEDS_FIX", "BLOCKED"},
                         assignedTo : Children \cup {None}]]
  /\ delegating \subseteq Children
ChildTypeOK == child \in [Children -> ChildStates]
GroupTypeOK ==
  /\ group \in [Children -> [members : SUBSET Children, done : SUBSET Children]]
  /\ activeGroup \in Children \cup {None}
WakeTypeOK ==
  /\ wake \in [Children -> [stage : {"none", "due", "sent"}, group : Children \cup {None},
                            covers : SUBSET Children]]
  /\ inflight \subseteq Children
LeadTypeOK ==
  /\ lead \in [Children -> [receipts : Nat, accepted : Nat, told : BOOLEAN]]
  /\ failures \in Nat /\ crashes \in Nat

\* A child that was not created, or has no session yet, holds nothing; only one with a record
\* is in its first turn, handled, waited for or reported.
ChildrenAgree ==
  /\ \A c \in Children : child[c].agent = "none" => child[c] = NewChild
  /\ \A c \in delegating : child[c] = [NewChild EXCEPT !.agent = "PENDING"]
  /\ \A c \in Children :
       (child[c].handled \/ child[c].timers # {} \/ child[c].turn = "first" \/ wake[c] # NoWake)
         => child[c].known

\* Every variable has its type, and the records of the children agree with it.
TypeOK ==
  /\ TaskTypeOK /\ ChildTypeOK /\ GroupTypeOK /\ WakeTypeOK /\ LeadTypeOK
  /\ ChildrenAgree

\* The maps of groups agree: the open group is there, no child is in two groups, only members
\* are done, and no group is left behind with all of its members done and nobody to wake the
\* Lead, unless a delivery failed (handleChildCompletion, step 9 of executeTaskDelegation).
GroupsAgree ==
  /\ activeGroup # None => group[activeGroup].members # {}
  /\ \A c \in Children : Cardinality(GroupsOf(c)) <= 1
  /\ \A g \in Children : group[g].done \subseteq group[g].members
  /\ \A g \in Children :
       (group[g].members # {} /\ group[g].done = group[g].members /\ failures = 0)
         => \E c \in group[g].members : wake[c].group = g

\* Whatever tells of a child's end and in whichever order, and whatever delivery or receipt
\* fails, the Lead takes its report once, and once more only for a restart
\* (finalizeChildCompletion).
ReportedOnce == \A c \in Children : lead[c].accepted <= 1 + crashes

Undisturbed == failures = 0 /\ crashes = 0

\* The Lead has been told of the child's end, or its group will still be reported.
ToldOrWaiting(c) == lead[c].told \/ GroupsOf(c) # {}

\* A completion taken as handled is one the Lead was told of, or will be with the rest of its
\* group, as long as no delivery fails, no restart intervenes and the child did not join a
\* group that was being reported (completionHandled).
HandledIsTold ==
  Undisturbed => \A c \in Children : child[c].handled /\ ~child[c].late => ToldOrWaiting(c)

\* The same of every child: "You will be notified when ALL delegated agents in this group
\* complete" (buildDelegatedResult).
GroupIsTold == Undisturbed => \A c \in Children : child[c].handled => ToldOrWaiting(c)

\* A task with a live agent is not bound to another one, though seconds pass between the look
\* at its binding and the save of a new one (withTaskDelegationGuard).
BindingStands ==
  [][\A t \in Tasks : task'[t].assignedTo # task[t].assignedTo
                        => ~\E c \in Children : ActiveBinding(t, c)]_vars

\* The inductive invariants behind the properties above.  Of bindings: while a delegation of a
\* task is under way the task is not in progress, nothing is forgotten and no second one runs;
\* a task in progress is its active agent's.
BindingInv ==
  /\ \A c, d \in delegating : TaskOf(c) = TaskOf(d) => c = d
  /\ delegating # {} => Forgotten = {}
  /\ \A c \in delegating : task[TaskOf(c)].status # "IN_PROGRESS"
  /\ \A t \in Tasks : task[t].status = "IN_PROGRESS" =>
       /\ task[t].assignedTo \in Children /\ TaskOf(task[t].assignedTo) = t
       /\ child[task[t].assignedTo].agent = "ACTIVE"
       /\ child[task[t].assignedTo].turn # "none"

\* Of deliveries: a child being reported is not handled, and what the Lead took of it beyond
\* the one report a handled child stands for, it took before a restart.
DeliveryInv ==
  \A c \in Children :
    /\ wake[c] # NoWake => ~child[c].handled
    /\ lead[c].accepted <= crashes + (IF child[c].handled THEN 1 ELSE 0)

\* Of groups: a wake covers its child and every member of its group that did not join late, a
\* marker belongs to a delivery under way, a group is opened by a child that was started, and
\* no child is without its record.
CoverInv ==
  /\ \A c \in Children : wake[c] # NoWake => c \in wake[c].covers
  /\ \A c, g \in Children : wake[c].group = g =>
       /\ \A d \in group[g].members : d \in wake[c].covers \/ child[d].late
       /\ child[g].turn # "none"
  /\ \A c \in inflight : wake[c].stage = "sent"
  /\ \A g \in Children :
       group[g].members # {} \/ activeGroup = g => child[g].turn # "none"
  /\ Forgotten = {}
ToldInv == Undisturbed => CoverInv /\ HandledIsTold

\* Of the maps of groups: only children that were started are in a group or opened one, a
\* group is finite and its open one is among them, and the last to be done is about to wake the Lead.
GroupInv ==
  /\ activeGroup # None => group[activeGroup].members # {}
  /\ \A g \in Children :
       /\ IsFiniteSet(group[g].members)
       /\ group[g].done \subseteq group[g].members
       /\ group[g].members # {} => child[g].turn # "none"
       /\ \A c \in group[g].members : child[c].turn # "none"
       /\ group[g].members # {} /\ group[g].done = group[g].members /\ failures = 0
            => \E c \in group[g].members : wake[c].group = g
  /\ \A c, g, h \in Children : c \in group[g].members \cap group[h].members => g = h

\* A delivery receipt stands for a report the provider of the Lead accepted
\* (team-report-delivery.ts:16-19).
ReceiptIsProof == \A c \in Children : lead[c].receipts <= lead[c].accepted

\* The orchestrator reports in the name of an agent only when the agent has not reported
\* (autoReportIfNeeded).
AutoReportIsFallback ==
  [][\A c \in Children, m \in {"idle", "complete"} : AutoReport(c, m) => child[c].reports = 0]_vars

\* When no delivery fails and no restart intervenes the Lead is told of every child whose turn
\* has ended, unless it joined a group that was being reported.
EndReachesLead ==
  \A c \in Children :
    child[c].turn = "over" ~> lead[c].told \/ child[c].late \/ ~Undisturbed

=============================================================================
