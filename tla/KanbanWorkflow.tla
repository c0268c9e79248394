--------------------------- MODULE KanbanWorkflow ---------------------------
(***************************************************************************)
(* The column automation of ONE card (src/core/kanban/                     *)
(* workflow-orchestrator.ts).  A card that enters an automated column gets *)
(* an automation: a lane of agent sessions, one after the other.  When a   *)
(* session ends the orchestrator starts the next step, a fallback agent or *)
(* a recovery, or moves the card to the next column; a watchdog finds      *)
(* sessions without activity.                                              *)
(*                                                                         *)
(* Automations are objects that handlers keep while they wait, and events  *)
(* come at any time: while a session is being created, a prompt is sent or *)
(* an artifact is collected, everything else may happen.  The reads and    *)
(* writes of the task store between these are atomic, as in                *)
(* KanbanSessionQueue.  The session queue appears as the job of this card. *)
(* All of it but the row is in memory: when the server restarts, looking   *)
(* at the board (restart-recovery.ts) finds lost sessions and starts again. *)
(***************************************************************************)
EXTENDS Integers, Sequences, FiniteSets

CONSTANTS
  LastColumn,     \* the columns are 1..LastColumn, in the order of the board
  Automated,      \* the columns whose automation is enabled, on entry
  AutoAdvance,    \* of these, the ones with autoAdvanceOnSuccess
  Dev,            \* the columns of stage "dev", whose sessions are supervised
  LaneSteps,      \* the number of steps of the automation of each column
  FallbackSteps,  \* length of the card's fallback chain; 0: no fallback
  MaxFallbackAttempts, \* maxFallbackAttempts of the card
  Mode,           \* the supervision mode of the board
  MaxRecoveryAttempts,
  RepeatLimit,    \* NON_DEV_AUTOMATION_REPEAT_LIMIT
  MaxHandlers,    \* handlers that can be under way at once
  SlotsFree,      \* the board's limit never makes this card wait
  Undisturbed,    \* the card is left alone while it starts, while its session is
                  \* prompted and while its artifact is collected; its board
                  \* shows only it and is looked at when the card has neither
                  \* an automation nor a session of this server
  Summaries,      \* the card may hold a summary, a report or a verdict
  MaxMoves,       \* bound on the moves by users and agents and on the restarts
  MaxLooks,       \* bound on the looks at the board while one server runs; of an
                  \* undisturbed card, on those that change something
  MaxSessions,    \* bound on the sessions that are created
  MaxFaults,      \* bound on the starts that fail and the completions an agent
                  \* reports before its turn ends
  None

Column == 1..LastColumn
Handler == 1..MaxHandlers

ASSUME ColumnAssumption ==
  /\ LastColumn \in Nat \ {0}
  /\ Automated \subseteq Column /\ AutoAdvance \subseteq Automated /\ Dev \subseteq Column
ASSUME StepAssumption ==
  LaneSteps \in [Column -> Nat \ {0}] /\ FallbackSteps \in Nat /\ MaxFallbackAttempts \in Nat
ASSUME SupervisionAssumption ==
  /\ Mode \in {"disabled", "watchdog_retry", "ralph_loop"}
  /\ MaxRecoveryAttempts \in Nat /\ RepeatLimit \in Nat \ {0}
ASSUME BoundAssumption ==
  MaxHandlers \in Nat \ {0} /\ {MaxMoves, MaxLooks, MaxSessions, MaxFaults} \subseteq Nat
ASSUME SwitchAssumption == {SlotsFree, Undisturbed, Summaries} \subseteq BOOLEAN

VARIABLES
  task,         \* the row: column, triggerSessionId, laneSessions
  job,          \* the job of the card that waits in the session queue
  automations,  \* every ActiveAutomation made so far
  active,       \* the one in activeAutomations, by its index; 0 if none
  sessions,     \* every agent session made so far
  past,         \* the sessions 1..past ran in a server that is no more
  handler,      \* the handlers under way
  moves, looks, faults

vars == <<task, job, automations, active, sessions, past, handler, moves, looks, faults>>

Steps(k) == LaneSteps[k] + FallbackSteps

(* A lane session is over when it failed or timed out, done when it is      *)
(* completed or transitioned; one that an event adds has no column.         *)
LaneSession == [session : Nat \ {0}, column : Column \union {0},
                status : {"running", "over", "done"}]
Task == [column : Column, trigger : Nat, lanes : Seq(LaneSession)]
Job == [automation : Nat, column : Column, step : Nat \ {0}]
Automation == [column : Column, step : Nat \ {0},
               status : {"queued", "running", "completed", "failed"},
               session : Nat, recoveries : Nat,
               signaled : SUBSET Nat,  \* signaledSessionIds
               timer : BOOLEAN]
Session == [automation : Nat, column : Column, step : Nat \ {0},
            state : {"live", "silent", "broken", "timedout",
                     "completed", "failed", "late", "lost"},
            reported : BOOLEAN]

(* A handler waits while a session is created ("start", with the row it     *)
(* read), while a recovery prompt is sent ("notify") or while an artifact is *)
(* collected ("artifact"), or while other cards of the board are revived    *)
(* ("revive"); "returned" is the moment createSession answers.              *)
HandlerState ==
  [pc : {"start", "returned", "notify", "artifact", "revive"},
   kind : {"transition", "step", "fallback", "recovery", "job"},
   job : Job, result : Nat, read : Task \union {None},
   task : Task \union {None},  \* the task object of the handler
   event : Nat,                \* the session whose event is handled
   recover : BOOLEAN,          \* shouldRecover
   echo : BOOLEAN]             \* the caller emits the same transition afterwards

\* No job and no handler is the absence of one.
ASSUME NoneAssumption == None \notin Job /\ None \notin HandlerState

TypeOK ==
  /\ task \in Task /\ task.trigger \in 0..Len(sessions)
  /\ job \in Job \union {None}
  /\ automations \in Seq(Automation)
  /\ \A n \in DOMAIN automations : automations[n].step <= Steps(automations[n].column)
  /\ active \in 0..Len(automations)
  /\ sessions \in Seq(Session)
  /\ handler \in [Handler -> HandlerState \union {None}]
  /\ past \in 0..Len(sessions)
  /\ moves \in 0..MaxMoves /\ looks \in 0..MaxLooks
  /\ faults \in 0..MaxFaults

(* A new card in one of the columns. *)
Init ==
  /\ task \in [column : Column, trigger : {0}, lanes : {<<>>}]
  /\ sessions = <<>>
  /\ job = None
  /\ automations = <<>> /\ active = 0
  /\ past = 0
  /\ handler = [h \in Handler |-> None]
  /\ moves = 0 /\ looks = 0 /\ faults = 0

-----------------------------------------------------------------------------
(* Handlers are alike: a new one takes the first place that is free. *)
Free(h) == handler[h] = None /\ \A g \in 1..(h - 1) : handler[g] # None

(* Whoever createSession answered goes on before anything else happens. *)
At(h, pc) == handler[h] # None /\ handler[h].pc = pc
Settled == \A h \in Handler : ~At(h, "returned")

LeftAlone ==
  Undisturbed => \A h \in Handler : \A pc \in {"start", "notify", "artifact"} : ~At(h, pc)

Becomes(h, state) == handler' = [handler EXCEPT ![h] = state]
Ends(h) == Becomes(h, None)

NewHandler(kind, n, a) ==
  [pc |-> "returned", kind |-> kind, event |-> 0,
   job |-> [automation |-> n, column |-> a.column, step |-> a.step],
   result |-> 0, read |-> None, task |-> None, recover |-> FALSE, echo |-> FALSE]

Supervised(a) == a.column \in Dev /\ Mode # "disabled"

(* triggerSessionId is cleared when it is the session that is replaced. *)
WithoutTrigger(t, s) == IF s # 0 /\ t.trigger = s THEN [t EXCEPT !.trigger = 0] ELSE t

(* markTaskLaneSessionStatus, of a session that an event may have to add *)
Marked(t, s, status) ==
  IF \E i \in DOMAIN t.lanes : t.lanes[i].session = s
  THEN [t EXCEPT !.lanes = [i \in DOMAIN @ |->
          IF @[i].session = s THEN [@[i] EXCEPT !.status = status] ELSE @[i]]]
  ELSE [t EXCEPT !.lanes = Append(@, [session |-> s, column |-> 0, status |-> status])]

-----------------------------------------------------------------------------
(* createSession for the job of handler state hs, when the row is t, the job  *)
(* in the queue is j and the automations are as: a card that has a session    *)
(* gets that one; a job that waits already stays; the new job waits for a     *)
(* slot, or the start reads the row and is refused when the card has moved.   *)
CreateSession(h, hs, t, j, as) ==
  LET Returned(s) == Becomes(h, [hs EXCEPT !.pc = "returned", !.result = s])
      waits == j # None /\ j.column = t.column
  IN
  /\ task' = t /\ automations' = as
  /\ \/ t.trigger # 0 /\ Returned(t.trigger) /\ job' = j
     \/ t.trigger = 0 /\ waits /\ Returned(0) /\ job' = j
     \/ t.trigger = 0 /\ ~waits /\ ~SlotsFree /\ Returned(0) /\ job' = hs.job
     \/ /\ t.trigger = 0 /\ ~waits /\ job' = None
        /\ IF t.column = hs.job.column
           THEN Becomes(h, [hs EXCEPT !.pc = "start", !.read = t])
           ELSE Returned(0)

(* Mutant of Underway: an automation that runs is overlooked. *)
UnderwayQueued(k, as) ==
  /\ active # 0 /\ as[active].column = k
  /\ as[active].status = "queued"

(* The automation of the column is queued or running. *)
Underway(k, as) ==
  /\ active # 0 /\ as[active].column = k
  /\ as[active].status \in {"queued", "running"}

(* hasExceededNonDevAutomationRepeatLimit: of the sessions that end the list *)
Exceeded(t, k) ==
  LET n == Len(t.lanes) IN
  /\ k \notin Dev /\ n >= RepeatLimit
  /\ \A i \in (n - RepeatLimit + 1)..n : t.lanes[i].column = k

NewAutomation(k) ==
  [column |-> k, step |-> 1, status |-> "queued", session |-> 0, recoveries |-> 0,
   signaled |-> {}, timer |-> FALSE]

(* handleColumnTransitionData for target column k. *)
Transition(h, k, echo, t, j, as) ==
  IF k \notin Automated \/ Exceeded(t, k) \/ Underway(k, as)
  THEN /\ Ends(h)
       /\ task' = t /\ job' = j /\ automations' = as
       /\ UNCHANGED active
  ELSE LET n == Len(as) + 1
           hs == [NewHandler("transition", n, NewAutomation(k)) EXCEPT !.echo = echo]
       IN  /\ active' = n
           /\ CreateSession(h, hs, t, j, Append(as, NewAutomation(k)))

(* Mutant of Arrived: the session of the old column stays. *)
ArrivedWithSession(t, k) == [t EXCEPT !.column = k]

(* The row of a card that changes its column. *)
Arrived(t, k) == [t EXCEPT !.column = k, !.trigger = 0]

(* finalizeActiveTaskSession: the card's session counts as completed. *)
Finalized(t) == IF t.trigger = 0 THEN t ELSE Marked(t, t.trigger, "done")

(* A user or an agent moves the card.  The PATCH route drops the card's job,  *)
(* awaits the transition and then emits it as well; the tools only emit it.   *)
Move(h, k) ==
  /\ LeftAlone /\ Free(h) /\ moves < MaxMoves /\ k # task.column
  /\ moves' = moves + 1
  /\ LET t == Arrived(Finalized(task), k) IN
     \/ Transition(h, k, TRUE, t, None, automations)
     \/ Transition(h, k, FALSE, t, job, automations)
  /\ UNCHANGED <<sessions, past, looks, faults>>

-----------------------------------------------------------------------------
(* Mutant of HasNext: off by one. *)
HasNextOrLast(a) == a.step <= Steps(a.column)

HasNext(a) == a.step < Steps(a.column)

(* startNextAutomationStep up to createSession *)
StepOf(a) == [a EXCEPT !.step = @ + 1, !.recoveries = 0, !.status = "queued",
                       !.session = 0, !.signaled = {}]

NextStep(h, kind, n, s, as, object, recover) ==
  LET t == WithoutTrigger(object, as[n].session)
      hs == [NewHandler(kind, n, StepOf(as[n])) EXCEPT
               !.task = t, !.recover = recover, !.event = s]
  IN CreateSession(h, hs, t, None, [as EXCEPT ![n] = StepOf(@)])

(* Mutant of RecoveryOf: the attempt is not counted. *)
RecoveryUncounted(a) ==
  [a EXCEPT !.status = "queued", !.session = 0, !.signaled = @ \ {a.session}]

(* recoverAutomation: the task object of the handler is saved, and the step  *)
(* of the automation starts again.                                           *)
RecoveryOf(a) == [a EXCEPT !.recoveries = @ + 1, !.status = "queued",
                           !.session = 0, !.signaled = @ \ {a.session}]

Recover(h, n, s, as, object) ==
  LET t == WithoutTrigger(object, as[n].session)
      hs == [NewHandler("recovery", n, as[n]) EXCEPT !.task = t, !.event = s]
  IN CreateSession(h, hs, t, None, [as EXCEPT ![n] = RecoveryOf(@)])

(* notifyKanbanAgent skips a session in error.  The prompt that any other is  *)
(* sent is awaited, and is a turn of its own if it arrives.                   *)
Reachable(ss, s) == ss[s].state # "broken"

NotifyAndRecover(h, n, s, as, ss, object) ==
  IF Reachable(ss, s)
  THEN /\ Becomes(h, [NewHandler("recovery", n, as[n]) EXCEPT
                        !.pc = "notify", !.task = object, !.event = s])
       /\ automations' = as
       /\ sessions' \in {ss, [ss EXCEPT ![s].state = "live"]}
       /\ UNCHANGED <<task, job>>
  ELSE Recover(h, n, s, as, object) /\ sessions' = ss

Signaled(as, n, s) == [as EXCEPT ![n].signaled = @ \union {s}]

(* The automation is over: the task object is saved; an artifact is collected *)
(* for a success, a timer is set for a failure.                               *)
Complete(h, n, s, as, object) ==
  /\ automations' = [Signaled(as, n, s) EXCEPT ![n].status = "completed"]
  /\ task' = object
  /\ Becomes(h, [NewHandler("step", n, as[n]) EXCEPT !.pc = "artifact"])
  /\ UNCHANGED job

Fail(h, n, s, as, object) ==
  /\ automations' = [Signaled(as, n, s) EXCEPT ![n].status = "failed", ![n].timer = TRUE]
  /\ task' = object
  /\ Ends(h)
  /\ UNCHANGED job

-----------------------------------------------------------------------------
(* isCompletionSatisfied: in a Ralph loop the agent may have ended its turn   *)
(* without the summary or report that is required.                            *)
Satisfied(a, outcome) ==
  IF outcome # "completed" THEN {FALSE}
  ELSE IF Supervised(a) /\ Mode = "ralph_loop" THEN BOOLEAN ELSE {TRUE}

(* shouldRecover: a completion recovers when it is unsatisfying, which it only *)
(* is in a Ralph loop.  The orchestrator hears of AGENT_COMPLETED,            *)
(* REPORT_SUBMITTED, AGENT_FAILED and AGENT_TIMEOUT, and skips the second,    *)
(* whose data has no sessionId (agent-tools.ts).                              *)
ShouldRecover(a, satisfied) ==
  /\ Supervised(a) /\ ~satisfied
  /\ task.column = a.column
  /\ a.recoveries < MaxRecoveryAttempts

(* An automation that does not know its session yet takes the card's. *)
Adopted(a) ==
  IF a.session = 0 /\ task.trigger # 0
  THEN [a EXCEPT !.session = task.trigger, !.status = "running"] ELSE a

(* Mutant of Related: any session of the automation's column will do. *)
RelatedByColumn(a, s) == a.session # 0 /\ sessions[s].column = a.column

Related(a, s) == a.session = s

(* The event is of the card's automation, which is still queued or running. *)
Concerned(s, as) ==
  /\ active # 0
  /\ as[active].status \in {"queued", "running"}
  /\ Related(Adopted(as[active]), s)

(* handleAgentCompletion for the event of session s, up to what it waits for *)
(* first, when the automations are as and the sessions ss.                   *)
HandleAgentCompletion(h, s, outcome, as, ss) ==
  LET n == active
      a == Adopted(as[n])
      adopted == [as EXCEPT ![n] = a]
      fallback == /\ outcome # "completed" /\ FallbackSteps > 0 /\ HasNext(a)
                  /\ a.step <= MaxFallbackAttempts
  IN
  /\ \/ /\ ~Concerned(s, as)
        /\ automations' = IF n # 0 /\ as[n].status = "queued" THEN adopted ELSE as
        /\ sessions' = ss
        /\ UNCHANGED <<task, job, handler>>
     \/ /\ Concerned(s, as) /\ Free(h)
        /\ \E satisfied \in Satisfied(a, outcome) :
             LET recover == ShouldRecover(a, satisfied)
                 object == Marked(task, s, IF satisfied THEN "done" ELSE "over")
             IN
             \/ /\ satisfied /\ HasNext(a)
                /\ NextStep(h, "step", n, s, adopted, object, FALSE) /\ sessions' = ss
             \/ /\ satisfied /\ ~HasNext(a)
                /\ Complete(h, n, s, adopted, object) /\ sessions' = ss
             \/ /\ fallback
                /\ NextStep(h, "fallback", n, s, adopted, object, recover) /\ sessions' = ss
             \/ /\ ~satisfied /\ ~fallback /\ recover
                /\ NotifyAndRecover(h, n, s, adopted, ss, object)
             \/ /\ ~satisfied /\ ~fallback /\ ~recover
                /\ Fail(h, n, s, adopted, object) /\ sessions' = ss
  /\ UNCHANGED <<active, past, moves, looks>>

-----------------------------------------------------------------------------
(* The turn of a session ends, in time or after the watchdog gave it up; the *)
(* agent completes its task by a tool before its turn is over (updateTask    *)
(* emits AGENT_COMPLETED as well); the session goes silent, or its runtime   *)
(* breaks without an event.                                                  *)
InState(s, state) == [sessions EXCEPT ![s].state = state]

EndTurn(h, s, outcome) ==
  /\ sessions[s].state \in {"live", "timedout"}
  /\ LET late == sessions[s].state = "timedout" IN
     HandleAgentCompletion(h, s, outcome, automations,
       [sessions EXCEPT ![s].state = IF late THEN "late" ELSE outcome,
                        ![s].reported = @ \/ outcome = "completed"])
  /\ UNCHANGED faults

Report(h, s) ==
  /\ sessions[s].state = "live" /\ faults < MaxFaults
  /\ faults' = faults + 1
  /\ HandleAgentCompletion(h, s, "completed", automations,
                           [sessions EXCEPT ![s].reported = TRUE])

Stall(s) ==
  /\ sessions[s].state = "live"
  /\ \E state \in {"silent", "broken"} : sessions' = InState(s, state)
  /\ UNCHANGED <<task, job, automations, active, past, handler, moves, looks, faults>>

(* scanForInactiveSessions: a running, supervised session in error or without *)
(* activity is signaled once, and its failure or time-out emitted.  The       *)
(* prompt it sends without waiting may make a timed-out session answer late.  *)
Inactive(a) ==
  /\ a.status = "running" /\ a.session # 0 /\ Supervised(a) /\ a.session \notin a.signaled
  /\ sessions[a.session].state # "live"

Scan(h) ==
  /\ active # 0 /\ Inactive(automations[active])
  /\ LET s == automations[active].session
         signaled == Signaled(automations, active, s)
     IN IF sessions[s].state = "broken"
        THEN HandleAgentCompletion(h, s, "failed", signaled, sessions)
        ELSE HandleAgentCompletion(h, s, "timedout", signaled, InState(s, "timedout"))
  /\ UNCHANGED faults

-----------------------------------------------------------------------------
(* startKanbanTaskSession: the session exists and the row that was read is   *)
(* saved with it, or the start fails and the row may be saved all the same.  *)
(* What runs in other columns counts as completed.                           *)
StartSucceeds(h) ==
  /\ At(h, "start") /\ Len(sessions) < MaxSessions
  /\ LET hs == handler[h]
         s == Len(sessions) + 1
         k == hs.read.column
     IN /\ sessions' = Append(sessions,
             [automation |-> hs.job.automation, column |-> k, step |-> hs.job.step,
              state |-> "live", reported |-> FALSE])
        /\ task' = [hs.read EXCEPT !.trigger = s, !.lanes = Append(
                      [i \in DOMAIN @ |-> IF @[i].status = "running" /\ @[i].column # k
                                         THEN [@[i] EXCEPT !.status = "done"] ELSE @[i]],
                      [session |-> s, column |-> k, status |-> "running"])]
        /\ Becomes(h, [hs EXCEPT !.pc = "returned", !.result = s, !.read = None])
  /\ UNCHANGED <<job, automations, active, past, moves, looks, faults>>

StartFails(h) ==
  /\ At(h, "start") /\ faults < MaxFaults /\ faults' = faults + 1
  /\ task' \in {task, handler[h].read}
  /\ job' = None
  /\ Becomes(h, [handler[h] EXCEPT !.pc = "returned", !.read = None])
  /\ UNCHANGED <<automations, active, sessions, past, moves, looks>>

(* A drain of the queue starts the card's job, or drops it as stale. *)
Promote(h) ==
  /\ job # None /\ Free(h)
  /\ job' = None
  /\ IF job.column = task.column /\ task.trigger = 0
     THEN Becomes(h, [NewHandler("job", job.automation, job) EXCEPT
                        !.pc = "start", !.read = task])
     ELSE UNCHANGED handler
  /\ UNCHANGED <<task, automations, active, sessions, past, moves, looks, faults>>

-----------------------------------------------------------------------------

RunningWith(a, s) == [a EXCEPT !.session = s, !.status = "running"]

(* createSession answered: a session makes the automation run.  Without one   *)
(* (refused, failed, or queued) a transition leaves it queued; a step or a    *)
(* recovery gives it up, after a fallback has tried to recover.               *)
Return(h) ==
  /\ At(h, "returned")
  /\ LET hs == handler[h]
         n == hs.job.automation
         started == [automations EXCEPT ![n] = RunningWith(@, hs.result)]
         as == IF hs.result = 0 THEN automations ELSE started
         failed == [automations EXCEPT ![n].status = "failed"]
     IN
     \/ /\ hs.kind = "job"
        /\ Ends(h)
        /\ UNCHANGED <<task, job, automations, active, sessions>>
     \/ /\ hs.kind = "transition" /\ hs.echo
        /\ Transition(h, hs.job.column, FALSE, task, job, as)
        /\ UNCHANGED sessions
     \/ /\ hs.kind = "transition" /\ ~hs.echo
        /\ Ends(h) /\ automations' = as
        /\ UNCHANGED <<task, job, active, sessions>>
     \/ /\ hs.kind \in {"step", "fallback", "recovery"} /\ hs.result # 0
        /\ automations' = IF hs.kind = "recovery" THEN as ELSE Signaled(as, n, hs.event)
        /\ Ends(h)
        /\ UNCHANGED <<task, job, active, sessions>>
     \/ /\ hs.kind = "fallback" /\ hs.result = 0 /\ hs.recover
        /\ NotifyAndRecover(h, n, hs.event, failed, sessions, hs.task)
        /\ UNCHANGED active
     \/ /\ hs.kind \in {"step", "recovery"} \/ (hs.kind = "fallback" /\ ~hs.recover)
        /\ hs.result = 0
        /\ Fail(h, n, hs.event, failed, hs.task)
        /\ UNCHANGED <<active, sessions>>
  /\ UNCHANGED <<past, moves, looks, faults>>

(* The recovery prompt was sent, or given up; nothing is looked at again. *)
FinishNotify(h) ==
  /\ At(h, "notify")
  /\ LET hs == handler[h] IN
     Recover(h, hs.job.automation, hs.event, automations, hs.task)
  /\ UNCHANGED <<active, sessions, past, moves, looks, faults>>

(* The artifact was collected; the card advances, unless it has left the     *)
(* column (autoAdvanceCard), and the cleanup of the automation is scheduled. *)
FinishArtifact(h) ==
  /\ At(h, "artifact")
  /\ LET n == handler[h].job.automation
         k == automations[n].column
         as == [automations EXCEPT ![n].timer = TRUE]
         t == Arrived(task, k + 1)
     IN IF k \in AutoAdvance /\ task.column = k /\ k < LastColumn
        THEN Transition(h, k + 1, FALSE, t, None, as)
        ELSE /\ Ends(h) /\ automations' = as
             /\ UNCHANGED <<task, job, active>>
  /\ UNCHANGED <<sessions, past, moves, looks, faults>>

(* Mutant of Cleanup: whatever automation the card has is deleted. *)
CleanupOfCard(n) ==
  /\ automations[n].timer
  /\ automations' = [automations EXCEPT ![n].timer = FALSE]
  /\ active' = 0
  /\ UNCHANGED <<task, job, sessions, past, handler, moves, looks, faults>>

(* The timer of a finished automation deletes it, if it is still the card's. *)
Cleanup(n) ==
  /\ automations[n].timer
  /\ automations' = [automations EXCEPT ![n].timer = FALSE]
  /\ active' = IF active = n THEN 0 ELSE active
  /\ UNCHANGED <<task, job, sessions, past, handler, moves, looks, faults>>

-----------------------------------------------------------------------------
(* The server stops and starts: what is in memory is gone, and its sessions.  *)
(* What the automations there were had come to is only kept to be compared.  *)
Restart ==
  /\ moves < MaxMoves /\ moves' = moves + 1
  /\ job' = None /\ active' = 0
  /\ automations' = [n \in DOMAIN automations |->
       [automations[n] EXCEPT !.status = "failed", !.session = 0,
                              !.signaled = {}, !.timer = FALSE]]
  /\ handler' = [h \in Handler |-> None]
  /\ sessions' = [s \in DOMAIN sessions |->
       IF sessions[s].state = "completed" THEN sessions[s]
       ELSE [sessions[s] EXCEPT !.state = "lost"]]
  /\ past' = Len(sessions) /\ looks' = 0
  /\ UNCHANGED <<task, faults>>

(* isSessionActivelyRunning denies only sessions in error, and sessions of an *)
(* earlier server once their lease has ended.  The card shows its trigger and *)
(* the sessions that its lane says are running.                               *)
Shown(t) ==
  {s \in DOMAIN sessions :
     \/ s = t.trigger
     \/ \E i \in DOMAIN t.lanes :
          t.lanes[i] = [session |-> s, column |-> t.column, status |-> "running"]}

Doubtful(s) == s <= past \/ sessions[s].state \in {"broken", "failed"}

(* Mutant of Sanitized: the trigger stays. *)
SanitizedLanes(t, dead, status) ==
  [t EXCEPT !.lanes = [i \in DOMAIN @ |->
     IF @[i].column = t.column /\ @[i].status = "running" /\ @[i].session \in dead
     THEN [@[i] EXCEPT !.status = status] ELSE @[i]]]

(* sanitizeStaleCurrentLaneAutomation *)
Sanitized(t, dead, status) ==
  [t EXCEPT
     !.trigger = IF @ \in dead THEN 0 ELSE @,
     !.lanes = [i \in DOMAIN @ |->
       IF @[i].column = t.column /\ @[i].status = "running" /\ @[i].session \in dead
       THEN [@[i] EXCEPT !.status = status] ELSE @[i]]]


(* resolveCurrentLaneAutomationState: the last session of the lane that is    *)
(* done or runs, and the step it was; one of a fallback is taken for any.     *)
Current(t) == {i \in DOMAIN t.lanes : t.lanes[i].column = t.column /\ t.lanes[i].status # "over"}

StepsTaken(t) ==
  IF Current(t) = {} THEN {0}
  ELSE LET last == CHOOSE i \in Current(t) : \A j \in Current(t) : j <= i
           step == sessions[t.lanes[last].session].step
       IN IF step <= LaneSteps[t.column] THEN {step} ELSE 0..LaneSteps[t.column]

(* The queue still counts the card's session as running. *)
HoldsSlot(s) ==
  s > past /\ sessions[s].state \in {"live", "silent", "broken"} /\ ~sessions[s].reported

(* enqueueKanbanTaskSession for a step of the lane, whatever trigger the row t *)
(* has when it starts; no automation knows of it.                             *)
StartStep(h, k, step, t) ==
  LET hs == NewHandler("job", 0, [column |-> k, step |-> step])
      waits == job # None /\ job.column = t.column /\ t.trigger = 0
  IN
  \/ /\ waits \/ (t.trigger # 0 /\ HoldsSlot(t.trigger))
     /\ Ends(h) /\ UNCHANGED job
  \/ /\ ~waits /\ (t.trigger = 0 \/ ~HoldsSlot(t.trigger))
     /\ \/ ~SlotsFree /\ Ends(h) /\ job' = hs.job
        \/ /\ job' = None
           /\ IF t.column = k THEN Becomes(h, [hs EXCEPT !.pc = "start", !.read = t])
              ELSE Ends(h)

(* reviveMissingEntryAutomations for the card, whose row was read as object. *)
ReviveCard(h, object) ==
  \E dead \in SUBSET {s \in Shown(object) : Doubtful(s)},
     status \in IF Summaries THEN {"over", "done"} ELSE {"over"} :
    LET row == Sanitized(object, dead, status)
        t == IF row = object THEN task ELSE row
        k == row.column
        stays == \/ row.trigger # 0 \/ k \notin Automated
                 \/ \E i \in Current(row) : row.lanes[i].status = "running"
    IN
    \/ /\ stays /\ Ends(h) /\ task' = t
       /\ UNCHANGED <<job, automations, active>>
    \/ /\ ~stays
       /\ \E step \in StepsTaken(row) :
            IF step \in 1..(LaneSteps[k] - 1)
            THEN /\ StartStep(h, k, step + 1, t) /\ task' = t
                 /\ UNCHANGED <<automations, active>>
            ELSE Transition(h, k, FALSE, t, job, automations)

(* Someone looks at the board.  All its cards are read, and revived one after *)
(* the other; each start is waited for.                                       *)
Look(h) ==
  /\ LeftAlone /\ (Undisturbed => active = 0 /\ task.trigger <= past) /\ Free(h)
  /\ looks < MaxLooks
  /\ IF Undisturbed
     THEN /\ ReviveCard(h, task)
          /\ looks' = IF UNCHANGED <<task, job, handler>> THEN looks ELSE looks + 1
     ELSE /\ Becomes(h, [NewHandler("job", 0, NewAutomation(1)) EXCEPT
                           !.pc = "revive", !.read = task])
          /\ looks' = looks + 1
          /\ UNCHANGED <<task, job, automations, active>>
  /\ UNCHANGED <<sessions, past, moves, faults>>

Revive(h) ==
  /\ At(h, "revive")
  /\ ReviveCard(h, handler[h].read)
  /\ UNCHANGED <<sessions, past, moves, looks, faults>>

Next ==
  \/ \E h \in Handler : Return(h)
  \/ /\ Settled
     /\ \/ \E h \in Handler :
             \/ \E k \in Column : Move(h, k)
             \/ \E s \in DOMAIN sessions :
                  Report(h, s) \/ \E outcome \in {"completed", "failed"} : EndTurn(h, s, outcome)
             \/ Scan(h) \/ Promote(h)
             \/ StartSucceeds(h) \/ StartFails(h)
             \/ FinishNotify(h) \/ FinishArtifact(h)
             \/ Look(h) \/ Revive(h)
        \/ Restart
        \/ \E s \in DOMAIN sessions : Stall(s)
        \/ \E n \in DOMAIN automations : Cleanup(n)

Spec == Init /\ [][Next]_vars

(* Creating a session, sending a prompt and collecting an artifact end, by    *)
(* their time-outs if not before; the watchdog scans every 30 seconds; a job  *)
(* in the queue gets its turn when a slot is freed; the board is looked at    *)
(* now and then, and leases end.  Nothing else is asked of users, and nothing *)
(* of agents, whose turns may last for ever or go silent.                     *)
Fairness ==
  /\ \A h \in Handler :
       /\ WF_vars(Return(h))
       /\ WF_vars(Settled /\ (StartSucceeds(h) \/ StartFails(h)))
       /\ WF_vars(Settled /\ FinishNotify(h))
       /\ WF_vars(Settled /\ FinishArtifact(h))
  /\ WF_vars(Settled /\ \E h \in Handler : Scan(h))
  /\ WF_vars(Settled /\ \E h \in Handler : Promote(h))
  /\ WF_vars(Settled /\ \E h \in Handler : Look(h))

FairSpec == Spec /\ Fairness

-----------------------------------------------------------------------------
(* The session a card shows as its own works in the column the card is in:   *)
(* moves, advances and replacements clear the trigger (finalizeActiveTask-   *)
(* Session, startNextAutomationStep, recoverAutomation, autoAdvanceCard), and *)
(* the rows that starts, recoveries and failures save long after they were   *)
(* read carry the trigger together with its column.                          *)
TriggerOfColumn == task.trigger # 0 => sessions[task.trigger].column = task.column

(* Supervision is "bounded recovery" (workflow-orchestrator.ts:6): a step of *)
(* an automation is tried once, and again for each recovery attempt.  The     *)
(* attempts are looked at before the recovery prompt is awaited, so the      *)
(* handlers that wait together may all be let through by the last of them.   *)
Retries(a) ==
  IF Supervised(a) /\ MaxRecoveryAttempts > 0 THEN MaxRecoveryAttempts + MaxHandlers - 1 ELSE 0

RecoveryBounded ==
  \A n \in DOMAIN automations : \A i \in 1..Steps(automations[n].column) :
    Cardinality({s \in DOMAIN sessions :
                   sessions[s].automation = n /\ sessions[s].step = i})
      <= 1 + Retries(automations[n])

(* The steps of an automation run one after the other: a session of a later  *)
(* step is started only when one of the step before, of this automation,     *)
(* said that it completed, or failed and a fallback follows (startNext-      *)
(* AutomationStep), whatever events come late or twice, or from sessions of   *)
(* earlier visits to the column.  Where sessions are supervised, a recovery   *)
(* prompt that is awaited for long may mix up the steps.                      *)
StepsInOrder ==
  [][\A s \in DOMAIN sessions' \ DOMAIN sessions :
       LET n == sessions'[s].automation IN
       n # 0 /\ sessions'[s].step > 1 /\ ~Supervised(automations[n]) =>
         \E p \in DOMAIN sessions :
           /\ sessions[p].automation = n
           /\ sessions[p].step = sessions'[s].step - 1
           /\ \/ sessions[p].reported
              \/ FallbackSteps > 0 /\ sessions[p].state \in {"failed", "late"}]_vars


(* Two sessions of one automation never work at the same time: a session     *)
(* that is live, and did not say that it completed, is not replaced          *)
(* (startNextAutomationStep).  A recovery prompt may make a supervised       *)
(* session live again that is then replaced all the same.                    *)
OneWorker ==
  \A n \in DOMAIN automations : ~Supervised(automations[n]) =>
    Cardinality({s \in DOMAIN sessions :
                   /\ sessions[s].automation = n
                   /\ sessions[s].state = "live" /\ ~sessions[s].reported}) <= 1

(* A card whose session completed in time goes on: to the next step, or with *)
(* autoAdvanceOnSuccess to the next lane, where a session is started         *)
(* (docs/issues/2026-03-14-kanban-story-lane-automation-stalls-after-first-  *)
(* session.md:49).                                                           *)
Finished ==
  /\ task.column \in AutoAdvance \ {LastColumn}
  /\ task.trigger # 0 /\ sessions[task.trigger].state = "completed"
  /\ sessions[task.trigger].automation # 0

Awaited ==
  /\ task.trigger = 0
  /\ active # 0 /\ automations[active].column = task.column
  /\ automations[active].status = "queued"

CompletedLaneAdvances ==
  Finished \/ Awaited ~> ~Finished /\ ~Awaited

(* The watchdog finds a supervised session that hangs or broke while it is   *)
(* the card's (scanForInactiveSessions): it does not stay so for ever.       *)
Hangs ==
  /\ task.column \in Dev /\ task.trigger # 0
  /\ sessions[task.trigger].state \in {"silent", "broken"}
  /\ active # 0 /\ automations[active].status \in {"queued", "running"}


(* A card whose automation and session were lost when the server restarted   *)
(* does not stay so: looking at the board starts the lane again ("revives    *)
(* ownerless hydrated sessions", restart-recovery.test.ts:71).  Only a lane  *)
(* that may not run again stays.                                             *)
Stranded ==
  /\ task.column \in Automated /\ ~Exceeded(task, task.column)
  /\ task.trigger <= past /\ active = 0 /\ job = None
  /\ \A h \in Handler : handler[h] = None

LostLaneRevived == Stranded ~> ~Stranded

=============================================================================
