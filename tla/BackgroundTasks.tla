--------------------------- MODULE BackgroundTasks ---------------------------
(***************************************************************************)
(* The background task worker (background-worker/index.ts) with the rows   *)
(* it works on, the workflow executor that creates chains of them, the     *)
(* routes that cancel, delete, edit and retry them, and the notification   *)
(* handler of the session store that completes them.                       *)
(*                                                                         *)
(* The worker calls dispatchPending every 5 s, after a POST and from a     *)
(* cron route, and nothing keeps two calls apart: Dispatchers is the set   *)
(* of calls that may be under way at once.  A call waits only for          *)
(* session/new; with SQLite or the in-memory store everything between two  *)
(* such waits is one stretch, and so is a whole checkCompletions.          *)
(***************************************************************************)
EXTENDS Naturals, FiniteSets, Sequences, FiniteSetsExt, Functions

CONSTANTS
  NTasks,        \* number of tasks, numbered in the order of creation
  Manual,        \* the tasks made by POST; the others are the steps of one workflow
  ParallelGroup, \* parallel_group of each task, or NoGroup
  NoGroup,
  References,    \* the steps whose prompt holds ${steps.X.output} of each earlier step
  Priority,      \* the priority of each task: 0 is HIGH, 1 is NORMAL, 2 is LOW
  Streams,       \* the tasks whose provider streams its turn (OpenCode and Claude SDK)
  Dispatchers,   \* the overlapping calls of dispatchPending
  MaxConcurrent, \* MAX_CONCURRENT_TASKS
  NoSession,     \* resultSessionId is not set
  Never,         \* startedAt is not set
  MaxStarts,     \* bound on the sessions made for one task
  MaxRetries, MaxEdits, MaxFaults  \* bounds on retries, on other edits by users, on failures and crashes

Tasks == 1..NTasks
Sessions == Tasks \X (1..MaxStarts)

\* The age of a startedAt against the thresholds of checkCompletions: the 2 minutes of an idle
\* session and the 5 minutes of an orphan are one threshold, the 2 hours of a stale task another.
Fresh == 0
OverMinutes == 1
OverHours == 2
Ages == Fresh..OverHours

ASSUME ConstantsAssumption ==
  /\ NTasks \in Nat
  /\ Manual \subseteq Tasks
  /\ References \subseteq Tasks
  /\ Priority \in [Tasks -> 0..2]
  /\ Streams \subseteq Tasks
  /\ IsFiniteSet(Dispatchers)
  /\ MaxConcurrent \in Nat \ {0}
  /\ {MaxStarts, MaxRetries, MaxEdits, MaxFaults} \subseteq Nat
  /\ NoSession \notin Sessions
  /\ Never \notin Ages

VARIABLES
  row,           \* the table: status ("absent" is no row), resultSessionId, startedAt, output
  agent,         \* the sessions made for tasks: what the session store and the provider know
  sessionToTask, \* the worker's in-memory map, as its set of sessions
  dispatcher,    \* the rest of each call's batch; its head is being started
  editor,        \* the row a PATCH has read while it waits for its body
  retries, edits, faults,
  again          \* history: the tasks that were put back among those that wait

vars == <<row, agent, sessionToTask, dispatcher, editor, retries, edits, faults, again>>

Status == {"absent", "PENDING", "RUNNING", "COMPLETED", "FAILED", "CANCELLED"}
AgentState ==
  {"none",      \* not made yet
   "prompted",  \* made, its prompt is on the way
   "working",   \* in its turn
   "ended",     \* idle after its turn
   "gone"}      \* not in the session store any more

NoRow == [status |-> "absent", session |-> NoSession, startedAt |-> Never, output |-> FALSE]
NewRow == [NoRow EXCEPT !.status = "PENDING"]
Idle == <<>>

Init ==
  /\ row = [t \in Tasks |-> NoRow]
  /\ agent = [s \in Sessions |-> "none"]
  /\ sessionToTask = {}
  /\ dispatcher = [d \in Dispatchers |-> Idle]
  /\ editor = [t \in Tasks |-> NoRow]
  /\ retries = 0
  /\ edits = 0
  /\ faults = 0
  /\ again = {}

(***************************************************************************)
(* The workflow executor and the POST route.                               *)
(***************************************************************************)

Steps == Tasks \ Manual

\* Steps next to each other with the same parallel_group form a group.
SameGroup(t, u) ==
  /\ ParallelGroup[t] # NoGroup
  /\ \A v \in Steps : (t <= v /\ v <= u) => ParallelGroup[v] = ParallelGroup[t]

\* Every step depends on all the steps of the groups before its own.
DependsOn(u) ==
  IF u \in Manual THEN {} ELSE {t \in Steps : t < u /\ ~SameGroup(t, u)}

\* WorkflowExecutor.trigger saves the tasks of all steps.
Trigger ==
  /\ \A t \in Tasks : row[t] = NoRow /\ editor[t] = NoRow
  /\ \A s \in Sessions : agent[s] = "none"
  /\ Steps # {}
  /\ row' = [t \in Tasks |-> IF t \in Steps THEN NewRow ELSE row[t]]
  /\ UNCHANGED <<agent, sessionToTask, dispatcher, editor, retries, edits, faults, again>>

\* A POST saves a task once; the dispatch it kicks off is one of the calls of Dispatch.
Post(t) ==
  /\ t \in Manual
  /\ row[t] = NoRow
  /\ editor[t] = NoRow
  /\ \A k \in 1..MaxStarts : agent[<<t, k>>] = "none"
  /\ row' = [row EXCEPT ![t] = NewRow]
  /\ UNCHANGED <<agent, sessionToTask, dispatcher, editor, retries, edits, faults, again>>

(***************************************************************************)
(* The store.                                                              *)
(***************************************************************************)

\* An update by id: without a row it does nothing.
Updated(rows, t, r) == IF rows[t].status = "absent" THEN rows ELSE [rows EXCEPT ![t] = r]

IsRunning(r) == r.status = "RUNNING" /\ r.session # NoSession

\* Slip: an orphan is looked for by a startedAt that is not set.
OrphanedWithoutStart(r) == r.status = "RUNNING" /\ r.session = NoSession /\ r.startedAt = Never

IsOrphaned(r) ==
  r.status = "RUNNING" /\ r.session = NoSession /\ r.startedAt \in {OverMinutes, OverHours}

\* Slip: a dependency that was deleted counts as completed (the filter of the PostgreSQL store).
ReadyWithoutDeleted(rows) ==
  {t \in Tasks : /\ rows[t].status = "PENDING"
                 /\ \A u \in DependsOn(t) : rows[u].status \in {"absent", "COMPLETED"}}

ReadyToRun(rows) ==
  {t \in Tasks : /\ rows[t].status = "PENDING"
                 /\ \A u \in DependsOn(t) : rows[u].status = "COMPLETED"}

(***************************************************************************)
(* Dispatching.                                                            *)
(***************************************************************************)

\* The placeholders of a prompt can be replaced.
Resolvable(rows, t) == t \in References => \A u \in DependsOn(t) : rows[u].output

\* dispatchTask of the next task of a batch, up to the wait for session/new.  A prompt that
\* cannot be resolved throws out of the loop: the rest of the batch is given up with it.
NextOfBatch(rows, batch) ==
  IF batch # Idle /\ Resolvable(rows, Head(batch).task) THEN batch ELSE Idle

\* Its optimistic mark.
MarkRunning(rows, batch) ==
  IF NextOfBatch(rows, batch) = Idle THEN rows
  ELSE LET t == Head(batch).task
       IN  Updated(rows, t, [rows[t] EXCEPT !.status = "RUNNING", !.startedAt = Fresh])

\* What listReadyToRun sorts by: the priority, then the creation.
Before(t, u) == Priority[t] < Priority[u] \/ (Priority[t] = Priority[u] /\ t < u)

InOrder(S) ==
  LET n == Cardinality(S)
  IN  CHOOSE q \in [1..n -> S] : \A i, j \in 1..n : i < j => Before(q[i], q[j])

\* Slip: the list is not cut to the free slots.
WholeList(rows, slots) ==
  LET ready == InOrder(ReadyToRun(rows))
  IN  [i \in 1..Cardinality(ReadyToRun(rows)) |->
         [task |-> ready[i], startedAt |-> rows[ready[i]].startedAt]]

\* The task objects a call takes from the list.
BatchOf(rows, slots) ==
  LET ready == InOrder(ReadyToRun(rows))
      listed == Cardinality(ReadyToRun(rows))
      n == IF slots < listed THEN slots ELSE listed
  IN  [i \in 1..n |-> [task |-> ready[i], startedAt |-> rows[ready[i]].startedAt]]

\* Slip: one task more may run.
FreeSlotsAtLimit(rows) ==
  LET running == Cardinality({t \in Tasks : IsRunning(rows[t])})
  IN  IF running > MaxConcurrent THEN 0 ELSE MaxConcurrent

\* Slip: a task that has a session counts after it finished.
FreeSlotsOfSessions(rows) ==
  LET begun == Cardinality({t \in Tasks : rows[t].session # NoSession})
  IN  IF begun >= MaxConcurrent THEN 0 ELSE MaxConcurrent - begun

\* How many tasks a call may start.
FreeSlots(rows) ==
  LET running == Cardinality({t \in Tasks : IsRunning(rows[t])})
  IN  IF running >= MaxConcurrent THEN 0 ELSE MaxConcurrent - running

Dispatch(d) ==
  /\ dispatcher[d] = Idle
  /\ LET batch == BatchOf(row, FreeSlots(row))
     IN  /\ batch # Idle
         /\ row' = MarkRunning(row, batch)
         /\ dispatcher' = [dispatcher EXCEPT ![d] = NextOfBatch(row, batch)]
  /\ UNCHANGED <<agent, sessionToTask, editor, retries, edits, faults, again>>

\* A session of t that was not made yet.
NextSession(t, s) ==
  /\ s \in {t} \X (1..MaxStarts)
  /\ agent[s] = "none"
  /\ \A k \in 1..(s[2] - 1) : agent[<<t, k>>] # "none"

\* What dispatchTask writes when it has its session; a startedAt that the task
\* had when it was listed is kept.
StartedRow(t, listed, s) ==
  [row[t] EXCEPT !.status = "RUNNING", !.session = s,
                 !.startedAt = IF listed = Never THEN Fresh ELSE listed]

\* session/new answered: the prompt is sent, not awaited, and the loop goes on.
SessionCreated(d) ==
  /\ dispatcher[d] # Idle
  /\ LET t == Head(dispatcher[d]).task
         rest == Tail(dispatcher[d])
     IN  \E s \in Sessions :
           /\ NextSession(t, s)
           /\ LET rows == Updated(row, t, StartedRow(t, Head(dispatcher[d]).startedAt, s))
              IN  /\ row' = MarkRunning(rows, rest)
                  /\ dispatcher' = [dispatcher EXCEPT ![d] = NextOfBatch(rows, rest)]
           /\ agent' = [agent EXCEPT ![s] = "prompted"]
           /\ sessionToTask' = sessionToTask \cup {s}
  /\ UNCHANGED <<editor, retries, edits, faults, again>>

\* session/new failed.
StartFailed(d) ==
  /\ dispatcher[d] # Idle
  /\ faults < MaxFaults
  /\ faults' = faults + 1
  /\ LET t == Head(dispatcher[d]).task
         rest == Tail(dispatcher[d])
         rows == Updated(row, t, [row[t] EXCEPT !.status = "FAILED"])
     IN  /\ row' = MarkRunning(rows, rest)
         /\ dispatcher' = [dispatcher EXCEPT ![d] = NextOfBatch(rows, rest)]
  /\ UNCHANGED <<agent, sessionToTask, editor, retries, edits, again>>

(***************************************************************************)
(* The sessions.                                                           *)
(***************************************************************************)

BeginTurn(s) ==
  /\ agent[s] = "prompted"
  /\ agent' = [agent EXCEPT ![s] = "working"]
  /\ UNCHANGED <<row, sessionToTask, dispatcher, editor, retries, edits, faults, again>>

\* The row findBySessionId finds.
TasksOf(s) == {t \in Tasks : row[t].status # "absent" /\ row[t].session = s}

\* A turn_complete completes the row of the session, whatever its status is.
CompleteTurn(s) ==
  /\ agent[s] = "working"
  /\ agent' = [agent EXCEPT ![s] = "ended"]
  /\ row' = [t \in Tasks |-> IF t \in TasksOf(s)
                             THEN [row[t] EXCEPT !.status = "COMPLETED", !.output = TRUE]
                             ELSE row[t]]
  /\ UNCHANGED <<sessionToTask, dispatcher, editor, retries, edits, faults, again>>

\* A turn that ends in an error has no such event.
BreakOff(s) ==
  /\ agent[s] = "working"
  /\ faults < MaxFaults
  /\ faults' = faults + 1
  /\ agent' = [agent EXCEPT ![s] = "ended"]
  /\ UNCHANGED <<row, sessionToTask, dispatcher, editor, retries, edits, again>>

\* A session is deleted or evicted.
RemoveSession(s) ==
  /\ agent[s] \in {"prompted", "working", "ended"}
  /\ faults < MaxFaults
  /\ faults' = faults + 1
  /\ agent' = [agent EXCEPT ![s] = "gone"]
  /\ UNCHANGED <<row, sessionToTask, dispatcher, editor, retries, edits, again>>

(***************************************************************************)
(* checkCompletions: four strategies, one after the other.                 *)
(***************************************************************************)

\* 1: a session of the map left the store.  If several did, the last one written counts.
Left(t) == {k \in 1..MaxStarts : <<t, k>> \in sessionToTask /\ agent[<<t, k>>] = "gone"}

ByMap(t, r) ==
  IF Left(t) = {} \/ r.status = "absent" THEN r
  ELSE [r EXCEPT !.status = "COMPLETED", !.session = <<t, Max(Left(t))>>]

\* The store says that a session is streaming only for the providers that stream.
IsSessionStreaming(s) == agent[s] = "working" /\ s[1] \in Streams

\* Slip: the two minutes are not waited for.
SessionIdle(r) == agent[r.session] = "gone" \/ ~IsSessionStreaming(r.session)

\* 2: the session left the store, or is idle more than two minutes after the start.
SessionOver(r) ==
  \/ agent[r.session] = "gone"
  \/ ~IsSessionStreaming(r.session) /\ r.startedAt # Fresh

ByRow(r) == IF IsRunning(r) /\ SessionOver(r) THEN [r EXCEPT !.status = "COMPLETED"] ELSE r

\* 3: the task never got a session.
ByOrphan(r) == IF IsOrphaned(r) THEN [r EXCEPT !.status = "FAILED"] ELSE r

\* 4: the task runs for more than two hours.
IsStale(r) == IsRunning(r) /\ r.startedAt = OverHours

ByStaleness(r) == IF IsStale(r) THEN [r EXCEPT !.status = "FAILED"] ELSE r

CheckCompletions ==
  LET found(t) == ByOrphan(ByRow(ByMap(t, row[t])))
  IN  /\ row' = [t \in Tasks |-> ByStaleness(found(t))]
      /\ sessionToTask' = {s \in sessionToTask :
                             /\ agent[s] # "gone"
                             /\ ~(IsStale(found(s[1])) /\ found(s[1]).session = s)}
      /\ UNCHANGED <<agent, dispatcher, editor, retries, edits, faults, again>>

(***************************************************************************)
(* The routes.                                                             *)
(***************************************************************************)

Cancel(t) ==
  /\ row[t].status = "RUNNING"
  /\ edits < MaxEdits
  /\ edits' = edits + 1
  /\ row' = [row EXCEPT ![t].status = "CANCELLED"]
  /\ UNCHANGED <<agent, sessionToTask, dispatcher, editor, retries, faults, again>>

\* DELETE of a task that does not run, or with force.
Delete(t) ==
  /\ row[t].status # "absent"
  /\ edits < MaxEdits
  /\ edits' = edits + 1
  /\ row' = [row EXCEPT ![t] = NoRow]
  /\ UNCHANGED <<agent, sessionToTask, dispatcher, editor, retries, faults, again>>

\* Neither the session nor the startedAt of the failed run is cleared, and attempts are not counted.
Retry(t) ==
  /\ row[t].status = "FAILED"
  /\ retries < MaxRetries
  /\ retries' = retries + 1
  /\ row' = [row EXCEPT ![t].status = "PENDING"]
  /\ again' = again \cup {t}
  /\ UNCHANGED <<agent, sessionToTask, dispatcher, editor, edits, faults>>

\* A PATCH reads the row and then waits for its body ...
BeginEdit(t) ==
  /\ row[t].status = "PENDING"
  /\ editor[t] = NoRow
  /\ edits < MaxEdits
  /\ edits' = edits + 1
  /\ editor' = [editor EXCEPT ![t] = row[t]]
  /\ UNCHANGED <<row, agent, sessionToTask, dispatcher, retries, faults, again>>

\* save(r): a row that is there keeps the columns r leaves unset.
Saved(t, r) ==
  IF row[t].status = "absent" THEN r
  ELSE [status |-> r.status,
        session |-> IF r.session = NoSession THEN row[t].session ELSE r.session,
        startedAt |-> IF r.startedAt = Never THEN row[t].startedAt ELSE r.startedAt,
        output |-> r.output \/ row[t].output]

\* ... and saves what it read, over what became of the task meanwhile.
FinishEdit(t) ==
  /\ editor[t] # NoRow
  /\ row' = [row EXCEPT ![t] = Saved(t, editor[t])]
  /\ editor' = [editor EXCEPT ![t] = NoRow]
  /\ again' = IF Saved(t, editor[t]) = NewRow THEN again ELSE again \cup {t}
  /\ UNCHANGED <<agent, sessionToTask, dispatcher, retries, edits, faults>>

(***************************************************************************)
(* Time and crashes.                                                       *)
(***************************************************************************)

Older(a) == IF a \in {Never, OverHours} THEN a ELSE a + 1

\* The startedAt of a row that is read again.
Counts(r) == r.status \in {"PENDING", "RUNNING", "FAILED"}

\* Time passes for every startedAt, those in task objects included.  A prompt that was sent
\* reaches its agent within two minutes.
Elapse ==
  /\ \A s \in Sessions : agent[s] # "prompted"
  /\ row' = [t \in Tasks |-> IF Counts(row[t]) THEN [row[t] EXCEPT !.startedAt = Older(@)] ELSE row[t]]
  /\ editor' = [t \in Tasks |-> [editor[t] EXCEPT !.startedAt = Older(@)]]
  /\ dispatcher' = [d \in Dispatchers |->
                      [i \in DOMAIN dispatcher[d] |->
                         [dispatcher[d][i] EXCEPT !.startedAt = Older(@)]]]
  /\ UNCHANGED <<agent, sessionToTask, retries, edits, faults, again>>

\* Everything in memory is lost, and with it the sessions' agents.
Crash ==
  /\ faults < MaxFaults
  /\ faults' = faults + 1
  /\ agent' = [s \in Sessions |-> IF agent[s] = "none" THEN "none" ELSE "gone"]
  /\ sessionToTask' = {}
  /\ dispatcher' = [d \in Dispatchers |-> Idle]
  /\ editor' = [t \in Tasks |-> NoRow]
  /\ UNCHANGED <<row, retries, edits, again>>

Next ==
  \/ Trigger
  \/ \E t \in Tasks : Post(t) \/ Cancel(t) \/ Delete(t) \/ Retry(t) \/ BeginEdit(t) \/ FinishEdit(t)
  \/ \E d \in Dispatchers : Dispatch(d) \/ SessionCreated(d) \/ StartFailed(d)
  \/ \E s \in Sessions : BeginTurn(s) \/ CompleteTurn(s) \/ BreakOff(s) \/ RemoveSession(s)
  \/ CheckCompletions
  \/ Elapse
  \/ Crash

Spec == Init /\ [][Next]_vars

\* The two timers fire, session/new answers, a sent prompt arrives, time passes.  Nothing is
\* asked of agents and users.
Fairness ==
  /\ WF_vars(\E d \in Dispatchers : Dispatch(d))
  /\ WF_vars((\E d \in Dispatchers : SessionCreated(d)) \/ (\E s \in Sessions : BeginTurn(s)))
  /\ WF_vars(CheckCompletions)
  /\ WF_vars(Elapse)

FairSpec == Spec /\ Fairness

(***************************************************************************)
(* Properties.                                                             *)
(***************************************************************************)

Rows == [status : Status, session : Sessions \cup {NoSession},
         startedAt : Ages \cup {Never}, output : BOOLEAN]

\* Every variable has its type; a batch holds no task twice and no more than there are slots.
TypeOK ==
  /\ row \in [Tasks -> Rows]
  /\ agent \in [Sessions -> AgentState]
  /\ sessionToTask \subseteq Sessions
  /\ \A d \in Dispatchers :
       /\ Len(dispatcher[d]) <= MaxConcurrent
       /\ IsInjective([i \in DOMAIN dispatcher[d] |-> dispatcher[d][i].task])
       /\ \A i \in DOMAIN dispatcher[d] : dispatcher[d][i].startedAt \in Ages \cup {Never}
  /\ editor \in [Tasks -> Rows]
  /\ retries \in 0..MaxRetries
  /\ edits \in 0..MaxEdits
  /\ faults \in 0..MaxFaults
  /\ again \subseteq Tasks

Started(t) == \E k \in 1..MaxStarts : agent[<<t, k>>] # "none"
Ended(t) == \E k \in 1..MaxStarts : agent[<<t, k>>] \in {"ended", "gone"}

\* The tasks whose session is seen to work and whose startedAt is that of their session: a
\* provider that does not stream looks idle, and a task that was put back keeps an old startedAt.
Watched == Streams \ again

\* No agent works on a step before an agent of every watched step it depends on has ended,
\* however dispatches overlap and whatever is cancelled, edited, deleted or retried meanwhile
\* (listReadyToRun).
StepsInSequence ==
  \A t \in Tasks : Started(t) => \A u \in DependsOn(t) \cap Watched : Ended(u)

\* What completes t finds the session its row names through its turn or no longer there.
CompletesEnded(t) ==
  (row'[t].status = "COMPLETED" /\ row[t].status # "COMPLETED")
    => row'[t].session # NoSession /\ agent'[row'[t].session] \in {"ended", "gone"}

\* Neither a turn_complete of another session nor a strategy of checkCompletions takes a watched
\* task that works for a finished one, not even one that overlapping calls of dispatchPending
\* start twice, or that a strategy decides on while a stale PATCH is on its way.
CompletedEnded == [][\A t \in Watched : CompletesEnded(t)]_vars

\* ... and no task at all: what the comment of the second strategy says ("Session exists but is
\* idle").  The code breaks it, see README.md.
EveryCompletionEnded == [][\A t \in Tasks : CompletesEnded(t)]_vars

\* Every call of dispatchPending that overlaps others brings at most its own MaxConcurrent tasks:
\* one call alone keeps the limit, whatever starts, fails, is retried, edited or recovered at the
\* same time (dispatchPending).
LimitRespected ==
  Cardinality({t \in Tasks : IsRunning(row[t])}) <= Cardinality(Dispatchers) * MaxConcurrent

\* "Only runs up to MAX_CONCURRENT_TASKS at a time" (dispatchPending): so it is of one call only,
\* see README.md.
AtMostLimit == Cardinality({t \in Tasks : IsRunning(row[t])}) <= MaxConcurrent

\* Nothing stays RUNNING for ever, after a crash between the mark and the session, a lost
\* session, a broken turn or an agent that never stops (checkCompletions).
TaskSettles == \A t \in Tasks : row[t].status = "RUNNING" ~> row[t].status # "RUNNING"

Stuck == \E t \in ReadyToRun(row) : ~Resolvable(row, t)

\* A task that is ready gets its turn, unless a task whose prompt cannot be resolved blocks
\* the batches (dispatchPending).
ReadyRuns == \A t \in Tasks : t \in ReadyToRun(row) ~> t \notin ReadyToRun(row) \/ Stuck

=============================================================================
