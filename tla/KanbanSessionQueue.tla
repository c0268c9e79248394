------------------------- MODULE KanbanSessionQueue -------------------------
(***************************************************************************)
(* The session queue of ONE Kanban board (src/core/kanban/                 *)
(* kanban-session-queue.ts) and the session start it runs                  *)
(* (startKanbanTaskSession): a board limit on running jobs, a FIFO of      *)
(* waiting ones, and drains that promote them when a session ends or a     *)
(* start fails.                                                            *)
(*                                                                         *)
(* A start takes seconds (a worktree, an HTTP call, a save), and           *)
(* everything else may happen meanwhile.  The reads of the task store      *)
(* between two starts are answered by SQLite or from memory without other  *)
(* work in between: one action is what a call of the queue does up to the  *)
(* next start it waits for.                                                *)
(***************************************************************************)
EXTENDS Integers, Sequences, FiniteSets

CONSTANTS
  Card,         \* the cards of the board
  Column,       \* the columns with automation
  Call,         \* the calls of enqueue; each makes at most one QueueEntry
  Drain,        \* the drains that can be under way at once
  Limit,        \* getBoardConcurrencyLimit
  MaxEdits,     \* bound on the edits of the tasks by users and tools
  None,
  Undisturbed   \* starts succeed, and a card is left alone while it starts

ASSUME CardAssumption == IsFiniteSet(Card)
ASSUME LimitAssumption == Limit \in Nat \ {0}
ASSUME EditAssumption == MaxEdits \in Nat
ASSUME UndisturbedAssumption == Undisturbed \in BOOLEAN
ASSUME ProcessAssumption == Call \intersect Drain = {}

VARIABLES
  task,      \* the task row of a card: on the board, its column, its trigger
  jobs,      \* jobsByCardId
  queue,     \* queuedByBoard of the board
  entry,     \* the QueueEntry of a call; sessionId is None until it started
  session,   \* the agent session that the start of an entry created
  pc,        \* where a call or a drain waits
  starting,  \* the entry it is starting
  snapshot,  \* the task that startKanbanTaskSession read
  held,      \* the array a drain took from queuedByBoard and goes on with
  running,   \* runningCount of a drain
  edits

taskVars  == <<task, edits>>
queueVars == <<jobs, queue, entry>>
drainVars == <<held, running>>
startVars == <<pc, starting, snapshot>>
vars == <<taskVars, queueVars, session, startVars, drainVars>>

Process == Call \union Drain
Task == [on : BOOLEAN, column : Column, trigger : Call \union {None}]
Entry == [card : Card, column : Column, status : {"queued", "running"},
          sessionId : Call \union {None}]

ASSUME NoneAssumption == None \notin Call \union Drain \union Task \union Entry

TypeOK ==
  /\ task \in [Card -> Task]
  /\ jobs \in [Card -> Call \union {None}]
  /\ queue \in Seq(Call)
  /\ entry \in [Call -> Entry \union {None}]
  /\ session \in [Call -> {"none", "live", "ended"}]
  /\ pc \in [Process -> {"idle", "begin", "starting", "saving", "loop"}]
  /\ starting \in [Process -> Call \union {None}]
  /\ snapshot \in [Process -> Task \union {None}]
  /\ held \in [Drain -> Seq(Call)]
  /\ running \in [Drain -> 0..Limit]
  /\ edits \in 0..MaxEdits

Init ==
  /\ task \in [Card -> {t \in Task : t.on /\ t.trigger = None}]
  /\ jobs = [c \in Card |-> None]
  /\ queue = <<>>
  /\ entry = [e \in Call |-> None]
  /\ session = [e \in Call |-> "none"]
  /\ pc = [p \in Process |-> "idle"]
  /\ starting = [p \in Process |-> None]
  /\ snapshot = [p \in Process |-> None]
  /\ held = [d \in Drain |-> <<>>]
  /\ running = [d \in Drain |-> 0]
  /\ edits = 0

-----------------------------------------------------------------------------
(* The task has left the board or the column of the job. *)
Moved(e) ==
  LET t == task[entry[e].card] IN ~t.on \/ t.column # entry[e].column

IsRunning(e) == e # None /\ entry[e].status = "running"
IsQueued(e)  == e # None /\ entry[e].status = "queued"
WithTrigger(e) == task[entry[e].card].trigger # None

(* reconcileBoardEntries: a running job is dropped when its card moved, a    *)
(* queued one also when its card has a session by now.                       *)
StaleJob(e) ==
  \/ IsRunning(e) /\ Moved(e)
  \/ /\ IsQueued(e) /\ \E n \in DOMAIN queue : queue[n] = e
     /\ Moved(e) \/ WithTrigger(e)

(* The entries of the array q that are in S. *)
Filter(q, S) ==
  LET kept[n \in 0..Len(q)] ==
        IF n = 0 THEN <<>>
        ELSE IF q[n] \in S THEN Append(kept[n - 1], q[n]) ELSE kept[n - 1]
  IN  kept[Len(q)]

ReconciledJobs == [c \in Card |-> IF StaleJob(jobs[c]) THEN None ELSE jobs[c]]

Known == {e \in Call : entry[e] # None}

ReconciledQueue ==
  Filter(queue, {e \in Known : jobs[entry[e].card] = e /\ IsQueued(e) /\ ~StaleJob(e)})

(* countRunning, of the given job map. *)
CountRunning(js) == Cardinality({c \in Card : IsRunning(js[c])})

(* removeQueuedEntry removes every entry of the card. *)
WithoutCard(q, c) == Filter(q, {e \in Known : entry[e].card # c})

-----------------------------------------------------------------------------
(* Whoever the event loop resumed finishes its stretch first.  A drain that  *)
(* is due is one that was called, or whose start has just returned.          *)
Settled == \A d \in Drain : pc[d] \notin {"begin", "loop"}

Starting(c) == \E p \in Process : starting[p] # None /\ entry[starting[p]].card = c
LeftAlone(c) == Undisturbed => ~Starting(c)

(* startEntry up to start(), which first reads the task. *)
BeginStart(p, e, c) ==
  /\ pc' = [pc EXCEPT ![p] = "starting"]
  /\ starting' = [starting EXCEPT ![p] = e]
  /\ snapshot' = [snapshot EXCEPT ![p] = task[c]]

NewEntry(e, c, k, status) ==
  entry' = [entry EXCEPT ![e] = [card |-> c, column |-> k, status |-> status,
                                 sessionId |-> None]]

(* A running job blocks a new one, unless its card has no trigger (any more); *)
(* a queued job always does.                                                  *)
Replaceable(c, js) ==
  js[c] = None \/ (IsRunning(js[c]) /\ task[c].on /\ task[c].trigger = None)

(* runningCount >= limit, once the replaced job is gone. *)
Occupied(c, js) == CountRunning([js EXCEPT ![c] = None]) >= Limit

(* enqueue, for a job of column k: it waits, or is started at once. *)
Enqueue(e, c, k) ==
  LET js == ReconciledJobs
      q  == ReconciledQueue
  IN
  /\ Settled /\ LeftAlone(c)
  /\ entry[e] = None /\ Replaceable(c, js)
  /\ jobs' = [js EXCEPT ![c] = e]
  /\ \/ /\ Occupied(c, js)
        /\ NewEntry(e, c, k, "queued")
        /\ queue' = Append(q, e)
        /\ UNCHANGED startVars
     \/ /\ ~Occupied(c, js)
        /\ NewEntry(e, c, k, "running")
        /\ queue' = WithoutCard(q, c)
        /\ BeginStart(e, e, c)
  /\ UNCHANGED <<taskVars, session, drainVars>>

(* getBoardSnapshot, and an enqueue that finds the card queued or running: *)
(* both only reconcile.                                                    *)
Reconcile ==
  /\ Settled
  /\ jobs' = ReconciledJobs
  /\ queue' = ReconciledQueue
  /\ UNCHANGED <<taskVars, entry, session, startVars, drainVars>>

(* removeCardJob, of a card that moves, is advanced or is retried. *)
RemoveCardJob(c) ==
  /\ Settled /\ LeftAlone(c)
  /\ jobs[c] # None
  /\ queue' = WithoutCard(queue, c)
  /\ jobs' = [jobs EXCEPT ![c] = None]
  /\ UNCHANGED <<taskVars, entry, session, startVars, drainVars>>

-----------------------------------------------------------------------------
(* Mutant of Refused: the column of the job is not compared. *)
RefusedIfGone(p) == ~snapshot[p].on

(* startKanbanTaskSession: refused for a card that moved, answered with the *)
(* session the card has, or a session is created ...                        *)
Refused(p) ==
  ~snapshot[p].on \/ snapshot[p].column # entry[starting[p]].column

CreateSession(p) ==
  /\ Settled
  /\ pc[p] = "starting" /\ ~Refused(p) /\ snapshot[p].trigger = None
  /\ pc' = [pc EXCEPT ![p] = "saving"]
  /\ session' = [session EXCEPT ![starting[p]] = "live"]
  /\ UNCHANGED <<taskVars, queueVars, starting, snapshot, drainVars>>

(* startEntry after start(): a call is over, a drain goes on with its loop. *)
EndStart(p) ==
  /\ starting' = [starting EXCEPT ![p] = None]
  /\ snapshot' = [snapshot EXCEPT ![p] = None]

Resume(p) == pc' = [pc EXCEPT ![p] = IF p \in Drain THEN "loop" ELSE "idle"]

(* Mutant of Counted: an entry takes two slots. *)
CountedTwice(p) ==
  /\ running' = IF p \in Drain THEN [running EXCEPT ![p] = @ + 2] ELSE running
  /\ UNCHANGED held

Counted(p) ==
  /\ running' = IF p \in Drain THEN [running EXCEPT ![p] = @ + 1] ELSE running
  /\ UNCHANGED held

(* The job started with session s, and takes its card's place in the map. *)
Started(p, s) ==
  LET e == starting[p] IN
  /\ entry' = [entry EXCEPT ![e].sessionId = s]
  /\ jobs' = [jobs EXCEPT ![entry[e].card] = e]
  /\ UNCHANGED queue
  /\ EndStart(p) /\ Resume(p) /\ Counted(p)

AlreadyTriggered(p) ==
  /\ Settled
  /\ pc[p] = "starting" /\ ~Refused(p) /\ snapshot[p].trigger # None
  /\ Started(p, snapshot[p].trigger)
  /\ UNCHANGED <<taskVars, session>>

(* ... and the task that was read is saved, with the session as its trigger. *)
SaveTask(p, trigger) ==
  task' = [task EXCEPT ![entry[starting[p]].card] =
             [snapshot[p] EXCEPT !.trigger = trigger]]

SaveSession(p) ==
  /\ Settled
  /\ pc[p] = "saving"
  /\ SaveTask(p, starting[p])
  /\ Started(p, starting[p])
  /\ UNCHANGED <<edits, session>>

(* A failed start (one without a worktree saves the task as blocked): the job  *)
(* of the card is dropped and a drain is called, which runs beside the one     *)
(* that went through the failure.                                              *)
FailStart(p, d) ==
  /\ Settled
  /\ pc[p] = "starting" /\ pc[d] = "idle"
  /\ \/ Refused(p) /\ UNCHANGED task
     \/ /\ ~Refused(p) /\ snapshot[p].trigger = None /\ ~Undisturbed
        /\ \/ UNCHANGED task
           \/ SaveTask(p, None)
           \/ task' = [task EXCEPT ![entry[starting[p]].card] =
                         [snapshot[p] EXCEPT !.on = FALSE]]
  /\ jobs' = [jobs EXCEPT ![entry[starting[p]].card] = None]
  /\ pc' = [pc EXCEPT ![p] = IF p \in Drain THEN "loop" ELSE "idle", ![d] = "begin"]
  /\ EndStart(p)
  /\ UNCHANGED <<edits, queue, entry, session, drainVars>>

-----------------------------------------------------------------------------
FirstOf(S) == CHOOSE n \in S : \A m \in S : n <= m

Rest(q, n) == SubSeq(q, n + 1, Len(q))

(* The loop of drainQueue over the array q it took: entries of cards that    *)
(* moved are dropped with the job of their card, the next one is started.    *)
(* While the array is still the one of the board (shared), the entries it    *)
(* shifts leave the board's queue too; startEntry leaves the drain with an   *)
(* array of its own, which replaces the board's in the end.                  *)
Loop(d, q, n, js, shared) ==
  LET valid == {i \in DOMAIN q : ~Moved(q[i])}
      stop  == IF valid = {} THEN Len(q) ELSE FirstOf(valid) - 1
      dropped == {entry[q[i]].card : i \in 1..stop}
  IN
  \/ /\ n >= Limit
     /\ queue' = q
     /\ jobs' = js
     /\ pc' = [pc EXCEPT ![d] = "idle"]
     /\ held' = [held EXCEPT ![d] = <<>>]
     /\ running' = [running EXCEPT ![d] = 0]
     /\ UNCHANGED <<entry, starting, snapshot>>
  \/ /\ n < Limit /\ valid = {}
     /\ queue' = <<>>
     /\ jobs' = [c \in Card |-> IF c \in dropped THEN None ELSE js[c]]
     /\ pc' = [pc EXCEPT ![d] = "idle"]
     /\ held' = [held EXCEPT ![d] = <<>>]
     /\ running' = [running EXCEPT ![d] = 0]
     /\ UNCHANGED <<entry, starting, snapshot>>
  \/ /\ n < Limit /\ valid # {}
     /\ LET e == q[stop + 1]
            rest == Rest(q, stop + 1)
        IN  /\ queue' = WithoutCard(IF shared THEN rest ELSE queue, entry[e].card)
            /\ jobs' = [c \in Card |-> IF c \in dropped THEN None ELSE js[c]]
            /\ entry' = [entry EXCEPT ![e].status = "running"]
            /\ held' = [held EXCEPT ![d] = rest]
            /\ running' = [running EXCEPT ![d] = n]
            /\ BeginStart(d, e, entry[e].card)

(* Mutant of BeginDrain: every drain takes all the slots of the board. *)
BeginDrainUncounted(d) ==
  /\ pc[d] = "begin"
  /\ Loop(d, ReconciledQueue, 0, ReconciledJobs, TRUE)
  /\ UNCHANGED <<taskVars, session>>

(* drainQueue up to its first start. *)
BeginDrain(d) ==
  /\ pc[d] = "begin"
  /\ Loop(d, ReconciledQueue, CountRunning(ReconciledJobs), ReconciledJobs, TRUE)
  /\ UNCHANGED <<taskVars, session>>

ContinueDrain(d) ==
  /\ pc[d] = "loop"
  /\ Loop(d, held[d], running[d], jobs, FALSE)
  /\ UNCHANGED <<taskVars, session>>

(* A session ends; the first running job with it is dropped and the queue    *)
(* drained.  Without one (its start is still saving) the event does nothing. *)
EndSession(s, d) ==
  LET ended == {c \in Card : IsRunning(jobs[c]) /\ entry[jobs[c]].sessionId = s} IN
  /\ Settled
  /\ session[s] = "live" /\ pc[d] = "idle"
  /\ session' = [session EXCEPT ![s] = "ended"]
  /\ \/ /\ ended = {}
        /\ UNCHANGED <<jobs, pc>>
     \/ \E c \in ended :
          /\ jobs' = [jobs EXCEPT ![c] = None]
          /\ pc' = [pc EXCEPT ![d] = "begin"]
  /\ UNCHANGED <<taskVars, queue, entry, starting, snapshot, drainVars>>

-----------------------------------------------------------------------------
(* The tasks are edited: moved to another column (which clears the trigger), *)
(* deleted, or given up for a retry.                                         *)
Edit(c) ==
  /\ Settled /\ LeftAlone(c) /\ edits < MaxEdits
  /\ task[c].on
  /\ edits' = edits + 1
  /\ \/ \E k \in Column \ {task[c].column} :
          task' = [task EXCEPT ![c] = [@ EXCEPT !.column = k, !.trigger = None]]
     \/ task' = [task EXCEPT ![c].on = FALSE]
     \/ /\ task[c].trigger # None
        /\ task' = [task EXCEPT ![c].trigger = None]
  /\ UNCHANGED <<queueVars, session, startVars, drainVars>>

Next ==
  \/ \E e \in Call, c \in Card, k \in Column : Enqueue(e, c, k)
  \/ Reconcile
  \/ \E c \in Card : RemoveCardJob(c) \/ Edit(c)
  \/ \E p \in Process :
       \/ CreateSession(p) \/ AlreadyTriggered(p) \/ SaveSession(p)
       \/ \E d \in Drain : FailStart(p, d)
  \/ \E d \in Drain : BeginDrain(d) \/ ContinueDrain(d)
  \/ \E s \in Call, d \in Drain : EndSession(s, d)

Spec == Init /\ [][Next]_vars

-----------------------------------------------------------------------------
(* No more jobs of a board run than its limit allows (docs/adr/             *)
(* 0004-kanban-driven-automation.md:24, default 1), counting the ones that  *)
(* are being started by a call or by any of several drains.  With a limit   *)
(* above 1 a drain that waited for a start goes on with a count that is old. *)
LimitRespected == CountRunning(jobs) <= Limit

(* A session is created only for a card that is on the board, in the column  *)
(* of the job, and has none: the reconciliations, the check of a drain and   *)
(* the one of the start drop every stale entry                               *)
(* (docs/adr/0004-kanban-driven-automation.md:26).  With a limit above 1 the  *)
(* array of a drain may hold an entry whose card got another job meanwhile.   *)
StaleNeverStarted ==
  [][\A e \in Call :
       session[e] = "none" /\ session'[e] = "live"
         => ~Moved(e) /\ ~WithTrigger(e)]_vars

(* A job that waits is in the board's queue, or in the array of a drain that *)
(* is under way, so that the end of a session promotes it                    *)
(* (docs/adr/0004-kanban-driven-automation.md:25).                           *)
QueuedIsReachable ==
  \A c \in Card :
    IsQueued(jobs[c]) =>
      \/ \E n \in DOMAIN queue : queue[n] = jobs[c]
      \/ \E d \in Drain : \E n \in DOMAIN held[d] : held[d][n] = jobs[c]
=============================================================================
