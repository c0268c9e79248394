------------------------ MODULE KanbanWorkflowProofs ------------------------
(* Type correctness of KanbanWorkflow, that the session a card shows is one   *)
(* of its column, and that the sessions of an automation work one at a time   *)
(* and step by step, for every value of the constants.                        *)
EXTENDS KanbanWorkflow, FiniteSetTheorems, TLAPS

\* The automations TypeOK asks for.
Lawful == {a \in Automation : a.step <= Steps(a.column)}

\* A row, wherever it is kept: its trigger is a session of its column.
RowIn(t, ss) ==
  /\ t \in Task /\ t.trigger \in 0..Len(ss)
  /\ t.trigger # 0 => ss[t.trigger].column = t.column

\* A handler that is under way holds what it will need when it goes on.
HandlerIn(hs, n, ss) ==
  /\ hs \in HandlerState
  /\ hs.kind # "job" => hs.job.automation \in 1..n
  /\ hs.pc = "notify" => hs.kind = "recovery"
  /\ hs.pc \in {"start", "revive"} => RowIn(hs.read, ss)
  /\ hs.kind \in {"step", "fallback", "recovery"} /\ hs.pc # "artifact" => RowIn(hs.task, ss)

(* The inductive invariant: every row that a handler keeps while it waits    *)
(* carries its trigger together with its column, so whoever saves it saves a *)
(* row like that.                                                            *)
RowsInv ==
  /\ RowIn(task, sessions)
  /\ job \in Job \union {None}
  /\ automations \in Seq(Lawful)
  /\ active \in 0..Len(automations)
  /\ sessions \in Seq(Session)
  /\ handler \in [Handler -> HandlerState \union {None}]
  /\ \A h \in Handler : handler[h] # None => HandlerIn(handler[h], Len(automations), sessions)
  /\ past \in 0..Len(sessions)
  /\ moves \in 0..MaxMoves /\ looks \in 0..MaxLooks /\ faults \in 0..MaxFaults

LEMMA RowsInvOK == RowsInv => TypeOK /\ TriggerOfColumn
<1> SUFFICES ASSUME RowsInv PROVE TypeOK /\ TriggerOfColumn
  OBVIOUS
<1>1. automations \in Seq(Automation) /\ \A n \in DOMAIN automations :
        automations[n].step <= Steps(automations[n].column)
  BY DEF RowsInv, Lawful
<1> QED BY <1>1 DEF RowsInv, RowIn, TypeOK, TriggerOfColumn

\* A later value of sessions: there may be more, and each stays in its column.
Later(old, new) ==
  Len(old) <= Len(new) /\ \A s \in 1..Len(old) : new[s].column = old[s].column

LEMMA RowLater ==
  ASSUME NEW old \in Seq(Session), NEW new \in Seq(Session), Later(old, new),
         NEW t, RowIn(t, old)
  PROVE  RowIn(t, new)
<1>1. Len(old) \in Nat /\ Len(new) \in Nat /\ t.trigger \in 0..Len(old)
  BY DEF RowIn
<1>2. t.trigger \in 0..Len(new) /\ (t.trigger # 0 => t.trigger \in 1..Len(old))
  BY <1>1, SMT DEF Later
<1> QED BY <1>2 DEF RowIn, Later

LEMMA HandlerLater ==
  ASSUME NEW old \in Seq(Session), NEW new \in Seq(Session), Later(old, new),
         NEW m \in Nat, NEW n \in Nat, m <= n,
         NEW hs, HandlerIn(hs, m, old)
  PROVE  HandlerIn(hs, n, new)
<1>1. hs.job.automation \in 1..m => hs.job.automation \in 1..n
  BY SMT
<1> QED BY <1>1, RowLater DEF HandlerIn

-----------------------------------------------------------------------------
(* What the rows of the card become. *)
LEMMA RowChanges ==
  ASSUME NEW ss \in Seq(Session), NEW t, RowIn(t, ss), NEW s \in Nat
  PROVE  /\ RowIn(WithoutTrigger(t, s), ss)
         /\ \A k \in Column : RowIn(Arrived(t, k), ss)
<1>1. t \in Task /\ Len(ss) \in Nat
  BY DEF RowIn
<1>2. /\ [t EXCEPT !.trigger = 0] \in Task /\ [t EXCEPT !.trigger = 0].trigger = 0
      /\ \A k \in Column : /\ [t EXCEPT !.column = k, !.trigger = 0] \in Task
                           /\ [t EXCEPT !.column = k, !.trigger = 0].trigger = 0
  BY <1>1 DEF Task
<1>3. 0 \in 0..Len(ss)
  BY <1>1, SMT
<1> QED BY <1>2, <1>3 DEF WithoutTrigger, Arrived, RowIn

LEMMA MappedLanes ==
  ASSUME NEW q \in Seq(LaneSession), NEW f, f = [i \in DOMAIN q |-> f[i]],
         \A i \in DOMAIN q : f[i] \in LaneSession
  PROVE  f \in Seq(LaneSession)
<1>1. DOMAIN q = 1..Len(q) /\ Len(q) \in Nat
  OBVIOUS
<1>2. f \in [1..Len(q) -> LaneSession]
  BY <1>1
<1> QED BY <1>1, <1>2

LEMMA RestatedLane ==
  ASSUME NEW l \in LaneSession, NEW status \in {"running", "over", "done"}
  PROVE  [l EXCEPT !.status = status] \in LaneSession
BY DEF LaneSession

LEMMA MarkedRow ==
  ASSUME NEW ss \in Seq(Session), NEW t, RowIn(t, ss), NEW s \in Nat \ {0},
         NEW status \in {"running", "over", "done"}
  PROVE  RowIn(Marked(t, s, status), ss)
<1>1. t \in Task /\ t.lanes \in Seq(LaneSession)
  BY DEF RowIn, Task
<1> DEFINE marked == [i \in DOMAIN t.lanes |->
                        IF t.lanes[i].session = s THEN [t.lanes[i] EXCEPT !.status = status]
                        ELSE t.lanes[i]]
           added == Append(t.lanes, [session |-> s, column |-> 0, status |-> status])
<1>2. marked \in Seq(LaneSession)
  <2>1. \A i \in DOMAIN t.lanes : t.lanes[i] \in LaneSession
    BY <1>1
  <2>2. \A i \in DOMAIN t.lanes : marked[i] \in LaneSession
    BY <2>1, RestatedLane
  <2>3. marked = [i \in DOMAIN t.lanes |-> marked[i]]
    OBVIOUS
  <2> HIDE DEF marked
  <2> QED BY <1>1, <2>2, <2>3, MappedLanes
<1>3. added \in Seq(LaneSession)
  <2>1. [session |-> s, column |-> 0, status |-> status] \in LaneSession
    BY DEF LaneSession
  <2> QED BY <1>1, <2>1
<1>4. \E q \in Seq(LaneSession) : Marked(t, s, status) = [t EXCEPT !.lanes = q]
  BY <1>2, <1>3 DEF Marked
<1> HIDE DEF marked, added
<1>5. PICK q \in Seq(LaneSession) : Marked(t, s, status) = [t EXCEPT !.lanes = q]
  BY <1>4
<1>6. /\ [t EXCEPT !.lanes = q] \in Task
      /\ [t EXCEPT !.lanes = q].trigger = t.trigger /\ [t EXCEPT !.lanes = q].column = t.column
  BY <1>1 DEF Task
<1> QED BY <1>5, <1>6 DEF RowIn

LEMMA FinalizedRow ==
  ASSUME NEW ss \in Seq(Session), NEW t, RowIn(t, ss)
  PROVE  RowIn(Finalized(t), ss)
<1>1. t.trigger \in Nat
  BY DEF RowIn, Task
<1> QED BY <1>1, MarkedRow DEF Finalized

LEMMA SanitizedRow ==
  ASSUME NEW ss \in Seq(Session), NEW t, RowIn(t, ss), NEW dead,
         NEW status \in {"running", "over", "done"}
  PROVE  RowIn(Sanitized(t, dead, status), ss) /\ Sanitized(t, dead, status).column = t.column
<1>1. t \in Task /\ t.lanes \in Seq(LaneSession) /\ t.trigger \in Nat
  BY DEF RowIn, Task
<1> DEFINE trigger == IF t.trigger \in dead THEN 0 ELSE t.trigger
           lanes == [i \in DOMAIN t.lanes |->
                       IF t.lanes[i].column = t.column /\ t.lanes[i].status = "running"
                          /\ t.lanes[i].session \in dead
                       THEN [t.lanes[i] EXCEPT !.status = status] ELSE t.lanes[i]]
<1>2. lanes \in Seq(LaneSession)
  <2>1. \A i \in DOMAIN t.lanes : t.lanes[i] \in LaneSession
    BY <1>1
  <2>2. \A i \in DOMAIN t.lanes : lanes[i] \in LaneSession
    BY <2>1, RestatedLane
  <2>3. lanes = [i \in DOMAIN t.lanes |-> lanes[i]]
    OBVIOUS
  <2> HIDE DEF lanes
  <2> QED BY <1>1, <2>2, <2>3, MappedLanes
<1>3. Sanitized(t, dead, status) = [t EXCEPT !.trigger = trigger, !.lanes = lanes]
  BY <1>1 DEF Sanitized, Task
<1>4. trigger \in {0, t.trigger}
  OBVIOUS
<1> HIDE DEF trigger, lanes
<1>5. /\ Sanitized(t, dead, status) \in Task
      /\ Sanitized(t, dead, status).trigger = trigger
      /\ Sanitized(t, dead, status).column = t.column
  <2>1. trigger \in Nat
    BY <1>1, <1>4
  <2> QED BY <1>1, <1>2, <1>3, <2>1 DEF Task
<1>6. 0 \in 0..Len(ss)
  <2>1. Len(ss) \in Nat
    OBVIOUS
  <2> QED BY <2>1, SMT
<1> QED BY <1>4, <1>5, <1>6 DEF RowIn

-----------------------------------------------------------------------------
(* What the handlers become. *)
LEMMA NewHandlerIn ==
  ASSUME NEW m \in Nat, NEW n \in 1..m, NEW a \in Automation,
         NEW kind \in {"transition", "step", "fallback", "recovery", "job"}
  PROVE  /\ NewHandler(kind, n, a) \in HandlerState
         /\ NewHandler(kind, n, a).job.automation = n
         /\ NewHandler(kind, n, a).kind = kind /\ NewHandler(kind, n, a).pc = "returned"
<1>1. [automation |-> n, column |-> a.column, step |-> a.step] \in Job
  BY DEF Job, Automation
<1> QED BY <1>1 DEF NewHandler, HandlerState

LEMMA AnswersIn ==
  ASSUME NEW ss, NEW n, NEW hs, HandlerIn(hs, n, ss), hs.pc # "artifact", NEW s \in Nat
  PROVE  /\ HandlerIn([hs EXCEPT !.pc = "returned", !.result = s], n, ss)
         /\ HandlerIn([hs EXCEPT !.pc = "returned", !.read = None], n, ss)
         /\ HandlerIn([hs EXCEPT !.pc = "returned", !.result = s, !.read = None], n, ss)
<1>1. hs \in HandlerState
  BY DEF HandlerIn
<1>2. ASSUME NEW x \in {[hs EXCEPT !.pc = "returned", !.result = s],
                        [hs EXCEPT !.pc = "returned", !.read = None],
                        [hs EXCEPT !.pc = "returned", !.result = s, !.read = None]}
      PROVE  /\ x \in HandlerState /\ x.pc = "returned" /\ x.kind = hs.kind
             /\ x.job = hs.job /\ x.task = hs.task
  BY <1>1 DEF HandlerState
<1>3. ASSUME NEW x, x \in HandlerState, x.pc = "returned", x.kind = hs.kind,
             x.job = hs.job, x.task = hs.task
      PROVE  HandlerIn(x, n, ss)
  BY <1>3 DEF HandlerIn
<1> QED BY <1>2, <1>3

LEMMA StartsIn ==
  ASSUME NEW ss, NEW n, NEW hs, HandlerIn(hs, n, ss), hs.pc = "returned",
         NEW t, RowIn(t, ss)
  PROVE  HandlerIn([hs EXCEPT !.pc = "start", !.read = t], n, ss)
<1> DEFINE x == [hs EXCEPT !.pc = "start", !.read = t]
<1>1. hs \in HandlerState /\ t \in Task
  BY DEF HandlerIn, RowIn
<1>2. /\ x \in HandlerState /\ x.pc = "start" /\ x.kind = hs.kind
      /\ x.job = hs.job /\ x.task = hs.task /\ x.read = t
  BY <1>1 DEF HandlerState
<1> HIDE DEF x
<1>3. HandlerIn(x, n, ss)
  BY <1>2 DEF HandlerIn
<1> QED BY <1>3 DEF x

\* How the handler at place h goes on.
Continues(h, n, ss) ==
  \/ handler' \in {handler, [handler EXCEPT ![h] = None]}
  \/ \E hs : HandlerIn(hs, n, ss) /\ handler' = [handler EXCEPT ![h] = hs]

\* No automation is forgotten.
Grown(autos) == Len(automations) <= Len(autos)

\* What every operation on the card leaves, when the sessions become ss.
Kept(h, ss) ==
  /\ RowIn(task', ss) /\ job' \in Job \union {None}
  /\ automations' \in Seq(Lawful) /\ Grown(automations')
  /\ Continues(h, Len(automations'), ss)

LEMMA CreateSessionKept ==
  ASSUME NEW h \in Handler, NEW ss \in Seq(Session), NEW autos \in Seq(Lawful),
         Grown(autos),
         NEW hs, HandlerIn(hs, Len(autos), ss), hs.pc = "returned",
         NEW t, RowIn(t, ss), NEW j \in Job \union {None}, CreateSession(h, hs, t, j, autos)
  PROVE  Kept(h, ss) /\ automations' = autos
<1>1. task' = t /\ automations' = autos
  BY DEF CreateSession
<1>2. hs.job \in Job /\ t.trigger \in Nat
  BY DEF HandlerIn, HandlerState, RowIn, Task
<1>3. job' \in Job \union {None}
  BY <1>2 DEF CreateSession
<1>4. Continues(h, Len(autos), ss)
  <2>1. ASSUME NEW s \in Nat, Becomes(h, [hs EXCEPT !.pc = "returned", !.result = s])
        PROVE  Continues(h, Len(autos), ss)
    BY <2>1, AnswersIn DEF Becomes, Continues
  <2>2. ASSUME Becomes(h, [hs EXCEPT !.pc = "start", !.read = t])
        PROVE  Continues(h, Len(autos), ss)
    BY <2>2, StartsIn DEF Becomes, Continues
  <2> QED BY <1>2, <2>1, <2>2 DEF CreateSession
<1> QED BY <1>1, <1>3, <1>4 DEF Kept

LEMMA NewAutomationLawful ==
  ASSUME NEW k \in Column PROVE NewAutomation(k) \in Lawful
<1>1. 1 <= Steps(k)
  <2>1. LaneSteps[k] \in Nat \ {0} /\ FallbackSteps \in Nat
    BY StepAssumption
  <2> QED BY <2>1, SMT DEF Steps
<1> QED BY <1>1 DEF NewAutomation, Lawful, Automation

LEMMA AppendedLawful ==
  ASSUME NEW autos \in Seq(Lawful), NEW a \in Lawful
  PROVE  /\ Append(autos, a) \in Seq(Lawful) /\ Len(Append(autos, a)) = Len(autos) + 1
         /\ Len(autos) + 1 \in Nat /\ Len(autos) + 1 \in 1..(Len(autos) + 1)
         /\ Len(autos) + 1 \in 0..(Len(autos) + 1)
<1>1. Len(autos) \in Nat
  OBVIOUS
<1>2. Append(autos, a) \in Seq(Lawful) /\ Len(Append(autos, a)) = Len(autos) + 1
  OBVIOUS
<1>3. \A l \in Nat : l + 1 \in Nat /\ l + 1 \in 1..(l + 1) /\ l + 1 \in 0..(l + 1)
  BY SMT
<1> QED BY <1>1, <1>2, <1>3

LEMMA AppendedGrown ==
  ASSUME automations \in Seq(Lawful), NEW autos \in Seq(Lawful), Grown(autos), NEW a \in Lawful
  PROVE  Grown(Append(autos, a))
<1>1. Len(autos) \in Nat /\ Len(automations) \in Nat /\ Len(Append(autos, a)) = Len(autos) + 1
  OBVIOUS
<1>2. \A l, m \in Nat : m <= l => m <= l + 1
  BY SMT
<1> QED BY <1>1, <1>2 DEF Grown

LEMMA NewTransition ==
  ASSUME NEW ss, NEW n \in Nat \ {0}, NEW k \in Column, NEW echo \in BOOLEAN
  PROVE  LET hs == [NewHandler("transition", n, NewAutomation(k)) EXCEPT !.echo = echo]
         IN  HandlerIn(hs, n, ss) /\ hs.pc = "returned"
<1> DEFINE new == NewHandler("transition", n, NewAutomation(k))
           hs == [new EXCEPT !.echo = echo]
<1>1. NewAutomation(k) \in Automation /\ n \in 1..n
  <2>1. n \in 1..n
    BY SMT
  <2> QED BY <2>1, NewAutomationLawful DEF Lawful
<1>2. new \in HandlerState /\ new.job.automation = n /\ new.kind = "transition" /\ new.pc = "returned"
  BY <1>1, NewHandlerIn
<1> HIDE DEF new
<1>3. hs \in HandlerState /\ hs.job.automation = n /\ hs.kind = "transition" /\ hs.pc = "returned"
  BY <1>2 DEF HandlerState
<1> HIDE DEF hs
<1>4. HandlerIn(hs, n, ss)
  BY <1>1, <1>3 DEF HandlerIn
<1> QED BY <1>3, <1>4 DEF hs, new

LEMMA TransitionKept ==
  ASSUME NEW h \in Handler, NEW ss \in Seq(Session), NEW autos \in Seq(Lawful),
         automations \in Seq(Lawful), Grown(autos), active \in 0..Len(autos),
         NEW k, k \in Automated => k \in Column, NEW echo \in BOOLEAN,
         NEW t, RowIn(t, ss), NEW j \in Job \union {None}, Transition(h, k, echo, t, j, autos)
  PROVE  Kept(h, ss) /\ active' \in 0..Len(automations')
<1>1. CASE k \notin Automated \/ Exceeded(t, k) \/ Underway(k, autos)
  BY <1>1 DEF Transition, Kept, Continues, Ends, Becomes
<1>2. CASE ~(k \notin Automated \/ Exceeded(t, k) \/ Underway(k, autos))
  <2> DEFINE n == Len(autos) + 1
             new == Append(autos, NewAutomation(k))
             hs == [NewHandler("transition", n, NewAutomation(k)) EXCEPT !.echo = echo]
  <2>1. active' = n /\ CreateSession(h, hs, t, j, new)
    BY <1>2 DEF Transition
  <2>2. k \in Column
    BY <1>2
  <2>3. /\ new \in Seq(Lawful) /\ Len(new) = n /\ n \in Nat /\ n \in 1..n
        /\ n \in 0..n /\ Grown(new)
    BY <2>2, NewAutomationLawful, AppendedLawful, AppendedGrown
  <2>4. HandlerIn(hs, n, ss) /\ hs.pc = "returned"
    <3> HIDE DEF n
    <3>1. n \in Nat \ {0}
      BY <2>3
    <3> QED BY <2>2, <3>1, NewTransition
  <2> HIDE DEF new, n, hs
  <2>5. Kept(h, ss) /\ automations' = new
    BY <2>1, <2>3, <2>4, CreateSessionKept
  <2> QED BY <2>1, <2>3, <2>5
<1> QED BY <1>1, <1>2

-----------------------------------------------------------------------------
(* What an automation becomes. *)
LEMMA ReplacedLawful ==
  ASSUME NEW autos \in Seq(Lawful), NEW n \in 1..Len(autos), NEW a \in Lawful
  PROVE  /\ [autos EXCEPT ![n] = a] \in Seq(Lawful)
         /\ Len([autos EXCEPT ![n] = a]) = Len(autos)
         /\ [autos EXCEPT ![n] = a][n] = a
         /\ Grown(autos) => Grown([autos EXCEPT ![n] = a])
BY DEF Grown

LEMMA ElementLawful ==
  ASSUME NEW autos \in Seq(Lawful), NEW n \in 1..Len(autos)
  PROVE  /\ autos[n] \in Lawful /\ autos[n] \in Automation /\ autos[n].session \in Nat
         /\ autos[n].column \in Column /\ autos[n].step \in Nat \ {0}
         /\ Len(autos) \in Nat /\ n \in Nat
<1>1. autos[n] \in Lawful /\ Len(autos) \in Nat /\ n \in Nat
  OBVIOUS
<1> QED BY <1>1 DEF Lawful, Automation

LEMMA StepOfLawful ==
  ASSUME NEW a \in Lawful, HasNext(a) PROVE StepOf(a) \in Lawful
<1>1. a \in Automation /\ a.step \in Nat \ {0} /\ a.column \in Column
  BY DEF Lawful, Automation
<1>2. Steps(a.column) \in Nat
  <2>1. LaneSteps[a.column] \in Nat /\ FallbackSteps \in Nat
    BY <1>1, StepAssumption
  <2> QED BY <2>1, SMT DEF Steps
<1>3. a.step + 1 \in Nat \ {0} /\ a.step + 1 <= Steps(a.column)
  BY <1>1, <1>2, SMT DEF HasNext
<1>4. /\ StepOf(a) \in Automation /\ StepOf(a).step = a.step + 1
      /\ StepOf(a).column = a.column
  BY <1>1, <1>3 DEF StepOf, Automation
<1> QED BY <1>3, <1>4 DEF Lawful

LEMMA ChangedLawful ==
  ASSUME NEW a \in Lawful, NEW s \in Nat,
         NEW status \in {"queued", "running", "completed", "failed"}, NEW timer \in BOOLEAN
  PROVE  /\ RecoveryOf(a) \in Lawful /\ RunningWith(a, s) \in Lawful
         /\ [a EXCEPT !.status = status] \in Lawful /\ [a EXCEPT !.timer = timer] \in Lawful
         /\ [a EXCEPT !.signaled = @ \union {s}] \in Lawful
         /\ [a EXCEPT !.status = status, !.timer = timer] \in Lawful
<1>1. a \in Automation /\ a.step <= Steps(a.column)
  BY DEF Lawful
<1>2. ASSUME NEW x, x \in Automation, x.step = a.step, x.column = a.column PROVE x \in Lawful
  BY <1>1, <1>2 DEF Lawful
<1>3. RecoveryOf(a) \in Lawful
  <2>1. a.recoveries + 1 \in Nat /\ a.signaled \ {a.session} \in SUBSET Nat
    BY <1>1 DEF Automation
  <2>2. /\ RecoveryOf(a) \in Automation /\ RecoveryOf(a).step = a.step
        /\ RecoveryOf(a).column = a.column
    BY <1>1, <2>1 DEF RecoveryOf, Automation
  <2> QED BY <1>2, <2>2
<1>4. RunningWith(a, s) \in Lawful
  <2>1. /\ RunningWith(a, s) \in Automation /\ RunningWith(a, s).step = a.step
        /\ RunningWith(a, s).column = a.column
    BY <1>1 DEF RunningWith, Automation
  <2> QED BY <1>2, <2>1
<1>5. /\ [a EXCEPT !.status = status] \in Lawful /\ [a EXCEPT !.timer = timer] \in Lawful
      /\ [a EXCEPT !.status = status, !.timer = timer] \in Lawful
  BY <1>1 DEF Lawful, Automation
<1>6. [a EXCEPT !.signaled = @ \union {s}] \in Lawful
  <2>1. a.signaled \union {s} \in SUBSET Nat
    BY <1>1 DEF Automation
  <2>2. /\ [a EXCEPT !.signaled = @ \union {s}] \in Automation
        /\ [a EXCEPT !.signaled = @ \union {s}].step = a.step
        /\ [a EXCEPT !.signaled = @ \union {s}].column = a.column
    BY <1>1, <2>1 DEF Automation
  <2> QED BY <1>2, <2>2
<1> QED BY <1>3, <1>4, <1>5, <1>6

LEMMA SignaledLawful ==
  ASSUME NEW autos \in Seq(Lawful), NEW n \in 1..Len(autos), NEW s \in Nat
  PROVE  /\ Signaled(autos, n, s) \in Seq(Lawful)
         /\ Len(Signaled(autos, n, s)) = Len(autos)
         /\ Grown(autos) => Grown(Signaled(autos, n, s))
<1> DEFINE a == [autos[n] EXCEPT !.signaled = @ \union {s}]
<1>1. a \in Lawful
  BY ElementLawful, ChangedLawful
<1>2. Signaled(autos, n, s) = [autos EXCEPT ![n] = a]
  BY DEF Signaled
<1> HIDE DEF a
<1>3. /\ [autos EXCEPT ![n] = a] \in Seq(Lawful) /\ Len([autos EXCEPT ![n] = a]) = Len(autos)
      /\ Grown(autos) => Grown([autos EXCEPT ![n] = a])
  BY <1>1, ReplacedLawful
<1> QED BY <1>2, <1>3

LEMMA NextStepKept ==
  ASSUME NEW h \in Handler, NEW ss \in Seq(Session), NEW autos \in Seq(Lawful), Grown(autos),
         NEW n \in 1..Len(autos), HasNext(autos[n]),
         NEW kind \in {"step", "fallback", "recovery"}, NEW s \in Nat, NEW recover \in BOOLEAN,
         NEW object, RowIn(object, ss), NextStep(h, kind, n, s, autos, object, recover)
  PROVE  Kept(h, ss)
<1> DEFINE t == WithoutTrigger(object, autos[n].session)
           made == NewHandler(kind, n, StepOf(autos[n]))
           hs == [made EXCEPT !.task = t, !.recover = recover, !.event = s]
           new == [autos EXCEPT ![n] = StepOf(autos[n])]
<1>1. CreateSession(h, hs, t, None, new)
  BY DEF NextStep
<1>2. StepOf(autos[n]) \in Lawful /\ StepOf(autos[n]) \in Automation
  BY ElementLawful, StepOfLawful DEF Lawful
<1>3. new \in Seq(Lawful) /\ Len(new) = Len(autos) /\ Grown(new)
  BY <1>2, ReplacedLawful
<1>4. RowIn(t, ss) /\ t \in Task /\ Len(autos) \in Nat
  <2>1. RowIn(t, ss) /\ Len(autos) \in Nat
    BY ElementLawful, RowChanges
  <2> QED BY <2>1 DEF RowIn
<1> HIDE DEF t, new
<1>5. /\ made \in HandlerState /\ made.job.automation = n
      /\ made.kind = kind /\ made.pc = "returned"
  <2> DEFINE a == StepOf(autos[n])
  <2>1. a \in Automation /\ Len(autos) \in Nat
    BY <1>2, <1>4
  <2> HIDE DEF a
  <2>2. /\ NewHandler(kind, n, a) \in HandlerState /\ NewHandler(kind, n, a).job.automation = n
        /\ NewHandler(kind, n, a).kind = kind /\ NewHandler(kind, n, a).pc = "returned"
    BY <2>1, NewHandlerIn
  <2> QED BY <2>2 DEF a
<1> HIDE DEF made
<1>6. /\ hs \in HandlerState /\ hs.job.automation = n /\ hs.kind = kind
      /\ hs.pc = "returned" /\ hs.task = t
  BY <1>4, <1>5 DEF HandlerState
<1> HIDE DEF hs
<1>7. HandlerIn(hs, Len(autos), ss)
  BY <1>4, <1>6 DEF HandlerIn
<1> QED BY <1>1, <1>3, <1>4, <1>6, <1>7, CreateSessionKept

LEMMA RecoverKept ==
  ASSUME NEW h \in Handler, NEW ss \in Seq(Session), NEW autos \in Seq(Lawful), Grown(autos),
         NEW n \in 1..Len(autos), NEW s \in Nat, NEW object, RowIn(object, ss),
         Recover(h, n, s, autos, object)
  PROVE  Kept(h, ss)
<1> DEFINE t == WithoutTrigger(object, autos[n].session)
           new == [autos EXCEPT ![n] = RecoveryOf(autos[n])]
           made == NewHandler("recovery", n, autos[n])
           hs == [made EXCEPT !.task = t, !.event = s]
<1>1. CreateSession(h, hs, t, None, new)
  BY DEF Recover
<1>2. RecoveryOf(autos[n]) \in Lawful
  BY ElementLawful, ChangedLawful
<1>3. new \in Seq(Lawful) /\ Len(new) = Len(autos) /\ Grown(new)
  BY <1>2, ReplacedLawful
<1>4. RowIn(t, ss) /\ t \in Task
  <2>1. RowIn(t, ss)
    BY ElementLawful, RowChanges
  <2> QED BY <2>1 DEF RowIn
<1>5. /\ made \in HandlerState /\ made.job.automation = n
      /\ made.kind = "recovery" /\ made.pc = "returned"
  <2>1. autos[n] \in Automation /\ Len(autos) \in Nat
    BY ElementLawful
  <2> QED BY <2>1, NewHandlerIn
<1> HIDE DEF t, new, made
<1>6. /\ hs \in HandlerState /\ hs.job.automation = n /\ hs.kind = "recovery"
      /\ hs.pc = "returned" /\ hs.task = t
  BY <1>4, <1>5 DEF HandlerState
<1> HIDE DEF hs
<1>7. HandlerIn(hs, Len(autos), ss)
  BY <1>4, <1>6 DEF HandlerIn
<1> QED BY <1>1, <1>3, <1>4, <1>6, <1>7, CreateSessionKept

(* A recovery prompt makes its session live again. *)
LEMMA StateLater ==
  ASSUME NEW ss \in Seq(Session), NEW s,
         NEW state \in {"live", "silent", "broken", "timedout", "completed", "failed", "late", "lost"}
  PROVE  /\ [ss EXCEPT ![s].state = state] \in Seq(Session)
         /\ Later(ss, [ss EXCEPT ![s].state = state])
<1> DEFINE new == [ss EXCEPT ![s].state = state]
<1>1. DOMAIN ss = 1..Len(ss) /\ Len(ss) \in Nat /\ \A i \in 1..Len(ss) : ss[i] \in Session
  OBVIOUS
<1>2. \A x \in Session : /\ [x EXCEPT !.state = state] \in Session
                         /\ [x EXCEPT !.state = state].column = x.column
  BY DEF Session
<1>3. \A i \in 1..Len(ss) : new[i] \in {ss[i], [ss[i] EXCEPT !.state = state]}
  BY <1>1
<1>4. \A i \in 1..Len(ss) : new[i] \in Session /\ new[i].column = ss[i].column
  BY <1>1, <1>2, <1>3
<1>5. new = [i \in 1..Len(ss) |-> new[i]]
  BY <1>1
<1> HIDE DEF new
<1>6. new \in Seq(Session) /\ Len(new) = Len(ss)
  <2>1. new \in [1..Len(ss) -> Session]
    BY <1>4, <1>5
  <2> QED BY <1>1, <2>1
<1>7. Later(ss, new)
  BY <1>1, <1>4, <1>6, SMT DEF Later
<1> QED BY <1>6, <1>7 DEF new

LEMMA NotifyKept ==
  ASSUME NEW h \in Handler, NEW ss \in Seq(Session), RowIn(task, ss), job \in Job \union {None},
         NEW autos \in Seq(Lawful), Grown(autos),
         NEW n \in 1..Len(autos), NEW s \in Nat, NEW object, RowIn(object, ss),
         NotifyAndRecover(h, n, s, autos, ss, object)
  PROVE  Kept(h, sessions') /\ sessions' \in Seq(Session) /\ Later(ss, sessions')
<1>1. CASE Reachable(ss, s)
  <2> DEFINE made == NewHandler("recovery", n, autos[n])
             hs == [made EXCEPT !.pc = "notify", !.task = object, !.event = s]
  <2>1. /\ handler' = [handler EXCEPT ![h] = hs]
        /\ automations' = autos /\ UNCHANGED <<task, job>>
        /\ sessions' \in {ss, [ss EXCEPT ![s].state = "live"]}
    BY <1>1 DEF NotifyAndRecover, Becomes
  <2>2. sessions' \in Seq(Session) /\ Later(ss, sessions')
    <3>1. Later(ss, ss)
      <4>1. Len(ss) \in Nat
        OBVIOUS
      <4> QED BY <4>1, SMT DEF Later
    <3> QED BY <2>1, <3>1, StateLater
  <2>3. RowIn(task, sessions') /\ RowIn(object, sessions')
    BY <2>2, RowLater
  <2>4. object \in Task
    BY DEF RowIn
  <2>5. /\ made \in HandlerState /\ made.job.automation = n /\ made.kind = "recovery"
    <3>1. autos[n] \in Automation /\ Len(autos) \in Nat
      BY ElementLawful
    <3> QED BY <3>1, NewHandlerIn
  <2> HIDE DEF made
  <2>6. /\ hs \in HandlerState /\ hs.job.automation = n /\ hs.kind = "recovery"
        /\ hs.pc = "notify" /\ hs.task = object
    BY <2>4, <2>5 DEF HandlerState
  <2> HIDE DEF hs
  <2>7. HandlerIn(hs, Len(autos), sessions')
    BY <2>3, <2>6 DEF HandlerIn
  <2> QED BY <2>1, <2>2, <2>3, <2>7 DEF Kept, Continues
<1>2. CASE ~Reachable(ss, s)
  <2>1. Recover(h, n, s, autos, object) /\ sessions' = ss
    BY <1>2 DEF NotifyAndRecover
  <2>2. Later(ss, ss)
    <3>1. Len(ss) \in Nat
      OBVIOUS
    <3> QED BY <3>1, SMT DEF Later
  <2> QED BY <2>1, <2>2, RecoverKept
<1> QED BY <1>1, <1>2

LEMMA FailKept ==
  ASSUME NEW h \in Handler, NEW ss \in Seq(Session), job \in Job \union {None},
         NEW autos \in Seq(Lawful), Grown(autos), NEW n \in 1..Len(autos), NEW s \in Nat,
         NEW object, RowIn(object, ss), Fail(h, n, s, autos, object)
  PROVE  Kept(h, ss) /\ Len(automations') = Len(autos)
<1> DEFINE as == Signaled(autos, n, s)
           a == [as[n] EXCEPT !.status = "failed", !.timer = TRUE]
<1>1. as \in Seq(Lawful) /\ Len(as) = Len(autos) /\ Grown(as) /\ n \in 1..Len(as)
  BY SignaledLawful
<1>2. automations' = [as EXCEPT ![n] = a]
  BY DEF Fail
<1> HIDE DEF as
<1>3. a \in Lawful
  BY <1>1, ElementLawful, ChangedLawful
<1>4. automations' \in Seq(Lawful) /\ Grown(automations') /\ Len(automations') = Len(autos)
  <2> HIDE DEF a
  <2>1. /\ [as EXCEPT ![n] = a] \in Seq(Lawful) /\ Len([as EXCEPT ![n] = a]) = Len(as)
        /\ Grown([as EXCEPT ![n] = a])
    BY <1>1, <1>3, ReplacedLawful
  <2> QED BY <1>1, <1>2, <2>1
<1> QED BY <1>4 DEF Fail, Kept, Continues, Ends, Becomes

LEMMA CompleteKept ==
  ASSUME NEW h \in Handler, NEW ss \in Seq(Session), job \in Job \union {None},
         NEW autos \in Seq(Lawful), Grown(autos), NEW n \in 1..Len(autos), NEW s \in Nat,
         NEW object, RowIn(object, ss), Complete(h, n, s, autos, object)
  PROVE  Kept(h, ss)
<1> DEFINE as == Signaled(autos, n, s)
           a == [as[n] EXCEPT !.status = "completed"]
           made == NewHandler("step", n, autos[n])
           hs == [made EXCEPT !.pc = "artifact"]
<1>1. as \in Seq(Lawful) /\ Len(as) = Len(autos) /\ Grown(as) /\ n \in 1..Len(as)
  BY SignaledLawful
<1>2. automations' = [as EXCEPT ![n] = a]
  BY DEF Complete
<1> HIDE DEF as
<1>3. automations' \in Seq(Lawful) /\ Grown(automations') /\ Len(automations') = Len(autos)
  <2>1. a \in Lawful
    BY <1>1, ElementLawful, ChangedLawful
  <2> HIDE DEF a
  <2>2. /\ [as EXCEPT ![n] = a] \in Seq(Lawful) /\ Len([as EXCEPT ![n] = a]) = Len(as)
        /\ Grown([as EXCEPT ![n] = a])
    BY <1>1, <2>1, ReplacedLawful
  <2> QED BY <1>1, <1>2, <2>2
<1>4. handler' = [handler EXCEPT ![h] = hs] /\ task' = object /\ UNCHANGED job
  BY DEF Complete, Becomes
<1>5. /\ made \in HandlerState /\ made.job.automation = n /\ made.kind = "step"
  <2>1. autos[n] \in Automation /\ Len(autos) \in Nat
    BY ElementLawful
  <2> QED BY <2>1, NewHandlerIn
<1> HIDE DEF made
<1>6. hs \in HandlerState /\ hs.job.automation = n /\ hs.kind = "step" /\ hs.pc = "artifact"
  BY <1>5 DEF HandlerState
<1> HIDE DEF hs
<1>7. HandlerIn(hs, Len(autos), ss)
  BY <1>6 DEF HandlerIn
<1> QED BY <1>3, <1>4, <1>7 DEF Kept, Continues

LEMMA AdoptedLawful ==
  ASSUME RowIn(task, sessions), NEW a \in Lawful
  PROVE  Adopted(a) \in Lawful
<1>1. task.trigger \in Nat
  BY DEF RowIn, Task
<1>2. Adopted(a) \in {a, RunningWith(a, task.trigger)}
  BY DEF Adopted, RunningWith
<1> QED BY <1>1, <1>2, ChangedLawful

LEMMA LaterTransitive ==
  ASSUME NEW s1 \in Seq(Session), NEW s2 \in Seq(Session), NEW s3 \in Seq(Session),
         Later(s1, s2), Later(s2, s3)
  PROVE  Later(s1, s3)
<1>1. Len(s1) \in Nat /\ Len(s2) \in Nat /\ Len(s3) \in Nat
  OBVIOUS
<1>2. Len(s1) <= Len(s3)
  BY <1>1, SMT DEF Later
<1>3. \A s \in 1..Len(s1) : s \in 1..Len(s2)
  BY <1>1, SMT DEF Later
<1> QED BY <1>2, <1>3 DEF Later

(* handleAgentCompletion. *)
LEMMA CompletionKept ==
  ASSUME RowsInv, NEW h \in Handler, NEW s \in Nat \ {0},
         NEW outcome, NEW autos \in Seq(Lawful), Grown(autos), active \in 0..Len(autos),
         NEW ss \in Seq(Session), Later(sessions, ss),
         HandleAgentCompletion(h, s, outcome, autos, ss)
  PROVE  /\ Kept(h, sessions') /\ sessions' \in Seq(Session) /\ Later(sessions, sessions')
         /\ UNCHANGED <<active, past, moves, looks>>
<1> DEFINE n == active
           a == Adopted(autos[n])
           adopted == [autos EXCEPT ![n] = a]
<1>1. /\ sessions \in Seq(Session) /\ RowIn(task, sessions) /\ job \in Job \union {None}
      /\ RowIn(task, ss)
  <2>1. sessions \in Seq(Session) /\ RowIn(task, sessions) /\ job \in Job \union {None}
    BY DEF RowsInv
  <2> QED BY <2>1, RowLater
<1>2. n # 0 => n \in 1..Len(autos)
  <2>1. Len(autos) \in Nat
    OBVIOUS
  <2> QED BY <2>1, SMT
<1>3. n # 0 => /\ a \in Lawful /\ adopted \in Seq(Lawful) /\ Grown(adopted)
               /\ Len(adopted) = Len(autos) /\ adopted[n] = a
  <2> SUFFICES ASSUME n # 0
               PROVE  /\ a \in Lawful /\ adopted \in Seq(Lawful) /\ Grown(adopted)
                      /\ Len(adopted) = Len(autos) /\ adopted[n] = a
    OBVIOUS
  <2>1. a \in Lawful
    BY <1>1, <1>2, ElementLawful, AdoptedLawful
  <2> HIDE DEF a
  <2> QED BY <1>2, <2>1, ReplacedLawful
<1>4. UNCHANGED <<active, past, moves, looks>>
  BY DEF HandleAgentCompletion
<1>5. CASE ~Concerned(s, autos)
  <2>1. /\ automations' \in {autos} \cup (IF n # 0 THEN {adopted} ELSE {})
        /\ sessions' = ss /\ UNCHANGED <<task, job, handler>>
    BY <1>5 DEF HandleAgentCompletion
  <2> HIDE DEF adopted
  <2> QED BY <1>1, <1>3, <1>4, <2>1 DEF Kept, Continues
<1>6. CASE Concerned(s, autos)
  <2>1. n # 0
    BY <1>6 DEF Concerned
  <2> DEFINE fallback == /\ outcome # "completed" /\ FallbackSteps > 0 /\ HasNext(a)
                         /\ a.step <= MaxFallbackAttempts
             Object(satisfied) == Marked(task, s, IF satisfied THEN "done" ELSE "over")
  <2>2. PICK satisfied \in Satisfied(a, outcome) :
          LET recover == ShouldRecover(a, satisfied)
              object == Object(satisfied)
          IN \/ satisfied /\ HasNext(a)
                /\ NextStep(h, "step", n, s, adopted, object, FALSE) /\ sessions' = ss
             \/ satisfied /\ ~HasNext(a)
                /\ Complete(h, n, s, adopted, object) /\ sessions' = ss
             \/ fallback
                /\ NextStep(h, "fallback", n, s, adopted, object, recover) /\ sessions' = ss
             \/ ~satisfied /\ ~fallback /\ recover
                /\ NotifyAndRecover(h, n, s, adopted, ss, object)
             \/ ~satisfied /\ ~fallback /\ ~recover
                /\ Fail(h, n, s, adopted, object) /\ sessions' = ss
    BY <1>6 DEF HandleAgentCompletion
  <2> DEFINE recover == ShouldRecover(a, satisfied)
             object == Object(satisfied)
  <2>3. RowIn(object, ss)
    BY <1>1, MarkedRow
  <2>4. recover \in BOOLEAN
    BY DEF ShouldRecover
  <2>5. n \in 1..Len(adopted) /\ adopted \in Seq(Lawful) /\ Grown(adopted) /\ adopted[n] = a
    BY <1>2, <1>3, <2>1
  <2> HIDE DEF n, a, adopted, Object
  <2>6. CASE sessions' = ss /\ HasNext(a)
             /\ \/ NextStep(h, "step", n, s, adopted, object, FALSE)
                \/ NextStep(h, "fallback", n, s, adopted, object, recover)
    <3> HIDE DEF recover
    <3>1. Kept(h, ss)
      BY <2>3, <2>4, <2>5, <2>6, NextStepKept
    <3> QED BY <1>4, <2>6, <3>1
  <2>7. CASE sessions' = ss /\ Complete(h, n, s, adopted, object)
    BY <1>1, <1>4, <2>3, <2>5, <2>7, CompleteKept
  <2>8. CASE sessions' = ss /\ Fail(h, n, s, adopted, object)
    BY <1>1, <1>4, <2>3, <2>5, <2>8, FailKept
  <2>9. CASE NotifyAndRecover(h, n, s, adopted, ss, object)
    <3>1. Kept(h, sessions') /\ sessions' \in Seq(Session) /\ Later(ss, sessions')
      BY <1>1, <2>3, <2>5, <2>9, NotifyKept
    <3> QED BY <1>1, <1>4, <3>1, LaterTransitive
  <2> QED BY <2>2, <2>6, <2>7, <2>8, <2>9
<1> QED BY <1>5, <1>6

-----------------------------------------------------------------------------
(* Looking at the board. *)
LEMMA JobHandlerIn ==
  ASSUME NEW n, NEW ss, NEW a, a.column \in Column, a.step \in Nat \ {0}, NEW m \in Nat,
         NEW t, RowIn(t, ss), NEW pc \in {"start", "revive"}
  PROVE  /\ NewHandler("job", m, a).job \in Job
         /\ HandlerIn([NewHandler("job", m, a) EXCEPT !.pc = pc, !.read = t], n, ss)
<1> DEFINE made == NewHandler("job", m, a)
           hs == [made EXCEPT !.pc = pc, !.read = t]
<1>1. [automation |-> m, column |-> a.column, step |-> a.step] \in Job
  BY DEF Job
<1>2. made \in HandlerState /\ made.job \in Job /\ made.kind = "job"
  BY <1>1 DEF NewHandler, HandlerState
<1> HIDE DEF made
<1>3. t \in Task
  BY DEF RowIn
<1>4. hs \in HandlerState /\ hs.kind = "job" /\ hs.pc = pc /\ hs.read = t
  BY <1>2, <1>3 DEF HandlerState
<1> HIDE DEF hs
<1>5. HandlerIn(hs, n, ss)
  BY <1>4 DEF HandlerIn
<1> QED BY <1>2, <1>5 DEF hs, made

LEMMA StartStepKept ==
  ASSUME NEW h \in Handler, NEW n, NEW ss, job \in Job \union {None},
         NEW k \in Column, NEW step \in Nat \ {0}, NEW t, RowIn(t, ss), StartStep(h, k, step, t)
  PROVE  job' \in Job \union {None} /\ Continues(h, n, ss)
<1> DEFINE a == [column |-> k, step |-> step]
           made == NewHandler("job", 0, a)
           hs == [made EXCEPT !.pc = "start", !.read = t]
<1>1. a.column \in Column /\ a.step \in Nat \ {0}
  OBVIOUS
<1>2. made.job \in Job /\ HandlerIn(hs, n, ss)
  <2> HIDE DEF a
  <2> QED BY <1>1, JobHandlerIn
<1>3. /\ job' \in {job, None, made.job}
      /\ handler' \in {[handler EXCEPT ![h] = None], [handler EXCEPT ![h] = hs]}
  BY DEF StartStep, Ends, Becomes
<1> HIDE DEF made, hs
<1> QED BY <1>2, <1>3 DEF Continues

LEMMA ReviveCardKept ==
  ASSUME RowsInv, NEW h \in Handler, NEW object, RowIn(object, sessions), ReviveCard(h, object)
  PROVE  Kept(h, sessions) /\ active' \in 0..Len(automations')
<1>1. PICK dead \in SUBSET {s \in Shown(object) : Doubtful(s)},
           status \in IF Summaries THEN {"over", "done"} ELSE {"over"} :
        LET row == Sanitized(object, dead, status)
            t == IF row = object THEN task ELSE row
            k == row.column
            stays == \/ row.trigger # 0 \/ k \notin Automated
                     \/ \E i \in Current(row) : row.lanes[i].status = "running"
        IN
        \/ stays /\ Ends(h) /\ task' = t /\ UNCHANGED <<job, automations, active>>
        \/ ~stays /\ \E step \in StepsTaken(row) :
             IF step \in 1..(LaneSteps[k] - 1)
             THEN StartStep(h, k, step + 1, t) /\ task' = t /\ UNCHANGED <<automations, active>>
             ELSE Transition(h, k, FALSE, t, job, automations)
  BY DEF ReviveCard
<1> DEFINE row == Sanitized(object, dead, status)
           t == IF row = object THEN task ELSE row
           k == row.column
<1>2. RowIn(row, sessions) /\ RowIn(t, sessions) /\ k \in Column
  <2>1. status \in {"running", "over", "done"}
    OBVIOUS
  <2>2. RowIn(row, sessions) /\ RowIn(task, sessions)
    BY <2>1, SanitizedRow DEF RowsInv
  <2> HIDE DEF row
  <2> QED BY <2>2 DEF RowIn, Task
<1>3. /\ automations \in Seq(Lawful) /\ Grown(automations) /\ job \in Job \union {None}
      /\ active \in 0..Len(automations) /\ sessions \in Seq(Session)
  <2>1. automations \in Seq(Lawful)
    BY DEF RowsInv
  <2>2. Len(automations) \in Nat
    BY <2>1
  <2>3. Grown(automations)
    BY <2>2, SMT DEF Grown
  <2> QED BY <2>3 DEF RowsInv
<1>4. \/ Ends(h) /\ task' = t /\ UNCHANGED <<job, automations, active>>
      \/ \E step : step \in 1..(LaneSteps[k] - 1) /\ StartStep(h, k, step + 1, t)
                   /\ task' = t /\ UNCHANGED <<automations, active>>
      \/ Transition(h, k, FALSE, t, job, automations)
  BY <1>1
<1> HIDE DEF row, t, k
<1>5. CASE Ends(h) /\ task' = t /\ UNCHANGED <<job, automations, active>>
  BY <1>2, <1>3, <1>5 DEF Kept, Continues, Ends, Becomes
<1>6. CASE \E step : step \in 1..(LaneSteps[k] - 1) /\ StartStep(h, k, step + 1, t)
                     /\ task' = t /\ UNCHANGED <<automations, active>>
  <2>1. PICK step : step \in 1..(LaneSteps[k] - 1) /\ StartStep(h, k, step + 1, t)
                    /\ task' = t /\ UNCHANGED <<automations, active>>
    BY <1>6
  <2>2. step + 1 \in Nat \ {0}
    <3>1. LaneSteps[k] \in Nat
      BY <1>2, StepAssumption
    <3> QED BY <2>1, <3>1, SMT
  <2>3. job' \in Job \union {None} /\ Continues(h, Len(automations'), sessions)
    BY <1>2, <1>3, <2>1, <2>2, StartStepKept
  <2> QED BY <1>2, <1>3, <2>1, <2>3 DEF Kept
<1>7. CASE Transition(h, k, FALSE, t, job, automations)
  BY <1>2, <1>3, <1>7, TransitionKept
<1> QED BY <1>4, <1>5, <1>6, <1>7
-----------------------------------------------------------------------------
(* The actions. *)
LEMMA RowsParts ==
  ASSUME RowsInv
  PROVE  /\ RowIn(task, sessions) /\ job \in Job \union {None}
         /\ automations \in Seq(Lawful) /\ Grown(automations)
         /\ active \in 0..Len(automations) /\ Len(automations) \in Nat
         /\ sessions \in Seq(Session) /\ Later(sessions, sessions) /\ Len(sessions) \in Nat
         /\ \A h \in Handler : handler[h] # None =>
              /\ HandlerIn(handler[h], Len(automations), sessions)
              /\ handler[h] \in HandlerState
<1>1. automations \in Seq(Lawful) /\ sessions \in Seq(Session)
  BY DEF RowsInv
<1>2. Len(automations) \in Nat /\ Len(sessions) \in Nat
  BY <1>1
<1>3. Grown(automations) /\ Later(sessions, sessions)
  BY <1>2, SMT DEF Grown, Later
<1> QED BY <1>2, <1>3 DEF RowsInv

LEMMA KeptInv ==
  ASSUME RowsInv, NEW h \in Handler, Kept(h, sessions'),
         sessions' \in Seq(Session), Later(sessions, sessions'),
         active' \in 0..Len(automations'), past' = past,
         moves' \in 0..MaxMoves, looks' \in 0..MaxLooks, faults' \in 0..MaxFaults
  PROVE  RowsInv'
<1>1. /\ automations' \in Seq(Lawful) /\ Len(automations) \in Nat /\ Len(automations') \in Nat
      /\ Len(automations) <= Len(automations') /\ sessions \in Seq(Session)
      /\ Len(sessions) \in Nat /\ Len(sessions') \in Nat
  <2>1. automations' \in Seq(Lawful) /\ Grown(automations')
    BY DEF Kept
  <2>2. Len(automations') \in Nat /\ Len(sessions') \in Nat
    BY <2>1
  <2> QED BY <2>1, <2>2, RowsParts DEF Grown
<1>2. \A g \in Handler : handler[g] # None => HandlerIn(handler[g], Len(automations'), sessions')
  BY <1>1, RowsParts, HandlerLater
<1>3. handler' \in [Handler -> HandlerState \union {None}]
  BY DEF Kept, Continues, RowsInv, HandlerIn
<1>4. \A g \in Handler : handler'[g] # None => HandlerIn(handler'[g], Len(automations'), sessions')
  BY <1>2 DEF Kept, Continues, RowsInv
<1>5. past' \in 0..Len(sessions')
  <2>1. past \in 0..Len(sessions) /\ Len(sessions) <= Len(sessions')
    BY DEF RowsInv, Later
  <2> QED BY <1>1, <2>1, SMT
<1> QED BY <1>3, <1>4, <1>5 DEF RowsInv, Kept

LEMMA CounterTypes ==
  ASSUME RowsInv
  PROVE  /\ moves < MaxMoves /\ moves' = moves + 1 => moves' \in 0..MaxMoves
         /\ looks < MaxLooks /\ looks' = looks + 1 => looks' \in 0..MaxLooks
         /\ faults < MaxFaults /\ faults' = faults + 1 => faults' \in 0..MaxFaults
BY BoundAssumption, SMT DEF RowsInv

LEMMA MoveRows ==
  ASSUME RowsInv, NEW h \in Handler, NEW k \in Column, Move(h, k) PROVE RowsInv'
<1> DEFINE t == Arrived(Finalized(task), k)
<1>1. RowIn(t, sessions)
  BY RowsParts, FinalizedRow, RowChanges
<1>2. \/ Transition(h, k, TRUE, t, None, automations)
      \/ Transition(h, k, FALSE, t, job, automations)
  BY DEF Move
<1> HIDE DEF t
<1>3. Kept(h, sessions) /\ active' \in 0..Len(automations')
  BY <1>1, <1>2, RowsParts, TransitionKept
<1>4. moves' \in 0..MaxMoves /\ looks' \in 0..MaxLooks /\ faults' \in 0..MaxFaults
  BY CounterTypes DEF Move, RowsInv
<1>5. sessions' = sessions /\ past' = past
  BY DEF Move
<1> QED BY <1>3, <1>4, <1>5, RowsParts, KeptInv

LEMMA SessionLater ==
  ASSUME NEW ss \in Seq(Session), NEW s, NEW x, NEW state, NEW reported,
         s \in 1..Len(ss) => x = ss[s],
         x \in Session =>
           /\ [x EXCEPT !.state = state, !.reported = reported] \in Session
           /\ [x EXCEPT !.state = state, !.reported = reported].column = x.column
  PROVE  /\ [ss EXCEPT ![s] = [x EXCEPT !.state = state, !.reported = reported]] \in Seq(Session)
         /\ Later(ss, [ss EXCEPT ![s] = [x EXCEPT !.state = state, !.reported = reported]])
<1> DEFINE y == [x EXCEPT !.state = state, !.reported = reported]
           new == [ss EXCEPT ![s] = y]
<1>1. DOMAIN ss = 1..Len(ss) /\ Len(ss) \in Nat /\ \A i \in 1..Len(ss) : ss[i] \in Session
  OBVIOUS
<1>2. s \in 1..Len(ss) => y \in Session /\ y.column = ss[s].column
  BY <1>1
<1> HIDE DEF y
<1>3. \A i \in 1..Len(ss) : new[i] \in Session /\ new[i].column = ss[i].column
  BY <1>1, <1>2
<1>4. new = [i \in 1..Len(ss) |-> new[i]]
  BY <1>1
<1> HIDE DEF new
<1>5. new \in Seq(Session) /\ Len(new) = Len(ss)
  <2>1. new \in [1..Len(ss) -> Session]
    BY <1>3, <1>4
  <2> QED BY <1>1, <2>1
<1>6. Later(ss, new)
  BY <1>1, <1>3, <1>5, SMT DEF Later
<1> QED BY <1>5, <1>6 DEF new, y

LEMMA ReportedLater ==
  ASSUME NEW ss \in Seq(Session), NEW s
  PROVE  /\ [ss EXCEPT ![s].reported = TRUE] \in Seq(Session)
         /\ Later(ss, [ss EXCEPT ![s].reported = TRUE])
<1> DEFINE new == [ss EXCEPT ![s].reported = TRUE]
<1>1. DOMAIN ss = 1..Len(ss) /\ Len(ss) \in Nat /\ \A i \in 1..Len(ss) : ss[i] \in Session
  OBVIOUS
<1>2. \A x \in Session : /\ [x EXCEPT !.reported = TRUE] \in Session
                         /\ [x EXCEPT !.reported = TRUE].column = x.column
  BY DEF Session
<1>3. \A i \in 1..Len(ss) : new[i] \in {ss[i], [ss[i] EXCEPT !.reported = TRUE]}
  BY <1>1
<1>4. \A i \in 1..Len(ss) : new[i] \in Session /\ new[i].column = ss[i].column
  BY <1>1, <1>2, <1>3
<1>5. new = [i \in 1..Len(ss) |-> new[i]]
  BY <1>1
<1> HIDE DEF new
<1>6. new \in Seq(Session) /\ Len(new) = Len(ss)
  <2>1. new \in [1..Len(ss) -> Session]
    BY <1>4, <1>5
  <2> QED BY <1>1, <2>1
<1>7. Later(ss, new)
  BY <1>1, <1>4, <1>6, SMT DEF Later
<1> QED BY <1>6, <1>7 DEF new

LEMMA CompletionRows ==
  ASSUME RowsInv, NEW h \in Handler, NEW s \in Nat \ {0},
         NEW outcome, NEW autos \in Seq(Lawful), Len(autos) = Len(automations),
         NEW ss \in Seq(Session), Later(sessions, ss),
         HandleAgentCompletion(h, s, outcome, autos, ss), faults' \in 0..MaxFaults
  PROVE  RowsInv'
<1>1. Grown(autos) /\ active \in 0..Len(autos)
  BY RowsParts DEF Grown
<1>2. /\ Kept(h, sessions') /\ sessions' \in Seq(Session) /\ Later(sessions, sessions')
      /\ UNCHANGED <<active, past, moves, looks>>
  BY <1>1, CompletionKept
<1>3. active' \in 0..Len(automations')
  <2>1. Len(automations') \in Nat /\ Len(automations) <= Len(automations')
    <3>1. automations' \in Seq(Lawful) /\ Grown(automations')
      BY <1>2 DEF Kept
    <3>2. Len(automations') \in Nat
      BY <3>1
    <3> QED BY <3>1, <3>2 DEF Grown
  <2>2. active \in 0..Len(automations) /\ Len(automations) \in Nat
    BY RowsParts
  <2> QED BY <1>2, <2>1, <2>2, SMT
<1>4. moves' \in 0..MaxMoves /\ looks' \in 0..MaxLooks
  BY <1>2 DEF RowsInv
<1> QED BY <1>2, <1>3, <1>4, KeptInv

LEMMA EventRows ==
  ASSUME RowsInv, NEW h \in Handler, NEW s \in DOMAIN sessions,
         Report(h, s) \/ \E outcome \in {"completed", "failed"} : EndTurn(h, s, outcome)
  PROVE  RowsInv'
<1>1. s \in Nat \ {0}
  <2>1. DOMAIN sessions = 1..Len(sessions) /\ Len(sessions) \in Nat
    BY RowsParts
  <2> QED BY <2>1, SMT
<1>2. CASE Report(h, s)
  <2>1. faults' \in 0..MaxFaults
    BY <1>2, CounterTypes DEF Report
  <2> DEFINE ss == [sessions EXCEPT ![s].reported = TRUE]
  <2>2. HandleAgentCompletion(h, s, "completed", automations, ss)
    BY <1>2 DEF Report
  <2>3. ss \in Seq(Session) /\ Later(sessions, ss)
    BY RowsParts, ReportedLater
  <2> HIDE DEF ss
  <2> QED BY <1>1, <2>1, <2>2, <2>3, RowsParts, CompletionRows
<1>3. CASE \E outcome \in {"completed", "failed"} : EndTurn(h, s, outcome)
  <2>1. PICK outcome \in {"completed", "failed"} : EndTurn(h, s, outcome)
    BY <1>3
  <2>2. faults' \in 0..MaxFaults
    BY <2>1 DEF EndTurn, RowsInv
  <2> DEFINE x == sessions[s]
             state == IF x.state = "timedout" THEN "late" ELSE outcome
             reported == x.reported \/ outcome = "completed"
             ss == [sessions EXCEPT ![s] = [x EXCEPT !.state = state, !.reported = reported]]
  <2>3. HandleAgentCompletion(h, s, outcome, automations, ss)
    BY <2>1 DEF EndTurn
  <2>4. ss \in Seq(Session) /\ Later(sessions, ss)
    <3>1. state \in {"late", "completed", "failed"} /\ reported \in BOOLEAN
      OBVIOUS
    <3> HIDE DEF state, reported
    <3>2. x \in Session =>
            /\ [x EXCEPT !.state = state, !.reported = reported] \in Session
            /\ [x EXCEPT !.state = state, !.reported = reported].column = x.column
      BY <3>1 DEF Session
    <3> QED BY <3>2, RowsParts, SessionLater
  <2> HIDE DEF ss
  <2> QED BY <1>1, <2>2, <2>3, <2>4, RowsParts, CompletionRows
<1> QED BY <1>2, <1>3

LEMMA ScanRows ==
  ASSUME RowsInv, NEW h \in Handler, Scan(h) PROVE RowsInv'
<1> DEFINE s == automations[active].session
           signaled == Signaled(automations, active, s)
<1>1. active \in 1..Len(automations)
  <2>1. active # 0
    BY DEF Scan
  <2> QED BY <2>1, RowsParts, SMT
<1>2. s \in Nat \ {0}
  BY <1>1, RowsParts, ElementLawful DEF Scan, Inactive
<1>4. faults' \in 0..MaxFaults
  BY DEF Scan, RowsInv
<1>5. \/ HandleAgentCompletion(h, s, "failed", signaled, sessions)
      \/ HandleAgentCompletion(h, s, "timedout", signaled, InState(s, "timedout"))
  BY DEF Scan
<1>6. signaled \in Seq(Lawful) /\ Len(signaled) = Len(automations)
  BY <1>1, <1>2, RowsParts, SignaledLawful
<1> HIDE DEF signaled, s
<1>7. InState(s, "timedout") \in Seq(Session) /\ Later(sessions, InState(s, "timedout"))
  BY RowsParts, StateLater DEF InState
<1> QED BY <1>2, <1>4, <1>5, <1>6, <1>7, RowsParts, CompletionRows

(* A step that changes no automation and no session. *)
LEMMA QuietRows ==
  ASSUME RowsInv, NEW h \in Handler, RowIn(task', sessions), job' \in Job \union {None},
         Continues(h, Len(automations), sessions),
         UNCHANGED <<automations, active, sessions, past>>,
         moves' \in 0..MaxMoves, looks' \in 0..MaxLooks, faults' \in 0..MaxFaults
  PROVE  RowsInv'
<1>1. Kept(h, sessions')
  BY RowsParts DEF Kept
<1> QED BY <1>1, RowsParts, KeptInv

LEMMA StartSucceedsRows ==
  ASSUME RowsInv, NEW h \in Handler, StartSucceeds(h) PROVE RowsInv'
<1> DEFINE hs == handler[h]
           s == Len(sessions) + 1
           k == hs.read.column
           x == [automation |-> hs.job.automation, column |-> k, step |-> hs.job.step,
                 state |-> "live", reported |-> FALSE]
           q == hs.read.lanes
           others == [i \in DOMAIN q |-> IF q[i].status = "running" /\ q[i].column # k
                                         THEN [q[i] EXCEPT !.status = "done"] ELSE q[i]]
           own == [session |-> s, column |-> k, status |-> "running"]
           hs2 == [hs EXCEPT !.pc = "returned", !.result = s, !.read = None]
<1>1. /\ HandlerIn(hs, Len(automations), sessions) /\ hs \in HandlerState /\ hs.pc = "start"
      /\ hs.read \in Task /\ hs.job \in Job
  BY RowsParts DEF StartSucceeds, At, HandlerIn, HandlerState, RowIn
<1>2. q \in Seq(LaneSession) /\ k \in Column /\ k = hs.read.column
  BY <1>1 DEF Task
<1>3. s \in Nat \ {0} /\ s \in 0..s /\ s \in 1..s /\ Len(sessions) \in Nat
  BY RowsParts, SMT
<1>4. x \in Session /\ x.column = k
  BY <1>1, <1>2 DEF Session, Job
<1>5. sessions' = Append(sessions, x) /\ Becomes(h, hs2)
      /\ task' = [hs.read EXCEPT !.trigger = s, !.lanes = Append(others, own)]
  BY DEF StartSucceeds
<1>6. others \in Seq(LaneSession)
  <2>1. \A i \in DOMAIN q : q[i] \in LaneSession
    BY <1>2
  <2> HIDE DEF q, k
  <2>2. \A i \in DOMAIN q : others[i] \in LaneSession
    BY <2>1, RestatedLane
  <2>3. others = [i \in DOMAIN q |-> others[i]]
    OBVIOUS
  <2> HIDE DEF others
  <2> QED BY <1>2, <2>2, <2>3, MappedLanes
<1>7. own \in LaneSession
  BY <1>2, <1>3 DEF LaneSession
<1> HIDE DEF x, q, others, own, s, k
<1>8. Append(others, own) \in Seq(LaneSession)
  BY <1>6, <1>7
<1>9. task' \in Task /\ task'.trigger = s /\ task'.column = k
  BY <1>1, <1>2, <1>3, <1>5, <1>8 DEF Task
<1>10. /\ sessions' \in Seq(Session) /\ Len(sessions') = s /\ sessions'[s] = x
       /\ \A i \in 1..Len(sessions) : sessions'[i] = sessions[i]
  BY <1>4, <1>5, RowsParts DEF s
<1>11. Later(sessions, sessions')
  BY <1>3, <1>10, SMT DEF Later, s
<1>12. RowIn(task', sessions')
  BY <1>3, <1>4, <1>9, <1>10 DEF RowIn
<1>13. HandlerIn(hs2, Len(automations), sessions')
  <2>1. HandlerIn(hs, Len(automations), sessions')
    BY <1>1, <1>10, <1>11, RowsParts, HandlerLater, SMT
  <2> HIDE DEF hs
  <2>2. s \in Nat /\ hs.pc # "artifact"
    BY <1>1, <1>3
  <2> QED BY <2>1, <2>2, AnswersIn
<1>14. UNCHANGED <<job, automations, active, past, moves, looks, faults>>
  BY DEF StartSucceeds
<1> HIDE DEF hs2, hs
<1>15. Kept(h, sessions')
  BY <1>5, <1>12, <1>13, <1>14, RowsParts DEF Kept, Continues, Becomes
<1>16. moves' \in 0..MaxMoves /\ looks' \in 0..MaxLooks /\ faults' \in 0..MaxFaults
  BY <1>14 DEF RowsInv
<1> QED BY <1>10, <1>11, <1>14, <1>15, <1>16, RowsParts, KeptInv

LEMMA StartFailsRows ==
  ASSUME RowsInv, NEW h \in Handler, StartFails(h) PROVE RowsInv'
<1> DEFINE hs == handler[h]
<1>1. HandlerIn(hs, Len(automations), sessions) /\ hs.pc = "start"
  BY RowsParts DEF StartFails, At
<1>2. RowIn(task', sessions)
  BY <1>1, RowsParts DEF StartFails, HandlerIn
<1>3. HandlerIn([hs EXCEPT !.pc = "returned", !.read = None], Len(automations), sessions)
  <2>1. 0 \in Nat /\ hs.pc # "artifact"
    BY <1>1
  <2> HIDE DEF hs
  <2> QED BY <1>1, <2>1, AnswersIn
<1>4. handler' = [handler EXCEPT ![h] = [hs EXCEPT !.pc = "returned", !.read = None]]
  BY DEF StartFails, Becomes
<1>5. Continues(h, Len(automations), sessions)
  BY <1>3, <1>4 DEF Continues
<1>6. moves' \in 0..MaxMoves /\ looks' \in 0..MaxLooks /\ faults' \in 0..MaxFaults
  BY CounterTypes DEF StartFails, RowsInv
<1>7. job' = None /\ UNCHANGED <<automations, active, sessions, past>>
  BY DEF StartFails
<1> QED BY <1>2, <1>5, <1>6, <1>7, QuietRows

LEMMA PromoteRows ==
  ASSUME RowsInv, NEW h \in Handler, Promote(h) PROVE RowsInv'
<1> DEFINE hs == [NewHandler("job", job.automation, job) EXCEPT !.pc = "start", !.read = task]
<1>1. job \in Job
  BY RowsParts DEF Promote
<1>2. job.column \in Column /\ job.step \in Nat \ {0} /\ job.automation \in Nat
  BY <1>1 DEF Job
<1>3. HandlerIn(hs, Len(automations), sessions)
  BY <1>2, RowsParts, JobHandlerIn
<1>4. handler' \in {handler, [handler EXCEPT ![h] = hs]}
  BY DEF Promote, Becomes
<1> HIDE DEF hs
<1>5. Continues(h, Len(automations), sessions)
  BY <1>3, <1>4 DEF Continues
<1>6. job' = None /\ UNCHANGED <<task, automations, active, sessions, past, moves, looks, faults>>
  BY DEF Promote
<1>7. moves' \in 0..MaxMoves /\ looks' \in 0..MaxLooks /\ faults' \in 0..MaxFaults
  BY <1>6 DEF RowsInv
<1> QED BY <1>5, <1>6, <1>7, RowsParts, QuietRows

LEMMA ReturnRows ==
  ASSUME RowsInv, NEW h \in Handler, Return(h) PROVE RowsInv'
<1> DEFINE hs == handler[h]
           n == hs.job.automation
           a == RunningWith(automations[n], hs.result)
           started == [automations EXCEPT ![n] = a]
           autos == IF hs.result = 0 THEN automations ELSE started
           f == [automations[n] EXCEPT !.status = "failed"]
           failed == [automations EXCEPT ![n] = f]
<1>1. /\ HandlerIn(hs, Len(automations), sessions) /\ hs \in HandlerState /\ hs.pc = "returned"
      /\ hs.result \in Nat /\ hs.job.column \in Column
  BY RowsParts DEF Return, At, HandlerIn, HandlerState, Job
<1>2. UNCHANGED <<past, moves, looks, faults>>
  BY DEF Return
<1>3. moves' \in 0..MaxMoves /\ looks' \in 0..MaxLooks /\ faults' \in 0..MaxFaults
  BY <1>2 DEF RowsInv
<1>4. ASSUME hs.kind # "job"
      PROVE  /\ n \in 1..Len(automations)
             /\ autos \in Seq(Lawful) /\ Grown(autos) /\ Len(autos) = Len(automations)
             /\ failed \in Seq(Lawful) /\ Grown(failed) /\ Len(failed) = Len(automations)
  <2>1. n \in 1..Len(automations)
    BY <1>1, <1>4 DEF HandlerIn
  <2>2. a \in Lawful /\ f \in Lawful
    BY <1>1, <2>1, RowsParts, ElementLawful, ChangedLawful
  <2> HIDE DEF n, a, f
  <2>3. /\ started \in Seq(Lawful) /\ Grown(started) /\ Len(started) = Len(automations)
        /\ failed \in Seq(Lawful) /\ Grown(failed) /\ Len(failed) = Len(automations)
    BY <2>1, <2>2, RowsParts, ReplacedLawful
  <2> HIDE DEF started, failed
  <2> QED BY <2>1, <2>3, RowsParts
<1>5. CASE hs.kind = "job"
  <2>1. Ends(h) /\ UNCHANGED <<task, job, automations, active, sessions>>
    BY <1>5 DEF Return
  <2>2. Continues(h, Len(automations), sessions)
    BY <2>1 DEF Continues, Ends, Becomes
  <2> QED BY <1>2, <1>3, <2>1, <2>2, RowsParts, QuietRows
<1>6. CASE hs.kind = "transition" /\ hs.echo
  <2>1. Transition(h, hs.job.column, FALSE, task, job, autos) /\ UNCHANGED sessions
    BY <1>6 DEF Return
  <2>2. autos \in Seq(Lawful) /\ Grown(autos) /\ active \in 0..Len(autos)
    BY <1>4, <1>6, RowsParts
  <2> HIDE DEF hs, n, autos
  <2>3. Kept(h, sessions) /\ active' \in 0..Len(automations')
    BY <1>1, <2>1, <2>2, RowsParts, TransitionKept
  <2> QED BY <1>2, <1>3, <2>1, <2>3, RowsParts, KeptInv
<1>7. CASE \/ hs.kind = "transition" /\ ~hs.echo
           \/ hs.kind \in {"step", "fallback", "recovery"} /\ hs.result # 0
  <2>1. /\ Ends(h) /\ UNCHANGED <<task, job, active, sessions>>
        /\ automations' \in {autos, Signaled(autos, n, hs.event)}
    BY <1>7 DEF Return
  <2>2. autos \in Seq(Lawful) /\ Grown(autos) /\ n \in 1..Len(autos) /\ hs.event \in Nat
    BY <1>1, <1>4, <1>7, RowsParts DEF HandlerState
  <2>3. Len(autos) = Len(automations)
    BY <1>4, <1>7
  <2> HIDE DEF hs, n, autos
  <2>4. /\ automations' \in Seq(Lawful) /\ Grown(automations')
        /\ Len(automations') = Len(automations)
    BY <2>1, <2>2, <2>3, SignaledLawful
  <2>5. active' \in 0..Len(automations')
    BY <2>1, <2>4, RowsParts
  <2>6. Kept(h, sessions)
    BY <2>1, <2>4, RowsParts DEF Kept, Continues, Ends, Becomes
  <2> QED BY <1>2, <1>3, <2>1, <2>5, <2>6, RowsParts, KeptInv
<1>8. CASE hs.kind = "fallback" /\ hs.result = 0 /\ hs.recover
  <2>1. NotifyAndRecover(h, n, hs.event, failed, sessions, hs.task) /\ UNCHANGED active
    BY <1>8 DEF Return
  <2>2. /\ n \in 1..Len(failed) /\ failed \in Seq(Lawful) /\ Grown(failed)
        /\ Len(failed) = Len(automations) /\ RowIn(hs.task, sessions) /\ hs.event \in Nat
    BY <1>1, <1>4, <1>8 DEF HandlerIn, HandlerState
  <2> HIDE DEF hs, n, failed
  <2>3. Kept(h, sessions') /\ sessions' \in Seq(Session) /\ Later(sessions, sessions')
    BY <2>1, <2>2, RowsParts, NotifyKept
  <2>4. active' \in 0..Len(automations')
    <3>1. automations' \in Seq(Lawful) /\ Grown(automations')
      BY <2>3 DEF Kept
    <3>2. Len(automations') \in Nat
      BY <3>1
    <3>3. active \in 0..Len(automations) /\ Len(automations) \in Nat
      BY RowsParts
    <3> QED BY <2>1, <3>1, <3>2, <3>3, SMT DEF Grown
  <2> QED BY <1>2, <1>3, <2>3, <2>4, KeptInv
<1>9. CASE /\ hs.kind \in {"step", "recovery"} \/ (hs.kind = "fallback" /\ ~hs.recover)
           /\ hs.result = 0
  <2>1. Fail(h, n, hs.event, failed, hs.task) /\ UNCHANGED <<active, sessions>>
    BY <1>9 DEF Return
  <2>2. /\ n \in 1..Len(failed) /\ failed \in Seq(Lawful) /\ Grown(failed)
        /\ Len(failed) = Len(automations) /\ RowIn(hs.task, sessions) /\ hs.event \in Nat
    BY <1>1, <1>4, <1>9 DEF HandlerIn, HandlerState
  <2> HIDE DEF hs, n, failed
  <2>3. Kept(h, sessions) /\ Len(automations') = Len(failed)
    BY <2>1, <2>2, RowsParts, FailKept
  <2>4. active' \in 0..Len(automations')
    BY <2>1, <2>2, <2>3, RowsParts
  <2> QED BY <1>2, <1>3, <2>1, <2>3, <2>4, RowsParts, KeptInv
<1> QED BY <1>5, <1>6, <1>7, <1>8, <1>9 DEF Return

LEMMA FinishNotifyRows ==
  ASSUME RowsInv, NEW h \in Handler, FinishNotify(h) PROVE RowsInv'
<1> DEFINE hs == handler[h]
           n == hs.job.automation
<1>1. /\ Recover(h, n, hs.event, automations, hs.task)
      /\ UNCHANGED <<active, sessions, past, moves, looks, faults>>
  BY DEF FinishNotify
<1>2. n \in 1..Len(automations) /\ RowIn(hs.task, sessions) /\ hs.event \in Nat
  BY RowsParts DEF FinishNotify, At, HandlerIn, HandlerState
<1>3. moves' \in 0..MaxMoves /\ looks' \in 0..MaxLooks /\ faults' \in 0..MaxFaults
  BY <1>1 DEF RowsInv
<1> HIDE DEF hs, n
<1>4. Kept(h, sessions)
  BY <1>1, <1>2, RowsParts, RecoverKept
<1>5. active' \in 0..Len(automations')
  <2>1. automations' \in Seq(Lawful) /\ Grown(automations')
    BY <1>4 DEF Kept
  <2>2. Len(automations') \in Nat
    BY <2>1
  <2>3. active \in 0..Len(automations) /\ Len(automations) \in Nat
    BY RowsParts
  <2> QED BY <1>1, <2>1, <2>2, <2>3, SMT DEF Grown
<1> QED BY <1>1, <1>3, <1>4, <1>5, RowsParts, KeptInv

LEMMA TimerLawful ==
  ASSUME RowsInv, NEW n, NEW timer \in BOOLEAN
  PROVE  /\ [automations EXCEPT ![n].timer = timer] \in Seq(Lawful)
         /\ Len([automations EXCEPT ![n].timer = timer]) = Len(automations)
<1>1. CASE n \in 1..Len(automations)
  <2> DEFINE a == [automations[n] EXCEPT !.timer = timer]
  <2>1. a \in Lawful
    BY <1>1, RowsParts, ElementLawful, ChangedLawful
  <2> HIDE DEF a
  <2>2. /\ [automations EXCEPT ![n] = a] \in Seq(Lawful)
        /\ Len([automations EXCEPT ![n] = a]) = Len(automations)
    BY <1>1, <2>1, RowsParts, ReplacedLawful
  <2> QED BY <2>2 DEF a
<1>2. CASE n \notin 1..Len(automations)
  <2>1. automations \in Seq(Lawful)
    BY RowsParts
  <2>2. [automations EXCEPT ![n].timer = timer] = automations
    BY <1>2, <2>1
  <2> QED BY <2>1, <2>2
<1> QED BY <1>1, <1>2

LEMMA FinishArtifactRows ==
  ASSUME RowsInv, NEW h \in Handler, FinishArtifact(h) PROVE RowsInv'
<1> DEFINE n == handler[h].job.automation
           k == automations[n].column
           autos == [automations EXCEPT ![n].timer = TRUE]
           t == Arrived(task, k + 1)
<1>1. /\ UNCHANGED <<sessions, past, moves, looks, faults>>
      /\ \/ /\ k \in AutoAdvance /\ k < LastColumn
            /\ Transition(h, k + 1, FALSE, t, None, autos)
         \/ Ends(h) /\ automations' = autos /\ UNCHANGED <<task, job, active>>
  BY DEF FinishArtifact
<1>2. autos \in Seq(Lawful) /\ Len(autos) = Len(automations)
  BY TimerLawful
<1>3. moves' \in 0..MaxMoves /\ looks' \in 0..MaxLooks /\ faults' \in 0..MaxFaults
  BY <1>1 DEF RowsInv
<1> HIDE DEF n, k, autos
<1>4. Grown(autos) /\ active \in 0..Len(autos)
  BY <1>2, RowsParts DEF Grown
<1>5. CASE k \in AutoAdvance /\ k < LastColumn /\ Transition(h, k + 1, FALSE, t, None, autos)
  <2>1. k + 1 \in Column
    <3>1. k \in 1..LastColumn /\ LastColumn \in Nat
      BY <1>5, ColumnAssumption DEF Column
    <3> QED BY <1>5, <3>1, SMT DEF Column
  <2>2. RowIn(t, sessions)
    BY <2>1, RowsParts, RowChanges
  <2> HIDE DEF t
  <2>3. Kept(h, sessions) /\ active' \in 0..Len(automations')
    BY <1>2, <1>4, <1>5, <2>1, <2>2, RowsParts, TransitionKept
  <2> QED BY <1>1, <1>3, <2>3, RowsParts, KeptInv
<1>6. CASE Ends(h) /\ automations' = autos /\ UNCHANGED <<task, job, active>>
  <2>1. Kept(h, sessions)
    BY <1>2, <1>4, <1>6, RowsParts DEF Kept, Continues, Ends, Becomes
  <2> QED BY <1>1, <1>3, <1>4, <1>6, <2>1, RowsParts, KeptInv
<1> QED BY <1>1, <1>5, <1>6

LEMMA CleanupRows ==
  ASSUME RowsInv, NEW n, Cleanup(n) PROVE RowsInv'
<1>1. /\ automations' = [automations EXCEPT ![n].timer = FALSE] /\ active' \in {0, active}
      /\ UNCHANGED <<task, job, sessions, past, handler, moves, looks, faults>>
  BY DEF Cleanup
<1>2. automations' \in Seq(Lawful) /\ Len(automations') = Len(automations)
  BY <1>1, TimerLawful
<1>3. active' \in 0..Len(automations')
  BY <1>1, <1>2, RowsParts, SMT
<1> QED BY <1>1, <1>2, <1>3 DEF RowsInv

LEMMA StallRows ==
  ASSUME RowsInv, NEW s, Stall(s) PROVE RowsInv'
<1>1. PICK state \in {"silent", "broken"} : sessions' = [sessions EXCEPT ![s].state = state]
  BY DEF Stall, InState
<1>2. sessions' \in Seq(Session) /\ Later(sessions, sessions')
  BY <1>1, RowsParts, StateLater
<1>3. UNCHANGED <<task, job, automations, active, past, handler, moves, looks, faults>>
  BY DEF Stall
<1>4. 1 \in Handler
  BY BoundAssumption, SMT DEF Handler
<1>5. RowIn(task, sessions')
  BY <1>2, RowsParts, RowLater
<1>6. Kept(1, sessions')
  BY <1>3, <1>5, RowsParts DEF Kept, Continues
<1>7. moves' \in 0..MaxMoves /\ looks' \in 0..MaxLooks /\ faults' \in 0..MaxFaults
  BY <1>3 DEF RowsInv
<1> QED BY <1>2, <1>3, <1>4, <1>6, <1>7, RowsParts, KeptInv

LEMMA RestartRows ==
  ASSUME RowsInv, Restart PROVE RowsInv'
<1> DEFINE lost(x) == IF x.state = "completed" THEN x ELSE [x EXCEPT !.state = "lost"]
           f(x) == [x EXCEPT !.status = "failed", !.session = 0, !.signaled = {}, !.timer = FALSE]
<1>1. /\ sessions' = [s \in DOMAIN sessions |-> lost(sessions[s])]
      /\ automations' = [n \in DOMAIN automations |-> f(automations[n])]
      /\ active' = 0 /\ job' = None /\ handler' = [h \in Handler |-> None]
      /\ past' = Len(sessions) /\ looks' = 0 /\ UNCHANGED <<task, faults>>
  BY DEF Restart
<1>2. /\ DOMAIN sessions = 1..Len(sessions) /\ Len(sessions) \in Nat
      /\ DOMAIN automations = 1..Len(automations) /\ Len(automations) \in Nat
      /\ \A s \in 1..Len(sessions) : sessions[s] \in Session
  BY RowsParts
<1>3. \A x \in Session : lost(x) \in Session /\ lost(x).column = x.column
  BY DEF Session
<1>4. \A n \in 1..Len(automations) : f(automations[n]) \in Lawful
  <2> SUFFICES ASSUME NEW n \in 1..Len(automations) PROVE f(automations[n]) \in Lawful
    OBVIOUS
  <2>1. automations[n] \in Automation /\ automations[n].step <= Steps(automations[n].column)
    BY RowsParts, ElementLawful DEF Lawful
  <2>2. /\ f(automations[n]) \in Automation /\ f(automations[n]).step = automations[n].step
        /\ f(automations[n]).column = automations[n].column
    BY <2>1 DEF Automation
  <2> QED BY <2>1, <2>2 DEF Lawful
<1> HIDE DEF lost, f
<1>5. automations' \in Seq(Lawful) /\ Len(automations') = Len(automations)
  <2>1. automations' \in [1..Len(automations) -> Lawful]
    BY <1>1, <1>2, <1>4
  <2> QED BY <1>2, <2>1
<1>6. /\ sessions' \in Seq(Session) /\ Len(sessions') = Len(sessions)
      /\ \A s \in 1..Len(sessions) : sessions'[s].column = sessions[s].column
  <2>1. sessions' \in [1..Len(sessions) -> Session]
    BY <1>1, <1>2, <1>3
  <2>2. sessions' \in Seq(Session) /\ Len(sessions') = Len(sessions)
    BY <1>2, <2>1
  <2> QED BY <1>1, <1>2, <1>3, <2>2
<1>7. Later(sessions, sessions')
  BY <1>2, <1>6, SMT DEF Later
<1>8. RowIn(task', sessions')
  BY <1>1, <1>6, <1>7, RowsParts, RowLater
<1>9. past' \in 0..Len(sessions') /\ active' \in 0..Len(automations')
  BY <1>1, <1>2, <1>5, <1>6, SMT
<1>10. moves' \in 0..MaxMoves /\ looks' \in 0..MaxLooks /\ faults' \in 0..MaxFaults
  <2>1. looks' \in 0..MaxLooks
    BY <1>1, BoundAssumption, SMT
  <2> QED BY <1>1, <2>1, CounterTypes DEF Restart, RowsInv
<1> QED BY <1>1, <1>5, <1>6, <1>8, <1>9, <1>10 DEF RowsInv

LEMMA LookRows ==
  ASSUME RowsInv, NEW h \in Handler, Look(h) \/ Revive(h) PROVE RowsInv'
<1>1. sessions' = sessions /\ past' = past /\ moves' = moves /\ faults' = faults
  BY DEF Look, Revive
<1>2. looks' \in 0..MaxLooks
  <2>1. (looks < MaxLooks /\ looks' \in {looks, looks + 1}) \/ looks' = looks
    BY DEF Look, Revive
  <2> QED BY <2>1, CounterTypes DEF RowsInv
<1>3. moves' \in 0..MaxMoves /\ faults' \in 0..MaxFaults
  BY <1>1 DEF RowsInv
<1>4. CASE \E object : RowIn(object, sessions) /\ ReviveCard(h, object)
  <2>1. Kept(h, sessions) /\ active' \in 0..Len(automations')
    BY <1>4, ReviveCardKept
  <2> QED BY <1>1, <1>2, <1>3, <2>1, RowsParts, KeptInv
<1>5. CASE Revive(h)
  <2>1. RowIn(handler[h].read, sessions)
    BY <1>5, RowsParts DEF Revive, At, HandlerIn
  <2> QED BY <1>4, <1>5, <2>1 DEF Revive
<1>6. CASE Look(h)
  <2>1. CASE Undisturbed
    BY <1>4, <1>6, <2>1, RowsParts DEF Look
  <2>2. CASE ~Undisturbed
    <3> DEFINE a == NewAutomation(1)
               hs == [NewHandler("job", 0, a) EXCEPT !.pc = "revive", !.read = task]
    <3>1. Becomes(h, hs) /\ UNCHANGED <<task, job, automations, active>>
      BY <1>6, <2>2 DEF Look
    <3>2. a.column \in Column /\ a.step \in Nat \ {0}
      <4>1. 1 \in Column
        BY ColumnAssumption, SMT DEF Column
      <4> QED BY <4>1 DEF NewAutomation
    <3> HIDE DEF a
    <3>3. HandlerIn(hs, Len(automations), sessions)
      BY <3>2, RowsParts, JobHandlerIn
    <3> HIDE DEF hs
    <3>4. Continues(h, Len(automations), sessions)
      BY <3>1, <3>3 DEF Becomes, Continues
    <3> QED BY <1>1, <1>2, <1>3, <3>1, <3>4, RowsParts, QuietRows
  <2> QED BY <2>1, <2>2
<1> QED BY <1>5, <1>6

LEMMA RowsInit == Init => RowsInv
<1> SUFFICES ASSUME Init PROVE RowsInv
  OBVIOUS
<1>1. task \in [column : Column, trigger : {0}, lanes : {<<>>}]
  BY DEF Init
<1>2. <<>> \in Seq(LaneSession) /\ <<>> \in Seq(Lawful) /\ <<>> \in Seq(Session) /\ Len(<<>>) = 0
  OBVIOUS
<1>3. 0 \in 0..0
  BY SMT
<1>4. RowIn(task, sessions)
  <2>1. sessions = <<>>
    BY DEF Init
  <2>2. PICK c \in Column : task = [column |-> c, trigger |-> 0, lanes |-> <<>>]
    BY <1>1
  <2>3. task \in Task /\ task.trigger = 0
    <3>1. [column |-> c, trigger |-> 0, lanes |-> <<>>] \in Task
      BY <1>2 DEF Task
    <3> QED BY <2>2, <3>1
  <2> QED BY <1>2, <1>3, <2>1, <2>3 DEF RowIn
<1>5. moves \in 0..MaxMoves /\ looks \in 0..MaxLooks /\ faults \in 0..MaxFaults
  BY BoundAssumption, SMT DEF Init
<1>6. active \in 0..Len(automations) /\ past \in 0..Len(sessions)
  BY <1>2, <1>3 DEF Init
<1> QED BY <1>2, <1>4, <1>5, <1>6 DEF Init, RowsInv

LEMMA RowsStep == RowsInv /\ [Next]_vars => RowsInv'
<1> SUFFICES ASSUME RowsInv, [Next]_vars PROVE RowsInv'
  OBVIOUS
<1>1. CASE UNCHANGED vars
  BY <1>1 DEF vars, RowsInv
<1>2. CASE Next
  BY <1>2, ReturnRows, MoveRows, EventRows, ScanRows, PromoteRows, StartSucceedsRows,
     StartFailsRows, FinishNotifyRows, FinishArtifactRows, LookRows, RestartRows, StallRows,
     CleanupRows DEF Next
<1> QED BY <1>1, <1>2

LEMMA RowsInvariant == Spec => []RowsInv
BY RowsInit, RowsStep, PTL DEF Spec

(* The variables keep their types: among them, no automation goes beyond its *)
(* last step (startNextAutomationStep, the fallback chain).                  *)
THEOREM TypeCorrect == Spec => []TypeOK
BY RowsInvariant, RowsInvOK, PTL

(* The session a card shows as its own is one of the column the card is in,  *)
(* for every board, every lane and every supervision mode, however many      *)
(* handlers wait with rows they read before, and whatever is moved, started, *)
(* recovered, lost or looked at meanwhile.                                   *)
THEOREM TriggerOfColumnCorrect == Spec => []TriggerOfColumn
BY RowsInvariant, RowsInvOK, PTL

-----------------------------------------------------------------------------
(* The card is left alone while a session of it is created or its artifact is *)
(* collected, and nothing on its board is supervised, so that no recovery     *)
(* prompt is ever awaited.                                                    *)
Calm == Undisturbed /\ (Dev = {} \/ Mode = "disabled")

Working(x) == x.state = "live" /\ ~x.reported
Ended(x) == x.reported \/ (FallbackSteps > 0 /\ x.state \in {"failed", "late"})
Busy(a) == a.status \in {"queued", "running"}

\* The session an automation knows, or would take as its own (Adopted).
Knows(a, t) == IF a.session = 0 THEN t.trigger ELSE a.session

\* The automations for which a session is being created, or waits for a slot.
Starts(handlers, j) ==
  {handlers[h].job.automation :
     h \in {g \in Handler : handlers[g] # None /\ handlers[g].pc = "start"}}
    \union (IF j = None THEN {} ELSE {j.automation})

\* A session that works is the only one of its automation, and none is started.
Engaged(autos, ss, cur, starts) ==
  \A s \in 1..Len(ss) : Working(ss[s]) /\ ss[s].automation # 0 =>
    /\ ss[s].automation \in 1..Len(autos) /\ ss[s].automation \notin starts
    /\ starts # {} => ss[s].automation # cur
    /\ \A p \in 1..Len(ss) : Working(ss[p]) /\ ss[p].automation = ss[s].automation => p = s

Timers(autos) ==
  \A n \in 1..Len(autos) : autos[n].timer => autos[n].status \in {"completed", "failed"}

\* The card's automation knows the session that works for it, or none.
Attends(a, n, ss, t) ==
  /\ a.status = "queued" => a.session = 0
  /\ a.status = "running" => a.session # 0 /\ t.trigger \in {0, a.session}
  /\ \A s \in 1..Len(ss) : Working(ss[s]) /\ ss[s].automation = n => Knows(a, t) \in {0, s}

\* An automation that did not fail has come to a step because a session of the step
\* before ended.
Precedes(x, n, i) == x.automation = n /\ x.step = i - 1 /\ Ended(x)
Followed(autos, ss) ==
  \A n \in 1..Len(autos) : autos[n].step > 1 /\ autos[n].status # "failed" =>
    \E p \in 1..Len(ss) : Precedes(ss[p], n, autos[n].step)

\* The session it knows does the step the automation has come to.
InStep(a, n, ss, t) ==
  Knows(a, t) # 0 => /\ Knows(a, t) \in 1..Len(ss)
                     /\ ss[Knows(a, t)].automation = n /\ ss[Knows(a, t)].step = a.step

LaneFits(autos, ss, cur, t, starts) ==
  /\ Engaged(autos, ss, cur, starts) /\ Timers(autos) /\ starts \subseteq 0..Len(autos)
  /\ starts # {} => t.trigger = 0 /\ (cur # 0 => autos[cur].status \in {"queued", "failed"})
  /\ cur # 0 /\ Busy(autos[cur]) => Attends(autos[cur], cur, ss, t)
  /\ SlotsFree => /\ Followed(autos, ss)
                  /\ cur # 0 /\ Busy(autos[cur]) => InStep(autos[cur], cur, ss, t)

\* Whoever starts a session does it for the automation of the card, or for a job.
Waits(a, j) == a.status = "queued" /\ a.session = 0 /\ a.step = j.step /\ a.column = j.column
StartFits(hs, autos, cur) ==
  /\ hs.kind # "job" => cur # 0 /\ hs.job.automation = cur /\ Waits(autos[cur], hs.job)
  /\ hs.kind \in {"step", "fallback"} => hs.task.trigger = 0
  /\ SlotsFree => hs.job.automation = cur /\ (hs.kind = "job" => cur = 0)

PlaceFits(hs, autos, cur, t, j) ==
  /\ hs.kind \in {"transition", "step", "fallback", "job"} /\ ~hs.recover
  /\ \/ /\ hs.pc = "start" /\ hs.read = t /\ hs.result = 0 /\ j = None
        /\ StartFits(hs, autos, cur)
     \/ /\ hs.pc = "returned" /\ hs.result = t.trigger
        /\ StartFits(hs, autos, cur)
     \/ /\ hs.pc = "artifact" /\ cur # 0 /\ hs.job.automation = cur
        /\ autos[cur].status = "completed" /\ ~autos[cur].timer

(* The inductive invariant: one handler waits at a time, and a session that   *)
(* works is the one that its automation knows, or nobody will replace it.     *)
WorkInv ==
  /\ SlotsFree => job = None
  /\ \A h \in Handler : handler[h] # None =>
       PlaceFits(handler[h], automations, active, task, job)
  /\ \A g, h \in Handler : handler[g] # None /\ handler[h] # None => g = h
  /\ LaneFits(automations, sessions, active, task, Starts(handler, job))

-----------------------------------------------------------------------------
LEMMA FewerStarts ==
  ASSUME NEW autos, NEW ss, NEW cur, NEW t, NEW more, LaneFits(autos, ss, cur, t, more),
         NEW fewer, fewer \subseteq more
  PROVE  LaneFits(autos, ss, cur, t, fewer)
BY DEF LaneFits, Engaged

LEMMA Alone ==
  ASSUME WorkInv, NEW h \in Handler, handler[h] # None
  PROVE  \A g \in Handler : g # h => handler[g] = None
BY DEF WorkInv

(* The handler at place h becomes x, when no other is under way. *)
LEMMA PlaceStep ==
  ASSUME RowsInv, NEW h \in Handler, \A g \in Handler : g # h => handler[g] = None,
         NEW x, handler' = [handler EXCEPT ![h] = x], SlotsFree => job' = None,
         x # None => PlaceFits(x, automations', active', task', job'),
         NEW starts, job' # None => job'.automation \in starts,
         x # None /\ x.pc = "start" => x.job.automation \in starts,
         LaneFits(automations', sessions', active', task', starts)
  PROVE  WorkInv'
<1>1. \A g \in Handler : handler'[g] = IF g = h THEN x ELSE None
  BY DEF RowsInv
<1>2. Starts(handler', job') \subseteq starts
  BY <1>1 DEF Starts
<1>3. LaneFits(automations', sessions', active', task', Starts(handler', job'))
  BY <1>2, FewerStarts
<1>4. \A g \in Handler : handler'[g] # None =>
        PlaceFits(handler'[g], automations', active', task', job')
  BY <1>1
<1>5. \A f, g \in Handler : handler'[f] # None /\ handler'[g] # None => f = g
  BY <1>1
<1> QED BY <1>3, <1>4, <1>5 DEF WorkInv

\* The automation whose session waits for a slot.
Queued(j) == IF j = None THEN {} ELSE {j.automation}

LEMMA EndsWork ==
  ASSUME RowsInv, NEW h \in Handler, \A g \in Handler : g # h => handler[g] = None,
         Ends(h), SlotsFree => job' = None,
         LaneFits(automations', sessions', active', task', Queued(job'))
  PROVE  WorkInv'
BY PlaceStep DEF Ends, Becomes, Queued

(* A step that lets every handler wait on. *)
LEMMA QuietWork ==
  ASSUME WorkInv, UNCHANGED <<task, job, automations, active, handler>>,
         LaneFits(automations, sessions', active, task, Starts(handler, job))
  PROVE  WorkInv'
BY DEF WorkInv

(* Nobody moves a card, or looks at its board, while a handler is under way. *)
LEMMA IdleCard ==
  ASSUME Calm, WorkInv, LeftAlone, Settled
  PROVE  /\ \A g \in Handler : handler[g] = None
         /\ LaneFits(automations, sessions, active, task, Queued(job))
<1>1. \A g \in Handler : handler[g] = None
  BY DEF Calm, WorkInv, LeftAlone, Settled, At, PlaceFits
<1>2. Starts(handler, job) = Queued(job)
  BY <1>1 DEF Starts, Queued
<1> QED BY <1>1, <1>2 DEF WorkInv

(* And none is under way when the automation has its session. *)
LEMMA BusyCard ==
  ASSUME WorkInv, Settled, active # 0, Busy(automations[active]),
         Knows(automations[active], task) # 0
  PROVE  /\ \A g \in Handler : handler[g] = None
         /\ job = None /\ LaneFits(automations, sessions, active, task, {})
<1>1. LaneFits(automations, sessions, active, task, Starts(handler, job))
  BY DEF WorkInv
<1>2. Attends(automations[active], active, sessions, task)
  BY <1>1 DEF LaneFits
<1>3. Starts(handler, job) = {}
  BY <1>1, <1>2 DEF LaneFits, Attends, Busy, Knows
<1>4. job = None /\ \A g \in Handler : ~(handler[g] # None /\ handler[g].pc = "start")
  BY <1>3 DEF Starts
<1>5. \A g \in Handler : handler[g] = None
  BY <1>4 DEF WorkInv, PlaceFits, Settled, At, Busy
<1> QED BY <1>1, <1>3, <1>4, <1>5

(* createSession for the card's automation. *)
LEMMA CreateWork ==
  ASSUME RowsInv, NEW h \in Handler, \A g \in Handler : g # h => handler[g] = None,
         NEW hs \in HandlerState, hs.pc = "returned", hs.kind \in {"transition", "step", "fallback"},
         hs.result = 0, ~hs.recover, hs.kind \in {"step", "fallback"} => hs.task.trigger = 0,
         NEW t, t.trigger = 0, NEW j, SlotsFree => j = None,
         NEW autos, CreateSession(h, hs, t, j, autos),
         active' = hs.job.automation, active' # 0, Waits(autos[active'], hs.job),
         LaneFits(autos, sessions', active', t, {active'} \union Queued(j))
  PROVE  WorkInv'
<1> DEFINE new == [hs EXCEPT !.pc = "start", !.read = t]
           got == [hs EXCEPT !.pc = "returned", !.result = 0]
           starts == {active'} \union Queued(j)
<1>1. task' = t /\ automations' = autos
  BY DEF CreateSession
<1>2. \/ handler' = [handler EXCEPT ![h] = got] /\ job' = j
      \/ handler' = [handler EXCEPT ![h] = got] /\ job' = hs.job /\ ~SlotsFree
      \/ handler' = [handler EXCEPT ![h] = got] /\ job' = None
      \/ handler' = [handler EXCEPT ![h] = new] /\ job' = None
  BY DEF CreateSession, Becomes
<1>3. /\ new.pc = "start" /\ new.kind = hs.kind /\ new.job = hs.job /\ new.read = t
      /\ new.result = 0 /\ new.task = hs.task /\ new.recover = hs.recover
      /\ got.pc = "returned" /\ got.kind = hs.kind /\ got.job = hs.job /\ got.result = 0
      /\ got.task = hs.task /\ got.recover = hs.recover
  BY DEF HandlerState
<1> HIDE DEF new, got
<1>4. StartFits(new, autos, active') /\ StartFits(got, autos, active')
  BY <1>3 DEF StartFits
<1>5. PlaceFits(new, autos, active', t, None) /\ \A i : PlaceFits(got, autos, active', t, i)
  BY <1>3, <1>4 DEF PlaceFits
<1>6. active' \in starts /\ (j # None => j.automation \in starts)
  BY DEF Queued
<1> HIDE DEF starts
<1>7. SlotsFree => job' = None
  BY <1>2
<1>8. LaneFits(automations', sessions', active', task', starts)
  BY <1>1 DEF starts
<1>9. CASE handler' = [handler EXCEPT ![h] = new] /\ job' = None
  BY <1>1, <1>3, <1>5, <1>6, <1>8, <1>9, PlaceStep
<1>10. CASE handler' = [handler EXCEPT ![h] = got] /\ job' \in {j, hs.job, None}
  <2>1. job' # None => job'.automation \in starts
    BY <1>6, <1>10
  <2>2. PlaceFits(got, automations', active', task', job') /\ got.pc # "start"
    BY <1>1, <1>3, <1>5
  <2> QED BY <1>7, <1>8, <1>10, <2>1, <2>2, PlaceStep
<1> QED BY <1>2, <1>9, <1>10

-----------------------------------------------------------------------------
(* The lane, when a row, a session or an automation changes. *)
LEMMA LaneCleared ==
  ASSUME NEW autos, NEW ss, NEW cur, NEW t, NEW starts, LaneFits(autos, ss, cur, t, starts),
         NEW u, u.trigger = 0
  PROVE  LaneFits(autos, ss, cur, u, starts)
<1>1. cur # 0 => Knows(autos[cur], u) \in {0, Knows(autos[cur], t)}
  BY DEF Knows
<1>2. cur # 0 /\ Busy(autos[cur]) => Attends(autos[cur], cur, ss, u)
  BY <1>1 DEF LaneFits, Attends
<1>3. SlotsFree /\ cur # 0 /\ Busy(autos[cur]) => InStep(autos[cur], cur, ss, u)
  BY <1>1 DEF LaneFits, InStep
<1> QED BY <1>2, <1>3 DEF LaneFits

LEMMA LaneAppended ==
  ASSUME NEW autos \in Seq(Lawful), NEW ss, NEW cur, NEW t, NEW starts,
         LaneFits(autos, ss, cur, t, starts), t.trigger = 0, NEW k \in Column
  PROVE  LaneFits(Append(autos, NewAutomation(k)), ss, Len(autos) + 1, t,
                  {Len(autos) + 1} \union starts)
<1> DEFINE n == Len(autos) + 1
           new == Append(autos, NewAutomation(k))
<1>1. /\ Len(autos) \in Nat /\ Len(new) = n /\ new[n] = NewAutomation(k)
      /\ \A i \in 1..Len(autos) : new[i] = autos[i]
  BY NewAutomationLawful
<1>2. \A i \in 1..n : i \in 1..Len(autos) \/ i = n
  BY <1>1, SMT
<1>3. \A i \in 1..Len(autos) : i \in 1..n /\ i # n
  BY <1>1, SMT
<1>4. /\ new[n].step = 1 /\ new[n].timer = FALSE /\ new[n].status = "queued"
      /\ new[n].session = 0
  BY <1>1 DEF NewAutomation
<1> HIDE DEF n, new
<1>5. /\ Engaged(new, ss, n, {n} \union starts) /\ Timers(new)
      /\ \A s \in 1..Len(ss) : Working(ss[s]) => ss[s].automation # n
  <2>1. n # 0
    BY <1>1, SMT DEF n
  <2> QED BY <1>1, <1>2, <1>3, <1>4, <2>1 DEF LaneFits, Engaged, Timers
<1>6. Attends(new[n], n, ss, t) /\ InStep(new[n], n, ss, t)
  BY <1>4, <1>5 DEF Attends, InStep, Knows
<1>7. SlotsFree => Followed(new, ss)
  <2>1. ~(1 > 1)
    BY SMT
  <2> QED BY <1>1, <1>2, <1>4, <2>1 DEF LaneFits, Followed
<1>8. {n} \union starts \subseteq 0..n
  <2>1. starts \subseteq 0..Len(autos)
    BY DEF LaneFits
  <2>2. \A i \in 0..Len(autos) : i \in 0..n
    BY <1>1, SMT DEF n
  <2>3. n \in 0..n
    BY <1>1, SMT DEF n
  <2> QED BY <2>1, <2>2, <2>3
<1> QED BY <1>1, <1>4, <1>5, <1>6, <1>7, <1>8 DEF LaneFits, n, new

\* Session s does not work any more, or never did; whatever ended stays so.
Over(ss, s) ==
  /\ Len(ss) = Len(sessions) /\ \A p \in 1..Len(sessions) : p # s => ss[p] = sessions[p]
  /\ ss[s].automation = sessions[s].automation /\ ss[s].step = sessions[s].step
  /\ ~Working(ss[s]) /\ (Ended(sessions[s]) => Ended(ss[s]))

LEMMA OverLane ==
  ASSUME NEW starts, LaneFits(automations, sessions, active, task, starts),
         NEW ss, NEW s, Over(ss, s)
  PROVE  LaneFits(automations, ss, active, task, starts)
<1>1. \A p \in 1..Len(sessions) :
        /\ ss[p].automation = sessions[p].automation /\ ss[p].step = sessions[p].step
        /\ Working(ss[p]) => Working(sessions[p])
        /\ \A n, i : Precedes(sessions[p], n, i) => Precedes(ss[p], n, i)
  BY DEF Over, Precedes
<1>2. Len(ss) = Len(sessions)
  BY DEF Over
<1>3. Engaged(automations, ss, active, starts)
  BY <1>1, <1>2 DEF LaneFits, Engaged
<1>4. active # 0 /\ Busy(automations[active]) => Attends(automations[active], active, ss, task)
  BY <1>1, <1>2 DEF LaneFits, Attends
<1>5. SlotsFree => /\ Followed(automations, ss)
                   /\ active # 0 /\ Busy(automations[active]) =>
                        InStep(automations[active], active, ss, task)
  BY <1>1, <1>2 DEF LaneFits, Followed, InStep
<1> QED BY <1>3, <1>4, <1>5 DEF LaneFits

(* The automation of the card takes the session that the card shows. *)
LEMMA RunningLane ==
  ASSUME NEW autos \in Seq(Lawful), NEW ss, NEW cur \in 1..Len(autos), NEW t, NEW starts,
         LaneFits(autos, ss, cur, t, starts), autos[cur].status = "queued", t.trigger # 0,
         NEW a \in Lawful, a.step = autos[cur].step, a.timer = autos[cur].timer,
         a.status = "running", a.session = t.trigger
  PROVE  LaneFits([autos EXCEPT ![cur] = a], ss, cur, t, {})
<1> DEFINE new == [autos EXCEPT ![cur] = a]
<1>1. /\ Len(new) = Len(autos) /\ new[cur] = a
      /\ \A i \in 1..Len(autos) : i # cur => new[i] = autos[i]
  OBVIOUS
<1>2. cur # 0
  BY SMT
<1>3. /\ Attends(autos[cur], cur, ss, t) /\ autos[cur].session = 0
      /\ SlotsFree => InStep(autos[cur], cur, ss, t)
  BY <1>2 DEF LaneFits, Busy, Attends
<1>4. Knows(a, t) = Knows(autos[cur], t)
  BY <1>3 DEF Knows
<1> HIDE DEF new
<1>5. Engaged(new, ss, cur, {}) /\ Timers(new)
  BY <1>1 DEF LaneFits, Engaged, Timers
<1>6. Attends(a, cur, ss, t) /\ (SlotsFree => InStep(a, cur, ss, t))
  BY <1>3, <1>4 DEF Attends, InStep
<1>7. SlotsFree => Followed(new, ss)
  BY <1>1 DEF LaneFits, Followed
<1> QED BY <1>1, <1>5, <1>6, <1>7 DEF LaneFits, new

LEMMA AdoptedLane ==
  ASSUME RowsInv, NEW ss, LaneFits(automations, ss, active, task, {}),
         active \in 1..Len(automations), Busy(automations[active]),
         Knows(automations[active], task) # 0
  PROVE  /\ LaneFits([automations EXCEPT ![active] = Adopted(@)], ss, active, task, {})
         /\ Adopted(automations[active]) \in Lawful
         /\ Adopted(automations[active]).status = "running"
         /\ Adopted(automations[active]).session = Knows(automations[active], task)
<1> DEFINE a == automations[active]
<1>1. a \in Lawful /\ a \in Automation /\ automations \in Seq(Lawful) /\ active # 0
  <2>1. active # 0
    BY SMT
  <2> QED BY <2>1, RowsParts, ElementLawful
<1>2. Attends(a, active, ss, task)
  BY <1>1 DEF LaneFits
<1>3. CASE a.session # 0
  <2>1. Adopted(a) = a /\ a.status = "running"
    BY <1>2, <1>3 DEF Adopted, Attends, Busy
  <2>2. [automations EXCEPT ![active] = Adopted(@)] = automations
    BY <1>1, <2>1
  <2> QED BY <1>1, <1>3, <2>1, <2>2 DEF Knows
<1>4. CASE a.session = 0
  <2>1. task.trigger # 0 /\ a.status = "queued"
    BY <1>2, <1>4 DEF Knows, Attends, Busy
  <2>2. /\ Adopted(a) \in Lawful /\ Adopted(a).status = "running"
        /\ Adopted(a).session = task.trigger /\ Adopted(a).step = a.step
        /\ Adopted(a).timer = a.timer
    <3>1. Adopted(a) \in Lawful
      BY <1>1, RowsParts, AdoptedLawful
    <3> QED BY <1>1, <1>4, <2>1, <3>1 DEF Adopted, Automation
  <2> DEFINE b == Adopted(a)
  <2>3. [automations EXCEPT ![active] = Adopted(@)] = [automations EXCEPT ![active] = b]
    OBVIOUS
  <2> HIDE DEF b
  <2>4. LaneFits([automations EXCEPT ![active] = b], ss, active, task, {})
    BY <1>1, <2>1, <2>2, RunningLane DEF b
  <2> QED BY <1>4, <2>2, <2>3, <2>4 DEF Knows, b
<1> QED BY <1>3, <1>4

\* The card's automation runs, and its session is over.
SessionOver(autos, ss, cur, t) ==
  /\ autos \in Seq(Lawful) /\ cur \in 1..Len(autos) /\ autos[cur].status = "running"
  /\ LaneFits(autos, ss, cur, t, {})
  /\ \A p \in 1..Len(ss) : Working(ss[p]) => ss[p].automation # cur

\* What it becomes then, with the row u.
GoesOn(old, ss, a, u) ==
  /\ a \in Lawful /\ a.status \in {"queued", "completed", "failed"}
  /\ a.timer => a.status # "queued"
  /\ a.status = "queued" => a.session = 0 /\ u.trigger = 0
  /\ \/ a.step = old.step
     \/ a.step = old.step + 1 /\ (SlotsFree => Ended(ss[old.session]))

LEMMA ChangedLane ==
  ASSUME NEW autos, NEW ss, NEW cur, NEW t, SessionOver(autos, ss, cur, t),
         NEW a, NEW u, GoesOn(autos[cur], ss, a, u)
  PROVE  /\ a.status # "queued" => LaneFits([autos EXCEPT ![cur] = a], ss, cur, u, {})
         /\ a.status = "queued" => LaneFits([autos EXCEPT ![cur] = a], ss, cur, u, {cur})
<1> SUFFICES ASSUME NEW starts, starts = {} \/ (starts = {cur} /\ a.status = "queued")
             PROVE  LaneFits([autos EXCEPT ![cur] = a], ss, cur, u, starts)
  OBVIOUS
<1> USE DEF SessionOver, GoesOn
<1> DEFINE new == [autos EXCEPT ![cur] = a]
           s == autos[cur].session
<1>1. /\ Len(new) = Len(autos) /\ new[cur] = a
      /\ \A i \in 1..Len(autos) : i # cur => new[i] = autos[i]
      /\ autos[cur].step \in Nat
  BY ElementLawful
<1>2. cur # 0
  BY SMT
<1>3. SlotsFree => s \in 1..Len(ss) /\ ss[s].automation = cur /\ ss[s].step = autos[cur].step
  BY <1>2 DEF LaneFits, Busy, Attends, InStep, Knows
<1> HIDE DEF new, s
<1>4. Engaged(new, ss, cur, starts) /\ Timers(new)
  BY <1>1 DEF LaneFits, Engaged, Timers
<1>5. Busy(a) => a.status = "queued" /\ Knows(a, u) = 0
  BY DEF Busy, Knows
<1>6. Busy(a) => Attends(a, cur, ss, u) /\ InStep(a, cur, ss, u)
  BY <1>5 DEF Attends, InStep
<1>7. ASSUME SlotsFree PROVE Followed(new, ss)
  <2> SUFFICES ASSUME NEW n \in 1..Len(autos), new[n].step > 1, new[n].status # "failed"
               PROVE  \E p \in 1..Len(ss) : Precedes(ss[p], n, new[n].step)
    BY <1>1 DEF Followed
  <2>1. CASE new[n].step = autos[n].step
    BY <1>1, <1>7, <2>1 DEF LaneFits, Followed
  <2>2. CASE n = cur /\ a.step = autos[cur].step + 1 /\ Ended(ss[s])
    <3>1. a.step - 1 = autos[cur].step
      BY <1>1, <2>2, SMT
    <3>2. Precedes(ss[s], cur, a.step)
      BY <1>3, <1>7, <2>2, <3>1 DEF Precedes
    <3> QED BY <1>1, <1>3, <1>7, <2>2, <3>2
  <2> QED BY <1>1, <1>7, <2>1, <2>2 DEF s
<1>8. {cur} \subseteq 0..Len(new)
  BY <1>1, SMT
<1> QED BY <1>1, <1>4, <1>6, <1>7, <1>8 DEF LaneFits, new

-----------------------------------------------------------------------------
(* The operations. *)
LEMMA TransitionWork ==
  ASSUME RowsInv, NEW h \in Handler, \A g \in Handler : g # h => handler[g] = None,
         NEW autos \in Seq(Lawful), NEW k, k \in Automated => k \in Column,
         NEW echo \in BOOLEAN, NEW t, t.trigger = 0, NEW j, SlotsFree => j = None,
         LaneFits(autos, sessions, active, t, Queued(j)), sessions' = sessions,
         Transition(h, k, echo, t, j, autos)
  PROVE  WorkInv'
<1>1. CASE k \notin Automated \/ Exceeded(t, k) \/ Underway(k, autos)
  BY <1>1, EndsWork DEF Transition
<1>2. CASE ~(k \notin Automated \/ Exceeded(t, k) \/ Underway(k, autos))
  <2> DEFINE a == NewAutomation(k)
             n == Len(autos) + 1
             new == Append(autos, a)
             made == NewHandler("transition", n, a)
             hs == [made EXCEPT !.echo = echo]
  <2>1. active' = n /\ CreateSession(h, hs, t, j, new) /\ k \in Column
    BY <1>2 DEF Transition
  <2>2. n \in Nat \ {0}
    BY SMT
  <2>3. hs \in HandlerState
    <3>1. HandlerIn(hs, n, sessions)
      <4> HIDE DEF n
      <4> QED BY <2>1, <2>2, NewTransition
    <3> QED BY <3>1 DEF HandlerIn
  <2>4. /\ hs.pc = "returned" /\ hs.kind = "transition" /\ hs.result = 0 /\ ~hs.recover
        /\ hs.job = [automation |-> n, column |-> a.column, step |-> a.step]
    BY DEF NewHandler
  <2>5. new[n] = a
    BY <2>1, NewAutomationLawful
  <2>6. Waits(new[n], hs.job)
    BY <2>4, <2>5 DEF Waits, NewAutomation
  <2>7. LaneFits(new, sessions', n, t, {n} \union Queued(j))
    BY <2>1, LaneAppended
  <2>8. n # 0 /\ hs.job.automation = n
    BY <2>2, <2>4
  <2> HIDE DEF a, n, new, made, hs
  <2> QED BY <2>1, <2>3, <2>4, <2>6, <2>7, <2>8, CreateWork
<1> QED BY <1>1, <1>2

LEMMA MarkedParts ==
  ASSUME NEW t \in Task, NEW s, NEW status
  PROVE  Marked(t, s, status).trigger = t.trigger /\ Marked(t, s, status).column = t.column
BY DEF Marked, Task

LEMMA WithoutItsTrigger ==
  ASSUME NEW t \in Task, NEW s, t.trigger \in {0, s}
  PROVE  WithoutTrigger(t, s).trigger = 0
BY DEF WithoutTrigger, Task

LEMMA NextStepWork ==
  ASSUME RowsInv, NEW h \in Handler, \A g \in Handler : g # h => handler[g] = None,
         NEW autos, NEW ss, SessionOver(autos, ss, active, task), SlotsFree => Ended(ss[autos[active].session]),
         HasNext(autos[active]), NEW kind \in {"step", "fallback"}, NEW s \in Nat,
         NEW object \in Task, object.trigger = task.trigger, active' = active, sessions' = ss,
         NextStep(h, kind, active, s, autos, object, FALSE)
  PROVE  WorkInv'
<1> DEFINE a == StepOf(autos[active])
           t == WithoutTrigger(object, autos[active].session)
           made == NewHandler(kind, active, a)
           hs == [made EXCEPT !.task = t, !.recover = FALSE, !.event = s]
           new == [autos EXCEPT ![active] = a]
<1>1. CreateSession(h, hs, t, None, new)
  BY DEF NextStep
<1>2. autos \in Seq(Lawful) /\ active \in 1..Len(autos) /\ active # 0 /\ Len(autos) \in Nat
  <2>1. active # 0
    BY SMT DEF SessionOver
  <2> QED BY <2>1 DEF SessionOver
<1>3. autos[active] \in Lawful /\ autos[active] \in Automation /\ autos[active].session \in Nat
  BY <1>2, ElementLawful
<1>4. /\ a \in Lawful /\ a.step = autos[active].step + 1 /\ a.status = "queued"
      /\ a.session = 0 /\ a.timer = autos[active].timer
  BY <1>3, StepOfLawful DEF StepOf, Automation
<1>5. t.trigger = 0 /\ t \in Task
  <2>1. object.trigger \in {0, autos[active].session}
    BY <1>2 DEF LaneFits, Attends, SessionOver, Busy
  <2>2. t \in Task
    <3>1. [object EXCEPT !.trigger = 0] \in Task
      BY DEF Task
    <3> QED BY <3>1 DEF WithoutTrigger
  <2> QED BY <2>1, <2>2, WithoutItsTrigger
<1>6. ~autos[active].timer
  BY <1>2 DEF LaneFits, Timers, SessionOver
<1>7. hs \in HandlerState
  <2>1. made \in HandlerState
    <3>1. a \in Automation
      BY <1>4 DEF Lawful
    <3> HIDE DEF a
    <3> QED BY <1>2, <3>1, NewHandlerIn
  <2> HIDE DEF made, t
  <2> QED BY <1>5, <2>1 DEF HandlerState
<1>8. /\ hs.pc = "returned" /\ hs.kind = kind /\ hs.result = 0 /\ ~hs.recover /\ hs.task = t
      /\ hs.job = [automation |-> active, column |-> a.column, step |-> a.step]
  BY DEF NewHandler
<1>9. new[active] = a
  BY <1>2
<1> HIDE DEF a, t, made, hs, new
<1>10. Waits(new[active], hs.job)
  BY <1>4, <1>8, <1>9 DEF Waits
<1>11. LaneFits(new, ss, active, t, {active} \union Queued(None))
  <2>1. LaneFits(new, ss, active, t, {active})
    <3>1. GoesOn(autos[active], ss, a, t)
      BY <1>4, <1>5, <1>6 DEF GoesOn
    <3> QED BY <1>4, <3>1, ChangedLane DEF new
  <2>2. {active} \union Queued(None) = {active}
    BY DEF Queued
  <2> QED BY <1>4, <2>1, <2>2
<1>12. hs.job.automation = active
  BY <1>8
<1> QED BY <1>1, <1>2, <1>5, <1>7, <1>8, <1>10, <1>11, <1>12, CreateWork

LEMMA OverWork ==
  ASSUME RowsInv, NEW h \in Handler, \A g \in Handler : g # h => handler[g] = None, job = None,
         NEW autos, NEW ss, SessionOver(autos, ss, active, task), NEW s \in Nat, NEW object,
         active' = active, sessions' = ss,
         Complete(h, active, s, autos, object) \/ Fail(h, active, s, autos, object)
  PROVE  WorkInv'
<1> DEFINE b == [autos[active] EXCEPT !.signaled = @ \union {s}]
           as == [autos EXCEPT ![active] = b]
<1>1. /\ autos \in Seq(Lawful) /\ active \in 1..Len(autos) /\ active # 0
      /\ Signaled(autos, active, s) = as /\ as[active] = b
  <2>1. active # 0
    BY SMT DEF SessionOver
  <2>2. Signaled(autos, active, s) = as
    BY DEF Signaled
  <2> HIDE DEF b
  <2> QED BY <2>1, <2>2 DEF SessionOver
<1>2. autos[active] \in Lawful /\ autos[active] \in Automation /\ b \in Lawful /\ b \in Automation
      /\ b.step = autos[active].step /\ b.timer = autos[active].timer
  <2>1. autos[active] \in Lawful /\ autos[active] \in Automation
    BY <1>1, ElementLawful
  <2>2. b \in Lawful
    BY <2>1, ChangedLawful
  <2>3. b.step = autos[active].step /\ b.timer = autos[active].timer
    BY <2>1 DEF Automation
  <2> HIDE DEF b
  <2> QED BY <2>1, <2>2, <2>3 DEF Lawful
<1>3. ~autos[active].timer
  BY <1>1 DEF LaneFits, Timers, SessionOver
<1> HIDE DEF b
<1>4. CASE Complete(h, active, s, autos, object)
  <2> DEFINE a == [b EXCEPT !.status = "completed"]
             made == NewHandler("step", active, autos[active])
             x == [made EXCEPT !.pc = "artifact"]
             new == [autos EXCEPT ![active] = a]
  <2>1. automations' = [as EXCEPT ![active].status = "completed"]
        /\ task' = object /\ handler' = [handler EXCEPT ![h] = x] /\ job' = None
    BY <1>1, <1>4 DEF Complete, Becomes
  <2>2. automations' = new
    BY <1>1, <2>1
  <2>3. /\ a \in Lawful /\ a.step = autos[active].step /\ a.status = "completed"
        /\ a.timer = autos[active].timer
    BY <1>2, ChangedLawful DEF Automation
  <2>4. new[active] = a
    BY <1>1
  <2>5. x.pc = "artifact" /\ x.kind = "step" /\ ~x.recover /\ x.job.automation = active
    BY DEF NewHandler
  <2> HIDE DEF a, made, x, as
  <2>6. LaneFits(new, ss, active, object, {})
    <3>1. GoesOn(autos[active], ss, a, object)
      BY <2>3 DEF GoesOn
    <3> QED BY <2>3, <3>1, ChangedLane
  <2> HIDE DEF new
  <2>7. PlaceFits(x, new, active, object, None)
    BY <1>1, <1>3, <2>3, <2>4, <2>5 DEF PlaceFits
  <2>8. /\ LaneFits(automations', sessions', active', task', {}) /\ job' = None
        /\ PlaceFits(x, automations', active', task', job')
    BY <2>1, <2>2, <2>6, <2>7
  <2> QED BY <2>1, <2>5, <2>8, PlaceStep
<1>5. CASE Fail(h, active, s, autos, object)
  <2> DEFINE a == [b EXCEPT !.status = "failed", !.timer = TRUE]
             new == [autos EXCEPT ![active] = a]
  <2>1. automations' = [as EXCEPT ![active].status = "failed", ![active].timer = TRUE]
        /\ task' = object /\ Ends(h) /\ job' = None
    BY <1>1, <1>5 DEF Fail
  <2>2. automations' = new
    BY <1>1, <2>1
  <2>3. a \in Lawful /\ a.step = autos[active].step /\ a.status = "failed"
    BY <1>2, ChangedLawful DEF Automation
  <2> HIDE DEF a, as
  <2>4. LaneFits(new, ss, active, object, {})
    <3>1. GoesOn(autos[active], ss, a, object)
      BY <2>3 DEF GoesOn
    <3> QED BY <2>3, <3>1, ChangedLane
  <2>5. Queued(job') = {}
    BY <2>1 DEF Queued
  <2> HIDE DEF new
  <2>6. LaneFits(automations', sessions', active', task', Queued(job'))
    BY <2>1, <2>2, <2>4, <2>5
  <2> QED BY <2>1, <2>6, EndsWork
<1> QED BY <1>4, <1>5

LEMMA Unsupervised ==
  ASSUME Calm, NEW a
  PROVE  /\ ~Supervised(a) /\ \A satisfied : ShouldRecover(a, satisfied) = FALSE
         /\ Satisfied(a, "completed") = {TRUE}
BY DEF Calm, Supervised, ShouldRecover, Satisfied

(* handleAgentCompletion, of a session that is over. *)
LEMMA CompletionWork ==
  ASSUME Calm, RowsInv, WorkInv, Settled, NEW h \in Handler, NEW s \in 1..Len(sessions),
         NEW outcome \in {"completed", "failed"},
         NEW ss, LaneFits(automations, ss, active, task, Starts(handler, job)),
         s \in 1..Len(ss), ~Working(ss[s]),
         outcome = "completed" \/ FallbackSteps > 0 => Ended(ss[s]),
         HandleAgentCompletion(h, s, outcome, automations, ss)
  PROVE  WorkInv'
<1> DEFINE a == Adopted(automations[active])
           adopted == [automations EXCEPT ![active] = a]
<1>1. active' = active
  BY DEF HandleAgentCompletion
<1>2. active # 0 => active \in 1..Len(automations)
  BY RowsParts, SMT
<1>3. ASSUME active # 0, Busy(automations[active]), Knows(automations[active], task) # 0
      PROVE  /\ \A g \in Handler : handler[g] = None
             /\ job = None /\ LaneFits(automations, ss, active, task, {})
             /\ LaneFits(adopted, ss, active, task, {}) /\ adopted \in Seq(Lawful)
             /\ Len(adopted) = Len(automations) /\ adopted[active] = a
             /\ a.status = "running" /\ a.session = Knows(automations[active], task)
  <2>1. (\A g \in Handler : handler[g] = None) /\ job = None
    BY <1>3, BusyCard
  <2>2. LaneFits(automations, ss, active, task, {})
    BY FewerStarts
  <2>3. /\ LaneFits([automations EXCEPT ![active] = Adopted(@)], ss, active, task, {})
        /\ a \in Lawful /\ a.status = "running" /\ a.session = Knows(automations[active], task)
    BY <1>2, <1>3, <2>2, AdoptedLane
  <2>4. [automations EXCEPT ![active] = Adopted(@)] = adopted
    OBVIOUS
  <2> HIDE DEF a
  <2>5. adopted \in Seq(Lawful) /\ Len(adopted) = Len(automations) /\ adopted[active] = a
    BY <1>2, <1>3, <2>3, RowsParts, ReplacedLawful
  <2> QED BY <2>1, <2>2, <2>3, <2>4, <2>5
<1>4. CASE ~Concerned(s, automations)
  <2>1. /\ automations' = IF active # 0 /\ automations[active].status = "queued"
                          THEN adopted ELSE automations
        /\ sessions' = ss /\ UNCHANGED <<task, job, handler, active>>
    BY <1>4 DEF HandleAgentCompletion
  <2>2. CASE automations' = automations
    BY <2>1, <2>2, QuietWork
  <2>3. CASE /\ active # 0 /\ automations[active].status = "queued" /\ automations' = adopted
             /\ Knows(automations[active], task) # 0
    <3>1. /\ \A g \in Handler : handler[g] = None
          /\ job = None /\ LaneFits(adopted, ss, active, task, {})
      BY <1>3, <2>3 DEF Busy
    <3>2. Starts(handler', job') = {}
      BY <2>1, <3>1 DEF Starts
    <3>3. LaneFits(automations', sessions', active', task', Starts(handler', job'))
      <4> HIDE DEF adopted
      <4> QED BY <2>1, <2>3, <3>1, <3>2
    <3>4. \A g \in Handler : handler'[g] = None
      BY <2>1, <3>1
    <3> QED BY <2>1, <3>1, <3>3, <3>4 DEF WorkInv
  <2>4. CASE active # 0 /\ Knows(automations[active], task) = 0
    <3>1. a = automations[active]
      BY <2>4 DEF Adopted, Knows
    <3>2. adopted = automations
      <4>1. adopted = [automations EXCEPT ![active] = automations[active]]
        BY <3>1
      <4> HIDE DEF adopted
      <4> QED BY <1>2, <2>4, <4>1, RowsParts
    <3> HIDE DEF adopted
    <3> QED BY <2>1, <2>2, <3>2
  <2> HIDE DEF adopted
  <2> QED BY <2>1, <2>2, <2>3, <2>4
<1>5. CASE Concerned(s, automations)
  <2>1. active # 0 /\ Busy(automations[active]) /\ a.session = s
    BY <1>5 DEF Concerned, Related, Busy
  <2>2. Knows(automations[active], task) # 0 /\ s # 0 /\ s \in Nat
    <3>1. s # 0 /\ s \in Nat
      BY SMT
    <3>2. a.session \in {0, Knows(automations[active], task)} \/ a.session = 0
      <4>1. automations[active] \in Automation
        BY <1>2, <2>1, RowsParts, ElementLawful
      <4> QED BY <4>1 DEF Adopted, Knows, Automation
    <3> QED BY <2>1, <3>1, <3>2
  <2>3. /\ \A g \in Handler : handler[g] = None
        /\ job = None /\ LaneFits(automations, ss, active, task, {})
        /\ LaneFits(adopted, ss, active, task, {}) /\ adopted \in Seq(Lawful)
        /\ Len(adopted) = Len(automations) /\ adopted[active] = a
        /\ a.status = "running" /\ s = Knows(automations[active], task)
    BY <1>3, <2>1, <2>2
  <2>4. \A p \in 1..Len(ss) : Working(ss[p]) => ss[p].automation # active
    BY <2>1, <2>2, <2>3 DEF LaneFits, Attends
  <2>5. SessionOver(adopted, ss, active, task)
    <3> HIDE DEF adopted, a
    <3> QED BY <1>2, <2>1, <2>3, <2>4 DEF SessionOver
  <2> DEFINE Object(satisfied) == Marked(task, s, IF satisfied THEN "done" ELSE "over")
  <2>6. \E satisfied \in Satisfied(a, outcome) :
          /\ sessions' = ss
          /\ \/ /\ satisfied /\ HasNext(a)
                /\ NextStep(h, "step", active, s, adopted, Object(satisfied), FALSE)
             \/ Complete(h, active, s, adopted, Object(satisfied))
             \/ /\ outcome # "completed" /\ FallbackSteps > 0 /\ HasNext(a)
                /\ NextStep(h, "fallback", active, s, adopted, Object(satisfied), FALSE)
             \/ Fail(h, active, s, adopted, Object(satisfied))
    <3>1. \A satisfied : ShouldRecover(a, satisfied) = FALSE
      BY Unsupervised
    <3> HIDE DEF Object
    <3> QED BY <1>5, <3>1 DEF HandleAgentCompletion, Object
  <2>7. PICK satisfied \in Satisfied(a, outcome) :
          /\ sessions' = ss
          /\ \/ /\ satisfied /\ HasNext(a)
                /\ NextStep(h, "step", active, s, adopted, Object(satisfied), FALSE)
             \/ Complete(h, active, s, adopted, Object(satisfied))
             \/ /\ outcome # "completed" /\ FallbackSteps > 0 /\ HasNext(a)
                /\ NextStep(h, "fallback", active, s, adopted, Object(satisfied), FALSE)
             \/ Fail(h, active, s, adopted, Object(satisfied))
    BY <2>6
  <2>8. satisfied => Ended(ss[s])
    BY <2>7 DEF Satisfied
  <2> DEFINE object == Object(satisfied)
  <2>9. object \in Task /\ object.trigger = task.trigger
    <3>1. RowIn(task, sessions) /\ sessions \in Seq(Session) /\ task \in Task /\ s \in Nat \ {0}
      BY <2>2, RowsParts DEF RowIn
    <3>2. RowIn(object, sessions)
      BY <3>1, MarkedRow
    <3> HIDE DEF Object
    <3> QED BY <3>1, <3>2, MarkedParts DEF RowIn, Object
  <2> HIDE DEF Object
  <2>10. \A g \in Handler : g # h => handler[g] = None
    BY <2>3
  <2> HIDE DEF adopted, a
  <2>11. ASSUME NEW kind \in {"step", "fallback"}, HasNext(a), Ended(ss[s]),
                NextStep(h, kind, active, s, adopted, object, FALSE)
         PROVE  WorkInv'
    BY <1>1, <2>1, <2>2, <2>3, <2>5, <2>7, <2>9, <2>10, <2>11, NextStepWork
  <2>12. CASE Complete(h, active, s, adopted, object) \/ Fail(h, active, s, adopted, object)
    BY <1>1, <2>2, <2>3, <2>5, <2>7, <2>10, <2>12, OverWork
  <2> QED BY <2>7, <2>8, <2>11, <2>12
<1> QED BY <1>4, <1>5

-----------------------------------------------------------------------------
(* The actions. *)
LEMMA MoveWork ==
  ASSUME Calm, RowsInv, WorkInv, Settled, NEW h \in Handler, NEW k \in Column, Move(h, k)
  PROVE  WorkInv'
<1> DEFINE t == Arrived(Finalized(task), k)
<1>1. \/ Transition(h, k, TRUE, t, None, automations)
      \/ Transition(h, k, FALSE, t, job, automations)
  BY DEF Move
<1>2. /\ \A g \in Handler : handler[g] = None
      /\ LaneFits(automations, sessions, active, task, Queued(job))
  BY IdleCard DEF Move
<1>3. t.trigger = 0
  <2>1. RowIn(Finalized(task), sessions)
    BY RowsParts, FinalizedRow
  <2> QED BY <2>1 DEF Arrived, RowIn, Task
<1>4. sessions' = sessions
  BY DEF Move
<1> HIDE DEF t
<1>5. LaneFits(automations, sessions, active, t, Queued(job))
  BY <1>2, <1>3, LaneCleared
<1>6. LaneFits(automations, sessions, active, t, Queued(None))
  BY <1>5, FewerStarts DEF Queued
<1>7. SlotsFree => job = None
  BY DEF WorkInv
<1> QED BY <1>1, <1>2, <1>3, <1>4, <1>5, <1>6, <1>7, RowsParts, TransitionWork

LEMMA EventWork ==
  ASSUME Calm, RowsInv, WorkInv, Settled, NEW h \in Handler, NEW s \in DOMAIN sessions,
         Report(h, s) \/ \E outcome \in {"completed", "failed"} : EndTurn(h, s, outcome)
  PROVE  WorkInv'
<1>1. s \in 1..Len(sessions) /\ sessions[s] \in Session /\ DOMAIN sessions = 1..Len(sessions)
  BY RowsParts
<1>2. LaneFits(automations, sessions, active, task, Starts(handler, job))
  BY DEF WorkInv
<1>3. ASSUME NEW x, NEW outcome \in {"completed", "failed"}, x.automation = sessions[s].automation,
             x.step = sessions[s].step, ~Working(x), Ended(sessions[s]) => Ended(x),
             outcome = "completed" \/ FallbackSteps > 0 => Ended(x),
             HandleAgentCompletion(h, s, outcome, automations, [sessions EXCEPT ![s] = x])
      PROVE  WorkInv'
  <2> DEFINE ss == [sessions EXCEPT ![s] = x]
  <2>1. /\ ss[s] = x /\ Len(ss) = Len(sessions) /\ s \in 1..Len(ss)
        /\ \A p \in 1..Len(sessions) : p # s => ss[p] = sessions[p]
    BY <1>1, RowsParts
  <2> HIDE DEF ss
  <2>2. Over(ss, s)
    BY <1>3, <2>1 DEF Over
  <2>3. LaneFits(automations, ss, active, task, Starts(handler, job))
    BY <1>2, <2>2, OverLane
  <2>4. HandleAgentCompletion(h, s, outcome, automations, ss)
    BY <1>3 DEF ss
  <2> QED BY <1>1, <1>3, <2>1, <2>3, <2>4, CompletionWork
<1>4. CASE Report(h, s)
  <2> DEFINE x == [sessions[s] EXCEPT !.reported = TRUE]
  <2>1. /\ x.automation = sessions[s].automation /\ x.step = sessions[s].step
        /\ x.reported
    BY <1>1 DEF Session
  <2>2. HandleAgentCompletion(h, s, "completed", automations, [sessions EXCEPT ![s] = x])
    BY <1>4 DEF Report
  <2> HIDE DEF x
  <2> QED BY <1>3, <2>1, <2>2 DEF Working, Ended
<1>5. CASE \E outcome \in {"completed", "failed"} : EndTurn(h, s, outcome)
  <2>1. PICK outcome \in {"completed", "failed"} : EndTurn(h, s, outcome)
    BY <1>5
  <2> DEFINE state == IF sessions[s].state = "timedout" THEN "late" ELSE outcome
             x == [sessions[s] EXCEPT !.state = state, !.reported = @ \/ outcome = "completed"]
  <2>2. /\ x.automation = sessions[s].automation /\ x.step = sessions[s].step
        /\ x.reported = (sessions[s].reported \/ outcome = "completed") /\ x.state = state
    BY <1>1 DEF Session
  <2>3. HandleAgentCompletion(h, s, outcome, automations, [sessions EXCEPT ![s] = x])
    BY <2>1 DEF EndTurn
  <2>4. sessions[s].state \in {"live", "timedout"}
    BY <2>1 DEF EndTurn
  <2>5. state \in {"late", outcome} /\ state # "live"
    BY <2>1
  <2> HIDE DEF x, state
  <2>6. ~Working(x) /\ (Ended(sessions[s]) => Ended(x))
    BY <2>2, <2>4, <2>5 DEF Working, Ended
  <2>7. outcome = "completed" \/ FallbackSteps > 0 => Ended(x)
    BY <2>1, <2>2, <2>5 DEF Ended
  <2> QED BY <1>3, <2>2, <2>3, <2>6, <2>7
<1> QED BY <1>4, <1>5

LEMMA StallWork ==
  ASSUME RowsInv, WorkInv, NEW s \in DOMAIN sessions, Stall(s) PROVE WorkInv'
<1>1. s \in 1..Len(sessions) /\ sessions[s] \in Session
  BY RowsParts
<1>2. PICK state \in {"silent", "broken"} : sessions' = InState(s, state)
  BY DEF Stall
<1>3. /\ sessions'[s] = [sessions[s] EXCEPT !.state = state] /\ Len(sessions') = Len(sessions)
      /\ \A p \in 1..Len(sessions) : p # s => sessions'[p] = sessions[p]
  BY <1>1, <1>2, RowsParts DEF InState
<1>4. /\ sessions'[s].state = state /\ sessions'[s].automation = sessions[s].automation
      /\ sessions'[s].step = sessions[s].step /\ sessions'[s].reported = sessions[s].reported
      /\ sessions[s].state = "live"
  BY <1>1, <1>3 DEF Session, Stall
<1>5. Over(sessions', s)
  BY <1>3, <1>4 DEF Over, Working, Ended
<1>6. LaneFits(automations, sessions', active, task, Starts(handler, job))
  BY <1>5, OverLane DEF WorkInv
<1> QED BY <1>6, QuietWork DEF Stall

LEMMA StartSucceedsWork ==
  ASSUME RowsInv, WorkInv, NEW h \in Handler, StartSucceeds(h) PROVE WorkInv'
<1> DEFINE hs == handler[h]
           n == hs.job.automation
           s == Len(sessions) + 1
           x == [automation |-> n, column |-> hs.read.column,
                 step |-> hs.job.step, state |-> "live", reported |-> FALSE]
           hs2 == [hs EXCEPT !.pc = "returned", !.result = s, !.read = None]
<1>1. /\ hs # None /\ hs.pc = "start" /\ hs \in HandlerState /\ hs.read \in Task
      /\ hs.kind # "job" => n \in 1..Len(automations)
  BY RowsParts DEF StartSucceeds, At, HandlerIn, RowIn
<1>2. /\ PlaceFits(hs, automations, active, task, job)
      /\ StartFits(hs, automations, active) /\ job = None
      /\ \A g \in Handler : g # h => handler[g] = None
  BY <1>1, Alone DEF WorkInv, PlaceFits
<1>3. /\ sessions' = Append(sessions, x) /\ handler' = [handler EXCEPT ![h] = hs2]
      /\ UNCHANGED <<job, automations, active>>
  BY DEF StartSucceeds, Becomes
<1>4. task'.trigger = s
  BY <1>1 DEF StartSucceeds, Task
<1>5. s \in Nat \ {0} /\ Len(sessions) \in Nat
  BY RowsParts, SMT
<1>6. /\ Len(sessions') = s /\ sessions'[s] = x
      /\ \A p \in 1..Len(sessions) : sessions'[p] = sessions[p]
      /\ \A p \in 1..s : p = s \/ p \in 1..Len(sessions)
      /\ \A p \in 1..Len(sessions) : p \in 1..s
      /\ s \in 1..s
  <2>1. x \in Session
    BY <1>1, RowsParts DEF HandlerState, Session, Task, Job
  <2>2. sessions \in Seq(Session)
    BY RowsParts
  <2> HIDE DEF x
  <2> QED BY <1>3, <2>1, <2>2
<1>7. x.automation = n /\ x.step = hs.job.step /\ x.state = "live" /\ x.reported = FALSE
  OBVIOUS
<1>8. /\ hs2.pc = "returned" /\ hs2.kind = hs.kind /\ hs2.job = hs.job /\ hs2.result = s
      /\ hs2.task = hs.task /\ hs2.recover = hs.recover
  BY <1>1 DEF HandlerState
<1>9. LaneFits(automations, sessions, active, task, Starts(handler, job)) /\ n \in Starts(handler, job)
  BY <1>1 DEF WorkInv, Starts
<1> HIDE DEF hs2, x, s, n
<1>10. /\ n \in 0..Len(automations)
       /\ n # 0 => n \in 1..Len(automations)
  <2>1. n \in 0..Len(automations)
    BY <1>9 DEF LaneFits
  <2> QED BY <2>1, SMT
<1>11. \A p \in 1..Len(sessions) : Working(sessions[p]) /\ sessions[p].automation # 0 =>
         sessions[p].automation # n /\ sessions[p].automation # active
  BY <1>9 DEF LaneFits, Engaged
<1>12. Engaged(automations, sessions', active, {})
  BY <1>6, <1>7, <1>9, <1>10, <1>11 DEF LaneFits, Engaged
<1>13. SlotsFree => Followed(automations, sessions')
  BY <1>6, <1>9 DEF LaneFits, Followed
<1>14. ASSUME active # 0, Busy(automations[active])
       PROVE  /\ Attends(automations[active], active, sessions', task')
              /\ SlotsFree => InStep(automations[active], active, sessions', task')
  <2>1. automations[active].status = "queued" /\ automations[active].session = 0
    BY <1>9, <1>14 DEF LaneFits, Busy, Attends
  <2>2. Knows(automations[active], task') = s
    BY <1>4, <2>1 DEF Knows
  <2>3. Attends(automations[active], active, sessions', task')
    BY <1>6, <1>11, <1>14, <2>1, <2>2 DEF Attends
  <2>4. SlotsFree => InStep(automations[active], active, sessions', task')
    BY <1>2, <1>6, <1>7, <1>14, <2>2 DEF InStep, StartFits, Waits, n
  <2> QED BY <2>3, <2>4
<1>15. LaneFits(automations, sessions', active, task', {})
  BY <1>9, <1>12, <1>13, <1>14 DEF LaneFits
<1>16. PlaceFits(hs2, automations, active, task', None)
  <2>1. StartFits(hs2, automations, active)
    BY <1>2, <1>8 DEF StartFits
  <2> QED BY <1>2, <1>4, <1>8, <2>1 DEF PlaceFits
<1>17. /\ LaneFits(automations', sessions', active', task', {}) /\ job' = None
       /\ PlaceFits(hs2, automations', active', task', job')
  BY <1>2, <1>3, <1>15, <1>16
<1> QED BY <1>2, <1>3, <1>8, <1>17, PlaceStep

LEMMA StartFailsWork ==
  ASSUME RowsInv, WorkInv, NEW h \in Handler, StartFails(h) PROVE WorkInv'
<1> DEFINE hs == handler[h]
           hs2 == [hs EXCEPT !.pc = "returned", !.read = None]
<1>1. hs # None /\ hs.pc = "start" /\ hs \in HandlerState
  BY RowsParts DEF StartFails, At
<1>2. /\ PlaceFits(hs, automations, active, task, job) /\ StartFits(hs, automations, active)
      /\ hs.read = task /\ hs.result = 0
      /\ \A g \in Handler : g # h => handler[g] = None
  BY <1>1, Alone DEF WorkInv, PlaceFits
<1>3. /\ handler' = [handler EXCEPT ![h] = hs2] /\ task' = task /\ job' = None
      /\ UNCHANGED <<automations, active, sessions>>
  BY <1>2 DEF StartFails, Becomes
<1>4. LaneFits(automations, sessions, active, task, Starts(handler, job)) /\ Starts(handler, job) # {}
  BY <1>1 DEF WorkInv, Starts
<1>5. task.trigger = 0
  BY <1>4 DEF LaneFits
<1>6. /\ hs2.pc = "returned" /\ hs2.kind = hs.kind /\ hs2.job = hs.job /\ hs2.result = hs.result
      /\ hs2.task = hs.task /\ hs2.recover = hs.recover
  BY <1>1 DEF HandlerState
<1> HIDE DEF hs2
<1>7. PlaceFits(hs2, automations, active, task, None)
  <2>1. StartFits(hs2, automations, active)
    BY <1>2, <1>6 DEF StartFits
  <2> QED BY <1>2, <1>5, <1>6, <2>1 DEF PlaceFits
<1>8. LaneFits(automations, sessions, active, task, {})
  BY <1>4, FewerStarts
<1>9. /\ LaneFits(automations', sessions', active', task', {}) /\ job' = None
      /\ PlaceFits(hs2, automations', active', task', job')
  BY <1>3, <1>7, <1>8
<1> QED BY <1>2, <1>3, <1>6, <1>9, PlaceStep

(* A job that waits for a slot is nobody else's. *)
LEMMA PromoteWork ==
  ASSUME RowsInv, WorkInv, Settled, NEW h \in Handler, Promote(h) PROVE WorkInv'
<1> DEFINE x == [NewHandler("job", job.automation, job) EXCEPT !.pc = "start", !.read = task]
<1>1. job # None /\ job' = None /\ UNCHANGED <<task, automations, active, sessions>> /\ ~SlotsFree
  BY DEF Promote, WorkInv
<1>2. /\ LaneFits(automations, sessions, active, task, Starts(handler, job))
      /\ job.automation \in Starts(handler, job) /\ Starts(handler, job) # {}
  BY <1>1 DEF WorkInv, Starts
<1>3. ASSUME NEW g \in Handler, handler[g] # None PROVE FALSE
  <2>1. PlaceFits(handler[g], automations, active, task, job)
    BY <1>3 DEF WorkInv
  <2>2. handler[g].pc = "artifact"
    BY <1>1, <1>3, <2>1 DEF PlaceFits, Settled, At
  <2> QED BY <1>2, <2>1, <2>2 DEF PlaceFits, LaneFits
<1>4. LaneFits(automations', sessions', active', task', Starts(handler, job))
  BY <1>1, <1>2
<1>5. CASE handler' = [handler EXCEPT ![h] = x]
  <2>1. /\ x.pc = "start" /\ x.kind = "job" /\ x.job.automation = job.automation
        /\ x.read = task /\ x.result = 0 /\ ~x.recover
    BY DEF NewHandler
  <2> HIDE DEF x
  <2>2. PlaceFits(x, automations', active', task', job')
    BY <1>1, <2>1 DEF PlaceFits, StartFits
  <2> QED BY <1>1, <1>2, <1>3, <1>4, <1>5, <2>1, <2>2, PlaceStep
<1>6. CASE UNCHANGED handler
  <2>1. Starts(handler', job') = {}
    BY <1>1, <1>3, <1>6 DEF Starts
  <2>2. LaneFits(automations', sessions', active', task', Starts(handler', job'))
    BY <1>4, <2>1, FewerStarts
  <2> QED BY <1>1, <1>3, <1>6, <2>2 DEF WorkInv
<1> QED BY <1>5, <1>6 DEF Promote, Becomes

(* Nobody works for an automation that waits for a session and has none. *)
LEMMA FailedLane ==
  ASSUME NEW autos \in Seq(Lawful), NEW ss, NEW cur \in 1..Len(autos), NEW t, NEW starts,
         LaneFits(autos, ss, cur, t, starts),
         NEW a, a.step = autos[cur].step, a.status = "failed", NEW u, u.trigger = 0
  PROVE  LaneFits([autos EXCEPT ![cur] = a], ss, cur, u, starts)
<1> DEFINE new == [autos EXCEPT ![cur] = a]
<1>1. /\ Len(new) = Len(autos) /\ new[cur] = a
      /\ \A i \in 1..Len(autos) : i # cur => new[i] = autos[i]
  OBVIOUS
<1> HIDE DEF new
<1>2. Engaged(new, ss, cur, starts) /\ Timers(new) /\ ~Busy(new[cur])
  BY <1>1 DEF LaneFits, Engaged, Timers, Busy
<1>3. SlotsFree => Followed(new, ss)
  BY <1>1 DEF LaneFits, Followed
<1> QED BY <1>1, <1>2, <1>3 DEF LaneFits, new

(* createSession answered: the automation it is for takes the session, waits *)
(* for one, or is given up.                                                  *)
LEMMA ReturnWork ==
  ASSUME RowsInv, WorkInv, NEW h \in Handler, Return(h) PROVE WorkInv'
<1> DEFINE hs == handler[h]
           n == hs.job.automation
           started == [automations EXCEPT ![n] = RunningWith(@, hs.result)]
           as == IF hs.result = 0 THEN automations ELSE started
           failed == [automations EXCEPT ![n].status = "failed"]
<1>1. hs # None /\ hs.pc = "returned" /\ hs \in HandlerState
  BY RowsParts DEF Return, At
<1>2. /\ PlaceFits(hs, automations, active, task, job) /\ StartFits(hs, automations, active)
      /\ hs.result = task.trigger /\ ~hs.recover /\ hs.kind # "recovery"
      /\ \A g \in Handler : g # h => handler[g] = None
  BY <1>1, Alone DEF WorkInv, PlaceFits
<1>3. Starts(handler, job) = Queued(job)
  BY <1>1, <1>2 DEF Starts, Queued
<1>4. LaneFits(automations, sessions, active, task, Queued(job)) /\ (SlotsFree => job = None)
  BY <1>3 DEF WorkInv
<1>5. task.trigger # 0 => job = None
  BY <1>4 DEF LaneFits, Queued
<1>6. hs.kind # "job" => /\ active # 0 /\ n = active /\ active \in 1..Len(automations)
                         /\ Waits(automations[active], hs.job)
                         /\ automations[active] \in Lawful /\ automations[active] \in Automation
  <2> SUFFICES ASSUME hs.kind # "job"
               PROVE  /\ active # 0 /\ n = active /\ active \in 1..Len(automations)
                      /\ Waits(automations[active], hs.job)
                      /\ automations[active] \in Lawful /\ automations[active] \in Automation
    OBVIOUS
  <2>1. active # 0 /\ n = active /\ Waits(automations[active], hs.job)
    BY <1>2 DEF StartFits
  <2>2. active \in 1..Len(automations)
    BY <2>1, RowsParts, SMT
  <2> QED BY <2>1, <2>2, RowsParts, ElementLawful
<1>7. ASSUME hs.kind # "job", task.trigger # 0, NEW a \in Lawful, a.step = automations[active].step,
             a.timer = automations[active].timer, a.status = "running", a.session = task.trigger
      PROVE  LaneFits([automations EXCEPT ![active] = a], sessions, active, task, Queued(job))
  <2>1. LaneFits([automations EXCEPT ![active] = a], sessions, active, task, {})
    BY <1>4, <1>6, <1>7, RowsParts, RunningLane DEF Waits
  <2>2. Queued(job) = {}
    BY <1>5, <1>7 DEF Queued
  <2> QED BY <2>1, <2>2
<1>8. hs.kind # "job" /\ task.trigger # 0 =>
        LET a == RunningWith(automations[active], task.trigger) IN
        /\ a \in Lawful /\ a \in Automation /\ a.step = automations[active].step
        /\ a.timer = automations[active].timer /\ a.status = "running" /\ a.session = task.trigger
        /\ a.column = automations[active].column
  <2> DEFINE a == RunningWith(automations[active], task.trigger)
  <2> SUFFICES ASSUME hs.kind # "job"
               PROVE  /\ a \in Lawful /\ a \in Automation /\ a.step = automations[active].step
                      /\ a.timer = automations[active].timer /\ a.status = "running"
                      /\ a.session = task.trigger /\ a.column = automations[active].column
    OBVIOUS
  <2>1. a \in Lawful
    BY <1>6, ChangedLawful, RowsParts DEF RowIn, Task
  <2>2. /\ a.step = automations[active].step /\ a.timer = automations[active].timer
        /\ a.status = "running" /\ a.session = task.trigger
        /\ a.column = automations[active].column
    BY <1>6 DEF RunningWith, Automation
  <2> HIDE DEF a
  <2> QED BY <2>1, <2>2 DEF Lawful
<1>9. hs.kind # "job" => /\ LaneFits(as, sessions, active, task, Queued(job))
                         /\ Underway(hs.job.column, as)
  <2> SUFFICES ASSUME hs.kind # "job"
               PROVE  /\ LaneFits(as, sessions, active, task, Queued(job))
                      /\ Underway(hs.job.column, as)
    OBVIOUS
  <2>1. CASE task.trigger = 0
    BY <1>2, <1>4, <1>6, <2>1 DEF Underway, Waits
  <2>2. CASE task.trigger # 0
    <3> DEFINE a == RunningWith(automations[active], task.trigger)
    <3>1. as = [automations EXCEPT ![active] = a]
      BY <1>2, <1>6, <2>2
    <3>2. as[active] = a
      BY <1>6, <3>1, RowsParts
    <3>3. LaneFits([automations EXCEPT ![active] = a], sessions, active, task, Queued(job))
      <4>1. /\ a \in Lawful /\ a.step = automations[active].step
            /\ a.timer = automations[active].timer /\ a.status = "running"
            /\ a.session = task.trigger
        BY <1>8, <2>2
      <4> HIDE DEF a
      <4> QED BY <1>7, <2>2, <4>1
    <3>4. a.column = hs.job.column /\ a.status = "running"
      BY <1>6, <1>8, <2>2 DEF Waits
    <3> HIDE DEF a, as
    <3> QED BY <1>6, <3>1, <3>2, <3>3, <3>4 DEF Underway
  <2> QED BY <2>1, <2>2
<1>10. CASE hs.kind = "job"
  <2>1. Ends(h) /\ UNCHANGED <<task, job, automations, active, sessions>>
    BY <1>10 DEF Return
  <2>2. LaneFits(automations', sessions', active', task', Queued(job'))
    BY <1>4, <2>1
  <2> QED BY <1>2, <1>4, <2>1, <2>2, EndsWork
<1>11. CASE /\ hs.kind # "job" /\ automations' = as /\ Ends(h)
            /\ UNCHANGED <<task, job, active, sessions>>
  <2>1. LaneFits(automations', sessions', active', task', Queued(job'))
    <3> HIDE DEF as
    <3> QED BY <1>9, <1>11
  <2> QED BY <1>2, <1>4, <1>11, <2>1, EndsWork
<1>12. CASE /\ hs.kind = "transition"
            /\ Transition(h, hs.job.column, FALSE, task, job, as) /\ UNCHANGED sessions
  <2>1. Ends(h) /\ task' = task /\ job' = job /\ automations' = as /\ active' = active
    <3> HIDE DEF as
    <3> QED BY <1>9, <1>12 DEF Transition
  <2> HIDE DEF as
  <2> QED BY <1>11, <1>12, <2>1
<1>13. CASE /\ hs.kind \in {"step", "fallback"} /\ hs.result # 0
            /\ automations' = Signaled(as, n, hs.event) /\ Ends(h)
            /\ UNCHANGED <<task, job, active, sessions>>
  <2> DEFINE b == RunningWith(automations[active], task.trigger)
             a == [b EXCEPT !.signaled = @ \union {hs.event}]
             running == [automations EXCEPT ![active] = b]
             new == [automations EXCEPT ![active] = a]
  <2>1. hs.kind # "job" /\ task.trigger # 0 /\ hs.event \in Nat
    BY <1>1, <1>2, <1>13 DEF HandlerState
  <2>2. /\ b \in Lawful /\ b \in Automation /\ b.step = automations[active].step
        /\ b.timer = automations[active].timer /\ b.status = "running" /\ b.session = task.trigger
    BY <1>8, <2>1
  <2>3. as = running
    BY <1>2, <1>6, <2>1
  <2> HIDE DEF as, b
  <2>4. automations' = new
    <3>1. automations' = [running EXCEPT ![active].signaled = @ \union {hs.event}]
      BY <1>6, <1>13, <2>1, <2>3 DEF Signaled
    <3>2. running[active] = b
      BY <1>6, <2>1, RowsParts
    <3>3. [running EXCEPT ![active].signaled = @ \union {hs.event}] = [running EXCEPT ![active] = a]
      BY <3>2
    <3> HIDE DEF a
    <3> QED BY <3>1, <3>3
  <2>5. /\ a \in Lawful /\ a.step = automations[active].step /\ a.timer = automations[active].timer
        /\ a.status = "running" /\ a.session = task.trigger
    <3>1. a \in Lawful
      BY <2>1, <2>2, ChangedLawful
    <3>2. a.step = b.step /\ a.timer = b.timer /\ a.status = b.status /\ a.session = b.session
      BY <2>2 DEF Automation
    <3> QED BY <2>2, <3>1, <3>2
  <2> HIDE DEF a
  <2>6. LaneFits(new, sessions, active, task, Queued(job))
    BY <1>7, <2>1, <2>5
  <2> HIDE DEF new
  <2>7. LaneFits(automations', sessions', active', task', Queued(job'))
    BY <1>13, <2>4, <2>6
  <2> QED BY <1>2, <1>4, <1>13, <2>7, EndsWork
<1>14. CASE /\ hs.kind \in {"step", "fallback"} /\ hs.result = 0
            /\ Fail(h, n, hs.event, failed, hs.task) /\ UNCHANGED <<active, sessions>>
  <2> DEFINE b == [automations[active] EXCEPT !.status = "failed"]
             c == [b EXCEPT !.signaled = @ \union {hs.event}]
             a == [c EXCEPT !.status = "failed", !.timer = TRUE]
             new == [automations EXCEPT ![active] = a]
  <2>1. /\ automations' = [Signaled(failed, active, hs.event) EXCEPT ![active].status = "failed",
                                                                  ![active].timer = TRUE]
        /\ task' = hs.task /\ Ends(h) /\ job' = job
    BY <1>6, <1>14 DEF Fail
  <2>2. automations' = new
    <3>1. automations \in Seq(Lawful) /\ active \in 1..Len(automations) /\ n = active
      BY <1>6, <1>14, RowsParts
    <3>2. Signaled(failed, active, hs.event) = [automations EXCEPT ![active] = c]
      <4>1. failed = [automations EXCEPT ![active] = b]
        BY <3>1
      <4>2. failed[active] = b
        BY <3>1, <4>1
      <4>3. Signaled(failed, active, hs.event) =
              [failed EXCEPT ![active] = [failed[active] EXCEPT !.signaled = @ \union {hs.event}]]
        BY DEF Signaled
      <4> HIDE DEF b, failed
      <4> QED BY <4>1, <4>2, <4>3
    <3> HIDE DEF c, failed
    <3> QED BY <2>1, <3>1, <3>2
  <2>3. a.step = automations[active].step /\ a.status = "failed"
    BY <1>6, <1>14 DEF Automation
  <2> HIDE DEF a
  <2>4. hs.task.trigger = 0
    BY <1>2, <1>14 DEF StartFits
  <2>5. LaneFits(new, sessions, active, hs.task, Queued(job))
    BY <1>4, <1>6, <1>14, <2>3, <2>4, RowsParts, FailedLane
  <2> HIDE DEF new, failed
  <2>6. LaneFits(automations', sessions', active', task', Queued(job'))
    BY <1>14, <2>1, <2>2, <2>5
  <2> QED BY <1>2, <1>4, <2>1, <2>6, EndsWork
<1>15. \/ hs.kind = "job"
       \/ /\ hs.kind # "job" /\ automations' = as /\ Ends(h)
          /\ UNCHANGED <<task, job, active, sessions>>
       \/ /\ hs.kind = "transition"
          /\ Transition(h, hs.job.column, FALSE, task, job, as) /\ UNCHANGED sessions
       \/ /\ hs.kind \in {"step", "fallback"} /\ hs.result # 0
          /\ automations' = Signaled(as, n, hs.event) /\ Ends(h)
          /\ UNCHANGED <<task, job, active, sessions>>
       \/ /\ hs.kind \in {"step", "fallback"} /\ hs.result = 0
          /\ Fail(h, n, hs.event, failed, hs.task) /\ UNCHANGED <<active, sessions>>
  <2> HIDE DEF as, failed
  <2> QED BY <1>2 DEF Return, as, failed
<1> HIDE DEF as, failed
<1> QED BY <1>10, <1>11, <1>12, <1>13, <1>14, <1>15

LEMMA TimerLane ==
  ASSUME RowsInv, NEW starts, LaneFits(automations, sessions, active, task, starts),
         NEW n \in 1..Len(automations), NEW timer \in BOOLEAN,
         timer => automations[n].status \in {"completed", "failed"}
  PROVE  LaneFits([automations EXCEPT ![n].timer = timer], sessions, active, task, starts)
<1> DEFINE a == [automations[n] EXCEPT !.timer = timer]
           new == [automations EXCEPT ![n].timer = timer]
<1>1. automations[n] \in Automation /\ automations \in Seq(Lawful)
  BY RowsParts, ElementLawful
<1>2. /\ a.status = automations[n].status /\ a.session = automations[n].session
      /\ a.step = automations[n].step /\ a.timer = timer
  BY <1>1 DEF Automation
<1> HIDE DEF a
<1>3. /\ Len(new) = Len(automations) /\ new[n] = a
      /\ \A i \in 1..Len(automations) : i # n => new[i] = automations[i]
  BY <1>1 DEF a
<1> HIDE DEF new
<1>4. \A i \in 1..Len(automations) :
        /\ new[i].status = automations[i].status /\ new[i].session = automations[i].session
        /\ new[i].step = automations[i].step
        /\ new[i].timer => automations[i].timer \/ automations[i].status \in {"completed", "failed"}
  BY <1>2, <1>3
<1>5. Engaged(new, sessions, active, starts) /\ Timers(new)
  BY <1>3, <1>4 DEF LaneFits, Engaged, Timers
<1>6. active # 0 => active \in 1..Len(automations)
  BY RowsParts, SMT
<1>7. active # 0 => /\ new[active].status = automations[active].status
                    /\ Busy(new[active]) => Busy(automations[active])
                    /\ Knows(new[active], task) = Knows(automations[active], task)
                    /\ new[active].session = automations[active].session
                    /\ new[active].step = automations[active].step
  BY <1>4, <1>6 DEF Busy, Knows
<1>8. active # 0 /\ Busy(new[active]) => Attends(new[active], active, sessions, task)
  BY <1>7 DEF LaneFits, Attends
<1>9. SlotsFree => /\ Followed(new, sessions)
                   /\ active # 0 /\ Busy(new[active]) => InStep(new[active], active, sessions, task)
  <2>1. SlotsFree => Followed(new, sessions)
    BY <1>3, <1>4 DEF LaneFits, Followed
  <2> QED BY <1>7, <2>1 DEF LaneFits, InStep
<1> QED BY <1>3, <1>5, <1>7, <1>8, <1>9 DEF LaneFits, new

LEMMA FinishArtifactWork ==
  ASSUME RowsInv, WorkInv, NEW h \in Handler, FinishArtifact(h) PROVE WorkInv'
<1> DEFINE n == handler[h].job.automation
           k == automations[n].column
           as == [automations EXCEPT ![n].timer = TRUE]
           t == Arrived(task, k + 1)
<1>1. handler[h] # None /\ handler[h].pc = "artifact"
  BY DEF FinishArtifact, At
<1>2. /\ n = active /\ active # 0 /\ automations[active].status = "completed"
      /\ \A g \in Handler : g # h => handler[g] = None
  BY <1>1, Alone DEF WorkInv, PlaceFits
<1>3. LaneFits(automations, sessions, active, task, {}) /\ job = None
  <2>1. LaneFits(automations, sessions, active, task, Starts(handler, job))
    BY DEF WorkInv
  <2>2. Starts(handler, job) = {}
    BY <1>2, <2>1 DEF LaneFits
  <2> QED BY <2>1, <2>2 DEF Starts
<1>4. n \in 1..Len(automations)
  BY <1>2, RowsParts, SMT
<1>5. LaneFits(as, sessions, active, task, {})
  BY <1>2, <1>3, <1>4, TimerLane
<1>6. as \in Seq(Lawful) /\ sessions' = sessions
  <2>1. as \in Seq(Lawful)
    <3> HIDE DEF n
    <3> QED BY <1>4, TimerLawful
  <2> QED BY <2>1 DEF FinishArtifact
<1>7. t.trigger = 0
  BY RowsParts DEF Arrived, RowIn, Task
<1>8. k + 1 \in Automated => k + 1 \in Column
  BY ColumnAssumption
<1>9. \/ Transition(h, k + 1, FALSE, t, None, as)
      \/ Ends(h) /\ automations' = as /\ UNCHANGED <<task, job, active>>
  BY DEF FinishArtifact
<1>10. Queued(None) = {}
  BY DEF Queued
<1> HIDE DEF n, k, as, t
<1>11. CASE Transition(h, k + 1, FALSE, t, None, as)
  <2> DEFINE l == k + 1
  <2>1. Transition(h, l, FALSE, t, None, as) /\ (l \in Automated => l \in Column)
    BY <1>8, <1>11
  <2>2. LaneFits(as, sessions, active, t, Queued(None))
    BY <1>5, <1>7, <1>10, LaneCleared
  <2> HIDE DEF l
  <2> QED BY <1>2, <1>6, <1>7, <2>1, <2>2, TransitionWork
<1>12. CASE Ends(h) /\ automations' = as /\ UNCHANGED <<task, job, active>>
  <2>1. LaneFits(automations', sessions', active', task', Queued(job')) /\ job' = None
    BY <1>3, <1>5, <1>6, <1>10, <1>12
  <2> QED BY <1>2, <1>12, <2>1, EndsWork
<1> QED BY <1>9, <1>11, <1>12

(* Nobody waits on an automation whose timer is set, but for a job. *)
LEMMA CleanupWork ==
  ASSUME RowsInv, WorkInv, NEW n \in DOMAIN automations, Cleanup(n) PROVE WorkInv'
<1>1. n \in 1..Len(automations) /\ automations[n].timer /\ n # 0
  <2>1. n \in 1..Len(automations) /\ automations[n].timer
    BY RowsParts DEF Cleanup
  <2> QED BY <2>1, SMT
<1>2. LaneFits(automations, sessions, active, task, Starts(handler, job))
  BY DEF WorkInv
<1>3. automations[n].status \in {"completed", "failed"}
  BY <1>1, <1>2 DEF LaneFits, Timers
<1>4. /\ automations' = [automations EXCEPT ![n].timer = FALSE]
      /\ active' = IF active = n THEN 0 ELSE active
      /\ UNCHANGED <<task, job, sessions, handler>>
  BY DEF Cleanup
<1>5. LaneFits(automations', sessions, active, task, Starts(handler, job))
  BY <1>1, <1>2, <1>4, TimerLane
<1>6. LaneFits(automations', sessions', active', task', Starts(handler', job'))
  <2>1. CASE active = n
    <3>1. active' = 0
      BY <1>4, <2>1
    <3>2. LaneFits(automations', sessions, 0, task, Starts(handler, job))
      BY <1>5 DEF LaneFits, Engaged
    <3> QED BY <1>4, <3>1, <3>2
  <2>2. CASE active # n
    BY <1>4, <1>5, <2>2
  <2> QED BY <2>1, <2>2
<1>7. active # 0 /\ active # n => automations'[active] = automations[active]
  <2>1. active # 0 => active \in 1..Len(automations)
    BY RowsParts, SMT
  <2> QED BY <1>1, <1>4, <2>1, RowsParts
<1>8. ASSUME NEW g \in Handler, handler[g] # None
      PROVE  PlaceFits(handler[g], automations', active', task, job)
  <2>1. PlaceFits(handler[g], automations, active, task, job)
    BY <1>8 DEF WorkInv
  <2>2. CASE active # n
    <3>1. active' = active
      BY <1>4, <2>2
    <3>2. StartFits(handler[g], automations, active) => StartFits(handler[g], automations', active')
      BY <1>7, <2>2, <3>1 DEF StartFits
    <3> QED BY <1>7, <2>1, <2>2, <3>1, <3>2 DEF PlaceFits
  <2>3. CASE active = n
    <3>1. StartFits(handler[g], automations, active) /\ handler[g].pc # "artifact"
      BY <1>1, <2>1, <2>3 DEF PlaceFits
    <3>2. handler[g].kind = "job" /\ ~SlotsFree
      BY <1>1, <1>3, <2>3, <3>1 DEF StartFits, Waits
    <3>3. StartFits(handler[g], automations', active')
      BY <3>2 DEF StartFits
    <3> QED BY <2>1, <3>1, <3>2, <3>3 DEF PlaceFits
  <2> QED BY <2>2, <2>3
<1>9. \A g \in Handler : handler'[g] # None =>
        PlaceFits(handler'[g], automations', active', task', job')
  BY <1>4, <1>8
<1>10. /\ SlotsFree => job' = None
       /\ \A f, g \in Handler : handler'[f] # None /\ handler'[g] # None => f = g
  BY <1>4 DEF WorkInv
<1> QED BY <1>6, <1>9, <1>10 DEF WorkInv

LEMMA RestartWork ==
  ASSUME RowsInv, Restart PROVE WorkInv'
<1>1. /\ job' = None /\ active' = 0 /\ handler' = [h \in Handler |-> None]
      /\ automations' = [n \in DOMAIN automations |->
           [automations[n] EXCEPT !.status = "failed", !.session = 0,
                                  !.signaled = {}, !.timer = FALSE]]
      /\ sessions' = [s \in DOMAIN sessions |->
           IF sessions[s].state = "completed" THEN sessions[s]
           ELSE [sessions[s] EXCEPT !.state = "lost"]]
  BY DEF Restart
<1>2. /\ DOMAIN sessions = 1..Len(sessions) /\ \A s \in 1..Len(sessions) : sessions[s] \in Session
      /\ DOMAIN automations = 1..Len(automations)
  BY RowsParts
<1>3. \A h \in Handler : handler'[h] = None
  BY <1>1
<1>4. \A s \in DOMAIN sessions : ~Working(sessions'[s])
  <2>1. \A s \in DOMAIN sessions : sessions'[s].state \in {"completed", "lost"}
    BY <1>1, <1>2 DEF Session
  <2> QED BY <2>1 DEF Working
<1>5. \A n \in DOMAIN automations : automations'[n].status = "failed" /\ automations'[n].timer = FALSE
  <2>1. \A n \in DOMAIN automations : automations[n] \in Automation
    BY <1>2, RowsParts DEF Lawful
  <2> QED BY <1>1, <2>1 DEF Automation
<1>6. DOMAIN sessions' = 1..Len(sessions') /\ DOMAIN automations' = 1..Len(automations')
  <2>1. sessions' \in Seq(Session) /\ automations' \in Seq(Lawful)
    BY RestartRows DEF RowsInv
  <2> QED BY <2>1
<1>7. DOMAIN sessions' = DOMAIN sessions /\ DOMAIN automations' = DOMAIN automations
  BY <1>1
<1>8. Starts(handler', job') = {}
  BY <1>1, <1>3 DEF Starts
<1>9. Engaged(automations', sessions', active', {}) /\ Timers(automations')
  BY <1>4, <1>5, <1>6, <1>7 DEF Engaged, Timers
<1>10. Followed(automations', sessions')
  BY <1>5, <1>6, <1>7 DEF Followed
<1> QED BY <1>1, <1>3, <1>8, <1>9, <1>10 DEF WorkInv, LaneFits

(* A look at the board finds an undisturbed card without an automation. *)
LEMMA LookWork ==
  ASSUME Calm, RowsInv, WorkInv, Settled, NEW h \in Handler, Look(h) PROVE WorkInv'
<1>1. ReviveCard(h, task) /\ active = 0 /\ sessions' = sessions
  BY DEF Look, Calm
<1>2. /\ \A g \in Handler : handler[g] = None
      /\ LaneFits(automations, sessions, 0, task, Queued(job)) /\ (SlotsFree => job = None)
  BY <1>1, IdleCard DEF Look, WorkInv
<1>3. PICK dead \in SUBSET {s \in Shown(task) : Doubtful(s)},
           status \in IF Summaries THEN {"over", "done"} ELSE {"over"} :
        LET row == Sanitized(task, dead, status)
            t == IF row = task THEN task ELSE row
            k == row.column
            stays == \/ row.trigger # 0 \/ k \notin Automated
                     \/ \E i \in Current(row) : row.lanes[i].status = "running"
        IN
        \/ /\ stays /\ Ends(h) /\ task' = t
           /\ UNCHANGED <<job, automations, active>>
        \/ /\ ~stays
           /\ \E step \in StepsTaken(row) :
                IF step \in 1..(LaneSteps[k] - 1)
                THEN /\ StartStep(h, k, step + 1, t) /\ task' = t
                     /\ UNCHANGED <<automations, active>>
                ELSE Transition(h, k, FALSE, t, job, automations)
  BY <1>1 DEF ReviveCard
<1> DEFINE row == Sanitized(task, dead, status)
<1>4. \/ Ends(h) /\ task' = row /\ UNCHANGED <<job, automations, active>>
      \/ /\ row.trigger = 0
         /\ \E step : \/ StartStep(h, row.column, step + 1, row) /\ task' = row
                         /\ UNCHANGED <<automations, active>>
                      \/ Transition(h, row.column, FALSE, row, job, automations)
  BY <1>3
<1>5. row.trigger \in {0, task.trigger}
  <2>1. task \in Task
    BY RowsParts DEF RowIn
  <2> QED BY <2>1 DEF Sanitized, Task
<1> HIDE DEF row
<1>6. LaneFits(automations, sessions, 0, row, Queued(job))
  BY <1>2, <1>5 DEF LaneFits
<1>7. CASE Ends(h) /\ task' = row /\ UNCHANGED <<job, automations, active>>
  <2>1. LaneFits(automations', sessions', active', task', Queued(job'))
    BY <1>1, <1>6, <1>7
  <2> QED BY <1>2, <1>7, <2>1, EndsWork
<1>8. CASE /\ row.trigger = 0
           /\ \E step : StartStep(h, row.column, step + 1, row) /\ task' = row
                        /\ UNCHANGED <<automations, active>>
  <2>1. PICK step : StartStep(h, row.column, step + 1, row)
    BY <1>8
  <2> DEFINE a == [column |-> row.column, step |-> step + 1]
             made == NewHandler("job", 0, a)
             x == [made EXCEPT !.pc = "start", !.read = row]
             starts == {0} \union Queued(job)
  <2>2. \/ Ends(h) /\ job' = job
        \/ Ends(h) /\ job' = made.job /\ ~SlotsFree
        \/ Ends(h) /\ job' = None
        \/ handler' = [handler EXCEPT ![h] = x] /\ job' = None
    BY <2>1 DEF StartStep, Becomes
  <2>3. /\ x.pc = "start" /\ x.kind = "job" /\ x.job.automation = 0 /\ x.read = row
        /\ x.result = 0 /\ ~x.recover /\ made.job.automation = 0
    BY DEF NewHandler
  <2> HIDE DEF x, made
  <2>4. LaneFits(automations', sessions', active', task', starts)
    <3>1. 0 \in 0..Len(automations)
      BY RowsParts, SMT
    <3>2. Engaged(automations, sessions, 0, starts)
      BY <1>6 DEF LaneFits, Engaged
    <3>3. LaneFits(automations, sessions, 0, row, starts)
      BY <1>6, <1>8, <3>1, <3>2 DEF LaneFits
    <3> HIDE DEF starts
    <3> QED BY <1>1, <1>8, <3>3
  <2>5. (job' # None => job'.automation \in starts) /\ (SlotsFree => job' = None)
    BY <1>2, <2>2, <2>3 DEF Queued
  <2>6. PlaceFits(x, automations, 0, row, None)
    BY <1>8, <2>3 DEF PlaceFits, StartFits
  <2>7. x.job.automation \in starts
    BY <2>3
  <2> HIDE DEF starts
  <2>8. CASE Ends(h)
    <3>1. LaneFits(automations', sessions', active', task', Queued(job'))
      <4>1. Queued(job') \subseteq starts
        BY <2>5 DEF Queued
      <4> QED BY <2>4, <4>1, FewerStarts
    <3> QED BY <1>2, <2>5, <2>8, <3>1, EndsWork
  <2>9. CASE handler' = [handler EXCEPT ![h] = x] /\ job' = None
    <3>1. PlaceFits(x, automations', active', task', job')
      BY <1>1, <1>8, <2>6, <2>9
    <3> QED BY <1>2, <2>4, <2>5, <2>7, <2>9, <3>1, PlaceStep
  <2> QED BY <2>2, <2>8, <2>9
<1>9. CASE row.trigger = 0 /\ Transition(h, row.column, FALSE, row, job, automations)
  <2>1. row.column \in Automated => row.column \in Column
    BY ColumnAssumption
  <2>2. LaneFits(automations, sessions, active, row, Queued(job))
    BY <1>1, <1>6
  <2> QED BY <1>1, <1>2, <1>9, <2>1, <2>2, RowsParts, TransitionWork
<1> QED BY <1>4, <1>7, <1>8, <1>9

LEMMA WorkInit == Init => WorkInv
<1> SUFFICES ASSUME Init PROVE WorkInv
  OBVIOUS
<1>1. /\ job = None /\ active = 0 /\ automations = <<>> /\ sessions = <<>>
      /\ \A h \in Handler : handler[h] = None
  BY DEF Init
<1>2. 1..Len(automations) = {} /\ 1..Len(sessions) = {} /\ Starts(handler, job) = {}
  BY <1>1 DEF Starts
<1>3. LaneFits(automations, sessions, active, task, Starts(handler, job))
  BY <1>1, <1>2 DEF LaneFits, Engaged, Followed, Timers
<1> QED BY <1>1, <1>3 DEF WorkInv

LEMMA WorkStep == Calm /\ RowsInv /\ WorkInv /\ [Next]_vars => WorkInv'
<1> SUFFICES ASSUME Calm, RowsInv, WorkInv, [Next]_vars PROVE WorkInv'
  OBVIOUS
<1>1. CASE UNCHANGED vars
  BY <1>1 DEF vars, WorkInv
<1>2. CASE Next
  <2>1. CASE \E h \in Handler : Return(h)
    BY <2>1, ReturnWork
  <2>2. CASE Settled /\ \E h \in Handler : \E k \in Column : Move(h, k)
    BY <2>2, MoveWork
  <2>3. CASE Settled /\ \E h \in Handler : \E s \in DOMAIN sessions :
               Report(h, s) \/ \E outcome \in {"completed", "failed"} : EndTurn(h, s, outcome)
    BY <2>3, EventWork
  <2>4. ~\E h \in Handler : Scan(h)
    BY Unsupervised DEF Scan, Inactive
  <2>5. CASE \E h \in Handler : StartSucceeds(h)
    BY <2>5, StartSucceedsWork
  <2>6. CASE \E h \in Handler : StartFails(h)
    BY <2>6, StartFailsWork
  <2>7. CASE \E h \in Handler : FinishArtifact(h)
    BY <2>7, FinishArtifactWork
  <2>8. CASE Settled /\ \E h \in Handler : Look(h)
    BY <2>8, LookWork
  <2>9. CASE Restart
    BY <2>9, RestartWork
  <2>10. CASE \E s \in DOMAIN sessions : Stall(s)
    BY <2>10, StallWork
  <2>11. CASE \E n \in DOMAIN automations : Cleanup(n)
    BY <2>11, CleanupWork
  <2>12. CASE Settled /\ \E h \in Handler : Promote(h)
    BY <2>12, PromoteWork
  <2>13. ~\E h \in Handler : FinishNotify(h) \/ Revive(h)
    BY DEF FinishNotify, Revive, At, WorkInv, PlaceFits
  <2> QED BY <1>2, <2>1, <2>2, <2>3, <2>4, <2>5, <2>6, <2>7, <2>8, <2>9, <2>10, <2>11, <2>12,
             <2>13 DEF Next
<1> QED BY <1>1, <1>2

LEMMA WorkOne == RowsInv /\ WorkInv => OneWorker
<1> SUFFICES ASSUME RowsInv, WorkInv, NEW n \in DOMAIN automations
             PROVE  Cardinality({s \in DOMAIN sessions :
                                   /\ sessions[s].automation = n
                                   /\ sessions[s].state = "live" /\ ~sessions[s].reported}) <= 1
  BY DEF OneWorker
<1> DEFINE W == {s \in DOMAIN sessions :
                   /\ sessions[s].automation = n
                   /\ sessions[s].state = "live" /\ ~sessions[s].reported}
<1>1. /\ DOMAIN sessions = 1..Len(sessions)
      /\ n \in 1..Len(automations) /\ Len(automations) \in Nat
  BY RowsParts
<1>2. n # 0
  BY <1>1, SMT
<1>3. \A s, p \in W : s = p
  BY <1>1, <1>2 DEF WorkInv, LaneFits, Engaged, Working
<1>4. CASE W = {}
  BY <1>4, FS_EmptySet, SMT
<1>5. CASE W # {}
  <2>1. PICK s \in W : TRUE
    BY <1>5
  <2>2. W = {s}
    BY <1>3, <2>1
  <2> HIDE DEF W
  <2>3. Cardinality(W) = 1
    BY <2>2, FS_Singleton
  <2>4. Cardinality(W) <= 1
    BY <2>3, SMT
  <2> QED BY <2>4 DEF W
<1> QED BY <1>4, <1>5

(* Sessions are made by starts only. *)
LEMMA OnlyStartsAdd ==
  ASSUME RowsInv, [Next]_vars, ~\E h \in Handler : StartSucceeds(h)
  PROVE  DOMAIN sessions' = DOMAIN sessions
<1>1. \A s, state : DOMAIN InState(s, state) = DOMAIN sessions
  BY DEF InState
<1>2. ASSUME NEW h, NEW n, NEW s, NEW as, NEW ss, NEW object, DOMAIN ss = DOMAIN sessions,
             NotifyAndRecover(h, n, s, as, ss, object)
      PROVE  DOMAIN sessions' = DOMAIN sessions
  <2>1. sessions' \in {ss, [ss EXCEPT ![s].state = "live"]}
    BY <1>2 DEF NotifyAndRecover
  <2> QED BY <1>2, <2>1
<1>3. ASSUME NEW h, NEW s, NEW outcome, NEW autos, NEW ss, DOMAIN ss = DOMAIN sessions,
             HandleAgentCompletion(h, s, outcome, autos, ss)
      PROVE  DOMAIN sessions' = DOMAIN sessions
  <2>1. \/ sessions' = ss
        \/ \E as, object : NotifyAndRecover(h, active, s, as, ss, object)
    BY <1>3 DEF HandleAgentCompletion
  <2> QED BY <1>2, <1>3, <2>1
<1>4. ASSUME NEW h, Return(h) PROVE DOMAIN sessions' = DOMAIN sessions
  <2>1. \/ sessions' = sessions
        \/ \E n, s, as, object : NotifyAndRecover(h, n, s, as, sessions, object)
    BY <1>4 DEF Return
  <2> QED BY <1>2, <2>1
<1>5. ASSUME NEW h, NEW s, Report(h, s) PROVE DOMAIN sessions' = DOMAIN sessions
  <2> DEFINE ss == [sessions EXCEPT ![s].reported = TRUE]
  <2>1. DOMAIN ss = DOMAIN sessions
    OBVIOUS
  <2>2. HandleAgentCompletion(h, s, "completed", automations, ss)
    BY <1>5 DEF Report
  <2> HIDE DEF ss
  <2> QED BY <1>3, <2>1, <2>2
<1>6. ASSUME NEW h, NEW s, NEW outcome, EndTurn(h, s, outcome)
      PROVE  DOMAIN sessions' = DOMAIN sessions
  <2> DEFINE ss == [sessions EXCEPT
                      ![s].state = IF sessions[s].state = "timedout" THEN "late" ELSE outcome,
                      ![s].reported = @ \/ outcome = "completed"]
  <2>1. DOMAIN ss = DOMAIN sessions
    OBVIOUS
  <2>2. HandleAgentCompletion(h, s, outcome, automations, ss)
    BY <1>6 DEF EndTurn
  <2> HIDE DEF ss
  <2> QED BY <1>3, <2>1, <2>2
<1>7. ASSUME NEW h, Scan(h) PROVE DOMAIN sessions' = DOMAIN sessions
  BY <1>1, <1>3, <1>7 DEF Scan
<1>8. ASSUME Restart \/ \E s \in DOMAIN sessions : Stall(s)
      PROVE  DOMAIN sessions' = DOMAIN sessions
  BY <1>1, <1>8 DEF Restart, Stall
<1>9. CASE sessions' = sessions
  BY <1>9
<1>10. \/ sessions' = sessions
       \/ \E h \in Handler : Return(h) \/ Scan(h)
       \/ \E h \in Handler : \E s \in DOMAIN sessions :
            Report(h, s) \/ \E outcome \in {"completed", "failed"} : EndTurn(h, s, outcome)
       \/ Restart \/ \E s \in DOMAIN sessions : Stall(s)
  BY DEF Next, vars, Move, StartFails, Promote, FinishNotify, FinishArtifact, Look, Revive, Cleanup
<1> QED BY <1>4, <1>5, <1>6, <1>7, <1>8, <1>9, <1>10

(* A session that is started for an automation follows one of the step before. *)
LEMMA StartFollows ==
  ASSUME SlotsFree, RowsInv, WorkInv, NEW h \in Handler, StartSucceeds(h),
         NEW s \in DOMAIN sessions' \ DOMAIN sessions,
         sessions'[s].automation # 0, sessions'[s].step > 1
  PROVE  \E p \in DOMAIN sessions :
           /\ sessions[p].automation = sessions'[s].automation
           /\ sessions[p].step = sessions'[s].step - 1
           /\ Ended(sessions[p])
<1> DEFINE hs == handler[h]
           x == [automation |-> hs.job.automation, column |-> hs.read.column,
                 step |-> hs.job.step, state |-> "live", reported |-> FALSE]
<1>1. hs # None /\ hs.pc = "start" /\ hs \in HandlerState /\ hs.read \in Task
  BY RowsParts DEF StartSucceeds, At, HandlerIn, RowIn
<1>2. StartFits(hs, automations, active)
  BY <1>1 DEF WorkInv, PlaceFits
<1>3. sessions' = Append(sessions, x) /\ sessions \in Seq(Session)
  BY RowsParts DEF StartSucceeds
<1>4. x \in Session
  BY <1>1, RowsParts DEF HandlerState, Session, Task, Job
<1>5. x.automation = active /\ x.step = hs.job.step
  BY <1>2 DEF StartFits
<1> HIDE DEF x
<1>6. sessions'[s] = x /\ DOMAIN sessions = 1..Len(sessions)
  <2>1. /\ DOMAIN sessions = 1..Len(sessions) /\ Len(sessions) \in Nat
        /\ DOMAIN sessions' = 1..(Len(sessions) + 1) /\ sessions'[Len(sessions) + 1] = x
    BY <1>3, <1>4
  <2>2. s = Len(sessions) + 1
    BY <2>1, SMT
  <2> QED BY <2>1, <2>2
<1>7. active # 0 /\ active \in 1..Len(automations)
  <2>1. active # 0
    BY <1>5, <1>6
  <2> QED BY <2>1, RowsParts, SMT
<1>8. /\ automations[active].step = x.step /\ automations[active].step > 1
      /\ automations[active].status # "failed"
  BY <1>2, <1>5, <1>6, <1>7 DEF StartFits, Waits
<1>9. PICK p \in 1..Len(sessions) : Precedes(sessions[p], active, automations[active].step)
  BY <1>7, <1>8 DEF WorkInv, LaneFits, Followed
<1> QED BY <1>5, <1>6, <1>8, <1>9 DEF Precedes

LEMMA WorkInOrder ==
  SlotsFree /\ RowsInv /\ WorkInv /\ [Next]_vars =>
    [\A s \in DOMAIN sessions' \ DOMAIN sessions :
       LET n == sessions'[s].automation IN
       n # 0 /\ sessions'[s].step > 1 /\ ~Supervised(automations[n]) =>
         \E p \in DOMAIN sessions :
           /\ sessions[p].automation = n
           /\ sessions[p].step = sessions'[s].step - 1
           /\ \/ sessions[p].reported
              \/ FallbackSteps > 0 /\ sessions[p].state \in {"failed", "late"}]_vars
<1> SUFFICES ASSUME SlotsFree, RowsInv, WorkInv, [Next]_vars,
                    NEW s \in DOMAIN sessions' \ DOMAIN sessions,
                    sessions'[s].automation # 0, sessions'[s].step > 1
             PROVE  \E p \in DOMAIN sessions :
                      /\ sessions[p].automation = sessions'[s].automation
                      /\ sessions[p].step = sessions'[s].step - 1
                      /\ Ended(sessions[p])
  BY DEF Ended
<1>1. PICK h \in Handler : StartSucceeds(h)
  BY OnlyStartsAdd
<1> QED BY <1>1, StartFollows

(* Two agents never work for one automation (startNextAutomationStep), on     *)
(* every board that supervises nobody, for every lane, fallback chain, number *)
(* of handlers and wait for a slot, as long as nothing moves the card while a *)
(* session of it is created or its artifact is collected.                     *)
THEOREM OneWorkerCorrect == ASSUME Calm PROVE Spec => []OneWorker
<1>1. Spec => [](RowsInv /\ WorkInv)
  <2>1. Init => RowsInv /\ WorkInv
    BY RowsInit, WorkInit
  <2>2. RowsInv /\ WorkInv /\ [Next]_vars => RowsInv' /\ WorkInv'
    BY RowsStep, WorkStep
  <2> QED BY <2>1, <2>2, PTL DEF Spec
<1> QED BY <1>1, WorkOne, PTL

(* And the sessions of an automation do its steps one after the other, when   *)
(* the board has a slot for every card.                                       *)
THEOREM StepsInOrderCorrect == ASSUME Calm, SlotsFree PROVE Spec => StepsInOrder
<1>1. Spec => [](RowsInv /\ WorkInv)
  <2>1. Init => RowsInv /\ WorkInv
    BY RowsInit, WorkInit
  <2>2. RowsInv /\ WorkInv /\ [Next]_vars => RowsInv' /\ WorkInv'
    BY RowsStep, WorkStep
  <2> QED BY <2>1, <2>2, PTL DEF Spec
<1> QED BY <1>1, WorkInOrder, PTL DEF Spec, StepsInOrder
=============================================================================
