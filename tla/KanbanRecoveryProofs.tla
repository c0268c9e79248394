------------------------ MODULE KanbanRecoveryProofs ------------------------
(* Bounded recovery: how often a step of an automation is started, for every  *)
(* lane, number of handlers and number of attempts.                           *)
EXTENDS KanbanWorkflowProofs

\* The attempts of step i of automation n: sessions, starts under way, and the waiting job.
SessionsOf(n, i, ss) == {s \in DOMAIN ss : ss[s].automation = n /\ ss[s].step = i}
StartsStep(hs, n, i) ==
  hs # None /\ hs.pc = "start" /\ hs.job.automation = n /\ hs.job.step = i
StartsOf(n, i, handlers) == {h \in Handler : StartsStep(handlers[h], n, i)}
WaitsFor(n, i, j) == IF j # None /\ j.automation = n /\ j.step = i THEN 1 ELSE 0
Spent(n, i, ss, handlers, j) ==
  Cardinality(SessionsOf(n, i, ss)) + Cardinality(StartsOf(n, i, handlers)) + WaitsFor(n, i, j)

\* A handler was let through to recover automation n, and waits: for the answer to the
\* prompt, or for a fallback agent that may not start (shouldRecover was asked before).
Hopes(hs, n) ==
  /\ hs # None /\ hs.job.automation = n
  /\ hs.pc = "notify" \/ (hs.kind = "fallback" /\ hs.recover)
HopesOf(n, handlers) == {h \in Handler : Hopes(handlers[h], n)}

\* The attempts a step may have: those of the step under way are counted one by one.
Limit(n, i, autos) ==
  IF n > Len(autos) THEN 0
  ELSE IF i < autos[n].step THEN 1 + Retries(autos[n])
  ELSE IF i = autos[n].step THEN 1 + autos[n].recoveries
  ELSE 0

Place == Nat \ {0}

\* The recoveries there were, and those that were let through.
Patient(autos, handlers) ==
  \A n \in 1..Len(autos) :
    autos[n].recoveries + Cardinality(HopesOf(n, handlers)) <= Retries(autos[n])

(* The inductive invariant: no step has spent more than its limit, and there  *)
(* is a recovery left for every handler that was let through.                 *)
BudgetInv ==
  /\ Patient(automations, handler)
  /\ \A n, i \in Place : Spent(n, i, sessions, handler, job) <= Limit(n, i, automations)

\* A step of the system spends at most one attempt of step k of automation m (none, if m = 0),
\* and raises the limit of that step by one.
Added(n, i, m, k) == IF n = m /\ i = k THEN 1 ELSE 0
Cost(m, k) ==
  \A n, i \in Place : Spent(n, i, sessions', handler', job')
                        <= Spent(n, i, sessions, handler, job) + Added(n, i, m, k)
Raised(m, k) ==
  \A n, i \in Place : Limit(n, i, automations) + Added(n, i, m, k) <= Limit(n, i, automations')

-----------------------------------------------------------------------------
LEMMA CountTypes ==
  ASSUME NEW ss \in Seq(Session), NEW handlers, NEW j, NEW n, NEW i
  PROVE  /\ IsFiniteSet(SessionsOf(n, i, ss)) /\ Cardinality(SessionsOf(n, i, ss)) \in Nat
         /\ IsFiniteSet(StartsOf(n, i, handlers)) /\ Cardinality(StartsOf(n, i, handlers)) \in Nat
         /\ WaitsFor(n, i, j) \in Nat
         /\ Spent(n, i, ss, handlers, j) \in Nat
<1>1. Len(ss) \in Nat /\ DOMAIN ss = 1..Len(ss) /\ MaxHandlers \in Nat
  BY BoundAssumption
<1>2. IsFiniteSet(1..Len(ss)) /\ IsFiniteSet(Handler)
  <2>1. \A m \in Nat : IsFiniteSet(1..m)
    BY FS_Interval
  <2> QED BY <1>1, <2>1 DEF Handler
<1>3. IsFiniteSet(SessionsOf(n, i, ss)) /\ IsFiniteSet(StartsOf(n, i, handlers))
  BY <1>1, <1>2, FS_Subset DEF SessionsOf, StartsOf
<1>4. WaitsFor(n, i, j) \in Nat
  BY DEF WaitsFor
<1>5. Cardinality(SessionsOf(n, i, ss)) \in Nat /\ Cardinality(StartsOf(n, i, handlers)) \in Nat
  BY <1>3, FS_CardinalityType
<1>6. Spent(n, i, ss, handlers, j) \in Nat
  BY <1>4, <1>5, SMT DEF Spent
<1> QED BY <1>3, <1>4, <1>5, <1>6

LEMMA RetriesType ==
  /\ MaxRecoveryAttempts \in Nat /\ MaxHandlers \in Nat \ {0}
  /\ \A a : /\ Retries(a) \in Nat
            /\ Supervised(a) /\ MaxRecoveryAttempts > 0 =>
                 Retries(a) = MaxRecoveryAttempts + MaxHandlers - 1
<1>1. MaxRecoveryAttempts \in Nat /\ MaxHandlers \in Nat \ {0}
  BY SupervisionAssumption, BoundAssumption
<1>2. MaxRecoveryAttempts + MaxHandlers - 1 \in Nat
  BY <1>1, SMT
<1> QED BY <1>1, <1>2 DEF Retries

LEMMA LimitType ==
  ASSUME NEW autos \in Seq(Lawful), NEW n \in Place, NEW i \in Place
  PROVE  Limit(n, i, autos) \in Nat
<1>1. Len(autos) \in Nat
  OBVIOUS
<1>2. CASE n > Len(autos)
  BY <1>2 DEF Limit
<1>3. CASE ~(n > Len(autos))
  <2>1. n \in 1..Len(autos)
    BY <1>1, <1>3, SMT DEF Place
  <2>2. autos[n].recoveries \in Nat
    BY <2>1, ElementLawful DEF Automation
  <2>3. 1 + Retries(autos[n]) \in Nat /\ 1 + autos[n].recoveries \in Nat
    BY <2>2, RetriesType, SMT
  <2> QED BY <1>3, <2>3 DEF Limit
<1> QED BY <1>2, <1>3

LEMMA BudgetStep ==
  ASSUME RowsInv, RowsInv', BudgetInv, Patient(automations', handler'),
         NEW m, NEW k, Cost(m, k), Raised(m, k)
  PROVE  BudgetInv'
<1>1. ASSUME NEW n \in Place, NEW i \in Place
      PROVE  Spent(n, i, sessions', handler', job') <= Limit(n, i, automations')
  <2> DEFINE s == Spent(n, i, sessions, handler, job)
             l == Limit(n, i, automations)
             s1 == Spent(n, i, sessions', handler', job')
             l1 == Limit(n, i, automations')
             d == Added(n, i, m, k)
  <2>1. sessions \in Seq(Session) /\ sessions' \in Seq(Session)
        /\ automations \in Seq(Lawful) /\ automations' \in Seq(Lawful)
    BY DEF RowsInv
  <2>2. s \in Nat /\ s1 \in Nat /\ l \in Nat /\ l1 \in Nat /\ d \in Nat
    BY <2>1, CountTypes, LimitType DEF Added
  <2>3. s <= l /\ s1 <= s + d /\ l + d <= l1
    BY DEF BudgetInv, Cost, Raised
  <2> HIDE DEF s, l, s1, l1, d
  <2>4. s1 <= l1
    BY <2>2, <2>3, SMT
  <2> QED BY <2>4 DEF s1, l1
<1> QED BY <1>1 DEF BudgetInv, Patient

-----------------------------------------------------------------------------
(* What is spent.  The sessions keep what they work for. *)
SameWork(ss) ==
  /\ Len(ss) = Len(sessions)
  /\ \A s \in 1..Len(sessions) : ss[s].automation = sessions[s].automation
                                 /\ ss[s].step = sessions[s].step

LEMMA SameSessions ==
  ASSUME sessions \in Seq(Session), NEW ss \in Seq(Session), SameWork(ss), NEW n, NEW i
  PROVE  SessionsOf(n, i, ss) = SessionsOf(n, i, sessions)
<1>1. DOMAIN ss = 1..Len(sessions) /\ DOMAIN sessions = 1..Len(sessions)
  BY DEF SameWork
<1> QED BY <1>1 DEF SessionsOf, SameWork

LEMMA HandlerCounts ==
  ASSUME NEW h \in Handler, handler \in [Handler -> HandlerState \union {None}], NEW x,
         handler' = [handler EXCEPT ![h] = x], sessions \in Seq(Session), NEW n, NEW i
  PROVE  Cardinality(StartsOf(n, i, handler'))
           <= Cardinality(StartsOf(n, i, handler)) + (IF StartsStep(x, n, i) THEN 1 ELSE 0)
<1> DEFINE before == StartsOf(n, i, handler)
           after == StartsOf(n, i, handler')
<1>1. \A g \in Handler : handler'[g] = IF g = h THEN x ELSE handler[g]
  OBVIOUS
<1>2. IsFiniteSet(before) /\ Cardinality(before) \in Nat /\ Cardinality(after) \in Nat
  BY CountTypes
<1>3. CASE StartsStep(x, n, i)
  <2>1. after \in SUBSET (before \union {h})
    BY <1>1 DEF StartsOf
  <2> HIDE DEF before, after
  <2>2. /\ IsFiniteSet(before \union {h})
        /\ Cardinality(before \union {h})
             = IF h \in before THEN Cardinality(before) ELSE Cardinality(before) + 1
    BY <1>2, FS_AddElement
  <2>3. Cardinality(after) <= Cardinality(before \union {h})
    BY <2>1, <2>2, FS_Subset
  <2>4. Cardinality(after) <= Cardinality(before) + 1
    BY <1>2, <2>2, <2>3, SMT
  <2> QED BY <1>3, <2>4 DEF before, after
<1>4. CASE ~StartsStep(x, n, i)
  <2>1. after \in SUBSET before
    BY <1>1, <1>4 DEF StartsOf
  <2> HIDE DEF before, after
  <2>2. Cardinality(after) <= Cardinality(before)
    BY <1>2, <2>1, FS_Subset
  <2>3. Cardinality(after) <= Cardinality(before) + 0
    BY <1>2, <2>2, SMT
  <2> QED BY <1>4, <2>3 DEF before, after
<1> QED BY <1>3, <1>4

(* The handler at place h becomes x: a start, a waiting job, or neither. *)
Pays(x, m, k) ==
  \/ (x = None \/ x.pc # "start") /\ job' \in {job, None}
  \/ (x = None \/ x.pc # "start") /\ job'.automation = m /\ job'.step = k
  \/ x.job.automation = m /\ x.job.step = k /\ job' = None

LEMMA HandlerCost ==
  ASSUME RowsInv, NEW h \in Handler, NEW x, handler' = [handler EXCEPT ![h] = x],
         sessions' \in Seq(Session), SameWork(sessions'), NEW m, NEW k, Pays(x, m, k)
  PROVE  Cost(m, k)
<1> SUFFICES ASSUME NEW n \in Place, NEW i \in Place
             PROVE  Spent(n, i, sessions', handler', job')
                      <= Spent(n, i, sessions, handler, job) + Added(n, i, m, k)
  BY DEF Cost
<1> DEFINE c == Cardinality(SessionsOf(n, i, sessions))
           b == Cardinality(StartsOf(n, i, handler))
           w == WaitsFor(n, i, job)
           b1 == Cardinality(StartsOf(n, i, handler'))
           w1 == WaitsFor(n, i, job')
           d == Added(n, i, m, k)
           e == IF StartsStep(x, n, i) THEN 1 ELSE 0
<1>1. sessions \in Seq(Session) /\ handler \in [Handler -> HandlerState \union {None}]
  BY DEF RowsInv
<1>2. Cardinality(SessionsOf(n, i, sessions')) = c
  BY <1>1, SameSessions
<1>3. c \in Nat /\ b \in Nat /\ w \in Nat /\ b1 \in Nat /\ w1 \in Nat /\ d \in Nat /\ e \in Nat
  BY <1>1, CountTypes DEF Added
<1>4. b1 <= b + e
  BY <1>1, HandlerCounts
<1>5. e + w1 <= w + d
  <2>1. CASE (x = None \/ x.pc # "start") /\ job' \in {job, None}
    <3>1. e = 0 /\ w1 \in {w, 0}
      BY <2>1 DEF StartsStep, WaitsFor
    <3> HIDE DEF e, w, w1, d
    <3> QED BY <1>3, <3>1, SMT
  <2>2. CASE (x = None \/ x.pc # "start") /\ job'.automation = m /\ job'.step = k
    <3>1. e = 0 /\ (w1 = 0 \/ w1 = d)
      BY <2>2 DEF StartsStep, WaitsFor, Added
    <3> HIDE DEF e, w, w1, d
    <3> QED BY <1>3, <3>1, SMT
  <2>3. CASE x.job.automation = m /\ x.job.step = k /\ job' = None
    <3>1. w1 = 0 /\ (e = 0 \/ e = d)
      BY <2>3 DEF StartsStep, WaitsFor, Added
    <3> HIDE DEF e, w, w1, d
    <3> QED BY <1>3, <3>1, SMT
  <2> QED BY <2>1, <2>2, <2>3 DEF Pays
<1>6. /\ Spent(n, i, sessions', handler', job') = c + b1 + w1
      /\ Spent(n, i, sessions, handler, job) = c + b + w
  BY <1>2 DEF Spent
<1> HIDE DEF c, b, w, b1, w1, d, e
<1>7. c + b1 + w1 <= (c + b + w) + d
  BY <1>3, <1>4, <1>5, SMT
<1> QED BY <1>6, <1>7 DEF d

LEMMA SameHandlersCost ==
  ASSUME RowsInv, handler' = handler, job' \in {job, None},
         sessions' \in Seq(Session), SameWork(sessions')
  PROVE  Cost(0, 0)
<1>1. 1 \in Handler
  BY BoundAssumption, SMT DEF Handler
<1>2. handler' = [handler EXCEPT ![1] = handler[1]]
  BY <1>1 DEF RowsInv
<1>3. CASE handler[1] = None \/ handler[1].pc # "start"
  BY <1>1, <1>2, <1>3, HandlerCost DEF Pays
<1>4. CASE handler[1] # None /\ handler[1].pc = "start"
  <2> SUFFICES ASSUME NEW n \in Place, NEW i \in Place
               PROVE  Spent(n, i, sessions', handler', job')
                        <= Spent(n, i, sessions, handler, job) + Added(n, i, 0, 0)
    BY DEF Cost
  <2> DEFINE c == Cardinality(SessionsOf(n, i, sessions))
             b == Cardinality(StartsOf(n, i, handler))
             w == WaitsFor(n, i, job)
             w1 == WaitsFor(n, i, job')
  <2>1. sessions \in Seq(Session)
    BY DEF RowsInv
  <2>2. c \in Nat /\ b \in Nat /\ w \in Nat /\ w1 \in {w, 0} /\ Added(n, i, 0, 0) = 0
    BY <2>1, CountTypes DEF Added, Place, WaitsFor
  <2>3. /\ Spent(n, i, sessions', handler', job') = c + b + w1
        /\ Spent(n, i, sessions, handler, job) = c + b + w
    BY <2>1, SameSessions DEF Spent
  <2> HIDE DEF c, b, w, w1
  <2> QED BY <2>2, <2>3, SMT
<1> QED BY <1>3, <1>4

(* Who was let through. *)
LEMMA HopesTypes ==
  ASSUME NEW n, NEW handlers
  PROVE  /\ HopesOf(n, handlers) \subseteq Handler /\ IsFiniteSet(HopesOf(n, handlers))
         /\ Cardinality(HopesOf(n, handlers)) \in Nat
         /\ IsFiniteSet(Handler) /\ Cardinality(Handler) = MaxHandlers
<1>1. IsFiniteSet(Handler) /\ Cardinality(Handler) = MaxHandlers
  <2>1. MaxHandlers \in Nat /\ 1 \in Int /\ MaxHandlers \in Int
    BY BoundAssumption, SMT
  <2>2. \A m \in Nat : IsFiniteSet(1..m) /\ Cardinality(1..m) = m
    <3> SUFFICES ASSUME NEW m \in Nat PROVE IsFiniteSet(1..m) /\ Cardinality(1..m) = m
      OBVIOUS
    <3>1. /\ IsFiniteSet(1..m)
          /\ Cardinality(1..m) = IF 1 > m THEN 0 ELSE m - 1 + 1
      BY FS_Interval
    <3> QED BY <3>1, SMT
  <2> QED BY <2>1, <2>2 DEF Handler
<1>2. HopesOf(n, handlers) \subseteq Handler
  BY DEF HopesOf
<1> QED BY <1>1, <1>2, FS_Subset, FS_CardinalityType

LEMMA HopesCounts ==
  ASSUME NEW h \in Handler, handler \in [Handler -> HandlerState \union {None}], NEW x,
         handler' = [handler EXCEPT ![h] = x], NEW n
  PROVE  /\ Cardinality(HopesOf(n, handler')) <= MaxHandlers
         /\ ~Hopes(x, n) =>
              /\ Cardinality(HopesOf(n, handler')) <= Cardinality(HopesOf(n, handler))
              /\ Cardinality(HopesOf(n, handler')) + 1 <= MaxHandlers
         /\ Hopes(handler[h], n) =>
              Cardinality(HopesOf(n, handler')) <= Cardinality(HopesOf(n, handler))
         /\ ~Hopes(x, n) /\ Hopes(handler[h], n) =>
              Cardinality(HopesOf(n, handler')) + 1 <= Cardinality(HopesOf(n, handler))
<1> DEFINE before == HopesOf(n, handler)
           after == HopesOf(n, handler')
<1>1. \A g \in Handler : handler'[g] = IF g = h THEN x ELSE handler[g]
  OBVIOUS
<1>2. /\ before \subseteq Handler /\ after \subseteq Handler
      /\ IsFiniteSet(before) /\ Cardinality(before) \in Nat /\ Cardinality(after) \in Nat
      /\ IsFiniteSet(Handler) /\ Cardinality(Handler) = MaxHandlers /\ MaxHandlers \in Nat
  BY HopesTypes, BoundAssumption
<1>3. /\ ~Hopes(x, n) => after \subseteq before \ {h} /\ after \subseteq Handler \ {h}
      /\ Hopes(handler[h], n) => after \subseteq before /\ h \in before
  BY <1>1 DEF HopesOf
<1> HIDE DEF before, after
<1>4. /\ IsFiniteSet(Handler \ {h}) /\ Cardinality(Handler \ {h}) = MaxHandlers - 1
      /\ IsFiniteSet(before \ {h})
      /\ Cardinality(before \ {h}) =
           IF h \in before THEN Cardinality(before) - 1 ELSE Cardinality(before)
  BY <1>2, FS_RemoveElement
<1>5. Cardinality(after) <= MaxHandlers
  BY <1>2, FS_Subset
<1>6. ASSUME ~Hopes(x, n)
      PROVE  /\ Cardinality(after) <= Cardinality(before) /\ Cardinality(after) + 1 <= MaxHandlers
             /\ h \in before => Cardinality(after) + 1 <= Cardinality(before)
  <2>1. Cardinality(after) <= Cardinality(before \ {h})
        /\ Cardinality(after) <= Cardinality(Handler \ {h})
    BY <1>3, <1>4, <1>6, FS_Subset
  <2> QED BY <1>2, <1>4, <2>1, SMT
<1>7. Hopes(handler[h], n) => Cardinality(after) <= Cardinality(before)
  BY <1>2, <1>3, FS_Subset
<1> QED BY <1>3, <1>5, <1>6, <1>7 DEF before, after

FewerHopes ==
  \A n : Cardinality(HopesOf(n, handler')) <= Cardinality(HopesOf(n, handler))

LEMMA QuietHopes ==
  ASSUME RowsInv, NEW h \in Handler, NEW x, handler' = [handler EXCEPT ![h] = x],
         \A n : Hopes(x, n) => Hopes(handler[h], n)
  PROVE  FewerHopes
BY HopesCounts DEF RowsInv, FewerHopes

LEMMA SameHopes ==
  ASSUME handler' = handler PROVE FewerHopes
<1> SUFFICES ASSUME NEW n
             PROVE  Cardinality(HopesOf(n, handler')) <= Cardinality(HopesOf(n, handler))
  BY DEF FewerHopes
<1>1. HopesOf(n, handler') = HopesOf(n, handler)
  OBVIOUS
<1>2. Cardinality(HopesOf(n, handler)) \in Nat
  BY HopesTypes
<1> QED BY <1>1, <1>2, SMT

LEMMA CreateCost ==
  ASSUME RowsInv, NEW h \in Handler, NEW hs \in HandlerState, hs.pc = "returned",
         NEW t, NEW j \in {job, None}, NEW autos, CreateSession(h, hs, t, j, autos),
         sessions' \in Seq(Session), SameWork(sessions')
  PROVE  /\ Cost(hs.job.automation, hs.job.step) /\ automations' = autos
         /\ \E x : /\ handler' = [handler EXCEPT ![h] = x]
                   /\ \A n : Hopes(x, n) => /\ hs.kind = "fallback" /\ hs.recover
                                            /\ n = hs.job.automation
<1>1. \E x : /\ handler' = [handler EXCEPT ![h] = x]
             /\ x.kind = hs.kind /\ x.pc # "notify" /\ x.job = hs.job /\ x.recover = hs.recover
             /\ \/ x.pc # "start" /\ job' \in {job, None}
                \/ x.pc # "start" /\ job' = hs.job
                \/ job' = None
  <2> DEFINE got(s) == [hs EXCEPT !.pc = "returned", !.result = s]
             new == [hs EXCEPT !.pc = "start", !.read = t]
  <2>1. \A s : /\ got(s).kind = hs.kind /\ got(s).pc = "returned" /\ got(s).job = hs.job
               /\ got(s).recover = hs.recover
    BY DEF HandlerState
  <2>2. new.kind = hs.kind /\ new.pc = "start" /\ new.job = hs.job /\ new.recover = hs.recover
    BY DEF HandlerState
  <2>3. \/ handler' = [handler EXCEPT ![h] = got(t.trigger)] /\ job' = j
        \/ handler' = [handler EXCEPT ![h] = got(0)] /\ job' = j
        \/ handler' = [handler EXCEPT ![h] = got(0)] /\ job' = hs.job
        \/ handler' = [handler EXCEPT ![h] = got(0)] /\ job' = None
        \/ handler' = [handler EXCEPT ![h] = new] /\ job' = None
    BY DEF CreateSession, Becomes
  <2> HIDE DEF got, new
  <2> QED BY <2>1, <2>2, <2>3
<1>2. PICK x : /\ handler' = [handler EXCEPT ![h] = x]
               /\ x.kind = hs.kind /\ x.pc # "notify" /\ x.job = hs.job /\ x.recover = hs.recover
               /\ \/ x.pc # "start" /\ job' \in {job, None}
                  \/ x.pc # "start" /\ job' = hs.job
                  \/ job' = None
  BY <1>1
<1>3. \A n : Hopes(x, n) => hs.kind = "fallback" /\ hs.recover /\ n = hs.job.automation
  BY <1>2 DEF Hopes
<1>4. Cost(hs.job.automation, hs.job.step)
  BY <1>2, HandlerCost DEF Pays
<1> QED BY <1>2, <1>3, <1>4 DEF CreateSession

LEMMA EndsCost ==
  ASSUME RowsInv, NEW h \in Handler, Ends(h),
         sessions' \in Seq(Session), SameWork(sessions'), NEW m, NEW k,
         job' \in {job, None} \/ (job'.automation = m /\ job'.step = k)
  PROVE  Cost(m, k) /\ FewerHopes
<1>1. handler' = [handler EXCEPT ![h] = None]
  BY DEF Ends, Becomes
<1>2. Pays(None, m, k)
  BY DEF Pays
<1>3. Cost(m, k)
  BY <1>1, <1>2, HandlerCost
<1>4. \A n : ~Hopes(None, n)
  BY DEF Hopes
<1> QED BY <1>1, <1>3, <1>4, QuietHopes

-----------------------------------------------------------------------------
(* What the limits become. *)
Alike(a, b) == a.column = b.column /\ a.step = b.step /\ a.recoveries = b.recoveries
SameAutos(autos) ==
  Len(autos) = Len(automations) /\ \A n \in 1..Len(automations) : Alike(automations[n], autos[n])

LEMMA AlikeRetries ==
  ASSUME NEW a, NEW b, Alike(a, b) PROVE Retries(a) = Retries(b)
BY DEF Alike, Retries, Supervised

LEMMA LimitNone ==
  ASSUME NEW autos, NEW n \in Place, NEW i, ~(n <= Len(autos)), Len(autos) \in Nat
  PROVE  Limit(n, i, autos) = 0
<1>1. n > Len(autos)
  BY SMT DEF Place
<1> QED BY <1>1 DEF Limit

LEMMA LimitSome ==
  ASSUME NEW autos, NEW n \in 1..Len(autos), NEW i, Len(autos) \in Nat
  PROVE  Limit(n, i, autos) = IF i < autos[n].step THEN 1 + Retries(autos[n])
                              ELSE IF i = autos[n].step THEN 1 + autos[n].recoveries ELSE 0
<1>1. ~(n > Len(autos))
  BY SMT
<1> QED BY <1>1 DEF Limit

LEMMA AlikeLimit ==
  ASSUME NEW one, NEW other, Len(one) \in Nat, Len(other) \in Nat,
         NEW n \in 1..Len(one), n \in 1..Len(other), Alike(one[n], other[n]), NEW i
  PROVE  Limit(n, i, one) = Limit(n, i, other)
<1>1. one[n].step = other[n].step /\ one[n].recoveries = other[n].recoveries
  BY DEF Alike
<1>2. Retries(one[n]) = Retries(other[n])
  BY AlikeRetries
<1>3. Limit(n, i, one) = IF i < one[n].step THEN 1 + Retries(one[n])
                         ELSE IF i = one[n].step THEN 1 + one[n].recoveries ELSE 0
  BY LimitSome
<1>4. Limit(n, i, other) = IF i < other[n].step THEN 1 + Retries(other[n])
                           ELSE IF i = other[n].step THEN 1 + other[n].recoveries ELSE 0
  BY LimitSome
<1> QED BY <1>1, <1>2, <1>3, <1>4

LEMMA SameLimit ==
  ASSUME NEW autos, SameAutos(autos), automations \in Seq(Lawful), NEW n \in Place, NEW i
  PROVE  Limit(n, i, autos) = Limit(n, i, automations)
<1>1. Len(autos) = Len(automations) /\ Len(automations) \in Nat
  BY DEF SameAutos
<1>2. CASE n <= Len(automations)
  <2>1. n \in 1..Len(automations)
    BY <1>1, <1>2, SMT DEF Place
  <2>2. Alike(automations[n], autos[n])
    BY <2>1 DEF SameAutos
  <2> QED BY <1>1, <2>1, <2>2, AlikeLimit
<1>3. CASE ~(n <= Len(automations))
  BY <1>1, <1>3, LimitNone
<1> QED BY <1>2, <1>3

LEMMA SameRaised ==
  ASSUME RowsInv, SameAutos(automations'), NEW k PROVE Raised(0, k)
<1> SUFFICES ASSUME NEW n \in Place, NEW i \in Place
             PROVE  Limit(n, i, automations) + Added(n, i, 0, k) <= Limit(n, i, automations')
  BY DEF Raised
<1>1. Added(n, i, 0, k) = 0
  BY DEF Added, Place
<1>2. Limit(n, i, automations') = Limit(n, i, automations)
  BY RowsParts, SameLimit
<1>3. Limit(n, i, automations) \in Nat
  BY RowsParts, LimitType
<1> QED BY <1>1, <1>2, <1>3, SMT

(* A step of the system that starts nothing anew, and lets nobody through. *)
LEMMA QuietBudget ==
  ASSUME RowsInv, RowsInv', BudgetInv, SameAutos(automations'), NEW k, Cost(0, k), FewerHopes
  PROVE  BudgetInv'
<1>1. Raised(0, k)
  BY SameRaised
<1>2. ASSUME NEW n \in 1..Len(automations')
      PROVE  automations'[n].recoveries + Cardinality(HopesOf(n, handler'))
               <= Retries(automations'[n])
  <2>1. n \in 1..Len(automations) /\ Alike(automations[n], automations'[n])
    BY DEF SameAutos
  <2> DEFINE r == automations[n].recoveries
             w == Cardinality(HopesOf(n, handler))
             w1 == Cardinality(HopesOf(n, handler'))
             b == Retries(automations[n])
  <2>2. /\ r \in Nat /\ w \in Nat /\ w1 \in Nat /\ b \in Nat
        /\ automations'[n].recoveries = r /\ Retries(automations'[n]) = b
    BY <2>1, RowsParts, ElementLawful, HopesTypes, RetriesType, AlikeRetries DEF Automation, Alike
  <2>3. w1 <= w /\ r + w <= b
    BY <2>1 DEF FewerHopes, BudgetInv, Patient
  <2> HIDE DEF r, w, w1, b
  <2>4. r + w1 <= b
    BY <2>2, <2>3, SMT
  <2> QED BY <2>2, <2>4 DEF b, w1
<1>3. Patient(automations', handler')
  BY <1>2 DEF Patient
<1> QED BY <1>1, <1>3, BudgetStep

(* The handler at place h becomes x, which may wait for automation n only. *)
LEMMA PatientStep ==
  ASSUME RowsInv, RowsInv', BudgetInv, NEW h \in Handler, NEW x,
         handler' = [handler EXCEPT ![h] = x], NEW n, \A m : Hopes(x, m) => m = n,
         \A m \in 1..Len(automations') : m # n =>
           m \in 1..Len(automations) /\ Alike(automations[m], automations'[m]),
         n \in 1..Len(automations') =>
           automations'[n].recoveries + Cardinality(HopesOf(n, handler')) <= Retries(automations'[n])
  PROVE  Patient(automations', handler')
<1> SUFFICES ASSUME NEW m \in 1..Len(automations'), m # n
             PROVE  automations'[m].recoveries + Cardinality(HopesOf(m, handler'))
                      <= Retries(automations'[m])
  BY DEF Patient
<1>1. m \in 1..Len(automations) /\ Alike(automations[m], automations'[m])
  OBVIOUS
<1> DEFINE r == automations[m].recoveries
           w == Cardinality(HopesOf(m, handler))
           w1 == Cardinality(HopesOf(m, handler'))
           b == Retries(automations[m])
<1>2. /\ r \in Nat /\ w \in Nat /\ w1 \in Nat /\ b \in Nat
      /\ automations'[m].recoveries = r /\ Retries(automations'[m]) = b
  BY <1>1, RowsParts, ElementLawful, HopesTypes, RetriesType, AlikeRetries DEF Automation, Alike
<1>3. r + w <= b
  BY <1>1 DEF BudgetInv, Patient
<1>4. w1 <= w
  BY HopesCounts DEF RowsInv
<1> HIDE DEF r, w, w1, b
<1>5. r + w1 <= b
  BY <1>2, <1>3, <1>4, SMT
<1> QED BY <1>2, <1>5 DEF b, w1

(* A new automation: its first step is started, and nobody waits for it. *)
LEMMA NewBudget ==
  ASSUME RowsInv, RowsInv', BudgetInv, NEW autos \in Seq(Lawful), SameAutos(autos),
         NEW k \in Column, automations' = Append(autos, NewAutomation(k)),
         NEW h \in Handler, NEW x, handler' = [handler EXCEPT ![h] = x],
         \A m : ~Hopes(x, m), Cost(Len(autos) + 1, 1)
  PROVE  BudgetInv'
<1> DEFINE m == Len(autos) + 1
           new == NewAutomation(k)
<1>1. /\ automations \in Seq(Lawful) /\ automations' \in Seq(Lawful)
      /\ Len(automations) \in Nat /\ Len(autos) = Len(automations)
  BY RowsParts DEF RowsInv, SameAutos
<1>2. new.step = 1 /\ new.recoveries = 0
  BY DEF NewAutomation
<1>3. /\ Len(automations') = m /\ automations'[m] = new
      /\ \A n \in 1..Len(autos) : automations'[n] = autos[n]
  BY <1>1
<1>4. m \in Nat /\ m > Len(autos) /\ m \notin 1..Len(autos)
      /\ \A n \in 1..m : n # m => n \in 1..Len(autos)
  BY <1>1, SMT
<1>5. \A n \in 1..Len(autos) : Alike(automations[n], automations'[n])
  BY <1>1, <1>3 DEF SameAutos
<1>6. Cost(m, 1)
  OBVIOUS
<1> HIDE DEF m, new
<1>7. ASSUME NEW n \in Place, NEW i \in Place
      PROVE  Limit(n, i, automations) + Added(n, i, m, 1) <= Limit(n, i, automations')
  <2>1. Limit(n, i, automations) \in Nat
    BY <1>1, LimitType
  <2>2. CASE n <= Len(autos)
    <3>1. n \in 1..Len(autos) /\ n \in 1..m /\ n # m
      BY <1>1, <1>4, <2>2, SMT DEF Place
    <3>2. Limit(n, i, automations') = Limit(n, i, automations)
      <4>1. Alike(automations[n], automations'[n])
        BY <1>5, <3>1
      <4>2. n \in 1..Len(automations) /\ n \in 1..Len(automations') /\ Len(automations') \in Nat
        BY <1>1, <1>3, <1>4, <3>1
      <4> QED BY <1>1, <4>1, <4>2, AlikeLimit
    <3>3. Added(n, i, m, 1) = 0
      BY <3>1 DEF Added
    <3> QED BY <2>1, <3>2, <3>3, SMT
  <2>3. CASE n = m
    <3>1. ~(n <= Len(automations)) /\ n \in 1..m
      BY <1>1, <1>4, <2>3, SMT DEF Place
    <3>2. Limit(n, i, automations) = 0
      BY <1>1, <3>1, LimitNone
    <3>3. ~(i < 1)
      BY SMT DEF Place
    <3>4. Limit(n, i, automations') = IF i = 1 THEN 1 + 0 ELSE 0
      <4>1. m \in 1..Len(automations') /\ Len(automations') \in Nat
        BY <1>3, <1>4, <2>3, <3>1
      <4>2. Limit(m, i, automations') = IF i < automations'[m].step THEN 1 + Retries(automations'[m])
                                        ELSE IF i = automations'[m].step
                                             THEN 1 + automations'[m].recoveries ELSE 0
        BY <4>1, LimitSome
      <4> QED BY <1>2, <1>3, <2>3, <3>3, <4>2
    <3>5. Added(n, i, m, 1) = IF i = 1 THEN 1 ELSE 0
      BY <2>3 DEF Added
    <3> QED BY <3>2, <3>4, <3>5, SMT
  <2>4. CASE ~(n <= Len(autos)) /\ n # m
    <3>1. ~(n <= Len(automations)) /\ ~(n <= Len(automations'))
      BY <1>1, <1>3, <1>4, <2>4, SMT DEF m, Place
    <3>2. Limit(n, i, automations) = 0 /\ Limit(n, i, automations') = 0
      BY <1>1, <1>3, <1>4, <3>1, LimitNone
    <3>3. Added(n, i, m, 1) = 0
      BY <2>4 DEF Added
    <3> QED BY <3>2, <3>3, SMT
  <2> QED BY <2>2, <2>3, <2>4
<1>8. HopesOf(m, handler') = {}
  <2>1. \A g \in Handler : ~Hopes(handler[g], m)
    <3>1. \A g \in Handler : handler[g] # None /\ handler[g].kind # "job" =>
            handler[g].job.automation \in 1..Len(autos)
      BY <1>1, RowsParts DEF HandlerIn
    <3>2. \A g \in Handler : handler[g] # None /\ handler[g].pc = "notify" =>
            handler[g].kind # "job"
      BY RowsParts DEF HandlerIn
    <3> QED BY <1>4, <3>1, <3>2 DEF Hopes
  <2>2. \A g \in Handler : handler'[g] = IF g = h THEN x ELSE handler[g]
    BY DEF RowsInv
  <2> QED BY <2>1, <2>2 DEF HopesOf
<1>9. automations'[m].recoveries + Cardinality(HopesOf(m, handler')) <= Retries(automations'[m])
  <2>1. Cardinality(HopesOf(m, handler')) = 0
    BY <1>8, FS_EmptySet
  <2>2. automations'[m].recoveries = 0 /\ Retries(automations'[m]) \in Nat
    BY <1>2, <1>3, RetriesType
  <2>3. \A b \in Nat : 0 + 0 <= b
    BY SMT
  <2> QED BY <2>1, <2>2, <2>3
<1>10. Patient(automations', handler')
  <2>1. \A n \in 1..Len(automations') : n # m =>
          n \in 1..Len(automations) /\ Alike(automations[n], automations'[n])
    BY <1>1, <1>3, <1>4, <1>5
  <2>2. \A n : Hopes(x, n) => n = m
    OBVIOUS
  <2> QED BY <1>9, <2>1, <2>2, PatientStep
<1> QED BY <1>6, <1>7, <1>10, BudgetStep DEF Raised

(* The next step, or the same step once more, of automation n. *)
LEMMA AttemptBudget ==
  ASSUME RowsInv, RowsInv', BudgetInv, NEW autos \in Seq(Lawful), SameAutos(autos),
         NEW n \in 1..Len(autos), NEW a \in Lawful, a.column = autos[n].column,
         automations' = [autos EXCEPT ![n] = a],
         \/ a.step = autos[n].step + 1 /\ a.recoveries = 0
         \/ a.step = autos[n].step /\ a.recoveries = autos[n].recoveries + 1,
         NEW h \in Handler, NEW x, handler' = [handler EXCEPT ![h] = x],
         \A m : Hopes(x, m) => m = n,
         a.recoveries + Cardinality(HopesOf(n, handler')) <= Retries(a), Cost(n, a.step)
  PROVE  BudgetInv'
<1>1. /\ automations \in Seq(Lawful) /\ Len(automations) \in Nat
      /\ Len(autos) = Len(automations) /\ n \in Place
  <2>1. automations \in Seq(Lawful) /\ Len(automations) \in Nat /\ Len(autos) = Len(automations)
    BY RowsParts DEF SameAutos
  <2> QED BY <2>1, SMT DEF Place
<1>2. /\ Len(automations') = Len(autos) /\ automations'[n] = a
      /\ \A m \in 1..Len(autos) : m # n => automations'[m] = autos[m]
  BY <1>1
<1> DEFINE b == Retries(a)
           p == autos[n].step
           r == autos[n].recoveries
<1>3. Retries(autos[n]) = b /\ b \in Nat /\ r <= b
  <2>1. Retries(autos[n]) = b /\ b \in Nat
    BY RetriesType DEF Retries, Supervised
  <2> DEFINE w == Cardinality(HopesOf(n, handler))
  <2>2. automations[n].recoveries = r /\ Retries(automations[n]) = b
    BY <1>1, <2>1, AlikeRetries DEF SameAutos, Alike
  <2>3. r + w <= b /\ w \in Nat /\ r \in Nat
    BY <1>1, <2>2, HopesTypes, ElementLawful DEF BudgetInv, Patient, Automation
  <2> HIDE DEF b, r, w
  <2>4. r <= b
    BY <2>1, <2>3, SMT
  <2> QED BY <2>1, <2>4
<1>4. p \in Nat /\ r \in Nat /\ a.step \in Nat /\ a.recoveries \in Nat
  BY <1>1, ElementLawful DEF Lawful, Automation
<1>5. Patient(automations', handler')
  <2>1. \A m \in 1..Len(automations') : m # n =>
          m \in 1..Len(automations) /\ Alike(automations[m], automations'[m])
    BY <1>1, <1>2 DEF SameAutos
  <2> QED BY <1>2, <2>1, PatientStep
<1>6. ASSUME NEW m \in Place, NEW i \in Place
      PROVE  Limit(m, i, automations) + Added(m, i, n, a.step) <= Limit(m, i, automations')
  <2> DEFINE l == Limit(m, i, autos)
             l1 == Limit(m, i, automations')
             d == Added(m, i, n, a.step)
  <2>1. Limit(m, i, automations) = l
    BY <1>1, SameLimit
  <2>2. l \in Nat
    BY LimitType
  <2>3. CASE m # n
    <3>1. d = 0
      BY <2>3 DEF Added
    <3>2. l1 = l
      <4>1. CASE m <= Len(autos)
        <5>1. m \in 1..Len(autos)
          BY <1>1, <4>1, SMT DEF Place
        <5> QED BY <1>2, <2>3, <5>1 DEF Limit
      <4>2. CASE ~(m <= Len(autos))
        BY <1>1, <1>2, <4>2, LimitNone
      <4> QED BY <4>1, <4>2
    <3> HIDE DEF l, l1, d
    <3>3. l + d <= l1
      BY <2>2, <3>1, <3>2, SMT
    <3> QED BY <2>1, <3>3 DEF l, l1, d
  <2>4. CASE m = n
    <3>2. l = IF i < p THEN 1 + b ELSE IF i = p THEN 1 + r ELSE 0
      BY <1>1, <1>3, <2>4, LimitSome
    <3>3. l1 = IF i < a.step THEN 1 + b ELSE IF i = a.step THEN 1 + a.recoveries ELSE 0
      <4>1. n \in 1..Len(automations') /\ Len(automations') \in Nat /\ automations'[n] = a
        BY <1>1, <1>2
      <4>2. Limit(n, i, automations') = IF i < automations'[n].step
                                        THEN 1 + Retries(automations'[n])
                                        ELSE IF i = automations'[n].step
                                             THEN 1 + automations'[n].recoveries ELSE 0
        BY <4>1, LimitSome
      <4> QED BY <2>4, <4>1, <4>2
    <3>4. d = IF i = a.step THEN 1 ELSE 0
      BY <2>4 DEF Added
    <3>5. i \in Nat
      BY DEF Place
    <3> HIDE DEF l, l1, d, b
    <3>6. CASE a.step = p + 1 /\ a.recoveries = 0
      <4> HIDE DEF p, r
      <4>1. l + d <= l1
        BY <1>3, <1>4, <3>2, <3>3, <3>4, <3>5, <3>6, SMT
      <4> QED BY <2>1, <4>1 DEF l, l1, d
    <3>7. CASE a.step = p /\ a.recoveries = r + 1
      <4> HIDE DEF p, r
      <4>1. l + d <= l1
        BY <1>3, <1>4, <3>2, <3>3, <3>4, <3>5, <3>7, SMT
      <4> QED BY <2>1, <4>1 DEF l, l1, d
    <3> QED BY <3>6, <3>7
  <2> QED BY <2>3, <2>4
<1> QED BY <1>5, <1>6, BudgetStep DEF Raised

-----------------------------------------------------------------------------
(* The operations. *)
LEMMA SameParts ==
  ASSUME RowsInv
  PROVE  SameAutos(automations) /\ SameWork(sessions)
BY DEF SameAutos, Alike, SameWork

LEMMA ReplacedSame ==
  ASSUME NEW autos \in Seq(Lawful), SameAutos(autos), NEW n \in 1..Len(autos), NEW a \in Lawful,
         Alike(autos[n], a)
  PROVE  SameAutos([autos EXCEPT ![n] = a]) /\ [autos EXCEPT ![n] = a] \in Seq(Lawful)
<1> DEFINE new == [autos EXCEPT ![n] = a]
<1>1. new \in Seq(Lawful) /\ Len(new) = Len(autos) /\ new[n] = a
  BY ReplacedLawful
<1>2. \A i \in 1..Len(autos) : i # n => new[i] = autos[i]
  OBVIOUS
<1> HIDE DEF new
<1>3. SameAutos(new)
  BY <1>1, <1>2 DEF SameAutos, Alike
<1> QED BY <1>1, <1>3 DEF new

LEMMA ChangedAlike ==
  ASSUME NEW a \in Lawful, NEW s \in Nat,
         NEW status \in {"queued", "running", "completed", "failed"}, NEW timer \in BOOLEAN
  PROVE  /\ Alike(a, RunningWith(a, s)) /\ Alike(a, [a EXCEPT !.status = status])
         /\ Alike(a, [a EXCEPT !.timer = timer])
         /\ Alike(a, [a EXCEPT !.signaled = @ \union {s}])
         /\ Alike(a, [a EXCEPT !.status = status, !.timer = timer])
<1>1. a \in Automation
  BY DEF Lawful
<1> QED BY <1>1 DEF Alike, RunningWith, Automation

LEMMA SignaledSame ==
  ASSUME NEW autos \in Seq(Lawful), SameAutos(autos), NEW n \in 1..Len(autos), NEW s \in Nat
  PROVE  /\ SameAutos(Signaled(autos, n, s)) /\ Signaled(autos, n, s) \in Seq(Lawful)
         /\ n \in 1..Len(Signaled(autos, n, s))
<1> DEFINE a == [autos[n] EXCEPT !.signaled = @ \union {s}]
<1>1. a \in Lawful /\ Alike(autos[n], a)
  BY ElementLawful, ChangedLawful, ChangedAlike
<1>2. Signaled(autos, n, s) = [autos EXCEPT ![n] = a]
  BY DEF Signaled
<1> HIDE DEF a
<1> QED BY <1>1, <1>2, ReplacedSame, SignaledLawful

LEMMA AdoptedAlike ==
  ASSUME RowIn(task, sessions), NEW a \in Lawful PROVE Alike(a, Adopted(a))
<1>1. task.trigger \in Nat
  BY DEF RowIn, Task
<1>2. Adopted(a) \in {a, RunningWith(a, task.trigger)}
  BY DEF Adopted, RunningWith
<1>3. Alike(a, a)
  BY DEF Alike
<1> QED BY <1>1, <1>2, <1>3, ChangedAlike

LEMMA TransitionBudget ==
  ASSUME RowsInv, RowsInv', BudgetInv, NEW h \in Handler,
         NEW autos \in Seq(Lawful), SameAutos(autos),
         NEW k, k \in Automated => k \in Column, NEW echo \in BOOLEAN,
         NEW t, NEW j \in {job, None}, Transition(h, k, echo, t, j, autos),
         SameWork(sessions')
  PROVE  BudgetInv'
<1>1. sessions' \in Seq(Session)
  BY DEF RowsInv
<1>2. CASE k \notin Automated \/ Exceeded(t, k) \/ Underway(k, autos)
  <2>1. Ends(h) /\ job' = j /\ automations' = autos
    BY <1>2 DEF Transition
  <2>2. Cost(0, 0) /\ FewerHopes
    BY <1>1, <2>1, EndsCost
  <2> QED BY <2>1, <2>2, QuietBudget
<1>3. CASE ~(k \notin Automated \/ Exceeded(t, k) \/ Underway(k, autos))
  <2> DEFINE n == Len(autos) + 1
             new == Append(autos, NewAutomation(k))
             made == NewHandler("transition", n, NewAutomation(k))
             hs == [made EXCEPT !.echo = echo]
  <2>1. CreateSession(h, hs, t, j, new) /\ k \in Column
    BY <1>3 DEF Transition
  <2>2. n \in Nat \ {0}
    BY SMT
  <2>3. hs \in HandlerState /\ hs.pc = "returned"
    <3>1. HandlerIn(hs, n, sessions) /\ hs.pc = "returned"
      <4> HIDE DEF n
      <4> QED BY <2>1, <2>2, NewTransition DEF HandlerIn
    <3> QED BY <3>1 DEF HandlerIn
  <2>4. hs.kind = "transition" /\ hs.job.automation = n /\ hs.job.step = 1
    BY DEF NewHandler, NewAutomation
  <2> HIDE DEF n, new, made, hs
  <2>5. /\ Cost(hs.job.automation, hs.job.step) /\ automations' = new
        /\ \E x : /\ handler' = [handler EXCEPT ![h] = x]
                  /\ \A m : Hopes(x, m) => /\ hs.kind = "fallback" /\ hs.recover
                                           /\ m = hs.job.automation
    <3>1. CreateSession(h, hs, t, j, new) /\ j \in {job, None} /\ hs \in HandlerState
          /\ hs.pc = "returned" /\ sessions' \in Seq(Session)
      BY <1>1, <2>1, <2>3
    <3>2. CASE j = job
      <4>1. CreateSession(h, hs, t, job, new) /\ job \in {job, None}
        BY <3>1, <3>2
      <4> QED BY <3>1, <4>1, CreateCost
    <3>3. CASE j = None
      <4>1. CreateSession(h, hs, t, None, new) /\ None \in {job, None}
        BY <3>1, <3>3
      <4> QED BY <3>1, <4>1, CreateCost
    <3> QED BY <3>1, <3>2, <3>3
  <2>6. PICK x : handler' = [handler EXCEPT ![h] = x] /\ \A m : ~Hopes(x, m)
    BY <2>4, <2>5
  <2> QED BY <2>1, <2>4, <2>5, <2>6, NewBudget DEF n, new
<1> QED BY <1>2, <1>3

(* shouldRecover let the recovery of automation n through: now, or before the *)
(* fallback or the prompt for which handler state hs waits.                   *)
LetThrough(a, hs, n) ==
  (Supervised(a) /\ a.recoveries < MaxRecoveryAttempts) \/ Hopes(hs, n)

LEMMA Affordable ==
  ASSUME RowsInv, BudgetInv, NEW autos \in Seq(Lawful), SameAutos(autos), NEW n \in 1..Len(autos),
         NEW h \in Handler, LetThrough(autos[n], handler[h], n),
         NEW x, handler' = [handler EXCEPT ![h] = x]
  PROVE  /\ autos[n].recoveries + Cardinality(HopesOf(n, handler')) <= Retries(autos[n])
         /\ ~Hopes(x, n) =>
              autos[n].recoveries + 1 + Cardinality(HopesOf(n, handler')) <= Retries(autos[n])
<1> DEFINE r == autos[n].recoveries
           w == Cardinality(HopesOf(n, handler))
           w1 == Cardinality(HopesOf(n, handler'))
           b == Retries(autos[n])
           MA == MaxRecoveryAttempts
           MH == MaxHandlers
<1>1. r \in Nat /\ w \in Nat /\ w1 \in Nat /\ b \in Nat /\ MA \in Nat /\ MH \in Nat \ {0}
  BY ElementLawful, HopesTypes, RetriesType DEF Automation
<1>2. handler \in [Handler -> HandlerState \union {None}]
  BY DEF RowsInv
<1>3. r + w <= b
  <2>1. n \in 1..Len(automations) /\ Alike(automations[n], autos[n])
    BY DEF SameAutos
  <2>2. automations[n].recoveries = r /\ Retries(automations[n]) = b
    BY <2>1, AlikeRetries DEF Alike
  <2> QED BY <2>1, <2>2 DEF BudgetInv, Patient
<1>4. CASE Hopes(handler[h], n)
  <2>1. w1 <= w /\ (~Hopes(x, n) => w1 + 1 <= w)
    BY <1>2, <1>4, HopesCounts
  <2> HIDE DEF r, w, w1, b, MA, MH
  <2>2. r + w1 <= b /\ (~Hopes(x, n) => r + 1 + w1 <= b)
    BY <1>1, <1>3, <2>1, SMT
  <2> QED BY <2>2 DEF r, w1, b
<1>5. CASE Supervised(autos[n]) /\ r < MA
  <2>1. w1 <= MH /\ (~Hopes(x, n) => w1 + 1 <= MH)
    BY <1>2, HopesCounts
  <2>2. b = MA + MH - 1
    <3>1. MA > 0
      <4> HIDE DEF r, MA
      <4> QED BY <1>1, <1>5, SMT
    <3> QED BY <1>5, <3>1, RetriesType
  <2> HIDE DEF r, w, w1, b, MA, MH
  <2>3. r + w1 <= b /\ (~Hopes(x, n) => r + 1 + w1 <= b)
    BY <1>1, <1>5, <2>1, <2>2, SMT
  <2> QED BY <2>3 DEF r, w1, b
<1> QED BY <1>4, <1>5 DEF LetThrough

LEMMA NextStepBudget ==
  ASSUME RowsInv, RowsInv', BudgetInv, NEW h \in Handler,
         NEW autos \in Seq(Lawful), SameAutos(autos), NEW n \in 1..Len(autos),
         HasNext(autos[n]), NEW kind \in {"step", "fallback"}, NEW s \in Nat,
         NEW object, RowIn(object, sessions), NEW recover \in BOOLEAN,
         recover => LetThrough(autos[n], handler[h], n),
         NextStep(h, kind, n, s, autos, object, recover), SameWork(sessions')
  PROVE  BudgetInv'
<1> DEFINE a == StepOf(autos[n])
           t == WithoutTrigger(object, autos[n].session)
           made == NewHandler(kind, n, a)
           hs == [made EXCEPT !.task = t, !.recover = recover, !.event = s]
           new == [autos EXCEPT ![n] = a]
<1>1. CreateSession(h, hs, t, None, new)
  BY DEF NextStep
<1>2. /\ a \in Lawful /\ a.column = autos[n].column
      /\ a.step = autos[n].step + 1 /\ a.recoveries = 0
  <2>1. autos[n] \in Lawful /\ autos[n] \in Automation
    BY ElementLawful
  <2> QED BY <2>1, StepOfLawful DEF StepOf, Automation
<1>3. hs \in HandlerState
  <2>1. RowIn(t, sessions)
    BY ElementLawful, RowChanges, RowsParts
  <2>2. made \in HandlerState
    <3>1. a \in Automation /\ Len(autos) \in Nat
      BY <1>2 DEF Lawful
    <3> HIDE DEF a
    <3> QED BY <3>1, NewHandlerIn
  <2>3. t \in Task
    BY <2>1 DEF RowIn
  <2> HIDE DEF made, t
  <2> QED BY <2>2, <2>3 DEF HandlerState
<1>4. hs.pc = "returned" /\ hs.job.automation = n /\ hs.job.step = a.step /\ hs.recover = recover
  <2> HIDE DEF a, t
  <2> QED BY DEF NewHandler
<1>5. sessions' \in Seq(Session)
  BY DEF RowsInv
<1> HIDE DEF a, t, made, hs, new
<1>6. /\ Cost(hs.job.automation, hs.job.step) /\ automations' = new
      /\ \E x : /\ handler' = [handler EXCEPT ![h] = x]
                /\ \A m : Hopes(x, m) => /\ hs.kind = "fallback" /\ hs.recover
                                         /\ m = hs.job.automation
  BY <1>1, <1>3, <1>4, <1>5, CreateCost
<1>7. PICK x : handler' = [handler EXCEPT ![h] = x] /\ \A m : Hopes(x, m) => recover /\ m = n
  BY <1>4, <1>6
<1>8. a.recoveries + Cardinality(HopesOf(n, handler')) <= Retries(a)
  <2> DEFINE r == autos[n].recoveries
             w == Cardinality(HopesOf(n, handler))
             w1 == Cardinality(HopesOf(n, handler'))
             b == Retries(autos[n])
  <2>1. Retries(a) = b
    BY <1>2 DEF Retries, Supervised
  <2>2. r \in Nat /\ w \in Nat /\ w1 \in Nat /\ b \in Nat
    BY ElementLawful, HopesTypes, RetriesType DEF Automation
  <2>3. r + w1 <= b
    <3>1. CASE recover
      BY <1>7, <3>1, Affordable
    <3>2. CASE ~recover
      <4>1. w1 <= w
        BY <1>7, <3>2, HopesCounts DEF RowsInv
      <4>2. r + w <= b
        <5>1. n \in 1..Len(automations) /\ Alike(automations[n], autos[n])
          BY DEF SameAutos
        <5>2. automations[n].recoveries = r /\ Retries(automations[n]) = b
          BY <5>1, AlikeRetries DEF Alike
        <5> QED BY <5>1, <5>2 DEF BudgetInv, Patient
      <4> HIDE DEF r, w, w1, b
      <4> QED BY <2>2, <4>1, <4>2, SMT
    <3> QED BY <3>1, <3>2
  <2> HIDE DEF r, w, w1, b
  <2>4. 0 + w1 <= b
    BY <2>2, <2>3, SMT
  <2> QED BY <1>2, <2>1, <2>4 DEF w1
<1> QED BY <1>2, <1>4, <1>6, <1>7, <1>8, AttemptBudget DEF new

LEMMA RecoverBudget ==
  ASSUME RowsInv, RowsInv', BudgetInv, NEW h \in Handler,
         NEW autos \in Seq(Lawful), SameAutos(autos), NEW n \in 1..Len(autos),
         LetThrough(autos[n], handler[h], n), NEW s \in Nat,
         NEW object, RowIn(object, sessions),
         Recover(h, n, s, autos, object), SameWork(sessions')
  PROVE  BudgetInv'
<1> DEFINE a == RecoveryOf(autos[n])
           t == WithoutTrigger(object, autos[n].session)
           made == NewHandler("recovery", n, autos[n])
           hs == [made EXCEPT !.task = t, !.event = s]
           new == [autos EXCEPT ![n] = a]
<1>1. CreateSession(h, hs, t, None, new)
  BY DEF Recover
<1>2. /\ a \in Lawful /\ a.column = autos[n].column /\ a.step = autos[n].step
      /\ a.recoveries = autos[n].recoveries + 1
  <2>1. autos[n] \in Lawful /\ autos[n] \in Automation
    BY ElementLawful
  <2> QED BY <2>1, ChangedLawful DEF RecoveryOf, Automation
<1>3. hs \in HandlerState
  <2>1. RowIn(t, sessions)
    BY ElementLawful, RowChanges, RowsParts
  <2>2. made \in HandlerState
    BY ElementLawful, NewHandlerIn
  <2>3. t \in Task
    BY <2>1 DEF RowIn
  <2> HIDE DEF made, t
  <2> QED BY <2>2, <2>3 DEF HandlerState
<1>4. /\ hs.pc = "returned" /\ hs.kind = "recovery"
      /\ hs.job.automation = n /\ hs.job.step = a.step
  <2>1. /\ hs.pc = "returned" /\ hs.kind = "recovery"
        /\ hs.job.automation = n /\ hs.job.step = autos[n].step
    BY DEF NewHandler
  <2> QED BY <1>2, <2>1
<1>5. sessions' \in Seq(Session)
  BY DEF RowsInv
<1> HIDE DEF a, t, made, hs, new
<1>6. /\ Cost(hs.job.automation, hs.job.step) /\ automations' = new
      /\ \E x : /\ handler' = [handler EXCEPT ![h] = x]
                /\ \A m : Hopes(x, m) => /\ hs.kind = "fallback" /\ hs.recover
                                         /\ m = hs.job.automation
  BY <1>1, <1>3, <1>4, <1>5, CreateCost
<1>7. PICK x : handler' = [handler EXCEPT ![h] = x] /\ \A m : ~Hopes(x, m)
  BY <1>4, <1>6
<1>8. a.recoveries + Cardinality(HopesOf(n, handler')) <= Retries(a)
  <2>1. Retries(a) = Retries(autos[n])
    BY <1>2 DEF Retries, Supervised
  <2>2. autos[n].recoveries + 1 + Cardinality(HopesOf(n, handler')) <= Retries(autos[n])
    BY <1>7, Affordable
  <2> QED BY <1>2, <2>1, <2>2
<1> QED BY <1>2, <1>4, <1>6, <1>7, <1>8, AttemptBudget DEF new

(* The prompt is awaited by one that was let through, or nothing is waited for. *)
LEMMA NotifyBudget ==
  ASSUME RowsInv, RowsInv', BudgetInv, NEW h \in Handler,
         NEW autos \in Seq(Lawful), SameAutos(autos), NEW n \in 1..Len(autos),
         LetThrough(autos[n], handler[h], n), NEW s \in Nat,
         NEW object, RowIn(object, sessions), NEW ss,
         NotifyAndRecover(h, n, s, autos, ss, object), SameWork(sessions')
  PROVE  BudgetInv'
<1>1. CASE Reachable(ss, s)
  <2> DEFINE made == NewHandler("recovery", n, autos[n])
             x == [made EXCEPT !.pc = "notify", !.task = object, !.event = s]
  <2>1. handler' = [handler EXCEPT ![h] = x] /\ automations' = autos /\ UNCHANGED job
    BY <1>1 DEF NotifyAndRecover, Becomes
  <2>2. x.pc = "notify" /\ x.job.automation = n
    BY DEF NewHandler
  <2> HIDE DEF made, x
  <2>3. \A m : Hopes(x, m) => m = n
    BY <2>2 DEF Hopes
  <2>4. Cost(0, 0)
    <3>1. sessions' \in Seq(Session)
      BY DEF RowsInv
    <3> QED BY <2>1, <2>2, <3>1, HandlerCost DEF Pays
  <2>5. Raised(0, 0)
    BY <2>1, SameRaised
  <2>6. Patient(automations', handler')
    <3>1. autos[n].recoveries + Cardinality(HopesOf(n, handler')) <= Retries(autos[n])
      BY <2>1, Affordable
    <3> QED BY <2>1, <2>3, <3>1, PatientStep DEF SameAutos
  <2> QED BY <2>4, <2>5, <2>6, BudgetStep
<1>2. CASE ~Reachable(ss, s)
  BY <1>2, RecoverBudget DEF NotifyAndRecover
<1> QED BY <1>1, <1>2

LEMMA OverBudget ==
  ASSUME RowsInv, RowsInv', BudgetInv, NEW h \in Handler,
         NEW autos \in Seq(Lawful), SameAutos(autos), NEW n \in 1..Len(autos), NEW s \in Nat,
         NEW object, Complete(h, n, s, autos, object) \/ Fail(h, n, s, autos, object),
         SameWork(sessions')
  PROVE  BudgetInv'
<1> DEFINE as == Signaled(autos, n, s)
<1>1. /\ as \in Seq(Lawful) /\ SameAutos(as) /\ n \in 1..Len(as) /\ sessions' \in Seq(Session)
  BY SignaledSame DEF RowsInv
<1>2. CASE Complete(h, n, s, autos, object)
  <2> DEFINE a == [as[n] EXCEPT !.status = "completed"]
             made == NewHandler("step", n, autos[n])
             hs == [made EXCEPT !.pc = "artifact"]
  <2>1. automations' = [as EXCEPT ![n] = a] /\ handler' = [handler EXCEPT ![h] = hs]
        /\ job' = job
    BY <1>2 DEF Complete, Becomes
  <2> HIDE DEF as
  <2>2. a \in Lawful /\ Alike(as[n], a)
    BY <1>1, ElementLawful, ChangedLawful, ChangedAlike
  <2>3. hs.pc = "artifact" /\ hs.kind = "step"
    BY DEF NewHandler
  <2> HIDE DEF a, made, hs
  <2>4. SameAutos(automations')
    BY <1>1, <2>1, <2>2, ReplacedSame
  <2>5. Cost(0, 0)
    BY <1>1, <2>1, <2>3, HandlerCost DEF Pays
  <2>6. FewerHopes
    BY <2>1, <2>3, QuietHopes DEF Hopes
  <2> QED BY <2>4, <2>5, <2>6, QuietBudget
<1>3. CASE Fail(h, n, s, autos, object)
  <2> DEFINE a == [as[n] EXCEPT !.status = "failed", !.timer = TRUE]
  <2>1. automations' = [as EXCEPT ![n] = a] /\ Ends(h) /\ job' = job
    BY <1>3 DEF Fail
  <2> HIDE DEF as
  <2>2. a \in Lawful /\ Alike(as[n], a)
    BY <1>1, ElementLawful, ChangedLawful, ChangedAlike
  <2> HIDE DEF a
  <2>3. SameAutos(automations')
    BY <1>1, <2>1, <2>2, ReplacedSame
  <2>4. Cost(0, 0) /\ FewerHopes
    BY <1>1, <2>1, EndsCost
  <2> QED BY <2>3, <2>4, QuietBudget
<1> QED BY <1>2, <1>3

LEMMA CompletionBudget ==
  ASSUME RowsInv, RowsInv', BudgetInv, NEW h \in Handler, NEW s \in Nat \ {0},
         NEW outcome, NEW autos \in Seq(Lawful), SameAutos(autos),
         NEW ss, SameWork(ss), SameWork([ss EXCEPT ![s].state = "live"]),
         HandleAgentCompletion(h, s, outcome, autos, ss)
  PROVE  BudgetInv'
<1> DEFINE a == Adopted(autos[active])
           adopted == [autos EXCEPT ![active] = a]
<1>1. RowIn(task, sessions) /\ sessions' \in Seq(Session)
  BY DEF RowsInv
<1>2. active # 0 => /\ active \in 1..Len(autos) /\ SameAutos(adopted) /\ adopted \in Seq(Lawful)
                    /\ Len(adopted) = Len(autos) /\ adopted[active] = a /\ Alike(autos[active], a)
  <2> SUFFICES ASSUME active # 0
               PROVE  /\ active \in 1..Len(autos) /\ SameAutos(adopted) /\ adopted \in Seq(Lawful)
                      /\ Len(adopted) = Len(autos) /\ adopted[active] = a /\ Alike(autos[active], a)
    OBVIOUS
  <2>1. active \in 1..Len(autos)
    <3>1. active \in 0..Len(autos) /\ Len(autos) \in Nat
      BY RowsParts DEF SameAutos
    <3> QED BY <3>1, SMT
  <2>2. a \in Lawful /\ Alike(autos[active], a)
    BY <2>1, RowsParts, ElementLawful, AdoptedLawful, AdoptedAlike
  <2> HIDE DEF a
  <2>3. SameAutos(adopted) /\ adopted \in Seq(Lawful)
    BY <2>1, <2>2, ReplacedSame
  <2>4. Len(adopted) = Len(autos) /\ adopted[active] = a
    BY <2>1, <2>2, ReplacedLawful
  <2> QED BY <2>1, <2>2, <2>3, <2>4
<1>3. CASE ~Concerned(s, autos)
  <2>1. /\ automations' = autos \/ (active # 0 /\ automations' = adopted)
        /\ sessions' = ss /\ job' = job /\ handler' = handler
    BY <1>3 DEF HandleAgentCompletion
  <2> HIDE DEF adopted
  <2>2. SameAutos(automations')
    BY <1>2, <2>1
  <2>3. Cost(0, 0) /\ FewerHopes
    BY <1>1, <2>1, SameHandlersCost, SameHopes
  <2> QED BY <2>2, <2>3, QuietBudget
<1>4. CASE Concerned(s, autos)
  <2> DEFINE Object(satisfied) == Marked(task, s, IF satisfied THEN "done" ELSE "over")
             Recovers(satisfied) == ShouldRecover(a, satisfied)
  <2>1. active # 0
    BY <1>4 DEF Concerned
  <2>2. \E satisfied \in Satisfied(a, outcome) :
          \/ \E kind \in {"step", "fallback"}, recover \in {FALSE, Recovers(satisfied)} :
               /\ HasNext(a) /\ sessions' = ss
               /\ NextStep(h, kind, active, s, adopted, Object(satisfied), recover)
          \/ (Complete(h, active, s, adopted, Object(satisfied))
               \/ Fail(h, active, s, adopted, Object(satisfied))) /\ sessions' = ss
          \/ Recovers(satisfied)
             /\ NotifyAndRecover(h, active, s, adopted, ss, Object(satisfied))
    BY <1>4 DEF HandleAgentCompletion
  <2>3. PICK satisfied \in Satisfied(a, outcome) :
          \/ \E kind \in {"step", "fallback"}, recover \in {FALSE, Recovers(satisfied)} :
               /\ HasNext(a) /\ sessions' = ss
               /\ NextStep(h, kind, active, s, adopted, Object(satisfied), recover)
          \/ (Complete(h, active, s, adopted, Object(satisfied))
               \/ Fail(h, active, s, adopted, Object(satisfied))) /\ sessions' = ss
          \/ Recovers(satisfied)
             /\ NotifyAndRecover(h, active, s, adopted, ss, Object(satisfied))
    BY <2>2
  <2>4. RowIn(Object(satisfied), sessions)
    BY <1>1, MarkedRow, RowsParts
  <2>5. Recovers(satisfied) \in BOOLEAN
        /\ (Recovers(satisfied) => LetThrough(a, handler[h], active))
    BY DEF ShouldRecover, LetThrough, Supervised
  <2> DEFINE object == Object(satisfied)
             let == Recovers(satisfied)
  <2>6. /\ active \in 1..Len(adopted) /\ SameAutos(adopted) /\ adopted \in Seq(Lawful)
        /\ adopted[active] = a /\ s \in Nat
    BY <1>2, <2>1
  <2> HIDE DEF a, adopted, Object, Recovers
  <2>7. ASSUME NEW kind \in {"step", "fallback"}, NEW recover \in {FALSE, let},
               HasNext(a), sessions' = ss, NextStep(h, kind, active, s, adopted, object, recover)
        PROVE  BudgetInv'
    <3>1. recover \in BOOLEAN /\ (recover => LetThrough(adopted[active], handler[h], active))
      BY <2>5, <2>6, <2>7
    <3>2. SameWork(sessions') /\ HasNext(adopted[active])
      BY <2>6, <2>7
    <3> HIDE DEF object, let
    <3>3. RowIn(object, sessions)
      BY <2>4 DEF object
    <3> QED BY <2>6, <2>7, <3>1, <3>2, <3>3, NextStepBudget
  <2>8. CASE (Complete(h, active, s, adopted, object) \/ Fail(h, active, s, adopted, object))
             /\ sessions' = ss
    BY <2>6, <2>8, OverBudget
  <2>9. CASE let /\ NotifyAndRecover(h, active, s, adopted, ss, object)
    <3>1. LetThrough(adopted[active], handler[h], active)
      BY <2>5, <2>6, <2>9
    <3>2. SameWork(sessions')
      <4>1. sessions' \in {ss, [ss EXCEPT ![s].state = "live"]}
        BY <2>9 DEF NotifyAndRecover
      <4> QED BY <4>1
    <3> QED BY <2>4, <2>6, <2>9, <3>1, <3>2, NotifyBudget
  <2> QED BY <2>3, <2>7, <2>8, <2>9
<1> QED BY <1>3, <1>4

(* A change of the state of a session, or of what it reported, is no new attempt. *)
LEMMA StateSame ==
  ASSUME NEW ss, SameWork(ss), NEW s, NEW state, NEW reported
  PROVE  /\ SameWork([ss EXCEPT ![s].state = state])
         /\ SameWork([ss EXCEPT ![s].reported = reported])
         /\ SameWork([ss EXCEPT ![s].state = state, ![s].reported = reported])
BY DEF SameWork

-----------------------------------------------------------------------------
(* The actions. *)
LEMMA MoveBudget ==
  ASSUME RowsInv, RowsInv', BudgetInv, NEW h \in Handler, NEW k \in Column, Move(h, k)
  PROVE  BudgetInv'
<1>1. /\ \/ Transition(h, k, TRUE, Arrived(Finalized(task), k), None, automations)
         \/ Transition(h, k, FALSE, Arrived(Finalized(task), k), job, automations)
      /\ sessions' = sessions
  BY DEF Move
<1>2. automations \in Seq(Lawful) /\ SameAutos(automations) /\ SameWork(sessions')
  BY <1>1, RowsParts, SameParts
<1> QED BY <1>1, <1>2, TransitionBudget

LEMMA EventBudget ==
  ASSUME RowsInv, RowsInv', BudgetInv, NEW h \in Handler, NEW s \in DOMAIN sessions,
         Report(h, s) \/ \E outcome \in {"completed", "failed"} : EndTurn(h, s, outcome)
  PROVE  BudgetInv'
<1>1. s \in Nat \ {0} /\ automations \in Seq(Lawful) /\ SameAutos(automations)
      /\ SameWork(sessions)
  <2>1. DOMAIN sessions = 1..Len(sessions) /\ Len(sessions) \in Nat
    BY RowsParts
  <2>2. s \in Nat \ {0}
    BY <2>1, SMT
  <2> QED BY <2>2, RowsParts, SameParts
<1>2. CASE Report(h, s)
  <2> DEFINE ss == [sessions EXCEPT ![s].reported = TRUE]
  <2>1. HandleAgentCompletion(h, s, "completed", automations, ss)
    BY <1>2 DEF Report
  <2>2. SameWork(ss)
    BY <1>1, StateSame
  <2> HIDE DEF ss
  <2>3. SameWork([ss EXCEPT ![s].state = "live"])
    BY <2>2, StateSame
  <2> QED BY <1>1, <2>1, <2>2, <2>3, CompletionBudget
<1>3. CASE \E outcome \in {"completed", "failed"} : EndTurn(h, s, outcome)
  <2>1. PICK outcome \in {"completed", "failed"} : EndTurn(h, s, outcome)
    BY <1>3
  <2> DEFINE late == sessions[s].state = "timedout"
             ss == [sessions EXCEPT ![s].state = IF late THEN "late" ELSE outcome,
                                    ![s].reported = @ \/ outcome = "completed"]
  <2>2. HandleAgentCompletion(h, s, outcome, automations, ss)
    BY <2>1 DEF EndTurn
  <2>3. SameWork(ss)
    BY <1>1 DEF SameWork
  <2> HIDE DEF ss
  <2>4. SameWork([ss EXCEPT ![s].state = "live"])
    BY <2>3, StateSame
  <2> QED BY <1>1, <2>2, <2>3, <2>4, CompletionBudget
<1> QED BY <1>2, <1>3

LEMMA ScanBudget ==
  ASSUME RowsInv, RowsInv', BudgetInv, NEW h \in Handler, Scan(h)
  PROVE  BudgetInv'
<1> DEFINE s == automations[active].session
           signaled == Signaled(automations, active, s)
           ss == InState(s, "timedout")
<1>1. active \in 1..Len(automations)
  <2>1. active # 0
    BY DEF Scan
  <2> QED BY <2>1, RowsParts, SMT
<1>2. s \in Nat \ {0}
  BY <1>1, RowsParts, ElementLawful DEF Scan, Inactive
<1>3. \/ HandleAgentCompletion(h, s, "failed", signaled, sessions)
      \/ HandleAgentCompletion(h, s, "timedout", signaled, ss)
  BY DEF Scan
<1>4. SameWork(sessions) /\ SameWork([sessions EXCEPT ![s].state = "live"])
  BY SameParts, StateSame
<1>5. SameWork(ss)
  BY SameParts, StateSame DEF InState
<1> HIDE DEF s, ss
<1>6. SameWork([ss EXCEPT ![s].state = "live"])
  BY <1>5, StateSame
<1>7. SameAutos(signaled) /\ signaled \in Seq(Lawful)
  BY <1>1, <1>2, RowsParts, SameParts, SignaledSame
<1> HIDE DEF signaled
<1> QED BY <1>2, <1>3, <1>4, <1>5, <1>6, <1>7, CompletionBudget

(* The job that waits for a slot becomes the start it waited for. *)
LEMMA PromoteBudget ==
  ASSUME RowsInv, RowsInv', BudgetInv, NEW h \in Handler, Promote(h)
  PROVE  BudgetInv'
<1> DEFINE made == NewHandler("job", job.automation, job)
           x == [made EXCEPT !.pc = "start", !.read = task]
<1>1. /\ UNCHANGED <<automations, active, sessions>> /\ job' = None /\ job # None
      /\ handler' \in {handler, [handler EXCEPT ![h] = x]}
  BY DEF Promote, Becomes
<1>2. SameAutos(automations') /\ SameWork(sessions')
      /\ sessions \in Seq(Session) /\ sessions' \in Seq(Session)
      /\ handler \in [Handler -> HandlerState \union {None}]
  BY <1>1, SameParts DEF RowsInv
<1>3. CASE handler' = handler
  <2>1. Cost(0, 0) /\ FewerHopes
    BY <1>1, <1>2, <1>3, SameHandlersCost, SameHopes
  <2> QED BY <1>2, <2>1, QuietBudget
<1>4. CASE handler' = [handler EXCEPT ![h] = x]
  <2>1. /\ x.kind = "job" /\ x.pc = "start"
        /\ x.job.automation = job.automation /\ x.job.step = job.step
    BY DEF NewHandler
  <2> HIDE DEF x
  <2>2. FewerHopes
    BY <1>4, <2>1, QuietHopes DEF Hopes
  <2>3. ASSUME NEW n \in Place, NEW i \in Place
        PROVE  Spent(n, i, sessions', handler', job')
                 <= Spent(n, i, sessions, handler, job) + Added(n, i, 0, 0)
    <3> DEFINE c == Cardinality(SessionsOf(n, i, sessions))
               b == Cardinality(StartsOf(n, i, handler))
               b1 == Cardinality(StartsOf(n, i, handler'))
               e == IF StartsStep(x, n, i) THEN 1 ELSE 0
               w == WaitsFor(n, i, job)
    <3>1. b1 <= b + e
      BY <1>2, <1>4, HandlerCounts
    <3>2. e = 0 \/ e = w
      BY <1>1, <2>1 DEF StartsStep, WaitsFor
    <3>3. c \in Nat /\ b \in Nat /\ b1 \in Nat /\ e \in Nat /\ w \in Nat
      BY <1>2, CountTypes
    <3>4. WaitsFor(n, i, job') = 0 /\ Added(n, i, 0, 0) = 0
      BY <1>1 DEF WaitsFor, Added, Place
    <3>5. /\ Spent(n, i, sessions', handler', job') = c + b1 + 0
          /\ Spent(n, i, sessions, handler, job) = c + b + w
      BY <1>1, <3>4 DEF Spent
    <3> HIDE DEF c, b, b1, e, w
    <3> QED BY <3>1, <3>2, <3>3, <3>4, <3>5, SMT
  <2>4. Cost(0, 0)
    BY <2>3 DEF Cost
  <2> QED BY <1>2, <2>2, <2>4, QuietBudget
<1> QED BY <1>1, <1>3, <1>4

LEMMA StartSucceedsBudget ==
  ASSUME RowsInv, RowsInv', BudgetInv, NEW h \in Handler, StartSucceeds(h)
  PROVE  BudgetInv'
<1> DEFINE hs == handler[h]
           s == Len(sessions) + 1
           x == [automation |-> hs.job.automation, column |-> hs.read.column,
                 step |-> hs.job.step, state |-> "live", reported |-> FALSE]
           hs2 == [hs EXCEPT !.pc = "returned", !.result = s, !.read = None]
<1>1. /\ UNCHANGED <<job, automations, active>> /\ sessions' = Append(sessions, x)
      /\ handler' = [handler EXCEPT ![h] = hs2] /\ hs # None /\ hs.pc = "start"
  BY DEF StartSucceeds, Becomes, At
<1>2. /\ SameAutos(automations')
      /\ sessions \in Seq(Session) /\ sessions' \in Seq(Session)
      /\ handler \in [Handler -> HandlerState \union {None}] /\ hs \in HandlerState
      /\ Len(sessions) \in Nat
  BY <1>1, SameParts, RowsParts DEF RowsInv
<1>3. /\ hs2.kind = hs.kind /\ hs2.pc = "returned" /\ hs2.job = hs.job
      /\ hs2.recover = hs.recover
  BY <1>2 DEF HandlerState
<1>4. x.automation = hs.job.automation /\ x.step = hs.job.step
  OBVIOUS
<1>5. /\ DOMAIN sessions' = 1..s /\ DOMAIN sessions = 1..Len(sessions)
      /\ sessions'[s] = x /\ \A i \in 1..Len(sessions) : sessions'[i] = sessions[i]
  <2> HIDE DEF x
  <2> QED BY <1>1, <1>2
<1>6. s \notin 1..Len(sessions) /\ \A i \in 1..s : i \in 1..Len(sessions) \/ i = s
  BY <1>2, SMT
<1> HIDE DEF hs2, x, s
<1>7. FewerHopes
  BY <1>1, <1>3, QuietHopes DEF Hopes
<1>8. ASSUME NEW n \in Place, NEW i \in Place
      PROVE  Spent(n, i, sessions', handler', job')
               <= Spent(n, i, sessions, handler, job) + Added(n, i, 0, 0)
  <2> DEFINE C == SessionsOf(n, i, sessions)
             C1 == SessionsOf(n, i, sessions')
             B == StartsOf(n, i, handler)
             B1 == StartsOf(n, i, handler')
             w == WaitsFor(n, i, job)
  <2>1. /\ IsFiniteSet(C) /\ IsFiniteSet(B) /\ Cardinality(C) \in Nat /\ Cardinality(B) \in Nat
        /\ w \in Nat /\ Cardinality(C1) \in Nat /\ Cardinality(B1) \in Nat
    BY <1>2, CountTypes
  <2>2. Added(n, i, 0, 0) = 0
    BY DEF Added, Place
  <2>3. /\ Spent(n, i, sessions', handler', job') = Cardinality(C1) + Cardinality(B1) + w
        /\ Spent(n, i, sessions, handler, job) = Cardinality(C) + Cardinality(B) + w
    BY <1>1 DEF Spent
  <2>4. CASE StartsStep(hs, n, i)
    <3>1. C1 \in SUBSET (C \union {s})
      BY <1>5, <1>6 DEF SessionsOf
    <3>2. h \in B /\ B1 \in SUBSET (B \ {h})
      BY <1>1, <1>2, <1>3, <2>4 DEF StartsOf, StartsStep
    <3> HIDE DEF C, C1, B, B1
    <3>3. /\ IsFiniteSet(C \union {s})
          /\ Cardinality(C \union {s}) = IF s \in C THEN Cardinality(C) ELSE Cardinality(C) + 1
      BY <2>1, FS_AddElement
    <3>4. IsFiniteSet(B \ {h}) /\ Cardinality(B \ {h}) = Cardinality(B) - 1
      BY <2>1, <3>2, FS_RemoveElement
    <3>5. /\ Cardinality(C1) <= Cardinality(C \union {s})
          /\ Cardinality(B1) <= Cardinality(B \ {h})
      BY <3>1, <3>2, <3>3, <3>4, FS_Subset
    <3> HIDE DEF w
    <3>6. Cardinality(C1) + Cardinality(B1) + w <= Cardinality(C) + Cardinality(B) + w + 0
      BY <2>1, <3>3, <3>4, <3>5, SMT
    <3> QED BY <2>2, <2>3, <3>6
  <2>5. CASE ~StartsStep(hs, n, i)
    <3>1. C1 \in SUBSET C
      BY <1>1, <1>4, <1>5, <1>6, <2>5 DEF SessionsOf, StartsStep
    <3>2. B1 \in SUBSET B
      BY <1>1, <1>2, <1>3 DEF StartsOf, StartsStep
    <3> HIDE DEF C, C1, B, B1
    <3>3. Cardinality(C1) <= Cardinality(C) /\ Cardinality(B1) <= Cardinality(B)
      BY <2>1, <3>1, <3>2, FS_Subset
    <3> HIDE DEF w
    <3>4. Cardinality(C1) + Cardinality(B1) + w <= Cardinality(C) + Cardinality(B) + w + 0
      BY <2>1, <3>3, SMT
    <3> QED BY <2>2, <2>3, <3>4
  <2> QED BY <2>4, <2>5
<1>9. Cost(0, 0)
  BY <1>8 DEF Cost
<1> QED BY <1>2, <1>7, <1>9, QuietBudget

LEMMA StartFailsBudget ==
  ASSUME RowsInv, RowsInv', BudgetInv, NEW h \in Handler, StartFails(h)
  PROVE  BudgetInv'
<1> DEFINE hs == handler[h]
           x == [hs EXCEPT !.pc = "returned", !.read = None]
<1>1. /\ UNCHANGED <<automations, active, sessions>> /\ job' = None
      /\ handler' = [handler EXCEPT ![h] = x] /\ hs # None /\ hs.pc = "start"
  BY DEF StartFails, Becomes, At
<1>2. /\ SameAutos(automations') /\ SameWork(sessions')
      /\ sessions' \in Seq(Session) /\ hs \in HandlerState
  BY <1>1, SameParts, RowsParts DEF RowsInv
<1>3. x.kind = hs.kind /\ x.pc = "returned" /\ x.job = hs.job /\ x.recover = hs.recover
  BY <1>2 DEF HandlerState
<1> HIDE DEF x
<1>4. FewerHopes
  BY <1>1, <1>3, QuietHopes DEF Hopes
<1>5. Cost(0, 0)
  BY <1>1, <1>2, <1>3, HandlerCost DEF Pays
<1> QED BY <1>2, <1>4, <1>5, QuietBudget

LEMMA ReturnBudget ==
  ASSUME RowsInv, RowsInv', BudgetInv, NEW h \in Handler, Return(h)
  PROVE  BudgetInv'
<1> DEFINE hs == handler[h]
           n == hs.job.automation
           a == RunningWith(automations[n], hs.result)
           started == [automations EXCEPT ![n] = a]
           autos == IF hs.result = 0 THEN automations ELSE started
           told == Signaled(autos, n, hs.event)
           f == [automations[n] EXCEPT !.status = "failed"]
           failed == [automations EXCEPT ![n] = f]
<1>1. /\ HandlerIn(hs, Len(automations), sessions) /\ hs.pc = "returned"
      /\ hs.result \in Nat /\ hs.event \in Nat /\ hs.job.column \in Column /\ hs # None
  BY RowsParts DEF Return, At, HandlerIn, HandlerState, Job
<1>2. automations \in Seq(Lawful) /\ SameAutos(automations)
      /\ SameWork(sessions) /\ sessions' \in Seq(Session)
  BY RowsParts, SameParts DEF RowsInv
<1>3. ASSUME hs.kind # "job"
      PROVE  /\ n \in 1..Len(automations)
             /\ autos \in Seq(Lawful) /\ SameAutos(autos) /\ SameAutos(told)
             /\ failed \in Seq(Lawful) /\ SameAutos(failed) /\ n \in 1..Len(failed)
  <2>1. n \in 1..Len(automations)
    BY <1>1, <1>3 DEF HandlerIn
  <2>2. a \in Lawful /\ f \in Lawful /\ Alike(automations[n], a) /\ Alike(automations[n], f)
    <3>1. automations[n] \in Lawful
      BY <1>2, <2>1, ElementLawful
    <3> HIDE DEF n
    <3> QED BY <1>1, <3>1, ChangedLawful, ChangedAlike
  <2> HIDE DEF n, a, f
  <2>3. /\ started \in Seq(Lawful) /\ SameAutos(started)
        /\ failed \in Seq(Lawful) /\ SameAutos(failed)
    BY <1>2, <2>1, <2>2, ReplacedSame
  <2> HIDE DEF started, failed
  <2>4. autos \in Seq(Lawful) /\ SameAutos(autos) /\ n \in 1..Len(autos) /\ n \in 1..Len(failed)
    BY <1>2, <2>1, <2>3 DEF SameAutos
  <2> HIDE DEF autos, hs
  <2>5. SameAutos(Signaled(autos, n, hs.event))
    BY <1>1, <2>4, SignaledSame
  <2> QED BY <2>1, <2>3, <2>4, <2>5
<1>4. CASE hs.kind = "job"
  <2>1. Ends(h) /\ UNCHANGED <<task, job, automations, active, sessions>>
    BY <1>4 DEF Return
  <2>2. Cost(0, 0) /\ FewerHopes
    BY <1>2, <2>1, EndsCost
  <2> QED BY <1>2, <2>1, <2>2, QuietBudget
<1>5. CASE hs.kind = "transition" /\ hs.echo
  <2>1. Transition(h, hs.job.column, FALSE, task, job, autos) /\ sessions' = sessions
    BY <1>5 DEF Return
  <2>2. autos \in Seq(Lawful) /\ SameAutos(autos)
    BY <1>3, <1>5
  <2> HIDE DEF hs, n, autos
  <2> QED BY <1>1, <1>2, <2>1, <2>2, TransitionBudget
<1>6. CASE \/ hs.kind = "transition" /\ ~hs.echo
           \/ hs.kind \in {"step", "fallback", "recovery"} /\ hs.result # 0
  <2>1. Ends(h) /\ automations' \in {autos, told} /\ UNCHANGED <<task, job, active, sessions>>
    BY <1>6 DEF Return
  <2>2. SameAutos(autos) /\ SameAutos(told)
    BY <1>3, <1>6
  <2>3. Cost(0, 0) /\ FewerHopes
    BY <1>2, <2>1, EndsCost
  <2> HIDE DEF autos, told
  <2>4. SameAutos(automations')
    BY <2>1, <2>2
  <2> QED BY <2>3, <2>4, QuietBudget
<1>7. CASE hs.kind \in {"step", "fallback", "recovery"} /\ hs.result = 0
  <2>1. n \in 1..Len(failed) /\ failed \in Seq(Lawful) /\ SameAutos(failed)
    BY <1>3, <1>7
  <2>2. CASE Fail(h, n, hs.event, failed, hs.task) /\ UNCHANGED sessions
    <3> HIDE DEF n, failed
    <3> QED BY <1>1, <1>2, <2>1, <2>2, OverBudget
  <2>3. CASE hs.kind = "fallback" /\ hs.recover
             /\ NotifyAndRecover(h, n, hs.event, failed, sessions, hs.task)
    <3>1. Hopes(handler[h], n)
      BY <1>1, <2>3 DEF Hopes
    <3>2. RowIn(hs.task, sessions)
      BY <1>1, <2>3 DEF HandlerIn
    <3>3. SameWork(sessions')
      <4>1. sessions' \in {sessions, [sessions EXCEPT ![hs.event].state = "live"]}
        BY <2>3 DEF NotifyAndRecover
      <4> HIDE DEF hs
      <4>2. SameWork([sessions EXCEPT ![hs.event].state = "live"])
        BY <1>2, StateSame
      <4> QED BY <1>2, <4>1, <4>2
    <3> HIDE DEF hs, n, failed
    <3>4. LetThrough(failed[n], handler[h], n)
      BY <3>1 DEF LetThrough
    <3> QED BY <1>1, <2>1, <2>3, <3>2, <3>3, <3>4, NotifyBudget
  <2>4. \/ Fail(h, n, hs.event, failed, hs.task) /\ UNCHANGED sessions
        \/ /\ hs.kind = "fallback" /\ hs.recover
           /\ NotifyAndRecover(h, n, hs.event, failed, sessions, hs.task)
    BY <1>7 DEF Return
  <2> QED BY <2>2, <2>3, <2>4
<1>8. hs.kind \in {"transition", "step", "fallback", "recovery", "job"} /\ hs.echo \in BOOLEAN
  BY <1>1 DEF HandlerIn, HandlerState
<1> QED BY <1>4, <1>5, <1>6, <1>7, <1>8

LEMMA FinishNotifyBudget ==
  ASSUME RowsInv, RowsInv', BudgetInv, NEW h \in Handler, FinishNotify(h)
  PROVE  BudgetInv'
<1> DEFINE hs == handler[h]
           n == hs.job.automation
<1>1. /\ Recover(h, n, hs.event, automations, hs.task) /\ sessions' = sessions
      /\ hs.pc = "notify" /\ hs # None
  BY DEF FinishNotify, At
<1>2. HandlerIn(hs, Len(automations), sessions)
  BY <1>1, RowsParts
<1>3. n \in 1..Len(automations) /\ RowIn(hs.task, sessions) /\ hs.event \in Nat
  BY <1>1, <1>2 DEF HandlerIn, HandlerState
<1>4. LetThrough(automations[n], handler[h], n)
  BY <1>1 DEF LetThrough, Hopes
<1>5. automations \in Seq(Lawful) /\ SameAutos(automations) /\ SameWork(sessions')
  BY <1>1, RowsParts, SameParts
<1> HIDE DEF hs, n
<1> QED BY <1>1, <1>3, <1>4, <1>5, RecoverBudget

LEMMA TimerSame ==
  ASSUME RowsInv, NEW n, NEW timer \in BOOLEAN
  PROVE  SameAutos([automations EXCEPT ![n].timer = timer])
<1>1. CASE n \in 1..Len(automations)
  <2> DEFINE a == [automations[n] EXCEPT !.timer = timer]
  <2>1. a \in Lawful /\ Alike(automations[n], a)
    <3>1. automations[n] \in Lawful
      BY <1>1, RowsParts, ElementLawful
    <3> QED BY <3>1, ChangedLawful, ChangedAlike
  <2> HIDE DEF a
  <2>2. SameAutos([automations EXCEPT ![n] = a])
    BY <1>1, <2>1, RowsParts, SameParts, ReplacedSame
  <2> QED BY <2>2 DEF a
<1>2. CASE n \notin 1..Len(automations)
  <2>1. automations \in Seq(Lawful)
    BY RowsParts
  <2>2. [automations EXCEPT ![n].timer = timer] = automations
    BY <1>2, <2>1
  <2> QED BY <2>2, SameParts
<1> QED BY <1>1, <1>2

LEMMA FinishArtifactBudget ==
  ASSUME RowsInv, RowsInv', BudgetInv, NEW h \in Handler, FinishArtifact(h)
  PROVE  BudgetInv'
<1> DEFINE n == handler[h].job.automation
           k == automations[n].column
           autos == [automations EXCEPT ![n].timer = TRUE]
           t == Arrived(task, k + 1)
<1>1. /\ sessions' = sessions
      /\ \/ /\ k \in AutoAdvance /\ k < LastColumn
            /\ Transition(h, k + 1, FALSE, t, None, autos)
         \/ Ends(h) /\ automations' = autos /\ UNCHANGED <<task, job, active>>
  BY DEF FinishArtifact
<1>2. autos \in Seq(Lawful) /\ SameAutos(autos)
  BY TimerLawful, TimerSame
<1>3. sessions' \in Seq(Session) /\ SameWork(sessions')
  BY <1>1, SameParts DEF RowsInv
<1> HIDE DEF n, k, autos, t
<1>4. CASE k \in AutoAdvance /\ k < LastColumn /\ Transition(h, k + 1, FALSE, t, None, autos)
  <2>1. k + 1 \in Column
    <3>1. k \in 1..LastColumn /\ LastColumn \in Nat
      BY <1>4, ColumnAssumption DEF Column
    <3> QED BY <1>4, <3>1, SMT DEF Column
  <2> QED BY <1>2, <1>3, <1>4, <2>1, TransitionBudget
<1>5. CASE Ends(h) /\ automations' = autos /\ UNCHANGED <<task, job, active>>
  <2>1. Cost(0, 0) /\ FewerHopes
    BY <1>3, <1>5, EndsCost
  <2> QED BY <1>2, <1>5, <2>1, QuietBudget
<1> QED BY <1>1, <1>4, <1>5

LEMMA CleanupBudget ==
  ASSUME RowsInv, RowsInv', BudgetInv, NEW n, Cleanup(n) PROVE BudgetInv'
<1>1. /\ automations' = [automations EXCEPT ![n].timer = FALSE] /\ active' \in {active, 0}
      /\ UNCHANGED <<job, sessions, handler>>
  BY DEF Cleanup
<1>2. SameAutos(automations')
  BY <1>1, TimerSame
<1>3. Cost(0, 0) /\ FewerHopes
  BY <1>1, SameParts, SameHandlersCost, SameHopes DEF RowsInv
<1> QED BY <1>2, <1>3, QuietBudget

LEMMA StallBudget ==
  ASSUME RowsInv, RowsInv', BudgetInv, NEW s, Stall(s) PROVE BudgetInv'
<1>1. PICK state \in {"silent", "broken"} : sessions' = InState(s, state)
  BY DEF Stall
<1>2. UNCHANGED <<job, automations, active, handler>>
  BY DEF Stall
<1>3. SameWork(sessions') /\ SameAutos(automations')
  BY <1>1, <1>2, StateSame, SameParts DEF InState
<1>4. Cost(0, 0) /\ FewerHopes
  BY <1>2, <1>3, SameHandlersCost, SameHopes DEF RowsInv
<1> QED BY <1>3, <1>4, QuietBudget

LEMMA SameInterval == \A l, m \in Nat : 1..l = 1..m => l = m
<1> SUFFICES ASSUME NEW l \in Nat, NEW m \in Nat, 1..l = 1..m, l # m PROVE FALSE
  OBVIOUS
<1>1. CASE l < m
  <2>1. m \in 1..m /\ m \notin 1..l
    BY <1>1, SMT
  <2> QED BY <2>1
<1>2. CASE m < l
  <2>1. l \in 1..l /\ l \notin 1..m
    BY <1>2, SMT
  <2> QED BY <2>1
<1>3. l < m \/ m < l
  BY SMT
<1> QED BY <1>1, <1>2, <1>3

(* After a restart nothing waits, and nobody was let through. *)
LEMMA RestartBudget ==
  ASSUME RowsInv, RowsInv', BudgetInv, Restart PROVE BudgetInv'
<1>1. /\ job' = None /\ handler' = [h \in Handler |-> None]
      /\ automations' = [n \in DOMAIN automations |->
           [automations[n] EXCEPT !.status = "failed", !.session = 0,
                                  !.signaled = {}, !.timer = FALSE]]
      /\ sessions' = [s \in DOMAIN sessions |->
           IF sessions[s].state = "completed" THEN sessions[s]
           ELSE [sessions[s] EXCEPT !.state = "lost"]]
  BY DEF Restart
<1>2. /\ sessions \in Seq(Session) /\ sessions' \in Seq(Session)
      /\ automations \in Seq(Lawful)
      /\ DOMAIN sessions = 1..Len(sessions) /\ DOMAIN sessions' = 1..Len(sessions')
      /\ DOMAIN automations = 1..Len(automations) /\ DOMAIN automations' = 1..Len(automations')
      /\ Len(sessions) \in Nat /\ Len(sessions') \in Nat
      /\ Len(automations) \in Nat /\ Len(automations') \in Nat
  BY RowsParts DEF RowsInv
<1>3. SameAutos(automations')
  <2>1. 1..Len(automations') = 1..Len(automations)
    BY <1>1, <1>2
  <2>2. Len(automations') = Len(automations)
    BY <1>2, <2>1, SameInterval
  <2>3. \A n \in 1..Len(automations) : automations[n] \in Automation
    BY <1>2, ElementLawful
  <2>4. \A n \in 1..Len(automations) : Alike(automations[n], automations'[n])
    BY <1>1, <1>2, <2>3 DEF Alike, Automation
  <2> QED BY <2>2, <2>4 DEF SameAutos
<1>4. SameWork(sessions')
  <2>1. 1..Len(sessions') = 1..Len(sessions)
    BY <1>1, <1>2
  <2>2. Len(sessions') = Len(sessions)
    BY <1>2, <2>1, SameInterval
  <2>3. \A x \in Session : /\ [x EXCEPT !.state = "lost"].automation = x.automation
                           /\ [x EXCEPT !.state = "lost"].step = x.step
    BY DEF Session
  <2>4. \A s \in 1..Len(sessions) : sessions[s] \in Session
    BY <1>2
  <2> QED BY <1>1, <1>2, <2>2, <2>3, <2>4 DEF SameWork
<1>5. FewerHopes
  <2> SUFFICES ASSUME NEW n
               PROVE  Cardinality(HopesOf(n, handler')) <= Cardinality(HopesOf(n, handler))
    BY DEF FewerHopes
  <2>1. HopesOf(n, handler') = {} /\ Cardinality({}) = 0
    BY <1>1, FS_EmptySet DEF HopesOf, Hopes
  <2>2. Cardinality(HopesOf(n, handler)) \in Nat
    BY HopesTypes
  <2> QED BY <2>1, <2>2, SMT
<1>6. ASSUME NEW n \in Place, NEW i \in Place
      PROVE  Spent(n, i, sessions', handler', job')
               <= Spent(n, i, sessions, handler, job) + Added(n, i, 0, 0)
  <2> DEFINE c == Cardinality(SessionsOf(n, i, sessions))
             b == Cardinality(StartsOf(n, i, handler))
             w == WaitsFor(n, i, job)
  <2>1. c \in Nat /\ b \in Nat /\ w \in Nat /\ Added(n, i, 0, 0) = 0
    BY <1>2, CountTypes DEF Added, Place
  <2>2. StartsOf(n, i, handler') = {} /\ Cardinality({}) = 0
    BY <1>1, FS_EmptySet DEF StartsOf, StartsStep
  <2>3. WaitsFor(n, i, job') = 0
    BY <1>1 DEF WaitsFor
  <2>4. SessionsOf(n, i, sessions') = SessionsOf(n, i, sessions)
    BY <1>2, <1>4, SameSessions
  <2>5. /\ Spent(n, i, sessions', handler', job') = c + 0 + 0
        /\ Spent(n, i, sessions, handler, job) = c + b + w
    BY <2>2, <2>3, <2>4 DEF Spent
  <2> HIDE DEF c, b, w
  <2> QED BY <2>1, <2>5, SMT
<1>7. Cost(0, 0)
  BY <1>6 DEF Cost
<1> QED BY <1>3, <1>5, <1>7, QuietBudget

(* A lane that is revived starts a step without an automation, or a new automation. *)
LEMMA StartStepCost ==
  ASSUME RowsInv, NEW h \in Handler, NEW k, NEW step, NEW t,
         StartStep(h, k, step, t), sessions' = sessions
  PROVE  Cost(0, step) /\ FewerHopes
<1> DEFINE made == NewHandler("job", 0, [column |-> k, step |-> step])
           x == [made EXCEPT !.pc = "start", !.read = t]
<1>1. \/ Ends(h) /\ job' = job
      \/ Ends(h) /\ job' = made.job
      \/ job' = None /\ (handler' = [handler EXCEPT ![h] = x] \/ Ends(h))
  BY DEF StartStep, Becomes
<1>2. made.job.automation = 0 /\ made.job.step = step
  BY DEF NewHandler
<1>3. /\ x.kind = "job" /\ x.pc = "start" /\ x.job.automation = 0 /\ x.job.step = step
  BY DEF NewHandler
<1>4. sessions' \in Seq(Session) /\ SameWork(sessions')
  BY SameParts DEF RowsInv
<1> HIDE DEF made, x
<1>5. CASE Ends(h)
  <2>1. job' \in {job, None} \/ (job'.automation = 0 /\ job'.step = step)
    BY <1>1, <1>2
  <2> QED BY <1>4, <1>5, <2>1, EndsCost
<1>6. CASE job' = None /\ handler' = [handler EXCEPT ![h] = x]
  <2>1. FewerHopes
    BY <1>3, <1>6, QuietHopes DEF Hopes
  <2>2. Cost(0, step)
    BY <1>3, <1>4, <1>6, HandlerCost DEF Pays
  <2> QED BY <2>1, <2>2
<1> QED BY <1>1, <1>5, <1>6

LEMMA ReviveCardBudget ==
  ASSUME RowsInv, RowsInv', BudgetInv, NEW h \in Handler, NEW object, RowIn(object, sessions),
         ReviveCard(h, object), sessions' = sessions
  PROVE  BudgetInv'
<1>1. \E k \in Column : \E t :
        \/ Ends(h) /\ UNCHANGED <<job, automations, active>>
        \/ \E step : StartStep(h, k, step + 1, t) /\ UNCHANGED <<automations, active>>
        \/ Transition(h, k, FALSE, t, job, automations)
  <2>1. PICK dead \in SUBSET {s \in Shown(object) : Doubtful(s)},
             status \in IF Summaries THEN {"over", "done"} ELSE {"over"} :
          LET row == Sanitized(object, dead, status)
              t == IF row = object THEN task ELSE row
              k == row.column
              stays == \/ row.trigger # 0 \/ k \notin Automated
                       \/ \E i \in Current(row) : row.lanes[i].status = "running"
          IN
          \/ stays /\ Ends(h) /\ task' = t /\ UNCHANGED <<job, automations, active>>
          \/ ~stays /\ \E step \in StepsTaken(row) :
               IF step \in 1..(LaneSteps[k] - 1)
               THEN StartStep(h, k, step + 1, t) /\ task' = t /\ UNCHANGED <<automations, active>>
               ELSE Transition(h, k, FALSE, t, job, automations)
    BY DEF ReviveCard
  <2> DEFINE row == Sanitized(object, dead, status)
             t == IF row = object THEN task ELSE row
  <2>2. row.column \in Column
    <3>1. status \in {"running", "over", "done"} /\ sessions \in Seq(Session)
      BY RowsParts
    <3>2. RowIn(row, sessions)
      BY <3>1, SanitizedRow
    <3> QED BY <3>2 DEF RowIn, Task
  <2>3. \/ Ends(h) /\ UNCHANGED <<job, automations, active>>
        \/ \E step : StartStep(h, row.column, step + 1, t) /\ UNCHANGED <<automations, active>>
        \/ Transition(h, row.column, FALSE, t, job, automations)
    BY <2>1
  <2> HIDE DEF row, t
  <2> QED BY <2>2, <2>3
<1>2. PICK k \in Column : \E t :
        \/ Ends(h) /\ UNCHANGED <<job, automations, active>>
        \/ \E step : StartStep(h, k, step + 1, t) /\ UNCHANGED <<automations, active>>
        \/ Transition(h, k, FALSE, t, job, automations)
  BY <1>1
<1>3. PICK t :
        \/ Ends(h) /\ UNCHANGED <<job, automations, active>>
        \/ \E step : StartStep(h, k, step + 1, t) /\ UNCHANGED <<automations, active>>
        \/ Transition(h, k, FALSE, t, job, automations)
  BY <1>2
<1>4. /\ automations \in Seq(Lawful) /\ SameAutos(automations) /\ SameWork(sessions')
      /\ sessions' \in Seq(Session)
  BY RowsParts, SameParts DEF RowsInv
<1>5. CASE Ends(h) /\ UNCHANGED <<job, automations, active>>
  <2>1. Cost(0, 0) /\ FewerHopes
    BY <1>4, <1>5, EndsCost
  <2> QED BY <1>4, <1>5, <2>1, QuietBudget
<1>6. CASE \E step : StartStep(h, k, step + 1, t) /\ UNCHANGED <<automations, active>>
  <2>1. PICK step : StartStep(h, k, step + 1, t) /\ UNCHANGED <<automations, active>>
    BY <1>6
  <2> DEFINE i == step + 1
  <2>2. StartStep(h, k, i, t)
    BY <2>1
  <2> HIDE DEF i
  <2>3. Cost(0, i) /\ FewerHopes
    BY <2>2, StartStepCost
  <2> QED BY <1>4, <2>1, <2>3, QuietBudget
<1>7. CASE Transition(h, k, FALSE, t, job, automations)
  BY <1>4, <1>7, TransitionBudget
<1> QED BY <1>3, <1>5, <1>6, <1>7

LEMMA LookBudget ==
  ASSUME RowsInv, RowsInv', BudgetInv, NEW h \in Handler, Look(h) \/ Revive(h)
  PROVE  BudgetInv'
<1>1. sessions' = sessions
  BY DEF Look, Revive
<1>2. CASE \E object : RowIn(object, sessions) /\ ReviveCard(h, object)
  BY <1>1, <1>2, ReviveCardBudget
<1>3. CASE Revive(h)
  <2>1. RowIn(handler[h].read, sessions)
    BY <1>3, RowsParts DEF Revive, At, HandlerIn
  <2> QED BY <1>2, <1>3, <2>1 DEF Revive
<1>4. CASE Look(h)
  <2>1. CASE Undisturbed
    BY <1>2, <1>4, <2>1, RowsParts DEF Look
  <2>2. CASE ~Undisturbed
    <3> DEFINE x == [NewHandler("job", 0, NewAutomation(1)) EXCEPT !.pc = "revive", !.read = task]
    <3>1. handler' = [handler EXCEPT ![h] = x] /\ UNCHANGED <<job, automations, active>>
      BY <1>4, <2>2 DEF Look, Becomes
    <3>2. x.kind = "job" /\ x.pc = "revive"
      BY DEF NewHandler
    <3>3. /\ SameAutos(automations') /\ SameWork(sessions') /\ sessions' \in Seq(Session)
      BY <1>1, <3>1, SameParts DEF RowsInv
    <3> HIDE DEF x
    <3>4. Cost(0, 0)
      BY <3>1, <3>2, <3>3, HandlerCost DEF Pays
    <3>5. FewerHopes
      BY <3>1, <3>2, QuietHopes DEF Hopes
    <3> QED BY <3>3, <3>4, <3>5, QuietBudget
  <2> QED BY <2>1, <2>2
<1> QED BY <1>3, <1>4

-----------------------------------------------------------------------------
LEMMA BudgetInit == Init => BudgetInv
<1> SUFFICES ASSUME Init PROVE BudgetInv
  OBVIOUS
<1>1. /\ sessions = <<>> /\ automations = <<>> /\ job = None
      /\ handler = [h \in Handler |-> None] /\ Len(automations) = 0
  BY DEF Init
<1>2. Patient(automations, handler)
  <2>1. ~ \E n : n \in 1..Len(automations)
    BY <1>1, SMT
  <2> QED BY <2>1 DEF Patient
<1>3. ASSUME NEW n \in Place, NEW i \in Place
      PROVE  Spent(n, i, sessions, handler, job) <= Limit(n, i, automations)
  <2>1. SessionsOf(n, i, sessions) = {} /\ StartsOf(n, i, handler) = {}
    BY <1>1 DEF SessionsOf, StartsOf, StartsStep
  <2>2. WaitsFor(n, i, job) = 0 /\ Cardinality({}) = 0
    BY <1>1, FS_EmptySet DEF WaitsFor
  <2>3. Spent(n, i, sessions, handler, job) = 0 + 0 + 0
    BY <2>1, <2>2 DEF Spent
  <2>4. Limit(n, i, automations) = 0
    <3>1. ~(n <= Len(automations)) /\ Len(automations) \in Nat
      BY <1>1, SMT DEF Place
    <3> QED BY <3>1, LimitNone
  <2> QED BY <2>3, <2>4, SMT
<1> QED BY <1>2, <1>3 DEF BudgetInv

LEMMA BudgetNext == RowsInv /\ RowsInv' /\ BudgetInv /\ [Next]_vars => BudgetInv'
<1> SUFFICES ASSUME RowsInv, RowsInv', BudgetInv, [Next]_vars PROVE BudgetInv'
  OBVIOUS
<1>1. CASE UNCHANGED vars
  BY <1>1 DEF vars, BudgetInv
<1>2. CASE Next
  BY <1>2, ReturnBudget, FinishNotifyBudget, MoveBudget, EventBudget, ScanBudget, PromoteBudget,
     StartSucceedsBudget, StartFailsBudget, FinishArtifactBudget, LookBudget, RestartBudget,
     StallBudget, CleanupBudget DEF Next
<1> QED BY <1>1, <1>2

LEMMA BudgetBounds == RowsInv /\ BudgetInv => RecoveryBounded
<1> SUFFICES ASSUME RowsInv, BudgetInv,
                    NEW n \in DOMAIN automations, NEW i \in 1..Steps(automations[n].column)
             PROVE  Cardinality(SessionsOf(n, i, sessions)) <= 1 + Retries(automations[n])
  BY DEF RecoveryBounded, SessionsOf
<1>1. /\ automations \in Seq(Lawful) /\ sessions \in Seq(Session) /\ Len(automations) \in Nat
      /\ DOMAIN automations = 1..Len(automations)
  BY RowsParts
<1>2. n \in Place /\ n \in 1..Len(automations)
  BY <1>1, SMT DEF Place
<1>3. i \in Place
  <2>1. automations[n].column \in Column
    BY <1>1, ElementLawful
  <2>2. LaneSteps[automations[n].column] \in Nat /\ FallbackSteps \in Nat
    BY <2>1, StepAssumption
  <2>3. Steps(automations[n].column) \in Nat
    BY <2>2, SMT DEF Steps
  <2> QED BY <2>3, SMT DEF Place
<1> DEFINE c == Cardinality(SessionsOf(n, i, sessions))
           b == Cardinality(StartsOf(n, i, handler))
           w == WaitsFor(n, i, job)
           l == Limit(n, i, automations)
           r == automations[n].recoveries
           m == Cardinality(HopesOf(n, handler))
           u == Retries(automations[n])
<1>4. /\ c \in Nat /\ b \in Nat /\ w \in Nat /\ r \in Nat /\ m \in Nat /\ u \in Nat
  BY <1>1, <1>2, CountTypes, HopesTypes, RetriesType, ElementLawful DEF Automation
<1>5. c + b + w <= l /\ r + m <= u
  BY <1>2, <1>3 DEF BudgetInv, Spent, Patient
<1>6. l \in {1 + u, 1 + r, 0}
  BY <1>1, <1>2, LimitSome
<1> HIDE DEF c, b, w, l, r, m, u
<1>7. c <= 1 + u
  BY <1>4, <1>5, <1>6, SMT
<1> QED BY <1>7 DEF c, u

(* Bounded recovery (workflow-orchestrator.ts:6): for every board, lane,      *)
(* fallback chain and supervision mode, for every number of attempts and of   *)
(* handlers, and however starts, jobs of the queue, events, awaited prompts,  *)
(* moves, restarts and looks at the board interleave, a step of an automation *)
(* is started once, and again for each attempt and for each other handler     *)
(* that was let through before the attempts were counted.                     *)
THEOREM RecoveryBoundedCorrect == Spec => []RecoveryBounded
<1>1. Spec => [](RowsInv /\ BudgetInv)
  <2>1. Init => RowsInv /\ BudgetInv
    BY RowsInit, BudgetInit
  <2>2. RowsInv /\ BudgetInv /\ [Next]_vars => RowsInv' /\ BudgetInv'
    BY RowsStep, BudgetNext
  <2> QED BY <2>1, <2>2, PTL DEF Spec
<1> QED BY <1>1, BudgetBounds, PTL
=============================================================================
