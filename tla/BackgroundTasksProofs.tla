----------------------- MODULE BackgroundTasksProofs -----------------------
(* Type correctness of BackgroundTasks for every value of the constants, the   *)
(* limit on running tasks for any number of overlapping dispatches, and the    *)
(* order of the steps for the watched tasks.                                   *)
EXTENDS BackgroundTasks, NumberTheorems, FiniteSetTheorems, TLAPS

\* q lists the tasks of S in the order of listReadyToRun.
Lists(q, S, n) == q \in [1..n -> S] /\ \A i, j \in 1..n : i < j => Before(q[i], q[j])

LEMMA TaskNumbers == \A t \in Tasks : t \in Nat /\ Priority[t] \in Nat
<1>1. 1..NTasks \subseteq Nat /\ 0..2 \subseteq Nat
  BY ConstantsAssumption, SMT
<1> QED BY <1>1, ConstantsAssumption DEF Tasks

(* One task of a set goes before all the others. *)
LEMMA FirstTask ==
  ASSUME NEW T, T \subseteq Tasks, T # {}
  PROVE  \E m \in T : \A y \in T : y # m => Before(m, y)
<1> DEFINE P == {Priority[t] : t \in T}
<1>1. P \subseteq Nat /\ P # {}
  BY TaskNumbers
<1>2. PICK p \in P : \A x \in P : p <= x
  <2> HIDE DEF P
  <2> QED BY <1>1, LeastNumber
<1> DEFINE U == {t \in T : Priority[t] = p}
<1>3. U \subseteq Nat /\ U # {}
  BY TaskNumbers
<1>4. PICK m \in U : \A x \in U : m <= x
  <2> HIDE DEF U
  <2> QED BY <1>3, LeastNumber
<1>5. ASSUME NEW y \in T, y # m PROVE Before(m, y)
  <2>1. p <= Priority[y] /\ Priority[m] = p /\ p \in Nat /\ Priority[y] \in Nat
    BY <1>1, <1>2
  <2>2. y \in Nat /\ m \in Nat
    BY TaskNumbers
  <2>3. Priority[y] = p => m <= y
    BY <1>4
  <2> QED BY <1>5, <2>1, <2>2, <2>3, SMT DEF Before
<1> QED BY <1>5

(* A finite set of tasks can be listed in order. *)
LEMMA ListExists ==
  ASSUME NEW S, S \subseteq Tasks, IsFiniteSet(S)
  PROVE  \E q : Lists(q, S, Cardinality(S))
<1> DEFINE Reached == {n \in Nat : \A T \in SUBSET Tasks :
                         IsFiniteSet(T) /\ Cardinality(T) = n => \E q : Lists(q, T, n)}
<1>1. 0 \in Reached
  <2> SUFFICES ASSUME NEW T \in SUBSET Tasks, IsFiniteSet(T), Cardinality(T) = 0
               PROVE  Lists([i \in 1..0 |-> i], T, 0)
    OBVIOUS
  <2>1. 1..0 = {}
    BY SMT
  <2> QED BY <2>1 DEF Lists
<1>2. ASSUME NEW n \in Nat, n \in Reached PROVE n + 1 \in Reached
  <2> SUFFICES ASSUME NEW T \in SUBSET Tasks, IsFiniteSet(T), Cardinality(T) = n + 1
               PROVE  \E q : Lists(q, T, n + 1)
    OBVIOUS
  <2>1. T # {}
    BY FS_EmptySet, SMT
  <2>2. PICK m \in T : \A y \in T : y # m => Before(m, y)
    BY <2>1, FirstTask
  <2>3. IsFiniteSet(T \ {m}) /\ Cardinality(T \ {m}) = n /\ T \ {m} \in SUBSET Tasks
    <3>1. IsFiniteSet(T \ {m}) /\ Cardinality(T \ {m}) = Cardinality(T) - 1
      BY FS_RemoveElement
    <3>2. (n + 1) - 1 = n
      OBVIOUS
    <3> QED BY <3>1, <3>2
  <2>4. PICK q : Lists(q, T \ {m}, n)
    BY <1>2, <2>3
  <2> DEFINE r == [i \in 1..(n + 1) |-> IF i = 1 THEN m ELSE q[i - 1]]
  <2>5. ASSUME NEW i \in 1..n PROVE q[i] \in T /\ Before(m, q[i])
    BY <2>2, <2>4 DEF Lists
  <2>6. ASSUME NEW i \in 1..(n + 1), i # 1 PROVE i - 1 \in 1..n /\ r[i] = q[i - 1]
    BY <2>6, SMT
  <2>7. r \in [1..(n + 1) -> T]
    BY <2>5, <2>6
  <2>8. ASSUME NEW i \in 1..(n + 1), NEW j \in 1..(n + 1), i < j PROVE Before(r[i], r[j])
    <3>1. j # 1 /\ j - 1 \in 1..n /\ r[j] = q[j - 1]
      BY <2>6, <2>8, SMT
    <3>2. CASE i = 1
      BY <2>5, <3>1, <3>2
    <3>3. CASE i # 1
      <4>1. i - 1 \in 1..n /\ r[i] = q[i - 1] /\ i - 1 < j - 1
        BY <2>6, <2>8, <3>3, SMT
      <4> QED BY <2>4, <3>1, <4>1 DEF Lists
    <3> QED BY <3>2, <3>3
  <2>9. Lists(r, T, n + 1)
    BY <2>7, <2>8 DEF Lists
  <2> QED BY <2>9
<1>3. Nat \subseteq Reached
  <2> HIDE DEF Reached
  <2> QED BY <1>1, <1>2, NumberInduction
<1> QED BY <1>3, FS_CardinalityType

(* InOrder lists every task of a set once. *)
LEMMA InOrderType ==
  ASSUME NEW S, S \subseteq Tasks, IsFiniteSet(S)
  PROVE  /\ InOrder(S) \in [1..Cardinality(S) -> S]
         /\ \A i, j \in 1..Cardinality(S) : InOrder(S)[i] = InOrder(S)[j] => i = j
<1>1. Cardinality(S) \in Nat
  BY FS_CardinalityType
<1>2. Lists(InOrder(S), S, Cardinality(S))
  BY ListExists DEF InOrder, Lists
<1>3. ASSUME NEW i \in 1..Cardinality(S), NEW j \in 1..Cardinality(S),
             InOrder(S)[i] = InOrder(S)[j]
      PROVE  i = j
  <2>1. InOrder(S)[i] \in Tasks
    BY <1>2 DEF Lists
  <2>2. ~Before(InOrder(S)[i], InOrder(S)[i])
    BY <2>1, TaskNumbers, SMT DEF Before
  <2>3. ~(i < j) /\ ~(j < i)
    BY <1>2, <1>3, <2>2 DEF Lists
  <2> QED BY <1>1, <2>3, SMT
<1> QED BY <1>2, <1>3 DEF Lists
-----------------------------------------------------------------------------
BatchItem == [task : Tasks, startedAt : Ages \cup {Never}]

\* A batch holds no task twice and no more than there are slots.
BatchTyped(b) ==
  /\ b \in Seq(BatchItem) /\ Len(b) <= MaxConcurrent
  /\ \A i, j \in DOMAIN b : b[i].task = b[j].task => i = j

(* The inductive invariant of type correctness. *)
TypeInv ==
  /\ row \in [Tasks -> Rows] /\ editor \in [Tasks -> Rows]
  /\ \A t \in Tasks : editor[t].status \in {"absent", "PENDING"}
  /\ agent \in [Sessions -> AgentState]
  /\ sessionToTask \subseteq Sessions
  /\ dispatcher \in [Dispatchers -> Seq(BatchItem)]
  /\ \A d \in Dispatchers : BatchTyped(dispatcher[d])
  /\ retries \in 0..MaxRetries /\ edits \in 0..MaxEdits /\ faults \in 0..MaxFaults
  /\ again \subseteq Tasks

LEMMA TypeInvOK == TypeInv => TypeOK
<1> SUFFICES ASSUME TypeInv PROVE TypeOK
  OBVIOUS
<1>1. ASSUME NEW d \in Dispatchers
      PROVE  /\ Len(dispatcher[d]) <= MaxConcurrent
             /\ IsInjective([i \in DOMAIN dispatcher[d] |-> dispatcher[d][i].task])
             /\ \A i \in DOMAIN dispatcher[d] :
                  dispatcher[d][i].startedAt \in Ages \cup {Never}
  <2>1. BatchTyped(dispatcher[d])
    BY DEF TypeInv
  <2>2. \A i \in DOMAIN dispatcher[d] : dispatcher[d][i] \in BatchItem
    BY <2>1 DEF BatchTyped
  <2> QED BY <2>1, <2>2 DEF BatchTyped, BatchItem, IsInjective
<1> QED BY <1>1 DEF TypeInv, TypeOK

LEMMA NewRowType ==
  /\ NoRow \in Rows /\ NewRow \in Rows
  /\ NoRow.status = "absent" /\ NewRow.status = "PENDING"
BY DEF NoRow, NewRow, Rows, Status

LEMMA FreshAge == Fresh \in Ages /\ Fresh # Never
<1>1. Fresh \in Ages
  BY SMT DEF Fresh, Ages, OverHours
<1> QED BY <1>1, ConstantsAssumption

LEMMA FiniteTasks == \A S \in SUBSET Tasks :
  IsFiniteSet(S) /\ Cardinality(S) \in Nat /\ S \subseteq Nat
<1>1. IsFiniteSet(Tasks) /\ Tasks \subseteq Nat
  <2>1. NTasks \in Int /\ 1 \in Int /\ 1..NTasks \subseteq Nat
    BY ConstantsAssumption, SMT
  <2> QED BY <2>1, FS_Interval DEF Tasks
<1> QED BY <1>1, FS_Subset, FS_CardinalityType

LEMMA UpdatedType ==
  ASSUME NEW rows \in [Tasks -> Rows], NEW t \in Tasks, NEW r \in Rows
  PROVE  Updated(rows, t, r) \in [Tasks -> Rows]
BY DEF Updated

(* What a call goes on with after it took or finished a task. *)
LEMMA NextType ==
  ASSUME NEW rows \in [Tasks -> Rows], NEW b, BatchTyped(b)
  PROVE  BatchTyped(NextOfBatch(rows, b)) /\ MarkRunning(rows, b) \in [Tasks -> Rows]
<1>1. BatchTyped(NextOfBatch(rows, b))
  <2>1. <<>> \in Seq(BatchItem) /\ Len(<<>>) = 0 /\ DOMAIN <<>> = {}
    OBVIOUS
  <2>2. BatchTyped(<<>>)
    BY <2>1, ConstantsAssumption, SMT DEF BatchTyped
  <2> QED BY <2>2 DEF NextOfBatch, Idle
<1>2. CASE b = <<>>
  BY <1>1, <1>2 DEF MarkRunning, NextOfBatch, Idle
<1>3. CASE b # <<>>
  <2> DEFINE t == Head(b).task
             r == [rows[t] EXCEPT !.status = "RUNNING", !.startedAt = Fresh]
  <2>1. t \in Tasks
    <3>1. Head(b) \in BatchItem
      BY <1>3 DEF BatchTyped
    <3> QED BY <3>1 DEF BatchItem
  <2>2. r \in Rows
    <3> HIDE DEF t
    <3>1. rows[t] \in Rows
      BY <2>1
    <3> QED BY <3>1, FreshAge DEF Rows, Status
  <2>3. MarkRunning(rows, b) \in {rows, Updated(rows, t, r)}
    BY DEF MarkRunning
  <2> HIDE DEF r, t
  <2> QED BY <1>1, <2>1, <2>2, <2>3, UpdatedType
<1> QED BY <1>1, <1>2, <1>3

(* Each task starts once. *)
LEMMA TailType ==
  ASSUME NEW b, BatchTyped(b), b # <<>>
  PROVE  /\ BatchTyped(Tail(b)) /\ Head(b) \in BatchItem
         /\ \A i \in DOMAIN Tail(b) : i + 1 \in DOMAIN b /\ Tail(b)[i] = b[i + 1]
         /\ Head(b) = b[1] /\ 1 \in DOMAIN b
<1>1. b \in Seq(BatchItem) /\ Len(b) \in Nat /\ Len(b) # 0 /\ DOMAIN b = 1..Len(b)
  BY DEF BatchTyped
<1>2. /\ Tail(b) \in Seq(BatchItem) /\ Len(Tail(b)) = Len(b) - 1
      /\ DOMAIN Tail(b) = 1..(Len(b) - 1)
      /\ Head(b) \in BatchItem
  BY <1>1
<1>3. \A i \in DOMAIN Tail(b) : i + 1 \in DOMAIN b /\ Tail(b)[i] = b[i + 1]
  BY <1>1, <1>2
<1>4. \A i, j \in DOMAIN Tail(b) : Tail(b)[i].task = Tail(b)[j].task => i = j
  <2> SUFFICES ASSUME NEW i \in DOMAIN Tail(b), NEW j \in DOMAIN Tail(b),
                      Tail(b)[i].task = Tail(b)[j].task
               PROVE  i = j
    OBVIOUS
  <2>1. i + 1 = j + 1
    BY <1>3 DEF BatchTyped
  <2> QED BY <1>2, <2>1, SMT
<1>5. Len(Tail(b)) <= MaxConcurrent
  BY <1>1, <1>2, ConstantsAssumption, SMT DEF BatchTyped
<1> QED BY <1>1, <1>2, <1>3, <1>4, <1>5 DEF BatchTyped

LEMMA FreeSlotsType ==
  ASSUME NEW rows
  PROVE  /\ FreeSlots(rows) \in Nat
         /\ LET n == Cardinality({t \in Tasks : IsRunning(rows[t])})
            IN  n \in Nat /\ FreeSlots(rows) <= MaxConcurrent
                /\ (FreeSlots(rows) # 0 => n + FreeSlots(rows) <= MaxConcurrent)
<1> DEFINE n == Cardinality({t \in Tasks : IsRunning(rows[t])})
<1>1. n \in Nat
  BY FiniteTasks
<1> HIDE DEF n
<1>2. FreeSlots(rows) = IF n >= MaxConcurrent THEN 0 ELSE MaxConcurrent - n
  BY DEF FreeSlots, n
<1>3. /\ FreeSlots(rows) \in Nat /\ FreeSlots(rows) <= MaxConcurrent
      /\ (FreeSlots(rows) # 0 => n + FreeSlots(rows) <= MaxConcurrent)
  BY <1>1, <1>2, ConstantsAssumption, SMT
<1> QED BY <1>1, <1>3 DEF n

(* A batch holds ready tasks, each once, no more than there are slots. *)
LEMMA BatchOfType ==
  ASSUME NEW rows \in [Tasks -> Rows], NEW slots \in Nat, slots <= MaxConcurrent
  PROVE  /\ BatchTyped(BatchOf(rows, slots)) /\ Len(BatchOf(rows, slots)) <= slots
         /\ \A i \in DOMAIN BatchOf(rows, slots) :
              /\ BatchOf(rows, slots)[i].task \in ReadyToRun(rows)
              /\ BatchOf(rows, slots)[i].startedAt
                   = rows[BatchOf(rows, slots)[i].task].startedAt
<1> DEFINE S == ReadyToRun(rows)
           listed == Cardinality(S)
           n == IF slots < listed THEN slots ELSE listed
           b == [i \in 1..n |-> [task |-> InOrder(S)[i],
                                 startedAt |-> rows[InOrder(S)[i]].startedAt]]
<1>1. S \subseteq Tasks
  BY DEF ReadyToRun
<1>2. IsFiniteSet(S) /\ listed \in Nat
  BY <1>1, FiniteTasks
<1> HIDE DEF S
<1>3. /\ \A i \in 1..listed : InOrder(S)[i] \in S
      /\ \A i, j \in 1..listed : InOrder(S)[i] = InOrder(S)[j] => i = j
  BY <1>1, <1>2, InOrderType
<1>4. n \in Nat /\ n <= slots /\ \A i \in 1..n : i \in 1..listed
  BY <1>2, SMT
<1> HIDE DEF n, listed
<1>5. \A i \in 1..n : b[i] \in BatchItem /\ b[i].task \in S
                       /\ b[i].startedAt = rows[b[i].task].startedAt
  BY <1>1, <1>3, <1>4 DEF BatchItem, Rows
<1>6. b \in Seq(BatchItem) /\ Len(b) = n /\ DOMAIN b = 1..n
  BY <1>4, <1>5
<1>7. \A i, j \in DOMAIN b : b[i].task = b[j].task => i = j
  BY <1>3, <1>4, <1>6
<1>8. n <= MaxConcurrent
  BY <1>4, ConstantsAssumption, SMT
<1>9. BatchOf(rows, slots) = b
  BY DEF BatchOf, S, n, listed
<1> HIDE DEF b
<1> QED BY <1>4, <1>5, <1>6, <1>7, <1>8, <1>9 DEF BatchTyped, S

-----------------------------------------------------------------------------
LEMMA TriggerType == ASSUME TypeInv, Trigger PROVE TypeInv'
BY NewRowType DEF Trigger, TypeInv

LEMMA PostType == ASSUME TypeInv, NEW t \in Tasks, Post(t) PROVE TypeInv'
BY NewRowType DEF Post, TypeInv

LEMMA DispatchType == ASSUME TypeInv, NEW d \in Dispatchers, Dispatch(d) PROVE TypeInv'
<1> DEFINE b == BatchOf(row, FreeSlots(row))
<1>1. BatchTyped(b)
  BY FreeSlotsType, BatchOfType DEF TypeInv
<1> HIDE DEF b
<1>2. row' \in [Tasks -> Rows] /\ BatchTyped(NextOfBatch(row, b))
  BY <1>1, NextType DEF Dispatch, TypeInv, b
<1>3. dispatcher' = [dispatcher EXCEPT ![d] = NextOfBatch(row, b)]
  BY DEF Dispatch, b
<1>4. NextOfBatch(row, b) \in Seq(BatchItem)
  BY <1>2 DEF BatchTyped
<1> QED BY <1>2, <1>3, <1>4 DEF Dispatch, TypeInv

LEMMA StartedRowType ==
  ASSUME TypeInv, NEW t \in Tasks, NEW listed \in Ages \cup {Never}, NEW s \in Sessions
  PROVE  StartedRow(t, listed, s) \in Rows
<1>1. row[t] \in Rows
  BY DEF TypeInv
<1> QED BY <1>1, FreshAge DEF StartedRow, Rows, Status

(* A call that finished the head of its batch goes on with the rest. *)
LEMMA GoOnType ==
  ASSUME TypeInv, NEW d \in Dispatchers, dispatcher[d] # Idle,
         NEW rows \in [Tasks -> Rows],
         row' = MarkRunning(rows, Tail(dispatcher[d])),
         dispatcher' = [dispatcher EXCEPT ![d] = NextOfBatch(rows, Tail(dispatcher[d]))]
  PROVE  /\ row' \in [Tasks -> Rows]
         /\ dispatcher' \in [Dispatchers -> Seq(BatchItem)]
         /\ \A o \in Dispatchers : BatchTyped(dispatcher'[o])
<1>1. BatchTyped(Tail(dispatcher[d]))
  BY TailType DEF TypeInv, Idle
<1>2. /\ BatchTyped(NextOfBatch(rows, Tail(dispatcher[d])))
      /\ row' \in [Tasks -> Rows]
  BY <1>1, NextType
<1>3. NextOfBatch(rows, Tail(dispatcher[d])) \in Seq(BatchItem)
  BY <1>2 DEF BatchTyped
<1> QED BY <1>2, <1>3 DEF TypeInv

LEMMA HeadType ==
  ASSUME TypeInv, NEW d \in Dispatchers, dispatcher[d] # Idle
  PROVE  /\ Head(dispatcher[d]).task \in Tasks
         /\ Head(dispatcher[d]).startedAt \in Ages \cup {Never}
<1>1. Head(dispatcher[d]) \in BatchItem
  BY TailType DEF TypeInv, Idle
<1> QED BY <1>1 DEF BatchItem

LEMMA CreatedType ==
  ASSUME TypeInv, NEW d \in Dispatchers, SessionCreated(d) PROVE TypeInv'
<1> DEFINE t == Head(dispatcher[d]).task
           listed == Head(dispatcher[d]).startedAt
<1>1. PICK s \in Sessions :
        /\ row' = MarkRunning(Updated(row, t, StartedRow(t, listed, s)), Tail(dispatcher[d]))
        /\ dispatcher' = [dispatcher EXCEPT ![d] =
             NextOfBatch(Updated(row, t, StartedRow(t, listed, s)), Tail(dispatcher[d]))]
        /\ agent' = [agent EXCEPT ![s] = "prompted"]
        /\ sessionToTask' = sessionToTask \cup {s}
  BY DEF SessionCreated
<1>2. dispatcher[d] # Idle /\ UNCHANGED <<editor, retries, edits, faults, again>>
  BY DEF SessionCreated
<1>3. t \in Tasks /\ listed \in Ages \cup {Never}
  BY <1>2, HeadType
<1> HIDE DEF t, listed
<1>4. Updated(row, t, StartedRow(t, listed, s)) \in [Tasks -> Rows]
  BY <1>3, StartedRowType, UpdatedType DEF TypeInv
<1>5. /\ row' \in [Tasks -> Rows]
      /\ dispatcher' \in [Dispatchers -> Seq(BatchItem)]
      /\ \A o \in Dispatchers : BatchTyped(dispatcher'[o])
  BY <1>1, <1>2, <1>4, GoOnType
<1>6. agent' \in [Sessions -> AgentState]
  BY <1>1 DEF TypeInv, AgentState
<1> QED BY <1>1, <1>2, <1>5, <1>6 DEF TypeInv

LEMMA FaultType ==
  ASSUME TypeInv, faults < MaxFaults, faults' = faults + 1 PROVE faults' \in 0..MaxFaults
BY ConstantsAssumption, SMT DEF TypeInv

LEMMA EditType ==
  ASSUME TypeInv, edits < MaxEdits, edits' = edits + 1 PROVE edits' \in 0..MaxEdits
BY ConstantsAssumption, SMT DEF TypeInv

LEMMA StartFailedType ==
  ASSUME TypeInv, NEW d \in Dispatchers, StartFailed(d) PROVE TypeInv'
<1> DEFINE t == Head(dispatcher[d]).task
           rows == Updated(row, t, [row[t] EXCEPT !.status = "FAILED"])
<1>1. /\ row' = MarkRunning(rows, Tail(dispatcher[d]))
      /\ dispatcher' = [dispatcher EXCEPT ![d] = NextOfBatch(rows, Tail(dispatcher[d]))]
      /\ dispatcher[d] # Idle
      /\ UNCHANGED <<agent, sessionToTask, editor, retries, edits, again>>
  BY DEF StartFailed
<1>2. t \in Tasks
  BY <1>1, HeadType
<1>3. rows \in [Tasks -> Rows]
  <2> HIDE DEF t
  <2>1. [row[t] EXCEPT !.status = "FAILED"] \in Rows
    <3>1. row[t] \in Rows
      BY <1>2 DEF TypeInv
    <3> QED BY <3>1 DEF Rows, Status
  <2> QED BY <1>2, <2>1, UpdatedType DEF TypeInv
<1> HIDE DEF rows
<1>4. /\ row' \in [Tasks -> Rows]
      /\ dispatcher' \in [Dispatchers -> Seq(BatchItem)]
      /\ \A o \in Dispatchers : BatchTyped(dispatcher'[o])
  BY <1>1, <1>3, GoOnType
<1>5. faults' \in 0..MaxFaults
  BY FaultType DEF StartFailed
<1> QED BY <1>1, <1>4, <1>5 DEF TypeInv

LEMMA AgentType ==
  ASSUME TypeInv, NEW s \in Sessions,
         BeginTurn(s) \/ CompleteTurn(s) \/ BreakOff(s) \/ RemoveSession(s)
  PROVE  TypeInv'
<1>1. agent' \in [Sessions -> AgentState]
  BY DEF BeginTurn, CompleteTurn, BreakOff, RemoveSession, TypeInv, AgentState
<1>2. row' \in [Tasks -> Rows]
  <2>1. \A t \in Tasks : [row[t] EXCEPT !.status = "COMPLETED", !.output = TRUE] \in Rows
    <3>1. \A t \in Tasks : row[t] \in Rows
      BY DEF TypeInv
    <3> QED BY <3>1 DEF Rows, Status
  <2>2. CASE UNCHANGED row
    BY <2>2 DEF TypeInv
  <2>3. CASE CompleteTurn(s)
    BY <2>1, <2>3 DEF CompleteTurn, TypeInv
  <2> QED BY <2>2, <2>3 DEF BeginTurn, BreakOff, RemoveSession
<1>3. faults' \in 0..MaxFaults
  BY FaultType DEF BeginTurn, CompleteTurn, BreakOff, RemoveSession, TypeInv
<1>4. UNCHANGED <<sessionToTask, dispatcher, editor, retries, edits, again>>
  BY DEF BeginTurn, CompleteTurn, BreakOff, RemoveSession
<1> QED BY <1>1, <1>2, <1>3, <1>4 DEF TypeInv

(* The strategies of checkCompletions. *)
LEMMA ByMapType ==
  ASSUME TypeInv, NEW t \in Tasks, NEW r \in Rows
  PROVE  /\ ByMap(t, r) \in Rows
         /\ \/ ByMap(t, r) = r
            \/ \E k \in Left(t) :
                 ByMap(t, r) = [r EXCEPT !.status = "COMPLETED", !.session = <<t, k>>]
<1>1. CASE Left(t) = {} \/ r.status = "absent"
  BY <1>1 DEF ByMap
<1>2. CASE ~(Left(t) = {} \/ r.status = "absent")
  <2>1. Left(t) \subseteq 0..MaxStarts /\ MaxStarts \in Nat
    BY ConstantsAssumption, SMT DEF Left
  <2>2. Max(Left(t)) \in Left(t)
    BY <1>2, <2>1, GreatestNumber DEF Max
  <2>3. <<t, Max(Left(t))>> \in Sessions
    BY <2>2 DEF Left, Sessions
  <2> DEFINE k == Max(Left(t))
  <2>4. ByMap(t, r) = [r EXCEPT !.status = "COMPLETED", !.session = <<t, k>>]
    BY <1>2 DEF ByMap
  <2> HIDE DEF k
  <2>5. [r EXCEPT !.status = "COMPLETED", !.session = <<t, k>>] \in Rows
    BY <2>3 DEF Rows, Status, k
  <2> QED BY <2>2, <2>4, <2>5 DEF k
<1> QED BY <1>1, <1>2

LEMMA StrategyType ==
  ASSUME NEW r \in Rows
  PROVE  ByRow(r) \in Rows /\ ByOrphan(r) \in Rows /\ ByStaleness(r) \in Rows
BY DEF ByRow, ByOrphan, ByStaleness, Rows, Status

LEMMA CheckType == ASSUME TypeInv, CheckCompletions PROVE TypeInv'
<1>1. ASSUME NEW t \in Tasks
      PROVE  ByStaleness(ByOrphan(ByRow(ByMap(t, row[t])))) \in Rows
  <2>1. ByMap(t, row[t]) \in Rows
    BY ByMapType DEF TypeInv
  <2> QED BY <2>1, StrategyType
<1>2. row' \in [Tasks -> Rows]
  BY <1>1 DEF CheckCompletions
<1>3. sessionToTask' \subseteq Sessions
  BY DEF CheckCompletions, TypeInv
<1> QED BY <1>2, <1>3 DEF CheckCompletions, TypeInv

LEMMA SavedType ==
  ASSUME NEW t \in Tasks, row[t] \in Rows, NEW r \in Rows
  PROVE  /\ Saved(t, r) \in Rows /\ Saved(t, r).status = r.status
         /\ Saved(t, r).session \in {r.session, row[t].session}
BY DEF Saved, Rows

LEMMA RouteType ==
  ASSUME TypeInv, NEW t \in Tasks,
         Cancel(t) \/ Delete(t) \/ Retry(t) \/ BeginEdit(t) \/ FinishEdit(t)
  PROVE  TypeInv'
<1>1. row' \in [Tasks -> Rows] /\ editor' \in [Tasks -> Rows]
  <2>1. row[t] \in Rows /\ editor[t] \in Rows
    BY DEF TypeInv
  <2>2. /\ [row[t] EXCEPT !.status = "CANCELLED"] \in Rows
        /\ [row[t] EXCEPT !.status = "PENDING"] \in Rows
    BY <2>1 DEF Rows, Status
  <2>3. Saved(t, editor[t]) \in Rows
    BY <2>1, SavedType
  <2> QED
    BY <2>1, <2>2, <2>3, NewRowType DEF Cancel, Delete, Retry, BeginEdit, FinishEdit, TypeInv
<1>2. edits' \in 0..MaxEdits
  BY EditType DEF Cancel, Delete, Retry, BeginEdit, FinishEdit, TypeInv
<1>3. retries' \in 0..MaxRetries
  <2>1. CASE Retry(t)
    BY <2>1, ConstantsAssumption, SMT DEF Retry, TypeInv
  <2> QED BY <2>1 DEF Cancel, Delete, BeginEdit, FinishEdit, TypeInv
<1>4. UNCHANGED <<agent, sessionToTask, dispatcher, faults>>
  BY DEF Cancel, Delete, Retry, BeginEdit, FinishEdit
<1>5. \A u \in Tasks : editor'[u].status \in {"absent", "PENDING"}
  BY NewRowType DEF Cancel, Delete, Retry, BeginEdit, FinishEdit, TypeInv
<1>6. again' \subseteq Tasks
  BY DEF Cancel, Delete, Retry, BeginEdit, FinishEdit, TypeInv
<1> QED BY <1>1, <1>2, <1>3, <1>4, <1>5, <1>6 DEF TypeInv

LEMMA OlderType ==
  ASSUME NEW a \in Ages \cup {Never}
  PROVE  Older(a) \in Ages \cup {Never} /\ (a = Never => Older(a) = Never)
<1>1. Ages = 0..2 /\ OverHours = 2
  BY DEF Ages, Fresh, OverHours
<1>2. CASE a \in {Never, OverHours}
  BY <1>2 DEF Older
<1>3. CASE a \notin {Never, OverHours}
  <2>1. a \in 0..2 /\ a # 2
    BY <1>1, <1>3
  <2>2. a + 1 \in 0..2
    BY <2>1, SMT
  <2> QED BY <1>1, <1>3, <2>2 DEF Older
<1> QED BY <1>2, <1>3

\* The batch b when time has passed.
Aged(b) == [i \in DOMAIN b |-> [b[i] EXCEPT !.startedAt = Older(@)]]

LEMMA AgedType ==
  ASSUME NEW b, BatchTyped(b)
  PROVE  /\ BatchTyped(Aged(b)) /\ DOMAIN Aged(b) = DOMAIN b
         /\ \A i \in DOMAIN b : /\ Aged(b)[i].task = b[i].task
                                /\ Aged(b)[i].startedAt = Older(b[i].startedAt)
<1>1. b \in Seq(BatchItem) /\ Len(b) \in Nat /\ DOMAIN b = 1..Len(b)
  BY DEF BatchTyped
<1>2. ASSUME NEW i \in DOMAIN b
      PROVE  /\ Aged(b)[i] \in BatchItem /\ Aged(b)[i].task = b[i].task
             /\ Aged(b)[i].startedAt = Older(b[i].startedAt)
  <2>1. b[i] \in BatchItem
    BY <1>1
  <2>2. Older(b[i].startedAt) \in Ages \cup {Never}
    BY <2>1, OlderType DEF BatchItem
  <2> QED BY <2>1, <2>2 DEF Aged, BatchItem
<1>3. DOMAIN Aged(b) = 1..Len(b) /\ Aged(b) \in Seq(BatchItem) /\ Len(Aged(b)) = Len(b)
  <2>1. Aged(b) \in [1..Len(b) -> BatchItem]
    BY <1>1, <1>2 DEF Aged
  <2> QED BY <1>1, <2>1
<1> QED BY <1>1, <1>2, <1>3 DEF BatchTyped

LEMMA ElapseType == ASSUME TypeInv, Elapse PROVE TypeInv'
<1>1. \A t \in Tasks : /\ [row[t] EXCEPT !.startedAt = Older(@)] \in Rows
                       /\ [editor[t] EXCEPT !.startedAt = Older(@)] \in Rows
  <2>1. \A r \in Rows : [r EXCEPT !.startedAt = Older(@)] \in Rows
    BY OlderType DEF Rows
  <2> QED BY <2>1 DEF TypeInv
<1>2. row' \in [Tasks -> Rows] /\ editor' \in [Tasks -> Rows]
  BY <1>1 DEF Elapse, TypeInv
<1>3. dispatcher' = [d \in Dispatchers |-> Aged(dispatcher[d])]
  BY DEF Elapse, Aged
<1>4. /\ dispatcher' \in [Dispatchers -> Seq(BatchItem)]
      /\ \A d \in Dispatchers : BatchTyped(dispatcher'[d])
  <2>1. \A d \in Dispatchers : BatchTyped(Aged(dispatcher[d]))
    BY AgedType DEF TypeInv
  <2> QED BY <1>3, <2>1 DEF BatchTyped
<1>5. \A t \in Tasks : editor'[t].status = editor[t].status
  <2>1. \A t \in Tasks : editor[t] \in Rows
    BY DEF TypeInv
  <2> QED BY <2>1 DEF Elapse, Rows
<1> QED BY <1>2, <1>4, <1>5 DEF Elapse, TypeInv

LEMMA EmptyBatch == BatchTyped(Idle) /\ Idle \in Seq(BatchItem) /\ DOMAIN Idle = {}
<1>1. <<>> \in Seq(BatchItem) /\ Len(<<>>) = 0 /\ DOMAIN <<>> = {}
  OBVIOUS
<1> QED BY <1>1, ConstantsAssumption, SMT DEF BatchTyped, Idle

LEMMA CrashType == ASSUME TypeInv, Crash PROVE TypeInv'
<1>1. agent' \in [Sessions -> AgentState]
  BY DEF Crash, AgentState
<1>2. faults' \in 0..MaxFaults
  BY FaultType DEF Crash
<1>3. /\ editor' \in [Tasks -> Rows]
      /\ \A t \in Tasks : editor'[t].status \in {"absent", "PENDING"}
  BY NewRowType DEF Crash
<1> QED BY <1>1, <1>2, <1>3, EmptyBatch DEF Crash, TypeInv

LEMMA TypeInvInit == Init => TypeInv
<1> SUFFICES ASSUME Init PROVE TypeInv
  OBVIOUS
<1>1. row \in [Tasks -> Rows] /\ editor \in [Tasks -> Rows]
  BY NewRowType DEF Init
<1>2. \A t \in Tasks : editor[t].status \in {"absent", "PENDING"}
  BY NewRowType DEF Init
<1>3. retries \in 0..MaxRetries /\ edits \in 0..MaxEdits /\ faults \in 0..MaxFaults
  BY ConstantsAssumption, SMT DEF Init
<1> QED BY <1>1, <1>2, <1>3, EmptyBatch DEF Init, TypeInv, AgentState

LEMMA TypeInvStep == TypeInv /\ [Next]_vars => TypeInv'
<1> SUFFICES ASSUME TypeInv, [Next]_vars PROVE TypeInv'
  OBVIOUS
<1>1. CASE UNCHANGED vars
  BY <1>1 DEF vars, TypeInv
<1>2. CASE Next
  BY <1>2, TriggerType, PostType, DispatchType, CreatedType, StartFailedType, AgentType,
     CheckType, RouteType, ElapseType, CrashType DEF Next
<1> QED BY <1>1, <1>2

LEMMA TypeInvariant == Spec => []TypeInv
BY TypeInvInit, TypeInvStep, PTL DEF Spec

(* The variables keep their types; a batch holds no task twice and no more *)
(* tasks than there are slots (dispatchPending).                           *)
THEOREM TypeCorrect == Spec => []TypeOK
BY TypeInvariant, TypeInvOK, PTL

-----------------------------------------------------------------------------
InBatch(d) == {dispatcher[d][i].task : i \in DOMAIN dispatcher[d]}

\* The tasks that hold a slot, or will: those that run and those of a batch.
Holders == {t \in Tasks : IsRunning(row[t])} \cup UNION {InBatch(d) : d \in Dispatchers}

\* The share of all calls that may overlap.
Share == Cardinality(Dispatchers) * MaxConcurrent

HoldersBounded == Cardinality(Holders) <= Share

LEMMA ShareType == Share \in Nat
<1>1. Cardinality(Dispatchers) \in Nat /\ MaxConcurrent \in Nat
  BY FS_CardinalityType, ConstantsAssumption
<1> QED BY <1>1, SMT DEF Share

LEMMA HoldersType == ASSUME TypeInv PROVE Holders \in SUBSET Tasks
<1>1. \A d \in Dispatchers : InBatch(d) \in SUBSET Tasks
  <2>1. \A d \in Dispatchers : \A i \in DOMAIN dispatcher[d] : dispatcher[d][i] \in BatchItem
    BY DEF TypeInv
  <2> QED BY <2>1 DEF InBatch, BatchItem
<1> QED BY <1>1 DEF Holders

LEMMA FewerHolders ==
  ASSUME TypeInv, TypeInv', HoldersBounded, Holders' \subseteq Holders PROVE HoldersBounded'
<1>1. IsFiniteSet(Holders) /\ Cardinality(Holders) \in Nat
  BY HoldersType, FiniteTasks
<1>2. Cardinality(Holders') <= Cardinality(Holders) /\ Cardinality(Holders') \in Nat
  BY <1>1, FS_Subset, FS_CardinalityType
<1> QED BY <1>1, <1>2, ShareType, SMT DEF HoldersBounded, Share

\* The tasks of a batch b.
TasksIn(b) == {b[i].task : i \in DOMAIN b}

(* Only a task that goes on with its batch may run after the mark. *)
LEMMA MarkHolders ==
  ASSUME NEW rows \in [Tasks -> Rows], NEW b, BatchTyped(b)
  PROVE  /\ TasksIn(NextOfBatch(rows, b)) \subseteq TasksIn(b)
         /\ \A t \in Tasks : IsRunning(MarkRunning(rows, b)[t]) =>
              IsRunning(rows[t]) \/ t \in TasksIn(NextOfBatch(rows, b))
<1>1. TasksIn(Idle) = {}
  BY EmptyBatch DEF TasksIn
<1>2. CASE NextOfBatch(rows, b) = Idle
  BY <1>1, <1>2 DEF MarkRunning
<1>3. CASE NextOfBatch(rows, b) # Idle
  <2>1. NextOfBatch(rows, b) = b /\ b # <<>>
    BY <1>3 DEF NextOfBatch, Idle
  <2>2. Head(b).task \in TasksIn(b)
    BY <2>1, TailType DEF TasksIn
  <2>3. \A t \in Tasks : t # Head(b).task => MarkRunning(rows, b)[t] = rows[t]
    BY DEF MarkRunning, Updated
  <2> QED BY <2>1, <2>2, <2>3
<1> QED BY <1>2, <1>3

LEMMA GoOnHolders ==
  ASSUME TypeInv, NEW d \in Dispatchers, dispatcher[d] # Idle,
         NEW rows \in [Tasks -> Rows],
         \A t \in Tasks : t # Head(dispatcher[d]).task => rows[t] = row[t],
         row' = MarkRunning(rows, Tail(dispatcher[d])),
         dispatcher' = [dispatcher EXCEPT ![d] = NextOfBatch(rows, Tail(dispatcher[d]))]
  PROVE  Holders' \subseteq Holders
<1> DEFINE b == dispatcher[d]
           rest == Tail(b)
<1>1. BatchTyped(b) /\ b # <<>> /\ BatchTyped(rest)
  BY TailType DEF TypeInv, Idle
<1>2. Head(b).task \in TasksIn(b) /\ TasksIn(rest) \subseteq TasksIn(b)
  BY <1>1, TailType DEF TasksIn
<1>3. /\ TasksIn(NextOfBatch(rows, rest)) \subseteq TasksIn(rest)
      /\ \A t \in Tasks : IsRunning(row'[t]) =>
           IsRunning(rows[t]) \/ t \in TasksIn(NextOfBatch(rows, rest))
  BY <1>1, MarkHolders
<1>4. \A t \in Tasks : IsRunning(row'[t]) => IsRunning(row[t]) \/ t \in TasksIn(b)
  BY <1>2, <1>3
<1>5. \A o \in Dispatchers : InBatch(o)' \subseteq InBatch(o)
  <2>1. InBatch(d)' = TasksIn(NextOfBatch(rows, rest)) /\ InBatch(d) = TasksIn(b)
    BY DEF InBatch, TasksIn, TypeInv
  <2>2. \A o \in Dispatchers : o # d => InBatch(o)' = InBatch(o)
    BY DEF InBatch, TypeInv
  <2> QED BY <1>2, <1>3, <2>1, <2>2
<1>6. TasksIn(b) = InBatch(d)
  BY DEF InBatch, TasksIn
<1> HIDE DEF b, rest
<1>7. {t \in Tasks : IsRunning(row'[t])} \subseteq Holders
  BY <1>4, <1>6 DEF Holders
<1>8. UNION {InBatch(o)' : o \in Dispatchers} \subseteq Holders
  BY <1>5 DEF Holders
<1> QED BY <1>7, <1>8 DEF Holders, IsRunning

\* The tasks in the batches of the calls other than d.
OtherBatches(d) == UNION {InBatch(o) : o \in Dispatchers \ {d}}

(* The other calls hold no more than their share. *)
LEMMA OthersBounded ==
  ASSUME TypeInv, NEW d \in Dispatchers
  PROVE  /\ IsFiniteSet(OtherBatches(d))
         /\ Cardinality(OtherBatches(d)) + MaxConcurrent <= Share
<1> DEFINE O == Dispatchers \ {d}
           places == O \X (1..MaxConcurrent)
           taken == {p \in places : p[2] \in DOMAIN dispatcher[p[1]]}
           f == [p \in taken |-> dispatcher[p[1]][p[2]].task]
<1>1. IsFiniteSet(O) /\ Cardinality(O) = Cardinality(Dispatchers) - 1
  BY FS_RemoveElement, ConstantsAssumption
<1>2. /\ IsFiniteSet(1..MaxConcurrent) /\ Cardinality(1..MaxConcurrent) = MaxConcurrent
      /\ MaxConcurrent \in Nat
  <2>1. MaxConcurrent \in Int /\ 1 \in Int /\ MaxConcurrent >= 1 /\ MaxConcurrent \in Nat
    BY ConstantsAssumption, SMT
  <2>2. /\ IsFiniteSet(1..MaxConcurrent)
        /\ Cardinality(1..MaxConcurrent) = IF 1 > MaxConcurrent THEN 0 ELSE MaxConcurrent - 1 + 1
    BY <2>1, FS_Interval
  <2> QED BY <2>1, <2>2, SMT
<1>3. IsFiniteSet(places) /\ Cardinality(places) = Cardinality(O) * MaxConcurrent
  <2> HIDE DEF O
  <2> QED BY <1>1, <1>2, FS_Product
<1>4. /\ IsFiniteSet(taken) /\ Cardinality(taken) \in Nat /\ Cardinality(places) \in Nat
      /\ Cardinality(taken) <= Cardinality(places)
  <2>1. taken \in SUBSET places
    OBVIOUS
  <2> HIDE DEF taken, places
  <2> QED BY <1>3, <2>1, FS_Subset, FS_CardinalityType
<1>5. f \in Surjection(taken, OtherBatches(d))
  <2>1. \A p \in taken : f[p] \in OtherBatches(d)
    BY DEF OtherBatches, InBatch
  <2>2. ASSUME NEW t \in OtherBatches(d) PROVE \E p \in taken : f[p] = t
    <3>1. PICK o \in O : t \in InBatch(o)
      BY DEF OtherBatches
    <3>2. PICK i \in DOMAIN dispatcher[o] : t = dispatcher[o][i].task
      BY <3>1 DEF InBatch
    <3>3. BatchTyped(dispatcher[o])
      BY DEF TypeInv
    <3>4. i \in 1..MaxConcurrent
      <4>1. /\ Len(dispatcher[o]) \in Nat /\ DOMAIN dispatcher[o] = 1..Len(dispatcher[o])
            /\ Len(dispatcher[o]) <= MaxConcurrent
        BY <3>3 DEF BatchTyped
      <4> QED BY <1>2, <3>2, <4>1, SMT
    <3>5. <<o, i>> \in taken
      BY <3>2, <3>4
    <3> QED BY <3>2, <3>5
  <2>3. f \in [taken -> OtherBatches(d)]
    BY <2>1
  <2> HIDE DEF f, taken
  <2> QED BY <2>2, <2>3 DEF Surjection
<1>6. IsFiniteSet(OtherBatches(d)) /\ Cardinality(OtherBatches(d)) <= Cardinality(taken)
  <2> HIDE DEF f, taken
  <2> QED BY <1>4, <1>5, FS_Surjection
<1>7. Cardinality(OtherBatches(d)) \in Nat /\ Cardinality(Dispatchers) \in Nat
      /\ Cardinality(O) \in Nat
  <2> HIDE DEF O
  <2> QED BY <1>1, <1>6, FS_CardinalityType, ConstantsAssumption
<1>8. Cardinality(O) * MaxConcurrent + MaxConcurrent = Share
  <2> HIDE DEF O
  <2>1. \A m, k \in Nat : m * k + k = (m + 1) * k
    BY SMT
  <2>2. Cardinality(Dispatchers) = Cardinality(O) + 1
    BY <1>1, <1>7, SMT
  <2> QED BY <1>2, <1>7, <2>1, <2>2 DEF Share
<1>9. Cardinality(OtherBatches(d)) <= Cardinality(O) * MaxConcurrent
  <2> HIDE DEF O, places, taken, f
  <2> QED BY <1>3, <1>4, <1>6, <1>7, SMT
<1> QED
  <2> DEFINE k == Cardinality(O) * MaxConcurrent
  <2>1. k \in Nat /\ Cardinality(OtherBatches(d)) <= k /\ k + MaxConcurrent = Share
    <3> HIDE DEF O, places
    <3> QED BY <1>3, <1>4, <1>8, <1>9
  <2> HIDE DEF k
  <2> QED BY <1>2, <1>6, <1>7, <2>1, SMT

LEMMA DispatchHolders ==
  ASSUME TypeInv, NEW d \in Dispatchers, Dispatch(d)
  PROVE  HoldersBounded'
<1> DEFINE Running == {t \in Tasks : IsRunning(row[t])}
           b == BatchOf(row, FreeSlots(row))
<1>1. /\ b # Idle /\ row' = MarkRunning(row, b)
      /\ dispatcher' = [dispatcher EXCEPT ![d] = NextOfBatch(row, b)]
  BY DEF Dispatch
<1>2. BatchTyped(b) /\ Len(b) <= FreeSlots(row) /\ FreeSlots(row) \in Nat
  BY FreeSlotsType, BatchOfType DEF TypeInv
<1>3. Len(b) \in Nat /\ Len(b) # 0 /\ DOMAIN b = 1..Len(b)
  <2> HIDE DEF b
  <2> QED BY <1>1, <1>2 DEF BatchTyped, Idle
<1>4. Cardinality(Running) \in Nat /\ Cardinality(Running) + Len(b) <= MaxConcurrent
  <2>1. /\ Cardinality(Running) \in Nat
        /\ FreeSlots(row) # 0 => Cardinality(Running) + FreeSlots(row) <= MaxConcurrent
    BY FreeSlotsType
  <2> HIDE DEF Running, b
  <2> QED BY <1>2, <1>3, <2>1, ConstantsAssumption, SMT
<1>5. Holders' \subseteq (Running \cup TasksIn(b)) \cup OtherBatches(d)
  <2> HIDE DEF b
  <2>1. /\ TasksIn(NextOfBatch(row, b)) \subseteq TasksIn(b)
        /\ \A t \in Tasks : IsRunning(row'[t]) => t \in Running \cup TasksIn(b)
    BY <1>1, <1>2, MarkHolders DEF TypeInv
  <2>2. InBatch(d)' \subseteq TasksIn(b)
    BY <1>1, <2>1 DEF InBatch, TasksIn, TypeInv
  <2>3. \A o \in Dispatchers \ {d} : InBatch(o)' = InBatch(o)
    BY <1>1 DEF InBatch, TypeInv
  <2>4. \A o \in Dispatchers : InBatch(o)' \subseteq TasksIn(b) \cup OtherBatches(d)
    BY <2>2, <2>3 DEF OtherBatches
  <2> HIDE DEF Running
  <2> QED BY <2>1, <2>4 DEF Holders, IsRunning
<1>6. IsFiniteSet(TasksIn(b)) /\ Cardinality(TasksIn(b)) <= Len(b)
  <2> HIDE DEF b
  <2>1. IsFiniteSet(1..Len(b)) /\ Cardinality(1..Len(b)) = Len(b)
    BY <1>3, FS_Interval, SMT
  <2> DEFINE f == [i \in 1..Len(b) |-> b[i].task]
  <2>2. f \in Surjection(1..Len(b), TasksIn(b))
    BY <1>3 DEF Surjection, TasksIn
  <2> HIDE DEF f
  <2> QED BY <2>1, <2>2, FS_Surjection
<1>7. /\ IsFiniteSet(Running \cup TasksIn(b))
      /\ Cardinality(Running \cup TasksIn(b)) <= MaxConcurrent
  <2> HIDE DEF b
  <2>1. IsFiniteSet(Running)
    BY FiniteTasks
  <2> HIDE DEF Running
  <2>2. /\ IsFiniteSet(Running \cup TasksIn(b))
        /\ Cardinality(Running \cup TasksIn(b))
             = Cardinality(Running) + Cardinality(TasksIn(b)) - Cardinality(Running \cap TasksIn(b))
    BY <1>6, <2>1, FS_Union
  <2>3. Cardinality(Running \cap TasksIn(b)) \in Nat /\ Cardinality(TasksIn(b)) \in Nat
    BY <1>6, <2>1, FS_Intersection, FS_CardinalityType
  <2> QED BY <1>3, <1>4, <1>6, <2>2, <2>3, ConstantsAssumption, SMT
<1> HIDE DEF Running, b
<1> DEFINE Own == Running \cup TasksIn(b)
           All == Own \cup OtherBatches(d)
<1>8. /\ IsFiniteSet(Own) /\ Cardinality(Own) <= MaxConcurrent
      /\ Holders' \in SUBSET All
  BY <1>5, <1>7
<1> HIDE DEF Own
<1>9. IsFiniteSet(All) /\ Cardinality(All) <= Share /\ Cardinality(All) \in Nat
  <2>1. IsFiniteSet(OtherBatches(d)) /\ Cardinality(OtherBatches(d)) + MaxConcurrent <= Share
    BY OthersBounded
  <2>2. /\ IsFiniteSet(All)
        /\ Cardinality(All) = Cardinality(Own) + Cardinality(OtherBatches(d))
                               - Cardinality(Own \cap OtherBatches(d))
    BY <1>8, <2>1, FS_Union
  <2>3. /\ Cardinality(Own) \in Nat /\ Cardinality(OtherBatches(d)) \in Nat
        /\ Cardinality(Own \cap OtherBatches(d)) \in Nat /\ Cardinality(All) \in Nat
    BY <1>8, <2>1, <2>2, FS_Intersection, FS_CardinalityType
  <2> QED BY <1>8, <2>1, <2>2, <2>3, ShareType, ConstantsAssumption, SMT DEF Share
<1> HIDE DEF All
<1>10. Cardinality(Holders') <= Cardinality(All) /\ Cardinality(Holders') \in Nat
  BY <1>8, <1>9, FS_Subset, FS_CardinalityType
<1>11. Share' = Share
  BY DEF Share
<1> QED BY <1>9, <1>10, <1>11, ShareType, SMT DEF HoldersBounded

(* An action that starts nothing adds no holder. *)
LEMMA OtherHolders ==
  ASSUME TypeInv, [Next]_vars,
         ~ \E d \in Dispatchers : Dispatch(d) \/ SessionCreated(d) \/ StartFailed(d)
  PROVE  Holders' \subseteq Holders
<1>1. /\ \A t \in Tasks : IsRunning(row'[t]) => IsRunning(row[t])
      /\ \A d \in Dispatchers : InBatch(d)' \subseteq InBatch(d)
  <2>1. CASE UNCHANGED vars
    BY <2>1 DEF vars, InBatch
  <2>2. CASE Trigger \/ \E t \in Tasks : Post(t)
    BY <2>2 DEF Trigger, Post, InBatch, IsRunning, NewRow, NoRow, TypeInv
  <2>3. CASE \E t \in Tasks : Cancel(t) \/ Delete(t) \/ Retry(t) \/ BeginEdit(t)
    <3>1. PICK t \in Tasks : Cancel(t) \/ Delete(t) \/ Retry(t) \/ BeginEdit(t)
      BY <2>3
    <3>2. row[t] \in Rows
      BY DEF TypeInv
    <3>3. row'[t] = row[t] \/ row'[t].status # "RUNNING"
      BY <3>1, <3>2 DEF Cancel, Delete, Retry, BeginEdit, NoRow, TypeInv, Rows
    <3>4. /\ \A u \in Tasks : u # t => row'[u] = row[u]
          /\ UNCHANGED dispatcher
      BY <3>1 DEF Cancel, Delete, Retry, BeginEdit, TypeInv
    <3> QED BY <3>3, <3>4 DEF IsRunning, InBatch
  <2>4. CASE \E t \in Tasks : FinishEdit(t)
    <3>1. PICK t \in Tasks : FinishEdit(t)
      BY <2>4
    <3>2. row'[t] = Saved(t, editor[t]) /\ editor[t] \in Rows /\ row[t] \in Rows
      BY <3>1 DEF FinishEdit, TypeInv
    <3>3. row'[t].status = editor[t].status
      BY <3>2, SavedType
    <3>4. /\ \A u \in Tasks : u # t => row'[u] = row[u]
          /\ UNCHANGED dispatcher
      BY <3>1 DEF FinishEdit, TypeInv
    <3> QED BY <3>3, <3>4 DEF IsRunning, InBatch, TypeInv
  <2>5. CASE \E s \in Sessions : BeginTurn(s) \/ BreakOff(s) \/ RemoveSession(s)
    BY <2>5 DEF BeginTurn, BreakOff, RemoveSession, InBatch
  <2>6. CASE \E s \in Sessions : CompleteTurn(s)
    <3>1. \A t \in Tasks : row[t] \in Rows
      BY DEF TypeInv
    <3>2. \A t \in Tasks : row'[t] = row[t] \/ row'[t].status = "COMPLETED"
      BY <2>6, <3>1 DEF CompleteTurn, Rows
    <3> QED BY <2>6, <3>2 DEF CompleteTurn, IsRunning, InBatch
  <2>7. CASE CheckCompletions
    <3>1. ASSUME NEW t \in Tasks, IsRunning(row'[t]) PROVE IsRunning(row[t])
      <4> DEFINE r1 == ByMap(t, row[t])
                 r2 == ByOrphan(ByRow(r1))
      <4>1. row'[t] = ByStaleness(r2)
        BY <2>7 DEF CheckCompletions
      <4>2. r1 \in Rows /\ row[t] \in Rows
        BY ByMapType DEF TypeInv
      <4> HIDE DEF r1
      <4>3. ByRow(r1) \in Rows /\ r2 \in Rows
        BY <4>2, StrategyType
      <4>4. IsRunning(ByStaleness(r2)) => IsRunning(r2)
        BY <4>3 DEF ByStaleness, IsRunning, IsStale, Rows
      <4>5. IsRunning(r2) => IsRunning(ByRow(r1))
        BY <4>3 DEF ByOrphan, IsRunning, IsOrphaned, Rows
      <4>6. IsRunning(ByRow(r1)) => IsRunning(r1)
        BY <4>2 DEF ByRow, IsRunning, Rows
      <4>7. IsRunning(r1) => IsRunning(row[t])
        <5>1. r1 = row[t] \/ \E k \in Left(t) :
                r1 = [row[t] EXCEPT !.status = "COMPLETED", !.session = <<t, k>>]
          BY <4>2, ByMapType DEF r1
        <5>2. r1 = row[t] \/ r1.status = "COMPLETED"
          BY <4>2, <5>1 DEF Rows
        <5> QED BY <5>2 DEF IsRunning
      <4> QED BY <3>1, <4>1, <4>4, <4>5, <4>6, <4>7
    <3> QED BY <2>7, <3>1 DEF CheckCompletions, InBatch
  <2>8. CASE Elapse
    <3>1. \A d \in Dispatchers : InBatch(d)' = InBatch(d)
      <4>1. dispatcher' = [d \in Dispatchers |-> Aged(dispatcher[d])]
        BY <2>8 DEF Elapse, Aged
      <4>2. ASSUME NEW d \in Dispatchers PROVE InBatch(d)' = InBatch(d)
        <5>1. /\ DOMAIN Aged(dispatcher[d]) = DOMAIN dispatcher[d]
              /\ \A i \in DOMAIN dispatcher[d] :
                   Aged(dispatcher[d])[i].task = dispatcher[d][i].task
          BY AgedType DEF TypeInv
        <5>2. dispatcher'[d] = Aged(dispatcher[d])
          BY <4>1
        <5> QED BY <5>1, <5>2 DEF InBatch
      <4> QED BY <4>2
    <3>2. \A t \in Tasks : IsRunning(row'[t]) => IsRunning(row[t])
      BY <2>8 DEF Elapse, IsRunning, TypeInv, Rows
    <3> QED BY <3>1, <3>2
  <2>9. CASE Crash
    BY <2>9, EmptyBatch DEF Crash, InBatch
  <2> QED BY <2>1, <2>2, <2>3, <2>4, <2>5, <2>6, <2>7, <2>8, <2>9 DEF Next
<1> QED BY <1>1 DEF Holders, IsRunning

(* A call that finished a task adds no holder. *)
LEMMA FinishedHolders ==
  ASSUME TypeInv, NEW d \in Dispatchers, SessionCreated(d) \/ StartFailed(d)
  PROVE  Holders' \subseteq Holders
<1> DEFINE t == Head(dispatcher[d]).task
           listed == Head(dispatcher[d]).startedAt
<1>1. \E r \in Rows :
        /\ row' = MarkRunning(Updated(row, t, r), Tail(dispatcher[d]))
        /\ dispatcher' = [dispatcher EXCEPT ![d] =
             NextOfBatch(Updated(row, t, r), Tail(dispatcher[d]))]
  <2>1. t \in Tasks /\ listed \in Ages \cup {Never}
    BY HeadType DEF SessionCreated, StartFailed
  <2>2. \A s \in Sessions : StartedRow(t, listed, s) \in Rows
    <3> HIDE DEF t, listed
    <3> QED BY <2>1, StartedRowType
  <2>3. [row[t] EXCEPT !.status = "FAILED"] \in Rows
    <3> HIDE DEF t
    <3>1. row[t] \in Rows
      BY <2>1 DEF TypeInv
    <3> QED BY <3>1 DEF Rows, Status
  <2>4. CASE SessionCreated(d)
    BY <2>2, <2>4 DEF SessionCreated
  <2>5. CASE StartFailed(d)
    BY <2>3, <2>5 DEF StartFailed
  <2> QED BY <2>4, <2>5
<1>2. dispatcher[d] # Idle
  BY DEF SessionCreated, StartFailed
<1>3. t \in Tasks
  BY <1>2, HeadType
<1>4. PICK r \in Rows :
        /\ row' = MarkRunning(Updated(row, t, r), Tail(dispatcher[d]))
        /\ dispatcher' = [dispatcher EXCEPT ![d] =
             NextOfBatch(Updated(row, t, r), Tail(dispatcher[d]))]
  BY <1>1
<1>5. Updated(row, t, r) \in [Tasks -> Rows]
  <2> HIDE DEF t
  <2> QED BY <1>3, UpdatedType DEF TypeInv
<1>6. \A u \in Tasks : u # t => Updated(row, t, r)[u] = row[u]
  BY DEF Updated
<1> QED BY <1>2, <1>4, <1>5, <1>6, GoOnHolders

LEMMA HoldersInit == Init => HoldersBounded
<1> SUFFICES ASSUME Init PROVE HoldersBounded
  OBVIOUS
<1>1. {t \in Tasks : IsRunning(row[t])} = {}
  BY DEF Init, IsRunning, NoRow
<1>2. \A d \in Dispatchers : InBatch(d) = {}
  BY EmptyBatch DEF Init, InBatch
<1>3. Holders = {}
  BY <1>1, <1>2 DEF Holders
<1>4. Cardinality({}) = 0
  BY FS_EmptySet
<1> QED BY <1>3, <1>4, ShareType, SMT DEF HoldersBounded, Share

LEMMA HoldersStep ==
  ASSUME TypeInv, HoldersBounded, [Next]_vars PROVE HoldersBounded'
<1>1. TypeInv'
  BY TypeInvStep
<1>2. CASE \E d \in Dispatchers : Dispatch(d)
  BY <1>2, DispatchHolders
<1>3. CASE \E d \in Dispatchers : SessionCreated(d) \/ StartFailed(d)
  BY <1>1, <1>3, FinishedHolders, FewerHolders
<1>4. CASE ~ \E d \in Dispatchers : Dispatch(d) \/ SessionCreated(d) \/ StartFailed(d)
  BY <1>1, <1>4, OtherHolders, FewerHolders
<1> QED BY <1>2, <1>3, <1>4

LEMMA HoldersLimit == ASSUME TypeInv, HoldersBounded PROVE LimitRespected
<1> DEFINE Running == {t \in Tasks : IsRunning(row[t])}
<1>1. IsFiniteSet(Holders) /\ Cardinality(Holders) \in Nat
  BY HoldersType, FiniteTasks
<1>2. Running \subseteq Holders
  BY DEF Holders
<1> HIDE DEF Running
<1>3. Cardinality(Running) <= Cardinality(Holders) /\ Cardinality(Running) \in Nat
  BY <1>1, <1>2, FS_Subset, FS_CardinalityType
<1>4. Cardinality(Running) <= Share
  <2> HIDE DEF Running
  <2> QED BY <1>1, <1>3, ShareType, SMT DEF HoldersBounded
<1> QED BY <1>4 DEF LimitRespected, Running, Share

(* Every call of dispatchPending that overlaps others brings at most its own *)
(* MaxConcurrent tasks to those that run with a session, and one call alone  *)
(* keeps the limit, however many tasks there are and whatever starts, fails, *)
(* is retried, edited or recovered meanwhile.                                *)
THEOREM LimitRespectedCorrect == Spec => []LimitRespected
<1>1. Spec => []HoldersBounded
  <2>1. TypeInv /\ HoldersBounded /\ [Next]_vars => HoldersBounded'
    BY HoldersStep
  <2> QED BY <2>1, HoldersInit, TypeInvariant, PTL DEF Spec
<1>2. TypeInv /\ HoldersBounded => LimitRespected
  BY HoldersLimit
<1> QED BY <1>1, <1>2, TypeInvariant, PTL

-----------------------------------------------------------------------------
EndedDeps(t) == \A u \in DependsOn(t) \cap Watched : Ended(u)

\* The session of a row was made for its task.
SessionOfTask ==
  \A t \in Watched : row[t].session # NoSession =>
    row[t].session[1] = t /\ agent[row[t].session] # "none"

\* A task that waits was never started, unless it was put back.
PendingNew ==
  \A t \in Watched : /\ row[t].status = "PENDING" => row[t] = NewRow
                     /\ editor[t] \in {NoRow, NewRow}

\* A task is young while the prompt of its session is on the way.
PromptFresh ==
  \A t \in Watched : IsRunning(row[t]) /\ agent[row[t].session] = "prompted"
                       => row[t].startedAt = Fresh

\* All that the tasks of a batch depend on has ended; those not put back were never started.
BatchReady ==
  \A d \in Dispatchers : \A i \in DOMAIN dispatcher[d] :
    /\ dispatcher[d][i].task \in Watched => dispatcher[d][i].startedAt = Never
    /\ EndedDeps(dispatcher[d][i].task)

CompletedTasks == \A t \in Watched : row[t].status = "COMPLETED" => Ended(t)

(* The inductive invariant of the order of the steps. *)
OrderInv ==
  SessionOfTask /\ PendingNew /\ PromptFresh /\ BatchReady /\ CompletedTasks /\ StepsInSequence

\* What a step may do to a session: it is made for the head of a batch, or goes on to its end.
AgentChange(s) ==
  \/ agent'[s] = agent[s]
  \/ /\ agent[s] = "none" /\ agent'[s] = "prompted"
     /\ \E d \in Dispatchers : dispatcher[d] # Idle /\ Head(dispatcher[d]).task = s[1]
  \/ /\ agent[s] # "none" /\ agent'[s] \in {"working", "ended", "gone"}
     /\ agent[s] \in {"ended", "gone"} => agent'[s] = "gone"

LEMMA AgentSteps ==
  ASSUME TypeInv, [Next]_vars PROVE \A s \in Sessions : AgentChange(s)
<1>1. CASE UNCHANGED agent
  BY <1>1 DEF AgentChange
<1>2. CASE \E d \in Dispatchers : SessionCreated(d)
  <2>1. PICK d \in Dispatchers : SessionCreated(d)
    BY <1>2
  <2>2. PICK n \in Sessions : /\ NextSession(Head(dispatcher[d]).task, n)
                              /\ agent' = [agent EXCEPT ![n] = "prompted"]
    BY <2>1 DEF SessionCreated
  <2>3. agent[n] = "none" /\ n[1] = Head(dispatcher[d]).task /\ dispatcher[d] # Idle
    BY <2>1, <2>2 DEF NextSession, SessionCreated
  <2> QED BY <2>2, <2>3 DEF AgentChange, TypeInv
<1>3. CASE \E s \in Sessions : BeginTurn(s) \/ CompleteTurn(s) \/ BreakOff(s) \/ RemoveSession(s)
  BY <1>3 DEF AgentChange, BeginTurn, CompleteTurn, BreakOff, RemoveSession, TypeInv
<1>4. CASE Crash
  BY <1>4 DEF AgentChange, Crash
<1>5. CASE ~ \/ \E d \in Dispatchers : SessionCreated(d)
             \/ \E s \in Sessions : BeginTurn(s) \/ CompleteTurn(s) \/ BreakOff(s) \/ RemoveSession(s)
             \/ Crash
  <2>1. UNCHANGED agent
    BY <1>5 DEF Next, vars, Trigger, Post, Cancel, Delete, Retry, BeginEdit, FinishEdit,
       Dispatch, StartFailed, CheckCompletions, Elapse
  <2> QED BY <1>1, <2>1
<1> QED BY <1>2, <1>3, <1>4, <1>5

(* A task that was put back once stays among those. *)
LEMMA WatchedSteps == ASSUME TypeInv, [Next]_vars PROVE Watched' \subseteq Watched
<1>1. again \subseteq again'
  BY DEF Next, vars, Trigger, Post, Cancel, Delete, Retry, BeginEdit, FinishEdit, Dispatch,
     SessionCreated, StartFailed, BeginTurn, CompleteTurn, BreakOff, RemoveSession,
     CheckCompletions, Elapse, Crash
<1> QED BY <1>1 DEF Watched

LEMMA WatchedTasks == Watched \subseteq Tasks
BY ConstantsAssumption DEF Watched

(* A task that ended stays so. *)
LEMMA EndedStays ==
  ASSUME TypeInv, [Next]_vars, NEW t \in Tasks, Ended(t) PROVE Ended(t)'
<1>1. PICK k \in 1..MaxStarts : agent[<<t, k>>] \in {"ended", "gone"}
  BY DEF Ended
<1>2. AgentChange(<<t, k>>)
  BY AgentSteps DEF Sessions
<1>3. agent'[<<t, k>>] \in {"ended", "gone"}
  BY <1>1, <1>2 DEF AgentChange
<1> QED BY <1>3 DEF Ended

LEMMA DepsAreTasks == \A t \in Tasks : DependsOn(t) \subseteq Tasks
BY DEF DependsOn, Steps

\* The task t was just given the session its row names.
JustStarted(t) ==
  /\ row'[t].status = "RUNNING" /\ row'[t].startedAt = Fresh
  /\ row'[t].session \in Sessions /\ row'[t].session[1] = t
  /\ agent'[row'[t].session] = "prompted"

\* The session the row of t names is over.
JustCompleted(t) ==
  /\ row'[t].status = "COMPLETED"
  /\ row'[t].session \in Sessions /\ row'[t].session[1] = t
  /\ agent'[row'[t].session] \in {"ended", "gone"}

\* The task t is taken for running, or for failed or cancelled.
JustMarked(t) ==
  /\ row'[t].status \notin {"PENDING", "COMPLETED"} /\ row'[t].session = row[t].session
  /\ row'[t].status = "RUNNING" => row'[t].startedAt = Fresh

JustAged(t) ==
  /\ row'[t] = [row[t] EXCEPT !.startedAt = Older(@)]
  /\ \A s \in Sessions : agent[s] # "prompted" /\ agent'[s] = agent[s]

\* What a step may do to a row.
RowChange(t) ==
  \/ row'[t] \in {row[t], NoRow, NewRow}
  \/ JustStarted(t) \/ JustCompleted(t) \/ JustMarked(t) \/ JustAged(t)

\* The row r with the mark of dispatchTask.
Marked(r) == [r EXCEPT !.status = "RUNNING", !.startedAt = Fresh]

LEMMA MarkRows ==
  ASSUME NEW rows \in [Tasks -> Rows], NEW b, NEW t \in Tasks
  PROVE  MarkRunning(rows, b)[t] \in {rows[t], Marked(rows[t])}
BY DEF MarkRunning, Updated, Marked

LEMMA MarkedRow ==
  ASSUME NEW r \in Rows
  PROVE  /\ Marked(r).status = "RUNNING" /\ Marked(r).startedAt = Fresh
         /\ Marked(r).session = r.session
BY DEF Marked, Rows

LEMMA DispatchRows ==
  ASSUME TypeInv, NEW d \in Dispatchers, Dispatch(d), NEW t \in Tasks PROVE RowChange(t)
<1> DEFINE b == BatchOf(row, FreeSlots(row))
<1>1. row' = MarkRunning(row, b)
  BY DEF Dispatch
<1>2. row[t] \in Rows
  BY DEF TypeInv
<1> HIDE DEF b
<1>3. row'[t] \in {row[t], Marked(row[t])}
  BY <1>1, MarkRows DEF TypeInv
<1> QED BY <1>2, <1>3, MarkedRow DEF RowChange, JustMarked

LEMMA CreatedRows ==
  ASSUME TypeInv, BatchReady, NEW d \in Dispatchers, SessionCreated(d),
         NEW t \in Tasks, t \in Watched
  PROVE  RowChange(t)
<1> DEFINE h == Head(dispatcher[d]).task
           listed == Head(dispatcher[d]).startedAt
<1>1. PICK s \in Sessions :
        /\ NextSession(h, s)
        /\ row' = MarkRunning(Updated(row, h, StartedRow(h, listed, s)), Tail(dispatcher[d]))
        /\ agent' = [agent EXCEPT ![s] = "prompted"]
  BY DEF SessionCreated
<1>2. h \in Tasks /\ listed \in Ages \cup {Never} /\ (h = t => listed = Never)
  <2>1. dispatcher[d] # <<>> /\ BatchTyped(dispatcher[d])
    BY DEF SessionCreated, TypeInv, Idle
  <2>2. Head(dispatcher[d]) = dispatcher[d][1] /\ 1 \in DOMAIN dispatcher[d]
    BY <2>1, TailType
  <2> QED BY <2>2, HeadType DEF SessionCreated, BatchReady
<1>3. s[1] = h
  BY <1>1 DEF NextSession
<1>4. agent'[s] = "prompted"
  BY <1>1 DEF TypeInv
<1> DEFINE rows == Updated(row, h, StartedRow(h, listed, s))
<1> HIDE DEF h, listed
<1>5. StartedRow(h, listed, s) \in Rows
  BY <1>2, StartedRowType
<1>6. rows \in [Tasks -> Rows]
  BY <1>2, <1>5, UpdatedType DEF TypeInv
<1>7. row[h] \in Rows /\ row[t] \in Rows
  BY <1>2 DEF TypeInv
<1>8. \/ rows[t] = row[t]
      \/ t = h /\ rows[t] = StartedRow(h, listed, s)
  BY <1>2 DEF Updated, TypeInv
<1>9. /\ StartedRow(h, listed, s).status = "RUNNING" /\ StartedRow(h, listed, s).session = s
      /\ h = t => StartedRow(h, listed, s).startedAt = Fresh
  BY <1>2, <1>7 DEF StartedRow, Rows
<1>10. row'[t] \in {rows[t], Marked(rows[t])}
  BY <1>1, <1>6, MarkRows
<1> HIDE DEF rows
<1>11. CASE rows[t] = row[t]
  BY <1>7, <1>10, <1>11, MarkedRow DEF RowChange, JustMarked
<1>12. CASE t = h /\ rows[t] = StartedRow(h, listed, s)
  <2>1. rows[t] \in Rows
    BY <1>6
  <2>2. row'[t].status = "RUNNING" /\ row'[t].session = s /\ row'[t].startedAt = Fresh
    BY <1>9, <1>10, <1>12, <2>1, MarkedRow
  <2> QED BY <1>3, <1>4, <1>12, <2>2 DEF RowChange, JustStarted
<1> QED BY <1>8, <1>11, <1>12

LEMMA StartFailedRows ==
  ASSUME TypeInv, NEW d \in Dispatchers, StartFailed(d), NEW t \in Tasks PROVE RowChange(t)
<1> DEFINE h == Head(dispatcher[d]).task
           rows == Updated(row, h, [row[h] EXCEPT !.status = "FAILED"])
<1>1. row' = MarkRunning(rows, Tail(dispatcher[d])) /\ h \in Tasks
  BY HeadType DEF StartFailed
<1> HIDE DEF h
<1>2. row[h] \in Rows /\ row[t] \in Rows
  BY <1>1 DEF TypeInv
<1>3. [row[h] EXCEPT !.status = "FAILED"] \in Rows
  BY <1>2 DEF Rows, Status
<1>4. rows \in [Tasks -> Rows]
  BY <1>1, <1>3, UpdatedType DEF TypeInv
<1>5. rows[t] = row[t] \/ rows[t] = [row[t] EXCEPT !.status = "FAILED"]
  BY <1>1 DEF Updated, TypeInv
<1> HIDE DEF rows
<1>6. row'[t] \in {rows[t], Marked(rows[t])}
  BY <1>1, <1>4, MarkRows
<1> QED BY <1>2, <1>4, <1>5, <1>6, MarkedRow DEF RowChange, JustMarked, Rows

(* checkCompletions takes no session that still works for a finished one. *)
LEMMA CheckRows ==
  ASSUME TypeInv, SessionOfTask, PromptFresh, CheckCompletions, NEW t \in Tasks, t \in Watched
  PROVE  RowChange(t)
<1> DEFINE r1 == ByMap(t, row[t])
           r2 == ByRow(r1)
<1>1. row'[t] = ByStaleness(ByOrphan(r2)) /\ UNCHANGED agent
  BY DEF CheckCompletions
<1>2. row[t] \in Rows /\ r1 \in Rows
  BY ByMapType DEF TypeInv
<1>3. CASE r1 # row[t]
  <2>1. PICK k \in Left(t) : r1 = [row[t] EXCEPT !.status = "COMPLETED", !.session = <<t, k>>]
    BY <1>2, <1>3, ByMapType
  <2>2. r1.status = "COMPLETED" /\ r1.session = <<t, k>>
    BY <1>2, <2>1 DEF Rows
  <2>3. <<t, k>> \in Sessions /\ agent[<<t, k>>] = "gone"
    BY <2>1 DEF Left, TypeInv
  <2>4. row'[t] = r1
    BY <1>1, <2>2 DEF ByRow, ByOrphan, ByStaleness, IsRunning, IsOrphaned, IsStale
  <2> QED BY <1>1, <2>2, <2>3, <2>4 DEF RowChange, JustCompleted
<1>4. CASE r1 = row[t] /\ IsRunning(row[t]) /\ SessionOver(row[t])
  <2>1. row[t].session \in Sessions /\ row[t].session[1] = t /\ agent[row[t].session] # "none"
    BY <1>2, <1>4 DEF IsRunning, SessionOfTask, Rows
  <2>2. agent[row[t].session] \in {"ended", "gone"}
    <3>1. CASE agent[row[t].session] = "gone"
      BY <3>1
    <3>2. CASE ~IsSessionStreaming(row[t].session) /\ row[t].startedAt # Fresh
      <4>1. agent[row[t].session] # "working"
        BY <2>1, <3>2 DEF IsSessionStreaming, Watched
      <4>2. agent[row[t].session] # "prompted"
        BY <1>4, <3>2 DEF PromptFresh
      <4> QED BY <2>1, <4>1, <4>2 DEF TypeInv, AgentState
    <3> QED BY <1>4, <3>1, <3>2 DEF SessionOver
  <2>3. r2 = [row[t] EXCEPT !.status = "COMPLETED"]
    BY <1>4 DEF ByRow
  <2>4. r2.status = "COMPLETED" /\ r2.session = row[t].session
    BY <1>2, <2>3 DEF Rows
  <2>5. row'[t] = r2
    BY <1>1, <2>4 DEF ByOrphan, ByStaleness, IsRunning, IsOrphaned, IsStale
  <2> QED BY <1>1, <2>1, <2>2, <2>4, <2>5 DEF RowChange, JustCompleted
<1>5. CASE r1 = row[t] /\ ~(IsRunning(row[t]) /\ SessionOver(row[t]))
  <2>1. r2 = row[t]
    BY <1>5 DEF ByRow
  <2>2. row'[t] = row[t] \/ row'[t] = [row[t] EXCEPT !.status = "FAILED"]
    BY <1>1, <1>2, <2>1 DEF ByOrphan, ByStaleness, IsStale, IsRunning, Rows
  <2> QED BY <1>2, <2>2 DEF RowChange, JustMarked, Rows
<1> QED BY <1>3, <1>4, <1>5

LEMMA RowSteps ==
  ASSUME TypeInv, OrderInv, [Next]_vars
  PROVE  \A t \in Watched' : t \in Watched /\ t \in Tasks /\ RowChange(t)
<1> SUFFICES ASSUME NEW t \in Tasks, t \in Watched, t \in Watched' PROVE RowChange(t)
  BY WatchedSteps, WatchedTasks
<1>1. CASE row'[t] = row[t]
  BY <1>1 DEF RowChange
<1>2. CASE Trigger \/ \E u \in Tasks : Post(u)
  BY <1>2 DEF Trigger, Post, RowChange, TypeInv
<1>3. CASE \E u \in Tasks : Cancel(u) \/ Delete(u)
  <2>1. row[t] \in Rows
    BY DEF TypeInv
  <2>2. row'[t] \in {row[t], NoRow, [row[t] EXCEPT !.status = "CANCELLED"]}
    BY <1>3 DEF Cancel, Delete, TypeInv
  <2> QED BY <2>1, <2>2 DEF RowChange, JustMarked, Rows
<1>4. CASE \E u \in Tasks : Retry(u)
  <2>1. PICK u \in Tasks : Retry(u)
    BY <1>4
  <2>2. u # t
    BY <2>1 DEF Retry, Watched
  <2> QED BY <1>1, <2>1, <2>2 DEF Retry, TypeInv
<1>5. CASE \E u \in Tasks : FinishEdit(u)
  <2>1. PICK u \in Tasks : FinishEdit(u)
    BY <1>5
  <2>2. CASE u # t
    BY <1>1, <2>1, <2>2 DEF FinishEdit, TypeInv
  <2>3. CASE u = t
    <3>1. Saved(t, editor[t]) = NewRow
      BY <2>1, <2>3 DEF FinishEdit, Watched
    <3>2. row'[t] = NewRow
      BY <2>1, <2>3, <3>1 DEF FinishEdit, TypeInv
    <3> QED BY <3>2 DEF RowChange
  <2> QED BY <2>2, <2>3
<1>6. CASE \E d \in Dispatchers : Dispatch(d) \/ SessionCreated(d) \/ StartFailed(d)
  BY <1>6, DispatchRows, CreatedRows, StartFailedRows DEF OrderInv
<1>7. CASE \E s \in Sessions : CompleteTurn(s)
  <2>1. PICK s \in Sessions : CompleteTurn(s)
    BY <1>7
  <2>2. CASE t \notin TasksOf(s)
    BY <2>1, <2>2 DEF CompleteTurn, RowChange
  <2>3. CASE t \in TasksOf(s)
    <3>1. row[t] \in Rows /\ row[t].session = s
      BY <2>3 DEF TasksOf, TypeInv
    <3>2. s[1] = t
      <4>1. s # NoSession
        BY ConstantsAssumption
      <4> QED BY <3>1, <4>1 DEF OrderInv, SessionOfTask
    <3>3. row'[t].status = "COMPLETED" /\ row'[t].session = s
      BY <2>1, <2>3, <3>1 DEF CompleteTurn, Rows
    <3>4. agent'[s] = "ended"
      BY <2>1 DEF CompleteTurn, TypeInv
    <3> QED BY <3>2, <3>3, <3>4 DEF RowChange, JustCompleted
  <2> QED BY <2>2, <2>3
<1>8. CASE CheckCompletions
  BY <1>8, CheckRows DEF OrderInv
<1>9. CASE Elapse
  BY <1>9 DEF Elapse, RowChange, JustAged
<1>10. CASE UNCHANGED row
  BY <1>1, <1>10
<1>11. CASE \/ UNCHANGED vars \/ \E u \in Tasks : BeginEdit(u)
            \/ \E s \in Sessions : BeginTurn(s) \/ BreakOff(s) \/ RemoveSession(s)
            \/ Crash
  BY <1>10, <1>11 DEF vars, BeginEdit, BeginTurn, BreakOff, RemoveSession, Crash
<1> QED BY <1>2, <1>3, <1>4, <1>5, <1>6, <1>7, <1>8, <1>9, <1>11 DEF Next

(* The invariants of the rows, from what a step may do to a row. *)
LEMMA SessionOfTaskStep ==
  ASSUME TypeInv, OrderInv, [Next]_vars PROVE SessionOfTask'
<1> SUFFICES ASSUME NEW t \in Watched', row'[t].session # NoSession
             PROVE  row'[t].session[1] = t /\ agent'[row'[t].session] # "none"
  BY DEF SessionOfTask
<1>1. t \in Watched /\ t \in Tasks /\ row[t] \in Rows /\ RowChange(t)
  BY RowSteps DEF TypeInv
<1>2. CASE JustStarted(t) \/ JustCompleted(t)
  BY <1>2 DEF JustStarted, JustCompleted
<1>3. CASE row'[t].session = row[t].session
  <2>1. row[t].session \in Sessions /\ row[t].session[1] = t /\ agent[row[t].session] # "none"
    BY <1>1, <1>3 DEF OrderInv, SessionOfTask, Rows
  <2>2. AgentChange(row[t].session)
    BY <2>1, AgentSteps
  <2> QED BY <1>3, <2>1, <2>2 DEF AgentChange
<1>4. CASE row'[t] \in {NoRow, NewRow}
  BY <1>4 DEF NoRow, NewRow
<1>5. JustAged(t) => row'[t].session = row[t].session
  BY <1>1 DEF JustAged, Rows
<1> QED BY <1>1, <1>2, <1>3, <1>4, <1>5 DEF RowChange, JustMarked

LEMMA PromptFreshStep ==
  ASSUME TypeInv, OrderInv, [Next]_vars PROVE PromptFresh'
<1> SUFFICES ASSUME NEW t \in Watched', IsRunning(row'[t]), agent'[row'[t].session] = "prompted",
                    row'[t].startedAt # Fresh
             PROVE  FALSE
  BY DEF PromptFresh, IsRunning
<1>1. t \in Watched /\ t \in Tasks /\ row[t] \in Rows /\ RowChange(t)
  BY RowSteps DEF TypeInv
<1>2. row'[t].status = "RUNNING" /\ row'[t].session # NoSession
  BY DEF IsRunning
<1>3. ~(JustStarted(t) \/ JustCompleted(t) \/ JustMarked(t))
  BY <1>2 DEF JustStarted, JustCompleted, JustMarked
<1>4. row'[t] \notin {NoRow, NewRow}
  BY <1>2 DEF NoRow, NewRow
<1>5. CASE row'[t] = row[t]
  <2>1. row[t].session \in Sessions /\ agent[row[t].session] \notin {"none", "prompted"}
    BY <1>1, <1>2, <1>5 DEF OrderInv, SessionOfTask, PromptFresh, Rows, IsRunning
  <2>2. AgentChange(row[t].session)
    BY <2>1, AgentSteps
  <2> QED BY <1>5, <2>1, <2>2 DEF AgentChange
<1>6. CASE JustAged(t)
  <2>1. row'[t].session = row[t].session /\ row[t].session \in Sessions
    BY <1>1, <1>2, <1>6 DEF JustAged, Rows
  <2> QED BY <1>6, <2>1 DEF JustAged
<1> QED BY <1>1, <1>3, <1>4, <1>5, <1>6 DEF RowChange

LEMMA AgedNew ==
  /\ [NoRow EXCEPT !.startedAt = Older(@)] = NoRow
  /\ [NewRow EXCEPT !.startedAt = Older(@)] = NewRow
BY DEF NoRow, NewRow, Older

LEMMA PendingNewStep ==
  ASSUME TypeInv, OrderInv, [Next]_vars PROVE PendingNew'
<1> SUFFICES ASSUME NEW t \in Watched'
             PROVE  /\ row'[t].status = "PENDING" => row'[t] = NewRow
                    /\ editor'[t] \in {NoRow, NewRow}
  BY DEF PendingNew
<1>1. t \in Watched /\ t \in Tasks /\ row[t] \in Rows /\ RowChange(t)
  BY RowSteps DEF TypeInv
<1>2. ASSUME row'[t].status = "PENDING" PROVE row'[t] = NewRow
  <2>1. ~(JustStarted(t) \/ JustCompleted(t) \/ JustMarked(t))
    BY <1>2 DEF JustStarted, JustCompleted, JustMarked
  <2>2. row'[t] # NoRow
    BY <1>2, NewRowType
  <2>3. CASE row'[t] = row[t]
    BY <1>1, <1>2, <2>3 DEF OrderInv, PendingNew
  <2>4. CASE JustAged(t)
    <3>1. row[t].status = "PENDING"
      BY <1>1, <1>2, <2>4 DEF JustAged, Rows
    <3>2. row[t] = NewRow
      BY <1>1, <3>1 DEF OrderInv, PendingNew
    <3> QED BY <2>4, <3>2, AgedNew DEF JustAged
  <2> QED BY <1>1, <2>1, <2>2, <2>3, <2>4 DEF RowChange
<1>3. editor'[t] \in {NoRow, NewRow}
  <2>1. editor[t] \in {NoRow, NewRow}
    BY <1>1 DEF OrderInv, PendingNew
  <2>2. CASE \E u \in Tasks : BeginEdit(u) \/ FinishEdit(u)
    BY <1>1, <2>1, <2>2 DEF BeginEdit, FinishEdit, TypeInv, OrderInv, PendingNew
  <2>3. CASE Elapse
    BY <1>1, <2>1, <2>3, AgedNew DEF Elapse
  <2>4. CASE Crash
    BY <1>1, <2>4 DEF Crash
  <2>5. CASE UNCHANGED editor
    BY <2>1, <2>5
  <2>6. CASE ~ \/ \E u \in Tasks : BeginEdit(u) \/ FinishEdit(u)
               \/ Elapse \/ Crash
    <3>1. UNCHANGED editor
      BY <2>6 DEF Next, vars, Trigger, Post, Cancel, Delete, Retry, Dispatch, SessionCreated,
         StartFailed, BeginTurn, CompleteTurn, BreakOff, RemoveSession, CheckCompletions
    <3> QED BY <2>5, <3>1
  <2> QED BY <2>2, <2>3, <2>4, <2>6
<1> QED BY <1>2, <1>3

LEMMA SessionEnded ==
  ASSUME NEW t \in Tasks, NEW s \in Sessions, s[1] = t, agent'[s] \in {"ended", "gone"}
  PROVE  Ended(t)'
<1>1. s = <<t, s[2]>> /\ s[2] \in 1..MaxStarts
  BY DEF Sessions
<1> QED BY <1>1 DEF Ended

LEMMA CompletedTasksStep ==
  ASSUME TypeInv, OrderInv, [Next]_vars PROVE CompletedTasks'
<1> SUFFICES ASSUME NEW t \in Watched', row'[t].status = "COMPLETED" PROVE Ended(t)'
  BY DEF CompletedTasks
<1>1. t \in Watched /\ t \in Tasks /\ row[t] \in Rows /\ RowChange(t)
  BY RowSteps DEF TypeInv
<1>2. CASE JustCompleted(t)
  BY <1>1, <1>2, SessionEnded DEF JustCompleted
<1>3. CASE row[t].status = "COMPLETED"
  BY <1>1, <1>3, EndedStays DEF OrderInv, CompletedTasks
<1>4. JustAged(t) => row[t].status = "COMPLETED"
  BY <1>1 DEF JustAged, Rows
<1>5. row'[t] \notin {NoRow, NewRow}
  BY NewRowType
<1> QED BY <1>1, <1>2, <1>3, <1>4, <1>5 DEF RowChange, JustStarted, JustMarked

-----------------------------------------------------------------------------
\* What a step may do to a batch: an item is one of before, older maybe, or listed as ready.
ItemChange(item) ==
  \/ \E d \in Dispatchers : \E i \in DOMAIN dispatcher[d] :
       /\ item.task = dispatcher[d][i].task
       /\ item.startedAt \in {dispatcher[d][i].startedAt, Older(dispatcher[d][i].startedAt)}
  \/ item.task \in ReadyToRun(row) /\ item.startedAt = row[item.task].startedAt

LEMMA DispatchItems ==
  ASSUME TypeInv, NEW d \in Dispatchers, Dispatch(d),
         NEW i \in DOMAIN dispatcher'[d]
  PROVE  ItemChange(dispatcher'[d][i])
<1> DEFINE b == BatchOf(row, FreeSlots(row))
<1>1. dispatcher'[d] = NextOfBatch(row, b)
  BY DEF Dispatch, TypeInv
<1>2. \A j \in DOMAIN b : b[j].task \in ReadyToRun(row) /\ b[j].startedAt = row[b[j].task].startedAt
  BY FreeSlotsType, BatchOfType DEF TypeInv
<1> HIDE DEF b
<1>3. dispatcher'[d] = b
  BY <1>1, EmptyBatch DEF NextOfBatch
<1> QED BY <1>2, <1>3 DEF ItemChange

LEMMA FinishedItems ==
  ASSUME TypeInv, NEW d \in Dispatchers, SessionCreated(d) \/ StartFailed(d),
         NEW i \in DOMAIN dispatcher'[d]
  PROVE  ItemChange(dispatcher'[d][i])
<1>1. dispatcher'[d] \in {Idle, Tail(dispatcher[d])} /\ dispatcher[d] # <<>>
  BY DEF SessionCreated, StartFailed, NextOfBatch, TypeInv, Idle
<1>2. dispatcher'[d] = Tail(dispatcher[d])
  BY <1>1, EmptyBatch
<1>3. i + 1 \in DOMAIN dispatcher[d] /\ dispatcher'[d][i] = dispatcher[d][i + 1]
  BY <1>1, <1>2, TailType DEF TypeInv
<1> QED BY <1>3 DEF ItemChange

LEMMA ItemSteps ==
  ASSUME TypeInv, [Next]_vars
  PROVE  \A d \in Dispatchers : \A i \in DOMAIN dispatcher'[d] : ItemChange(dispatcher'[d][i])
<1> SUFFICES ASSUME NEW d \in Dispatchers, NEW i \in DOMAIN dispatcher'[d]
             PROVE  ItemChange(dispatcher'[d][i])
  OBVIOUS
<1>1. CASE dispatcher'[d] = dispatcher[d]
  BY <1>1 DEF ItemChange
<1>2. CASE \E o \in Dispatchers : Dispatch(o) \/ SessionCreated(o) \/ StartFailed(o)
  <2>1. PICK o \in Dispatchers : Dispatch(o) \/ SessionCreated(o) \/ StartFailed(o)
    BY <1>2
  <2>2. CASE o = d
    BY <2>1, <2>2, DispatchItems, FinishedItems
  <2>3. CASE o # d
    <3>1. dispatcher'[d] = dispatcher[d]
      BY <2>1, <2>3 DEF Dispatch, SessionCreated, StartFailed, TypeInv
    <3> QED BY <1>1, <3>1
  <2> QED BY <2>2, <2>3
<1>3. CASE Elapse
  <2>1. dispatcher'[d] = Aged(dispatcher[d])
    BY <1>3 DEF Elapse, Aged
  <2>2. i \in DOMAIN dispatcher[d]
        /\ dispatcher'[d][i].task = dispatcher[d][i].task
        /\ dispatcher'[d][i].startedAt = Older(dispatcher[d][i].startedAt)
    BY <2>1, AgedType DEF TypeInv
  <2> QED BY <2>2 DEF ItemChange
<1>4. CASE Crash
  BY <1>4, EmptyBatch DEF Crash
<1>5. CASE ~ \/ \E o \in Dispatchers : Dispatch(o) \/ SessionCreated(o) \/ StartFailed(o)
             \/ Elapse \/ Crash
  <2>1. UNCHANGED dispatcher
    BY <1>5 DEF Next, vars, Trigger, Post, Cancel, Delete, Retry, BeginEdit, FinishEdit,
       BeginTurn, CompleteTurn, BreakOff, RemoveSession, CheckCompletions
  <2> QED BY <1>1, <2>1
<1> QED BY <1>2, <1>3, <1>4, <1>5

LEMMA DepsStay ==
  ASSUME TypeInv, [Next]_vars, NEW t \in Tasks, EndedDeps(t) PROVE EndedDeps(t)'
<1>1. \A u \in DependsOn(t) \cap Watched' : Ended(u)'
  BY DepsAreTasks, EndedStays, WatchedSteps DEF EndedDeps
<1> QED BY <1>1 DEF EndedDeps, DependsOn, SameGroup, Steps

LEMMA BatchReadyStep ==
  ASSUME TypeInv, OrderInv, [Next]_vars PROVE BatchReady'
<1> SUFFICES ASSUME NEW d \in Dispatchers, NEW i \in DOMAIN dispatcher'[d]
             PROVE  /\ dispatcher'[d][i].task \in Watched' => dispatcher'[d][i].startedAt = Never
                    /\ \A u \in DependsOn(dispatcher'[d][i].task) \cap Watched' : Ended(u)'
  BY DEF BatchReady, EndedDeps, DependsOn, SameGroup, Steps
<1> DEFINE item == dispatcher'[d][i]
<1>1. ItemChange(item)
  BY ItemSteps
<1> HIDE DEF item
<1>2. Older(Never) = Never
  BY DEF Older
<1>3. /\ item.task \in Watched => item.startedAt = Never
      /\ item.task \in Tasks /\ EndedDeps(item.task)
  <2>1. CASE \E o \in Dispatchers : \E j \in DOMAIN dispatcher[o] :
               /\ item.task = dispatcher[o][j].task
               /\ item.startedAt \in {dispatcher[o][j].startedAt,
                                      Older(dispatcher[o][j].startedAt)}
    <3>1. PICK o \in Dispatchers : \E j \in DOMAIN dispatcher[o] :
               /\ item.task = dispatcher[o][j].task
               /\ item.startedAt \in {dispatcher[o][j].startedAt,
                                      Older(dispatcher[o][j].startedAt)}
      BY <2>1
    <3>2. PICK j \in DOMAIN dispatcher[o] :
               /\ item.task = dispatcher[o][j].task
               /\ item.startedAt \in {dispatcher[o][j].startedAt,
                                      Older(dispatcher[o][j].startedAt)}
      BY <3>1
    <3>3. dispatcher[o][j] \in BatchItem
      BY DEF TypeInv
    <3>4. /\ dispatcher[o][j].task \in Watched => dispatcher[o][j].startedAt = Never
          /\ EndedDeps(dispatcher[o][j].task)
      BY DEF OrderInv, BatchReady
    <3> QED BY <1>2, <3>2, <3>3, <3>4 DEF BatchItem
  <2>2. CASE item.task \in ReadyToRun(row) /\ item.startedAt = row[item.task].startedAt
    <3>1. /\ item.task \in Tasks /\ row[item.task].status = "PENDING"
          /\ \A u \in DependsOn(item.task) : row[u].status = "COMPLETED"
      BY <2>2 DEF ReadyToRun
    <3>2. item.task \in Watched => item.startedAt = Never
      BY <2>2, <3>1 DEF OrderInv, PendingNew, NewRow, NoRow
    <3>3. EndedDeps(item.task)
      BY <3>1, DepsAreTasks DEF EndedDeps, OrderInv, CompletedTasks
    <3> QED BY <3>1, <3>2, <3>3
  <2> QED BY <1>1, <2>1, <2>2 DEF ItemChange
<1>4. \A u \in DependsOn(item.task) \cap Watched' : Ended(u)'
  BY <1>3, DepsAreTasks, EndedStays, WatchedSteps DEF EndedDeps
<1> QED BY <1>3, <1>4, WatchedSteps DEF item

LEMMA StepsInSequenceStep ==
  ASSUME TypeInv, OrderInv, [Next]_vars PROVE StepsInSequence'
<1> SUFFICES ASSUME NEW t \in Tasks, Started(t)' PROVE EndedDeps(t)'
  BY DEF StepsInSequence, EndedDeps
<1>1. PICK k \in 1..MaxStarts : agent'[<<t, k>>] # "none"
  BY DEF Started
<1>2. AgentChange(<<t, k>>)
  BY AgentSteps DEF Sessions
<1>3. CASE agent[<<t, k>>] # "none"
  <2>1. Started(t)
    BY <1>3 DEF Started
  <2>2. EndedDeps(t)
    BY <2>1 DEF OrderInv, StepsInSequence, EndedDeps
  <2> QED BY <2>2, DepsStay
<1>4. CASE agent[<<t, k>>] = "none"
  <2>1. PICK d \in Dispatchers : dispatcher[d] # Idle /\ Head(dispatcher[d]).task = t
    BY <1>1, <1>2, <1>4 DEF AgentChange
  <2>2. Head(dispatcher[d]) = dispatcher[d][1] /\ 1 \in DOMAIN dispatcher[d]
    BY <2>1, TailType DEF TypeInv, Idle
  <2>3. EndedDeps(t)
    BY <2>1, <2>2 DEF OrderInv, BatchReady
  <2> QED BY <2>3, DepsStay
<1> QED BY <1>3, <1>4

LEMMA OrderInit == Init => OrderInv
<1> SUFFICES ASSUME Init PROVE OrderInv
  OBVIOUS
<1>1. SessionOfTask /\ PromptFresh /\ PendingNew /\ CompletedTasks
  BY NewRowType, WatchedTasks
     DEF Init, SessionOfTask, PromptFresh, PendingNew, CompletedTasks, IsRunning, NoRow
<1>2. BatchReady
  BY EmptyBatch DEF Init, BatchReady
<1>3. StepsInSequence
  BY DEF Init, StepsInSequence, Started, Sessions
<1> QED BY <1>1, <1>2, <1>3 DEF OrderInv

LEMMA OrderStep ==
  ASSUME TypeInv, OrderInv, [Next]_vars PROVE OrderInv'
BY SessionOfTaskStep, PendingNewStep, PromptFreshStep, BatchReadyStep, CompletedTasksStep,
   StepsInSequenceStep DEF OrderInv

LEMMA OrderInvariant == Spec => []OrderInv
<1>1. TypeInv /\ OrderInv /\ [Next]_vars => OrderInv'
  BY OrderStep
<1> QED BY <1>1, OrderInit, TypeInvariant, PTL DEF Spec

(* No agent works on a step before an agent of every watched step it depends  *)
(* on has ended (listReadyToRun), for every number of steps, of overlapping    *)
(* calls of dispatchPending, of edits, retries and crashes.                    *)
THEOREM StepsInSequenceCorrect == Spec => []StepsInSequence
<1>1. OrderInv => StepsInSequence
  BY DEF OrderInv
<1> QED BY <1>1, OrderInvariant, PTL

(* What completes a task puts none back. *)
LEMMA CompletingKeepsWatched ==
  ASSUME TypeInv, [Next]_vars, NEW t \in Watched,
         row'[t].status = "COMPLETED", row[t].status # "COMPLETED"
  PROVE  t \in Watched'
<1>1. t \in Tasks
  BY WatchedTasks
<1>2. CASE \E u \in Tasks : Retry(u) \/ FinishEdit(u)
  <2>1. PICK u \in Tasks : Retry(u) \/ FinishEdit(u)
    BY <1>2
  <2>2. u # t
    <3>1. Retry(t) => row'[t].status # "COMPLETED"
      BY <1>1 DEF Retry, TypeInv, Rows
    <3>2. FinishEdit(t) => row'[t].status # "COMPLETED"
      <4>1. FinishEdit(t) => row'[t].status = editor[t].status
        BY <1>1, SavedType DEF FinishEdit, TypeInv
      <4> QED BY <1>1, <4>1 DEF TypeInv
    <3> QED BY <2>1, <3>1, <3>2
  <2> QED BY <2>1, <2>2 DEF Retry, FinishEdit, Watched
<1>3. CASE ~ \E u \in Tasks : Retry(u) \/ FinishEdit(u)
  <2>1. UNCHANGED again
    BY <1>3 DEF Next, vars, Trigger, Post, Cancel, Delete, BeginEdit, Dispatch, SessionCreated,
       StartFailed, BeginTurn, CompleteTurn, BreakOff, RemoveSession, CheckCompletions,
       Elapse, Crash
  <2> QED BY <2>1 DEF Watched
<1> QED BY <1>2, <1>3

(* A watched task becomes COMPLETED only when the session its row names is    *)
(* over (checkCompletions, the notification handler), in every history.       *)
THEOREM CompletedEndedCorrect == Spec => CompletedEnded
<1> DEFINE Change == \A t \in Watched : CompletesEnded(t)
<1>1. ASSUME TypeInv, OrderInv, [Next]_vars PROVE Change
  <2> SUFFICES ASSUME NEW t \in Watched, row'[t].status = "COMPLETED", row[t].status # "COMPLETED"
               PROVE  /\ row'[t].session # NoSession
                      /\ agent'[row'[t].session] \in {"ended", "gone"}
    BY DEF CompletesEnded
  <2>0. t \in Watched'
    BY <1>1, CompletingKeepsWatched
  <2>1. row[t] \in Rows /\ RowChange(t)
    BY <1>1, <2>0, RowSteps DEF TypeInv
  <2>2. ~JustAged(t)
    BY <2>1 DEF JustAged, Rows
  <2>3. row'[t] \notin {row[t], NoRow, NewRow}
    BY NewRowType
  <2>4. JustCompleted(t)
    BY <2>1, <2>2, <2>3 DEF RowChange, JustStarted, JustMarked
  <2> QED BY <2>4, ConstantsAssumption DEF JustCompleted
<1>2. TypeInv /\ OrderInv /\ [Next]_vars => [Change]_vars
  BY <1>1
<1> HIDE DEF Change
<1>3. Spec => [][Change]_vars
  BY <1>2, OrderInvariant, TypeInvariant, PTL DEF Spec
<1> QED BY <1>3 DEF CompletedEnded, Change
=============================================================================
