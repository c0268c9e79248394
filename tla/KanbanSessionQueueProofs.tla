---------------------- MODULE KanbanSessionQueueProofs ----------------------
(* Type correctness of KanbanSessionQueue for every value of the constants,  *)
(* and its two properties for a board that starts one job at a time (Limit = *)
(* 1, the default) and cards that are left alone while they start, for any   *)
(* cards, columns, calls and drains.                                         *)
EXTENDS KanbanSessionQueue, NumberTheorems, FiniteSetTheorems, TLAPS

(* The first number of a set is one of it. *)
LEMMA FirstOfType ==
  ASSUME NEW T, T \subseteq Nat, T # {}
  PROVE  FirstOf(T) \in T /\ \A y \in T : FirstOf(T) <= y
BY LeastNumber DEF FirstOf

(* The table that Filter computes of the first k elements of q. *)
KeptAt(f, n, q, S) ==
  IF n = 0 THEN <<>>
  ELSE IF q[n] \in S THEN Append(f[n - 1], q[n]) ELSE f[n - 1]

Table(f, k, q, S) == f = [n \in 0..k |-> KeptAt(f, n, q, S)]

(* The equation of Filter has a solution. *)
LEMMA TableExists ==
  ASSUME NEW q, NEW S, NEW k \in Nat
  PROVE  \E f : Table(f, k, q, S)
<1> DEFINE Reached == {n \in Nat : \E f : Table(f, n, q, S)}
<1>1. 0 \in Reached
  <2>1. Table([n \in 0..0 |-> <<>>], 0, q, S)
    BY DEF Table, KeptAt
  <2> QED BY <2>1
<1>2. ASSUME NEW n \in Nat, n \in Reached PROVE n + 1 \in Reached
  <2>1. PICK f : Table(f, n, q, S)
    BY <1>2
  <2> DEFINE g == [m \in 0..(n + 1) |-> IF m = n + 1 THEN KeptAt(f, m, q, S)
                                        ELSE f[m]]
  <2>2. ASSUME NEW m \in 0..(n + 1) PROVE g[m] = KeptAt(g, m, q, S)
    <3>1. f[m] = KeptAt(f, m, q, S) \/ m = n + 1
      BY <2>1, SMT DEF Table
    <3>2. g[m] = KeptAt(f, m, q, S)
      BY <3>1
    <3>3. m = 0 \/ g[m - 1] = f[m - 1]
      BY SMT
    <3> QED BY <3>2, <3>3 DEF KeptAt
  <2>3. Table(g, n + 1, q, S)
    BY <2>2 DEF Table
  <2> QED BY <2>3
<1>3. Nat \subseteq Reached
  <2> HIDE DEF Reached
  <2> QED BY <1>1, <1>2, NumberInduction
<1> QED BY <1>3

(* A solution is a sequence of elements of q that are in S. *)
LEMMA TableElements ==
  ASSUME NEW T, NEW q \in Seq(T), NEW S, NEW f, Table(f, Len(q), q, S)
  PROVE  \A n \in 0..Len(q) : f[n] \in Seq({t \in T : t \in S /\ \E j \in DOMAIN q : q[j] = t})
<1> DEFINE Chosen == {t \in T : t \in S /\ \E j \in DOMAIN q : q[j] = t}
           Typed == {n \in Nat : n <= Len(q) => f[n] \in Seq(Chosen)}
<1>1. \A n \in 0..Len(q) : f[n] = KeptAt(f, n, q, S)
  BY DEF Table
<1>2. 0 \in Typed
  <2>1. f[0] = <<>>
    BY <1>1, SMT DEF KeptAt
  <2>2. <<>> \in Seq(Chosen)
    OBVIOUS
  <2> QED BY <2>1, <2>2
<1>3. ASSUME NEW n \in Nat, n \in Typed PROVE n + 1 \in Typed
  <2> HIDE DEF Chosen
  <2> SUFFICES ASSUME n + 1 <= Len(q) PROVE f[n + 1] \in Seq(Chosen)
    BY DEF Typed
  <2>1. f[n] \in Seq(Chosen) /\ n + 1 \in 0..Len(q) /\ n + 1 \in DOMAIN q
    BY <1>3, SMT
  <2>2. f[n + 1] = KeptAt(f, n + 1, q, S) /\ (n + 1) - 1 = n /\ n + 1 # 0
    BY <1>1, <2>1, SMT
  <2>3. q[n + 1] \in T
    BY <2>1
  <2>4. q[n + 1] \in S => q[n + 1] \in Chosen
    BY <2>1, <2>3 DEF Chosen
  <2> QED BY <2>1, <2>2, <2>4 DEF KeptAt
<1>4. Nat \subseteq Typed
  <2> HIDE DEF Typed
  <2> QED BY <1>2, <1>3, NumberInduction
<1> QED BY <1>4, SMT

(* Filter keeps elements of q that are in S. *)
LEMMA FilterElements ==
  ASSUME NEW T, NEW q \in Seq(T), NEW S
  PROVE  /\ Filter(q, S) \in Seq(T)
         /\ \A i \in DOMAIN Filter(q, S) :
              /\ Filter(q, S)[i] \in S
              /\ \E j \in DOMAIN q : q[j] = Filter(q, S)[i]
<1> DEFINE kept == CHOOSE f : Table(f, Len(q), q, S)
           Chosen == {t \in T : t \in S /\ \E j \in DOMAIN q : q[j] = t}
<1>1. Filter(q, S) = kept[Len(q)]
  BY DEF Filter, Table, KeptAt
<1>2. Table(kept, Len(q), q, S)
  BY TableExists
<1>3. kept[Len(q)] \in Seq(Chosen)
  <2> HIDE DEF kept, Chosen
  <2> QED BY <1>2, TableElements DEF Chosen
<1> HIDE DEF kept
<1>4. kept[Len(q)] \in Seq(T)
  BY <1>3
<1>5. \A i \in DOMAIN kept[Len(q)] : kept[Len(q)][i] \in Chosen
  <2> HIDE DEF Chosen
  <2> QED BY <1>3
<1> QED BY <1>1, <1>4, <1>5
-----------------------------------------------------------------------------
(* A process is starting a job. *)
Active(p) == pc[p] \in {"starting", "saving"}

(* A process that starts a job holds its entry and the task it read; a call  *)
(* starts its own entry, a drain has a slot left for the one it starts.      *)
StartTyped(p) ==
  /\ Active(p) <=> starting[p] # None
  /\ Active(p) => /\ entry[starting[p]] # None
                  /\ snapshot[p] \in Task
                  /\ p \in Call => starting[p] = p
                  /\ p \in Drain => running[p] < Limit

StartsTyped == \A p \in Process : StartTyped(p)

(* Every queued call has its entry. *)
KnownEntries == queue \in Seq(Known) /\ \A d \in Drain : held[d] \in Seq(Known)

(* The inductive invariant of type correctness. *)
TypeInv == TypeOK /\ StartsTyped /\ KnownEntries

LEMMA CountType ==
  ASSUME NEW js \in [Card -> Call \union {None}]
  PROVE  CountRunning(js) \in Nat
BY CardAssumption, FS_Subset, FS_CardinalityType DEF CountRunning

LEMMA ReconciledType ==
  ASSUME TypeInv
  PROVE  /\ ReconciledJobs \in [Card -> Call \union {None}]
         /\ ReconciledQueue \in Seq(Known)
         /\ \A c \in Card : WithoutCard(queue, c) \in Seq(Known)
         /\ \A q \in Seq(Known), c \in Card : WithoutCard(q, c) \in Seq(Known)
BY FilterElements
   DEF TypeInv, TypeOK, KnownEntries, ReconciledJobs, ReconciledQueue, WithoutCard

(* An entry that is added or changed leaves the known ones known. *)
LEMMA StillKnown ==
  ASSUME Known \subseteq Known', NEW q \in Seq(Known)
  PROVE  q \in Seq(Known') /\ q \in Seq(Call)
<1>1. \A i \in 1..Len(q) : q[i] \in Known
  OBVIOUS
<1> QED BY <1>1 DEF Known

(* A process whose own state an action leaves alone stays typed. *)
LEMMA StartFrame ==
  ASSUME TypeInv, Known \subseteq Known', NEW p \in Process,
         UNCHANGED <<pc[p], starting[p], snapshot[p]>>,
         p \in Drain => UNCHANGED running[p]
  PROVE  StartTyped(p)'
BY NoneAssumption DEF TypeInv, TypeOK, StartsTyped, StartTyped, Active, Known

LEMMA BeginStartType ==
  ASSUME TypeInv, NEW p \in Process, NEW e \in Call, NEW c \in Card, BeginStart(p, e, c)
  PROVE  /\ pc' \in [Process -> {"idle", "begin", "starting", "saving", "loop"}]
         /\ starting' \in [Process -> Call \union {None}]
         /\ snapshot' \in [Process -> Task \union {None}]
         /\ pc'[p] = "starting" /\ starting'[p] = e /\ snapshot'[p] \in Task
<1>1. task[c] \in Task
  BY DEF TypeInv, TypeOK
<1> QED
  BY <1>1 DEF BeginStart, TypeInv, TypeOK

LEMMA EnqueueType ==
  ASSUME TypeInv, NEW e \in Call, NEW c \in Card, NEW k \in Column, Enqueue(e, c, k)
  PROVE  TypeInv'
<1>1. /\ ReconciledJobs \in [Card -> Call \union {None}]
      /\ ReconciledQueue \in Seq(Known)
      /\ WithoutCard(ReconciledQueue, c) \in Seq(Known)
  BY ReconciledType
<1>2. /\ entry' \in [Call -> Entry \union {None}]
      /\ entry'[e] \in Entry /\ \A x \in Call : x # e => entry'[x] = entry[x]
  <2>1. PICK s \in {"queued", "running"} : NewEntry(e, c, k, s)
    BY DEF Enqueue
  <2>2. [card |-> c, column |-> k, status |-> s, sessionId |-> None] \in Entry
    BY DEF Entry
  <2> QED BY <2>1, <2>2 DEF NewEntry, TypeInv, TypeOK
<1>3. Known' = Known \union {e} /\ entry[e] = None
  BY <1>2, NoneAssumption DEF Known, Enqueue
<1>4. jobs' \in [Card -> Call \union {None}]
  BY <1>1 DEF Enqueue
<1>5. queue' \in Seq(Known') /\ queue' \in Seq(Call)
  <2>1. ReconciledQueue \in Seq(Known') /\ WithoutCard(ReconciledQueue, c) \in Seq(Known')
    BY <1>1, <1>3, StillKnown
  <2>2. queue' \in Seq(Known')
    <3>1. e \in Known'
      BY <1>3
    <3> QED BY <2>1, <3>1 DEF Enqueue
  <2>3. \A x \in Known' : x \in Call
    BY <1>3 DEF Known
  <2> QED BY <2>2, <2>3
<1>6. KnownEntries'
  BY <1>3, <1>5, StillKnown DEF Enqueue, drainVars, TypeInv, KnownEntries
<1>7. /\ pc' \in [Process -> {"idle", "begin", "starting", "saving", "loop"}]
      /\ starting' \in [Process -> Call \union {None}]
      /\ snapshot' \in [Process -> Task \union {None}]
  <2>1. UNCHANGED startVars \/ BeginStart(e, e, c)
    BY DEF Enqueue
  <2>2. CASE UNCHANGED startVars
    BY <2>2 DEF startVars, TypeInv, TypeOK
  <2>3. CASE BeginStart(e, e, c)
    BY <2>3, BeginStartType DEF Process
  <2> QED BY <2>1, <2>2, <2>3
<1>8. ASSUME NEW p \in Process PROVE StartTyped(p)'
  <2>1. CASE UNCHANGED <<pc[p], starting[p], snapshot[p]>>
    BY <1>3, <2>1, StartFrame DEF Enqueue, drainVars
  <2>2. CASE p = e /\ BeginStart(e, e, c)
    BY <1>2, <2>2, NoneAssumption, ProcessAssumption
       DEF BeginStart, StartTyped, Active, TypeInv, TypeOK, Process
  <2> QED BY <2>1, <2>2 DEF Enqueue, BeginStart, startVars, TypeInv, TypeOK
<1> QED
  BY <1>2, <1>4, <1>5, <1>6, <1>7, <1>8
     DEF Enqueue, taskVars, drainVars, TypeInv, TypeOK, StartsTyped

LEMMA ReconcileType == ASSUME TypeInv, Reconcile PROVE TypeInv'
<1>1. /\ ReconciledJobs \in [Card -> Call \union {None}]
      /\ ReconciledQueue \in Seq(Known) /\ ReconciledQueue \in Seq(Call)
  BY ReconciledType, StillKnown DEF Known
<1>2. StartsTyped'
  BY StartFrame DEF Reconcile, startVars, drainVars, StartsTyped, Known
<1> QED
  BY <1>1, <1>2 DEF Reconcile, taskVars, startVars, drainVars, TypeInv, TypeOK,
                    KnownEntries, Known

LEMMA RemoveType ==
  ASSUME TypeInv, NEW c \in Card, RemoveCardJob(c) PROVE TypeInv'
<1>1. WithoutCard(queue, c) \in Seq(Known) /\ WithoutCard(queue, c) \in Seq(Call)
  BY ReconciledType, StillKnown DEF Known
<1>2. StartsTyped'
  BY StartFrame DEF RemoveCardJob, startVars, drainVars, StartsTyped, Known
<1> QED
  BY <1>1, <1>2 DEF RemoveCardJob, taskVars, startVars, drainVars, TypeInv, TypeOK,
                    KnownEntries, Known

LEMMA CreateType ==
  ASSUME TypeInv, NEW p \in Process, CreateSession(p) PROVE TypeInv'
<1>1. starting[p] \in Call /\ StartTyped(p)'
  BY DEF CreateSession, drainVars, queueVars, TypeInv, TypeOK, StartsTyped,
         StartTyped, Active
<1>2. ASSUME NEW o \in Process, o # p PROVE StartTyped(o)'
  BY <1>2, StartFrame DEF CreateSession, drainVars, queueVars, TypeInv, TypeOK, Known
<1> QED
  BY <1>1, <1>2 DEF CreateSession, taskVars, queueVars, drainVars, TypeInv, TypeOK,
                    StartsTyped, KnownEntries, Known

(* The states of the processes after a start that is over. *)
LEMMA EndStartType ==
  ASSUME TypeInv, NEW p \in Process, EndStart(p)
  PROVE  /\ starting' \in [Process -> Call \union {None}]
         /\ snapshot' \in [Process -> Task \union {None}]
         /\ starting'[p] = None
         /\ \A o \in Process : o # p => UNCHANGED <<starting[o], snapshot[o]>>
BY DEF EndStart, TypeInv, TypeOK

LEMMA StartedType ==
  ASSUME TypeInv, NEW p \in Process, Active(p), NEW s \in Call, Started(p, s),
         task' \in [Card -> Task], UNCHANGED <<edits, session>>
  PROVE  TypeInv'
<1> DEFINE e == starting[p]
<1>1. e \in Call /\ entry[e] \in Entry
  BY DEF TypeInv, TypeOK, StartsTyped, StartTyped
<1>2. /\ entry' \in [Call -> Entry \union {None}]
      /\ Known' = Known
  <2>1. [entry[e] EXCEPT !.sessionId = s] \in Entry
    BY <1>1 DEF Entry
  <2>2. entry' = [entry EXCEPT ![e] = [entry[e] EXCEPT !.sessionId = s]]
    BY DEF Started
  <2>3. entry' \in [Call -> Entry \union {None}]
    BY <2>1, <2>2 DEF TypeInv, TypeOK
  <2>4. entry'[e] \in Entry /\ \A x \in Call : x # e => entry'[x] = entry[x]
    BY <1>1, <2>1, <2>2 DEF TypeInv, TypeOK
  <2> HIDE DEF e
  <2> QED BY <1>1, <2>3, <2>4, NoneAssumption DEF Known
<1>3. jobs' \in [Card -> Call \union {None}]
  BY <1>1 DEF Started, TypeInv, TypeOK
<1>4. /\ pc' \in [Process -> {"idle", "begin", "starting", "saving", "loop"}]
      /\ ~Active(p)'
      /\ \A o \in Process : o # p => UNCHANGED pc[o]
  BY DEF Started, Resume, Active, TypeInv, TypeOK
<1>5. /\ running' \in [Drain -> 0..Limit]
      /\ \A d \in Drain : d # p => UNCHANGED running[d]
  <2>1. p \in Drain => running[p] < Limit /\ running[p] \in 0..Limit
    BY DEF TypeInv, TypeOK, StartsTyped, StartTyped
  <2>2. p \in Drain => running[p] + 1 \in 0..Limit
    BY <2>1, LimitAssumption, SMT
  <2> QED BY <2>2 DEF Started, Counted, TypeInv, TypeOK
<1>6. EndStart(p) /\ UNCHANGED <<queue, held>>
  BY DEF Started, Counted
<1>7. ASSUME NEW o \in Process PROVE StartTyped(o)'
  <2>1. CASE o = p
    BY <1>4, <1>6, <2>1, EndStartType DEF StartTyped
  <2>2. CASE o # p
    BY <1>2, <1>4, <1>5, <1>6, <2>2, EndStartType, StartFrame
  <2> QED BY <2>1, <2>2
<1> QED
  BY <1>2, <1>3, <1>4, <1>5, <1>6, <1>7, EndStartType
     DEF TypeInv, TypeOK, StartsTyped, KnownEntries

LEMMA SaveTaskType ==
  ASSUME TypeInv, NEW p \in Process, Active(p), NEW t \in Call \union {None},
         task' = [task EXCEPT ![entry[starting[p]].card] = [snapshot[p] EXCEPT !.trigger = t]]
           \/ task' = [task EXCEPT ![entry[starting[p]].card] = [snapshot[p] EXCEPT !.on = FALSE]]
           \/ UNCHANGED task
  PROVE  task' \in [Card -> Task]
<1>1. snapshot[p] \in Task
  BY DEF TypeInv, StartsTyped, StartTyped
<1>2. /\ [snapshot[p] EXCEPT !.trigger = t] \in Task
      /\ [snapshot[p] EXCEPT !.on = FALSE] \in Task
  BY <1>1 DEF Task
<1> QED BY <1>2 DEF TypeInv, TypeOK

LEMMA AnsweredType ==
  ASSUME TypeInv, NEW p \in Process, AlreadyTriggered(p) PROVE TypeInv'
<1>1. Active(p) /\ snapshot[p] \in Task
  BY DEF AlreadyTriggered, Active, TypeInv, StartsTyped, StartTyped
<1>2. snapshot[p].trigger \in Call
  BY <1>1 DEF AlreadyTriggered, Task
<1> QED
  BY <1>1, <1>2, StartedType DEF AlreadyTriggered, taskVars, TypeInv, TypeOK

LEMMA SaveType ==
  ASSUME TypeInv, NEW p \in Process, SaveSession(p) PROVE TypeInv'
<1>1. Active(p) /\ starting[p] \in Call
  BY DEF SaveSession, Active, TypeInv, TypeOK, StartsTyped, StartTyped
<1>2. task' \in [Card -> Task]
  BY <1>1, SaveTaskType DEF SaveSession, SaveTask
<1> QED
  BY <1>1, <1>2, StartedType DEF SaveSession

LEMMA FailType ==
  ASSUME TypeInv, NEW p \in Process, NEW d \in Drain, FailStart(p, d) PROVE TypeInv'
<1>1. Active(p) /\ pc[d] = "idle" /\ d # p /\ EndStart(p)
  BY DEF FailStart, Active
<1>2. task' \in [Card -> Task]
  BY <1>1, SaveTaskType DEF FailStart, SaveTask
<1>3. /\ pc' \in [Process -> {"idle", "begin", "starting", "saving", "loop"}]
      /\ ~Active(p)' /\ ~Active(d)'
      /\ \A o \in Process \ {p, d} : UNCHANGED pc[o]
  BY <1>1 DEF FailStart, Active, TypeInv, TypeOK, Process
<1>4. starting[d] = None
  BY <1>1 DEF Active, TypeInv, StartsTyped, StartTyped, Process
<1>5. ASSUME NEW o \in Process PROVE StartTyped(o)'
  <2>1. CASE o \in {p, d}
    BY <1>1, <1>3, <1>4, <2>1, EndStartType DEF StartTyped, Process
  <2>2. CASE o \notin {p, d}
    BY <1>1, <1>3, <2>2, EndStartType, StartFrame DEF FailStart, drainVars, Known
  <2> QED BY <2>1, <2>2
<1> QED
  BY <1>1, <1>2, <1>3, <1>5, EndStartType
     DEF FailStart, drainVars, TypeInv, TypeOK, StartsTyped, KnownEntries, Known

LEMMA EndSessionType ==
  ASSUME TypeInv, NEW s \in Call, NEW d \in Drain, EndSession(s, d) PROVE TypeInv'
<1>1. /\ pc' \in [Process -> {"idle", "begin", "starting", "saving", "loop"}]
      /\ jobs' \in [Card -> Call \union {None}]
      /\ \A o \in Process \ {d} : UNCHANGED pc[o]
      /\ pc[d] = "idle" /\ pc'[d] \in {"idle", "begin"}
  BY DEF EndSession, TypeInv, TypeOK, Process
<1>2. ASSUME NEW o \in Process PROVE StartTyped(o)'
  <2>1. CASE o = d
    BY <1>1, <2>1 DEF EndSession, Active, StartTyped, TypeInv, StartsTyped
  <2>2. CASE o # d
    BY <1>1, <2>2, StartFrame DEF EndSession, drainVars, Known
  <2> QED BY <2>1, <2>2
<1> QED
  BY <1>1, <1>2 DEF EndSession, taskVars, drainVars, TypeInv, TypeOK, StartsTyped,
                    KnownEntries, Known

LEMMA EditType ==
  ASSUME TypeInv, NEW c \in Card, Edit(c) PROVE TypeInv'
<1>1. task' \in [Card -> Task]
  <2>1. task \in [Card -> Task] /\ task[c] \in Task
    BY DEF TypeInv, TypeOK
  <2>2. /\ \A k \in Column :
             [[task[c] EXCEPT !.column = k] EXCEPT !.trigger = None] \in Task
        /\ [task[c] EXCEPT !.on = FALSE] \in Task
        /\ [task[c] EXCEPT !.trigger = None] \in Task
    BY <2>1 DEF Task
  <2>3. \E t \in Task : task' = [task EXCEPT ![c] = t]
    BY <2>2 DEF Edit
  <2> QED BY <2>1, <2>3
<1>2. edits' \in 0..MaxEdits
  <2>1. edits \in 0..MaxEdits /\ edits < MaxEdits /\ edits' = edits + 1
    BY DEF Edit, TypeInv, TypeOK
  <2> QED BY <2>1, EditAssumption, SMT
<1>3. StartsTyped'
  BY StartFrame DEF Edit, startVars, drainVars, queueVars, StartsTyped, Known
<1> QED
  BY <1>1, <1>2, <1>3 DEF Edit, queueVars, startVars, drainVars, TypeInv, TypeOK,
                          KnownEntries, Known

(* The loop of a drain d, over an array q of known entries. *)
LEMMA LoopType ==
  ASSUME TypeInv, NEW d \in Drain, pc[d] \in {"begin", "loop"},
         NEW q \in Seq(Known), NEW n \in Nat, NEW js \in [Card -> Call \union {None}],
         NEW shared \in BOOLEAN, Loop(d, q, n, js, shared),
         UNCHANGED <<taskVars, session>>
  PROVE  TypeInv'
<1> DEFINE valid == {i \in DOMAIN q : ~Moved(q[i])}
           stop  == IF valid = {} THEN Len(q) ELSE FirstOf(valid) - 1
<1> HIDE DEF valid
<1>a. q \in Seq(Call)
  BY StillKnown DEF Known
<1>b. jobs' \in [Card -> Call \union {None}]
  BY DEF Loop
<1>c. starting[d] = None
  BY DEF Active, TypeInv, StartsTyped, StartTyped, Process
<1>1. CASE /\ queue' \in {q, <<>>}
           /\ pc' = [pc EXCEPT ![d] = "idle"]
           /\ held' = [held EXCEPT ![d] = <<>>]
           /\ running' = [running EXCEPT ![d] = 0]
           /\ UNCHANGED <<entry, starting, snapshot>>
  <2>1. Known' = Known
    BY <1>1 DEF Known
  <2>2. queue' \in Seq(Known) /\ queue' \in Seq(Call)
    <3>1. <<>> \in Seq(Known) /\ <<>> \in Seq(Call)
      OBVIOUS
    <3> QED BY <1>1, <1>a, <3>1
  <2>3. held' \in [Drain -> Seq(Call)] /\ \A o \in Drain : held'[o] \in Seq(Known)
    BY <1>1 DEF TypeInv, TypeOK, KnownEntries
  <2>4. running' \in [Drain -> 0..Limit]
    BY <1>1, LimitAssumption DEF TypeInv, TypeOK
  <2>5. /\ pc' \in [Process -> {"idle", "begin", "starting", "saving", "loop"}]
        /\ pc'[d] = "idle" /\ \A o \in Process : o # d => UNCHANGED pc[o]
    BY <1>1 DEF TypeInv, TypeOK, Process
  <2>6. ASSUME NEW o \in Process PROVE StartTyped(o)'
    <3>1. CASE o = d
      BY <1>1, <1>c, <2>5, <3>1 DEF StartTyped, Active
    <3>2. CASE o # d
      BY <1>1, <2>1, <2>5, <3>2, StartFrame DEF TypeInv, TypeOK
    <3> QED BY <3>1, <3>2
  <2> QED
    BY <1>1, <1>b, <2>1, <2>2, <2>3, <2>4, <2>5, <2>6
       DEF taskVars, TypeInv, TypeOK, StartsTyped, KnownEntries
<1>2. CASE /\ n < Limit /\ valid # {}
           /\ LET e == q[stop + 1]
                  rest == Rest(q, stop + 1)
              IN  /\ queue' = WithoutCard(IF shared THEN rest ELSE queue, entry[e].card)
                  /\ entry' = [entry EXCEPT ![e].status = "running"]
                  /\ held' = [held EXCEPT ![d] = rest]
                  /\ running' = [running EXCEPT ![d] = n]
                  /\ BeginStart(d, e, entry[e].card)
  <2> DEFINE e == q[stop + 1]
             rest == Rest(q, stop + 1)
  <2>1. stop \in Nat /\ stop + 1 \in DOMAIN q
    <3>1. valid \subseteq Nat /\ valid \subseteq DOMAIN q
      BY DEF valid
    <3>2. FirstOf(valid) \in valid
      BY <1>2, <3>1, FirstOfType
    <3>3. stop = FirstOf(valid) - 1
      BY <1>2
    <3>4. FirstOf(valid) \in DOMAIN q
      BY <3>1, <3>2
    <3>5. \A m \in DOMAIN q : m - 1 \in Nat /\ (m - 1) + 1 = m
      OBVIOUS
    <3> HIDE DEF stop
    <3> QED BY <3>3, <3>4, <3>5
  <2> HIDE DEF stop
  <2>2. e \in Known /\ e \in Call /\ entry[e] \in Entry
    BY <2>1 DEF Known, TypeInv, TypeOK
  <2>3. rest \in Seq(Known)
    <3>1. DOMAIN q = 1..Len(q) /\ Len(q) \in Nat
      OBVIOUS
    <3>2. \A i \in (stop + 2)..Len(q) : q[i] \in Known
      BY <2>1, <3>1, SMT
    <3> QED BY <2>1, <3>1, <3>2, SMT DEF Rest
  <2>4. rest \in Seq(Call)
    BY <2>3, StillKnown DEF Known
  <2>5. entry[e].card \in Card
    BY <2>2 DEF Entry
  <2>6. queue' \in Seq(Known) /\ queue' \in Seq(Call)
    <3>1. queue' \in Seq(Known)
      BY <1>2, <2>3, <2>5, ReconciledType
    <3> QED BY <3>1, StillKnown DEF Known
  <2>7. entry' \in [Call -> Entry \union {None}] /\ Known' = Known
    <3> DEFINE new == [entry[e] EXCEPT !.status = "running"]
    <3>1. new \in Entry
      BY <2>2 DEF Entry
    <3> HIDE DEF new
    <3>2. entry' = [entry EXCEPT ![e] = new]
      BY <1>2 DEF new
    <3> HIDE DEF e
    <3>3. /\ entry' \in [Call -> Entry \union {None}]
          /\ entry'[e] \in Entry /\ \A x \in Call : x # e => entry'[x] = entry[x]
      BY <2>2, <3>1, <3>2 DEF TypeInv, TypeOK
    <3> QED BY <2>2, <3>3, NoneAssumption DEF Known
  <2>8. held' \in [Drain -> Seq(Call)] /\ \A o \in Drain : held'[o] \in Seq(Known)
    BY <1>2, <2>3, <2>4 DEF TypeInv, TypeOK, KnownEntries
  <2>9. /\ running' \in [Drain -> 0..Limit] /\ running'[d] < Limit
        /\ \A o \in Drain : o # d => UNCHANGED running[o]
    <3>1. n \in 0..Limit
      BY <1>2, LimitAssumption, SMT
    <3> QED BY <1>2, <3>1 DEF TypeInv, TypeOK
  <2>10. /\ pc' \in [Process -> {"idle", "begin", "starting", "saving", "loop"}]
         /\ starting' \in [Process -> Call \union {None}]
         /\ snapshot' \in [Process -> Task \union {None}]
         /\ pc'[d] = "starting" /\ starting'[d] = e /\ snapshot'[d] \in Task
         /\ d \in Process
    BY <1>2, <2>2, <2>5, BeginStartType DEF Process
  <2>11. ASSUME NEW o \in Process PROVE StartTyped(o)'
    <3>1. CASE o = d
      <4>1. e \in Known' /\ e # None
        BY <2>2, <2>7, NoneAssumption
      <4> QED
        BY <2>9, <2>10, <3>1, <4>1, ProcessAssumption DEF StartTyped, Active, Known
    <3>2. CASE o # d
      <4>1. UNCHANGED <<pc[o], starting[o], snapshot[o]>>
        BY <1>2, <3>2 DEF BeginStart, TypeInv, TypeOK
      <4> QED BY <2>7, <2>9, <3>2, <4>1, StartFrame
    <3> QED BY <3>1, <3>2
  <2> HIDE DEF e, rest
  <2> QED
    BY <1>b, <2>6, <2>7, <2>8, <2>9, <2>10, <2>11
       DEF taskVars, TypeInv, TypeOK, StartsTyped, KnownEntries
<1> QED
  BY <1>1, <1>2 DEF Loop, valid

LEMMA DrainType ==
  ASSUME TypeInv, NEW d \in Drain, BeginDrain(d) \/ ContinueDrain(d) PROVE TypeInv'
<1>1. CASE BeginDrain(d)
  <2>1. CountRunning(ReconciledJobs) \in Nat
    BY ReconciledType, CountType
  <2> QED BY <1>1, <2>1, ReconciledType, LoopType DEF BeginDrain
<1>2. CASE ContinueDrain(d)
  <2>1. running[d] \in Nat /\ held[d] \in Seq(Known) /\ jobs \in [Card -> Call \union {None}]
    BY LimitAssumption DEF TypeInv, TypeOK, KnownEntries
  <2> QED BY <1>2, <2>1, LoopType DEF ContinueDrain
<1> QED BY <1>1, <1>2

LEMMA TypeInvInit == Init => TypeInv
BY LimitAssumption, EditAssumption
   DEF Init, TypeInv, TypeOK, StartsTyped, StartTyped, Active, KnownEntries

LEMMA TypeInvStep == TypeInv /\ [Next]_vars => TypeInv'
<1> SUFFICES ASSUME TypeInv, [Next]_vars PROVE TypeInv'
  OBVIOUS
<1>1. CASE UNCHANGED vars
  BY <1>1 DEF vars, taskVars, queueVars, startVars, drainVars, TypeInv, TypeOK,
              StartsTyped, StartTyped, Active, KnownEntries, Known
<1> QED
  BY <1>1, EnqueueType, ReconcileType, RemoveType, EditType, CreateType, AnsweredType,
     SaveType, FailType, DrainType, EndSessionType DEF Next

LEMMA TypeInvariant == Spec => []TypeInv
BY TypeInvInit, TypeInvStep, PTL DEF Spec

(* The variables keep their types: no count of a drain passes the limit, and *)
(* no array holds anything but calls.                                        *)
THEOREM TypeCorrect == Spec => []TypeOK
<1>1. TypeInv => TypeOK
  BY DEF TypeInv
<1> QED BY <1>1, TypeInvariant, PTL
-----------------------------------------------------------------------------
(* The hypotheses of the two properties: the default limit, and cards that   *)
(* are left alone while they start.                                          *)
OneAtATime == Limit = 1 /\ Undisturbed = TRUE

CardOf(p) == entry[starting[p]].card

(* The job map holds jobs of its cards. *)
JobsOfCards ==
  \A c \in Card : jobs[c] # None => entry[jobs[c]] # None /\ entry[jobs[c]].card = c

(* The job a process starts is running without a session, and what the       *)
(* process knows of it still holds: the task it read, and, unless the start  *)
(* will be refused, the job's place in the map.  A drain starts no job that  *)
(* will be refused.                                                          *)
StartKnows(p) ==
  Active(p) =>
    /\ IsRunning(starting[p]) /\ entry[starting[p]].sessionId = None
    /\ snapshot[p] = task[CardOf(p)]
    /\ jobs[CardOf(p)] \in {None, starting[p]}
    /\ ~Refused(p) => jobs[CardOf(p)] = starting[p]
    /\ pc[p] = "saving" \/ p \in Drain => ~Refused(p)

(* No two processes start jobs of one card. *)
OneStart ==
  \A p, q \in Process : Active(p) /\ Active(q) /\ p # q => CardOf(p) # CardOf(q)

(* A drain that waited for a start has filled the slot. *)
DrainCount ==
  \A d \in Drain : /\ Active(d) => running[d] = 0
                   /\ pc[d] = "loop" => running[d] = 1

(* At most one card has a running job. *)
OneRuns == \A b, c \in Card : IsRunning(jobs[b]) /\ IsRunning(jobs[c]) => b = c

(* A job that waits has no session yet. *)
FreshWhileQueued == \A e \in Known : IsQueued(e) => entry[e].sessionId = None

(* The inductive invariant of the slot. *)
SlotInv ==
  JobsOfCards /\ (\A p \in Process : StartKnows(p)) /\ OneStart /\ DrainCount /\ OneRuns

(* A job that will not be refused is not stale: no reconciliation drops it. *)
LEMMA StartNotStale ==
  ASSUME TypeInv, SlotInv, NEW p \in Process, Active(p), ~Refused(p)
  PROVE  ~StaleJob(starting[p])
BY DEF SlotInv, StartKnows, CardOf, Refused, StaleJob, Moved, IsRunning, IsQueued

(* What the reconciliation leaves of the job map. *)
LEMMA ReconciledJobsKnown ==
  ASSUME TypeInv, SlotInv
  PROVE  /\ \A c \in Card : ReconciledJobs[c] \in {None, jobs[c]}
         /\ \A c \in Card : ReconciledJobs[c] # None =>
              /\ ReconciledJobs[c] = jobs[c] /\ ~StaleJob(jobs[c])
         /\ \A p \in Process : Active(p) /\ ~Refused(p)
              => ReconciledJobs[CardOf(p)] = starting[p]
<1>1. /\ \A c \in Card : ReconciledJobs[c] \in {None, jobs[c]}
      /\ \A c \in Card : ReconciledJobs[c] # None =>
           /\ ReconciledJobs[c] = jobs[c] /\ ~StaleJob(jobs[c])
  BY DEF ReconciledJobs
<1>2. ASSUME NEW p \in Process, Active(p), ~Refused(p)
      PROVE  ReconciledJobs[CardOf(p)] = starting[p]
  <2>1. CardOf(p) \in Card
    BY <1>2 DEF TypeInv, TypeOK, StartsTyped, StartTyped, CardOf, Entry
  <2>2. ~StaleJob(starting[p]) /\ jobs[CardOf(p)] = starting[p]
    BY <1>2, StartNotStale DEF SlotInv, StartKnows
  <2> QED BY <2>1, <2>2 DEF ReconciledJobs
<1> QED BY <1>1, <1>2

(* An action that leaves the processes, the entries and the tasks of the     *)
(* starting cards alone, and only removes jobs from the map, none of which   *)
(* is about to get its session.                                              *)
LEMMA FewerJobs ==
  ASSUME TypeInv, SlotInv, UNCHANGED <<entry, startVars, running>>,
         \A p \in Process : Active(p) => task'[CardOf(p)] = task[CardOf(p)],
         \A c \in Card : jobs'[c] \in {None, jobs[c]},
         \A p \in Process : Active(p) /\ ~Refused(p) => jobs'[CardOf(p)] = jobs[CardOf(p)]
  PROVE  SlotInv'
<1>1. JobsOfCards' /\ OneRuns' /\ OneStart' /\ DrainCount'
  BY DEF SlotInv, JobsOfCards, OneRuns, OneStart, DrainCount, startVars, IsRunning,
         Active, CardOf
<1>2. ASSUME NEW p \in Process, Active(p) PROVE StartKnows(p)'
  <2>1. CardOf(p) \in Card
    BY <1>2 DEF TypeInv, TypeOK, StartsTyped, StartTyped, CardOf, Entry
  <2>2. Refused(p)' = Refused(p) /\ CardOf(p)' = CardOf(p)
    BY DEF Refused, startVars, CardOf
  <2>3. StartKnows(p)
    BY DEF SlotInv
  <2> QED
    BY <1>2, <2>1, <2>2, <2>3 DEF StartKnows, Active, IsRunning, startVars
<1>3. ASSUME NEW p \in Process PROVE StartKnows(p)'
  BY <1>2 DEF StartKnows, Active, startVars
<1> QED BY <1>1, <1>3 DEF SlotInv

LEMMA NothingRuns ==
  ASSUME OneAtATime, NEW js \in [Card -> Call \union {None}], CountRunning(js) < Limit
  PROVE  \A c \in Card : ~IsRunning(js[c])
<1> DEFINE Runs == {c \in Card : IsRunning(js[c])}
<1>1. IsFiniteSet(Runs)
  BY CardAssumption, FS_Subset
<1>2. Cardinality(Runs) = 0
  <2>1. Cardinality(Runs) \in Nat
    BY <1>1, FS_CardinalityType
  <2> QED BY <2>1, SMT DEF CountRunning, OneAtATime
<1>3. Runs = {}
  BY <1>1, <1>2, FS_EmptySet
<1> QED BY <1>3

(* The facts of a process that starts a job. *)
LEMMA StartFacts ==
  ASSUME TypeInv, SlotInv, NEW p \in Process, Active(p)
  PROVE  /\ starting[p] \in Call /\ entry[starting[p]] \in Entry
         /\ CardOf(p) \in Card /\ StartKnows(p)
BY DEF TypeInv, TypeOK, StartsTyped, StartTyped, CardOf, Entry, SlotInv

(* A card that is left alone is not the card of a start. *)
LEMMA NotOfAStart ==
  ASSUME OneAtATime, TypeInv, NEW c \in Card, LeftAlone(c), NEW p \in Process, Active(p)
  PROVE  CardOf(p) # c
BY DEF OneAtATime, LeftAlone, Starting, TypeInv, StartsTyped, StartTyped, CardOf

LEMMA ReconcileSlot ==
  ASSUME TypeInv, SlotInv, Reconcile PROVE SlotInv'
<1>1. \A p \in Process : Active(p) => task'[CardOf(p)] = task[CardOf(p)]
  BY DEF Reconcile, taskVars
<1>2. /\ \A c \in Card : jobs'[c] \in {None, jobs[c]}
      /\ \A p \in Process : Active(p) /\ ~Refused(p) => jobs'[CardOf(p)] = jobs[CardOf(p)]
  BY ReconciledJobsKnown, StartFacts DEF Reconcile, StartKnows
<1> QED BY <1>1, <1>2, FewerJobs DEF Reconcile, drainVars

LEMMA RemoveSlot ==
  ASSUME OneAtATime, TypeInv, SlotInv, NEW c \in Card, RemoveCardJob(c) PROVE SlotInv'
<1>1. \A p \in Process : Active(p) => CardOf(p) # c
  BY NotOfAStart DEF RemoveCardJob
<1>2. /\ \A b \in Card : jobs'[b] \in {None, jobs[b]}
      /\ \A p \in Process : Active(p) => jobs'[CardOf(p)] = jobs[CardOf(p)]
      /\ UNCHANGED task
  BY <1>1, StartFacts DEF RemoveCardJob, taskVars, TypeInv, TypeOK
<1> QED BY <1>2, FewerJobs DEF RemoveCardJob, drainVars

LEMMA EditSlot ==
  ASSUME OneAtATime, TypeInv, SlotInv, NEW c \in Card, Edit(c) PROVE SlotInv'
<1>1. \A p \in Process : Active(p) => CardOf(p) # c
  BY NotOfAStart DEF Edit
<1>2. \A b \in Card : b # c => UNCHANGED task[b]
  BY DEF Edit, TypeInv, TypeOK
<1>3. \A p \in Process : Active(p) => task'[CardOf(p)] = task[CardOf(p)]
  BY <1>1, <1>2, StartFacts
<1> QED BY <1>3, FewerJobs DEF Edit, queueVars, drainVars

(* The end of a session does not concern the job of a process that starts it: *)
(* that one has no session yet.                                              *)
LEMMA EndSessionSlot ==
  ASSUME TypeInv, SlotInv, NEW s \in Call, NEW d \in Drain, EndSession(s, d) PROVE SlotInv'
<1>1. /\ \A c \in Card : jobs'[c] \in {None, jobs[c]}
      /\ \A c \in Card : jobs'[c] # jobs[c] => entry[jobs[c]].sessionId = s
  BY DEF EndSession, TypeInv, TypeOK
<1>2. \A p \in Process : Active(p) /\ ~Refused(p) => jobs'[CardOf(p)] = jobs[CardOf(p)]
  BY <1>1, StartFacts, NoneAssumption DEF StartKnows
<1>3. /\ \A o \in Process : Active(o)' <=> Active(o)
      /\ \A o \in Drain : pc'[o] = "loop" <=> pc[o] = "loop"
      /\ \A o \in Process : pc'[o] = "saving" <=> pc[o] = "saving"
  BY DEF EndSession, Active, TypeInv, TypeOK, Process
<1>4. JobsOfCards' /\ OneRuns' /\ OneStart' /\ DrainCount'
  <2>1. JobsOfCards' /\ OneRuns'
    BY <1>1 DEF SlotInv, JobsOfCards, OneRuns, EndSession, IsRunning
  <2>2. OneStart'
    BY <1>3 DEF SlotInv, OneStart, EndSession, CardOf
  <2>3. DrainCount'
    BY <1>3 DEF SlotInv, DrainCount, EndSession, drainVars, Process
  <2> QED BY <2>1, <2>2, <2>3
<1>5. ASSUME NEW p \in Process, Active(p) PROVE StartKnows(p)'
  <2>1. StartKnows(p) /\ CardOf(p) \in Card
    BY <1>5, StartFacts
  <2>2. Refused(p)' = Refused(p) /\ CardOf(p)' = CardOf(p) /\ UNCHANGED task
    BY DEF EndSession, Refused, CardOf, taskVars
  <2> QED
    BY <1>1, <1>2, <1>3, <1>5, <2>1, <2>2 DEF StartKnows, IsRunning, EndSession
<1> QED BY <1>3, <1>4, <1>5 DEF SlotInv, StartKnows

(* A process that begins to start the job e of card c. *)
LEMMA BeginStartSlot ==
  ASSUME TypeInv, SlotInv, NEW p \in Process, ~Active(p), NEW e \in Call, NEW c \in Card,
         BeginStart(p, e, c), UNCHANGED task,
         \A o \in Process : Active(o) => CardOf(o) # c,
         \A x \in Call : x # e => UNCHANGED entry[x],
         \A o \in Process : Active(o) => starting[o] # e,
         entry'[e] # None, entry'[e].card = c, IsRunning(e)', entry'[e].sessionId = None,
         jobs'[c] = e, p \in Drain => ~Refused(p)',
         \A b \in Card : jobs'[b] \in {None, jobs[b], e},
         \A b \in Card : jobs'[b] = e => b = c,
         \A b \in Card : b # c => ~IsRunning(jobs[b]) \/ jobs'[b] = None,
         \A o \in Process : Active(o) /\ ~Refused(o) => jobs'[CardOf(o)] = jobs[CardOf(o)],
         \A o \in Drain : o # p => UNCHANGED running[o],
         p \in Drain => running'[p] = 0
  PROVE  SlotInv'
<1>1. /\ \A o \in Process : o # p => UNCHANGED <<pc[o], starting[o], snapshot[o]>>
      /\ pc'[p] = "starting" /\ starting'[p] = e /\ snapshot'[p] = task[c]
  BY DEF BeginStart, TypeInv, TypeOK
<1>2. \A o \in Process : Active(o) =>
        /\ o # p /\ Active(o)' /\ CardOf(o)' = CardOf(o) /\ Refused(o)' = Refused(o)
        /\ UNCHANGED entry[starting[o]] /\ starting'[o] = starting[o]
  BY <1>1, StartFacts DEF Active, CardOf, Refused
<1>3. \A o \in Process : o # p /\ Active(o)' => Active(o)
  BY <1>1 DEF Active
<1>4. CardOf(p)' = c /\ Active(p)'
  BY <1>1 DEF CardOf, Active
<1>5. OneStart'
  BY <1>2, <1>3, <1>4 DEF OneStart, SlotInv
<1>6. DrainCount'
  BY <1>1, <1>3 DEF DrainCount, SlotInv, Active, Process
<1>7. JobsOfCards'
  <2> SUFFICES ASSUME NEW b \in Card, jobs'[b] # None
               PROVE  entry'[jobs'[b]] # None /\ entry'[jobs'[b]].card = b
    BY DEF JobsOfCards
  <2>1. CASE b = c
    BY <2>1 DEF IsRunning
  <2>2. CASE b # c
    <3>1. jobs'[b] = jobs[b] /\ jobs'[b] # e /\ jobs[b] \in Call
      BY <2>2 DEF TypeInv, TypeOK
    <3> QED BY <3>1 DEF SlotInv, JobsOfCards
  <2> QED BY <2>1, <2>2
<1>8. OneRuns'
  BY DEF SlotInv, OneRuns, IsRunning, TypeInv, TypeOK
<1>9. ASSUME NEW o \in Process, Active(o)' PROVE StartKnows(o)'
  <2>1. CASE o = p
    BY <1>1, <1>4, <2>1 DEF StartKnows, Active
  <2>2. CASE o # p
    <3>1. Active(o) /\ StartKnows(o) /\ CardOf(o) \in Card /\ starting[o] \in Call
      BY <1>3, <1>9, <2>2, StartFacts
    <3>2. jobs'[CardOf(o)] \in {None, starting[o]}
      BY <3>1 DEF StartKnows
    <3> QED BY <1>1, <1>2, <2>2, <3>1, <3>2 DEF StartKnows, IsRunning
  <2> QED BY <2>1, <2>2
<1> QED BY <1>5, <1>6, <1>7, <1>8, <1>9 DEF SlotInv, StartKnows

LEMMA EnqueueSlot ==
  ASSUME OneAtATime, TypeInv, SlotInv, NEW e \in Call, NEW c \in Card, NEW k \in Column,
         Enqueue(e, c, k)
  PROVE  SlotInv'
<1>1. /\ \A p \in Process : Active(p) => CardOf(p) # c /\ starting[p] # e
      /\ entry[e] = None /\ UNCHANGED task
  <2>1. entry[e] = None /\ UNCHANGED task
    BY DEF Enqueue, taskVars
  <2>2. \A p \in Process : Active(p) => starting[p] # e
    BY <2>1 DEF TypeInv, StartsTyped, StartTyped
  <2> QED BY <2>1, <2>2, NotOfAStart DEF Enqueue
<1>2. /\ jobs'[c] = e /\ \A b \in Card : b # c => jobs'[b] = ReconciledJobs[b]
      /\ \A x \in Call : x # e => entry'[x] = entry[x]
  BY ReconciledType DEF Enqueue, NewEntry, TypeInv, TypeOK
<1>3. \A b \in Card : b # c => jobs'[b] \in {None, jobs[b]} /\ jobs'[b] # e
  <2>1. \A b \in Card : jobs[b] # e
    BY <1>1, NoneAssumption DEF SlotInv, JobsOfCards
  <2> QED BY <1>2, <2>1, ReconciledJobsKnown, NoneAssumption
<1>4. \A o \in Process : Active(o) /\ ~Refused(o) => jobs'[CardOf(o)] = jobs[CardOf(o)]
  BY <1>1, <1>2, ReconciledJobsKnown, StartFacts DEF StartKnows
<1>5. CASE Occupied(c, ReconciledJobs) /\ NewEntry(e, c, k, "queued") /\ UNCHANGED startVars
  <2>1. /\ entry'[e] # None /\ entry'[e].card = c /\ ~IsRunning(e)'
    <3>1. entry'[e] = [card |-> c, column |-> k, status |-> "queued", sessionId |-> None]
      BY <1>5 DEF NewEntry, TypeInv, TypeOK
    <3>2. [card |-> c, column |-> k, status |-> "queued", sessionId |-> None] \in Entry
      BY DEF Entry
    <3> QED BY <3>1, <3>2, NoneAssumption DEF IsRunning
  <2>2. JobsOfCards' /\ OneRuns'
    <3>1. \A b \in Card : b # c /\ jobs'[b] # None =>
            jobs'[b] = jobs[b] /\ jobs[b] \in Call /\ entry'[jobs[b]] = entry[jobs[b]]
      BY <1>2, <1>3 DEF TypeInv, TypeOK
    <3>2. JobsOfCards'
      BY <1>2, <2>1, <3>1 DEF SlotInv, JobsOfCards
    <3>3. \A b \in Card : IsRunning(jobs[b])' => IsRunning(jobs[b])
      BY <1>2, <2>1, <3>1 DEF IsRunning
    <3> QED BY <3>2, <3>3 DEF SlotInv, OneRuns, IsRunning
  <2>3. DrainCount' /\ OneStart'
    BY <1>1, <1>2, <1>5, StartFacts
       DEF SlotInv, DrainCount, OneStart, Active, CardOf, startVars, drainVars, Enqueue
  <2>4. ASSUME NEW o \in Process, Active(o) PROVE StartKnows(o)'
    <3>1. /\ StartKnows(o) /\ CardOf(o) \in Card /\ CardOf(o) # c
          /\ starting[o] \in Call /\ starting[o] # e
      BY <1>1, <2>4, StartFacts
    <3>2. entry'[starting[o]] = entry[starting[o]] /\ starting'[o] = starting[o]
          /\ jobs'[CardOf(o)] \in {None, jobs[CardOf(o)]}
      BY <1>2, <1>3, <1>5, <3>1 DEF startVars
    <3>3. CardOf(o)' = CardOf(o) /\ Refused(o)' = Refused(o)
      BY <1>5, <3>2 DEF CardOf, Refused, startVars
    <3> QED BY <1>1, <1>4, <1>5, <2>4, <3>1, <3>2, <3>3 DEF StartKnows, IsRunning, startVars
  <2> QED BY <1>5, <2>2, <2>3, <2>4 DEF SlotInv, StartKnows, Active, startVars
<1>6. CASE /\ ~Occupied(c, ReconciledJobs) /\ NewEntry(e, c, k, "running")
           /\ BeginStart(e, e, c)
  <2>1. /\ entry'[e] # None /\ entry'[e].card = c /\ IsRunning(e)'
        /\ entry'[e].sessionId = None
    <3>1. entry'[e] = [card |-> c, column |-> k, status |-> "running", sessionId |-> None]
      BY <1>6 DEF NewEntry, TypeInv, TypeOK
    <3>2. [card |-> c, column |-> k, status |-> "running", sessionId |-> None] \in Entry
      BY DEF Entry
    <3> QED BY <3>1, <3>2, NoneAssumption DEF IsRunning
  <2>2. \A b \in Card : b # c => ~IsRunning(ReconciledJobs[b])
    <3> DEFINE js == [ReconciledJobs EXCEPT ![c] = None]
    <3>1. js \in [Card -> Call \union {None}]
      BY ReconciledType
    <3>2. CountRunning(js) \in Nat /\ ~ (CountRunning(js) >= Limit)
      BY <1>6, <3>1, CountType DEF Occupied
    <3>3. CountRunning(js) < Limit
      BY <3>2, LimitAssumption, SMT
    <3>4. \A b \in Card : ~IsRunning(js[b])
      <4> HIDE DEF js
      <4> QED BY <3>1, <3>3, NothingRuns
    <3> QED BY <3>4, ReconciledType
  <2>3. \A b \in Card : b # c => ~IsRunning(jobs[b]) \/ jobs'[b] = None
    BY <1>2, <2>2, ReconciledJobsKnown
  <2>4. e \in Process /\ e \notin Drain /\ ~Active(e)
    <3>1. e \in Process /\ e \notin Drain
      BY ProcessAssumption DEF Process
    <3>2. ~Active(e)
      BY <1>1, <3>1 DEF TypeInv, StartsTyped, StartTyped
    <3> QED BY <3>1, <3>2
  <2> QED
    BY <1>1, <1>2, <1>3, <1>4, <1>6, <2>1, <2>3, <2>4, BeginStartSlot
       DEF Enqueue, drainVars
<1> QED
  BY <1>5, <1>6 DEF Enqueue

LEMMA CreateSlot ==
  ASSUME TypeInv, SlotInv, NEW p \in Process, CreateSession(p) PROVE SlotInv'
<1>1. /\ \A o \in Process : Active(o)' <=> Active(o)
      /\ \A o \in Process : o # p => UNCHANGED pc[o]
      /\ \A o \in Drain : pc'[o] = "loop" <=> pc[o] = "loop"
      /\ Active(p) /\ ~Refused(p)
      /\ UNCHANGED <<task, jobs, entry, starting, snapshot, running>>
  BY DEF CreateSession, Active, taskVars, queueVars, drainVars, TypeInv, TypeOK, Process
<1>2. JobsOfCards' /\ OneRuns' /\ OneStart' /\ DrainCount'
  BY <1>1 DEF SlotInv, JobsOfCards, OneRuns, OneStart, DrainCount, IsRunning, CardOf,
              Process
<1>3. ASSUME NEW o \in Process PROVE StartKnows(o)'
  <2>1. StartKnows(o)
    BY DEF SlotInv
  <2>2. CardOf(o)' = CardOf(o) /\ Refused(o)' = Refused(o)
    BY <1>1 DEF CardOf, Refused
  <2> QED BY <1>1, <2>1, <2>2 DEF StartKnows, IsRunning
<1> QED BY <1>2, <1>3 DEF SlotInv

(* The job that started has its place in the map already. *)
LEMMA StartedSlot ==
  ASSUME OneAtATime, TypeInv, SlotInv, NEW p \in Process, Active(p), ~Refused(p),
         NEW s \in Call, Started(p, s),
         \A c \in Card : c # CardOf(p) => task'[c] = task[c]
  PROVE  SlotInv'
<1> DEFINE e == starting[p]
<1>1. e \in Call /\ entry[e] \in Entry /\ CardOf(p) \in Card /\ StartKnows(p)
  BY StartFacts
<1>2. UNCHANGED jobs
  <2>1. jobs[CardOf(p)] = e /\ jobs' = [jobs EXCEPT ![CardOf(p)] = e]
    BY <1>1 DEF StartKnows, Started, CardOf
  <2> QED BY <2>1 DEF TypeInv, TypeOK
<1>3. /\ entry'[e] = [entry[e] EXCEPT !.sessionId = s]
      /\ \A x \in Call : x # e => entry'[x] = entry[x]
  BY <1>1 DEF Started, TypeInv, TypeOK
<1>4. /\ entry'[e] \in Entry /\ entry'[e].card = entry[e].card
      /\ entry'[e].status = entry[e].status /\ entry[e] # None /\ entry'[e] # None
  <2>1. entry'[e] \in Entry
    BY <1>1, <1>3 DEF Entry
  <2> HIDE DEF e
  <2> QED BY <1>1, <1>3, <2>1, NoneAssumption DEF Entry
<1>5. /\ ~Active(p)' /\ \A o \in Process : o # p => pc'[o] = pc[o]
      /\ \A o \in Process : o # p => starting'[o] = starting[o] /\ snapshot'[o] = snapshot[o]
      /\ \A o \in Drain : o # p => running'[o] = running[o]
      /\ p \in Drain => running'[p] = running[p] + 1
  BY EndStartType DEF Started, Resume, Counted, Active, TypeInv, TypeOK
<1>6. JobsOfCards' /\ OneRuns'
  <2>1. \A x \in Call : /\ entry[x] # None => entry'[x] # None
                        /\ entry[x] # None => entry'[x].card = entry[x].card
                        /\ IsRunning(x)' => IsRunning(x)
    BY <1>3, <1>4 DEF IsRunning
  <2> HIDE DEF e
  <2>2. \A c \in Card : jobs'[c] = jobs[c] /\ jobs[c] \in Call \union {None}
    BY <1>2 DEF TypeInv, TypeOK
  <2>3. JobsOfCards'
    BY <2>1, <2>2 DEF SlotInv, JobsOfCards
  <2>4. \A c \in Card : IsRunning(jobs[c])' => IsRunning(jobs[c])
    BY <2>1, <2>2 DEF IsRunning
  <2> QED BY <2>3, <2>4 DEF SlotInv, OneRuns
<1>7. ASSUME NEW o \in Process, Active(o)'
      PROVE  /\ o # p /\ Active(o) /\ CardOf(o) # CardOf(p) /\ starting[o] # e
             /\ starting[o] \in Call /\ CardOf(o)' = CardOf(o) /\ Refused(o)' = Refused(o)
             /\ entry'[starting[o]] = entry[starting[o]]
  <2>1. o # p /\ Active(o)
    BY <1>5, <1>7 DEF Active
  <2>2. CardOf(o) # CardOf(p) /\ starting[o] \in Call
    BY <2>1, StartFacts DEF SlotInv, OneStart
  <2>3. starting[o] # e
    BY <2>2 DEF CardOf
  <2> QED BY <1>3, <1>5, <2>1, <2>2, <2>3 DEF CardOf, Refused
<1>8. OneStart'
  BY <1>7 DEF SlotInv, OneStart
<1>9. DrainCount'
  <2> SUFFICES ASSUME NEW d \in Drain
               PROVE  /\ Active(d)' => running'[d] = 0
                      /\ pc'[d] = "loop" => running'[d] = 1
    BY DEF DrainCount
  <2>1. CASE d = p
    <3>1. running'[p] = 1
      BY <1>5, <2>1, SMT DEF SlotInv, DrainCount
    <3> QED BY <1>5, <2>1, <3>1
  <2>2. CASE d # p
    BY <1>5, <2>2 DEF SlotInv, DrainCount, Active, Process
  <2> QED BY <2>1, <2>2
<1>10. ASSUME NEW o \in Process, Active(o)' PROVE StartKnows(o)'
  <2>1. StartKnows(o) /\ Active(o) /\ o # p /\ CardOf(o) \in Card /\ CardOf(o) # CardOf(p)
    BY <1>7, <1>10, StartFacts
  <2> HIDE DEF e
  <2> QED BY <1>2, <1>5, <1>7, <1>10, <2>1 DEF StartKnows, IsRunning
<1> QED BY <1>6, <1>8, <1>9, <1>10 DEF SlotInv, StartKnows

LEMMA AnsweredSlot ==
  ASSUME OneAtATime, TypeInv, SlotInv, NEW p \in Process, AlreadyTriggered(p)
  PROVE  SlotInv'
<1>1. Active(p) /\ ~Refused(p) /\ snapshot[p] \in Task
  BY DEF AlreadyTriggered, Active, TypeInv, StartsTyped, StartTyped
<1>2. snapshot[p].trigger \in Call
  BY <1>1 DEF AlreadyTriggered, Task
<1> QED BY <1>1, <1>2, StartedSlot DEF AlreadyTriggered, taskVars

LEMMA SaveSlot ==
  ASSUME OneAtATime, TypeInv, SlotInv, NEW p \in Process, SaveSession(p)
  PROVE  SlotInv'
<1>1. Active(p)
  BY DEF SaveSession, Active
<1>2. starting[p] \in Call /\ ~Refused(p)
  BY <1>1, StartFacts DEF SaveSession, StartKnows
<1>3. \A c \in Card : c # CardOf(p) => task'[c] = task[c]
  BY DEF SaveSession, SaveTask, CardOf, TypeInv, TypeOK
<1> QED BY <1>1, <1>2, <1>3, StartedSlot DEF SaveSession

(* A start fails only when it is refused: its job is dropped. *)
LEMMA FailSlot ==
  ASSUME OneAtATime, TypeInv, SlotInv, NEW p \in Process, NEW d \in Drain, FailStart(p, d)
  PROVE  SlotInv'
<1>1. Active(p) /\ Refused(p) /\ p \notin Drain /\ UNCHANGED task
  <2>1. Active(p) /\ Refused(p) /\ UNCHANGED task
    BY DEF FailStart, Active, OneAtATime
  <2> QED BY <2>1, StartFacts DEF StartKnows
<1>2. /\ CardOf(p) \in Card /\ UNCHANGED <<entry, running>>
      /\ jobs'[CardOf(p)] = None /\ \A c \in Card : c # CardOf(p) => jobs'[c] = jobs[c]
  BY <1>1, StartFacts DEF FailStart, CardOf, drainVars, TypeInv, TypeOK
<1>3. /\ ~Active(p)' /\ ~Active(d)' /\ pc'[d] = "begin" /\ d # p
      /\ \A o \in Process : o \notin {p, d} => pc'[o] = pc[o]
      /\ \A o \in Process : o # p => starting'[o] = starting[o] /\ snapshot'[o] = snapshot[o]
  BY <1>1, EndStartType DEF FailStart, Active, TypeInv, TypeOK, Process
<1>4. ASSUME NEW o \in Process, Active(o)'
      PROVE  /\ Active(o) /\ o # p /\ CardOf(o) # CardOf(p) /\ CardOf(o)' = CardOf(o)
             /\ Refused(o)' = Refused(o) /\ starting'[o] = starting[o]
             /\ snapshot'[o] = snapshot[o] /\ pc'[o] = pc[o]
  BY <1>1, <1>2, <1>3, <1>4 DEF Active, CardOf, Refused, SlotInv, OneStart
<1>5. JobsOfCards' /\ OneRuns'
  <2>1. \A c \in Card : jobs'[c] \in {None, jobs[c]}
    BY <1>2
  <2> QED BY <1>2, <2>1 DEF SlotInv, JobsOfCards, OneRuns, IsRunning
<1>6. OneStart' /\ DrainCount'
  <2>1. OneStart'
    BY <1>4 DEF SlotInv, OneStart
  <2>2. DrainCount'
    BY <1>1, <1>2, <1>3 DEF SlotInv, DrainCount, Active, Process
  <2> QED BY <2>1, <2>2
<1>7. ASSUME NEW o \in Process, Active(o)' PROVE StartKnows(o)'
  <2>1. StartKnows(o) /\ Active(o) /\ CardOf(o) \in Card /\ CardOf(o) # CardOf(p)
    BY <1>4, <1>7, StartFacts
  <2> QED BY <1>1, <1>2, <1>4, <1>7, <2>1 DEF StartKnows, IsRunning
<1> QED BY <1>5, <1>6, <1>7 DEF SlotInv, StartKnows

(* A queued job that a reconciliation keeps has its place in the map, and its *)
(* card is where the job expects it.                                         *)
LEMMA ReconciledQueueFresh ==
  ASSUME TypeInv
  PROVE  \A i \in DOMAIN ReconciledQueue :
           LET e == ReconciledQueue[i]
           IN  /\ e \in Known /\ IsQueued(e) /\ ~Moved(e)
               /\ ReconciledJobs[entry[e].card] = e
<1> DEFINE S == {e \in Known : jobs[entry[e].card] = e /\ IsQueued(e) /\ ~StaleJob(e)}
<1>1. \A i \in DOMAIN ReconciledQueue :
        /\ ReconciledQueue[i] \in S
        /\ \E j \in DOMAIN queue : queue[j] = ReconciledQueue[i]
  <2>1. queue \in Seq(Known)
    BY DEF TypeInv, KnownEntries
  <2> QED BY <2>1, FilterElements DEF ReconciledQueue
<1>2. ASSUME NEW e \in S, \E j \in DOMAIN queue : queue[j] = e
      PROVE  ~Moved(e) /\ ReconciledJobs[entry[e].card] = e
  <2>1. ~Moved(e)
    BY <1>2 DEF StaleJob
  <2>2. entry[e].card \in Card
    BY DEF Known, TypeInv, TypeOK, Entry
  <2> QED BY <2>1, <2>2 DEF ReconciledJobs
<1> QED BY <1>1, <1>2

LEMMA IdleDrainSlot ==
  ASSUME TypeInv, SlotInv, NEW d \in Drain, pc[d] \in {"begin", "loop"},
         pc' = [pc EXCEPT ![d] = "idle"], running' = [running EXCEPT ![d] = 0],
         UNCHANGED <<task, entry, starting, snapshot>>,
         \A c \in Card : jobs'[c] \in {None, jobs[c]},
         \A o \in Process : Active(o) /\ ~Refused(o) => jobs'[CardOf(o)] = jobs[CardOf(o)]
  PROVE  SlotInv'
<1>1. /\ ~Active(d) /\ ~Active(d)' /\ pc'[d] # "loop"
      /\ \A o \in Process : o # d => pc'[o] = pc[o]
      /\ \A o \in Drain : o # d => running'[o] = running[o]
  BY DEF Active, TypeInv, TypeOK, Process
<1>2. \A o \in Process : Active(o)' => Active(o) /\ pc'[o] = pc[o]
  BY <1>1 DEF Active
<1>3. JobsOfCards' /\ OneRuns'
  BY DEF SlotInv, JobsOfCards, OneRuns, IsRunning
<1>4. OneStart' /\ DrainCount'
  <2>1. OneStart'
    BY <1>2 DEF SlotInv, OneStart, CardOf
  <2>2. DrainCount'
    BY <1>1, <1>2 DEF SlotInv, DrainCount, Process
  <2> QED BY <2>1, <2>2
<1>5. ASSUME NEW o \in Process, Active(o)' PROVE StartKnows(o)'
  <2>1. StartKnows(o) /\ Active(o) /\ CardOf(o) \in Card
    BY <1>2, <1>5, StartFacts
  <2>2. CardOf(o)' = CardOf(o) /\ Refused(o)' = Refused(o)
    BY DEF CardOf, Refused
  <2> QED BY <1>2, <1>5, <2>1, <2>2 DEF StartKnows, IsRunning
<1> QED BY <1>3, <1>4, <1>5 DEF SlotInv, StartKnows

(* A drain takes jobs that reconcileBoardEntries has just looked at, so that  *)
(* it drops none, and starts the first one of the queue.                     *)
LEMMA BeginDrainSlot ==
  ASSUME OneAtATime, TypeInv, SlotInv, FreshWhileQueued, NEW d \in Drain, BeginDrain(d)
  PROVE  SlotInv'
<1> DEFINE q     == ReconciledQueue
           js    == ReconciledJobs
           n     == CountRunning(js)
           valid == {i \in DOMAIN q : ~Moved(q[i])}
           stop  == IF valid = {} THEN Len(q) ELSE FirstOf(valid) - 1
           dropped == {entry[q[i]].card : i \in 1..stop}
<1>1. q \in Seq(Known) /\ q \in Seq(Call) /\ js \in [Card -> Call \union {None}]
  BY ReconciledType, StillKnown DEF Known
<1>2. valid = DOMAIN q
  BY ReconciledQueueFresh
<1>3. stop = 0
  <2>1. CASE valid = {}
    BY <1>1, <1>2, <2>1
  <2>2. CASE valid # {}
    <3>1. valid = 1..Len(q) /\ Len(q) \in Nat /\ valid \subseteq Nat
      BY <1>1, <1>2
    <3>2. FirstOf(valid) \in valid /\ \A y \in valid : FirstOf(valid) <= y
      BY <2>2, <3>1, FirstOfType
    <3>3. 1 \in valid
      BY <2>2, <3>1, SMT
    <3>4. FirstOf(valid) = 1
      <4> HIDE DEF valid, q
      <4> QED BY <3>1, <3>2, <3>3, SMT
    <3> QED BY <2>2, <3>4
  <2> QED BY <2>1, <2>2
<1>4. dropped = {} /\ js = [c \in Card |-> IF c \in dropped THEN None ELSE js[c]]
  <2>1. dropped = {}
    <3> HIDE DEF stop, q
    <3> QED BY <1>3, SMT
  <2> HIDE DEF dropped, js
  <2> QED BY <1>1, <2>1
<1>5. Loop(d, q, n, js, TRUE) /\ pc[d] = "begin" /\ UNCHANGED task
  BY DEF BeginDrain, taskVars
<1>6. jobs' = js
  BY <1>4, <1>5 DEF Loop
<1>7. \A o \in Process : Active(o) /\ ~Refused(o) => jobs'[CardOf(o)] = jobs[CardOf(o)]
  BY <1>6, ReconciledJobsKnown, StartFacts DEF StartKnows
<1>8. CASE /\ pc' = [pc EXCEPT ![d] = "idle"] /\ running' = [running EXCEPT ![d] = 0]
           /\ UNCHANGED <<entry, starting, snapshot>>
  BY <1>5, <1>6, <1>7, <1>8, ReconciledJobsKnown, IdleDrainSlot
<1>9. CASE /\ n < Limit /\ valid # {}
           /\ LET e == q[stop + 1]
              IN  /\ entry' = [entry EXCEPT ![e].status = "running"]
                  /\ running' = [running EXCEPT ![d] = n]
                  /\ BeginStart(d, e, entry[e].card)
  <2>1. 1 \in DOMAIN q
    BY <1>1, <1>2, <1>9
  <2>2. PICK e \in Call : e = q[1]
    BY <1>1, <2>1
  <2>3. e \in Known /\ IsQueued(e) /\ ~Moved(e) /\ js[entry[e].card] = e
    BY <2>1, <2>2, ReconciledQueueFresh
  <2>a. PICK c \in Card : c = entry[e].card
    BY <2>3 DEF Known, TypeInv, TypeOK, Entry
  <2>b. entry[e] \in Entry /\ jobs[c] = e /\ js[c] = e
    <3>1. entry[e] \in Entry
      BY <2>3 DEF Known, TypeInv, TypeOK
    <3> QED BY <2>3, <2>a, <3>1, ReconciledJobsKnown, NoneAssumption
  <2>4. /\ entry' = [entry EXCEPT ![e].status = "running"]
        /\ running' = [running EXCEPT ![d] = n] /\ BeginStart(d, e, c)
    <3>1. q[stop + 1] = e
      <4> HIDE DEF stop, q
      <4> QED BY <1>3, <2>2
    <3> HIDE DEF stop, q, n
    <3> QED BY <1>9, <2>a, <3>1
  <2>5. n = 0 /\ \A b \in Card : ~IsRunning(js[b])
    <3>1. n \in Nat
      BY <1>1, CountType
    <3> HIDE DEF n
    <3>2. n = 0
      BY <1>9, <3>1, SMT DEF OneAtATime
    <3>3. \A b \in Card : ~IsRunning(js[b])
      <4> HIDE DEF js
      <4> QED BY <1>1, <1>9, NothingRuns DEF n
    <3> QED BY <3>2, <3>3
  <2>6. ASSUME NEW o \in Process, Active(o) PROVE CardOf(o) # c /\ starting[o] # e
    <3>1. StartKnows(o)
      BY <2>6, StartFacts
    <3>2. starting[o] # e
      BY <2>3, <2>6, <3>1 DEF StartKnows, IsRunning, IsQueued
    <3>3. CardOf(o) # c
      BY <2>b, <2>6, <3>1, <3>2, NoneAssumption DEF StartKnows
    <3> QED BY <3>2, <3>3
  <2>7. /\ \A x \in Call : x # e => UNCHANGED entry[x]
        /\ entry'[e] # None /\ entry'[e].card = c /\ IsRunning(e)'
        /\ entry'[e].sessionId = None
    <3> DEFINE new == [entry[e] EXCEPT !.status = "running"]
    <3>1. /\ new \in Entry /\ new.card = c /\ new.status = "running"
          /\ new.sessionId = entry[e].sessionId
      BY <2>a, <2>b DEF Entry
    <3>2. entry[e].sessionId = None
      BY <2>3 DEF FreshWhileQueued, IsQueued
    <3> HIDE DEF new
    <3>3. entry' = [entry EXCEPT ![e] = new]
      BY <2>4 DEF new
    <3>4. entry'[e] = new /\ \A x \in Call : x # e => entry'[x] = entry[x]
      BY <3>3 DEF TypeInv, TypeOK
    <3>5. e # None
      BY NoneAssumption
    <3> QED BY <3>1, <3>2, <3>4, <3>5, NoneAssumption DEF IsRunning
  <2>8. d \in Process /\ ~Active(d) /\ d \notin Call
    BY <1>5, ProcessAssumption DEF Active, Process
  <2>9. ~Refused(d)'
    <3>1. starting'[d] = e /\ snapshot'[d] = task[c]
      BY <2>4, <2>8 DEF BeginStart, TypeInv, TypeOK
    <3>2. entry'[e].column = entry[e].column
      BY <2>4, <2>b DEF TypeInv, TypeOK, Entry
    <3>3. task[c].on /\ task[c].column = entry[e].column
      BY <2>3, <2>a DEF Moved
    <3> QED BY <3>1, <3>2, <3>3 DEF Refused
  <2>10. /\ \A b \in Card : jobs'[b] \in {None, jobs[b]} /\ jobs'[b] = js[b]
         /\ jobs'[c] = e
         /\ \A b \in Card : jobs'[b] = e => b = c
         /\ \A b \in Card : ~IsRunning(jobs[b]) \/ jobs'[b] = None
    <3> HIDE DEF js, n
    <3>1. \A b \in Card : js[b] \in {None, jobs[b]}
      BY ReconciledJobsKnown DEF js
    <3>2. \A b \in Card : jobs[b] = e => b = c
      BY <2>a, NoneAssumption DEF SlotInv, JobsOfCards
    <3> QED BY <1>6, <2>5, <2>b, <3>1, <3>2, NoneAssumption DEF IsRunning
  <2>11. /\ \A o \in Drain : o # d => UNCHANGED running[o]
         /\ running'[d] = 0
    <3> HIDE DEF n
    <3> QED BY <2>4, <2>5 DEF TypeInv, TypeOK
  <2> QED
    BY <1>5, <1>7, <2>4, <2>6, <2>7, <2>8, <2>9, <2>10, <2>11, BeginStartSlot
<1> QED
  BY <1>5, <1>8, <1>9 DEF Loop

(* A drain that comes back from a start has filled the slot, and stops. *)
LEMMA ContinueDrainSlot ==
  ASSUME OneAtATime, TypeInv, SlotInv, NEW d \in Drain, ContinueDrain(d)
  PROVE  SlotInv'
<1>1. pc[d] = "loop" /\ running[d] = 1 /\ Limit = 1
  BY DEF ContinueDrain, SlotInv, DrainCount, OneAtATime
<1>2. /\ UNCHANGED jobs
      /\ pc' = [pc EXCEPT ![d] = "idle"] /\ running' = [running EXCEPT ![d] = 0]
      /\ UNCHANGED <<task, entry, starting, snapshot>>
  BY <1>1, SMT DEF ContinueDrain, Loop, taskVars
<1> QED
  BY <1>1, <1>2, IdleDrainSlot

(* A loop changes no entry but the one of a job it starts. *)
LEMMA LoopEntry ==
  ASSUME NEW d, NEW q \in Seq(Known), NEW n, NEW js, NEW shared, Loop(d, q, n, js, shared)
  PROVE  \/ UNCHANGED entry
         \/ \E e \in Known : entry' = [entry EXCEPT ![e].status = "running"]
<1> DEFINE valid == {i \in DOMAIN q : ~Moved(q[i])}
           stop  == FirstOf(valid) - 1
<1>1. CASE valid # {} /\ entry' = [entry EXCEPT ![q[stop + 1]].status = "running"]
  <2> HIDE DEF valid
  <2>1. valid \subseteq DOMAIN q /\ valid \subseteq Nat
    BY DEF valid
  <2>2. FirstOf(valid) \in DOMAIN q /\ FirstOf(valid) \in Nat
    BY <1>1, <2>1, FirstOfType
  <2>3. q[stop + 1] \in Known
    BY <2>2, SMT
  <2> QED BY <1>1, <2>3
<1> QED BY <1>1 DEF Loop

LEMMA FreshStep ==
  ASSUME TypeInv, SlotInv, FreshWhileQueued, [Next]_vars
  PROVE  FreshWhileQueued'
<1>1. CASE UNCHANGED entry
  BY <1>1 DEF FreshWhileQueued, IsQueued, Known
<1>2. ASSUME NEW e \in Call, NEW c \in Card, NEW k \in Column, Enqueue(e, c, k)
      PROVE  FreshWhileQueued'
  <2>1. \A x \in Call : x # e => entry'[x] = entry[x]
    BY <1>2 DEF Enqueue, NewEntry, TypeInv, TypeOK
  <2>2. entry'[e].sessionId = None
    BY <1>2 DEF Enqueue, NewEntry, TypeInv, TypeOK
  <2> QED BY <2>1, <2>2 DEF FreshWhileQueued, IsQueued, Known
<1>3. ASSUME NEW p \in Process, NEW s, Active(p), Started(p, s)
      PROVE  FreshWhileQueued'
  <2>1. /\ starting[p] \in Call /\ entry[starting[p]] \in Entry
        /\ entry[starting[p]].status = "running"
    BY <1>3, StartFacts DEF StartKnows, IsRunning
  <2>2. PICK e \in Call : e = starting[p]
    BY <2>1
  <2>3. /\ \A x \in Call : x # e => entry'[x] = entry[x]
        /\ entry'[e].status = "running"
    BY <1>3, <2>1, <2>2 DEF Started, TypeInv, TypeOK, Entry
  <2> QED BY <2>3 DEF FreshWhileQueued, IsQueued, Known
<1>4. ASSUME NEW p \in Process, AlreadyTriggered(p) \/ SaveSession(p)
      PROVE  FreshWhileQueued'
  BY <1>3, <1>4 DEF AlreadyTriggered, SaveSession, Active
<1>5. ASSUME NEW e \in Known, entry' = [entry EXCEPT ![e].status = "running"]
      PROVE  FreshWhileQueued'
  <2>1. /\ \A x \in Call : x # e => entry'[x] = entry[x]
        /\ entry'[e].status = "running"
    BY <1>5 DEF Known, TypeInv, TypeOK, Entry
  <2> QED BY <2>1 DEF FreshWhileQueued, IsQueued, Known
<1>6. ASSUME NEW d \in Drain, BeginDrain(d) \/ ContinueDrain(d)
      PROVE  FreshWhileQueued'
  <2>1. ReconciledQueue \in Seq(Known) /\ held[d] \in Seq(Known)
    BY ReconciledType DEF TypeInv, KnownEntries
  <2>2. UNCHANGED entry \/ \E e \in Known : entry' = [entry EXCEPT ![e].status = "running"]
    BY <1>6, <2>1, LoopEntry DEF BeginDrain, ContinueDrain
  <2> QED BY <1>1, <1>5, <2>2
<1>7. UNCHANGED vars => UNCHANGED entry
  BY DEF vars, queueVars
<1>8. /\ Reconcile => UNCHANGED entry
      /\ \A c \in Card : RemoveCardJob(c) \/ Edit(c) => UNCHANGED entry
      /\ \A p \in Process : CreateSession(p) => UNCHANGED entry
      /\ \A p \in Process, d \in Drain : FailStart(p, d) => UNCHANGED entry
      /\ \A s \in Call, d \in Drain : EndSession(s, d) => UNCHANGED entry
  BY DEF Reconcile, RemoveCardJob, Edit, CreateSession, FailStart, EndSession, queueVars
<1> QED
  BY <1>1, <1>2, <1>4, <1>6, <1>7, <1>8 DEF Next

(* All that is inductive of a queue that runs one job at a time. *)
Inv == TypeInv /\ SlotInv /\ FreshWhileQueued

LEMMA InvInit == Init => Inv
<1> SUFFICES ASSUME Init PROVE SlotInv /\ FreshWhileQueued
  BY TypeInvInit DEF Inv
<1>1. \A c \in Card : jobs[c] = None /\ ~IsRunning(jobs[c])
  BY DEF Init, IsRunning
<1>2. \A p \in Process : ~Active(p) /\ pc[p] # "loop"
  BY DEF Init, Active
<1>3. Known = {}
  BY DEF Init, Known
<1> QED
  BY <1>1, <1>2, <1>3 DEF SlotInv, JobsOfCards, StartKnows, OneStart, DrainCount,
                          OneRuns, FreshWhileQueued, Process

LEMMA InvStep ==
  ASSUME OneAtATime, Inv, [Next]_vars PROVE Inv'
<1>1. TypeInv /\ SlotInv /\ FreshWhileQueued
  BY DEF Inv
<1>2. CASE UNCHANGED vars
  <2>1. SlotInv'
    BY <1>1, <1>2 DEF vars, taskVars, queueVars, startVars, drainVars, SlotInv,
       JobsOfCards, StartKnows, OneStart, DrainCount, OneRuns, Active, CardOf, Refused,
       IsRunning
  <2> QED BY <1>1, <2>1, TypeInvStep, FreshStep DEF Inv
<1>3. CASE Next
  <2>1. SlotInv'
    BY <1>1, <1>3, EnqueueSlot, ReconcileSlot, RemoveSlot, EditSlot, CreateSlot,
       AnsweredSlot, SaveSlot, FailSlot, BeginDrainSlot, ContinueDrainSlot,
       EndSessionSlot DEF Next
  <2> QED BY <1>1, <2>1, TypeInvStep, FreshStep DEF Inv
<1> QED BY <1>2, <1>3

LEMMA Invariant == ASSUME OneAtATime PROVE Spec => []Inv
<1>1. Inv /\ [Next]_vars => Inv'
  BY InvStep
<1> QED BY <1>1, InvInit, PTL DEF Spec

(* No more than one job of a board runs, whatever the calls, the drains and  *)
(* the ends of sessions interleave (drainQueue, startEntry).                 *)
THEOREM LimitRespectedCorrect == ASSUME OneAtATime PROVE Spec => []LimitRespected
<1>1. Inv => LimitRespected
  <2> SUFFICES ASSUME Inv PROVE LimitRespected
    OBVIOUS
  <2> DEFINE Runs == {c \in Card : IsRunning(jobs[c])}
  <2>1. \A b, c \in Runs : b = c
    BY DEF Inv, SlotInv, OneRuns
  <2>2. Cardinality(Runs) <= 1
    <3>1. CASE Runs = {}
      BY <3>1, FS_EmptySet
    <3>2. CASE Runs # {}
      <4>1. PICK c : Runs = {c}
        BY <2>1, <3>2
      <4> QED BY <4>1, FS_Singleton
    <3> QED BY <3>1, <3>2
  <2> QED BY <2>2 DEF LimitRespected, CountRunning, OneAtATime
<1> QED BY <1>1, Invariant, PTL

(* A session is created only for a card that is where the job expects it and *)
(* has none (startKanbanTaskSession).                                        *)
THEOREM StaleNeverStartedCorrect == ASSUME OneAtATime PROVE Spec => StaleNeverStarted
<1> DEFINE Fresh == \A e \in Call : session[e] = "none" /\ session'[e] = "live"
                                      => ~Moved(e) /\ ~WithTrigger(e)
<1>1. Inv /\ [Next]_vars => [Fresh]_vars
  <2> SUFFICES ASSUME Inv, Next, NEW e \in Call, session[e] = "none", session'[e] = "live"
               PROVE  ~Moved(e) /\ ~WithTrigger(e)
    BY DEF vars
  <2>1. TypeInv /\ SlotInv
    BY DEF Inv
  <2>2. ~UNCHANGED session
    OBVIOUS
  <2>3. /\ Reconcile => UNCHANGED session
        /\ \A x \in Call, c \in Card, k \in Column : Enqueue(x, c, k) => UNCHANGED session
        /\ \A c \in Card : RemoveCardJob(c) \/ Edit(c) => UNCHANGED session
        /\ \A p \in Process : AlreadyTriggered(p) \/ SaveSession(p) => UNCHANGED session
        /\ \A p \in Process, d \in Drain : FailStart(p, d) => UNCHANGED session
        /\ \A d \in Drain : BeginDrain(d) \/ ContinueDrain(d) => UNCHANGED session
    BY DEF Enqueue, Reconcile, RemoveCardJob, Edit, AlreadyTriggered, SaveSession,
           FailStart, BeginDrain, ContinueDrain
  <2>4. \A s \in Call, d \in Drain : ~EndSession(s, d)
    BY <2>1 DEF EndSession, TypeInv, TypeOK
  <2>5. PICK p \in Process : CreateSession(p)
    BY <2>2, <2>3, <2>4 DEF Next
  <2>6. Active(p) /\ ~Refused(p) /\ snapshot[p].trigger = None /\ starting[p] = e
    BY <2>1, <2>5 DEF CreateSession, Active, TypeInv, TypeOK
  <2>7. snapshot[p] = task[entry[e].card]
    BY <2>1, <2>6, StartFacts DEF StartKnows, CardOf
  <2> QED BY <2>6, <2>7 DEF Moved, WithTrigger, Refused
<1> QED BY <1>1, Invariant, PTL DEF Spec, StaleNeverStarted
=============================================================================
