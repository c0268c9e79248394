------------------------ MODULE SessionRuntimeProofs ------------------------
(* Type correctness and lease safety of SessionRuntime, for any number of   *)
(* instances and prompts, any lease and any bound on the faults.            *)
EXTENDS SessionRuntime, TLAPS

(* What the helpers of the actions preserve, part by part. *)
LEMMA CountdownType == \A n \in 0..Lease : Countdown(n) \in 0..Lease
BY LeaseAssumption DEF Countdown

LEMMA StartRecoveryType ==
  ASSUME EnsureTypeOK, NEW i \in Instance, NEW fresh \in BOOLEAN,
         StartRecovery(i, fresh)
  PROVE  EnsureTypeOK'
BY LeaseAssumption DEF EnsureTypeOK, StartRecovery, EnsureState

LEMMA SettleEnsureType ==
  ASSUME EnsureTypeOK, NEW i \in Instance, NEW outcome, SettleRecovery(i, outcome)
  PROVE  EnsureTypeOK'
BY LeaseAssumption DEF EnsureTypeOK, SettleRecovery, EnsureState

LEMMA SettlePromptType ==
  ASSUME PromptTypeOK, NEW i \in Instance, NEW outcome \in PromptState,
         SettleRecovery(i, outcome)
  PROVE  PromptTypeOK'
BY LeaseAssumption DEF PromptTypeOK, SettleRecovery

LEMMA SettleType ==
  ASSUME EnsureTypeOK, PromptTypeOK, NEW i \in Instance
  PROVE  /\ Fail(i) => EnsureTypeOK' /\ PromptTypeOK'
         /\ \A known \in BOOLEAN :
              Succeed(i, known) => EnsureTypeOK' /\ PromptTypeOK'
<1>1. /\ "done" \in PromptState
      /\ \A known : (IF known THEN "checking" ELSE "cleared") \in PromptState
  BY DEF PromptState
<1> QED
  BY <1>1, SettleEnsureType, SettlePromptType DEF Fail, Succeed

LEMMA UpsertType ==
  ASSUME RecordTypeOK, NEW i, NEW owner \in Owners, NEW lease \in 0..Lease,
         upsertSession(i, owner, lease)
  PROVE  RecordTypeOK'
BY DEF RecordTypeOK, upsertSession

LEMMA RowWriteType ==
  ASSUME RowTypeOK, NEW owner \in Owners, NEW lease \in 0..Lease,
         \/ tryAcquireExpiredLease(owner, lease)
         \/ updateRuntimeBinding(owner, lease)
         \/ persistSessionToDb(owner, lease)
  PROVE  RowTypeOK'
BY DEF RowTypeOK, tryAcquireExpiredLease, updateRuntimeBinding, persistSessionToDb

LEMMA BuildRefreshType ==
  ASSUME BackgroundTypeOK, NEW i \in Instance, NEW kind \in RefreshState,
         BuildRefresh(i, kind), UNCHANGED release
  PROVE  BackgroundTypeOK'
BY LeaseAssumption DEF BackgroundTypeOK, BuildRefresh, snapVars

(* What an action leaves alone keeps its type. *)
LEMMA UnchangedType ==
  ASSUME VariablesOK
  PROVE  /\ UNCHANGED rowVars => RowTypeOK'
         /\ UNCHANGED procVars => ProcTypeOK'
         /\ UNCHANGED runtime => RuntimeTypeOK'
         /\ UNCHANGED recVars => RecordTypeOK'
         /\ UNCHANGED ensVars => EnsureTypeOK'
         /\ UNCHANGED <<workVars, release>> => BackgroundTypeOK'
         /\ UNCHANGED promptVars => PromptTypeOK'
BY DEF VariablesOK, rowVars, procVars, hydVars, recVars, ensVars, workVars, promptVars,
       RowTypeOK, ProcTypeOK, RuntimeTypeOK, RecordTypeOK, EnsureTypeOK,
       BackgroundTypeOK, PromptTypeOK

LEMMA LeaseInRange == Lease \in 0..Lease /\ 0 \in 0..Lease
BY LeaseAssumption

(* A prompt is submitted, a session resumed: only the recovery and the prompt *)
(* change.                                                                    *)
LEMMA SubmitPromptType ==
  ASSUME VariablesOK, NEW p \in Prompt, NEW i \in Instance, SubmitPrompt(p, i)
  PROVE  VariablesOK'
<1>1. EnsureTypeOK'
  <2>1. CASE ensPc[i] = "idle"
    BY <2>1, StartRecoveryType DEF SubmitPrompt, VariablesOK
  <2>2. CASE ensPc[i] # "idle"
    BY <2>2, UnchangedType DEF SubmitPrompt
  <2> QED BY <2>1, <2>2
<1>2. PromptTypeOK'
  BY DEF SubmitPrompt, VariablesOK, PromptTypeOK, PromptState, Owners
<1> QED
  BY <1>1, <1>2, UnchangedType DEF SubmitPrompt, VariablesOK, procVars

LEMMA ResumeType ==
  ASSUME VariablesOK, NEW i \in Instance, Resume(i)
  PROVE  VariablesOK'
BY StartRecoveryType, UnchangedType DEF Resume, VariablesOK

(* The stretches of a recovery. *)
LEMMA RecoverType ==
  ASSUME VariablesOK, NEW i \in Instance, Recover(i)
  PROVE  VariablesOK'
<1>1. CASE LoadSnapshot(i)
  <2>1. CASE Fail(i)
    BY <1>1, <2>1, SettleType, UnchangedType DEF LoadSnapshot, VariablesOK
  <2>2. CASE ~Fail(i)
    <3>1. PromptTypeOK'
      BY <1>1, <2>2, UnchangedType DEF LoadSnapshot
    <3>2. EnsureTypeOK'
      BY <1>1, <2>2 DEF LoadSnapshot, VariablesOK, EnsureTypeOK, EnsureState
    <3> QED BY <1>1, <3>1, <3>2, UnchangedType DEF LoadSnapshot, VariablesOK
  <2> QED BY <2>1, <2>2
<1>2. CASE Attach(i)
  <2>1. RecordTypeOK'
    BY <1>2, UpsertType, UnchangedType, LeaseInRange DEF Attach, VariablesOK, Owners
  <2>2. BackgroundTypeOK'
    BY <1>2, BuildRefreshType, UnchangedType DEF Attach, VariablesOK, RefreshState
  <2>3. EnsureTypeOK' /\ PromptTypeOK'
    <3>1. (ensSnap[i] \/ recKnown[i]) \in BOOLEAN
      OBVIOUS
    <3> QED BY <1>2, <3>1, SettleType DEF Attach, VariablesOK
  <2> QED BY <1>2, <2>1, <2>2, <2>3, UnchangedType DEF Attach, VariablesOK
<1>3. CASE BeginAcquisition(i)
  <2>1. CASE Fail(i)
    BY <1>3, <2>1, SettleType, UnchangedType DEF BeginAcquisition, VariablesOK
  <2>2. CASE ~Fail(i)
    <3>1. EnsureTypeOK'
      BY <1>3, <2>2, LeaseInRange
         DEF BeginAcquisition, VariablesOK, EnsureTypeOK, EnsureState
    <3> QED BY <1>3, <2>2, <3>1, UnchangedType DEF BeginAcquisition, VariablesOK
  <2> QED BY <2>1, <2>2
<1>4. CASE AcquireLease(i)
  <2>1. RowTypeOK'
    BY <1>4, RowWriteType, UnchangedType
       DEF AcquireLease, VariablesOK, EnsureTypeOK, Owners
  <2>2. CASE Fail(i)
    BY <1>4, <2>1, <2>2, SettleType, UnchangedType DEF AcquireLease, VariablesOK
  <2>3. CASE ~Fail(i)
    <3>1. EnsureTypeOK'
      BY <1>4, <2>3 DEF AcquireLease, VariablesOK, EnsureTypeOK, EnsureState
    <3> QED BY <1>4, <2>1, <2>3, <3>1, UnchangedType DEF AcquireLease, VariablesOK
  <2> QED BY <2>2, <2>3
<1>5. CASE ClassifyRefusal(i)
  <2>1. CASE Fail(i)
    BY <1>5, <2>1, SettleType, UnchangedType DEF ClassifyRefusal, VariablesOK
  <2>2. CASE ~Fail(i)
    <3>1. EnsureTypeOK'
      BY <1>5, <2>2 DEF ClassifyRefusal, VariablesOK, EnsureTypeOK, EnsureState
    <3> QED BY <1>5, <2>2, <3>1, UnchangedType DEF ClassifyRefusal, VariablesOK
  <2> QED BY <2>1, <2>2
<1>6. CASE StartRuntime(i)
  <2>1. RuntimeTypeOK'
    BY <1>6 DEF StartRuntime, VariablesOK, RuntimeTypeOK, RuntimeState
  <2>2. CASE Fail(i)
    BY <1>6, <2>1, <2>2, SettleType, UnchangedType DEF StartRuntime, VariablesOK
  <2>3. CASE ~Fail(i)
    <3>1. EnsureTypeOK'
      BY <1>6, <2>3 DEF StartRuntime, VariablesOK, EnsureTypeOK, EnsureState
    <3> QED BY <1>6, <2>1, <2>3, <3>1, UnchangedType DEF StartRuntime, VariablesOK
  <2> QED BY <2>2, <2>3
<1>9. CASE RecordRuntime(i)
  <2>1. EnsureTypeOK'
    BY <1>9 DEF RecordRuntime, VariablesOK, EnsureTypeOK, EnsureState
  <2>2. RecordTypeOK'
    BY <1>9, UpsertType DEF RecordRuntime, VariablesOK, EnsureTypeOK, Owners
  <2> QED BY <1>9, <2>1, <2>2, UnchangedType DEF RecordRuntime, VariablesOK
<1>7. CASE BindRuntime(i)
  <2>0. recKnown[i] \in BOOLEAN
    BY DEF VariablesOK, RecordTypeOK
  <2>1. RowTypeOK'
    BY <1>7, RowWriteType, UnchangedType
       DEF BindRuntime, VariablesOK, EnsureTypeOK, Owners
  <2>2. CASE Succeed(i, recKnown[i])
    BY <1>7, <2>0, <2>1, <2>2, SettleType, UnchangedType DEF BindRuntime, VariablesOK
  <2>3. CASE ~Succeed(i, recKnown[i])
    <3>1. EnsureTypeOK'
      BY <1>7, <2>3 DEF BindRuntime, VariablesOK, EnsureTypeOK, EnsureState
    <3> QED BY <1>7, <2>1, <2>3, <3>1, UnchangedType DEF BindRuntime, VariablesOK
  <2> QED BY <2>2, <2>3
<1>8. CASE SaveSession(i)
  <2>1. recKnown[i] \in BOOLEAN
    BY DEF VariablesOK, RecordTypeOK
  <2>2. RowTypeOK'
    BY <1>8, RowWriteType, UnchangedType
       DEF SaveSession, VariablesOK, EnsureTypeOK, Owners
  <2> QED BY <1>8, <2>1, <2>2, SettleType, UnchangedType DEF SaveSession, VariablesOK
<1> QED
  BY <1>1, <1>2, <1>3, <1>4, <1>5, <1>6, <1>7, <1>8, <1>9 DEF Recover

(* The life of a prompt, after the recovery it joined. *)
LEMMA PromptStepType ==
  ASSUME VariablesOK, NEW p \in Prompt,
         CheckLease(p) \/ Dispatch(p) \/ FinishTurn(p)
  PROVE  VariablesOK'
<1> DEFINE i == promptAt[p]
<1>1. i \in Owners /\ promptLease[p] \in 0..Lease
  BY DEF VariablesOK, PromptTypeOK
<1>2. CASE CheckLease(p)
  <2>1. CASE Owned(p, i)
    <3>1. RowTypeOK' /\ RecordTypeOK'
      BY <1>1, <2>1, RowWriteType, UpsertType DEF Owned, VariablesOK
    <3>2. PromptTypeOK'
      BY <1>2, <2>1 DEF CheckLease, Owned, VariablesOK, PromptTypeOK, PromptState
    <3> QED
      BY <1>2, <2>1, <3>1, <3>2, UnchangedType DEF CheckLease, Owned, VariablesOK
  <2>2. CASE NoRecord(p, i) \/ Lost(p, i) \/ Unavailable(p)
    <3>1. PromptTypeOK'
      BY <1>2, <2>2, LeaseInRange
         DEF CheckLease, NoRecord, Lost, Unavailable, VariablesOK, PromptTypeOK,
             PromptState
    <3>2. RuntimeTypeOK'
      BY <2>2 DEF NoRecord, Lost, Kill, Unavailable, VariablesOK, RuntimeTypeOK,
                  RuntimeState
    <3>3. BackgroundTypeOK'
      BY <1>2, <2>2
         DEF CheckLease, NoRecord, Lost, Unavailable, VariablesOK, BackgroundTypeOK,
             ReleaseState, workVars
    <3> QED
      BY <1>2, <2>2, <3>1, <3>2, <3>3, UnchangedType
         DEF CheckLease, NoRecord, Lost, Unavailable, VariablesOK
  <2> QED BY <1>2, <2>1, <2>2 DEF CheckLease
<1>3. CASE Dispatch(p)
  <2>1. PromptTypeOK'
    BY <1>3, LeaseInRange DEF Dispatch, VariablesOK, PromptTypeOK, PromptState
  <2>2. RuntimeTypeOK'
    BY <1>3 DEF Dispatch, VariablesOK, RuntimeTypeOK, RuntimeState
  <2> QED BY <1>3, <2>1, <2>2, UnchangedType DEF Dispatch, VariablesOK
<1>4. CASE FinishTurn(p)
  <2>1. PromptTypeOK'
    BY <1>4 DEF FinishTurn, VariablesOK, PromptTypeOK, PromptState
  <2> QED BY <1>4, <2>1, UnchangedType DEF FinishTurn, VariablesOK
<1> QED
  BY <1>2, <1>3, <1>4

(* The fire-and-forget work of an instance. *)
LEMMA BackgroundType ==
  ASSUME VariablesOK, NEW i \in Instance,
         \/ RefreshLease(i) \/ CompleteRefresh(i) \/ ReadSessions(i) \/ Hydrate(i)
         \/ BeginRelease(i) \/ KillReleased(i) \/ FinishRelease(i)
         \/ ReadRow(i) \/ WriteRow(i)
  PROVE  VariablesOK'
<1>1. CASE RefreshLease(i)
  BY <1>1, BuildRefreshType, UnchangedType DEF RefreshLease, VariablesOK, RefreshState
<1>2. CASE CompleteRefresh(i)
  <2>1. RowTypeOK'
    BY <1>2, RowWriteType, UnchangedType
       DEF CompleteRefresh, VariablesOK, BackgroundTypeOK, Owners
  <2>2. RecordTypeOK'
    BY <1>2, UpsertType, UnchangedType, LeaseInRange
       DEF CompleteRefresh, VariablesOK, Owners
  <2>3. BackgroundTypeOK'
    BY <1>2, LeaseInRange
       DEF CompleteRefresh, VariablesOK, BackgroundTypeOK, RefreshState, snapVars
  <2> QED BY <1>2, <2>1, <2>2, <2>3, UnchangedType DEF CompleteRefresh, VariablesOK
<1>3. CASE ReadSessions(i) \/ Hydrate(i)
  <2>1. CASE Hydrate(i)
    <3>1. hydOwner[i] \in Owners /\ hydLease[i] \in 0..Lease
      BY DEF VariablesOK, ProcTypeOK
    <3>2. RecordTypeOK'
      BY <2>1, <3>1, UpsertType, UnchangedType DEF Hydrate, VariablesOK
    <3>3. ProcTypeOK'
      BY <2>1, LeaseInRange DEF Hydrate, VariablesOK, ProcTypeOK, HydrateState, Owners
    <3> QED BY <2>1, <3>2, <3>3, UnchangedType DEF Hydrate, VariablesOK
  <2>2. CASE ReadSessions(i)
    <3>1. ProcTypeOK'
      BY <2>2 DEF ReadSessions, VariablesOK, ProcTypeOK, RowTypeOK, HydrateState
    <3> QED BY <2>2, <3>1, UnchangedType DEF ReadSessions, VariablesOK
  <2> QED BY <1>3, <2>1, <2>2
<1>4. CASE BeginRelease(i) \/ KillReleased(i) \/ FinishRelease(i)
  <2>1. BackgroundTypeOK'
    BY <1>4 DEF BeginRelease, KillReleased, FinishRelease, VariablesOK,
                BackgroundTypeOK, ReleaseState, workVars
  <2>2. RuntimeTypeOK'
    BY <1>4 DEF BeginRelease, KillReleased, Kill, FinishRelease, VariablesOK,
                RuntimeTypeOK, RuntimeState
  <2>3. RecordTypeOK'
    BY <1>4, LeaseInRange
       DEF BeginRelease, KillReleased, FinishRelease, VariablesOK, RecordTypeOK,
           Owners, recVars
  <2> QED
    BY <1>4, <2>1, <2>2, <2>3, UnchangedType
       DEF BeginRelease, KillReleased, FinishRelease, VariablesOK
<1>5. CASE ReadRow(i) \/ WriteRow(i)
  <2>1. BackgroundTypeOK'
    BY <1>5, LeaseInRange
       DEF ReadRow, WriteRow, VariablesOK, BackgroundTypeOK, RowTypeOK, Owners
  <2>2. RowTypeOK'
    BY <1>5, UnchangedType
       DEF ReadRow, WriteRow, VariablesOK, BackgroundTypeOK, RowTypeOK
  <2> QED BY <1>5, <2>1, <2>2, UnchangedType DEF ReadRow, WriteRow, VariablesOK
<1> QED
  BY <1>1, <1>2, <1>3, <1>4, <1>5

(* Faults and the clock. *)
LEMMA FaultType ==
  ASSUME VariablesOK, NEW i \in Instance,
         RuntimeExits(i) \/ Crash(i) \/ Restart(i)
  PROVE  VariablesOK'
<1>1. ProcTypeOK'
  <2>1. faults' \in 0..MaxFaults
    BY FaultAssumption DEF RuntimeExits, Crash, Restart, VariablesOK, ProcTypeOK
  <2>2. up' \in [Instance -> BOOLEAN]
    BY DEF RuntimeExits, Crash, Restart, VariablesOK, ProcTypeOK
  <2>3. /\ hydrated' \in [Instance -> HydrateState]
        /\ hydOwner' \in [Instance -> Owners]
        /\ hydLease' \in [Instance -> 0..Lease]
    <3>1. CASE UNCHANGED hydVars
      BY <3>1 DEF hydVars, VariablesOK, ProcTypeOK
    <3>2. CASE Crash(i)
      BY <3>2, LeaseInRange DEF Crash, VariablesOK, ProcTypeOK, HydrateState, Owners
    <3> QED BY <3>1, <3>2 DEF RuntimeExits, Restart
  <2> QED BY <2>1, <2>2, <2>3 DEF ProcTypeOK
<1>2. RuntimeTypeOK'
  BY DEF RuntimeExits, Crash, Restart, VariablesOK, RuntimeTypeOK, RuntimeState
<1>3. CASE RuntimeExits(i) \/ Restart(i)
  BY <1>1, <1>2, <1>3, UnchangedType DEF RuntimeExits, Restart, VariablesOK
<1>4. CASE Crash(i)
  <2>1. RecordTypeOK'
    BY <1>4, LeaseInRange DEF Crash, VariablesOK, RecordTypeOK, Owners
  <2>2. EnsureTypeOK'
    BY <1>4, LeaseInRange DEF Crash, VariablesOK, EnsureTypeOK, EnsureState
  <2>3. BackgroundTypeOK'
    BY <1>4, LeaseInRange
       DEF Crash, VariablesOK, BackgroundTypeOK, RefreshState, ReleaseState, Owners
  <2>4. PromptTypeOK'
    BY <1>4, LeaseInRange DEF Crash, VariablesOK, PromptTypeOK, PromptState
  <2> QED
    BY <1>1, <1>2, <1>4, <2>1, <2>2, <2>3, <2>4, UnchangedType DEF Crash, VariablesOK
<1> QED
  BY <1>3, <1>4

LEMMA TickType ==
  ASSUME VariablesOK, Tick
  PROVE  VariablesOK'
<1>1. RowTypeOK' /\ RecordTypeOK'
  BY CountdownType DEF Tick, VariablesOK, RowTypeOK, RecordTypeOK
<1>2. EnsureTypeOK' /\ PromptTypeOK'
  BY CountdownType DEF Tick, VariablesOK, EnsureTypeOK, PromptTypeOK
<1>3. BackgroundTypeOK' /\ ProcTypeOK'
  BY CountdownType DEF Tick, VariablesOK, BackgroundTypeOK, ProcTypeOK
<1> QED
  BY <1>1, <1>2, <1>3, UnchangedType DEF Tick, VariablesOK

LEMMA VariablesCorrect == Spec => []VariablesOK
<1>1. Init => VariablesOK
  <2> SUFFICES ASSUME Init PROVE VariablesOK
    OBVIOUS
  <2> QED
    BY LeaseInRange, FaultAssumption, SwitchAssumption
       DEF Init, VariablesOK, RowTypeOK, ProcTypeOK, RuntimeTypeOK, RecordTypeOK,
           EnsureTypeOK, BackgroundTypeOK, PromptTypeOK, Owners, RuntimeState,
           EnsureState, RefreshState, ReleaseState, PromptState, HydrateState
<1>2. VariablesOK /\ [Next]_vars => VariablesOK'
  <2> SUFFICES ASSUME VariablesOK, [Next]_vars PROVE VariablesOK'
    OBVIOUS
  <2>1. CASE UNCHANGED vars
    BY <2>1, UnchangedType DEF vars, VariablesOK
  <2> QED
    BY <2>1, SubmitPromptType, ResumeType, RecoverType, PromptStepType,
       BackgroundType, FaultType, TickType DEF Next
<1> QED
  BY <1>1, <1>2, PTL DEF Spec

(* A recovery ends with an answer to everyone who joined it ... *)
LEMMA SettleJoined ==
  ASSUME VariablesOK, JoinedWaits, NEW i \in Instance,
         NEW outcome \in {"checking", "cleared", "done"}, SettleRecovery(i, outcome)
  PROVE  JoinedWaits'
BY DEF JoinedWaits, SettleRecovery, VariablesOK, EnsureTypeOK, PromptTypeOK

(* ... and goes on until it does. *)
LEMMA GoesOnJoined ==
  ASSUME VariablesOK, JoinedWaits,
         \A i \in Instance : ensPc[i] # "idle" => ensPc'[i] # "idle",
         \A p \in Prompt :
           promptPc'[p] = "ensuring" => promptPc[p] = "ensuring" /\ promptAt'[p] = promptAt[p]
  PROVE  JoinedWaits'
BY DEF JoinedWaits

LEMMA RecoverJoined ==
  ASSUME VariablesOK, JoinedWaits, NEW i \in Instance, Recover(i)
  PROVE  JoinedWaits'
<1>1. CASE Fail(i)
  BY <1>1, SettleJoined DEF Fail
<1>2. CASE \E known : Succeed(i, known)
  <2>1. PICK known : Succeed(i, known)
    BY <1>2
  <2>2. (IF known THEN "checking" ELSE "cleared") \in {"checking", "cleared", "done"}
    OBVIOUS
  <2> QED BY <2>1, <2>2, SettleJoined DEF Succeed
<1>3. CASE ~Fail(i) /\ ~\E known : Succeed(i, known)
  <2>1. UNCHANGED promptVars
    BY <1>3 DEF Recover, LoadSnapshot, Attach, BeginAcquisition, AcquireLease,
                ClassifyRefusal, StartRuntime, RecordRuntime, BindRuntime, SaveSession
  <2>2. \A j \in Instance : ensPc[j] # "idle" => ensPc'[j] # "idle"
    BY <1>3 DEF Recover, LoadSnapshot, Attach, BeginAcquisition, AcquireLease,
                ClassifyRefusal, StartRuntime, RecordRuntime, BindRuntime, SaveSession,
                VariablesOK, EnsureTypeOK
  <2> QED BY <2>1, <2>2, GoesOnJoined DEF promptVars
<1> QED
  BY <1>1, <1>2, <1>3

LEMMA JoinedStep ==
  ASSUME VariablesOK, JoinedWaits, [Next]_vars
  PROVE  JoinedWaits'
<1>1. ASSUME NEW p \in Prompt, NEW i \in Instance, SubmitPrompt(p, i)
      PROVE  JoinedWaits'
  <2>1. /\ ensPc'[i] # "idle"
        /\ \A j \in Instance : ensPc[j] # "idle" => ensPc'[j] # "idle"
    BY <1>1 DEF SubmitPrompt, StartRecovery, ensVars, VariablesOK, EnsureTypeOK
  <2> QED BY <1>1, <2>1 DEF SubmitPrompt, JoinedWaits, VariablesOK, PromptTypeOK
<1>2. ASSUME NEW i \in Instance, Resume(i)
      PROVE  JoinedWaits'
  BY <1>2, GoesOnJoined DEF Resume, StartRecovery, promptVars, VariablesOK, EnsureTypeOK
<1>3. ASSUME NEW i \in Instance, Crash(i)
      PROVE  JoinedWaits'
  BY <1>3 DEF Crash, JoinedWaits, VariablesOK, EnsureTypeOK, PromptTypeOK
<1>4. ASSUME NEW p \in Prompt, CheckLease(p) \/ Dispatch(p) \/ FinishTurn(p)
      PROVE  JoinedWaits'
  <2>1. UNCHANGED <<ensPc, promptAt>>
    BY <1>4 DEF CheckLease, Dispatch, FinishTurn, ensVars
  <2>2. \A q \in Prompt : promptPc'[q] = "ensuring" => promptPc[q] = "ensuring"
    BY <1>4 DEF CheckLease, Owned, NoRecord, Lost, Unavailable, Dispatch, FinishTurn,
                VariablesOK, PromptTypeOK
  <2> QED BY <2>1, <2>2, GoesOnJoined
<1>5. ASSUME UNCHANGED <<ensPc, promptPc, promptAt>>
      PROVE  JoinedWaits'
  BY <1>5, GoesOnJoined
<1>6. ASSUME NEW i \in Instance,
             \/ RefreshLease(i) \/ CompleteRefresh(i) \/ ReadSessions(i) \/ Hydrate(i)
             \/ ReadRow(i) \/ WriteRow(i)
             \/ BeginRelease(i) \/ KillReleased(i) \/ FinishRelease(i)
             \/ RuntimeExits(i) \/ Restart(i)
      PROVE  JoinedWaits'
  BY <1>6, <1>5 DEF RefreshLease, CompleteRefresh, ReadSessions, Hydrate, ReadRow,
         WriteRow, BeginRelease, KillReleased, FinishRelease, RuntimeExits, Restart,
         ensVars, promptVars
<1>7. ASSUME Tick \/ UNCHANGED vars
      PROVE  JoinedWaits'
  BY <1>7, <1>5 DEF Tick, vars, ensVars, promptVars
<1> QED
  BY <1>1, <1>2, <1>3, <1>4, <1>6, <1>7, RecoverJoined DEF Next

(* Every state has the types of its variables, and whoever joined a recovery  *)
(* has one in flight to wait for.                                             *)
THEOREM TypeCorrect == Spec => []TypeOK
<1>1. Init => JoinedWaits
  BY DEF Init, JoinedWaits
<1>2. VariablesOK /\ JoinedWaits /\ [Next]_vars => JoinedWaits'
  BY JoinedStep
<1>3. VariablesOK /\ JoinedWaits => TypeOK
  BY DEF TypeOK
<1> QED
  BY <1>1, <1>2, <1>3, VariablesCorrect, PTL DEF Spec

-----------------------------------------------------------------------------
(* What the safety of the lease rests on: the row was saved, its reads do not *)
(* fail, no handler outstays the lease it relies on, and no snapshot of the   *)
(* history writes an old row back.                                            *)
Reliable ==
  /\ RowPersisted /\ ~DbReadsFail /\ LeaseOutlivesSteps
  /\ "history" \notin Background

(* The row as seen by the owner of an active lease. *)
RowKept ==
  /\ rowPresent'
  /\ rowOwner # NoOwner /\ rowLease > 0 => rowOwner' = rowOwner /\ rowLease' > 0

(* A compare-and-swap that writes an expiry that lies ahead takes no active *)
(* lease from its owner ...                                                 *)
LEMMA AcquireKeepsRow ==
  ASSUME rowPresent, NEW owner, NEW lease, lease > 0,
         tryAcquireExpiredLease(owner, lease)
  PROVE  RowKept /\ rowOwner' = owner /\ rowLease' > 0
BY DEF tryAcquireExpiredLease, Claimable, RowKept

(* ... and neither do the unconditional writes, when the owner makes them. *)
LEMMA OwnerKeepsRow ==
  ASSUME rowPresent, NEW lease, lease > 0,
         updateRuntimeBinding(rowOwner, lease) \/ persistSessionToDb(rowOwner, lease)
  PROVE  RowKept /\ rowOwner' = rowOwner /\ rowLease' > 0
BY DEF updateRuntimeBinding, persistSessionToDb, RowKept

LEMMA UnchangedKeepsRow ==
  ASSUME rowPresent, UNCHANGED rowVars
  PROVE  RowKept
BY DEF rowVars, RowKept

(* A step after which nobody runs under a lease who did not before it. *)
NobodyNew ==
  /\ \A j \in Instance : Started(j)' => Started(j)
  /\ \A p \in Prompt : Cleared(p)' => Cleared(p) /\ promptAt'[p] = promptAt[p]

(* Such a step keeps everybody under a lease, when it keeps the row. *)
LEMMA KeptInv ==
  ASSUME LeaseInv, RowKept, NobodyNew, RecoveryInv', RefreshInv', PromptInv'
  PROVE  LeaseInv'
<1>1. StartsUnderLease'
  BY OwnerAssumption DEF LeaseInv, RowKept, NobodyNew, StartsUnderLease
<1>2. ClearedHoldsLease'
  <2> SUFFICES ASSUME NEW p \in Prompt, Cleared(p)'
               PROVE  rowOwner' = promptAt'[p] /\ rowLease' > 0
    BY DEF ClearedHoldsLease
  <2>1. Cleared(p) /\ promptAt'[p] = promptAt[p]
    BY DEF NobodyNew
  <2>2. promptAt[p] # NoOwner
    BY <2>1 DEF LeaseInv, PromptInv, Cleared
  <2> QED BY <2>1, <2>2 DEF LeaseInv, ClearedHoldsLease, RowKept
<1> QED
  BY <1>1, <1>2 DEF LeaseInv, RowKept

(* What an action leaves alone keeps its part of the invariant. *)
LEMMA UnchangedInv ==
  ASSUME LeaseInv
  PROVE  /\ UNCHANGED ensVars =>
              RecoveryInv' /\ \A j \in Instance : Started(j)' => Started(j)
         /\ UNCHANGED workVars => RefreshInv'
         /\ UNCHANGED promptVars =>
              /\ PromptInv'
              /\ \A p \in Prompt :
                   Cleared(p)' => Cleared(p) /\ promptAt'[p] = promptAt[p]
         /\ UNCHANGED rowVars => RowKept
<1>1. rowPresent
  BY DEF LeaseInv
<1> QED
  BY <1>1, UnchangedKeepsRow
     DEF LeaseInv, ensVars, workVars, promptVars, RecoveryInv, RefreshInv,
         PromptInv, Acquired, Started, Checking, Cleared

(* A recovery that settles ends under no lease, and lets nobody through. *)
LEMMA SettleInv ==
  ASSUME VariablesOK, LeaseInv, NEW i \in Instance, NEW outcome,
         outcome \in {"checking", "cleared", "done"}, SettleRecovery(i, outcome)
  PROVE  RecoveryInv' /\ PromptInv' /\ NobodyNew
<1>1. RecoveryInv'
  BY DEF SettleRecovery, LeaseInv, RecoveryInv, Acquired, VariablesOK, EnsureTypeOK
<1>2. PromptInv'
  BY LeaseAssumption
     DEF SettleRecovery, LeaseInv, PromptInv, Checking, VariablesOK, PromptTypeOK
<1>3. ASSUME NEW j \in Instance, Started(j)'
      PROVE  Started(j)
  BY <1>3 DEF SettleRecovery, Started, VariablesOK, EnsureTypeOK
<1>4. ASSUME NEW p \in Prompt, Cleared(p)'
      PROVE  Cleared(p) /\ promptAt'[p] = promptAt[p]
  <2>1. CASE promptPc[p] = "ensuring" /\ promptAt[p] = i
    <3>1. promptLease[p] = 0
      BY <2>1 DEF LeaseInv, PromptInv
    <3>2. promptPc'[p] = outcome
      BY <2>1 DEF SettleRecovery
    <3> QED BY <1>4, <2>1, <3>1, <3>2 DEF SettleRecovery, Cleared
  <2>2. CASE ~(promptPc[p] = "ensuring" /\ promptAt[p] = i)
    BY <1>4, <2>2 DEF SettleRecovery, Cleared
  <2> QED BY <2>1, <2>2
<1> QED
  BY <1>1, <1>2, <1>3, <1>4 DEF NobodyNew

LEMMA FailInv ==
  ASSUME VariablesOK, LeaseInv, NEW i \in Instance, Fail(i)
  PROVE  RecoveryInv' /\ PromptInv' /\ NobodyNew
BY SettleInv DEF Fail

LEMMA SucceedInv ==
  ASSUME VariablesOK, LeaseInv, NEW i \in Instance, NEW known, Succeed(i, known)
  PROVE  RecoveryInv' /\ PromptInv' /\ NobodyNew
<1>1. (IF known THEN "checking" ELSE "cleared") \in {"checking", "cleared", "done"}
  OBVIOUS
<1> QED BY <1>1, SettleInv DEF Succeed

LEMMA BuildRefreshInv ==
  ASSUME VariablesOK, LeaseInv, NEW i \in Instance, NEW kind, BuildRefresh(i, kind)
  PROVE  RefreshInv'
BY LeaseAssumption
   DEF LeaseInv, RefreshInv, BuildRefresh, VariablesOK, BackgroundTypeOK, snapVars

-----------------------------------------------------------------------------
(* The steps of a recovery. *)
LEMMA RecoverInv ==
  ASSUME Reliable, VariablesOK, LeaseInv, NEW i \in Instance, Recover(i)
  PROVE  LeaseInv' /\ RowKept
<1> USE DEF Started, Acquired
<1>0. rowPresent /\ ~DbReadsFail
  BY DEF LeaseInv, Reliable
<1>1. CASE LoadSnapshot(i)
  <2>1. CASE Fail(i)
    BY <1>1, <2>1, FailInv, UnchangedInv, KeptInv DEF LoadSnapshot
  <2>2. CASE ~Fail(i)
    <3>1. RecoveryInv'
      BY <1>0, <1>1, <2>2
         DEF LoadSnapshot, LeaseInv, RecoveryInv, VariablesOK, EnsureTypeOK
    <3>2. NobodyNew /\ PromptInv'
      BY <1>1, <2>2, UnchangedInv
         DEF LoadSnapshot, NobodyNew, VariablesOK, EnsureTypeOK
    <3> QED BY <1>1, <3>1, <3>2, UnchangedInv, KeptInv DEF LoadSnapshot
  <2> QED BY <2>1, <2>2
<1>2. CASE Attach(i)
  <2>1. RecoveryInv' /\ PromptInv' /\ NobodyNew
    BY <1>2, SucceedInv DEF Attach
  <2>2. RefreshInv'
    BY <1>2, BuildRefreshInv, UnchangedInv DEF Attach
  <2> QED BY <1>2, <2>1, <2>2, UnchangedInv, KeptInv DEF Attach
<1>3. CASE BeginAcquisition(i)
  <2>1. ensSnap[i]
    BY <1>3 DEF BeginAcquisition, LeaseInv, RecoveryInv
  <2>2. RecoveryInv'
    BY <1>3, <2>1, LeaseAssumption
       DEF BeginAcquisition, LeaseInv, RecoveryInv, VariablesOK, EnsureTypeOK
  <2>3. NobodyNew /\ PromptInv'
    BY <1>3, <2>1, UnchangedInv
       DEF BeginAcquisition, NobodyNew, VariablesOK, EnsureTypeOK
  <2> QED BY <1>3, <2>2, <2>3, UnchangedInv, KeptInv DEF BeginAcquisition
<1>4. CASE AcquireLease(i)
  <2>1. ensLease[i] > 0
    BY <1>4 DEF AcquireLease, LeaseInv, RecoveryInv
  <2>2. CASE UNCHANGED rowVars /\ Fail(i)
    BY <1>4, <2>2, FailInv, UnchangedInv, KeptInv DEF AcquireLease
  <2>3. CASE tryAcquireExpiredLease(i, ensLease[i])
    <3>1. RowKept /\ rowOwner' = i /\ rowLease' > 0
      BY <1>0, <2>1, <2>3, AcquireKeepsRow
    <3>2. CASE Fail(i)
      BY <1>4, <3>1, <3>2, FailInv, UnchangedInv, KeptInv DEF AcquireLease
    <3>3. CASE ~Fail(i)
      <4>1. RecoveryInv'
        BY <1>0, <1>4, <3>3
           DEF AcquireLease, LeaseInv, RecoveryInv, VariablesOK, EnsureTypeOK
      <4>2. UNCHANGED promptVars /\ UNCHANGED workVars
        BY <1>0, <1>4, <3>3 DEF AcquireLease
      <4>3. \A j \in Instance : Started(j)' => j = i \/ Started(j)
        BY <1>0, <1>4, <3>3 DEF AcquireLease, VariablesOK, EnsureTypeOK
      <4>4. StartsUnderLease'
        BY <3>1, <4>3, OwnerAssumption DEF StartsUnderLease, LeaseInv, RowKept
      <4>5. ClearedHoldsLease'
        BY <3>1, <4>2 DEF ClearedHoldsLease, Cleared, LeaseInv, RowKept,
                          PromptInv, promptVars
      <4> QED
        BY <3>1, <4>1, <4>2, <4>4, <4>5, UnchangedInv DEF LeaseInv, RowKept
    <3> QED BY <3>2, <3>3
  <2> QED BY <1>0, <1>4, <2>2, <2>3 DEF AcquireLease
<1>5. CASE ClassifyRefusal(i)
  BY <1>5 DEF ClassifyRefusal, LeaseInv, RecoveryInv
<1>6. CASE StartRuntime(i)
  <2>1. CASE Fail(i)
    BY <1>6, <2>1, FailInv, UnchangedInv, KeptInv DEF StartRuntime
  <2>2. CASE ~Fail(i)
    <3>1. RecoveryInv'
      BY <1>6, <2>2 DEF StartRuntime, LeaseInv, RecoveryInv, VariablesOK, EnsureTypeOK
    <3>2. NobodyNew /\ PromptInv'
      BY <1>6, <2>2, UnchangedInv
         DEF StartRuntime, NobodyNew, VariablesOK, EnsureTypeOK
    <3> QED BY <1>6, <3>1, <3>2, UnchangedInv, KeptInv DEF StartRuntime
  <2> QED BY <2>1, <2>2
<1>8. CASE RecordRuntime(i)
  <2>1. RecoveryInv'
    BY <1>8 DEF RecordRuntime, LeaseInv, RecoveryInv, VariablesOK, EnsureTypeOK
  <2>2. NobodyNew /\ PromptInv'
    BY <1>8, UnchangedInv DEF RecordRuntime, NobodyNew, VariablesOK, EnsureTypeOK
  <2> QED BY <1>8, <2>1, <2>2, UnchangedInv, KeptInv DEF RecordRuntime
<1>7. CASE BindRuntime(i) \/ SaveSession(i)
  <2>1. rowOwner = i /\ rowLease > 0 /\ ensLease[i] > 0
    BY <1>0, <1>7 DEF BindRuntime, SaveSession, LeaseInv, RecoveryInv,
                      StartsUnderLease
  <2>2. RowKept
    BY <1>0, <1>7, <2>1, OwnerKeepsRow, UnchangedKeepsRow
       DEF BindRuntime, SaveSession
  <2>3. CASE Succeed(i, recKnown[i])
    BY <1>7, <2>2, <2>3, SucceedInv, UnchangedInv, KeptInv
       DEF BindRuntime, SaveSession
  <2>4. CASE ~Succeed(i, recKnown[i])
    <3>1. RecoveryInv'
      BY <1>7, <2>4
         DEF BindRuntime, SaveSession, LeaseInv, RecoveryInv, VariablesOK, EnsureTypeOK
    <3>2. NobodyNew /\ PromptInv'
      BY <1>7, <2>4, UnchangedInv
         DEF BindRuntime, SaveSession, NobodyNew, VariablesOK, EnsureTypeOK
    <3> QED BY <1>7, <2>2, <3>1, <3>2, UnchangedInv, KeptInv
               DEF BindRuntime, SaveSession
  <2> QED BY <2>3, <2>4
<1> QED
  BY <1>1, <1>2, <1>3, <1>4, <1>5, <1>6, <1>7, <1>8 DEF Recover

(* The steps of a prompt. *)
LEMMA PromptStepInv ==
  ASSUME VariablesOK, LeaseInv, NEW p \in Prompt,
         CheckLease(p) \/ Dispatch(p) \/ FinishTurn(p)
  PROVE  LeaseInv' /\ RowKept
<1>0. rowPresent
  BY DEF LeaseInv
<1>1. CASE CheckLease(p) /\ Owned(p, promptAt[p])
  <2>1. promptLease[p] > 0
    BY <1>1 DEF CheckLease, LeaseInv, PromptInv, Checking
  <2>2. RowKept /\ rowOwner' = promptAt[p] /\ rowLease' > 0
    BY <1>0, <1>1, <2>1, AcquireKeepsRow DEF Owned
  <2>3. PromptInv'
    BY <1>1 DEF CheckLease, Owned, LeaseInv, PromptInv, Checking, VariablesOK,
                PromptTypeOK
  <2>4. UNCHANGED ensVars /\ UNCHANGED workVars /\ UNCHANGED promptAt
    BY <1>1 DEF CheckLease
  <2>5. \A q \in Prompt : Cleared(q)' => q = p \/ Cleared(q)
    BY <1>1 DEF CheckLease, Owned, Cleared, VariablesOK, PromptTypeOK
  <2>6. ClearedHoldsLease'
    BY <2>2, <2>4, <2>5
       DEF ClearedHoldsLease, LeaseInv, RowKept, PromptInv, Cleared
  <2>7. StartsUnderLease'
    BY <2>2, <2>4, UnchangedInv, OwnerAssumption
       DEF StartsUnderLease, LeaseInv, RowKept
  <2> QED
    BY <2>2, <2>3, <2>4, <2>6, <2>7, UnchangedInv DEF LeaseInv, RowKept
<1>2. CASE ~(CheckLease(p) /\ Owned(p, promptAt[p]))
  <2>1. /\ UNCHANGED rowVars /\ UNCHANGED ensVars /\ UNCHANGED workVars
        /\ UNCHANGED promptAt
    BY <1>2 DEF CheckLease, NoRecord, Lost, Unavailable, Dispatch, FinishTurn
  <2>2. PromptInv'
    BY <1>0, <1>2 DEF CheckLease, NoRecord, Lost, Unavailable, Dispatch,
            FinishTurn, LeaseInv, PromptInv, Checking, VariablesOK, PromptTypeOK
  <2>3. \A q \in Prompt : Cleared(q)' => Cleared(q)
    BY <1>0, <1>2 DEF CheckLease, NoRecord, Lost, Unavailable, Dispatch,
            FinishTurn, Cleared, VariablesOK, PromptTypeOK
  <2> QED
    BY <2>1, <2>2, <2>3, UnchangedInv, KeptInv DEF NobodyNew
<1> QED
  BY <1>1, <1>2

(* Submitting and resuming start a recovery that has no lease yet. *)
LEMMA SubmitInv ==
  ASSUME VariablesOK, LeaseInv, NEW i \in Instance,
         Resume(i) \/ \E p \in Prompt : SubmitPrompt(p, i)
  PROVE  LeaseInv' /\ RowKept
<1>1. UNCHANGED rowVars /\ UNCHANGED workVars
  BY DEF Resume, SubmitPrompt
<1>2. UNCHANGED ensVars \/ \E fresh : StartRecovery(i, fresh)
  BY DEF Resume, SubmitPrompt
<1>3. RecoveryInv' /\ \A j \in Instance : Started(j)' => Started(j)
  <2>1. CASE \E fresh : StartRecovery(i, fresh)
    BY <2>1 DEF StartRecovery, LeaseInv, RecoveryInv, Acquired, Started,
                VariablesOK, EnsureTypeOK
  <2> QED BY <1>2, <2>1, UnchangedInv
<1>4. PromptInv'
  BY UnchangedInv, OwnerAssumption
     DEF Resume, SubmitPrompt, LeaseInv, PromptInv, Checking, VariablesOK, PromptTypeOK
<1>5. \A p \in Prompt : Cleared(p)' => Cleared(p) /\ promptAt'[p] = promptAt[p]
  BY UnchangedInv DEF Resume, SubmitPrompt, Cleared, VariablesOK, PromptTypeOK
<1> QED
  BY <1>1, <1>3, <1>4, <1>5, UnchangedInv, KeptInv DEF NobodyNew

LEMMA BackgroundInv ==
  ASSUME Reliable, VariablesOK, LeaseInv, NEW i \in Instance,
         \/ ReadRow(i) \/ WriteRow(i)
         \/ RefreshLease(i) \/ CompleteRefresh(i) \/ ReadSessions(i) \/ Hydrate(i)
         \/ BeginRelease(i) \/ KillReleased(i) \/ FinishRelease(i)
         \/ RuntimeExits(i) \/ Restart(i)
  PROVE  LeaseInv' /\ RowKept
<1>a. ~ReadRow(i) /\ ~WriteRow(i)
  BY DEF ReadRow, WriteRow, Reliable, LeaseInv, RefreshInv
<1>1. UNCHANGED ensVars /\ UNCHANGED promptVars
  BY <1>a DEF RefreshLease, CompleteRefresh, ReadSessions, Hydrate, BeginRelease, KillReleased,
              FinishRelease, RuntimeExits, Restart
<1>2. RefreshInv'
  BY <1>a, BuildRefreshInv, UnchangedInv
     DEF RefreshLease, CompleteRefresh, ReadSessions, Hydrate, BeginRelease, KillReleased,
         FinishRelease, RuntimeExits, Restart, LeaseInv, RefreshInv, VariablesOK,
         BackgroundTypeOK, snapVars
<1>3. RowKept
  <2>1. CASE CompleteRefresh(i)
    <3>1. refreshLease[i] > 0 /\ rowPresent
      BY <2>1 DEF CompleteRefresh, LeaseInv, RefreshInv
    <3> QED BY <2>1, <3>1, AcquireKeepsRow, UnchangedInv DEF CompleteRefresh
  <2> QED
    BY <1>a, <2>1, UnchangedInv
       DEF RefreshLease, ReadSessions, Hydrate, BeginRelease, KillReleased, FinishRelease,
           RuntimeExits, Restart
<1> QED
  BY <1>1, <1>2, <1>3, UnchangedInv, KeptInv DEF NobodyNew

(* A crash takes the handlers of the instance with it. *)
LEMMA CrashInv ==
  ASSUME VariablesOK, LeaseInv, NEW i \in Instance, Crash(i)
  PROVE  LeaseInv' /\ RowKept
<1>1. RecoveryInv' /\ \A j \in Instance : Started(j)' => Started(j)
  BY DEF Crash, LeaseInv, RecoveryInv, Acquired, Started, VariablesOK, EnsureTypeOK
<1>2. RefreshInv'
  BY DEF Crash, LeaseInv, RefreshInv, VariablesOK, BackgroundTypeOK
<1>3. PromptInv'
  BY OwnerAssumption
     DEF Crash, LeaseInv, PromptInv, Checking, VariablesOK, PromptTypeOK
<1>4. \A p \in Prompt : Cleared(p)' => Cleared(p) /\ promptAt'[p] = promptAt[p]
  BY DEF Crash, Cleared
<1>5. RowKept
  BY UnchangedInv DEF Crash
<1> QED
  BY <1>1, <1>2, <1>3, <1>4, <1>5, KeptInv DEF NobodyNew

(* Time passes only while everybody keeps a lease. *)
LEMMA TickInv ==
  ASSUME Reliable, VariablesOK, LeaseInv, Tick
  PROVE  /\ LeaseInv'
         /\ rowOwner' = rowOwner
<1>1. NobodyOutstaysLease
  BY DEF Tick, Reliable
<1>2. \A n \in 0..Lease : n > 1 => Countdown(n) > 0
  BY LeaseAssumption DEF Countdown
<1>3. /\ UNCHANGED <<rowPresent, rowOwner, ensPc, ensSnap, promptPc, promptAt,
                      refresh>>
      /\ rowLease' = Countdown(rowLease)
  BY DEF Tick
<1>4. RecoveryInv'
  BY <1>1, <1>2, <1>3
     DEF Tick, NobodyOutstaysLease, LeaseInv, RecoveryInv, Acquired, VariablesOK,
         EnsureTypeOK
<1>5. RefreshInv'
  BY <1>1, <1>2, <1>3
     DEF Tick, NobodyOutstaysLease, LeaseInv, RefreshInv, VariablesOK, BackgroundTypeOK
<1>6. PromptInv'
  BY <1>1, <1>2, <1>3
     DEF Tick, NobodyOutstaysLease, LeaseInv, PromptInv, Checking, VariablesOK,
         PromptTypeOK, Countdown
<1>7. \A p \in Prompt : Cleared(p)' => Cleared(p)
  BY <1>3 DEF Tick, Cleared, Countdown, VariablesOK, PromptTypeOK
<1>8. rowLease \in 0..Lease
  BY DEF VariablesOK, RowTypeOK
<1>9. StartsUnderLease'
  BY <1>1, <1>2, <1>3, <1>8
     DEF NobodyOutstaysLease, LeaseInv, StartsUnderLease, Started
<1>10. ClearedHoldsLease'
  BY <1>1, <1>2, <1>3, <1>7, <1>8
     DEF NobodyOutstaysLease, LeaseInv, ClearedHoldsLease
<1> QED
  BY <1>3, <1>4, <1>5, <1>6, <1>9, <1>10 DEF LeaseInv

(* A session whose row was saved starts under an invariant lease. *)
LEMMA InitInv ==
  ASSUME Reliable, Init
  PROVE  LeaseInv
BY OwnerAssumption
   DEF Init, Reliable, LeaseInv, RecoveryInv, RefreshInv, PromptInv, Acquired,
       Started, Checking, Cleared, StartsUnderLease, ClearedHoldsLease

LEMMA NextInv ==
  ASSUME Reliable, VariablesOK, LeaseInv, [Next]_vars
  PROVE  LeaseInv' /\ (RowKept \/ rowOwner' = rowOwner)
<1>1. CASE UNCHANGED vars
  BY <1>1, UnchangedInv, KeptInv DEF vars, NobodyNew
<1> QED
  BY <1>1, SubmitInv, RecoverInv, PromptStepInv, BackgroundInv, CrashInv, TickInv
     DEF Next

(* The inductive invariant: recoveries, refreshes and prompts agree with the *)
(* row on who owns the session.                                              *)
THEOREM LeaseInvariant == ASSUME Reliable PROVE Spec => []LeaseInv
<1>1. Init => LeaseInv
  BY InitInv
<1>2. VariablesOK /\ LeaseInv /\ [Next]_vars => LeaseInv'
  BY NextInv
<1> QED
  BY <1>1, <1>2, VariablesCorrect, PTL DEF Spec

(* A recovery starts its provider runtime, and binds it, only while the      *)
(* durable row says that this instance owns the session.                     *)
THEOREM StartsUnderLeaseCorrect ==
  ASSUME Reliable PROVE Spec => []StartsUnderLease
<1>1. LeaseInv => StartsUnderLease
  BY DEF LeaseInv
<1> QED
  BY <1>1, LeaseInvariant, PTL

(* A prompt the lease check let through is dispatched under the lease. *)
THEOREM ClearedHoldsLeaseCorrect ==
  ASSUME Reliable PROVE Spec => []ClearedHoldsLease
<1>1. LeaseInv => ClearedHoldsLease
  BY DEF LeaseInv
<1> QED
  BY <1>1, LeaseInvariant, PTL

(* An active lease is never taken from its owner. *)
THEOREM LeaseNeverStolenCorrect == ASSUME Reliable PROVE Spec => LeaseNeverStolen
<1>1. VariablesOK /\ LeaseInv /\ [Next]_vars
        => [rowOwner # NoOwner /\ rowLease > 0 => rowOwner' = rowOwner]_vars
  BY NextInv DEF RowKept
<1> QED
  BY <1>1, VariablesCorrect, LeaseInvariant, PTL DEF Spec, LeaseNeverStolen

-----------------------------------------------------------------------------
(* SessionRuntime implements SessionLease. *)

(* Whoever acts is the owner of the active lease. *)
LEMMA ActingOwns ==
  ASSUME LeaseInv
  PROVE  Acting \subseteq Instance \intersect {rowOwner} /\ (Acting # {} => rowLease > 0)
BY DEF LeaseInv, StartsUnderLease, ClearedHoldsLease, Acting

LEMMA ActingOwnsNext ==
  ASSUME LeaseInv'
  PROVE  Acting' \subseteq Instance \intersect {rowOwner'} /\ (Acting' # {} => rowLease' > 0)
BY DEF LeaseInv, StartsUnderLease, ClearedHoldsLease, Acting

(* Only an instance that acquires or renews the lease writes it. *)
LEMMA RowWritten ==
  ASSUME Reliable, VariablesOK, LeaseInv, Next, ~Tick
  PROVE  UNCHANGED <<rowOwner, rowLease>> \/ (rowOwner' \in Instance /\ rowLease' > 0)
<1>1. CASE UNCHANGED rowVars
  BY <1>1 DEF rowVars
<1>2. ASSUME NEW i \in Instance, AcquireLease(i) \/ BindRuntime(i) \/ SaveSession(i)
      PROVE  UNCHANGED rowVars \/ (rowOwner' \in Instance /\ rowLease' > 0)
  <2>1. ensLease[i] > 0
    BY <1>2 DEF AcquireLease, BindRuntime, SaveSession, LeaseInv, RecoveryInv,
                Acquired
  <2> QED
    BY <1>2, <2>1 DEF AcquireLease, BindRuntime, SaveSession,
       tryAcquireExpiredLease, updateRuntimeBinding, persistSessionToDb
<1>3. ASSUME NEW i \in Instance, CompleteRefresh(i)
      PROVE  UNCHANGED rowVars \/ (rowOwner' \in Instance /\ rowLease' > 0)
  BY <1>3 DEF CompleteRefresh, tryAcquireExpiredLease, LeaseInv, RefreshInv
<1>4. ASSUME NEW p \in Prompt, CheckLease(p)
      PROVE  UNCHANGED rowVars \/ (rowOwner' \in Instance /\ rowLease' > 0)
  <2>1. promptAt[p] \in Instance /\ promptLease[p] > 0
    BY <1>4 DEF CheckLease, Checking, LeaseInv, PromptInv, VariablesOK, PromptTypeOK,
                Owners
  <2> QED
    BY <1>4, <2>1 DEF CheckLease, Owned, NoRecord, Lost, Unavailable,
       tryAcquireExpiredLease
<1>5. \A i \in Instance : ~ReadRow(i) /\ ~WriteRow(i)
  BY DEF ReadRow, WriteRow, Reliable, LeaseInv, RefreshInv
<1> QED
  BY <1>1, <1>2, <1>3, <1>4, <1>5
     DEF Next, Recover, SubmitPrompt, Resume, LoadSnapshot, Attach,
         BeginAcquisition, ClassifyRefusal, StartRuntime, RecordRuntime, RefreshLease, ReadSessions, Hydrate,
         BeginRelease, KillReleased, FinishRelease, RuntimeExits, Crash, Restart,
         Dispatch, FinishTurn

(* A session starts with an active lease, and nobody acts yet. *)
LEMMA InitImplements ==
  ASSUME Reliable, Init
  PROVE  Abstract!Init
<1>1. rowOwner \in Instance /\ rowLease > 0
  BY LeaseAssumption DEF Init, Reliable
<1>2. Acting = {}
  BY DEF Init, Acting, Started, Cleared
<1> QED
  BY <1>1, <1>2 DEF Abstract!Init

(* A step that leaves the lease alone: at most its owner starts or stops. *)
LEMMA SameLeaseImplements ==
  ASSUME LeaseInv, LeaseInv', UNCHANGED rowOwner, (rowLease > 0) = (rowLease' > 0)
  PROVE  [Abstract!Next]_Abstract!vars
<1>1. /\ Acting \subseteq Instance \intersect {rowOwner}
      /\ Acting' \subseteq Instance \intersect {rowOwner}
      /\ Acting' # {} => rowLease' > 0
  <2>1. /\ Acting' \subseteq Instance \intersect {rowOwner'}
        /\ Acting' # {} => rowLease' > 0
    BY ActingOwnsNext
  <2> QED BY <2>1, ActingOwns
<1>2. CASE Acting' = Acting
  BY <1>2 DEF Abstract!vars
<1>3. CASE Acting' = {} /\ Acting # {}
  <2>1. rowOwner \in Instance /\ Acting' = Acting \ {rowOwner}
    BY <1>1, <1>3
  <2>2. Abstract!Stop(rowOwner)
    BY <2>1 DEF Abstract!Stop
  <2> QED BY <2>1, <2>2 DEF Abstract!Next
<1>4. CASE Acting' # {} /\ Acting = {}
  <2>1. rowOwner \in Instance /\ Acting' = Acting \union {rowOwner}
    BY <1>1, <1>4
  <2>2. Abstract!Claim(rowOwner)
    BY <1>1, <1>4, <2>1 DEF Abstract!Claim, Abstract!Claimable
  <2> QED BY <2>1, <2>2 DEF Abstract!Next
<1> QED
  BY <1>1, <1>2, <1>3, <1>4

(* A step that acquires or renews the lease. *)
LEMMA ClaimImplements ==
  ASSUME LeaseInv, LeaseInv', RowKept, rowOwner' \in Instance, rowLease' > 0,
         rowLease \in Nat
  PROVE  [Abstract!Next]_Abstract!vars
<1>1. Abstract!Claimable(rowOwner')
  BY DEF Abstract!Claimable, RowKept
<1>2. Acting' \subseteq {rowOwner'}
  BY ActingOwnsNext
<1>3. Acting \subseteq {rowOwner'}
  <2>1. Acting # {} => rowOwner' = rowOwner
    BY ActingOwns, OwnerAssumption DEF RowKept
  <2> QED BY <2>1, ActingOwns
<1>4. Acting' \in {Acting, Acting \union {rowOwner'}, Acting \ {rowOwner'}}
  BY <1>2, <1>3
<1>5. Abstract!Claim(rowOwner')
  BY <1>1, <1>4 DEF Abstract!Claim
<1> QED
  BY <1>5 DEF Abstract!Next

(* Time passes: the lease expires only when nobody acts. *)
LEMMA TickImplements ==
  ASSUME Reliable, VariablesOK, LeaseInv, LeaseInv', Tick
  PROVE  [Abstract!Next]_Abstract!vars
<1>1. /\ rowOwner' = rowOwner /\ rowLease' = Countdown(rowLease)
      /\ rowLease \in Nat
  BY LeaseAssumption DEF Tick, VariablesOK, RowTypeOK
<1>2. CASE rowLease' > 0 \/ rowLease = 0
  <2>1. (rowLease > 0) = (rowLease' > 0)
    BY <1>1, <1>2 DEF Countdown
  <2> QED BY <1>1, <2>1, SameLeaseImplements
<1>3. CASE ~(rowLease' > 0) /\ rowLease # 0
  <2>1. ~(rowLease > 1)
    BY <1>1, <1>3 DEF Countdown
  <2>2. Acting = {}
    BY <2>1 DEF Tick, Reliable, NobodyOutstaysLease, Acting
  <2>3. Acting' = {}
    <3>1. Acting' # {} => rowLease' > 0
      BY ActingOwnsNext
    <3> QED BY <1>3, <3>1
  <2>4. Abstract!Expire
    BY <1>1, <1>3, <2>2, <2>3 DEF Abstract!Expire
  <2> QED BY <2>4 DEF Abstract!Next
<1> QED
  BY <1>2, <1>3

LEMMA StepImplements ==
  ASSUME Reliable, VariablesOK, LeaseInv, [Next]_vars
  PROVE  [Abstract!Next]_Abstract!vars
<1>1. LeaseInv' /\ (RowKept \/ rowOwner' = rowOwner)
  BY NextInv
<1>2. CASE Tick
  BY <1>1, <1>2, TickImplements
<1>3. CASE ~Tick /\ Next
  <2>1. CASE UNCHANGED <<rowOwner, rowLease>>
    BY <1>1, <2>1, SameLeaseImplements
  <2>2. CASE rowOwner' \in Instance /\ rowLease' > 0
    <3>1. rowLease \in Nat
      BY LeaseAssumption DEF VariablesOK, RowTypeOK
    <3>2. CASE RowKept
      BY <1>1, <2>2, <3>1, <3>2, ClaimImplements
    <3>3. CASE rowOwner' = rowOwner
      <4>1. RowKept
        BY <1>1, <2>2, <3>3 DEF RowKept, LeaseInv
      <4> QED BY <1>1, <2>2, <3>1, <4>1, ClaimImplements
    <3> QED BY <1>1, <3>2, <3>3
  <2> QED BY <1>3, <2>1, <2>2, RowWritten
<1>4. CASE UNCHANGED vars
  BY <1>1, <1>4, SameLeaseImplements DEF vars, rowVars
<1> QED
  BY <1>2, <1>3, <1>4

(* The lease protocol implements its promise: whoever starts a runtime or    *)
(* dispatches a prompt began with the claim of the row and owns it, however  *)
(* many instances recover, refresh, bind, save and crash.                    *)
THEOREM LeaseImplemented == ASSUME Reliable PROVE Spec => ImplementsLease
<1>1. Init => Abstract!Init
  BY InitImplements
<1>2. VariablesOK /\ LeaseInv /\ [Next]_vars => [Abstract!Next]_Abstract!vars
  BY StepImplements
<1> QED
  BY <1>1, <1>2, VariablesCorrect, LeaseInvariant, PTL
     DEF Spec, ImplementsLease, Abstract!Spec

(* At most one instance acts for the session, the owner of its active lease: *)
(* what SessionLease promises holds of the row and the handlers that act.    *)
THEOREM OneInstanceActs ==
  ASSUME Reliable PROVE Spec => []Abstract!OnlyOwnerActs
<1>1. LeaseInv => Abstract!OnlyOwnerActs
  BY ActingOwns DEF Abstract!OnlyOwnerActs
<1> QED
  BY <1>1, LeaseInvariant, PTL
=============================================================================
