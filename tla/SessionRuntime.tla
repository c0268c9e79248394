--------------------------- MODULE SessionRuntime ---------------------------
(***************************************************************************)
(* Ownership of the embedded provider runtime of ONE Routa Session by      *)
(* several Routa instances that share a database (src/core/acp):           *)
(* the lease on the durable session row, the recovery entry point          *)
(* ensureSessionRuntime, the lease check of a prompt before it is          *)
(* dispatched, the background lease refresh of attached SSE streams, the   *)
(* release of an idle runtime, and crashes of an instance.                 *)
(*                                                                         *)
(* Time is relative: every lease is the number of clock ticks it still     *)
(* has, so an expiry instant stored in the row, in a record in memory or   *)
(* in a local variable of a handler that is waiting is counted down by     *)
(* Tick, and 0 is an expired (or absent) lease.  One action is one stretch *)
(* of a handler between two awaits.                                        *)
(***************************************************************************)
EXTENDS Integers

CONSTANTS
  Instance,           \* the Routa instances (getAcpInstanceId)
  Prompt,             \* the prompts clients send, each handled once
  Lease,              \* ticks of a fresh lease (getAcpLeaseDurationMs)
  NoOwner,            \* a null owner_instance_id
  Jsonl,              \* the instances with a JSONL transcript of the session
  Hydrates,           \* the instances where hydrateFromDb is called
  RowPersisted,       \* the row of the session reached the database
  DbReadsFail,        \* loadSessionFromDb may fail (and then returns null)
  Background,         \* the fire-and-forget work that takes place
  MaxFaults,          \* bound on the crashes and the exits of a provider process
  LeaseOutlivesSteps  \* no handler waits until the lease it relies on expires

ASSUME LeaseAssumption == Lease \in Nat \ {0}
ASSUME BackgroundAssumption == Background \subseteq {"refresh", "release", "history"}
ASSUME FaultAssumption == MaxFaults \in Nat
ASSUME OwnerAssumption == NoOwner \notin Instance
ASSUME SwitchAssumption ==
  /\ RowPersisted \in BOOLEAN
  /\ DbReadsFail \in BOOLEAN
  /\ LeaseOutlivesSteps \in BOOLEAN
ASSUME SubsetAssumption == Jsonl \subseteq Instance /\ Hydrates \subseteq Instance

VARIABLES
  (* the durable session row *)
  rowPresent, rowOwner, rowLease,
  rowHistory,       \* the row still has the message history written so far
  (* per instance: process, runtime manager, record in HttpSessionStore *)
  up, runtime, recKnown, recOwner, recLease,
  hydrated,         \* hydrateFromDb: not begun, has read the row, or is over ...
  hydOwner, hydLease,     \* ... the owner and the lease it read
  faults,           \* crashes and exits so far
  (* per instance: the recovery in flight (inflightSessionRecoveries) *)
  ensPc,            \* where runEnsureSessionRuntime waits
  ensFresh,         \* args.allowFreshCreate of the caller that started it
  ensSnap,          \* a recoveredSession was found
  ensLease,         \* leaseExpiresAt of the recovery, counted down
  (* per instance: fire-and-forget work *)
  refresh, refreshLease,  \* a pending tryAcquireSessionLeaseInDb, its lease
  snap,             \* saveHistoryToDb has read the row and is to write it back ...
  snapOwner, snapLease,   \* ... with the owner and the lease it read
  release,          \* an eviction waits for a save, or for the end of a kill
  (* per prompt *)
  promptPc, promptAt, promptLease

hydVars     == <<hydrated, hydOwner, hydLease>>
procVars    == <<up, hydVars, faults>>
rowVars     == <<rowPresent, rowOwner, rowLease, rowHistory>>
recVars     == <<recKnown, recOwner, recLease>>
ensVars     == <<ensPc, ensFresh, ensSnap, ensLease>>
promptVars  == <<promptPc, promptAt, promptLease>>
snapVars    == <<snap, snapOwner, snapLease>>
workVars    == <<refresh, refreshLease, snap, snapOwner, snapLease>>
vars == <<rowVars, recVars, ensVars, promptVars, procVars, runtime,
          workVars, release>>

Owners == Instance \union {NoOwner}

(* "dead": still registered with the process manager, but exited *)
RuntimeState == {"none", "alive", "dead"}
HydrateState == {"no", "read", "done"}
EnsureState  == {"idle", "load", "attach", "acquire", "classify",
                 "start", "collect", "bind", "save"}
RefreshState == {"none", "cas", "cas_upsert"}
ReleaseState == {"none", "persist", "kill", "isolate"}
PromptState  == {"new", "ensuring", "checking", "cleared", "running", "done"}

RowTypeOK ==
  /\ rowPresent \in BOOLEAN /\ rowOwner \in Owners
  /\ rowLease \in 0..Lease /\ rowHistory \in BOOLEAN
ProcTypeOK ==
  /\ up \in [Instance -> BOOLEAN]
  /\ hydrated \in [Instance -> HydrateState]
  /\ hydOwner \in [Instance -> Owners]
  /\ hydLease \in [Instance -> 0..Lease]
  /\ faults \in 0..MaxFaults
RuntimeTypeOK == runtime \in [Instance -> RuntimeState]
RecordTypeOK ==
  /\ recKnown \in [Instance -> BOOLEAN]
  /\ recOwner \in [Instance -> Owners]
  /\ recLease \in [Instance -> 0..Lease]
EnsureTypeOK ==
  /\ ensPc \in [Instance -> EnsureState]
  /\ ensFresh \in [Instance -> BOOLEAN]
  /\ ensSnap \in [Instance -> BOOLEAN]
  /\ ensLease \in [Instance -> 0..Lease]
BackgroundTypeOK ==
  /\ refresh \in [Instance -> RefreshState]
  /\ refreshLease \in [Instance -> 0..Lease]
  /\ snap \in [Instance -> BOOLEAN]
  /\ snapOwner \in [Instance -> Owners]
  /\ snapLease \in [Instance -> 0..Lease]
  /\ release \in [Instance -> ReleaseState]
PromptTypeOK ==
  /\ promptPc \in [Prompt -> PromptState]
  /\ promptAt \in [Prompt -> Owners]
  /\ promptLease \in [Prompt -> 0..Lease]

VariablesOK ==
  /\ RowTypeOK /\ ProcTypeOK /\ RuntimeTypeOK /\ RecordTypeOK
  /\ EnsureTypeOK /\ BackgroundTypeOK /\ PromptTypeOK

(* A prompt waits for a recovery only while there is one in flight. *)
JoinedWaits ==
  \A p \in Prompt, i \in Instance :
    promptPc[p] = "ensuring" /\ promptAt[p] = i => ensPc[i] # "idle"

(* The variables have their types, and those who joined a recovery still have *)
(* it to wait for (session-runtime-recovery.ts:330).                          *)
TypeOK == VariablesOK /\ JoinedWaits

-----------------------------------------------------------------------------
(* A session just created on instance i: its runtime runs, its record is in *)
(* memory, and its row was saved unless the background save failed.         *)
Init ==
  \E i \in Instance :
    /\ rowPresent = RowPersisted
    /\ rowOwner = IF RowPersisted THEN i ELSE NoOwner
    /\ rowLease = IF RowPersisted THEN Lease ELSE 0
    /\ rowHistory = RowPersisted
    /\ up = [j \in Instance |-> TRUE]
    /\ hydrated = [j \in Instance |-> "no"]
    /\ hydOwner = [j \in Instance |-> NoOwner]
    /\ hydLease = [j \in Instance |-> 0]
    /\ faults = 0
    /\ runtime = [j \in Instance |-> IF j = i THEN "alive" ELSE "none"]
    /\ recKnown = [j \in Instance |-> j = i]
    /\ recOwner = [j \in Instance |-> IF j = i THEN i ELSE NoOwner]
    /\ recLease = [j \in Instance |-> IF j = i THEN Lease ELSE 0]
    /\ ensPc = [j \in Instance |-> "idle"]
    /\ ensFresh = [j \in Instance |-> FALSE]
    /\ ensSnap = [j \in Instance |-> FALSE]
    /\ ensLease = [j \in Instance |-> 0]
    /\ refresh = [j \in Instance |-> "none"]
    /\ refreshLease = [j \in Instance |-> 0]
    /\ snap = [j \in Instance |-> FALSE]
    /\ snapOwner = [j \in Instance |-> NoOwner]
    /\ snapLease = [j \in Instance |-> 0]
    /\ release = [j \in Instance |-> "none"]
    /\ promptPc = [p \in Prompt |-> "new"]
    /\ promptAt = [p \in Prompt |-> NoOwner]
    /\ promptLease = [p \in Prompt |-> 0]

-----------------------------------------------------------------------------
(* Mutants of Claimable: an active lease of another owner is no obstacle; an *)
(* expired one still is.                                                      *)
ClaimableFromAnyone(owner) == rowPresent
ClaimableNeverExpired(owner) ==
  rowPresent /\ (rowOwner = NoOwner \/ rowOwner = owner)

(* The conditional UPDATE of tryAcquireExpiredLease: the row is claimed when *)
(* it is unowned, leaseless, expired or already owned by the requester.      *)
Claimable(owner) ==
  rowPresent /\ (rowOwner = NoOwner \/ rowLease = 0 \/ rowOwner = owner)

(* Mutant of tryAcquireExpiredLease: the new expiry is not written. *)
AcquireWithoutExpiry(owner, lease) ==
  /\ Claimable(owner)
  /\ rowOwner' = owner
  /\ UNCHANGED <<rowPresent, rowLease, rowHistory>>

tryAcquireExpiredLease(owner, lease) ==
  /\ Claimable(owner)
  /\ rowOwner' = owner
  /\ rowLease' = lease
  /\ UNCHANGED <<rowPresent, rowHistory>>

(* updateRuntimeBinding: an unconditional UPDATE of the row by id. *)
updateRuntimeBinding(owner, lease) ==
  /\ rowPresent
  /\ rowOwner' = owner
  /\ rowLease' = lease
  /\ UNCHANGED <<rowPresent, rowHistory>>

(* persistSessionToDb: an upsert of the whole row with an empty history. *)
persistSessionToDb(owner, lease) ==
  /\ rowPresent' = TRUE
  /\ rowOwner' = owner
  /\ rowLease' = lease
  /\ rowHistory' = FALSE

(* store.upsertSession: the record in memory names the owner and a lease. *)
upsertSession(i, owner, lease) ==
  /\ recKnown' = [recKnown EXCEPT ![i] = TRUE]
  /\ recOwner' = [recOwner EXCEPT ![i] = owner]
  /\ recLease' = [recLease EXCEPT ![i] = lease]

(* getEmbeddedOwnershipIssue: only an active lease of another instance. *)
OwnershipIssue(i, owner, lease) == owner \notin {i, NoOwner} /\ lease > 0

-----------------------------------------------------------------------------
(* ensureSessionRuntime: callers at one instance join the recovery in flight. *)

StartRecovery(i, fresh) ==
  /\ ensPc' = [ensPc EXCEPT ![i] = "load"]
  /\ ensFresh' = [ensFresh EXCEPT ![i] = fresh]
  /\ ensSnap' = [ensSnap EXCEPT ![i] = FALSE]
  /\ ensLease' = [ensLease EXCEPT ![i] = 0]

(* Mutant of SettleRecovery: only the record of the recovery is cleared. *)
SettleUnnoticed(i, outcome) ==
  /\ ensPc' = [ensPc EXCEPT ![i] = "idle"]
  /\ ensFresh' = [ensFresh EXCEPT ![i] = FALSE]
  /\ ensSnap' = [ensSnap EXCEPT ![i] = FALSE]
  /\ ensLease' = [ensLease EXCEPT ![i] = 0]
  /\ UNCHANGED promptVars

(* The recovery promise settles: every prompt that joined it goes on; one  *)
(* that is to check the lease builds the expiry it will ask for.           *)
SettleRecovery(i, outcome) ==
  /\ ensPc' = [ensPc EXCEPT ![i] = "idle"]
  /\ ensFresh' = [ensFresh EXCEPT ![i] = FALSE]
  /\ ensSnap' = [ensSnap EXCEPT ![i] = FALSE]
  /\ ensLease' = [ensLease EXCEPT ![i] = 0]
  /\ promptPc' = [p \in Prompt |->
       IF promptPc[p] = "ensuring" /\ promptAt[p] = i
       THEN outcome ELSE promptPc[p]]
  /\ promptLease' = [p \in Prompt |->
       IF promptPc[p] = "ensuring" /\ promptAt[p] = i /\ outcome = "checking"
       THEN Lease ELSE promptLease[p]]
  /\ UNCHANGED promptAt

(* A prompt that goes on checks the lease of the record it finds in memory; *)
(* without one (known is FALSE) no durable lease applies: no_record.         *)
Succeed(i, known) == SettleRecovery(i, IF known THEN "checking" ELSE "cleared")
Fail(i)           == SettleRecovery(i, "done")

(* handleSessionPrompt up to ensurePromptSessionExists (allowFreshCreate). *)
SubmitPrompt(p, i) ==
  /\ promptPc[p] = "new" /\ up[i]
  /\ promptPc' = [promptPc EXCEPT ![p] = "ensuring"]
  /\ promptAt' = [promptAt EXCEPT ![p] = i]
  /\ IF ensPc[i] = "idle" THEN StartRecovery(i, TRUE) ELSE UNCHANGED ensVars
  /\ UNCHANGED <<rowVars, recVars, procVars, runtime, workVars, release, promptLease>>

(* session/load: an explicit Resume, which never creates a session. *)
Resume(i) ==
  /\ up[i] /\ ensPc[i] = "idle"
  /\ StartRecovery(i, FALSE)
  /\ UNCHANGED <<rowVars, recVars, promptVars, procVars, runtime, workVars, release>>

(* loadRecoveredSessionSnapshot (memory, then database, then JSONL) and the *)
(* ownership check.  A failed database read is taken for a missing row.     *)
LoadSnapshot(i) ==
  LET found == /\ ensPc' = [ensPc EXCEPT ![i] = "attach"]
               /\ ensSnap' = [ensSnap EXCEPT ![i] = TRUE]
               /\ UNCHANGED <<ensFresh, ensLease, promptVars>>
      fresh == /\ ensFresh[i]
               /\ ensPc' = [ensPc EXCEPT ![i] = "attach"]
               /\ UNCHANGED <<ensFresh, ensSnap, ensLease, promptVars>>
  IN
  /\ ensPc[i] = "load"
  /\ \/ /\ recKnown[i]
        /\ IF OwnershipIssue(i, recOwner[i], recLease[i]) THEN Fail(i) ELSE found
     \/ /\ ~recKnown[i] /\ rowPresent
        /\ IF OwnershipIssue(i, rowOwner, rowLease) THEN Fail(i) ELSE found
     \/ /\ ~recKnown[i] /\ (~rowPresent \/ DbReadsFail)
        /\ IF i \in Jsonl THEN found \/ Fail(i)
                          ELSE fresh \/ (~ensFresh[i] /\ Fail(i))
  /\ UNCHANGED <<rowVars, recVars, procVars, runtime, workVars, release>>

(* A CAS is asked for with the expiry of now, whenever it is executed. *)
BuildRefresh(i, kind) ==
  /\ refresh' = [refresh EXCEPT ![i] = kind]
  /\ refreshLease' = [refreshLease EXCEPT ![i] = Lease]
  /\ UNCHANGED snapVars

(* The runtime is alive here: attach.  The record is renewed at once, the *)
(* durable lease by a compare-and-swap nobody waits for.                  *)
Attach(i) ==
  /\ ensPc[i] = "attach" /\ runtime[i] = "alive"
  /\ IF ensSnap[i] THEN upsertSession(i, i, Lease) ELSE UNCHANGED recVars
  /\ IF refresh[i] = "none" THEN BuildRefresh(i, "cas") ELSE UNCHANGED workVars
  /\ Succeed(i, ensSnap[i] \/ recKnown[i])
  /\ UNCHANGED <<rowVars, procVars, runtime, release>>

(* No live runtime: compute the lease; a fresh creation acquires nothing. *)
(* Without a workspace the recovery fails here.                           *)
BeginAcquisition(i) ==
  /\ ensPc[i] = "attach" /\ runtime[i] # "alive"
  /\ \/ /\ ensPc' = [ensPc EXCEPT ![i] = IF ensSnap[i] THEN "acquire" ELSE "start"]
        /\ ensLease' = [ensLease EXCEPT ![i] = Lease]
        /\ UNCHANGED <<ensFresh, ensSnap, promptVars>>
     \/ ~ensSnap[i] /\ Fail(i)
  /\ UNCHANGED <<rowVars, recVars, procVars, runtime, workVars, release>>

(* Mutant of AcquireLease: a database error is taken for a missing row. *)
AcquireLeaseFailOpen(i) ==
  /\ ensPc[i] = "acquire"
  /\ \/ tryAcquireExpiredLease(i, ensLease[i])
     \/ UNCHANGED rowVars
  /\ ensPc' = [ensPc EXCEPT ![i] = "start"]
  /\ UNCHANGED <<recVars, ensFresh, ensSnap, ensLease, promptVars, procVars,
                 runtime, workVars, release>>

(* acquireSessionLeaseInDb: claimed, refused by an active lease of another *)
(* instance, or a database error, on which recovery fails closed.  After   *)
(* the claim a Team Lead whose bindings cannot be restored fails too.      *)
AcquireLease(i) ==
  /\ ensPc[i] = "acquire"
  /\ \/ /\ tryAcquireExpiredLease(i, ensLease[i])
        /\ \/ /\ ensPc' = [ensPc EXCEPT ![i] = "start"]
              /\ UNCHANGED <<ensFresh, ensSnap, ensLease, promptVars>>
           \/ Fail(i)
     \/ /\ ~Claimable(i) /\ ~rowPresent
        /\ ensPc' = [ensPc EXCEPT ![i] = "classify"]
        /\ UNCHANGED <<rowVars, ensFresh, ensSnap, ensLease, promptVars>>
     \/ Fail(i) /\ UNCHANGED rowVars
  /\ UNCHANGED <<recVars, procVars, runtime, workVars, release>>

(* The second read that tells a missing row from a conflict. *)
ClassifyRefusal(i) ==
  /\ ensPc[i] = "classify"
  /\ \/ /\ ~rowPresent
        /\ ensPc' = [ensPc EXCEPT ![i] = "start"]
        /\ UNCHANGED <<ensFresh, ensSnap, ensLease, promptVars>>
     \/ Fail(i)
  /\ UNCHANGED <<rowVars, recVars, procVars, runtime, workVars, release>>

(* The provider runtime is created (native resume or one rebuild) and          *)
(* registered, or the start fails and the claimed lease is left to expire.     *)
StartRuntime(i) ==
  /\ ensPc[i] = "start"
  /\ \/ /\ runtime' = [runtime EXCEPT ![i] = "alive"]
        /\ ensPc' = [ensPc EXCEPT ![i] = "collect"]
        /\ UNCHANGED <<ensFresh, ensSnap, ensLease, promptVars>>
     \/ Fail(i) /\ UNCHANGED runtime
  /\ UNCHANGED <<rowVars, recVars, procVars, workVars, release>>

(* The recovery envelope was collected, or not, for a provider that needs one; *)
(* the record in memory takes the lease computed before the start.             *)
RecordRuntime(i) ==
  /\ ensPc[i] = "collect"
  /\ upsertSession(i, i, ensLease[i])
  /\ ensPc' = [ensPc EXCEPT ![i] = "bind"]
  /\ UNCHANGED <<rowVars, ensFresh, ensSnap, ensLease, promptVars, procVars,
                 runtime, workVars, release>>

(* updateSessionRuntimeBindingInDb answers false for a missing row and for *)
(* a database error alike.                                                 *)
BindRuntime(i) ==
  /\ ensPc[i] = "bind"
  /\ \/ updateRuntimeBinding(i, ensLease[i]) /\ Succeed(i, recKnown[i])
     \/ /\ ensPc' = [ensPc EXCEPT ![i] = "save"]
        /\ UNCHANGED <<rowVars, ensFresh, ensSnap, ensLease, promptVars>>
  /\ UNCHANGED <<recVars, procVars, runtime, workVars, release>>

(* The complete record is written when the targeted update reported false. *)
SaveSession(i) ==
  /\ ensPc[i] = "save"
  /\ persistSessionToDb(i, ensLease[i]) \/ UNCHANGED rowVars
  /\ Succeed(i, recKnown[i])
  /\ UNCHANGED <<recVars, procVars, runtime, workVars, release>>

-----------------------------------------------------------------------------
(* Mutant of Owned: the record in memory is believed, the row is not asked. *)
OwnedFromMemory(p, i) ==
  /\ recOwner[i] = i /\ recLease[i] > 0
  /\ promptPc' = [promptPc EXCEPT ![p] = "cleared"]
  /\ UNCHANGED <<rowVars, recVars, runtime, release, promptLease>>

(* checkEmbeddedSessionLeaseForDispatch, for the record the recovery left in *)
(* memory, which names this instance: owned, no_record, lost (the local      *)
(* runtime is killed) or unavailable (the prompt is refused, nothing else).  *)
Owned(p, i) ==
  /\ tryAcquireExpiredLease(i, promptLease[p])
  /\ upsertSession(i, i, promptLease[p])
  /\ promptPc' = [promptPc EXCEPT ![p] = "cleared"]
  /\ UNCHANGED <<runtime, release, promptLease>>

NoRecord(p, i) ==
  /\ ~rowPresent
  /\ promptPc' = [promptPc EXCEPT ![p] = "cleared"]
  /\ promptLease' = [promptLease EXCEPT ![p] = 0]
  /\ UNCHANGED <<rowVars, recVars, runtime, release>>

(* killSession up to its first await: a process is told to exit and stays  *)
(* registered, an adapter is dropped at once.                              *)
Kill(i) ==
  \/ runtime' = [runtime EXCEPT ![i] = "none"]
  \/ runtime[i] # "none" /\ runtime' = [runtime EXCEPT ![i] = "dead"]

(* Nobody waits for this kill; beside a release it ends with that one's.   *)
Lost(p, i) ==
  /\ rowPresent /\ ~Claimable(i)
  /\ Kill(i)
  /\ release' = [release EXCEPT ![i] = IF @ = "none" THEN "isolate" ELSE @]
  /\ promptPc' = [promptPc EXCEPT ![p] = "done"]
  /\ promptLease' = [promptLease EXCEPT ![p] = 0]
  /\ UNCHANGED <<rowVars, recVars>>

Unavailable(p) ==
  /\ promptPc' = [promptPc EXCEPT ![p] = "done"]
  /\ promptLease' = [promptLease EXCEPT ![p] = 0]
  /\ UNCHANGED <<rowVars, recVars, runtime, release>>

CheckLease(p) ==
  /\ promptPc[p] = "checking"
  /\ LET i == promptAt[p] IN
       Owned(p, i) \/ NoRecord(p, i) \/ Lost(p, i) \/ Unavailable(p)
  /\ UNCHANGED <<ensVars, procVars, workVars, promptAt>>

(* The delivery is acknowledged and the prompt handed to the runtime.  With a *)
(* record, a dead Claude process is restarted and a missing SDK adapter       *)
(* created; otherwise, without a live runtime, or when the delivery is a      *)
(* duplicate or not durable, the prompt is over.                              *)
Dispatch(p) ==
  LET i == promptAt[p] IN
  /\ promptPc[p] = "cleared"
  /\ promptLease' = [promptLease EXCEPT ![p] = 0]
  /\ \/ /\ \/ runtime[i] = "alive" /\ UNCHANGED runtime
           \/ /\ runtime[i] # "alive" /\ recKnown[i]
              /\ runtime' = [runtime EXCEPT ![i] = "alive"]
        /\ promptPc' = [promptPc EXCEPT ![p] = "running"]
     \/ /\ promptPc' = [promptPc EXCEPT ![p] = "done"]
        /\ UNCHANGED runtime
  /\ UNCHANGED <<rowVars, recVars, ensVars, procVars, workVars, release, promptAt>>

FinishTurn(p) ==
  /\ promptPc[p] = "running"
  /\ promptPc' = [promptPc EXCEPT ![p] = "done"]
  /\ UNCHANGED <<rowVars, recVars, ensVars, procVars, runtime, workVars, release,
                 promptAt, promptLease>>

-----------------------------------------------------------------------------
(* refreshEmbeddedSessionLease: only when the record names this instance.   *)
(* At most one such update is pending per instance; one that finds another  *)
(* pending is as if it had failed, which the callers cannot tell.           *)
RefreshLease(i) ==
  /\ "refresh" \in Background
  /\ up[i] /\ recKnown[i] /\ recOwner[i] = i /\ refresh[i] = "none"
  /\ BuildRefresh(i, "cas_upsert")
  /\ UNCHANGED <<rowVars, recVars, ensVars, promptVars, procVars, runtime, release>>

(* The pending update runs, and may shorten the lease of this instance: a   *)
(* later update can have been executed before it.  A refused or failed one  *)
(* changes nothing, and only a valid one renews the record in memory.       *)
CompleteRefresh(i) ==
  /\ refresh[i] # "none"
  /\ refresh' = [refresh EXCEPT ![i] = "none"]
  /\ refreshLease' = [refreshLease EXCEPT ![i] = 0]
  /\ \/ /\ tryAcquireExpiredLease(i, refreshLease[i])
        /\ IF refresh[i] = "cas_upsert" THEN upsertSession(i, i, Lease)
                                        ELSE UNCHANGED recVars
     \/ UNCHANGED <<rowVars, recVars>>
  /\ UNCHANGED <<ensVars, promptVars, procVars, runtime, snapVars, release>>

(* saveHistoryToDb, once at a time: the row is read ...                     *)
ReadRow(i) ==
  /\ "history" \in Background
  /\ runtime[i] # "none" /\ ~snap[i] /\ rowPresent
  /\ snap' = [snap EXCEPT ![i] = TRUE]
  /\ snapOwner' = [snapOwner EXCEPT ![i] = rowOwner]
  /\ snapLease' = [snapLease EXCEPT ![i] = rowLease]
  /\ UNCHANGED <<rowVars, recVars, ensVars, promptVars, procVars, runtime,
                 refresh, refreshLease, release>>

(* ... and all of it is written back, with what the memory, or only the       *)
(* write buffer, has of the history; or the save fails.                       *)
WriteRow(i) ==
  /\ snap[i]
  /\ snap' = [snap EXCEPT ![i] = FALSE]
  /\ snapOwner' = [snapOwner EXCEPT ![i] = NoOwner]
  /\ snapLease' = [snapLease EXCEPT ![i] = 0]
  /\ \/ /\ rowOwner' = snapOwner[i] /\ rowLease' = snapLease[i]
        /\ rowHistory' \in BOOLEAN
        /\ UNCHANGED rowPresent
     \/ UNCHANGED rowVars
  /\ UNCHANGED <<recVars, ensVars, promptVars, procVars, runtime, refresh,
                 refreshLease, release>>

(* hydrateFromDb, once in the life of a process: the row is read, which fails *)
(* like a read that finds no row ...                                          *)
ReadSessions(i) ==
  /\ i \in Hydrates /\ up[i] /\ hydrated[i] = "no"
  /\ \/ /\ rowPresent
        /\ hydrated' = [hydrated EXCEPT ![i] = "read"]
        /\ hydOwner' = [hydOwner EXCEPT ![i] = rowOwner]
        /\ hydLease' = [hydLease EXCEPT ![i] = rowLease]
     \/ /\ hydrated' = [hydrated EXCEPT ![i] = "done"]
        /\ UNCHANGED <<hydOwner, hydLease>>
  /\ UNCHANGED <<rowVars, recVars, ensVars, promptVars, up, faults, runtime,
                 workVars, release>>

(* ... and is copied into a store that has no record of the session by then.  *)
Hydrate(i) ==
  /\ hydrated[i] = "read"
  /\ hydrated' = [hydrated EXCEPT ![i] = "done"]
  /\ hydOwner' = [hydOwner EXCEPT ![i] = NoOwner]
  /\ hydLease' = [hydLease EXCEPT ![i] = 0]
  /\ \/ ~recKnown[i] /\ upsertSession(i, hydOwner[i], hydLease[i])
     \/ recKnown[i] /\ UNCHANGED recVars
  /\ UNCHANGED <<rowVars, ensVars, promptVars, up, faults, runtime, workVars,
                 release>>

Streaming(i) == \E p \in Prompt : promptPc[p] = "running" /\ promptAt[p] = i

(* finalizeAndRemoveSessions and finalizeSessionRuntime: the checks ... *)
BeginRelease(i) ==
  /\ "release" \in Background
  /\ up[i] /\ runtime[i] # "none" /\ release[i] = "none" /\ ~Streaming(i)
  /\ release' = [release EXCEPT ![i] = "persist"]
  /\ UNCHANGED <<rowVars, recVars, ensVars, promptVars, procVars, runtime, workVars>>

(* ... the kill, once the durable state was persisted (a completed session    *)
(* whose history could not be saved keeps its runtime) ...                    *)
KillReleased(i) ==
  /\ release[i] = "persist"
  /\ \/ /\ Kill(i)
        /\ release' = [release EXCEPT ![i] = "kill"]
     \/ /\ release' = [release EXCEPT ![i] = "none"]
        /\ UNCHANGED runtime
  /\ UNCHANGED <<rowVars, recVars, ensVars, promptVars, procVars, workVars>>

(* ... and its end: the process has exited, and whatever runtime is registered *)
(* for the session by then is unregistered (killSession deletes by session id; *)
(* after a timeout it does not).  When no error is reported, the record of a   *)
(* stale session is dropped; a completed or an isolated one keeps it.          *)
FinishRelease(i) ==
  /\ release[i] \in {"kill", "isolate"}
  /\ release' = [release EXCEPT ![i] = "none"]
  /\ runtime' = [runtime EXCEPT ![i] = "none"] \/ UNCHANGED runtime
  /\ \/ UNCHANGED recVars
     \/ /\ release[i] = "kill"
        /\ recKnown' = [recKnown EXCEPT ![i] = FALSE]
        /\ recOwner' = [recOwner EXCEPT ![i] = NoOwner]
        /\ recLease' = [recLease EXCEPT ![i] = 0]
  /\ UNCHANGED <<rowVars, ensVars, promptVars, procVars, workVars>>

(* The provider process exits by itself; the manager still lists it. *)
RuntimeExits(i) ==
  /\ runtime[i] = "alive" /\ faults < MaxFaults
  /\ faults' = faults + 1
  /\ runtime' = [runtime EXCEPT ![i] = "dead"]
  /\ UNCHANGED <<rowVars, recVars, ensVars, promptVars, up, hydVars, workVars,
                 release>>

(* The instance dies with everything it holds in memory. *)
Crash(i) ==
  /\ up[i] /\ faults < MaxFaults
  /\ faults' = faults + 1
  /\ up' = [up EXCEPT ![i] = FALSE]
  /\ hydrated' = [hydrated EXCEPT ![i] = "no"]
  /\ hydOwner' = [hydOwner EXCEPT ![i] = NoOwner]
  /\ hydLease' = [hydLease EXCEPT ![i] = 0]
  /\ runtime' = [runtime EXCEPT ![i] = "none"]
  /\ recKnown' = [recKnown EXCEPT ![i] = FALSE]
  /\ recOwner' = [recOwner EXCEPT ![i] = NoOwner]
  /\ recLease' = [recLease EXCEPT ![i] = 0]
  /\ ensPc' = [ensPc EXCEPT ![i] = "idle"]
  /\ ensFresh' = [ensFresh EXCEPT ![i] = FALSE]
  /\ ensSnap' = [ensSnap EXCEPT ![i] = FALSE]
  /\ ensLease' = [ensLease EXCEPT ![i] = 0]
  /\ refresh' = [refresh EXCEPT ![i] = "none"]
  /\ refreshLease' = [refreshLease EXCEPT ![i] = 0]
  /\ snap' = [snap EXCEPT ![i] = FALSE]
  /\ snapOwner' = [snapOwner EXCEPT ![i] = NoOwner]
  /\ snapLease' = [snapLease EXCEPT ![i] = 0]
  /\ release' = [release EXCEPT ![i] = "none"]
  /\ promptPc' = [p \in Prompt |->
       IF promptAt[p] = i THEN "done" ELSE promptPc[p]]
  /\ promptLease' = [p \in Prompt |->
       IF promptAt[p] = i THEN 0 ELSE promptLease[p]]
  /\ UNCHANGED <<rowVars, promptAt>>

Restart(i) ==
  /\ ~up[i]
  /\ up' = [up EXCEPT ![i] = TRUE]
  /\ UNCHANGED <<rowVars, recVars, ensVars, promptVars, hydVars, faults,
                 runtime, workVars, release>>

-----------------------------------------------------------------------------
Countdown(n) == IF n = 0 THEN 0 ELSE n - 1

(* The handlers that rely on a lease: a recovery that will still write the   *)
(* lease it computed, one that runs under the lease it acquired, a prompt    *)
(* that asks for one or was let through with it, a save of the row it read.  *)
Acquired(i) == ensPc[i] \in {"acquire", "classify", "start", "collect", "bind", "save"}
Started(i)  == ensPc[i] \in {"start", "collect", "bind", "save"}
Checking(p) == promptPc[p] = "checking"
Cleared(p)  == promptPc[p] = "cleared" /\ promptLease[p] > 0

NobodyOutstaysLease ==
  /\ \A i \in Instance : Acquired(i) => ensLease[i] > 1
  /\ \A i \in Instance : refresh[i] # "none" => refreshLease[i] > 1
  /\ \A i \in Instance : snap[i] => snapLease[i] # 1
  /\ \A p \in Prompt : Checking(p) => promptLease[p] > 1
  /\ (\E i \in Instance : Started(i)) \/ (\E p \in Prompt : Cleared(p))
       => rowLease > 1

Tick ==
  /\ LeaseOutlivesSteps => NobodyOutstaysLease
  /\ rowLease' = Countdown(rowLease)
  /\ recLease' = [i \in Instance |-> Countdown(recLease[i])]
  /\ ensLease' = [i \in Instance |-> Countdown(ensLease[i])]
  /\ promptLease' = [p \in Prompt |-> Countdown(promptLease[p])]
  /\ refreshLease' = [i \in Instance |-> Countdown(refreshLease[i])]
  /\ hydLease' = [i \in Instance |-> Countdown(hydLease[i])]
  /\ snapLease' = [i \in Instance |-> Countdown(snapLease[i])]
  /\ UNCHANGED <<rowPresent, rowOwner, rowHistory, recKnown, recOwner, ensPc,
                 ensFresh, ensSnap, promptPc, promptAt, up, hydrated, hydOwner,
                 faults, runtime, refresh, snap, snapOwner, release>>

(* The stretches of ensureSessionRuntime on instance i. *)
Recover(i) ==
  \/ LoadSnapshot(i) \/ Attach(i) \/ BeginAcquisition(i) \/ AcquireLease(i)
  \/ ClassifyRefusal(i) \/ StartRuntime(i) \/ RecordRuntime(i)
  \/ BindRuntime(i) \/ SaveSession(i)

Next ==
  \/ \E p \in Prompt, i \in Instance : SubmitPrompt(p, i)
  \/ \E i \in Instance :
       \/ Resume(i) \/ Recover(i)
       \/ RefreshLease(i) \/ CompleteRefresh(i)
       \/ ReadSessions(i) \/ Hydrate(i)
       \/ ReadRow(i) \/ WriteRow(i)
       \/ BeginRelease(i) \/ KillReleased(i) \/ FinishRelease(i)
       \/ RuntimeExits(i) \/ Crash(i) \/ Restart(i)
  \/ \E p \in Prompt : CheckLease(p) \/ Dispatch(p) \/ FinishTurn(p)
  \/ Tick

Spec == Init /\ [][Next]_vars

(* A recovery and a prompt that can go on do: both are awaited promises, every *)
(* one of which settles (database calls fail, provider starts time out).       *)
Fairness ==
  /\ \A i \in Instance : WF_vars(Recover(i))
  /\ \A p \in Prompt : WF_vars(CheckLease(p)) /\ WF_vars(Dispatch(p))

FairSpec == Spec /\ Fairness

(* A session somebody keeps resuming on a working instance: time passes, the  *)
(* client retries, and a step that can succeed again and again does at last.  *)
Retried(i) ==
  /\ WF_vars(Resume(i)) /\ WF_vars(Recover(i))
  /\ SF_vars(AcquireLease(i) /\ ensPc'[i] = "start")
  /\ SF_vars(StartRuntime(i) /\ ensPc'[i] = "collect")

RetriedSpec == Spec /\ WF_vars(Tick) /\ \A i \in Instance : Retried(i)

-----------------------------------------------------------------------------
(* An active lease is never taken from its owner: not by a second recovery,   *)
(* not by the binding a slow recovery writes after its runtime has started,   *)
(* not by a refresh (session-lease.ts:7-11).                                  *)
LeaseNeverStolen ==
  [][rowOwner # NoOwner /\ rowLease > 0 => rowOwner' = rowOwner]_vars

(* A prompt the lease check let through still holds the lease when it is      *)
(* dispatched: no other recovery, binding or refresh acquired the             *)
(* session while the delivery was being acknowledged, so two instances never  *)
(* dispatch to it at once.                                                    *)
ClearedHoldsLease ==
  \A p \in Prompt :
    Cleared(p) => rowOwner = promptAt[p] /\ rowLease > 0

(* A recovery starts a provider runtime, and reports it started, only while   *)
(* the durable row says that this instance owns the session.                  *)
StartsUnderLease ==
  \A i \in Instance :
    Started(i) /\ rowPresent => rowOwner = i /\ rowLease > 0

(* The inductive invariant behind the three properties above, when the row was *)
(* saved, its reads do not fail, nobody outstays a lease and no snapshot of    *)
(* the history writes an old row back: a recovery that has a lease to write is *)
(* one that found the session, so it went through the acquisition, and every   *)
(* expiry somebody is still to write lies ahead.                               *)
RecoveryInv ==
  \A i \in Instance :
    /\ Acquired(i) => ensLease[i] > 0
    /\ ensPc[i] = "attach" => ensSnap[i]
    /\ ensPc[i] # "classify"
RefreshInv ==
  \A i \in Instance : ~snap[i] /\ (refresh[i] # "none" => refreshLease[i] > 0)
PromptInv ==
  \A p \in Prompt :
    /\ Checking(p) => promptLease[p] > 0
    /\ promptPc[p] \notin {"checking", "cleared"} => promptLease[p] = 0
    /\ promptPc[p] # "new" => promptAt[p] # NoOwner
LeaseInv ==
  /\ rowPresent /\ RecoveryInv /\ RefreshInv /\ PromptInv
  /\ StartsUnderLease /\ ClearedHoldsLease

(* The instances that act for the session: they start its runtime, or hand it *)
(* a prompt the lease check let through.                                      *)
Acting ==
  {i \in Instance :
     Started(i) \/ \E p \in Prompt : Cleared(p) /\ promptAt[p] = i}

Abstract == INSTANCE SessionLease
  WITH owner <- rowOwner, active <- rowLease > 0, acting <- Acting

(* Recoveries, refreshes, bindings, saves, prompts and crashes of all the     *)
(* instances together keep the promise of the lease: whoever acts owns it,    *)
(* begins to act only with the claim, and it does not expire meanwhile        *)
(* (session-lease.ts, session-runtime-recovery.ts).                           *)
ImplementsLease == Abstract!Spec

(* Every prompt that joined a recovery is answered when it settles. *)
PromptsAnswered ==
  \A p \in Prompt : promptPc[p] = "ensuring" ~> promptPc[p] \in {"running", "done"}

(* When every other instance is gone for good, the session comes back on the  *)
(* one that is left, again and again, however its runtime dies.               *)
FailsOver ==
  \A i \in Instance :
    <>[](up[i] /\ \A j \in Instance \ {i} : ~up[j]) => []<>(runtime[i] = "alive")

-----------------------------------------------------------------------------
(* What the code and its documents also say, and what the settings the README *)
(* lists refute.                                                              *)

(* session-runtime-recovery.ts:498 At most ONE provider runtime per Routa     *)
(* Session, across instances.                                                 *)
OneRuntime ==
  \A i, j \in Instance : runtime[i] = "alive" /\ runtime[j] = "alive" => i = j

(* session-runtime-recovery.ts:869-871 Recovery writes never erase durable    *)
(* fields such as the history.                                                *)
HistoryKept == [][rowHistory => rowHistory']_vars

(* session-runtime-recovery.ts:504-507 A conflict never starts a second       *)
(* provider runtime, and none is started while the ownership is unknown.      *)
NoStartAgainstOwner ==
  \A i \in Instance :
    ensPc[i] \in {"start", "collect", "bind"} => ~OwnershipIssue(i, rowOwner, rowLease)
=============================================================================
