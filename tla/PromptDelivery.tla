--------------------------- MODULE PromptDelivery ---------------------------
(***************************************************************************)
(* The delivery of the prompts of ONE Routa Session: acp/prompt-delivery.ts *)
(* and what follows it in acp/session-prompt.ts.                           *)
(*                                                                         *)
(* A prompt has an identity, its promptId, that its client keeps over      *)
(* every retry.  A request, once its runtime is ensured and its lease is   *)
(* checked (SessionRuntime), is acknowledged: recorded once in the durable *)
(* history of the session.  Then it is dispatched to the provider, with    *)
(* the recovery context if the runtime was started without its history.    *)
(* The identity of a Team report is derived from the report, and a receipt *)
(* says that it was delivered (TeamRun has the orchestrator around it).    *)
(*                                                                         *)
(* The history is shared by the instances; markers, recovery contexts and  *)
(* requests are in the memory of one.  One action is one stretch of the    *)
(* handler between two awaits.                                             *)
(***************************************************************************)
EXTENDS Naturals

CONSTANTS
  Instance,   \* Routa instances that share the database
  Prompt,     \* the promptIds
  Report,     \* those of Team reports (isTeamReportDeliveryId)
  Request,    \* requests that can be under way at once
  None,
  RowSaved,   \* the background save of session/new has landed already
  Providers,  \* the kinds of provider the session may have
  MaxFaults   \* bound on failing reads and writes, lost answers, exits and releases
              \* of runtimes, and crashes

ASSUME ReportAssumption == Report \subseteq Prompt
ASSUME NoneAssumption == None \notin Instance \union Prompt
ASSUME BoundAssumption == MaxFaults \in Nat
ASSUME SwitchAssumption == RowSaved \in BOOLEAN
ASSUME ProviderAssumption == Providers \subseteq {"acp", "opencode-sdk", "claude"}

VARIABLES
  (* durable *)
  provider,     \* of the session, for good
  present,      \* the session row exists
  recorded,     \* the prompts whose message is in the history
  receipts,     \* the reports whose receipt is in the history
  (* per instance *)
  up, runtime,
  rebuilding,   \* a recovery has started the runtime and collects its envelope
  context,      \* pendingRecoveryContexts has an envelope for the session
  marker,       \* inflightPromptDeliveries: the prompts with a marker that has not expired
  (* per request *)
  req,          \* the prompt of the request, where it was sent, how far it got
  (* what the provider and the clients saw *)
  dispatched,   \* how often a prompt reached a provider, 2 for more
  acknowledged, \* the prompts whose client was told promptAccepted
  faults

durable == <<provider, present, recorded, receipts>>
instances == <<up, runtime, rebuilding, context, marker>>
vars == <<durable, instances, req, dispatched, acknowledged, faults>>

Users == Prompt \ Report

(* "whole": the runtime knows the history of the session; "bare": it does not, *)
(* and its first prompt has to bring it; "blank": it does not, and no recovery *)
(* has an envelope for it.                                                     *)
RuntimeState == {"none", "bare", "blank", "whole"}
Stage == {"arrived", "reading", "reading_receipt", "append",
          "accepted", "turn", "receipt"}

Requests ==
  {q \in [prompt : Prompt, at : Instance, stage : Stage] :
     q.stage \in {"reading_receipt", "receipt"} => q.prompt \in Report}
Idle == [prompt |-> None, at |-> None, stage |-> "none"]

StoreTypeOK ==
  /\ provider \in Providers
  /\ present \in BOOLEAN
  /\ recorded \subseteq Prompt
  /\ receipts \subseteq Report
InstanceTypeOK ==
  /\ up \in [Instance -> BOOLEAN]
  /\ runtime \in [Instance -> RuntimeState]
  /\ rebuilding \in [Instance -> BOOLEAN]
  /\ context \in [Instance -> BOOLEAN]
  /\ marker \in [Instance -> SUBSET Prompt]
RequestTypeOK == req \in [Request -> Requests \union {Idle}]
OutcomeTypeOK ==
  /\ dispatched \in [Prompt -> 0..2]
  /\ acknowledged \subseteq Prompt
  /\ faults \in 0..MaxFaults

TypeOK == StoreTypeOK /\ InstanceTypeOK /\ RequestTypeOK /\ OutcomeTypeOK

Init ==
  /\ provider \in Providers
  /\ present = RowSaved
  /\ recorded = {} /\ receipts = {}
  /\ up = [i \in Instance |-> TRUE]
  /\ runtime \in [Instance -> {"none", "whole"}]
  /\ rebuilding = [i \in Instance |-> FALSE]
  /\ context = [i \in Instance |-> FALSE]
  /\ marker = [i \in Instance |-> {}]
  /\ req = [r \in Request |-> Idle]
  /\ dispatched = [p \in Prompt |-> 0]
  /\ acknowledged = {}
  /\ faults = 0

-----------------------------------------------------------------------------
Goes(r, s) == req' = [req EXCEPT ![r].stage = s]
Ends(r) == req' = [req EXCEPT ![r] = Idle]
Fault == faults < MaxFaults /\ faults' = faults + 1

(* Mutant of Refuse: the delivery is answered as an accepted one. *)
RefuseAsAccepted(r) ==
  Ends(r) /\ acknowledged' = acknowledged \union {req[r].prompt}

(* The request ends with an error, and its caller keeps the prompt. *)
Refuse(r) == Ends(r) /\ UNCHANGED acknowledged

(* Mutants of Accept: a duplicate, or a prompt after its turn, is answered with  *)
(* an error; a receipt is written whatever the prompt is.                        *)
AcceptAsRefused(r) == Refuse(r) /\ UNCHANGED faults
AcceptWithReceipt(r) == Goes(r, "receipt") /\ UNCHANGED <<acknowledged, faults>>

(* The request ends with promptAccepted, which the client learns unless the    *)
(* answer is lost.  The caller of a report is the orchestrator of the same     *)
(* process, which goes on to the receipt.                                      *)
Accept(r) ==
  \/ /\ req[r].prompt \in Report
     /\ Goes(r, "receipt")
     /\ UNCHANGED <<acknowledged, faults>>
  \/ /\ req[r].prompt \in Users
     /\ Ends(r)
     /\ \/ acknowledged' = acknowledged \union {req[r].prompt} /\ UNCHANGED faults
        \/ UNCHANGED acknowledged /\ Fault


(* Somebody sends p, for the first time or again. *)
Arrive(r, p, i) ==
  /\ req[r] = Idle /\ up[i]
  /\ req' = [req EXCEPT ![r] = [prompt |-> p, at |-> i, stage |-> "arrived"]]
  /\ UNCHANGED <<durable, instances, dispatched, acknowledged, faults>>

(* The recovery or the lease check of the prompt fails. *)
NotEnsured(r) ==
  /\ req[r].stage = "arrived" /\ Refuse(r) /\ Fault
  /\ UNCHANGED <<durable, instances, dispatched>>

(* The recovery it joined is over and the lease was checked: the marker of the  *)
(* instance is looked at.                                                       *)
Ready(i) == runtime[i] # "none" /\ ~rebuilding[i]

(* Mutants of BeginAcknowledge: the marker is set, or the context is taken,     *)
(* before it is known whether the delivery can be recorded.                     *)
BeginAcknowledgeMarking(r) ==
  /\ req[r].stage = "arrived" /\ Ready(req[r].at)
  /\ UNCHANGED <<durable, up, runtime, rebuilding, context, dispatched>>
  /\ \/ req[r].prompt \in marker[req[r].at] /\ Accept(r) /\ UNCHANGED marker
     \/ /\ req[r].prompt \notin marker[req[r].at] /\ Goes(r, "reading")
        /\ marker' = [marker EXCEPT ![req[r].at] = @ \union {req[r].prompt}]
        /\ UNCHANGED <<acknowledged, faults>>
BeginAcknowledgeInformed(r) ==
  /\ req[r].stage = "arrived" /\ Ready(req[r].at) /\ Goes(r, "reading")
  /\ context' = [context EXCEPT ![req[r].at] = FALSE]
  /\ UNCHANGED <<durable, up, runtime, rebuilding, marker, dispatched,
                 acknowledged, faults>>

BeginAcknowledge(r) ==
  /\ req[r].stage = "arrived" /\ Ready(req[r].at)
  /\ UNCHANGED <<durable, instances, dispatched>>
  /\ \/ req[r].prompt \in marker[req[r].at] /\ Accept(r)
     \/ /\ req[r].prompt \notin marker[req[r].at] /\ Goes(r, "reading")
        /\ UNCHANGED <<acknowledged, faults>>

(* Mutant of ReadRecorded: a recorded prompt without a receipt is delivered    *)
(* again, whatever it is.                                                       *)
ReadRecordedOfAny(r) ==
  /\ req[r].stage = "reading"
  /\ UNCHANGED <<durable, instances, dispatched>>
  /\ Goes(r, IF req[r].prompt \in recorded THEN "reading_receipt" ELSE "append")
  /\ UNCHANGED <<acknowledged, faults>>

(* hasSessionHistoryEventInDb answers false when the read fails. *)
ReadRecorded(r) ==
  /\ req[r].stage = "reading"
  /\ UNCHANGED <<durable, instances, dispatched>>
  /\ \/ /\ req[r].prompt \in recorded \intersect Users
        /\ Accept(r)
     \/ /\ req[r].prompt \in recorded \intersect Report
        /\ Goes(r, "reading_receipt") /\ UNCHANGED <<acknowledged, faults>>
     \/ /\ req[r].prompt \notin recorded
        /\ Goes(r, "append") /\ UNCHANGED <<acknowledged, faults>>
     \/ /\ req[r].prompt \in recorded
        /\ Goes(r, "append") /\ Fault /\ UNCHANGED acknowledged

(* The delivery is accepted: the marker is set, pushUserMessage takes the       *)
(* prompt into the history in memory, and a snapshot of that is awaited.        *)
Acknowledge(r) ==
  /\ marker' = [marker EXCEPT ![req[r].at] = @ \union {req[r].prompt}]
  /\ Goes(r, "accepted")
  /\ UNCHANGED <<up, runtime, rebuilding, context, acknowledged, dispatched>>

(* A recorded report without a receipt was not delivered, as far as is known. *)
ReadReceipt(r) ==
  /\ req[r].stage = "reading_receipt"
  /\ \/ /\ req[r].prompt \in receipts
        /\ Accept(r)
        /\ UNCHANGED <<durable, instances, dispatched>>
     \/ /\ req[r].prompt \notin receipts
        /\ Acknowledge(r) /\ UNCHANGED <<durable, faults>>
     \/ /\ req[r].prompt \in receipts
        /\ Acknowledge(r) /\ Fault /\ UNCHANGED durable

(* appendHistoryOnce, one transaction: a duplicate lost the race and leaves the *)
(* prompt to the winner; without a row nothing is recorded.  A failure that may *)
(* have come after the commit is "unavailable".                                 *)
Append(r) ==
  /\ req[r].stage = "append"
  /\ \/ /\ req[r].prompt \in recorded
        /\ Accept(r)
        /\ UNCHANGED <<durable, instances, dispatched>>
     \/ /\ req[r].prompt \notin recorded /\ ~present
        /\ Refuse(r)
        /\ UNCHANGED <<durable, instances, dispatched, faults>>
     \/ /\ req[r].prompt \notin recorded /\ present
        /\ recorded' = recorded \union {req[r].prompt}
        /\ Acknowledge(r) /\ UNCHANGED <<provider, present, receipts, faults>>

AppendUnavailable(r) ==
  /\ req[r].stage = "append"
  /\ \/ UNCHANGED recorded
     \/ present /\ recorded' = recorded \union {req[r].prompt}
  /\ Refuse(r) /\ Fault
  /\ UNCHANGED <<provider, present, receipts, instances, dispatched>>

-----------------------------------------------------------------------------
Sent(p) == dispatched' = [dispatched EXCEPT ![p] = IF @ < 2 THEN @ + 1 ELSE 2]

(* The handler makes a runtime by itself where it finds none: a dead Claude Code *)
(* process is restarted, a missing SDK adapter created.  Claude may resume its *)
(* conversation; a new OpenCode session knows nothing.                         *)
Recreated == IF provider = "claude" THEN {"whole", "blank"} ELSE {"blank"}

(* What the runtime knows once it has the prompt, which brings the context. *)
Informed(i) ==
  CASE context[i] -> {"whole"}
    [] ~context[i] /\ runtime[i] # "none" -> {runtime[i]}
    [] OTHER -> Recreated

(* The recovery context goes with the prompt (consumePendingRecoveryContext).   *)
(* A streaming provider's client learns of the acceptance at once, others with *)
(* the end of the turn.                                                        *)
Dispatch(r) ==
  LET i == req[r].at IN
  /\ req[r].stage = "accepted" /\ (runtime[i] # "none" \/ provider # "acp")
  /\ Sent(req[r].prompt) /\ Goes(r, "turn")
  /\ context' = [context EXCEPT ![i] = FALSE]
  /\ \E state \in Informed(i) : runtime' = [runtime EXCEPT ![i] = state]
  /\ \/ UNCHANGED acknowledged
     \/ acknowledged' = acknowledged \union ({req[r].prompt} \intersect Users)
  /\ UNCHANGED <<durable, up, rebuilding, marker, faults>>

(* "process is not running", or its restart fails: an error, but the prompt     *)
(* stays recorded, its marker stays, and the context is gone.                   *)
DispatchFails(r) ==
  /\ req[r].stage = "accepted" /\ runtime[req[r].at] = "none"
  /\ context' = [context EXCEPT ![req[r].at] = FALSE]
  /\ Refuse(r)
  /\ UNCHANGED <<durable, up, runtime, rebuilding, marker, dispatched, faults>>

(* The turn ends or times out, which is an answer too, or the provider fails. *)
EndTurn(r) ==
  /\ req[r].stage = "turn"
  /\ \/ Accept(r)
     \/ Refuse(r) /\ Fault
     \/ Refuse(r) /\ runtime[req[r].at] = "none" /\ UNCHANGED faults
  /\ UNCHANGED <<durable, instances, dispatched>>

(* The orchestrator takes an accepted report and a duplicate one alike for      *)
(* delivered: it appends the receipt and clears the marker.                     *)
WriteReceipt(r) ==
  /\ req[r].stage = "receipt"
  /\ \/ /\ present /\ receipts' = receipts \union {req[r].prompt}
        /\ UNCHANGED faults
     \/ UNCHANGED receipts /\ Fault
  /\ marker' = [marker EXCEPT ![req[r].at] = @ \ {req[r].prompt}]
  /\ Refuse(r)
  /\ UNCHANGED <<provider, present, recorded, up, runtime, rebuilding, context, dispatched>>

(* INFLIGHT_PROMPT_DELIVERY_TTL_MS have passed since the acknowledgement began: *)
(* the marker no longer counts, whatever its request is doing.                  *)
MarkerExpires(i, p) ==
  /\ p \in marker[i]
  /\ marker' = [marker EXCEPT ![i] = @ \ {p}]
  /\ UNCHANGED <<durable, up, runtime, rebuilding, context, req, dispatched,
                 acknowledged, faults>>

-----------------------------------------------------------------------------
(* The background save of session/new lands. *)
SaveRow ==
  /\ ~present /\ present' = TRUE
  /\ UNCHANGED <<provider, recorded, receipts, instances, req, dispatched, acknowledged, faults>>

(* A recovery (SessionRuntime) starts a runtime.  A native resume has the       *)
(* history; one rebuilt by Claude gets the envelope with its creation, if it   *)
(* can be collected; for the others it is collected after the start, while     *)
(* callers still join.                                                         *)
StartRuntime(i) ==
  /\ up[i] /\ runtime[i] = "none" /\ ~rebuilding[i]
  /\ \/ /\ runtime' = [runtime EXCEPT ![i] = "whole"]
        /\ UNCHANGED <<rebuilding, faults>>
     \/ /\ provider = "claude" /\ Fault
        /\ runtime' = [runtime EXCEPT ![i] = "blank"] /\ UNCHANGED rebuilding
     \/ /\ provider # "claude"
        /\ runtime' = [runtime EXCEPT ![i] = "bare"]
        /\ rebuilding' = [rebuilding EXCEPT ![i] = TRUE] /\ UNCHANGED faults
  /\ UNCHANGED <<durable, up, context, marker, req, dispatched, acknowledged>>

(* Without an envelope the runtime goes on as it is. *)
QueueContext(i) ==
  /\ rebuilding[i]
  /\ rebuilding' = [rebuilding EXCEPT ![i] = FALSE]
  /\ \/ context' = [context EXCEPT ![i] = TRUE] /\ UNCHANGED <<runtime, faults>>
     \/ /\ Fault /\ UNCHANGED context
        /\ runtime' = [runtime EXCEPT
                         ![i] = IF @ = "bare" /\ ~context[i] THEN "blank" ELSE @]
  /\ UNCHANGED <<durable, up, marker, req, dispatched, acknowledged>>

RuntimeExits(i) ==
  /\ runtime[i] # "none" /\ Fault
  /\ runtime' = [runtime EXCEPT ![i] = "none"]
  /\ UNCHANGED <<durable, up, rebuilding, context, marker, req, dispatched, acknowledged>>

(* What the instance had in memory is gone, and so are its requests. *)
Crash(i) ==
  /\ up[i] /\ Fault
  /\ up' = [up EXCEPT ![i] = FALSE]
  /\ runtime' = [runtime EXCEPT ![i] = "none"]
  /\ rebuilding' = [rebuilding EXCEPT ![i] = FALSE]
  /\ context' = [context EXCEPT ![i] = FALSE]
  /\ marker' = [marker EXCEPT ![i] = {}]
  /\ req' = [r \in Request |-> IF req[r].at = i THEN Idle ELSE req[r]]
  /\ UNCHANGED <<durable, dispatched, acknowledged>>
Restart(i) ==
  /\ ~up[i] /\ up' = [up EXCEPT ![i] = TRUE]
  /\ UNCHANGED <<durable, runtime, rebuilding, context, marker, req, dispatched,
                 acknowledged, faults>>

Acknowledgement(r) ==
  \/ NotEnsured(r) \/ BeginAcknowledge(r)
  \/ ReadRecorded(r) \/ ReadReceipt(r)
  \/ Append(r) \/ AppendUnavailable(r)
Delivery(r) ==
  Dispatch(r) \/ DispatchFails(r) \/ EndTurn(r) \/ WriteReceipt(r)

Next ==
  \/ \E r \in Request, p \in Prompt, i \in Instance : Arrive(r, p, i)
  \/ \E r \in Request : Acknowledgement(r) \/ Delivery(r)
  \/ \E i \in Instance, p \in Prompt : MarkerExpires(i, p)
  \/ SaveRow
  \/ \E i \in Instance :
       StartRuntime(i) \/ QueueContext(i) \/ RuntimeExits(i) \/ Crash(i) \/ Restart(i)

Spec == Init /\ [][Next]_vars

(* A client that was not told sends its prompt again. *)
Retry(p) ==
  /\ p \notin acknowledged
  /\ \A r \in Request : req[r].prompt # p
  /\ \E r \in Request, i \in Instance : Arrive(r, p, i)

(* The database answers, a turn ends or its prompt times out, a recovery ends.  *)
(* Retries need strong fairness because the slots of Request are a bound of the *)
(* model, which others' requests may fill.                                      *)
Fairness ==
  /\ \A r \in Request : WF_vars(Acknowledgement(r)) /\ WF_vars(Delivery(r))
  /\ \A i \in Instance :
       WF_vars(StartRuntime(i)) /\ WF_vars(QueueContext(i)) /\ WF_vars(Restart(i))
  /\ \A p \in Users : SF_vars(Retry(p))

FairSpec == Spec /\ Fairness

-----------------------------------------------------------------------------
(* A user's prompt reaches a provider at most once, however often it is sent,  *)
(* by whichever instances, whatever fails: the promptId is an idempotency key  *)
(* (prompt-delivery.ts:11).                                                    *)
DispatchedOnce == \A p \in Users : dispatched[p] <= 1

(* promptAccepted is never said of a prompt that is not in the durable         *)
(* history: a client drops its copy on that word (prompt-delivery.ts:52).      *)
AcceptedIsRecorded == acknowledged \subseteq recorded

(* As long as nothing fails, a prompt whose client was told that it was        *)
(* accepted reached a provider or is about to: the duplicate that is answered  *)
(* first may be faster than the delivery it is a duplicate of.                 *)
AcceptedIsDelivered ==
  faults = 0 =>
    \A p \in acknowledged :
      \/ dispatched[p] > 0
      \/ \E r \in Request : req[r].prompt = p /\ req[r].stage = "accepted"

(* A runtime that a recovery started without the history of its session gets   *)
(* it with the first prompt of its own: neither a refused prompt nor one for   *)
(* the runtime before it uses the context up (session-prompt.ts:696).  Unless  *)
(* something failed no runtime is left without it otherwise: the handler finds *)
(* the one it was promised and has none to make.                               *)
ContextNotLost ==
  \A i \in Instance :
    /\ runtime[i] = "bare" => context[i] \/ rebuilding[i]
    /\ runtime[i] = "blank" => faults > 0

(* Not so when something fails: the process may exit, or the instance crash,   *)
(* between the record and the dispatch, and the retry is then answered         *)
(* "duplicate", so that the client drops a prompt no provider has seen.        *)
AcceptedIsDispatched ==
  \A p \in acknowledged :
    \/ dispatched[p] > 0
    \/ \E r \in Request : req[r].prompt = p /\ req[r].stage = "accepted"

(* A client that sends its prompt again until it is told is told in the end,   *)
(* once the row of the session has been saved.                                 *)
RetriedIsTold == \A p \in Users : <>present => <>(p \in acknowledged)
=============================================================================
