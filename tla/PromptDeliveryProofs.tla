------------------------ MODULE PromptDeliveryProofs ------------------------
(* Type correctness and the safety properties of PromptDelivery, for any       *)
(* instances, prompts and requests, and any number of faults.                  *)
EXTENDS PromptDelivery, TLAPS

LEMMA UnchangedType ==
  ASSUME TypeOK
  PROVE  /\ UNCHANGED durable => StoreTypeOK'
         /\ UNCHANGED instances => InstanceTypeOK'
         /\ UNCHANGED <<dispatched, acknowledged, faults>> => OutcomeTypeOK'
         /\ UNCHANGED req => RequestTypeOK'
BY DEF TypeOK, StoreTypeOK, InstanceTypeOK, RequestTypeOK, OutcomeTypeOK,
       durable, instances

LEMMA ActiveRequest ==
  ASSUME TypeOK, NEW r \in Request, req[r].stage \in Stage
  PROVE  req[r] \in Requests /\ req[r] # Idle
BY DEF TypeOK, RequestTypeOK, Stage, Idle

(* What the ways in which a request goes on do to the requests. *)
LEMMA GoesEffect ==
  ASSUME TypeOK, NEW r \in Request, req[r] \in Requests,
         NEW s \in Stage, Goes(r, s),
         s \in {"reading_receipt", "receipt"} => req[r].prompt \in Report
  PROVE  /\ RequestTypeOK'
         /\ req'[r].prompt = req[r].prompt /\ req'[r].at = req[r].at /\ req'[r].stage = s
         /\ \A q \in Request \ {r} : req'[q] = req[q]
<1>1. [req[r] EXCEPT !.stage = s] = [prompt |-> req[r].prompt, at |-> req[r].at, stage |-> s]
  BY DEF Requests
<1>2. [prompt |-> req[r].prompt, at |-> req[r].at, stage |-> s] \in Requests
  BY DEF Requests
<1>3. req' = [req EXCEPT ![r] = [prompt |-> req[r].prompt, at |-> req[r].at, stage |-> s]]
  BY <1>1 DEF Goes
<1> QED
  BY <1>2, <1>3 DEF TypeOK, RequestTypeOK

LEMMA EndsEffect ==
  ASSUME TypeOK, NEW r \in Request, Ends(r)
  PROVE  /\ RequestTypeOK'
         /\ req'[r].stage = "none" /\ req'[r].prompt = None
         /\ \A q \in Request \ {r} : req'[q] = req[q]
BY DEF TypeOK, RequestTypeOK, Ends, Idle

LEMMA FaultEffect ==
  ASSUME TypeOK, Fault \/ UNCHANGED faults
  PROVE  /\ faults' \in 0..MaxFaults
         /\ faults' = 0 => faults = 0 /\ UNCHANGED faults
BY BoundAssumption DEF TypeOK, OutcomeTypeOK, Fault

LEMMA RefuseEffect ==
  ASSUME TypeOK, NEW r \in Request, Refuse(r), Fault \/ UNCHANGED faults,
         UNCHANGED dispatched
  PROVE  /\ RequestTypeOK' /\ OutcomeTypeOK'
         /\ UNCHANGED acknowledged
         /\ faults' = 0 => faults = 0
         /\ req'[r].stage = "none" /\ req'[r].prompt = None
         /\ \A q \in Request \ {r} : req'[q] = req[q]
BY EndsEffect, FaultEffect DEF Refuse, TypeOK, OutcomeTypeOK

LEMMA AcceptEffect ==
  ASSUME TypeOK, NEW r \in Request, req[r] \in Requests, Accept(r),
         UNCHANGED dispatched
  PROVE  /\ RequestTypeOK' /\ OutcomeTypeOK'
         /\ acknowledged' \subseteq acknowledged \union {req[r].prompt}
         /\ faults' = 0 => faults = 0
         /\ \/ req'[r].stage = "none" /\ req'[r].prompt = None
            \/ /\ req[r].prompt \in Report
               /\ req'[r].stage = "receipt" /\ req'[r].prompt = req[r].prompt
         /\ \A q \in Request \ {r} : req'[q] = req[q]
<1>1. req[r].prompt \in Prompt /\ "receipt" \in Stage
  BY DEF Requests, Stage
<1>2. Fault \/ UNCHANGED faults
  BY DEF Accept
<1>3. CASE req[r].prompt \in Report /\ Goes(r, "receipt") /\ UNCHANGED <<acknowledged, faults>>
  BY <1>1, <1>3, GoesEffect DEF TypeOK, OutcomeTypeOK
<1>4. CASE /\ Ends(r)
           /\ acknowledged' = acknowledged \union {req[r].prompt} \/ UNCHANGED acknowledged
  BY <1>1, <1>2, <1>4, EndsEffect, FaultEffect DEF TypeOK, OutcomeTypeOK
<1> QED
  BY <1>3, <1>4 DEF Accept

LEMMA AcknowledgeEffect ==
  ASSUME TypeOK, NEW r \in Request, req[r] \in Requests, Acknowledge(r)
  PROVE  /\ RequestTypeOK' /\ InstanceTypeOK'
         /\ \A i \in Instance : marker'[i] \subseteq marker[i] \union {req[r].prompt}
         /\ req'[r].stage = "accepted" /\ req'[r].prompt = req[r].prompt
         /\ req'[r].at = req[r].at
         /\ \A q \in Request \ {r} : req'[q] = req[q]
<1>1. "accepted" \in Stage /\ req[r].prompt \in Prompt /\ req[r].at \in Instance
  BY DEF Stage, Requests
<1>2. /\ marker' \in [Instance -> SUBSET Prompt]
      /\ \A i \in Instance : marker'[i] \subseteq marker[i] \union {req[r].prompt}
  BY <1>1 DEF Acknowledge, TypeOK, InstanceTypeOK
<1>3. InstanceTypeOK'
  BY <1>2 DEF Acknowledge, TypeOK, InstanceTypeOK
<1> QED
  BY <1>1, <1>2, <1>3, GoesEffect DEF Acknowledge

LEMMA InformedState ==
  ASSUME TypeOK, NEW i \in Instance, NEW state \in Informed(i)
  PROVE  /\ state \in RuntimeState /\ state # "none"
         /\ state = "bare" => runtime[i] = "bare" /\ ~context[i]
         /\ state = "blank" => runtime[i] \in {"none", "blank"}
<1>1. runtime[i] \in RuntimeState /\ context[i] \in BOOLEAN
  BY DEF TypeOK, InstanceTypeOK
<1>2. CASE context[i]
  BY <1>1, <1>2 DEF Informed, RuntimeState
<1>3. CASE ~context[i] /\ runtime[i] # "none"
  BY <1>1, <1>3 DEF Informed, RuntimeState
<1>4. CASE ~context[i] /\ runtime[i] = "none"
  BY <1>1, <1>4 DEF Informed, RuntimeState, Recreated
<1> QED
  BY <1>1, <1>2, <1>3, <1>4

-----------------------------------------------------------------------------
(* The types. *)
LEMMA AcknowledgementType ==
  ASSUME TypeOK, NEW r \in Request, Acknowledgement(r)
  PROVE  TypeOK'
<1>a. req[r] \in Requests
  <2>1. req[r].stage \in Stage
    BY DEF Acknowledgement, NotEnsured, BeginAcknowledge, ReadRecorded,
           ReadReceipt, Append, AppendUnavailable, Stage
  <2> QED BY <2>1, ActiveRequest
<1>b. {"reading", "reading_receipt", "append"} \subseteq Stage /\ req[r].prompt \in Prompt
  BY <1>a DEF Stage, Requests
<1>1. CASE NotEnsured(r)
  BY <1>1, RefuseEffect, UnchangedType DEF NotEnsured, TypeOK
<1>2. CASE BeginAcknowledge(r)
  <2>1. CASE Accept(r)
    BY <1>2, <2>1, <1>a, AcceptEffect, UnchangedType DEF BeginAcknowledge, TypeOK
  <2>2. CASE Goes(r, "reading") /\ UNCHANGED <<acknowledged, faults>>
    BY <1>2, <2>2, <1>a, <1>b, GoesEffect, UnchangedType DEF BeginAcknowledge, TypeOK
  <2> QED BY <1>2, <2>1, <2>2 DEF BeginAcknowledge
<1>3. CASE ReadRecorded(r)
  <2>1. CASE Accept(r)
    BY <1>3, <2>1, <1>a, AcceptEffect, UnchangedType DEF ReadRecorded, TypeOK
  <2>2. CASE /\ \/ Goes(r, "reading_receipt") /\ req[r].prompt \in Report
                \/ Goes(r, "append")
             /\ UNCHANGED acknowledged /\ (Fault \/ UNCHANGED faults)
    <3>1. RequestTypeOK'
      BY <2>2, <1>a, <1>b, GoesEffect
    <3>2. OutcomeTypeOK'
      BY <1>3, <2>2, FaultEffect DEF ReadRecorded, TypeOK, OutcomeTypeOK
    <3> QED BY <1>3, <3>1, <3>2, UnchangedType DEF ReadRecorded, TypeOK
  <2> QED BY <1>3, <2>1, <2>2 DEF ReadRecorded
<1>4. CASE ReadReceipt(r)
  <2>1. CASE Accept(r) /\ UNCHANGED <<durable, instances, dispatched>>
    BY <2>1, <1>a, AcceptEffect, UnchangedType DEF TypeOK
  <2>2. CASE Acknowledge(r) /\ UNCHANGED durable /\ (Fault \/ UNCHANGED faults)
    <3>1. OutcomeTypeOK'
      BY <2>2, FaultEffect DEF Acknowledge, TypeOK, OutcomeTypeOK
    <3> QED BY <2>2, <3>1, <1>a, AcknowledgeEffect, UnchangedType DEF TypeOK
  <2> QED BY <1>4, <2>1, <2>2 DEF ReadReceipt
<1>5. CASE Append(r)
  <2>1. CASE Accept(r) /\ UNCHANGED <<durable, instances, dispatched>>
    BY <2>1, <1>a, AcceptEffect, UnchangedType DEF TypeOK
  <2>2. CASE Refuse(r) /\ UNCHANGED <<durable, instances, dispatched, faults>>
    BY <2>2, RefuseEffect, UnchangedType DEF TypeOK
  <2>3. CASE /\ recorded' = recorded \union {req[r].prompt}
             /\ Acknowledge(r) /\ UNCHANGED <<provider, present, receipts, faults>>
    <3>1. StoreTypeOK' /\ OutcomeTypeOK'
      BY <2>3, <1>b DEF Acknowledge, TypeOK, StoreTypeOK, OutcomeTypeOK
    <3> QED BY <2>3, <3>1, <1>a, AcknowledgeEffect DEF TypeOK
  <2> QED BY <1>5, <2>1, <2>2, <2>3 DEF Append
<1>6. CASE AppendUnavailable(r)
  <2>1. StoreTypeOK'
    BY <1>6, <1>b DEF AppendUnavailable, TypeOK, StoreTypeOK
  <2> QED BY <1>6, <2>1, RefuseEffect, UnchangedType DEF AppendUnavailable, TypeOK
<1> QED
  BY <1>1, <1>2, <1>3, <1>4, <1>5, <1>6 DEF Acknowledgement

LEMMA DeliveryType ==
  ASSUME TypeOK, NEW r \in Request, Delivery(r)
  PROVE  TypeOK'
<1>a. req[r] \in Requests
  <2>1. req[r].stage \in Stage
    BY DEF Delivery, Dispatch, DispatchFails, EndTurn, WriteReceipt, Stage
  <2> QED BY <2>1, ActiveRequest
<1>b. "turn" \in Stage /\ req[r].prompt \in Prompt /\ req[r].at \in Instance
  BY <1>a DEF Stage, Requests
<1>1. CASE Dispatch(r)
  <2>1. RequestTypeOK'
    BY <1>1, <1>a, <1>b, GoesEffect DEF Dispatch
  <2>2. InstanceTypeOK'
    <3>1. PICK state \in Informed(req[r].at) :
            runtime' = [runtime EXCEPT ![req[r].at] = state]
      BY <1>1 DEF Dispatch
    <3>2. state \in RuntimeState
      BY <3>1, <1>b, InformedState
    <3> QED BY <1>1, <1>b, <3>1, <3>2 DEF Dispatch, TypeOK, InstanceTypeOK
  <2>3. OutcomeTypeOK'
    BY <1>1, <1>b DEF Dispatch, Sent, TypeOK, OutcomeTypeOK
  <2> QED BY <1>1, <2>1, <2>2, <2>3, UnchangedType DEF Dispatch, TypeOK
<1>2. CASE DispatchFails(r)
  <2>1. InstanceTypeOK'
    BY <1>2 DEF DispatchFails, TypeOK, InstanceTypeOK
  <2> QED BY <1>2, <2>1, RefuseEffect, UnchangedType DEF DispatchFails, TypeOK
<1>3. CASE EndTurn(r)
  <2>1. CASE Accept(r)
    BY <1>3, <2>1, <1>a, AcceptEffect, UnchangedType DEF EndTurn, TypeOK
  <2>2. CASE Refuse(r) /\ (Fault \/ UNCHANGED faults)
    BY <1>3, <2>2, RefuseEffect, UnchangedType DEF EndTurn, TypeOK
  <2> QED BY <1>3, <2>1, <2>2 DEF EndTurn
<1>4. CASE WriteReceipt(r)
  <2>1. InstanceTypeOK'
    BY <1>4 DEF WriteReceipt, TypeOK, InstanceTypeOK
  <2>2. StoreTypeOK'
    BY <1>4, <1>a DEF WriteReceipt, TypeOK, StoreTypeOK, Requests
  <2>3. Fault \/ UNCHANGED faults
    BY <1>4 DEF WriteReceipt
  <2> QED BY <1>4, <2>1, <2>2, <2>3, RefuseEffect DEF WriteReceipt, TypeOK
<1> QED
  BY <1>1, <1>2, <1>3, <1>4 DEF Delivery

LEMMA EnvironmentType ==
  ASSUME TypeOK, NEW i \in Instance,
         \/ StartRuntime(i) \/ QueueContext(i) \/ RuntimeExits(i)
         \/ Crash(i) \/ Restart(i)
  PROVE  TypeOK'
<1>1. CASE StartRuntime(i)
  <2>1. InstanceTypeOK'
    BY <1>1 DEF StartRuntime, TypeOK, InstanceTypeOK, RuntimeState
  <2>2. OutcomeTypeOK'
    BY <1>1, FaultEffect DEF StartRuntime, TypeOK, OutcomeTypeOK
  <2> QED BY <1>1, <2>1, <2>2, UnchangedType DEF StartRuntime, TypeOK
<1>2. CASE QueueContext(i)
  <2>1. InstanceTypeOK'
    BY <1>2 DEF QueueContext, TypeOK, InstanceTypeOK, RuntimeState
  <2>2. OutcomeTypeOK'
    BY <1>2, FaultEffect DEF QueueContext, TypeOK, OutcomeTypeOK
  <2> QED BY <1>2, <2>1, <2>2, UnchangedType DEF QueueContext, TypeOK
<1>3. CASE RuntimeExits(i)
  <2>1. InstanceTypeOK'
    BY <1>3 DEF RuntimeExits, TypeOK, InstanceTypeOK, RuntimeState
  <2>2. OutcomeTypeOK'
    BY <1>3, FaultEffect DEF RuntimeExits, TypeOK, OutcomeTypeOK
  <2> QED BY <1>3, <2>1, <2>2, UnchangedType DEF RuntimeExits, TypeOK
<1>4. CASE Crash(i)
  <2>1. InstanceTypeOK'
    BY <1>4 DEF Crash, TypeOK, InstanceTypeOK, RuntimeState
  <2>2. OutcomeTypeOK'
    BY <1>4, FaultEffect DEF Crash, TypeOK, OutcomeTypeOK
  <2>3. RequestTypeOK'
    BY <1>4 DEF Crash, TypeOK, RequestTypeOK
  <2> QED BY <1>4, <2>1, <2>2, <2>3, UnchangedType DEF Crash, TypeOK
<1>5. CASE Restart(i)
  <2>1. InstanceTypeOK'
    BY <1>5 DEF Restart, TypeOK, InstanceTypeOK
  <2> QED BY <1>5, <2>1, UnchangedType DEF Restart, TypeOK
<1> QED
  BY <1>1, <1>2, <1>3, <1>4, <1>5

LEMMA TypeStep ==
  ASSUME TypeOK, [Next]_vars
  PROVE  TypeOK'
<1>1. ASSUME NEW r \in Request, NEW p \in Prompt, NEW i \in Instance, Arrive(r, p, i)
      PROVE  TypeOK'
  <2>1. [prompt |-> p, at |-> i, stage |-> "arrived"] \in Requests
    BY DEF Requests, Stage
  <2>2. RequestTypeOK'
    BY <1>1, <2>1 DEF Arrive, TypeOK, RequestTypeOK
  <2> QED BY <1>1, <2>2, UnchangedType DEF Arrive, TypeOK
<1>2. ASSUME NEW i \in Instance, NEW p \in Prompt, MarkerExpires(i, p)
      PROVE  TypeOK'
  <2>1. InstanceTypeOK'
    BY <1>2 DEF MarkerExpires, TypeOK, InstanceTypeOK
  <2> QED BY <1>2, <2>1, UnchangedType DEF MarkerExpires, TypeOK
<1>3. CASE SaveRow
  <2>1. StoreTypeOK'
    BY <1>3 DEF SaveRow, TypeOK, StoreTypeOK
  <2> QED BY <1>3, <2>1, UnchangedType DEF SaveRow, TypeOK
<1>4. CASE UNCHANGED vars
  BY <1>4, UnchangedType DEF vars, TypeOK
<1> QED
  BY <1>1, <1>2, <1>3, <1>4, AcknowledgementType, DeliveryType, EnvironmentType DEF Next

LEMMA TypeInit == Init => TypeOK
BY BoundAssumption, SwitchAssumption
   DEF Init, TypeOK, StoreTypeOK, InstanceTypeOK, RequestTypeOK, OutcomeTypeOK,
       RuntimeState

(* Every reachable state is well typed, and only reports have receipts. *)
THEOREM TypeCorrect == Spec => []TypeOK
BY TypeInit, TypeStep, PTL DEF Spec

-----------------------------------------------------------------------------
(* What was told, marked, dispatched or given a receipt is in the history. *)
RecordedFirst ==
  /\ receipts \subseteq recorded
  /\ acknowledged \subseteq recorded
  /\ \A i \in Instance : marker[i] \subseteq recorded
  /\ \A p \in Prompt : dispatched[p] > 0 => p \in recorded
  /\ \A r \in Request :
       req[r].stage \in {"reading_receipt", "accepted", "turn", "receipt"}
         => req[r].prompt \in recorded

(* The request that recorded a prompt of a user is the only one to deliver it. *)
Delivering(r) == req[r].stage = "accepted" /\ req[r].prompt \in Users
OneDeliverer ==
  /\ \A r \in Request : Delivering(r) => dispatched[req[r].prompt] = 0
  /\ \A r, q \in Request :
       Delivering(r) /\ Delivering(q) /\ req[r].prompt = req[q].prompt => r = q

DeliveryInv == TypeOK /\ RecordedFirst /\ DispatchedOnce /\ OneDeliverer

LEMMA AcceptKeepsRecorded ==
  ASSUME DeliveryInv, NEW r \in Request, req[r] \in Requests, Accept(r),
         UNCHANGED <<durable, instances, dispatched>>, req[r].prompt \in recorded
  PROVE  RecordedFirst'
<1>1. acknowledged' \subseteq recorded'
  BY AcceptEffect DEF DeliveryInv, RecordedFirst, durable
<1>2. \A q \in Request :
        req'[q].stage \in {"reading_receipt", "accepted", "turn", "receipt"}
          => req'[q].prompt \in recorded'
  BY AcceptEffect DEF DeliveryInv, RecordedFirst, durable
<1> QED
  BY <1>1, <1>2 DEF DeliveryInv, RecordedFirst, durable, instances

LEMMA RefuseKeepsRecorded ==
  ASSUME DeliveryInv, NEW r \in Request, Refuse(r), Fault \/ UNCHANGED faults,
         UNCHANGED dispatched, recorded \subseteq recorded',
         receipts' \subseteq recorded',
         \A i \in Instance : marker'[i] \subseteq marker[i]
  PROVE  RecordedFirst'
<1>1. \A q \in Request :
        req'[q].stage \in {"reading_receipt", "accepted", "turn", "receipt"}
          => req'[q].prompt \in recorded'
  BY RefuseEffect DEF DeliveryInv, RecordedFirst
<1> QED
  BY <1>1 DEF DeliveryInv, RecordedFirst, Refuse

(* A request that ends, or goes on without being accepted, delivers nothing. *)
LEMMA StillOneDeliverer ==
  ASSUME DeliveryInv, NEW r \in Request, UNCHANGED dispatched,
         req'[r].stage # "accepted",
         \A q \in Request \ {r} : req'[q] = req[q]
  PROVE  OneDeliverer' /\ DispatchedOnce'
BY DEF DeliveryInv, OneDeliverer, Delivering, DispatchedOnce

LEMMA GoesKeeps ==
  ASSUME DeliveryInv, NEW r \in Request, req[r] \in Requests,
         NEW s \in {"reading", "reading_receipt", "append"}, Goes(r, s),
         s = "reading_receipt" => req[r].prompt \in Report \intersect recorded,
         UNCHANGED <<durable, instances, dispatched, acknowledged>>
  PROVE  RecordedFirst' /\ OneDeliverer' /\ DispatchedOnce'
<1>1. s \in Stage /\ TypeOK /\ UNCHANGED <<recorded, receipts, marker>>
  BY DEF Stage, DeliveryInv, durable, instances
<1>2. /\ req'[r].stage = s /\ req'[r].prompt = req[r].prompt
      /\ \A q \in Request \ {r} : req'[q] = req[q]
  BY <1>1, GoesEffect
<1>3. RecordedFirst'
  <2>1. \A q \in Request :
          req'[q].stage \in {"reading_receipt", "accepted", "turn", "receipt"}
            => req'[q].prompt \in recorded'
    BY <1>1, <1>2 DEF DeliveryInv, RecordedFirst
  <2> QED BY <1>1, <2>1 DEF DeliveryInv, RecordedFirst
<1> QED
  BY <1>2, <1>3, StillOneDeliverer

(* A report is delivered again, or a prompt is recorded by this very step. *)
LEMMA AcknowledgeKeeps ==
  ASSUME DeliveryInv, NEW r \in Request, req[r] \in Requests, Acknowledge(r),
         UNCHANGED receipts,
         recorded' = recorded \union {req[r].prompt},
         req[r].prompt \in Users => req[r].prompt \notin recorded
  PROVE  RecordedFirst' /\ OneDeliverer' /\ DispatchedOnce'
<1> DEFINE p == req[r].prompt
<1>0. p \in Prompt /\ TypeOK /\ UNCHANGED <<dispatched, acknowledged>>
  BY DEF Requests, DeliveryInv, Acknowledge
<1>1. /\ \A i \in Instance : marker'[i] \subseteq marker[i] \union {p}
      /\ req'[r].stage = "accepted" /\ req'[r].prompt = p
      /\ \A q \in Request \ {r} : req'[q] = req[q]
  BY <1>0, AcknowledgeEffect
<1>2. RecordedFirst'
  BY <1>0, <1>1 DEF DeliveryInv, RecordedFirst
<1>3. ASSUME p \in Users
      PROVE  /\ dispatched[p] = 0
             /\ \A q \in Request : ~(Delivering(q) /\ req[q].prompt = p)
  <2>1. p \notin recorded
    BY <1>3
  <2>2. dispatched[p] \in 0..2
    BY <1>0 DEF TypeOK, OutcomeTypeOK
  <2> QED BY <2>1, <2>2, <1>0 DEF DeliveryInv, RecordedFirst, Delivering
<1>4. OneDeliverer'
  BY <1>0, <1>1, <1>3 DEF DeliveryInv, OneDeliverer, Delivering
<1> QED
  BY <1>0, <1>2, <1>4 DEF DeliveryInv, DispatchedOnce

LEMMA AcknowledgementKeeps ==
  ASSUME DeliveryInv, NEW r \in Request, Acknowledgement(r)
  PROVE  RecordedFirst' /\ OneDeliverer' /\ DispatchedOnce'
<1>a. req[r] \in Requests /\ TypeOK
  <2>1. req[r].stage \in Stage
    BY DEF Acknowledgement, NotEnsured, BeginAcknowledge, ReadRecorded,
           ReadReceipt, Append, AppendUnavailable, Stage
  <2> QED BY <2>1, ActiveRequest DEF DeliveryInv
<1>b. req[r].prompt \in Prompt /\ req[r].at \in Instance
  BY <1>a DEF Requests
<1>c. ASSUME Accept(r), UNCHANGED <<durable, instances, dispatched>>,
             req[r].prompt \in recorded
      PROVE  RecordedFirst' /\ OneDeliverer' /\ DispatchedOnce'
  <2>1. /\ req'[r].stage # "accepted"
        /\ \A q \in Request \ {r} : req'[q] = req[q]
    BY <1>a, <1>c, AcceptEffect
  <2> QED BY <1>a, <1>c, <2>1, AcceptKeepsRecorded, StillOneDeliverer
<1>d. ASSUME Refuse(r), Fault \/ UNCHANGED faults, UNCHANGED <<instances, dispatched>>,
             UNCHANGED receipts, recorded \subseteq recorded'
      PROVE  RecordedFirst' /\ OneDeliverer' /\ DispatchedOnce'
  <2>1. /\ req'[r].stage # "accepted"
        /\ \A q \in Request \ {r} : req'[q] = req[q]
    BY <1>a, <1>d, RefuseEffect
  <2>2. receipts' \subseteq recorded'
    BY <1>d DEF DeliveryInv, RecordedFirst
  <2>3. \A i \in Instance : marker'[i] \subseteq marker[i]
    BY <1>d DEF instances
  <2> QED BY <1>d, <2>1, <2>2, <2>3, RefuseKeepsRecorded, StillOneDeliverer
<1>1. CASE NotEnsured(r)
  BY <1>1, <1>d DEF NotEnsured, durable
<1>2. CASE BeginAcknowledge(r)
  <2>1. CASE req[r].prompt \in marker[req[r].at] /\ Accept(r)
    <3>1. req[r].prompt \in recorded
      BY <2>1, <1>b DEF DeliveryInv, RecordedFirst
    <3> QED BY <1>2, <2>1, <3>1, <1>c DEF BeginAcknowledge
  <2>2. CASE Goes(r, "reading") /\ UNCHANGED <<acknowledged, faults>>
    BY <1>2, <2>2, <1>a, GoesKeeps DEF BeginAcknowledge
  <2> QED BY <1>2, <2>1, <2>2 DEF BeginAcknowledge
<1>3. CASE ReadRecorded(r)
  <2>1. CASE req[r].prompt \in recorded \intersect Users /\ Accept(r)
    BY <1>3, <2>1, <1>c DEF ReadRecorded
  <2>2. CASE /\ \/ req[r].prompt \in recorded \intersect Report /\ Goes(r, "reading_receipt")
                \/ Goes(r, "append")
             /\ UNCHANGED acknowledged
    BY <1>3, <2>2, <1>a, GoesKeeps DEF ReadRecorded
  <2> QED BY <1>3, <2>1, <2>2 DEF ReadRecorded
<1>4. CASE ReadReceipt(r)
  <2>0. req[r].prompt \in recorded /\ req[r].prompt \in Report
    BY <1>4, <1>a DEF ReadReceipt, DeliveryInv, RecordedFirst, Requests
  <2>1. CASE Accept(r) /\ UNCHANGED <<durable, instances, dispatched>>
    BY <2>0, <2>1, <1>c
  <2>2. CASE Acknowledge(r) /\ UNCHANGED durable
    <3>1. recorded' = recorded \union {req[r].prompt} /\ UNCHANGED receipts
      BY <2>0, <2>2 DEF durable
    <3>2. req[r].prompt \notin Users
      BY <2>0 DEF Users
    <3> QED BY <2>2, <3>1, <3>2, <1>a, AcknowledgeKeeps
  <2> QED BY <1>4, <2>1, <2>2 DEF ReadReceipt
<1>5. CASE Append(r)
  <2>1. CASE req[r].prompt \in recorded /\ Accept(r) /\ UNCHANGED <<durable, instances, dispatched>>
    BY <2>1, <1>c
  <2>2. CASE Refuse(r) /\ UNCHANGED <<durable, instances, dispatched, faults>>
    BY <2>2, <1>d DEF durable
  <2>3. CASE /\ req[r].prompt \notin recorded
             /\ recorded' = recorded \union {req[r].prompt}
             /\ Acknowledge(r) /\ UNCHANGED <<provider, present, receipts, faults>>
    BY <2>3, <1>a, AcknowledgeKeeps
  <2> QED BY <1>5, <2>1, <2>2, <2>3 DEF Append
<1>6. CASE AppendUnavailable(r)
  BY <1>6, <1>d DEF AppendUnavailable
<1> QED
  BY <1>1, <1>2, <1>3, <1>4, <1>5, <1>6 DEF Acknowledgement

LEMMA DeliveryKeeps ==
  ASSUME DeliveryInv, NEW r \in Request, Delivery(r)
  PROVE  RecordedFirst' /\ OneDeliverer' /\ DispatchedOnce'
<1>a. req[r] \in Requests /\ TypeOK
  <2>1. req[r].stage \in Stage
    BY DEF Delivery, Dispatch, DispatchFails, EndTurn, WriteReceipt, Stage
  <2> QED BY <2>1, ActiveRequest DEF DeliveryInv
<1>b. req[r].prompt \in Prompt /\ req[r].at \in Instance
  BY <1>a DEF Requests
<1>c. ASSUME Refuse(r), Fault \/ UNCHANGED faults, UNCHANGED <<recorded, dispatched>>,
             receipts' \subseteq recorded,
             \A i \in Instance : marker'[i] \subseteq marker[i]
      PROVE  RecordedFirst' /\ OneDeliverer' /\ DispatchedOnce'
  <2>1. /\ req'[r].stage # "accepted"
        /\ \A q \in Request \ {r} : req'[q] = req[q]
    BY <1>a, <1>c, RefuseEffect
  <2> QED BY <1>c, <2>1, RefuseKeepsRecorded, StillOneDeliverer
<1>d. receipts \subseteq recorded
  BY DEF DeliveryInv, RecordedFirst
<1>1. CASE Dispatch(r)
  <2> DEFINE p == req[r].prompt
  <2>0. p \in recorded /\ req[r].stage = "accepted"
    BY <1>1, <1>b DEF Dispatch, DeliveryInv, RecordedFirst
  <2>1. /\ req'[r].prompt = p /\ req'[r].stage = "turn"
        /\ \A q \in Request \ {r} : req'[q] = req[q]
    BY <1>1, <1>a, GoesEffect DEF Dispatch, Stage
  <2>2. /\ \A q \in Prompt : q # p => dispatched'[q] = dispatched[q]
        /\ dispatched[p] = 0 => dispatched'[p] = 1
    BY <1>1, <1>a, <1>b DEF Dispatch, Sent, TypeOK, OutcomeTypeOK
  <2>3. RecordedFirst'
    <3>1. acknowledged' \subseteq recorded'
      BY <1>1, <2>0 DEF Dispatch, DeliveryInv, RecordedFirst, durable
    <3>2. \A q \in Prompt : dispatched'[q] > 0 => q \in recorded'
      BY <1>1, <2>0, <2>2 DEF Dispatch, DeliveryInv, RecordedFirst, durable
    <3> QED BY <1>1, <2>0, <2>1, <3>1, <3>2
            DEF Dispatch, DeliveryInv, RecordedFirst, durable
  <2>4. DispatchedOnce'
    <3>1. CASE p \in Users
      <4>1. dispatched[p] = 0
        BY <2>0, <3>1 DEF DeliveryInv, OneDeliverer, Delivering
      <4> QED BY <2>2, <4>1 DEF DeliveryInv, DispatchedOnce, Users
    <3>2. CASE p \notin Users
      BY <2>2, <3>2 DEF DeliveryInv, DispatchedOnce, Users
    <3> QED BY <3>1, <3>2
  <2>5. OneDeliverer'
    <3>1. \A q \in Request : Delivering(q)' => Delivering(q) /\ q # r /\ req'[q] = req[q]
      BY <2>1 DEF Delivering
    <3>2. \A q \in Request : Delivering(q) /\ q # r => req[q].prompt # p /\ req[q].prompt \in Prompt
      BY <2>0, <1>b DEF DeliveryInv, OneDeliverer, Delivering, Users
    <3> QED BY <2>2, <3>1, <3>2 DEF DeliveryInv, OneDeliverer
  <2> QED BY <2>3, <2>4, <2>5
<1>2. CASE DispatchFails(r)
  BY <1>2, <1>c, <1>d DEF DispatchFails, durable
<1>3. CASE EndTurn(r)
  <2>1. req[r].prompt \in recorded
    BY <1>3 DEF EndTurn, DeliveryInv, RecordedFirst
  <2>2. CASE Accept(r)
    <3>1. /\ req'[r].stage # "accepted"
          /\ \A q \in Request \ {r} : req'[q] = req[q]
      BY <1>a, <1>3, <2>2, AcceptEffect DEF EndTurn
    <3> QED BY <1>a, <1>3, <2>1, <2>2, <3>1, AcceptKeepsRecorded, StillOneDeliverer
            DEF EndTurn
  <2>3. CASE Refuse(r) /\ (Fault \/ UNCHANGED faults)
    BY <1>3, <2>3, <1>c, <1>d DEF EndTurn, durable, instances
  <2> QED BY <1>3, <2>2, <2>3 DEF EndTurn
<1>4. CASE WriteReceipt(r)
  <2>1. receipts' \subseteq recorded
    BY <1>4, <1>d DEF WriteReceipt, DeliveryInv, RecordedFirst
  <2>2. \A i \in Instance : marker'[i] \subseteq marker[i]
    BY <1>4, <1>a DEF WriteReceipt, TypeOK, InstanceTypeOK
  <2>3. Fault \/ UNCHANGED faults
    BY <1>4 DEF WriteReceipt
  <2> QED BY <1>4, <2>1, <2>2, <2>3, <1>c DEF WriteReceipt
<1> QED
  BY <1>1, <1>2, <1>3, <1>4 DEF Delivery

(* Everybody else only forgets. *)
LEMMA ForgettingKeeps ==
  ASSUME DeliveryInv, UNCHANGED <<recorded, receipts, dispatched, acknowledged>>,
         \A i \in Instance : marker'[i] \subseteq marker[i],
         \A r \in Request : req'[r] = req[r] \/ req'[r].stage \in {"none", "arrived"}
  PROVE  RecordedFirst' /\ OneDeliverer' /\ DispatchedOnce'
<1>1. RecordedFirst'
  BY DEF DeliveryInv, RecordedFirst
<1>2. OneDeliverer' /\ DispatchedOnce'
  BY DEF DeliveryInv, OneDeliverer, Delivering, DispatchedOnce
<1> QED
  BY <1>1, <1>2

LEMMA DeliveryStep ==
  ASSUME DeliveryInv, [Next]_vars
  PROVE  DeliveryInv'
<1>a. TypeOK /\ TypeOK'
  BY TypeStep DEF DeliveryInv
<1>1. ASSUME NEW r \in Request, NEW p \in Prompt, NEW i \in Instance, Arrive(r, p, i)
      PROVE  RecordedFirst' /\ OneDeliverer' /\ DispatchedOnce'
  <2>1. \A q \in Request : req'[q] = req[q] \/ req'[q].stage \in {"none", "arrived"}
    BY <1>1, <1>a DEF Arrive, TypeOK, RequestTypeOK
  <2> QED BY <1>1, <2>1, ForgettingKeeps DEF Arrive, durable, instances
<1>2. ASSUME NEW i \in Instance, NEW p \in Prompt, MarkerExpires(i, p)
      PROVE  RecordedFirst' /\ OneDeliverer' /\ DispatchedOnce'
  <2>1. \A j \in Instance : marker'[j] \subseteq marker[j]
    BY <1>2, <1>a DEF MarkerExpires, TypeOK, InstanceTypeOK
  <2> QED BY <1>2, <2>1, ForgettingKeeps DEF MarkerExpires, durable
<1>3. ASSUME SaveRow
      PROVE  RecordedFirst' /\ OneDeliverer' /\ DispatchedOnce'
  <2>1. UNCHANGED <<recorded, receipts, marker, req, dispatched, acknowledged>>
    BY <1>3 DEF SaveRow, instances
  <2> QED BY <2>1, ForgettingKeeps
<1>4. ASSUME NEW i \in Instance,
             \/ StartRuntime(i) \/ QueueContext(i) \/ RuntimeExits(i) \/ Restart(i)
      PROVE  RecordedFirst' /\ OneDeliverer' /\ DispatchedOnce'
  <2>1. UNCHANGED <<recorded, receipts, marker, req, dispatched, acknowledged>>
    BY <1>4 DEF StartRuntime, QueueContext, RuntimeExits, Restart, durable
  <2> QED BY <2>1, ForgettingKeeps
<1>5. ASSUME NEW i \in Instance, Crash(i)
      PROVE  RecordedFirst' /\ OneDeliverer' /\ DispatchedOnce'
  <2>1. \A j \in Instance : marker'[j] \subseteq marker[j]
    BY <1>5, <1>a DEF Crash, TypeOK, InstanceTypeOK
  <2>2. \A q \in Request : req'[q] = req[q] \/ req'[q].stage \in {"none", "arrived"}
    BY <1>5 DEF Crash, Idle
  <2> QED BY <1>5, <2>1, <2>2, ForgettingKeeps DEF Crash, durable
<1>6. ASSUME UNCHANGED vars
      PROVE  RecordedFirst' /\ OneDeliverer' /\ DispatchedOnce'
  <2>1. UNCHANGED <<recorded, receipts, marker, req, dispatched, acknowledged>>
    BY <1>6 DEF vars, durable, instances
  <2> QED BY <2>1, ForgettingKeeps
<1>7. ASSUME NEW r \in Request, Acknowledgement(r) \/ Delivery(r)
      PROVE  RecordedFirst' /\ OneDeliverer' /\ DispatchedOnce'
  BY <1>7, AcknowledgementKeeps, DeliveryKeeps
<1>8. RecordedFirst' /\ OneDeliverer' /\ DispatchedOnce'
  <2>1. CASE Next
    BY <2>1, <1>1, <1>2, <1>3, <1>4, <1>5, <1>7 DEF Next
  <2> QED BY <2>1, <1>6
<1> QED
  BY <1>a, <1>8 DEF DeliveryInv

LEMMA DeliveryInit ==
  ASSUME Init
  PROVE  DeliveryInv
<1>1. TypeOK
  BY TypeInit
<1>2. RecordedFirst
  BY DEF Init, RecordedFirst, Idle
<1>3. DispatchedOnce /\ OneDeliverer
  BY DEF Init, DispatchedOnce, OneDeliverer, Delivering, Users, Idle
<1> QED
  BY <1>1, <1>2, <1>3 DEF DeliveryInv

LEMMA DeliveryInvariant == Spec => []DeliveryInv
BY DeliveryInit, DeliveryStep, PTL DEF Spec

(* A user's prompt is dispatched at most once: the request whose append found  *)
(* it missing is the only one that delivers it.                                *)
THEOREM DispatchedOnceCorrect == Spec => []DispatchedOnce
<1>1. DeliveryInv => DispatchedOnce
  BY DEF DeliveryInv
<1> QED
  BY <1>1, DeliveryInvariant, PTL

(* promptAccepted is said only of what the durable history has.                *)
THEOREM AcceptedIsRecordedCorrect == Spec => []AcceptedIsRecorded
<1>1. DeliveryInv => AcceptedIsRecorded
  BY DEF DeliveryInv, RecordedFirst, AcceptedIsRecorded
<1> QED
  BY <1>1, DeliveryInvariant, PTL

-----------------------------------------------------------------------------
(* While nothing has failed, every request that is past BeginAcknowledge has   *)
(* its runtime, and every recorded prompt of a user was dispatched or is the   *)
(* prompt of an accepted request.                                              *)
Waiting == {"reading", "reading_receipt", "append", "accepted", "turn"}
RuntimeStands ==
  \A r \in Request : req[r].stage \in Waiting => runtime[req[r].at] # "none"
RecordedIsDelivered ==
  \A p \in recorded \intersect Users :
    \/ dispatched[p] > 0
    \/ \E r \in Request : req[r].prompt = p /\ req[r].stage = "accepted"
Quiet == RuntimeStands /\ RecordedIsDelivered
QuietInv == DeliveryInv /\ acknowledged \subseteq Users /\ (faults = 0 => Quiet)

LEMMA QuietMove ==
  ASSUME Quiet, NEW r \in Request, UNCHANGED runtime,
         \A q \in Request \ {r} : req'[q] = req[q],
         req'[r].stage \in Waiting => runtime[req'[r].at] # "none",
         \A p \in Users : dispatched[p] > 0 => dispatched'[p] > 0,
         \A p \in recorded' \intersect Users :
           p \in recorded \/ (req'[r].stage = "accepted" /\ req'[r].prompt = p),
         req[r].stage = "accepted" /\ req[r].prompt \in Users
           => dispatched'[req[r].prompt] > 0
  PROVE  Quiet'
<1>1. RuntimeStands'
  BY DEF Quiet, RuntimeStands
<1>2. ASSUME NEW p \in recorded' \intersect Users
      PROVE  \/ dispatched'[p] > 0
             \/ \E q \in Request : req'[q].prompt = p /\ req'[q].stage = "accepted"
  <2>1. CASE p \in recorded
    <3>1. CASE dispatched[p] > 0
      BY <3>1
    <3>2. CASE \E q \in Request : req[q].prompt = p /\ req[q].stage = "accepted"
      <4>1. PICK q \in Request : req[q].prompt = p /\ req[q].stage = "accepted"
        BY <3>2
      <4> QED BY <4>1
    <3> QED BY <2>1, <3>1, <3>2 DEF Quiet, RecordedIsDelivered
  <2>2. CASE req'[r].stage = "accepted" /\ req'[r].prompt = p
    BY <2>2
  <2> QED BY <2>1, <2>2
<1>3. RecordedIsDelivered'
  BY <1>2 DEF RecordedIsDelivered, Users
<1> QED
  BY <1>1, <1>3 DEF Quiet

(* A request that is answered before its delivery leaves everything as it is. *)
LEMMA QuietEnd ==
  ASSUME DeliveryInv, Quiet, NEW r \in Request, req[r] \in Requests,
         req[r].stage # "accepted", UNCHANGED <<recorded, runtime, dispatched>>,
         Accept(r) \/ (Refuse(r) /\ UNCHANGED faults)
  PROVE  Quiet'
<1>1. /\ req'[r].stage \in {"none", "receipt"}
      /\ \A q \in Request \ {r} : req'[q] = req[q]
  BY AcceptEffect, RefuseEffect DEF DeliveryInv
<1>2. /\ UNCHANGED runtime /\ req'[r].stage \notin Waiting
      /\ recorded' = recorded /\ dispatched' = dispatched
  BY <1>1 DEF Waiting
<1> QED
  BY <1>1, <1>2, QuietMove

LEMMA QuietGoes ==
  ASSUME DeliveryInv, Quiet, NEW r \in Request, req[r] \in Requests,
         NEW s \in Stage \ {"accepted", "receipt"}, Goes(r, s),
         s = "reading_receipt" => req[r].prompt \in Report,
         runtime[req[r].at] # "none", req[r].stage # "accepted",
         UNCHANGED <<recorded, runtime, dispatched>>
  PROVE  Quiet'
<1>1. /\ req'[r].at = req[r].at
      /\ \A q \in Request \ {r} : req'[q] = req[q]
  BY GoesEffect DEF DeliveryInv
<1>2. /\ UNCHANGED runtime
      /\ recorded' = recorded /\ dispatched' = dispatched
  OBVIOUS
<1> QED
  BY <1>1, <1>2, QuietMove

LEMMA QuietAcknowledgement ==
  ASSUME DeliveryInv, Quiet, NEW r \in Request, Acknowledgement(r), faults' = faults
  PROVE  Quiet'
<1>a. req[r].stage \in Stage /\ req[r].stage # "accepted" /\ req[r] \in Requests
  <2>1. req[r].stage \in Stage /\ req[r].stage # "accepted"
    BY DEF Acknowledgement, NotEnsured, BeginAcknowledge, ReadRecorded,
           ReadReceipt, Append, AppendUnavailable, Stage
  <2> QED BY <2>1, ActiveRequest DEF DeliveryInv
<1>b. ~Fault
  BY BoundAssumption DEF Fault, DeliveryInv, TypeOK, OutcomeTypeOK
<1>c. ASSUME Acknowledge(r), runtime[req[r].at] # "none",
             recorded' \subseteq recorded \union {req[r].prompt}
      PROVE  Quiet'
  <2>1. /\ req'[r].stage = "accepted" /\ req'[r].prompt = req[r].prompt
        /\ req'[r].at = req[r].at
        /\ \A q \in Request \ {r} : req'[q] = req[q]
    BY <1>a, <1>c, AcknowledgeEffect DEF DeliveryInv
  <2>2. UNCHANGED runtime /\ dispatched' = dispatched
    BY <1>c DEF Acknowledge
  <2> QED BY <1>a, <1>c, <2>1, <2>2, QuietMove
<1>1. CASE NotEnsured(r) \/ AppendUnavailable(r)
  BY <1>1, <1>b DEF NotEnsured, AppendUnavailable
<1>2. CASE BeginAcknowledge(r)
  <2>1. UNCHANGED <<recorded, runtime, dispatched>> /\ runtime[req[r].at] # "none"
    BY <1>2 DEF BeginAcknowledge, durable, instances, Ready
  <2> QED BY <1>2, <1>a, <2>1, QuietEnd, QuietGoes DEF BeginAcknowledge, Stage
<1>3. CASE ReadRecorded(r)
  <2>1. UNCHANGED <<recorded, runtime, dispatched>> /\ runtime[req[r].at] # "none"
    BY <1>3, <1>a DEF ReadRecorded, durable, instances, Quiet, RuntimeStands, Waiting
  <2> QED BY <1>3, <1>a, <2>1, QuietEnd, QuietGoes DEF ReadRecorded, Stage
<1>4. CASE ReadReceipt(r)
  <2>1. runtime[req[r].at] # "none"
    BY <1>4 DEF ReadReceipt, Quiet, RuntimeStands, Waiting
  <2> QED BY <1>4, <1>a, <1>c, <2>1, QuietEnd DEF ReadReceipt, durable, instances
<1>5. CASE Append(r)
  <2>1. runtime[req[r].at] # "none"
    BY <1>5 DEF Append, Quiet, RuntimeStands, Waiting
  <2> QED BY <1>5, <1>a, <1>c, <2>1, QuietEnd DEF Append, durable, instances
<1> QED
  BY <1>1, <1>2, <1>3, <1>4, <1>5 DEF Acknowledgement

LEMMA QuietDelivery ==
  ASSUME DeliveryInv, Quiet, NEW r \in Request, Delivery(r), faults' = faults
  PROVE  Quiet'
<1>a. req[r].stage \in Stage /\ req[r] \in Requests
  <2>1. req[r].stage \in Stage
    BY DEF Delivery, Dispatch, DispatchFails, EndTurn, WriteReceipt, Stage
  <2> QED BY <2>1, ActiveRequest DEF DeliveryInv
<1>b. req[r].prompt \in Prompt /\ req[r].at \in Instance
  BY <1>a DEF Requests
<1>1. CASE Dispatch(r)
  <2>1. /\ req'[r].at = req[r].at /\ req'[r].stage = "turn"
        /\ \A q \in Request \ {r} : req'[q] = req[q]
    BY <1>1, <1>a, GoesEffect DEF Dispatch, DeliveryInv, Stage
  <2>2. runtime[req[r].at] # "none"
    BY <1>1 DEF Dispatch, Quiet, RuntimeStands, Waiting
  <2>3. \A i \in Instance : runtime[i] # "none" => runtime'[i] # "none"
    <3>1. PICK state \in Informed(req[r].at) :
            runtime' = [runtime EXCEPT ![req[r].at] = state]
      BY <1>1 DEF Dispatch
    <3>2. state # "none"
      BY <3>1, <1>b, InformedState DEF DeliveryInv
    <3> QED BY <3>1, <3>2 DEF DeliveryInv, TypeOK, InstanceTypeOK
  <2>4. /\ dispatched'[req[r].prompt] > 0
        /\ \A p \in Prompt : dispatched[p] > 0 => dispatched'[p] > 0
    BY <1>1, <1>b DEF Dispatch, Sent, DeliveryInv, TypeOK, OutcomeTypeOK
  <2>5. RuntimeStands'
    <3> SUFFICES ASSUME NEW q \in Request, req'[q].stage \in Waiting
                 PROVE  runtime'[req'[q].at] # "none"
      BY DEF RuntimeStands
    <3>1. req'[q].at \in Instance /\ runtime[req'[q].at] # "none"
      <4>1. CASE q = r
        BY <4>1, <2>1, <2>2, <1>b
      <4>2. CASE q # r
        <5>1. req[q].stage \in Waiting /\ req'[q] = req[q]
          BY <4>2, <2>1
        <5>2. req[q] \in Requests
          BY <5>1, ActiveRequest DEF DeliveryInv, Waiting, Stage
        <5> QED BY <5>1, <5>2 DEF Requests, Quiet, RuntimeStands
      <4> QED BY <4>1, <4>2
    <3> QED BY <3>1, <2>3
  <2>6. RecordedIsDelivered'
    <3> SUFFICES ASSUME NEW p \in recorded \intersect Users
                 PROVE  \/ dispatched'[p] > 0
                        \/ \E q \in Request : req'[q].prompt = p /\ req'[q].stage = "accepted"
      BY <1>1 DEF RecordedIsDelivered, Dispatch, durable, Users
    <3>1. CASE dispatched[p] > 0 \/ p = req[r].prompt
      BY <3>1, <2>4 DEF Users
    <3>2. CASE p # req[r].prompt /\ \E q \in Request : req[q].prompt = p /\ req[q].stage = "accepted"
      <4>1. PICK q \in Request : req[q].prompt = p /\ req[q].stage = "accepted"
        BY <3>2
      <4> QED BY <3>2, <4>1, <2>1
    <3> QED BY <3>1, <3>2 DEF Quiet, RecordedIsDelivered
  <2> QED BY <2>5, <2>6 DEF Quiet
<1>2. CASE DispatchFails(r)
  BY <1>2 DEF DispatchFails, Quiet, RuntimeStands, Waiting
<1>3. CASE EndTurn(r)
  <2>1. ~Fault
    BY BoundAssumption DEF Fault, DeliveryInv, TypeOK, OutcomeTypeOK
  <2> QED BY <1>3, <1>a, <2>1, QuietEnd DEF EndTurn, durable, instances
<1>4. CASE WriteReceipt(r)
  <2>1. UNCHANGED <<recorded, runtime, dispatched>> /\ Refuse(r) /\ req[r].stage # "accepted"
    BY <1>4 DEF WriteReceipt
  <2> QED BY <1>a, <2>1, QuietEnd
<1> QED
  BY <1>1, <1>2, <1>3, <1>4 DEF Delivery

LEMMA QuietEnvironment ==
  ASSUME TypeOK, Quiet, UNCHANGED <<recorded, dispatched>>,
         \A r \in Request : req'[r] = req[r] \/ (req'[r].stage = "arrived" /\ req[r] = Idle),
         \A i \in Instance : runtime[i] # "none" => runtime'[i] # "none"
  PROVE  Quiet'
<1>1. RuntimeStands'
  <2> SUFFICES ASSUME NEW r \in Request, req'[r].stage \in Waiting
               PROVE  runtime'[req'[r].at] # "none"
    BY DEF RuntimeStands
  <2>1. req'[r] = req[r] /\ req[r].stage \in Waiting
    BY DEF Waiting
  <2>2. req[r] \in Requests
    BY <2>1, ActiveRequest DEF Waiting, Stage
  <2> QED BY <2>1, <2>2 DEF Requests, Quiet, RuntimeStands
<1>2. ASSUME NEW p \in recorded \intersect Users, ~(dispatched[p] > 0)
      PROVE  \E r \in Request : req'[r].prompt = p /\ req'[r].stage = "accepted"
  <2>1. PICK r \in Request : req[r].prompt = p /\ req[r].stage = "accepted"
    BY <1>2 DEF Quiet, RecordedIsDelivered
  <2> QED BY <2>1 DEF Idle
<1>3. RecordedIsDelivered'
  BY <1>2 DEF RecordedIsDelivered, Users
<1> QED
  BY <1>1, <1>3 DEF Quiet

LEMMA QuietStep ==
  ASSUME QuietInv, [Next]_vars, faults' = 0
  PROVE  Quiet'
<1>a. TypeOK /\ DeliveryInv
  BY DEF QuietInv, DeliveryInv
<1>b. ~Fault /\ faults = 0
  <2>1. ~Fault
    BY <1>a, BoundAssumption DEF Fault, TypeOK, OutcomeTypeOK
  <2>2. Fault \/ UNCHANGED faults
    BY DEF Next, vars, Arrive, Acknowledgement, NotEnsured, BeginAcknowledge,
           ReadRecorded, ReadReceipt, Append, AppendUnavailable, Accept, Delivery,
           Dispatch, DispatchFails, EndTurn, WriteReceipt, MarkerExpires, SaveRow,
           StartRuntime, QueueContext, RuntimeExits, Crash, Restart
  <2> QED BY <2>1, <2>2
<1>c. Quiet /\ UNCHANGED faults
  BY <1>b DEF QuietInv
<1>1. ASSUME NEW r \in Request, NEW p \in Prompt, NEW i \in Instance, Arrive(r, p, i)
      PROVE  Quiet'
  <2>1. UNCHANGED <<recorded, dispatched, runtime>>
    BY <1>1 DEF Arrive, durable, instances
  <2>2. \A q \in Request : req'[q] = req[q] \/ (req'[q].stage = "arrived" /\ req[q] = Idle)
    BY <1>1, <1>a DEF Arrive, TypeOK, RequestTypeOK
  <2> QED BY <1>a, <1>c, <2>1, <2>2, QuietEnvironment
<1>2. ASSUME NEW r \in Request, Acknowledgement(r) \/ Delivery(r)
      PROVE  Quiet'
  BY <1>2, <1>a, <1>c, QuietAcknowledgement, QuietDelivery
<1>3. ASSUME UNCHANGED <<recorded, dispatched, runtime, req>>
      PROVE  Quiet'
  BY <1>3, <1>a, <1>c, QuietEnvironment
<1>4. ASSUME NEW i \in Instance, NEW p \in Prompt, MarkerExpires(i, p)
      PROVE  Quiet'
  BY <1>4, <1>3 DEF MarkerExpires, durable
<1>5. ASSUME SaveRow \/ UNCHANGED vars
      PROVE  Quiet'
  BY <1>5, <1>3 DEF SaveRow, vars, durable, instances
<1>6. ASSUME NEW i \in Instance, StartRuntime(i)
      PROVE  Quiet'
  <2>1. UNCHANGED <<recorded, dispatched, req>>
    BY <1>6 DEF StartRuntime, durable
  <2>2. \A j \in Instance : runtime[j] # "none" => runtime'[j] # "none"
    BY <1>6, <1>a DEF StartRuntime, TypeOK, InstanceTypeOK
  <2> QED BY <1>a, <1>c, <2>1, <2>2, QuietEnvironment
<1>7. ASSUME NEW i \in Instance, QueueContext(i) \/ Restart(i)
      PROVE  Quiet'
  BY <1>7, <1>b, <1>3 DEF QueueContext, Restart, durable
<1>8. ASSUME NEW i \in Instance, RuntimeExits(i) \/ Crash(i)
      PROVE  Quiet'
  BY <1>8, <1>b DEF RuntimeExits, Crash
<1> QED
  BY <1>1, <1>2, <1>4, <1>5, <1>6, <1>7, <1>8 DEF Next

(* Only users' clients are told. *)
LEMMA ToldUsers ==
  ASSUME acknowledged \subseteq Users, [Next]_vars
  PROVE  acknowledged' \subseteq Users
<1>1. ASSUME NEW r \in Request, Accept(r) \/ Refuse(r)
      PROVE  acknowledged' \subseteq Users
  BY <1>1 DEF Accept, Refuse
<1>2. ASSUME NEW r \in Request, Acknowledgement(r)
      PROVE  acknowledged' \subseteq Users
  BY <1>1, <1>2 DEF Acknowledgement, NotEnsured, BeginAcknowledge, ReadRecorded,
                    ReadReceipt, Append, AppendUnavailable, Acknowledge
<1>3. ASSUME NEW r \in Request, Delivery(r)
      PROVE  acknowledged' \subseteq Users
  BY <1>1, <1>3 DEF Delivery, Dispatch, DispatchFails, EndTurn, WriteReceipt
<1> QED
  BY <1>2, <1>3 DEF Next, vars, Arrive, MarkerExpires, SaveRow, StartRuntime,
                    QueueContext, RuntimeExits, Crash, Restart

LEMMA QuietInit ==
  ASSUME Init
  PROVE  QuietInv
<1>1. DeliveryInv
  BY DeliveryInit
<1>2. acknowledged \subseteq Users /\ Quiet
  BY DEF Init, Idle, Quiet, RuntimeStands, RecordedIsDelivered, Waiting
<1> QED
  BY <1>1, <1>2 DEF QuietInv

LEMMA QuietInvStep ==
  ASSUME QuietInv, [Next]_vars
  PROVE  QuietInv'
<1>1. DeliveryInv'
  BY DeliveryStep DEF QuietInv
<1>2. acknowledged' \subseteq Users
  BY ToldUsers DEF QuietInv
<1>3. (faults = 0 => Quiet)'
  BY QuietStep
<1> QED
  BY <1>1, <1>2, <1>3 DEF QuietInv

(* As long as nothing fails, whoever is told that a prompt was accepted can    *)
(* rely on its delivery, by whichever of its requests.                         *)
THEOREM AcceptedIsDeliveredCorrect == Spec => []AcceptedIsDelivered
<1>1. QuietInv => AcceptedIsDelivered
  BY DEF QuietInv, DeliveryInv, RecordedFirst, Quiet, RecordedIsDelivered,
         AcceptedIsDelivered
<1> QED
  BY <1>1, QuietInit, QuietInvStep, PTL DEF Spec

-----------------------------------------------------------------------------
(* A runtime is blank only after a fault, which is where a handler that finds  *)
(* none comes from: RuntimeStands.                                             *)
ContextInv == QuietInv /\ ContextNotLost

LEMMA FaultsStay ==
  ASSUME TypeOK, [Next]_vars, faults > 0
  PROVE  faults' > 0
<1>1. Fault \/ UNCHANGED faults
  BY DEF Next, vars, Arrive, Acknowledgement, NotEnsured, BeginAcknowledge,
         ReadRecorded, ReadReceipt, Append, AppendUnavailable, Accept, Delivery,
         Dispatch, DispatchFails, EndTurn, WriteReceipt, MarkerExpires, SaveRow,
         StartRuntime, QueueContext, RuntimeExits, Crash, Restart
<1> QED
  BY <1>1 DEF Fault, TypeOK, OutcomeTypeOK

LEMMA ContextStep ==
  ASSUME ContextInv, [Next]_vars
  PROVE  ContextInv'
<1>a. /\ TypeOK
      /\ runtime \in [Instance -> RuntimeState]
      /\ rebuilding \in [Instance -> BOOLEAN]
      /\ context \in [Instance -> BOOLEAN]
      /\ \A i \in Instance : runtime[i] = "bare" => context[i] \/ rebuilding[i]
      /\ faults \in Nat
  BY BoundAssumption DEF ContextInv, QuietInv, DeliveryInv, TypeOK, InstanceTypeOK, OutcomeTypeOK,
     ContextNotLost
<1>b. QuietInv'
  BY QuietInvStep DEF ContextInv
<1>c. \A i \in Instance : runtime[i] = "blank" => faults' > 0
  BY <1>a, FaultsStay DEF ContextInv, ContextNotLost
<1>d. Fault => faults' > 0
  BY <1>a DEF Fault
<1>1. ASSUME UNCHANGED <<runtime, rebuilding, context>>
      PROVE  ContextNotLost'
  BY <1>1, <1>a, <1>c DEF ContextNotLost
<1>2. ASSUME NEW r \in Request, Acknowledgement(r)
      PROVE  ContextNotLost'
  <2>1. UNCHANGED <<runtime, rebuilding, context>>
    BY <1>2 DEF Acknowledgement, NotEnsured, BeginAcknowledge, ReadRecorded,
                ReadReceipt, Append, AppendUnavailable, Acknowledge, instances
  <2> QED BY <2>1, <1>1
<1>3. ASSUME NEW r \in Request, Delivery(r)
      PROVE  ContextNotLost'
  <2>1. CASE Dispatch(r)
    <3> DEFINE i == req[r].at
    <3>1. req[r] \in Requests
      BY <2>1, <1>a, ActiveRequest DEF Dispatch, Stage
    <3>2. i \in Instance
      BY <3>1 DEF Requests
    <3>3. PICK state \in Informed(i) : runtime' = [runtime EXCEPT ![i] = state]
      BY <2>1 DEF Dispatch
    <3>4. /\ state = "bare" => runtime[i] = "bare" /\ ~context[i]
          /\ state = "blank" => runtime[i] \in {"none", "blank"}
      BY <3>2, <3>3, <1>a, InformedState
    <3>5. runtime[i] = "none" => faults > 0
      BY <2>1, <1>a DEF ContextInv, QuietInv, Quiet, RuntimeStands, Waiting, Dispatch
    <3>6. state = "blank" => faults' > 0
      BY <2>1, <3>2, <3>4, <3>5, <1>c DEF Dispatch
    <3>7. /\ rebuilding' = rebuilding
          /\ \A j \in Instance : j # i => context'[j] = context[j] /\ runtime'[j] = runtime[j]
          /\ runtime'[i] = state
      BY <2>1, <3>2, <3>3, <1>a DEF Dispatch
    <3>8. state = "bare" => rebuilding[i]
      BY <3>2, <3>4, <1>a
    <3> HIDE DEF i
    <3> QED BY <3>6, <3>7, <3>8, <1>a, <1>c DEF ContextNotLost
  <2>2. CASE DispatchFails(r)
    BY <2>2, <1>a, <1>c DEF DispatchFails, ContextNotLost
  <2>3. CASE EndTurn(r) \/ WriteReceipt(r)
    BY <2>3, <1>1 DEF EndTurn, WriteReceipt, instances
  <2> QED BY <1>3, <2>1, <2>2, <2>3 DEF Delivery
<1>4. ASSUME NEW i \in Instance, StartRuntime(i) \/ QueueContext(i)
      PROVE  ContextNotLost'
  <2>1. CASE StartRuntime(i)
    BY <2>1, <1>a, <1>c, <1>d DEF StartRuntime, ContextNotLost
  <2>2. CASE QueueContext(i)
    BY <2>2, <1>a, <1>c, <1>d DEF QueueContext, ContextNotLost
  <2> QED BY <1>4, <2>1, <2>2
<1>5. ASSUME NEW i \in Instance, RuntimeExits(i) \/ Crash(i)
      PROVE  ContextNotLost'
  <2>1. CASE RuntimeExits(i)
    BY <2>1, <1>a, <1>c DEF RuntimeExits, ContextNotLost
  <2>2. CASE Crash(i)
    BY <2>2, <1>a, <1>c DEF Crash, ContextNotLost
  <2> QED BY <1>5, <2>1, <2>2
<1>6. ASSUME NEW i \in Instance, Restart(i)
      PROVE  ContextNotLost'
  BY <1>6, <1>1 DEF Restart
<1>7. ASSUME NEW r \in Request, NEW p \in Prompt, NEW i \in Instance, Arrive(r, p, i)
      PROVE  ContextNotLost'
  BY <1>7, <1>1 DEF Arrive, instances
<1>8. ASSUME NEW i \in Instance, NEW p \in Prompt, MarkerExpires(i, p)
      PROVE  ContextNotLost'
  BY <1>8, <1>1 DEF MarkerExpires
<1>9. ASSUME SaveRow \/ UNCHANGED vars
      PROVE  ContextNotLost'
  BY <1>9, <1>1 DEF SaveRow, vars, instances
<1>10. ContextNotLost'
  BY <1>2, <1>3, <1>4, <1>5, <1>6, <1>7, <1>8, <1>9 DEF Next
<1> QED
  BY <1>b, <1>10 DEF ContextInv

(* A runtime that a recovery started without the history of its session is     *)
(* told of it by the first prompt it gets, and none lacks it for another       *)
(* reason unless something failed.                                             *)
THEOREM ContextNotLostCorrect == Spec => []ContextNotLost
<1>1. Init => ContextInv
  <2> SUFFICES ASSUME Init PROVE ContextInv
    OBVIOUS
  <2>1. ContextNotLost
    BY DEF Init, ContextNotLost
  <2> QED BY <2>1, QuietInit DEF ContextInv
<1>2. ContextInv => ContextNotLost
  BY DEF ContextInv
<1> QED
  BY <1>1, <1>2, ContextStep, PTL DEF Spec
=============================================================================
