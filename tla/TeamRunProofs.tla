--------------------------- MODULE TeamRunProofs ---------------------------
(* Type correctness and three properties of TeamRun, for any tasks, any number *)
(* of delegations and reports, and any bound on failures and crashes.          *)
EXTENDS TeamRun, FiniteSetTheorems, TLAPS

LEMMA TaskOfType == \A c \in Children : TaskOf(c) \in Tasks
BY DEF Children, TaskOf

(* What an action leaves alone keeps its type. *)
LEMMA UnchangedType ==
  ASSUME TypeOK
  PROVE  /\ UNCHANGED <<task, delegating>> => TaskTypeOK'
         /\ UNCHANGED child => ChildTypeOK'
         /\ UNCHANGED <<group, activeGroup>> => GroupTypeOK'
         /\ UNCHANGED <<wake, inflight>> => WakeTypeOK'
         /\ UNCHANGED <<lead, failures, crashes>> => LeadTypeOK'
         /\ UNCHANGED <<child, delegating, wake>> => ChildrenAgree'
BY DEF TypeOK, TaskTypeOK, ChildTypeOK, GroupTypeOK, WakeTypeOK, LeadTypeOK,
       ChildrenAgree

LEMMA NewChildType == NewChild \in ChildStates
BY ConstantsAssumption DEF NewChild, ChildStates

LEMMA FailType ==
  ASSUME LeadTypeOK, UNCHANGED <<lead, crashes>>,
         UNCHANGED failures \/ Fail
  PROVE  LeadTypeOK'
BY DEF LeadTypeOK, Fail

-----------------------------------------------------------------------------
(* Finalize: the types, and all it does to the children. *)
LEMMA FinalizeType ==
  ASSUME TypeOK, NEW c \in Children, NEW ch \in [Children -> ChildStates],
         Finalize(c, ch), UNCHANGED <<activeGroup, inflight>>
  PROVE  ChildTypeOK' /\ GroupTypeOK' /\ WakeTypeOK'
<1>1. ChildTypeOK'
  <2>1. [ch[c] EXCEPT !.handled = TRUE] \in ChildStates
    BY DEF ChildStates
  <2>2. [ch EXCEPT ![c].handled = TRUE] \in [Children -> ChildStates]
    BY <2>1
  <2> QED BY <2>2 DEF Finalize, ChildTypeOK
<1>2. GroupTypeOK'
  BY DEF Finalize, GroupsOf, TypeOK, GroupTypeOK
<1>3. WakeTypeOK'
  <2>1. \A g \in Children : group[g].members \in SUBSET Children
    BY DEF TypeOK, GroupTypeOK
  <2>2. /\ UNCHANGED wake
           \/ \E g \in Children \cup {None}, covers \in SUBSET Children :
                wake' = [wake EXCEPT ![c] =
                           [stage |-> "due", group |-> g, covers |-> covers]]
    BY <2>1 DEF Finalize, GroupsOf
  <2> QED BY <2>2 DEF TypeOK, WakeTypeOK
<1> QED
  BY <1>1, <1>2, <1>3

LEMMA FinalizeFrame ==
  ASSUME TypeOK, NEW c \in Children, NEW ch \in [Children -> ChildStates],
         Finalize(c, ch)
  PROVE  /\ \A d \in Children : d # c => child'[d] = ch[d] /\ wake'[d] = wake[d]
         /\ child'[c] = ch[c] \/
              (child'[c] = [ch[c] EXCEPT !.handled = TRUE] /\ wake'[c] = NoWake)
         /\ child'[c] # ch[c] \/ wake'[c] # wake[c] => ch[c].known
         /\ wake'[c] # wake[c] => ~child'[c].handled /\ wake[c] = NoWake
<1>1. \A d \in Children : d # c => child'[d] = ch[d] /\ wake'[d] = wake[d]
  BY DEF Finalize, TypeOK, WakeTypeOK
<1>2. child'[c] = ch[c] \/
        (child'[c] = [ch[c] EXCEPT !.handled = TRUE] /\ wake'[c] = NoWake)
  BY DEF Finalize, TypeOK, WakeTypeOK
<1>3. child'[c] # ch[c] \/ wake'[c] # wake[c] => ch[c].known
  BY DEF Finalize, TypeOK, WakeTypeOK
<1>4. wake'[c] # wake[c] => ~child'[c].handled /\ wake[c] = NoWake
  BY DEF Finalize, TypeOK, WakeTypeOK
<1> QED
  BY <1>1, <1>2, <1>3, <1>4

(* The children agree after Finalize, if c was created and keeps its record. *)
LEMMA FinalizeAgrees ==
  ASSUME TypeOK, NEW c \in Children, NEW ch \in [Children -> ChildStates],
         Finalize(c, ch), UNCHANGED delegating,
         c \notin delegating, ch[c].agent # "none",
         \A d \in Children : d # c => ch[d] = child[d],
         ch[c].known = child[c].known, ch[c].handled = child[c].handled,
         ch[c].timers = {} \/ child[c].known,
         ch[c].turn = "first" => child[c].turn = "first"
  PROVE  ChildrenAgree'
<1>1. \A d \in Children : d # c => child'[d] = child[d] /\ wake'[d] = wake[d]
  <2>1. \A d \in Children : d # c => child'[d] = ch[d] /\ wake'[d] = wake[d]
    BY FinalizeFrame
  <2> QED BY <2>1
<1>2. /\ child'[c].agent # "none" /\ child'[c].known = child[c].known
      /\ child'[c].turn = "first" => child[c].turn = "first"
  <2>1. child'[c] = ch[c] \/ child'[c] = [ch[c] EXCEPT !.handled = TRUE]
    BY FinalizeFrame
  <2>2. ch[c] \in ChildStates
    OBVIOUS
  <2> QED BY <2>1, <2>2 DEF ChildStates
<1>3. (\/ child'[c].handled \/ child'[c].timers # {}
       \/ child'[c].turn = "first" \/ wake'[c] # NoWake)
        => child'[c].known
  <2>1. CASE child'[c] = ch[c] /\ wake'[c] = wake[c]
    BY <1>2, <2>1 DEF TypeOK, ChildrenAgree
  <2>2. CASE child'[c] # ch[c] \/ wake'[c] # wake[c]
    BY <1>2, <2>2, FinalizeFrame
  <2> QED BY <2>1, <2>2
<1> QED
  BY <1>1, <1>2, <1>3 DEF TypeOK, TaskTypeOK, ChildrenAgree

-----------------------------------------------------------------------------
(* The actions of a delegation. *)
LEMMA DelegateType ==
  ASSUME TypeOK, NEW c \in Children, Delegate(c)
  PROVE  TypeOK'
<1>1. TaskTypeOK' /\ ChildTypeOK'
  BY DEF Delegate, TypeOK, TaskTypeOK, ChildTypeOK, ChildStates
<1>2. child[c] = NewChild
  BY DEF Delegate, TypeOK, ChildrenAgree
<1>3. ChildrenAgree'
  <2>1. child' = [child EXCEPT ![c] = [NewChild EXCEPT !.agent = "PENDING"]]
    BY <1>2 DEF Delegate, NewChild
  <2>2. child'[c] = [NewChild EXCEPT !.agent = "PENDING"]
    BY <2>1 DEF TypeOK, ChildTypeOK
  <2>3. UNCHANGED wake /\ delegating' = delegating \union {c}
    BY DEF Delegate
  <2>4. wake[c] = NoWake
    BY <1>2 DEF TypeOK, ChildrenAgree, NewChild
  <2>5. \A d \in Children : d # c => child'[d] = child[d]
    BY <2>1 DEF TypeOK, ChildTypeOK
  <2>6. /\ child'[c].agent = "PENDING" /\ ~child'[c].handled
        /\ child'[c].timers = {} /\ child'[c].turn = "none"
    BY <2>2 DEF NewChild
  <2> QED
    BY <2>2, <2>3, <2>4, <2>5, <2>6 DEF TypeOK, TaskTypeOK, ChildrenAgree
<1> QED
  BY <1>1, <1>3, UnchangedType DEF Delegate, TypeOK

LEMMA SpawnType ==
  ASSUME TypeOK, NEW c \in Children, SpawnFails(c) \/ PromptFails(c)
  PROVE  TypeOK'
<1>1. TaskTypeOK'
  <2>1. \A r \in {"BLOCKED"}, a \in Children :
          [task EXCEPT ![TaskOf(c)] = [status |-> r, assignedTo |-> a]] \in
            [Tasks -> [status : {"PENDING", "IN_PROGRESS", "COMPLETED", "NEEDS_FIX", "BLOCKED"},
                       assignedTo : Children \cup {None}]]
    BY DEF TypeOK, TaskTypeOK
  <2> QED BY <2>1 DEF SpawnFails, PromptFails, TypeOK, TaskTypeOK
<1>2. ChildTypeOK'
  BY DEF SpawnFails, PromptFails, TypeOK, ChildTypeOK, ChildStates
<1>3. ChildrenAgree'
  <2>1. child[c] = [NewChild EXCEPT !.agent = "PENDING"]
    BY DEF SpawnFails, PromptFails, TypeOK, ChildrenAgree
  <2>2. child' = [child EXCEPT ![c] = [NewChild EXCEPT !.agent = "ERROR"]]
    BY <2>1 DEF SpawnFails, PromptFails, NewChild
  <2>3. UNCHANGED wake /\ delegating' = delegating \ {c}
    BY DEF SpawnFails, PromptFails
  <2>4. wake[c] = NoWake
    BY <2>1 DEF TypeOK, ChildrenAgree, NewChild
  <2>5. \A d \in delegating' : d # c /\ d \in Children
    BY <2>3 DEF TypeOK, TaskTypeOK
  <2>6. \A d \in Children : d # c => child'[d] = child[d]
    BY <2>2 DEF TypeOK, ChildTypeOK
  <2>7. child'[c].agent = "ERROR" /\ ~child'[c].handled /\ child'[c].timers = {} /\ child'[c].turn = "none"
    BY <2>2 DEF TypeOK, ChildTypeOK, NewChild
  <2> QED
    BY <2>3, <2>4, <2>5, <2>6, <2>7 DEF TypeOK, ChildrenAgree
<1>4. LeadTypeOK'
  BY FailType DEF SpawnFails, PromptFails, TypeOK
<1> QED
  BY <1>1, <1>2, <1>3, <1>4, UnchangedType DEF SpawnFails, PromptFails, TypeOK

LEMMA StartType ==
  ASSUME TypeOK, NEW c \in Children, NEW m \in {"immediate", "after_all"}, Start(c, m)
  PROVE  TypeOK'
<1>1. TaskTypeOK'
  <2>1. [task EXCEPT ![TaskOf(c)] = [status |-> "IN_PROGRESS", assignedTo |-> c]] \in
            [Tasks -> [status : {"PENDING", "IN_PROGRESS", "COMPLETED", "NEEDS_FIX", "BLOCKED"},
                       assignedTo : Children \cup {None}]]
    BY DEF TypeOK, TaskTypeOK
  <2> QED BY <2>1 DEF Start, TypeOK, TaskTypeOK
<1>2. JoinsLate \in BOOLEAN
  BY DEF JoinsLate
<1>3. ChildTypeOK'
  <2>1. ASSUME NEW l \in BOOLEAN
        PROVE  [child EXCEPT ![c].agent = "ACTIVE", ![c].turn = "first",
                             ![c].known = TRUE, ![c].late = l] \in [Children -> ChildStates]
    <3>1. child[c] \in ChildStates
      BY DEF TypeOK, ChildTypeOK
    <3>2. [child[c] EXCEPT !.agent = "ACTIVE", !.turn = "first", !.known = TRUE,
                           !.late = l] \in ChildStates
      BY <3>1 DEF ChildStates
    <3> QED BY <3>1, <3>2 DEF TypeOK, ChildTypeOK
  <2>2. (m = "after_all" /\ JoinsLate) \in BOOLEAN
    OBVIOUS
  <2> QED BY <2>1, <2>2 DEF Start, ChildTypeOK
<1>4. ChildrenAgree'
  <2>1. child[c] = [NewChild EXCEPT !.agent = "PENDING"]
    BY DEF Start, TypeOK, ChildrenAgree
  <2>2. child'[c].agent = "ACTIVE" /\ child'[c].known
    BY <2>1 DEF Start, TypeOK, ChildTypeOK, NewChild
  <2>3. UNCHANGED wake /\ delegating' = delegating \ {c}
    BY DEF Start
  <2>4. \A d \in delegating' : d # c /\ d \in Children
    BY <2>3 DEF TypeOK, TaskTypeOK
  <2>5. \A d \in Children : d # c => child'[d] = child[d]
    BY DEF Start, TypeOK, ChildTypeOK
  <2> QED
    BY <2>2, <2>3, <2>4, <2>5 DEF TypeOK, ChildrenAgree
<1>5. GroupTypeOK'
  <2>1. CASE m = "immediate"
    BY <2>1, UnchangedType DEF Start
  <2>2. CASE m = "after_all"
    <3>1. JoinGroup(c)
      BY <2>2 DEF Start
    <3> QED BY <3>1 DEF JoinGroup, TypeOK, GroupTypeOK
  <2> QED BY <2>1, <2>2
<1> QED
  BY <1>1, <1>3, <1>4, <1>5, UnchangedType DEF Start, TypeOK

-----------------------------------------------------------------------------
(* A child that runs, was handled or waits for a timer was created. *)
LEMMA RunningCreated ==
  ASSUME TypeOK, NEW c \in Children,
         child[c].turn # "none" \/ child[c].known
  PROVE  c \notin delegating /\ child[c].agent # "none"
BY DEF TypeOK, ChildrenAgree, NewChild

LEMMA StatusType ==
  ASSUME TypeOK, NEW c \in Children, NEW s \in {"COMPLETED", "NEEDS_FIX"},
         task' = [task EXCEPT ![TaskOf(c)].status = s], UNCHANGED delegating
  PROVE  TaskTypeOK'
<1>1. TaskOf(c) \in Tasks /\ task[TaskOf(c)].assignedTo \in Children \cup {None}
  BY TaskOfType DEF TypeOK, TaskTypeOK
<1>2. task[TaskOf(c)] \in
        [status : {"PENDING", "IN_PROGRESS", "COMPLETED", "NEEDS_FIX", "BLOCKED"},
         assignedTo : Children \cup {None}]
  BY <1>1 DEF TypeOK, TaskTypeOK
<1>3. [task[TaskOf(c)] EXCEPT !.status = s] \in
        [status : {"PENDING", "IN_PROGRESS", "COMPLETED", "NEEDS_FIX", "BLOCKED"},
         assignedTo : Children \cup {None}]
  BY <1>2
<1> QED
  BY <1>1, <1>3 DEF TypeOK, TaskTypeOK

(* What a handler may make of the children before it finalizes: it changes the *)
(* agent, the turn, the reports and the timers of a child that was created.    *)
Touched(c, ch) ==
  /\ ch \in [Children -> ChildStates]
  /\ \A d \in Children : d # c => ch[d] = child[d]
  /\ ch[c].agent # "none"
  /\ ch[c].known = child[c].known /\ ch[c].handled = child[c].handled
  /\ ch[c].late = child[c].late
  /\ ch[c].turn # "none" <=> child[c].turn # "none"
  /\ ch[c].turn = "first" => child[c].turn = "first"
  /\ ch[c].timers \subseteq child[c].timers

LEMMA CompletionType ==
  ASSUME TypeOK, NEW c \in Children, c \notin delegating, NEW ch, Touched(c, ch),
         Finalize(c, ch), TaskTypeOK', UNCHANGED <<delegating, activeGroup, inflight>>,
         UNCHANGED <<lead, crashes>>, UNCHANGED failures \/ Fail
  PROVE  TypeOK'
<1>0. ch \in [Children -> ChildStates] /\ child[c] \in ChildStates
  BY DEF Touched, TypeOK, ChildTypeOK
<1>1. ChildTypeOK' /\ GroupTypeOK' /\ WakeTypeOK'
  BY <1>0, FinalizeType
<1>2. LeadTypeOK'
  BY FailType DEF TypeOK
<1>3. ch[c].timers = {} \/ child[c].known
  BY <1>0 DEF Touched, TypeOK, ChildrenAgree, ChildStates
<1>4. ChildrenAgree'
  BY <1>0, <1>3, FinalizeAgrees DEF Touched
<1> QED
  BY <1>1, <1>2, <1>4 DEF TypeOK

(* The handlers of a completion, each with what it makes of the child. *)
ReportTouch(c) ==
  [child EXCEPT ![c].reports = @ + 1, ![c].agent = "COMPLETED"]
FailureTouch(c) == [child EXCEPT ![c].turn = "over", ![c].agent = "ERROR"]
TimerTouch(c, timer) == [child EXCEPT ![c].timers = @ \ {timer}]
AutoTouch(c, timer) ==
  [child EXCEPT ![c].timers = @ \ {timer}, ![c].agent = "COMPLETED"]

LEMMA ReportTouched ==
  ASSUME TypeOK, NEW c \in Children, NEW s \in Reports, Report(c, s)
  PROVE  /\ Touched(c, ReportTouch(c)) /\ Finalize(c, ReportTouch(c))
         /\ c \notin delegating
<1>1. child[c].turn # "none"
  BY DEF Report, Running
<1>2. Finalize(c, ReportTouch(c))
  <2>1. [[child EXCEPT ![c].reports = @ + 1] EXCEPT ![c].agent = "COMPLETED"]
          = ReportTouch(c)
    BY DEF ReportTouch, TypeOK, ChildTypeOK, ChildStates
  <2> QED BY <2>1 DEF Report, ReportToParent
<1>3. child[c].reports + 1 \in 0..MaxReports
  BY ConstantsAssumption DEF Report, TypeOK, ChildTypeOK, ChildStates
<1>4. Touched(c, ReportTouch(c))
  <2>1. child[c] \in ChildStates
    BY DEF TypeOK, ChildTypeOK
  <2>2. ReportTouch(c)[c] = [child[c] EXCEPT !.reports = @ + 1, !.agent = "COMPLETED"]
    BY DEF ReportTouch, TypeOK, ChildTypeOK
  <2>3. ReportTouch(c)[c] \in ChildStates
    BY <2>1, <2>2, <1>3 DEF ChildStates
  <2>4. ReportTouch(c) \in [Children -> ChildStates]
    BY <2>3 DEF ReportTouch, TypeOK, ChildTypeOK
  <2>5. \A d \in Children : d # c => ReportTouch(c)[d] = child[d]
    BY DEF ReportTouch, TypeOK, ChildTypeOK
  <2> QED BY <2>1, <2>2, <2>4, <2>5 DEF Touched, ChildStates
<1> QED
  BY <1>1, <1>2, <1>4, RunningCreated

LEMMA FailureTouched ==
  ASSUME TypeOK, NEW c \in Children, TurnFails(c)
  PROVE  /\ Touched(c, FailureTouch(c)) /\ Finalize(c, FailureTouch(c))
         /\ c \notin delegating
<1>1. child[c].turn # "none"
  BY DEF TurnFails
<1>2. Touched(c, FailureTouch(c))
  <2>1. child[c] \in ChildStates
    BY DEF TypeOK, ChildTypeOK
  <2>2. FailureTouch(c)[c] = [child[c] EXCEPT !.turn = "over", !.agent = "ERROR"]
    BY DEF FailureTouch, TypeOK, ChildTypeOK
  <2>3. FailureTouch(c) \in [Children -> ChildStates]
    BY <2>1 DEF FailureTouch, TypeOK, ChildTypeOK, ChildStates
  <2>4. \A d \in Children : d # c => FailureTouch(c)[d] = child[d]
    BY DEF FailureTouch, TypeOK, ChildTypeOK
  <2> QED BY <1>1, <2>1, <2>2, <2>3, <2>4 DEF Touched, ChildStates
<1> QED
  BY <1>1, <1>2, RunningCreated DEF TurnFails, FailureTouch

LEMMA TimerTouched ==
  ASSUME TypeOK, NEW c \in Children, SessionEndFires(c)
  PROVE  /\ Touched(c, TimerTouch(c, "sessionEnd"))
         /\ Finalize(c, TimerTouch(c, "sessionEnd"))
         /\ c \notin delegating
<1>1. child[c].known
  BY DEF SessionEndFires, TypeOK, ChildrenAgree
<1>2. child[c].agent # "none" /\ c \notin delegating
  BY <1>1, RunningCreated
<1>3. Touched(c, TimerTouch(c, "sessionEnd"))
  BY <1>2 DEF Touched, TimerTouch, TypeOK, ChildTypeOK, ChildStates
<1> QED
  BY <1>2, <1>3 DEF SessionEndFires, TimerTouch

LEMMA AutoTouched ==
  ASSUME TypeOK, NEW c \in Children, NEW m, AutoReport(c, m)
  PROVE  /\ Touched(c, AutoTouch(c, m)) /\ Finalize(c, AutoTouch(c, m))
         /\ c \notin delegating
<1>1. child[c].known
  BY DEF AutoReport, NeedsAutoReport
<1>2. Finalize(c, AutoTouch(c, m))
  <2>1. [[child EXCEPT ![c].timers = @ \ {m}] EXCEPT ![c].agent = "COMPLETED"]
          = AutoTouch(c, m)
    BY DEF AutoTouch, TypeOK, ChildTypeOK, ChildStates
  <2> QED BY <2>1 DEF AutoReport, ReportToParent
<1>3. Touched(c, AutoTouch(c, m))
  <2>1. child[c] \in ChildStates
    BY DEF TypeOK, ChildTypeOK
  <2>2. AutoTouch(c, m)[c] = [child[c] EXCEPT !.timers = @ \ {m}, !.agent = "COMPLETED"]
    BY DEF AutoTouch, TypeOK, ChildTypeOK
  <2>3. AutoTouch(c, m)[c] \in ChildStates
    BY <2>1, <2>2 DEF ChildStates
  <2>4. AutoTouch(c, m) \in [Children -> ChildStates]
    BY <2>3 DEF AutoTouch, TypeOK, ChildTypeOK
  <2>5. \A d \in Children : d # c => AutoTouch(c, m)[d] = child[d]
    BY DEF AutoTouch, TypeOK, ChildTypeOK
  <2> QED BY <2>1, <2>2, <2>4, <2>5 DEF Touched, ChildStates
<1> QED
  BY <1>1, <1>2, <1>3, RunningCreated

LEMMA CompletionsType ==
  ASSUME TypeOK, NEW c \in Children,
         \/ \E s \in Reports : Report(c, s)
         \/ TurnFails(c) \/ SessionEndFires(c)
         \/ \E m \in {"idle", "complete"} : AutoReport(c, m)
  PROVE  TypeOK'
<1>1. ASSUME NEW s \in Reports, Report(c, s) PROVE TypeOK'
  <2>1. TaskTypeOK'
    BY <1>1, StatusType, ConstantsAssumption DEF Report, ReportToParent
  <2> QED BY <1>1, <2>1, ReportTouched, CompletionType DEF Report
<1>2. CASE TurnFails(c)
  <2>1. TaskTypeOK'
    BY <1>2, StatusType DEF TurnFails
  <2> QED BY <1>2, <2>1, FailureTouched, CompletionType DEF TurnFails
<1>3. CASE SessionEndFires(c)
  <2>1. TaskTypeOK'
    BY <1>3, UnchangedType DEF SessionEndFires
  <2> QED BY <1>3, <2>1, TimerTouched, CompletionType DEF SessionEndFires
<1>4. ASSUME NEW m, AutoReport(c, m) PROVE TypeOK'
  <2>1. TaskTypeOK'
    BY <1>4, StatusType DEF AutoReport, ReportToParent
  <2> QED BY <1>4, <2>1, AutoTouched, CompletionType DEF AutoReport
<1> QED
  BY <1>1, <1>2, <1>3, <1>4

(* The end of a turn, and a timer that has nothing to report. *)
LEMMA TurnType ==
  ASSUME TypeOK, NEW c \in Children,
         \/ TurnEnds(c) \/ Resume(c)
         \/ \E m \in {"idle", "complete"} : SkipAutoReport(c, m)
  PROVE  TypeOK'
<1>1. child[c].turn # "none" \/ child[c].known
  BY DEF TurnEnds, Running, Resume, SkipAutoReport, TypeOK, ChildrenAgree
<1>2. child[c].agent # "none" /\ c \notin delegating
  BY <1>1, RunningCreated
<1>3. ChildTypeOK' /\ child'[c].agent # "none"
  <2>1. TimersAfter(c) \subseteq {"sessionEnd", "idle", "complete"}
    BY DEF TimersAfter
  <2> QED
    BY <1>2, <2>1
       DEF TurnEnds, Resume, SkipAutoReport, TypeOK, ChildTypeOK, ChildStates
<1>4. /\ child'[c].known = child[c].known /\ child'[c].handled = child[c].handled
      /\ child'[c].turn = "first" => child[c].turn = "first"
      /\ \A d \in Children : d # c => child'[d] = child[d]
  BY DEF TurnEnds, Resume, SkipAutoReport, TypeOK, ChildTypeOK, ChildStates
<1>5. child'[c].timers # {} => child[c].timers # {} \/ child[c].turn = "first"
  BY DEF TurnEnds, TimersAfter, Resume, SkipAutoReport, TypeOK, ChildTypeOK, ChildStates
<1>6. UNCHANGED wake /\ UNCHANGED delegating
  BY DEF TurnEnds, Resume, SkipAutoReport
<1>7. ChildrenAgree'
  BY <1>2, <1>3, <1>4, <1>5, <1>6 DEF TypeOK, TaskTypeOK, ChildrenAgree
<1> QED
  BY <1>3, <1>7, UnchangedType DEF TurnEnds, Resume, SkipAutoReport, TypeOK

(* Waking the Lead: only the child whose wake it is changes, and only to be handled. *)
LEMMA WokenType ==
  ASSUME TypeOK, NEW c \in Children, wake[c] # NoWake, Woken(c), UNCHANGED delegating
  PROVE  ChildTypeOK' /\ GroupTypeOK' /\ WakeTypeOK' /\ ChildrenAgree'
<1>1. child[c].known /\ child[c].agent # "none" /\ c \notin delegating
  <2>1. child[c].known
    BY DEF TypeOK, ChildrenAgree
  <2> QED BY <2>1, RunningCreated
<1>2. child[c] \in ChildStates
  BY DEF TypeOK, ChildTypeOK
<1>3. child'[c] = [child[c] EXCEPT !.handled = TRUE]
  BY DEF Woken, TypeOK, ChildTypeOK
<1>4. \A d \in Children : d # c => child'[d] = child[d] /\ wake'[d] = wake[d]
  BY DEF Woken, TypeOK, ChildTypeOK, WakeTypeOK
<1>5. ChildTypeOK'
  BY <1>2 DEF Woken, TypeOK, ChildTypeOK, ChildStates
<1>6. GroupTypeOK'
  <2>1. NoGroup \in [members : SUBSET Children, done : SUBSET Children]
    BY DEF NoGroup
  <2> QED BY <2>1 DEF Woken, TypeOK, GroupTypeOK
<1>7. WakeTypeOK'
  <2>1. NoWake \in [stage : {"none", "due", "sent"}, group : Children \cup {None},
                    covers : SUBSET Children]
    BY DEF NoWake
  <2> QED BY <2>1 DEF Woken, TypeOK, WakeTypeOK
<1>8. child'[c].known /\ child'[c].agent # "none"
  BY <1>1, <1>2, <1>3 DEF ChildStates
<1>9. ChildrenAgree'
  BY <1>1, <1>4, <1>8 DEF TypeOK, TaskTypeOK, ChildrenAgree
<1> QED
  BY <1>5, <1>6, <1>7, <1>9

LEMMA TellType ==
  ASSUME TypeOK, NEW c \in Children, NEW receipts \in Nat, Tell(c, receipts),
         UNCHANGED crashes, UNCHANGED failures \/ Fail
  PROVE  LeadTypeOK'
BY DEF Tell, Fail, TypeOK, LeadTypeOK

LEMMA DeliveryType ==
  ASSUME TypeOK, NEW c \in Children,
         \/ Dispatch(c) \/ Delivered(c) \/ ReceiptFails(c) \/ Duplicate(c)
         \/ DeliveryFails(c) \/ MarkerExpires(c)
  PROVE  TypeOK'
<1>1. CASE Delivered(c) \/ ReceiptFails(c) \/ Duplicate(c)
  <2>1. wake[c] # NoWake /\ Woken(c) /\ UNCHANGED delegating
    BY <1>1 DEF Delivered, ReceiptFails, Duplicate, NoWake
  <2>2. TaskTypeOK'
    BY <1>1, UnchangedType DEF Delivered, ReceiptFails, Duplicate
  <2>3. lead[c].receipts \in Nat /\ lead[c].receipts + 1 \in Nat
    BY DEF TypeOK, LeadTypeOK
  <2>4. LeadTypeOK'
    <3>1. CASE Duplicate(c)
      BY <2>3, <3>1 DEF Duplicate, TypeOK, LeadTypeOK
    <3> QED BY <1>1, <2>3, <3>1, TellType DEF Delivered, ReceiptFails
  <2> QED BY <2>1, <2>2, <2>4, WokenType DEF TypeOK
<1>2. CASE Dispatch(c) \/ DeliveryFails(c) \/ MarkerExpires(c)
  <2>1. WakeTypeOK'
    <3>1. NoWake \in [stage : {"none", "due", "sent"}, group : Children \cup {None},
                      covers : SUBSET Children]
      BY DEF NoWake
    <3> QED
      BY <1>2, <3>1 DEF Dispatch, DeliveryFails, MarkerExpires, TypeOK, WakeTypeOK
  <2>2. LeadTypeOK'
    BY <1>2, FailType DEF Dispatch, DeliveryFails, MarkerExpires, TypeOK
  <2>3. /\ \A d \in Children : wake'[d] # NoWake => wake[d] # NoWake
        /\ UNCHANGED child /\ UNCHANGED delegating
    <3>1. CASE Dispatch(c)
      <4>1. wake[c] # NoWake
        BY <3>1 DEF Dispatch, NoWake
      <4>2. \A d \in Children : d # c => wake'[d] = wake[d]
        BY <3>1 DEF Dispatch, TypeOK, WakeTypeOK
      <4> QED BY <3>1, <4>1, <4>2 DEF Dispatch
    <3>2. CASE DeliveryFails(c) \/ MarkerExpires(c)
      BY <3>2 DEF DeliveryFails, MarkerExpires, TypeOK, WakeTypeOK
    <3> QED BY <1>2, <3>1, <3>2
  <2>4. ChildrenAgree'
    BY <2>3 DEF TypeOK, ChildrenAgree
  <2> QED
    BY <1>2, <2>1, <2>2, <2>4, UnchangedType
       DEF Dispatch, DeliveryFails, MarkerExpires, TypeOK
<1> QED
  BY <1>1, <1>2

(* A restart, and the recovery after it. *)
LEMMA RestartType ==
  ASSUME TypeOK, Crash \/ Restore
  PROVE  TypeOK'
<1>1. CASE Crash
  <2>1. ASSUME NEW c \in Children
        PROVE  /\ child'[c] \in ChildStates
               /\ child'[c].agent = "none" => child'[c] = NewChild
               /\ ~child'[c].handled /\ child'[c].timers = {}
               /\ child'[c].turn # "first"
    <3>1. child[c] \in ChildStates
      BY DEF TypeOK, ChildTypeOK
    <3>2. child'[c] = [child[c] EXCEPT !.known = FALSE, !.handled = FALSE,
             !.timers = {}, !.turn = IF child[c].turn = "none" THEN child[c].turn ELSE "lost"]
      BY <1>1, <3>1 DEF Crash, ChildStates
    <3>3. child'[c] \in ChildStates /\ ~child'[c].handled /\ child'[c].timers = {}
          /\ child'[c].turn # "first" /\ child'[c].agent = child[c].agent
      BY <3>1, <3>2 DEF ChildStates
    <3>4. CASE child[c] = NewChild
      <4>1. child'[c] = [NewChild EXCEPT !.known = FALSE, !.handled = FALSE,
                                         !.timers = {}, !.turn = "none"]
        BY <3>2, <3>4 DEF NewChild
      <4>2. child'[c] = NewChild
        BY <4>1 DEF NewChild
      <4> QED BY <3>3, <4>2
    <3>5. CASE child[c].agent # "none"
      BY <3>3, <3>5
    <3> QED BY <3>3, <3>4, <3>5 DEF TypeOK, ChildrenAgree
  <2>2. ChildTypeOK'
    BY <1>1, <2>1 DEF Crash, ChildTypeOK
  <2>3. ChildrenAgree'
    BY <1>1, <2>1 DEF Crash, ChildrenAgree
  <2>4. GroupTypeOK' /\ WakeTypeOK'
    BY <1>1 DEF Crash, GroupTypeOK, WakeTypeOK, NoGroup, NoWake
  <2>5. TaskTypeOK' /\ LeadTypeOK'
    <3>1. /\ UNCHANGED task /\ UNCHANGED lead /\ UNCHANGED failures
          /\ delegating' = {} /\ crashes' = crashes + 1
      BY <1>1 DEF Crash
    <3> QED BY <3>1 DEF TypeOK, TaskTypeOK, LeadTypeOK
  <2> QED BY <2>2, <2>3, <2>4, <2>5 DEF TypeOK
<1>2. CASE Restore
  <2> DEFINE finished(c) ==
        task[TaskOf(c)].assignedTo = c /\ task[TaskOf(c)].status = "COMPLETED"
  <2>1. ASSUME NEW c \in Forgotten
        PROVE  /\ child'[c] = [child[c] EXCEPT !.known = TRUE, !.handled = finished(c)]
               /\ child'[c] \in ChildStates /\ child'[c].agent # "none"
               /\ child'[c].known /\ c \notin delegating
    <3>1. c \in Children /\ child[c] \in ChildStates /\ child[c].turn # "none"
      BY DEF TypeOK, ChildTypeOK, Forgotten
    <3>2. child'[c] = [child[c] EXCEPT !.known = TRUE, !.handled = finished(c)]
      BY <1>2, <3>1 DEF Restore
    <3>3. child[c].agent # "none" /\ c \notin delegating
      BY <3>1, RunningCreated
    <3>4. finished(c) \in BOOLEAN
      OBVIOUS
    <3> HIDE DEF finished
    <3>5. child'[c] \in ChildStates /\ child'[c].agent # "none" /\ child'[c].known
      BY <3>1, <3>2, <3>3, <3>4 DEF ChildStates
    <3> QED BY <3>2, <3>3, <3>5
  <2>2. \A c \in Children \ Forgotten : child'[c] = child[c]
    BY <1>2 DEF Restore
  <2>3. ChildTypeOK'
    BY <1>2, <2>1, <2>2 DEF Restore, TypeOK, ChildTypeOK
  <2>4. ChildrenAgree'
    BY <1>2, <2>1, <2>2 DEF Restore, TypeOK, TaskTypeOK, ChildrenAgree
  <2> QED BY <1>2, <2>3, <2>4, UnchangedType DEF Restore, TypeOK
<1> QED
  BY <1>1, <1>2

LEMMA NextType ==
  ASSUME TypeOK, [Next]_vars
  PROVE  TypeOK'
<1>1. CASE UNCHANGED vars
  BY <1>1, UnchangedType DEF vars, TypeOK
<1> QED
  BY <1>1, DelegateType, SpawnType, StartType, CompletionsType, TurnType,
     DeliveryType, RestartType DEF Next

(* Every state has the types of its variables, and the records agree. *)
THEOREM TypeCorrect == Spec => []TypeOK
<1>1. Init => TypeOK
  BY ConstantsAssumption
     DEF Init, TypeOK, TaskTypeOK, ChildTypeOK, GroupTypeOK, WakeTypeOK,
         LeadTypeOK, ChildrenAgree, ChildStates, NewChild, NoGroup, NoWake,
         NothingDelivered
<1> QED
  BY <1>1, NextType, PTL DEF Spec

-----------------------------------------------------------------------------
(* Bindings.  A step that starts nothing: it puts no task in progress and takes *)
(* no agent from one that is.                                                   *)
Quiet ==
  /\ delegating' \subseteq delegating
  /\ delegating' # {} => Forgotten' \subseteq Forgotten
  /\ \A t \in Tasks : task'[t] = task[t] \/ task'[t].status # "IN_PROGRESS"
  /\ \A c \in Children :
       /\ child[c].turn # "none" => child'[c].turn # "none"
       /\ child[c].agent = "ACTIVE"
            => child'[c].agent = "ACTIVE" \/ task'[TaskOf(c)].status # "IN_PROGRESS"

LEMMA QuietKeepsBindings ==
  ASSUME TypeOK, BindingInv, Quiet
  PROVE  BindingInv'
<1>1. \A c \in delegating' : c \in delegating /\ c \in Children /\ TaskOf(c) \in Tasks
  BY TaskOfType DEF Quiet, TypeOK, TaskTypeOK
<1>2. \A c, d \in delegating' : TaskOf(c) = TaskOf(d) => c = d
  BY <1>1 DEF BindingInv
<1>3. delegating' # {} => Forgotten' = {}
  BY <1>1 DEF Quiet, BindingInv
<1>4. \A c \in delegating' : task'[TaskOf(c)].status # "IN_PROGRESS"
  BY <1>1 DEF Quiet, BindingInv
<1>5. \A t \in Tasks : task'[t].status = "IN_PROGRESS" =>
        /\ task'[t].assignedTo \in Children /\ TaskOf(task'[t].assignedTo) = t
        /\ child'[task'[t].assignedTo].agent = "ACTIVE"
        /\ child'[task'[t].assignedTo].turn # "none"
  BY DEF Quiet, BindingInv
<1> QED
  BY <1>2, <1>3, <1>4, <1>5 DEF BindingInv

LEMMA CompletionQuiet ==
  ASSUME TypeOK, NEW c \in Children, NEW ch, Touched(c, ch), Finalize(c, ch),
         UNCHANGED delegating,
         \/ UNCHANGED task /\ ch[c].agent = child[c].agent
         \/ \E s \in {"COMPLETED", "NEEDS_FIX"} : task' = [task EXCEPT ![TaskOf(c)].status = s]
  PROVE  Quiet
<1>0. ch \in [Children -> ChildStates] /\ ch[c] \in ChildStates
  BY DEF Touched
<1>1. \A d \in Children : d # c => child'[d] = child[d]
  <2>1. \A d \in Children : d # c => child'[d] = ch[d] /\ wake'[d] = wake[d]
    BY <1>0, FinalizeFrame
  <2> QED BY <2>1 DEF Touched
<1>2. child'[c] = ch[c] \/ child'[c] = [ch[c] EXCEPT !.handled = TRUE]
  BY <1>0, FinalizeFrame
<1>3. /\ child'[c].turn = ch[c].turn /\ child'[c].known = child[c].known
      /\ child'[c].agent = ch[c].agent
  BY <1>0, <1>2 DEF Touched, ChildStates
<1>4. child[c].turn # "none" <=> child'[c].turn # "none"
  BY <1>3 DEF Touched
<1>5. Forgotten' \subseteq Forgotten
  BY <1>1, <1>3, <1>4 DEF Forgotten
<1>6. /\ \A t \in Tasks : task'[t] = task[t] \/ task'[t].status # "IN_PROGRESS"
      /\ ch[c].agent # child[c].agent => task'[TaskOf(c)].status # "IN_PROGRESS"
  <2>1. CASE UNCHANGED task /\ ch[c].agent = child[c].agent
    BY <2>1
  <2>2. ASSUME NEW s \in {"COMPLETED", "NEEDS_FIX"},
               task' = [task EXCEPT ![TaskOf(c)].status = s]
        PROVE  /\ \A t \in Tasks : task'[t] = task[t] \/ task'[t].status # "IN_PROGRESS"
               /\ task'[TaskOf(c)].status # "IN_PROGRESS"
    BY <2>2, TaskOfType DEF TypeOK, TaskTypeOK
  <2> QED BY <2>1, <2>2
<1> QED
  BY <1>1, <1>3, <1>4, <1>5, <1>6 DEF Quiet

LEMMA CompletionsQuiet ==
  ASSUME TypeOK, NEW c \in Children,
         \/ \E s \in Reports : Report(c, s)
         \/ TurnFails(c) \/ SessionEndFires(c)
         \/ \E m \in {"idle", "complete"} : AutoReport(c, m)
  PROVE  Quiet
<1>1. ASSUME NEW s \in Reports, Report(c, s) PROVE Quiet
  <2>1. \E r \in {"COMPLETED", "NEEDS_FIX"} : task' = [task EXCEPT ![TaskOf(c)].status = r]
    BY <1>1, ConstantsAssumption DEF Report, ReportToParent
  <2> QED BY <1>1, <2>1, ReportTouched, CompletionQuiet DEF Report
<1>2. CASE TurnFails(c)
  BY <1>2, FailureTouched, CompletionQuiet DEF TurnFails
<1>3. CASE SessionEndFires(c)
  <2>1. TimerTouch(c, "sessionEnd")[c].agent = child[c].agent
    BY DEF TimerTouch, TypeOK, ChildTypeOK, ChildStates
  <2> QED BY <1>3, <2>1, TimerTouched, CompletionQuiet DEF SessionEndFires
<1>4. ASSUME NEW m, AutoReport(c, m) PROVE Quiet
  <2>1. task' = [task EXCEPT ![TaskOf(c)].status = "COMPLETED"]
    BY <1>4 DEF AutoReport, ReportToParent
  <2> QED BY <1>4, <2>1, AutoTouched, CompletionQuiet DEF AutoReport
<1> QED
  BY <1>1, <1>2, <1>3, <1>4

LEMMA OthersQuiet ==
  ASSUME TypeOK, NEW c \in Children,
         \/ SpawnFails(c) \/ PromptFails(c) \/ TurnEnds(c) \/ Resume(c)
         \/ \E m \in {"idle", "complete"} : SkipAutoReport(c, m)
         \/ Dispatch(c) \/ Delivered(c) \/ ReceiptFails(c) \/ Duplicate(c)
         \/ DeliveryFails(c) \/ MarkerExpires(c)
  PROVE  Quiet
<1>0. \A d \in Children : child[d] \in ChildStates
  BY DEF TypeOK, ChildTypeOK
<1>1. CASE SpawnFails(c) \/ PromptFails(c)
  <2>1. child[c] = [NewChild EXCEPT !.agent = "PENDING"]
    BY <1>1 DEF SpawnFails, PromptFails, TypeOK, ChildrenAgree
  <2>2. /\ child'[c].turn = "none" /\ child[c].turn = "none"
        /\ child[c].agent # "ACTIVE"
        /\ \A d \in Children : d # c => child'[d] = child[d]
    BY <1>1, <2>1 DEF SpawnFails, PromptFails, TypeOK, ChildTypeOK, NewChild
  <2>3. Forgotten' \subseteq Forgotten
    BY <2>2 DEF Forgotten
  <2>4. \A t \in Tasks : task'[t] = task[t] \/ task'[t].status # "IN_PROGRESS"
    BY <1>1, TaskOfType DEF SpawnFails, PromptFails, TypeOK, TaskTypeOK
  <2>5. delegating' \subseteq delegating
    BY <1>1 DEF SpawnFails, PromptFails
  <2> QED BY <2>2, <2>3, <2>4, <2>5 DEF Quiet
<1>2. CASE \/ TurnEnds(c) \/ Resume(c)
           \/ \E m \in {"idle", "complete"} : SkipAutoReport(c, m)
  <2>1. /\ \A d \in Children : d # c => child'[d] = child[d]
        /\ child'[c].known = child[c].known
        /\ child[c].turn # "none" <=> child'[c].turn # "none"
        /\ child[c].agent = "ACTIVE" => child'[c].agent = "ACTIVE"
    BY <1>0, <1>2
       DEF TurnEnds, Running, Resume, SkipAutoReport, TypeOK, ChildTypeOK, ChildStates
  <2>2. Forgotten' \subseteq Forgotten
    BY <2>1 DEF Forgotten
  <2>3. UNCHANGED task /\ UNCHANGED delegating
    BY <1>2 DEF TurnEnds, Resume, SkipAutoReport
  <2> QED BY <2>1, <2>2, <2>3 DEF Quiet
<1>3. CASE \/ Dispatch(c) \/ Delivered(c) \/ ReceiptFails(c) \/ Duplicate(c)
           \/ DeliveryFails(c) \/ MarkerExpires(c)
  <2>1. UNCHANGED task /\ UNCHANGED delegating
    BY <1>3 DEF Dispatch, Delivered, ReceiptFails, Duplicate, DeliveryFails, MarkerExpires
  <2>2. UNCHANGED child \/ child' = [child EXCEPT ![c].handled = TRUE]
    BY <1>3 DEF Dispatch, Delivered, ReceiptFails, Duplicate, DeliveryFails,
                MarkerExpires, Woken
  <2>3. \A d \in Children : /\ child'[d].known = child[d].known
                            /\ child'[d].turn = child[d].turn
                            /\ child'[d].agent = child[d].agent
    BY <1>0, <2>2 DEF TypeOK, ChildTypeOK, ChildStates
  <2>4. Forgotten' = Forgotten
    BY <2>3 DEF Forgotten
  <2> QED BY <2>1, <2>3, <2>4 DEF Quiet
<1> QED
  BY <1>1, <1>2, <1>3

LEMMA RestartQuiet ==
  ASSUME TypeOK, Crash \/ Restore
  PROVE  Quiet
<1>0. \A d \in Children : child[d] \in ChildStates
  BY DEF TypeOK, ChildTypeOK
<1>1. UNCHANGED task
  BY DEF Crash, Restore
<1>2. \A d \in Children : /\ child'[d].agent = child[d].agent
                          /\ child[d].turn # "none" <=> child'[d].turn # "none"
  <2>1. CASE Crash
    <3>1. \A d \in Children : child'[d] = [child[d] EXCEPT !.known = FALSE,
             !.handled = FALSE, !.timers = {},
             !.turn = IF child[d].turn = "none" THEN child[d].turn ELSE "lost"]
      BY <1>0, <2>1 DEF Crash, ChildStates
    <3>2. ASSUME NEW d \in Children
          PROVE  /\ child'[d].agent = child[d].agent
                 /\ child'[d].turn = IF child[d].turn = "none" THEN "none" ELSE "lost"
      <4>1. child[d] \in ChildStates
        BY <1>0
      <4>2. child'[d] = [child[d] EXCEPT !.known = FALSE,
             !.handled = FALSE, !.timers = {},
             !.turn = IF child[d].turn = "none" THEN child[d].turn ELSE "lost"]
        BY <3>1
      <4>3. CASE child[d].turn = "none"
        BY <4>1, <4>2, <4>3 DEF ChildStates
      <4>4. CASE child[d].turn # "none"
        BY <4>1, <4>2, <4>4 DEF ChildStates
      <4> QED BY <4>3, <4>4
    <3> QED BY <3>2
  <2>2. CASE Restore
    BY <1>0, <2>2 DEF Restore, ChildStates
  <2> QED BY <2>1, <2>2
<1>3. delegating' # {} => Forgotten' \subseteq Forgotten
  <2>1. CASE Crash
    BY <2>1 DEF Crash
  <2>2. CASE Restore
    <3>1. \A d \in Children : child[d].known => child'[d].known
      BY <1>0, <2>2 DEF Restore, Forgotten, ChildStates
    <3> QED BY <1>2, <3>1 DEF Forgotten
  <2> QED BY <2>1, <2>2
<1>4. delegating' \subseteq delegating
  BY DEF Crash, Restore
<1> QED
  BY <1>1, <1>2, <1>3, <1>4 DEF Quiet

(* A delegation begins and ends: the guard and the look at the binding keep it alone. *)
LEMMA DelegateBinding ==
  ASSUME TypeOK, BindingInv, NEW c \in Children, Delegate(c)
  PROVE  BindingInv'
<1>1. child[c] = NewChild
  BY DEF Delegate, TypeOK, ChildrenAgree
<1>2. child' = [child EXCEPT ![c].agent = "PENDING"]
  BY DEF Delegate
<1>3. /\ child'[c].turn = "none"
      /\ \A d \in Children : d # c => child'[d] = child[d]
  BY <1>1, <1>2 DEF NewChild, TypeOK, ChildTypeOK
<1>4. Forgotten' = {}
  BY <1>3 DEF Delegate, Forgotten
<1>5. TaskOf(c) \in Tasks /\ UNCHANGED task /\ delegating' = delegating \union {c}
  BY TaskOfType DEF Delegate
<1>6. \A d \in delegating : TaskOf(d) # TaskOf(c)
  BY DEF Delegate, GuardFree
<1>7. task[TaskOf(c)].status # "IN_PROGRESS"
  <2> SUFFICES ASSUME task[TaskOf(c)].status = "IN_PROGRESS" PROVE FALSE
    OBVIOUS
  <2> DEFINE d == task[TaskOf(c)].assignedTo
  <2>1. d \in Children /\ child[d].agent = "ACTIVE" /\ child[d].turn # "none"
    BY <1>5 DEF BindingInv
  <2>2. child[d].known
    BY <2>1 DEF Delegate, Forgotten
  <2>3. task[TaskOf(c)] = [status |-> "IN_PROGRESS", assignedTo |-> d]
    BY <1>5 DEF TypeOK, TaskTypeOK
  <2>4. ActiveBinding(TaskOf(c), d)
    BY <2>1, <2>2, <2>3 DEF ActiveBinding
  <2> QED BY <2>1, <2>4 DEF Delegate
<1>8. \A t \in Tasks : task[t].status = "IN_PROGRESS" => task[t].assignedTo # c
  BY <1>1 DEF BindingInv, NewChild
<1> QED
  BY <1>3, <1>4, <1>5, <1>6, <1>7, <1>8 DEF BindingInv

LEMMA StartBinding ==
  ASSUME TypeOK, BindingInv, NEW c \in Children, NEW m \in {"immediate", "after_all"},
         Start(c, m)
  PROVE  BindingInv'
<1>1. /\ child'[c].turn = "first" /\ child'[c].known /\ child'[c].agent = "ACTIVE"
      /\ \A d \in Children : d # c => child'[d] = child[d]
  BY DEF Start, TypeOK, ChildTypeOK, ChildStates
<1>2. Forgotten' \subseteq Forgotten
  BY <1>1 DEF Forgotten
<1>3. /\ c \in delegating /\ delegating' = delegating \ {c} /\ TaskOf(c) \in Tasks
      /\ task' = [task EXCEPT ![TaskOf(c)] = [status |-> "IN_PROGRESS", assignedTo |-> c]]
  BY TaskOfType DEF Start
<1>4. /\ task'[TaskOf(c)] = [status |-> "IN_PROGRESS", assignedTo |-> c]
      /\ \A t \in Tasks : t # TaskOf(c) => task'[t] = task[t]
  BY <1>3 DEF TypeOK, TaskTypeOK
<1>5. delegating' # {} => Forgotten' = {}
  BY <1>2, <1>3 DEF BindingInv
<1>6. \A d, e \in delegating' : TaskOf(d) = TaskOf(e) => d = e
  BY <1>3 DEF BindingInv
<1>7. \A d \in delegating' : task'[TaskOf(d)].status # "IN_PROGRESS"
  <2> SUFFICES ASSUME NEW d \in delegating' PROVE task'[TaskOf(d)].status # "IN_PROGRESS"
    OBVIOUS
  <2>1. d \in delegating /\ d # c /\ d \in Children /\ TaskOf(d) # TaskOf(c)
    BY <1>3 DEF BindingInv, TypeOK, TaskTypeOK
  <2> QED BY <1>4, <2>1, TaskOfType DEF BindingInv
<1>8. ASSUME NEW t \in Tasks, task'[t].status = "IN_PROGRESS"
      PROVE  /\ task'[t].assignedTo \in Children /\ TaskOf(task'[t].assignedTo) = t
             /\ child'[task'[t].assignedTo].agent = "ACTIVE"
             /\ child'[task'[t].assignedTo].turn # "none"
  <2>1. CASE t = TaskOf(c)
    BY <1>1, <1>4, <2>1
  <2>2. CASE t # TaskOf(c)
    BY <1>1, <1>4, <1>8, <2>2 DEF BindingInv
  <2> QED BY <2>1, <2>2
<1> QED
  BY <1>5, <1>6, <1>7, <1>8 DEF BindingInv

LEMMA NextBinding ==
  ASSUME TypeOK, BindingInv, [Next]_vars
  PROVE  BindingInv'
<1>1. CASE UNCHANGED vars
  <2>1. Quiet
    BY <1>1 DEF vars, Quiet, Forgotten
  <2> QED BY <2>1, QuietKeepsBindings
<1> QED
  BY <1>1, DelegateBinding, StartBinding, CompletionsQuiet, OthersQuiet, RestartQuiet,
     QuietKeepsBindings DEF Next

(* Only the start of a child, or its failed prompt, binds a task to an agent. *)
LEMMA Rebound ==
  ASSUME TypeOK, NEW t \in Tasks, Next, task'[t].assignedTo # task[t].assignedTo
  PROVE  \E c \in delegating : c \in Children /\ TaskOf(c) = t
<1>0. task \in [Tasks -> [status : {"PENDING", "IN_PROGRESS", "COMPLETED", "NEEDS_FIX", "BLOCKED"},
                         assignedTo : Children \cup {None}]]
  BY DEF TypeOK, TaskTypeOK
<1>1. task' # task
  OBVIOUS
<1>2. \A c \in Children : \A s : task' # [task EXCEPT ![TaskOf(c)].status = s]
  BY <1>0
<1>3. PICK c \in Children :
        PromptFails(c) \/ \E m \in {"immediate", "after_all"} : Start(c, m)
  BY <1>1, <1>2
     DEF Next, Delegate, SpawnFails, Report, ReportToParent, TurnEnds, TurnFails,
         SessionEndFires, AutoReport, SkipAutoReport, Dispatch, Delivered,
         ReceiptFails, Duplicate, DeliveryFails, MarkerExpires, Resume, Crash, Restore
<1>4. c \in delegating
  BY <1>3 DEF PromptFails, Start
<1>5. \E r \in {"BLOCKED", "IN_PROGRESS"} :
        task' = [task EXCEPT ![TaskOf(c)] = [status |-> r, assignedTo |-> c]]
  BY <1>3 DEF PromptFails, Start
<1>6. TaskOf(c) = t
  BY <1>0, <1>5
<1> QED
  BY <1>4, <1>6

(* A task with a live agent is not bound to another, for any number of delegations. *)
THEOREM BindingStandsCorrect == Spec => BindingStands
<1>1. Init => BindingInv
  BY DEF Init, BindingInv
<1>2. TypeOK /\ BindingInv /\ [Next]_vars => BindingInv'
  BY NextBinding
<1>3. TypeOK /\ BindingInv /\ [Next]_vars
        => [\A t \in Tasks : task'[t].assignedTo # task[t].assignedTo
              => ~\E c \in Children : ActiveBinding(t, c)]_vars
  <2> SUFFICES ASSUME TypeOK, BindingInv, Next, NEW t \in Tasks,
                      task'[t].assignedTo # task[t].assignedTo
               PROVE  ~\E c \in Children : ActiveBinding(t, c)
    OBVIOUS
  <2>1. task[t].status # "IN_PROGRESS"
    BY Rebound DEF BindingInv
  <2>2. ASSUME NEW c \in Children, ActiveBinding(t, c) PROVE FALSE
    <3>1. task[t] = [status |-> "IN_PROGRESS", assignedTo |-> c]
      BY <2>2 DEF ActiveBinding
    <3>2. task[t].status = "IN_PROGRESS"
      BY <3>1
    <3> QED BY <2>1, <3>2
  <2> QED BY <2>2
<1> QED
  BY <1>1, <1>2, <1>3, TypeCorrect, PTL DEF Spec, BindingStands

-----------------------------------------------------------------------------
(* Deliveries.  Between two restarts the Lead takes one report of a child. *)
LEMMA CompletionDelivery ==
  ASSUME TypeOK, DeliveryInv, NEW c \in Children, NEW ch, Touched(c, ch),
         Finalize(c, ch), UNCHANGED <<lead, crashes>>
  PROVE  DeliveryInv'
<1>0. ch \in [Children -> ChildStates] /\ ch[c] \in ChildStates
  BY DEF Touched
<1>1. \A d \in Children : d # c => child'[d] = child[d] /\ wake'[d] = wake[d]
  <2>1. \A d \in Children : d # c => child'[d] = ch[d] /\ wake'[d] = wake[d]
    BY <1>0, FinalizeFrame
  <2> QED BY <2>1 DEF Touched
<1>2. \/ child'[c] = ch[c]
      \/ child'[c] = [ch[c] EXCEPT !.handled = TRUE] /\ wake'[c] = NoWake
  BY <1>0, FinalizeFrame
<1>3. wake'[c] # wake[c] => ~child'[c].handled
  BY <1>0, FinalizeFrame
<1>4. ch[c].handled = child[c].handled
  BY DEF Touched
<1>5. /\ wake'[c] # NoWake => ~child'[c].handled
      /\ child[c].handled => child'[c].handled
  <2>1. CASE child'[c] = ch[c]
    BY <1>3, <1>4, <2>1 DEF DeliveryInv
  <2>2. CASE child'[c] = [ch[c] EXCEPT !.handled = TRUE] /\ wake'[c] = NoWake
    BY <1>0, <2>2 DEF ChildStates
  <2> QED BY <1>2, <2>1, <2>2
<1>6. \A d \in Children : lead'[d].accepted = lead[d].accepted /\ lead[d].accepted \in Nat
  BY DEF TypeOK, LeadTypeOK
<1> QED
  BY <1>1, <1>5, <1>6 DEF DeliveryInv, TypeOK, LeadTypeOK

(* A step that reports nothing to the Lead. *)
LEMMA OtherDelivery ==
  ASSUME DeliveryInv, UNCHANGED <<wake, lead, crashes>>,
         \A c \in Children : child'[c].handled = child[c].handled
  PROVE  DeliveryInv'
BY DEF DeliveryInv

LEMMA WakeDelivery ==
  ASSUME TypeOK, DeliveryInv, NEW c \in Children,
         \/ Dispatch(c) \/ Delivered(c) \/ ReceiptFails(c) \/ Duplicate(c)
         \/ DeliveryFails(c)
  PROVE  DeliveryInv'
<1>0. /\ child[c] \in ChildStates
      /\ \A d \in Children : lead[d].accepted \in Nat
      /\ crashes' = crashes /\ crashes \in Nat
  BY DEF TypeOK, ChildTypeOK, LeadTypeOK, Dispatch, Delivered, ReceiptFails, Duplicate,
         DeliveryFails
<1>1. wake[c] # NoWake
  BY DEF Dispatch, Delivered, ReceiptFails, Duplicate, DeliveryFails, NoWake
<1>2. ~child[c].handled /\ lead[c].accepted <= crashes
  BY <1>0, <1>1 DEF DeliveryInv
<1>3. CASE Delivered(c) \/ ReceiptFails(c) \/ Duplicate(c)
  <2>1. /\ child' = [child EXCEPT ![c].handled = TRUE]
        /\ wake' = [wake EXCEPT ![c] = NoWake]
    BY <1>3 DEF Delivered, ReceiptFails, Duplicate, Woken
  <2>2. /\ child'[c].handled /\ wake'[c] = NoWake
        /\ \A d \in Children : d # c => child'[d] = child[d] /\ wake'[d] = wake[d]
    BY <1>0, <2>1 DEF TypeOK, ChildTypeOK, WakeTypeOK, ChildStates
  <2>3. /\ lead'[c].accepted <= lead[c].accepted + 1
        /\ \A d \in Children : d # c => lead'[d].accepted = lead[d].accepted
    <3>1. CASE Duplicate(c)
      BY <1>0, <3>1 DEF Duplicate, TypeOK, LeadTypeOK
    <3>2. CASE Delivered(c) \/ ReceiptFails(c)
      BY <1>0, <3>2 DEF Delivered, ReceiptFails, Tell
    <3> QED BY <1>3, <3>1, <3>2
  <2>4. lead'[c].accepted <= crashes + 1
    <3>1. lead'[c].accepted \in Nat
      BY <1>0, <1>3 DEF Delivered, ReceiptFails, Duplicate, Tell, TypeOK, LeadTypeOK
    <3> QED BY <1>0, <1>2, <2>3, <3>1
  <2> QED BY <1>0, <2>2, <2>3, <2>4 DEF DeliveryInv
<1>4. CASE Dispatch(c) \/ DeliveryFails(c)
  <2>1. /\ UNCHANGED child /\ UNCHANGED lead
        /\ \A d \in Children : wake'[d] # NoWake => wake[d] # NoWake
    BY <1>1, <1>4 DEF Dispatch, DeliveryFails, TypeOK, WakeTypeOK
  <2> QED BY <1>0, <2>1 DEF DeliveryInv
<1> QED
  BY <1>3, <1>4

LEMMA RestartDelivery ==
  ASSUME TypeOK, DeliveryInv, Crash \/ Restore
  PROVE  DeliveryInv'
<1>0. /\ \A d \in Children : child[d] \in ChildStates /\ lead[d].accepted \in Nat
      /\ crashes \in Nat /\ UNCHANGED lead
  BY DEF TypeOK, ChildTypeOK, LeadTypeOK, Crash, Restore
<1>1. CASE Crash
  <2>1. \A d \in Children : ~child'[d].handled /\ wake'[d] = NoWake
    BY <1>0, <1>1 DEF Crash, ChildStates
  <2>2. crashes' = crashes + 1
    BY <1>1 DEF Crash
  <2>3. \A d \in Children : lead'[d].accepted <= crashes'
    <3>1. \A d \in Children : lead[d].accepted <= crashes + 1
      BY <1>0 DEF DeliveryInv
    <3> QED BY <1>0, <2>2, <3>1
  <2> QED BY <1>0, <2>1, <2>2, <2>3 DEF DeliveryInv
<1>2. CASE Restore
  <2>1. \A d \in Children \ Forgotten : child'[d] = child[d]
    BY <1>2 DEF Restore
  <2>2. \A d \in Forgotten : wake[d] = NoWake /\ ~child[d].handled
    BY DEF Forgotten, TypeOK, ChildrenAgree
  <2>3. UNCHANGED wake /\ UNCHANGED crashes
    BY <1>2 DEF Restore
  <2>4. \A d \in Children : child[d].handled => child'[d].handled
    BY <2>1, <2>2
  <2> QED BY <1>0, <2>1, <2>2, <2>3, <2>4 DEF DeliveryInv
<1> QED
  BY <1>1, <1>2

(* What an action that finalizes nothing does to a child. *)
LEMMA Unhandled ==
  ASSUME TypeOK, NEW c \in Children,
         \/ Delegate(c) \/ SpawnFails(c) \/ PromptFails(c)
         \/ \E m \in {"immediate", "after_all"} : Start(c, m)
         \/ TurnEnds(c) \/ Resume(c)
         \/ \E m \in {"idle", "complete"} : SkipAutoReport(c, m)
         \/ MarkerExpires(c)
  PROVE  /\ \A d \in Children :
              /\ child'[d].handled = child[d].handled
              /\ child[d].turn # "none" => child'[d].turn # "none"
              /\ d # c => child'[d] = child[d]
         /\ child[c].known => child'[c].known
         /\ UNCHANGED wake /\ UNCHANGED lead /\ UNCHANGED crashes
<1>0. \A d \in Children : child[d] \in ChildStates
  BY DEF TypeOK, ChildTypeOK
<1>1. /\ \A d \in Children :
           /\ child'[d].handled = child[d].handled
           /\ child[d].turn # "none" => child'[d].turn # "none"
           /\ d # c => child'[d] = child[d]
      /\ child[c].known => child'[c].known
  BY <1>0 DEF Delegate, SpawnFails, PromptFails, Start, TurnEnds, Resume,
              SkipAutoReport, MarkerExpires, TypeOK, ChildTypeOK, ChildStates
<1>2. UNCHANGED wake /\ UNCHANGED lead /\ UNCHANGED crashes
  BY DEF Delegate, SpawnFails, PromptFails, Start, TurnEnds, Resume, SkipAutoReport,
         MarkerExpires
<1> QED
  BY <1>1, <1>2

LEMMA NextDelivery ==
  ASSUME TypeOK, DeliveryInv, [Next]_vars
  PROVE  DeliveryInv'
<1>1. CASE UNCHANGED vars
  BY <1>1, OtherDelivery DEF vars
<1>2. ASSUME NEW c \in Children,
             \/ \E s \in Reports : Report(c, s)
             \/ TurnFails(c) \/ SessionEndFires(c)
             \/ \E m \in {"idle", "complete"} : AutoReport(c, m)
      PROVE  DeliveryInv'
  <2>1. \E ch : Touched(c, ch) /\ Finalize(c, ch)
    BY <1>2, ReportTouched, FailureTouched, TimerTouched, AutoTouched
  <2>2. UNCHANGED <<lead, crashes>>
    BY <1>2 DEF Report, TurnFails, SessionEndFires, AutoReport
  <2> QED BY <2>1, <2>2, CompletionDelivery
<1>3. ASSUME NEW c \in Children,
             \/ Delegate(c) \/ SpawnFails(c) \/ PromptFails(c)
             \/ \E m \in {"immediate", "after_all"} : Start(c, m)
             \/ TurnEnds(c) \/ Resume(c)
             \/ \E m \in {"idle", "complete"} : SkipAutoReport(c, m)
             \/ MarkerExpires(c)
      PROVE  DeliveryInv'
  BY <1>3, Unhandled, OtherDelivery
<1> QED
  BY <1>1, <1>2, <1>3, WakeDelivery, RestartDelivery DEF Next

(* The Lead takes the report of a child once, and once more only for a restart. *)
THEOREM ReportedOnceCorrect == Spec => []ReportedOnce
<1>1. Init => DeliveryInv
  BY DEF Init, DeliveryInv, NewChild, NothingDelivered
<1>2. TypeOK /\ DeliveryInv => ReportedOnce
  BY DEF DeliveryInv, ReportedOnce, TypeOK, LeadTypeOK
<1>3. TypeOK /\ DeliveryInv /\ [Next]_vars => DeliveryInv'
  BY NextDelivery
<1> QED
  BY <1>1, <1>2, <1>3, TypeCorrect, PTL DEF Spec

-----------------------------------------------------------------------------
(* Groups.  As long as nothing failed and nothing restarted, a handled child is *)
(* one the Lead was told of, or its group is still open.                        *)

HandledTold == \A c \in Children : child[c].handled /\ ~child[c].late => ToldOrWaiting(c)

LEMMA StillUndisturbed ==
  ASSUME TypeOK, [Next]_vars, Undisturbed'
  PROVE  Undisturbed
<1>1. failures \in Nat /\ crashes \in Nat
  BY DEF TypeOK, LeadTypeOK
<1>2. /\ UNCHANGED failures \/ failures' = failures + 1
      /\ UNCHANGED crashes \/ crashes' = crashes + 1
  BY DEF vars, Next, Delegate, SpawnFails, PromptFails, Start, Report, TurnEnds,
         TurnFails, SessionEndFires, AutoReport, SkipAutoReport, Dispatch, Delivered,
         ReceiptFails, Duplicate, DeliveryFails, MarkerExpires, Resume, Crash, Restore,
         Fail
<1> QED
  BY <1>1, <1>2 DEF Undisturbed

(* What fails or restarts disturbs. *)
LEMMA Disturbed ==
  ASSUME TypeOK, NEW c \in Children,
         \/ SpawnFails(c) \/ PromptFails(c) \/ TurnFails(c) \/ ReceiptFails(c)
         \/ DeliveryFails(c) \/ Crash
  PROVE  ~Undisturbed'
<1>1. failures \in Nat /\ crashes \in Nat
  BY DEF TypeOK, LeadTypeOK
<1>2. failures' = failures + 1 \/ crashes' = crashes + 1
  BY DEF SpawnFails, PromptFails, TurnFails, ReceiptFails, DeliveryFails, Crash, Fail
<1> QED
  BY <1>1, <1>2 DEF Undisturbed

(* A step of c that leaves deliveries and groups alone. *)
LEMMA OtherCover ==
  ASSUME TypeOK, CoverInv, HandledTold, NEW c \in Children,
         UNCHANGED <<group, wake, lead, activeGroup>>, inflight' \subseteq inflight,
         \A d \in Children :
           /\ child'[d].handled = child[d].handled
           /\ child[d].turn # "none" => child'[d].turn # "none"
           /\ child[d].late => child'[d].late,
         Forgotten' = {}
  PROVE  CoverInv' /\ HandledTold'
<1>1. \A d \in inflight' : d \in Children /\ wake'[d] = wake[d]
  BY DEF TypeOK, WakeTypeOK
<1>2. \A d \in Children : GroupsOf(d)' = GroupsOf(d)
  BY DEF GroupsOf
<1>3. HandledTold'
  BY <1>2 DEF HandledTold, ToldOrWaiting
<1>4. \A e, g \in Children : wake'[e].group = g =>
        /\ \A d \in group'[g].members : d \in wake'[e].covers \/ child'[d].late
        /\ child'[g].turn # "none"
  <2>1. \A g \in Children : group[g].members \subseteq Children
    BY DEF TypeOK, GroupTypeOK
  <2> QED BY <2>1 DEF CoverInv
<1> QED
  BY <1>1, <1>3, <1>4 DEF CoverInv

(* Joining a group: one that is being reported is joined late. *)
LEMMA StartCover ==
  ASSUME TypeOK, CoverInv, HandledTold, NEW c \in Children,
         NEW m \in {"immediate", "after_all"}, Start(c, m)
  PROVE  CoverInv' /\ HandledTold'
<1>1. /\ child[c] = [NewChild EXCEPT !.agent = "PENDING"]
      /\ \A d \in Children : child[d] \in ChildStates
  BY DEF Start, TypeOK, ChildTypeOK, ChildrenAgree
<1>2. /\ ~child[c].late /\ ~child[c].handled /\ child[c].turn = "none"
      /\ child'[c].turn = "first" /\ child'[c].known
      /\ child'[c].handled = child[c].handled
      /\ child'[c].late <=> m = "after_all" /\ JoinsLate
      /\ \A d \in Children : d # c => child'[d] = child[d]
  BY <1>1 DEF Start, NewChild, TypeOK, ChildTypeOK
<1>3. Forgotten' = {}
  BY <1>2 DEF CoverInv, Forgotten
<1>4. /\ \A d \in Children : /\ child'[d].handled = child[d].handled
                             /\ child[d].turn # "none" => child'[d].turn # "none"
                             /\ child[d].late => child'[d].late
      /\ UNCHANGED wake /\ UNCHANGED lead /\ UNCHANGED inflight
  BY <1>1, <1>2 DEF Start, ChildStates
<1>5. CASE m = "immediate"
  BY <1>3, <1>4, <1>5, OtherCover DEF Start
<1>6. CASE m = "after_all"
  <2>1. PICK g \in Children :
          /\ g = c \/ activeGroup = g
          /\ g = activeGroup \/ activeGroup = None
          /\ activeGroup' = g
          /\ \A h \in Children : h # g => group'[h].members = group[h].members
          /\ group'[g].members = group[g].members \union {c}
    <3>1. JoinGroup(c)
      BY <1>6 DEF Start
    <3>2. CASE activeGroup = None
      <4>1. group[c].members = {}
        BY <1>2 DEF CoverInv
      <4>2. /\ group' = [group EXCEPT ![c].members = {c}] /\ activeGroup' = c
        BY <3>1, <3>2 DEF JoinGroup
      <4>3. /\ group'[c].members = {c}
            /\ \A h \in Children : h # c => group'[h].members = group[h].members
        BY <4>2 DEF TypeOK, GroupTypeOK
      <4> QED BY <3>2, <4>1, <4>2, <4>3
    <3>3. CASE activeGroup # None
      <4>1. /\ activeGroup \in Children /\ activeGroup' = activeGroup
            /\ group' = [group EXCEPT ![activeGroup].members = @ \union {c}]
        BY <3>1, <3>3 DEF JoinGroup, TypeOK, GroupTypeOK
      <4>2. /\ group'[activeGroup].members = group[activeGroup].members \union {c}
            /\ \A h \in Children : h # activeGroup => group'[h].members = group[h].members
        BY <4>1 DEF TypeOK, GroupTypeOK
      <4> QED BY <4>1, <4>2
    <3> QED BY <3>2, <3>3
  <2>2. child'[g].turn # "none"
    BY <1>2, <1>4, <2>1 DEF CoverInv
  <2>3. \A e \in Children : wake[e].group = g => child'[c].late
    <3> SUFFICES ASSUME NEW e \in Children, wake[e].group = g PROVE child'[c].late
      OBVIOUS
    <3>1. g # c
      BY <1>2 DEF CoverInv
    <3>2. activeGroup = g /\ activeGroup # None
      BY <2>1, <3>1, ConstantsAssumption
    <3> QED BY <1>2, <1>6, <3>2 DEF JoinsLate
  <2>4. \A e, h \in Children : wake'[e].group = h =>
          /\ \A d \in group'[h].members : d \in wake'[e].covers \/ child'[d].late
          /\ child'[h].turn # "none"
    <3>1. \A h \in Children : group[h].members \subseteq Children
      BY DEF TypeOK, GroupTypeOK
    <3> QED BY <1>4, <2>1, <2>3, <3>1 DEF CoverInv
  <2>5. \A h \in Children :
          group'[h].members # {} \/ activeGroup' = h => child'[h].turn # "none"
    BY <1>4, <2>1, <2>2 DEF CoverInv
  <2>6. CoverInv'
    BY <1>3, <1>4, <2>4, <2>5 DEF CoverInv
  <2>7. \A d \in Children : GroupsOf(d) \subseteq GroupsOf(d)'
    BY <2>1 DEF GroupsOf
  <2>8. HandledTold'
    BY <1>4, <2>7 DEF HandledTold, ToldOrWaiting
  <2> QED BY <2>6, <2>8
<1> QED
  BY <1>5, <1>6

(* Finalize, as far as groups and deliveries are concerned. *)
LEMMA FinalizeGroups ==
  ASSUME TypeOK, NEW c \in Children, NEW ch \in [Children -> ChildStates], Finalize(c, ch)
  PROVE  /\ \A g \in Children : group'[g].members = group[g].members
         /\ wake'[c] # wake[c] =>
              /\ c \in wake'[c].covers
              /\ \A g \in Children : wake'[c].group = g =>
                   c \in group[g].members /\ wake'[c].covers = group[g].members
         /\ child'[c] # ch[c] => GroupsOf(c) # {}
<1>1. \A g \in Children : group'[g].members = group[g].members
  BY DEF Finalize, TypeOK, GroupTypeOK
<1>2. \/ wake' = wake
      \/ wake' = [wake EXCEPT ![c] = [stage |-> "due", group |-> None, covers |-> {c}]]
      \/ \E g \in GroupsOf(c) :
           wake' = [wake EXCEPT ![c] =
                      [stage |-> "due", group |-> g, covers |-> group[g].members]]
  BY DEF Finalize
<1>3. \A g \in GroupsOf(c) : g \in Children /\ c \in group[g].members
  BY DEF GroupsOf
<1>4. None \notin Children
  BY ConstantsAssumption
<1>5. wake'[c] # wake[c] =>
        /\ c \in wake'[c].covers
        /\ \A g \in Children : wake'[c].group = g =>
             c \in group[g].members /\ wake'[c].covers = group[g].members
  BY <1>2, <1>3, <1>4 DEF TypeOK, WakeTypeOK
<1>6. child'[c] # ch[c] => GroupsOf(c) # {}
  BY DEF Finalize
<1> QED
  BY <1>1, <1>5, <1>6

LEMMA CompletionCover ==
  ASSUME TypeOK, CoverInv, HandledTold, NEW c \in Children, NEW ch, Touched(c, ch),
         Finalize(c, ch), UNCHANGED <<lead, activeGroup, inflight>>
  PROVE  CoverInv' /\ HandledTold'
<1>0. ch \in [Children -> ChildStates] /\ ch[c] \in ChildStates
  BY DEF Touched
<1>1. \A d \in Children : d # c => child'[d] = child[d] /\ wake'[d] = wake[d]
  <2>1. \A d \in Children : d # c => child'[d] = ch[d] /\ wake'[d] = wake[d]
    BY <1>0, FinalizeFrame
  <2> QED BY <2>1 DEF Touched
<1>2. child'[c] = ch[c] \/ child'[c] = [ch[c] EXCEPT !.handled = TRUE]
  BY <1>0, FinalizeFrame
<1>3. wake'[c] # wake[c] => wake[c] = NoWake
  BY <1>0, FinalizeFrame
<1>4. /\ \A g \in Children : group'[g].members = group[g].members
      /\ wake'[c] # wake[c] =>
           /\ c \in wake'[c].covers
           /\ \A g \in Children : wake'[c].group = g =>
                c \in group[g].members /\ wake'[c].covers = group[g].members
      /\ child'[c] # ch[c] => GroupsOf(c) # {}
  BY <1>0, FinalizeGroups
<1>5. /\ child'[c].late = child[c].late /\ child'[c].known = child[c].known
      /\ child'[c].turn # "none" <=> child[c].turn # "none"
  BY <1>0, <1>2 DEF Touched, ChildStates
<1>6. child'[c].handled => child[c].handled \/ GroupsOf(c) # {}
  <2>1. CASE child'[c] = ch[c]
    BY <2>1 DEF Touched
  <2> QED BY <1>4, <2>1
<1>7. \A d \in Children : GroupsOf(d)' = GroupsOf(d)
  BY <1>4 DEF GroupsOf
<1>8. HandledTold'
  BY <1>1, <1>5, <1>6, <1>7 DEF HandledTold, ToldOrWaiting
<1>9. \A e \in Children : wake'[e] # NoWake => e \in wake'[e].covers
  BY <1>1, <1>4 DEF CoverInv
<1>10. \A e, g \in Children : wake'[e].group = g =>
         /\ \A d \in group'[g].members : d \in wake'[e].covers \/ child'[d].late
         /\ child'[g].turn # "none"
  <2>1. \A g \in Children : group[g].members \subseteq Children
    BY DEF TypeOK, GroupTypeOK
  <2>2. ASSUME NEW e \in Children, NEW g \in Children, wake'[e].group = g,
               wake'[e] # wake[e]
        PROVE  /\ \A d \in group'[g].members : d \in wake'[e].covers
               /\ child'[g].turn # "none"
    <3>1. e = c
      BY <1>1, <2>2
    <3>2. c \in group[g].members /\ wake'[c].covers = group[g].members
      BY <1>4, <2>2, <3>1
    <3>3. child[g].turn # "none"
      BY <3>2 DEF CoverInv
    <3> QED BY <1>1, <1>4, <1>5, <3>1, <3>2, <3>3
  <2>3. ASSUME NEW e \in Children, NEW g \in Children, wake'[e].group = g,
               wake'[e] = wake[e]
        PROVE  /\ \A d \in group'[g].members : d \in wake'[e].covers \/ child'[d].late
               /\ child'[g].turn # "none"
    BY <1>1, <1>4, <1>5, <2>1, <2>3 DEF CoverInv
  <2> QED BY <2>2, <2>3
<1>11. \A d \in inflight' : wake'[d].stage = "sent"
  <2>1. \A d \in inflight : d \in Children /\ wake[d].stage = "sent" /\ wake[d] # NoWake
    BY DEF TypeOK, WakeTypeOK, CoverInv, NoWake
  <2> QED BY <1>1, <1>3, <2>1
<1>12. \A g \in Children : group'[g].members # {} \/ activeGroup' = g => child'[g].turn # "none"
  BY <1>1, <1>4, <1>5 DEF CoverInv
<1>13. Forgotten' = {}
  BY <1>1, <1>5 DEF CoverInv, Forgotten
<1> QED
  BY <1>8, <1>9, <1>10, <1>11, <1>12, <1>13 DEF CoverInv

(* The delivery itself. *)
LEMMA DispatchCover ==
  ASSUME TypeOK, CoverInv, HandledTold, NEW c \in Children, Dispatch(c)
  PROVE  CoverInv' /\ HandledTold'
<1>1. /\ wake[c] # NoWake
      /\ wake'[c].stage = "sent"
      /\ \A d \in Children : /\ wake'[d].group = wake[d].group
                             /\ wake'[d].covers = wake[d].covers
                             /\ d # c => wake'[d] = wake[d]
  BY DEF Dispatch, NoWake, TypeOK, WakeTypeOK
<1>2. /\ UNCHANGED child /\ UNCHANGED group /\ UNCHANGED activeGroup /\ UNCHANGED lead
      /\ inflight' = inflight \union {c}
  BY DEF Dispatch
<1>3. \A d \in Children : GroupsOf(d)' = GroupsOf(d)
  BY <1>2 DEF GroupsOf
<1>4. HandledTold'
  BY <1>2, <1>3 DEF HandledTold, ToldOrWaiting
<1>5. Forgotten' = {}
  BY <1>2 DEF Forgotten, CoverInv
<1>6. \A d \in inflight' : wake'[d].stage = "sent"
  BY <1>1, <1>2 DEF CoverInv, TypeOK, WakeTypeOK
<1>7. \A e, g \in Children : wake'[e].group = g =>
        /\ \A d \in group'[g].members : d \in wake'[e].covers \/ child'[d].late
        /\ child'[g].turn # "none"
  BY <1>1, <1>2 DEF CoverInv
<1>8. \A e \in Children : wake'[e] # NoWake => e \in wake'[e].covers
  BY <1>1 DEF CoverInv
<1> QED
  BY <1>2, <1>4, <1>5, <1>6, <1>7, <1>8 DEF CoverInv

LEMMA DeliveredCover ==
  ASSUME TypeOK, CoverInv, HandledTold, NEW c \in Children, Delivered(c)
  PROVE  CoverInv' /\ HandledTold'
<1>0. \A d \in Children : child[d] \in ChildStates /\ group[d].members \subseteq Children
  BY DEF TypeOK, ChildTypeOK, GroupTypeOK
<1>1. wake[c] # NoWake /\ c \in wake[c].covers
  BY DEF Delivered, NoWake, CoverInv
<1>2. /\ \A d \in Children : /\ child'[d].late = child[d].late
                             /\ child'[d].known = child[d].known
                             /\ child'[d].turn = child[d].turn
                             /\ d # c => child'[d] = child[d] /\ wake'[d] = wake[d]
      /\ wake'[c] = NoWake /\ inflight' = inflight \ {c}
  BY <1>0 DEF Delivered, Woken, TypeOK, ChildTypeOK, WakeTypeOK, ChildStates
<1>3. \A d \in Children : lead'[d].told <=> lead[d].told \/ d \in wake[c].covers
  BY DEF Delivered, Tell
<1>4. /\ \A g \in Children : g # wake[c].group => group'[g] = group[g]
      /\ \A g \in Children : g = wake[c].group => group'[g].members = {}
      /\ activeGroup' \in {activeGroup, None}
  <2>1. CASE wake[c].group = None
    BY <2>1, ConstantsAssumption DEF Delivered, Woken
  <2>2. CASE wake[c].group # None
    <3>1. /\ wake[c].group \in Children
          /\ group' = [group EXCEPT ![wake[c].group] = NoGroup] /\ activeGroup' = None
      BY <2>2 DEF Delivered, Woken, TypeOK, WakeTypeOK
    <3> QED BY <3>1 DEF NoGroup, TypeOK, GroupTypeOK
  <2> QED BY <2>1, <2>2
<1>5. \A g \in Children : group'[g].members \subseteq group[g].members
  BY <1>4
<1>6. HandledTold'
  <2> SUFFICES ASSUME NEW d \in Children, child'[d].handled, ~child'[d].late
               PROVE  ToldOrWaiting(d)'
    BY DEF HandledTold
  <2>1. CASE d \in wake[c].covers
    BY <1>3, <2>1 DEF ToldOrWaiting
  <2>2. CASE d \notin wake[c].covers
    <3>1. d # c /\ child[d].handled /\ ~child[d].late
      BY <1>1, <1>2, <2>2
    <3>2. lead[d].told \/ GroupsOf(d) # {}
      BY <3>1 DEF HandledTold, ToldOrWaiting
    <3>3. \A g \in GroupsOf(d) : g \in Children /\ d \in group[g].members
      BY DEF GroupsOf
    <3>4. \A g \in GroupsOf(d) : g # wake[c].group
      BY <2>2, <3>1, <3>3 DEF CoverInv
    <3>5. \A g \in GroupsOf(d) : g \in GroupsOf(d)'
      BY <1>4, <3>3, <3>4 DEF GroupsOf
    <3> QED BY <1>3, <3>2, <3>5 DEF ToldOrWaiting
  <2> QED BY <2>1, <2>2
<1>7. \A e, g \in Children : wake'[e].group = g =>
        /\ \A d \in group'[g].members : d \in wake'[e].covers \/ child'[d].late
        /\ child'[g].turn # "none"
  <2>1. NoWake.group = None /\ None \notin Children
    BY ConstantsAssumption DEF NoWake
  <2> QED BY <1>0, <1>2, <1>5, <2>1 DEF CoverInv
<1>8. /\ \A e \in Children : wake'[e] # NoWake => e \in wake'[e].covers
      /\ \A d \in inflight' : wake'[d].stage = "sent"
  BY <1>2 DEF CoverInv, TypeOK, WakeTypeOK
<1>9. \A g \in Children : group'[g].members # {} \/ activeGroup' = g => child'[g].turn # "none"
  BY <1>2, <1>4, <1>5, ConstantsAssumption DEF CoverInv
<1>10. Forgotten' = {}
  BY <1>2 DEF Forgotten, CoverInv
<1> QED
  BY <1>6, <1>7, <1>8, <1>9, <1>10 DEF CoverInv

LEMMA NextCover ==
  ASSUME TypeOK, CoverInv, HandledTold, [Next]_vars, Undisturbed, Undisturbed'
  PROVE  CoverInv' /\ HandledTold'
<1>1. CASE UNCHANGED vars
  BY <1>1 DEF vars, CoverInv, HandledTold, ToldOrWaiting, GroupsOf, Forgotten
<1>2. ASSUME NEW c \in Children,
             \/ \E s \in Reports : Report(c, s)
             \/ SessionEndFires(c)
             \/ \E m \in {"idle", "complete"} : AutoReport(c, m)
      PROVE  CoverInv' /\ HandledTold'
  <2>1. \E ch : Touched(c, ch) /\ Finalize(c, ch)
    BY <1>2, ReportTouched, TimerTouched, AutoTouched
  <2>2. UNCHANGED <<lead, activeGroup, inflight>>
    BY <1>2 DEF Report, SessionEndFires, AutoReport
  <2> QED BY <2>1, <2>2, CompletionCover
<1>3. ASSUME NEW c \in Children,
             \/ Delegate(c) \/ TurnEnds(c) \/ Resume(c)
             \/ \E m \in {"idle", "complete"} : SkipAutoReport(c, m)
             \/ MarkerExpires(c)
      PROVE  CoverInv' /\ HandledTold'
  <2>1. /\ \A d \in Children :
             /\ child'[d].handled = child[d].handled
             /\ child[d].turn # "none" => child'[d].turn # "none"
             /\ d # c => child'[d] = child[d]
        /\ child[c].known => child'[c].known
        /\ UNCHANGED wake /\ UNCHANGED lead
    BY <1>3, Unhandled
  <2>2. UNCHANGED <<group, activeGroup>> /\ inflight' \subseteq inflight
    BY <1>3 DEF Delegate, TurnEnds, Resume, SkipAutoReport, MarkerExpires
  <2>3. /\ child'[c].late = child[c].late
        /\ child'[c].turn # "none" => child[c].turn # "none"
    BY <1>3 DEF Delegate, TurnEnds, Running, Resume, SkipAutoReport, MarkerExpires, TypeOK,
                ChildTypeOK, ChildStates
  <2>4. Forgotten' = {}
    BY <2>1, <2>3 DEF CoverInv, Forgotten
  <2> QED BY <2>1, <2>2, <2>3, <2>4, OtherCover
<1>4. ASSUME NEW c \in Children, Duplicate(c)
      PROVE  FALSE
  <2>1. wake[c].stage = "due" /\ c \in inflight
    BY <1>4 DEF Duplicate
  <2>2. wake[c].stage = "sent"
    BY <2>1 DEF CoverInv
  <2> QED BY <2>1, <2>2
<1>5. CASE Restore
  BY <1>5 DEF Restore, CoverInv
<1>6. CASE Crash
  <2>1. crashes' = crashes + 1
    BY <1>6 DEF Crash
  <2> QED BY <2>1 DEF Undisturbed
<1> QED
  BY <1>1, <1>2, <1>3, <1>4, <1>5, <1>6, StartCover, DispatchCover, DeliveredCover,
     Disturbed DEF Next

(* A completion taken as handled is one the Lead was told of, or its group is *)
(* still open, unless something failed, the server restarted or the child     *)
(* joined its group late: for any number of children and groups.              *)
THEOREM HandledIsToldCorrect == Spec => []HandledIsTold
<1> DEFINE Inv == Undisturbed => CoverInv /\ HandledTold
<1>1. Init => Inv
  BY ConstantsAssumption
     DEF Init, CoverInv, HandledTold, NewChild, NoGroup, NoWake, Forgotten
<1>2. TypeOK /\ Inv /\ [Next]_vars => Inv'
  BY NextCover, StillUndisturbed
<1>3. Inv => HandledIsTold
  BY DEF HandledTold, HandledIsTold
<1> QED
  BY <1>1, <1>2, <1>3, TypeCorrect, PTL DEF Spec

-----------------------------------------------------------------------------
(* Groups.  No step takes the session of a child back. *)
LEMMA StartedStays ==
  ASSUME TypeOK, [Next]_vars
  PROVE  \A d \in Children : child[d].turn # "none" => child'[d].turn # "none"
<1>1. CASE UNCHANGED vars
  BY <1>1 DEF vars
<1>2. ASSUME NEW c \in Children, Delegate(c) \/ \E m \in {"immediate", "after_all"} : Start(c, m)
      PROVE  \A d \in Children : child[d].turn # "none" => child'[d].turn # "none"
  BY <1>2, Unhandled
<1> QED
  BY <1>1, <1>2, CompletionsQuiet, OthersQuiet, RestartQuiet DEF Quiet, Next

LEMMA FailuresRemain ==
  ASSUME TypeOK, [Next]_vars, failures' = 0
  PROVE  failures = 0
<1>1. failures \in Nat
  BY DEF TypeOK, LeadTypeOK
<1>2. UNCHANGED failures \/ failures' = failures + 1
  BY DEF vars, Next, Delegate, SpawnFails, PromptFails, Start, Report, TurnEnds,
         TurnFails, SessionEndFires, AutoReport, SkipAutoReport, Dispatch, Delivered,
         ReceiptFails, Duplicate, DeliveryFails, MarkerExpires, Resume, Crash, Restore,
         Fail
<1> QED
  BY <1>1, <1>2

(* A step that leaves the groups alone, and every wake that reports one. *)
LEMMA SameGroups ==
  ASSUME TypeOK, GroupInv, [Next]_vars, UNCHANGED <<group, activeGroup>>,
         failures' = 0 => \A c \in Children : wake'[c].group = wake[c].group
  PROVE  GroupInv'
<1>1. \A g \in Children : group[g].members \subseteq Children
  BY DEF TypeOK, GroupTypeOK
<1>2. \A g \in Children :
        /\ group'[g].members # {} => child'[g].turn # "none"
        /\ \A c \in group'[g].members : child'[c].turn # "none"
  BY <1>1, StartedStays DEF GroupInv
<1>3. \A g \in Children :
        group'[g].members # {} /\ group'[g].done = group'[g].members /\ failures' = 0
          => \E c \in group'[g].members : wake'[c].group = g
  BY <1>1, FailuresRemain DEF GroupInv
<1> QED
  BY <1>2, <1>3 DEF GroupInv

(* A new member: it was in no group, and its group has somebody to wait for again. *)
LEMMA StartGroups ==
  ASSUME TypeOK, GroupInv, NEW c \in Children, NEW m \in {"immediate", "after_all"},
         Start(c, m)
  PROVE  GroupInv'
<1>0. [Next]_vars
  BY DEF Next
<1>1. CASE m = "immediate"
  BY <1>0, <1>1, SameGroups DEF Start
<1>2. CASE m = "after_all"
  <2>0. /\ group \in [Children -> [members : SUBSET Children, done : SUBSET Children]]
        /\ activeGroup \in Children \cup {None}
    BY DEF TypeOK, GroupTypeOK
  <2>1. child[c].turn = "none" /\ child'[c].turn = "first"
    BY DEF Start, TypeOK, ChildTypeOK, ChildrenAgree, NewChild
  <2>2. \A d \in Children : child[d].turn # "none" => child'[d].turn # "none"
    BY <1>0, StartedStays
  <2>3. \A g \in Children : c \notin group[g].members /\ c \notin group[g].done
    BY <2>0, <2>1 DEF GroupInv
  <2>4. group[c].members = {} /\ group[c].done = {}
    BY <2>1 DEF GroupInv
  <2>5. PICK a \in Children :
          /\ group' = [group EXCEPT ![a].members = group[a].members \cup {c}]
          /\ activeGroup' = a
          /\ child'[a].turn # "none"
    <3>1. JoinGroup(c)
      BY <1>2 DEF Start
    <3>2. CASE activeGroup = None
      <4>1. group' = [group EXCEPT ![c].members = group[c].members \cup {c}]
        BY <2>4, <3>1, <3>2 DEF JoinGroup
      <4> QED BY <2>1, <3>1, <3>2, <4>1 DEF JoinGroup
    <3>3. CASE activeGroup # None
      <4>1. activeGroup \in Children /\ child[activeGroup].turn # "none"
        BY <2>0, <3>3 DEF GroupInv
      <4> QED BY <2>2, <3>1, <3>3, <4>1 DEF JoinGroup
    <3> QED BY <3>2, <3>3
  <2>6. /\ \A g \in Children : g # a => group'[g] = group[g]
        /\ group'[a].members = group[a].members \cup {c}
        /\ group'[a].done = group[a].done
    BY <2>0, <2>5
  <2>7. group'[a].done # group'[a].members
    BY <2>3, <2>6
  <2>8. UNCHANGED wake /\ UNCHANGED failures
    BY DEF Start
  <2>9. \A g \in Children : IsFiniteSet(group'[g].members)
    <3>1. IsFiniteSet(group[a].members \cup {c})
      BY FS_AddElement DEF GroupInv
    <3> QED BY <2>6, <3>1 DEF GroupInv
  <2>10. \A g \in Children :
           /\ group'[g].done \subseteq group'[g].members
           /\ group'[g].members # {} => child'[g].turn # "none"
           /\ \A d \in group'[g].members : child'[d].turn # "none"
    BY <2>0, <2>1, <2>2, <2>5, <2>6 DEF GroupInv
  <2>11. ASSUME NEW g \in Children, group'[g].members # {},
                group'[g].done = group'[g].members, failures' = 0
         PROVE  \E d \in group'[g].members : wake'[d].group = g
    BY <2>6, <2>7, <2>8, <2>11 DEF GroupInv
  <2>12. \A d, g, h \in Children :
           d \in group'[g].members \cap group'[h].members => g = h
    BY <2>3, <2>6 DEF GroupInv
  <2>13. group'[activeGroup'].members # {}
    BY <2>5, <2>6
  <2> QED BY <2>9, <2>10, <2>11, <2>12, <2>13 DEF GroupInv
<1> QED
  BY <1>1, <1>2

(* The end of a child: the last of a group sets out to wake the Lead. *)
LEMMA CompletionGroups ==
  ASSUME TypeOK, GroupInv, [Next]_vars, NEW c \in Children, NEW ch, Touched(c, ch),
         Finalize(c, ch), UNCHANGED activeGroup
  PROVE  GroupInv'
<1>0. /\ ch \in [Children -> ChildStates]
      /\ group \in [Children -> [members : SUBSET Children, done : SUBSET Children]]
      /\ wake \in [Children -> [stage : {"none", "due", "sent"}, group : Children \cup {None},
                                covers : SUBSET Children]]
  BY DEF Touched, TypeOK, GroupTypeOK, WakeTypeOK
<1>1. CASE UNCHANGED <<group, wake>>
  BY <1>1, SameGroups
<1>2. CASE /\ wake[c] = NoWake /\ UNCHANGED group
           /\ wake' = [wake EXCEPT ![c] = [stage |-> "due", group |-> None, covers |-> {c}]]
  <2>1. \A d \in Children : wake'[d].group = wake[d].group
    BY <1>0, <1>2 DEF NoWake
  <2> QED BY <1>2, <2>1, SameGroups
<1>3. ASSUME NEW g \in GroupsOf(c), wake[c] = NoWake,
             group' = [group EXCEPT ![g].done = group[g].done \cup {c}],
             IF AllDone(g)
             THEN wake' = [wake EXCEPT
                             ![c] = [stage |-> "due", group |-> g, covers |-> group[g].members]]
             ELSE UNCHANGED wake
      PROVE  GroupInv'
  <2>1. g \in Children /\ c \in group[g].members
    BY DEF GroupsOf
  <2>2. /\ \A h \in Children : group'[h].members = group[h].members
        /\ \A h \in Children : h # g => group'[h] = group[h]
        /\ group'[g].done = group[g].done \cup {c}
    BY <1>0, <1>3, <2>1
  <2>3. \A d \in Children, h \in Children : h # g /\ wake[d].group = h => wake'[d].group = h
    <3>1. NoWake.group \notin Children
      BY ConstantsAssumption DEF NoWake
    <3> QED BY <1>0, <1>3, <3>1
  <2>4. ASSUME group'[g].done = group'[g].members
        PROVE  wake'[c].group = g
    <3>1. Cardinality(group[g].members) \in Nat
      BY <2>1, FS_CardinalityType DEF GroupInv
    <3>2. AllDone(g)
      BY <2>1, <2>2, <2>4, <3>1 DEF AllDone
    <3> QED BY <1>0, <1>3, <3>2
  <2>5. \A h \in Children : group[h].members \subseteq Children
    BY <1>0
  <2>6. ASSUME NEW h \in Children, group'[h].members # {},
               group'[h].done = group'[h].members, failures' = 0
        PROVE  \E d \in group'[h].members : wake'[d].group = h
    <3>1. CASE h = g
      BY <2>1, <2>2, <2>4, <2>6, <3>1
    <3>2. CASE h # g
      <4>1. group[h].members # {} /\ group[h].done = group[h].members /\ failures = 0
        BY <2>2, <2>6, <3>2, FailuresRemain
      <4>2. PICK d \in group[h].members : wake[d].group = h
        BY <4>1 DEF GroupInv
      <4> QED BY <2>2, <2>3, <2>5, <3>2, <4>2
    <3> QED BY <3>1, <3>2
  <2>7. \A h \in Children :
          /\ group'[h].done \subseteq group'[h].members
          /\ IsFiniteSet(group'[h].members)
          /\ group'[h].members # {} => child'[h].turn # "none"
          /\ \A d \in group'[h].members : child'[d].turn # "none"
    <3>1. \A h \in Children : group'[h].done \subseteq group'[h].members
      BY <2>1, <2>2 DEF GroupInv
    <3> QED BY <2>2, <2>5, <3>1, StartedStays DEF GroupInv
  <2>8. activeGroup' # None => group'[activeGroup'].members # {}
    BY <2>2 DEF GroupInv, TypeOK, GroupTypeOK
  <2>9. \A d, h, i \in Children : d \in group'[h].members \cap group'[i].members => h = i
    BY <2>2 DEF GroupInv
  <2> QED BY <2>6, <2>7, <2>8, <2>9 DEF GroupInv
<1> QED
  BY <1>1, <1>2, <1>3 DEF Finalize

(* The Lead is through with a report: its group is gone, the others have their wakes. *)
LEMMA WokenGroups ==
  ASSUME TypeOK, GroupInv, [Next]_vars, NEW c \in Children, Woken(c)
  PROVE  GroupInv'
<1>0. /\ group \in [Children -> [members : SUBSET Children, done : SUBSET Children]]
      /\ wake \in [Children -> [stage : {"none", "due", "sent"}, group : Children \cup {None},
                                covers : SUBSET Children]]
      /\ None \notin Children
  BY ConstantsAssumption DEF TypeOK, GroupTypeOK, WakeTypeOK
<1>1. \A d \in Children : d # c => wake'[d] = wake[d]
  BY <1>0 DEF Woken
<1>2. /\ \A g \in Children : g # wake[c].group => group'[g] = group[g]
      /\ \A g \in Children : g = wake[c].group => group'[g] = NoGroup
      /\ UNCHANGED <<group, activeGroup>> \/ activeGroup' = None
  BY <1>0 DEF Woken
<1>3. \A g \in Children :
        /\ IsFiniteSet(group'[g].members)
        /\ group'[g].done \subseteq group'[g].members
        /\ group'[g].members \subseteq group[g].members
  <2>1. ASSUME NEW g \in Children, g = wake[c].group
        PROVE  group'[g].members = {} /\ group'[g].done = {}
    BY <1>2, <2>1 DEF NoGroup
  <2>2. ASSUME NEW g \in Children, g # wake[c].group
        PROVE  /\ group'[g] = group[g]
               /\ IsFiniteSet(group[g].members) /\ group[g].done \subseteq group[g].members
    BY <1>2, <2>2 DEF GroupInv
  <2> QED BY <2>1, <2>2, FS_EmptySet
<1>4. \A g \in Children :
        /\ group'[g].members # {} => child'[g].turn # "none"
        /\ \A d \in group'[g].members : child'[d].turn # "none"
  BY <1>0, <1>3, StartedStays DEF GroupInv
<1>5. ASSUME NEW g \in Children, group'[g].members # {},
             group'[g].done = group'[g].members, failures' = 0
      PROVE  \E d \in group'[g].members : wake'[d].group = g
  <2>1. g # wake[c].group /\ group'[g] = group[g]
    BY <1>2, <1>5 DEF NoGroup
  <2>2. PICK d \in group[g].members : wake[d].group = g
    BY <1>5, <2>1, FailuresRemain DEF GroupInv
  <2> QED BY <1>0, <1>1, <2>1, <2>2
<1>6. activeGroup' # None => group'[activeGroup'].members # {}
  BY <1>2 DEF GroupInv
<1>7. \A d, g, h \in Children : d \in group'[g].members \cap group'[h].members => g = h
  BY <1>3 DEF GroupInv
<1> QED
  BY <1>3, <1>4, <1>5, <1>6, <1>7 DEF GroupInv

LEMMA NextGroups ==
  ASSUME TypeOK, GroupInv, [Next]_vars
  PROVE  GroupInv'
<1>1. CASE UNCHANGED vars
  BY <1>1, SameGroups DEF vars
<1>2. ASSUME NEW c \in Children,
             \/ Delegate(c) \/ SpawnFails(c) \/ PromptFails(c) \/ TurnEnds(c) \/ Resume(c)
             \/ \E m \in {"idle", "complete"} : SkipAutoReport(c, m)
             \/ MarkerExpires(c)
      PROVE  GroupInv'
  <2>1. UNCHANGED <<group, activeGroup>>
    BY <1>2 DEF Delegate, SpawnFails, PromptFails, TurnEnds, Resume, SkipAutoReport, MarkerExpires
  <2>2. UNCHANGED wake
    BY <1>2, Unhandled
  <2> QED BY <2>1, <2>2, SameGroups
<1>3. ASSUME NEW c \in Children,
             \/ \E s \in Reports : Report(c, s)
             \/ TurnFails(c) \/ SessionEndFires(c)
             \/ \E m \in {"idle", "complete"} : AutoReport(c, m)
      PROVE  GroupInv'
  <2>1. \E ch : Touched(c, ch) /\ Finalize(c, ch)
    BY <1>3, ReportTouched, FailureTouched, TimerTouched, AutoTouched
  <2>2. UNCHANGED activeGroup
    BY <1>3 DEF Report, TurnFails, SessionEndFires, AutoReport
  <2> QED BY <2>1, <2>2, CompletionGroups
<1>4. ASSUME NEW c \in Children, Dispatch(c)
      PROVE  GroupInv'
  <2>1. \A d \in Children : wake'[d].group = wake[d].group
    BY <1>4 DEF Dispatch, TypeOK, WakeTypeOK
  <2> QED BY <1>4, <2>1, SameGroups DEF Dispatch
<1>5. ASSUME NEW c \in Children, Delivered(c) \/ ReceiptFails(c) \/ Duplicate(c)
      PROVE  GroupInv'
  BY <1>5, WokenGroups DEF Delivered, ReceiptFails, Duplicate
<1>6. ASSUME NEW c \in Children, DeliveryFails(c)
      PROVE  GroupInv'
  <2>1. failures' # 0
    BY <1>6 DEF DeliveryFails, Fail, TypeOK, LeadTypeOK
  <2> QED BY <1>6, <2>1, SameGroups DEF DeliveryFails
<1>7. CASE Restore
  BY <1>7, SameGroups DEF Restore
<1>8. CASE Crash
  BY <1>8, FS_EmptySet DEF Crash, GroupInv, NoGroup
<1> QED
  BY <1>1, <1>2, <1>3, <1>4, <1>5, <1>6, <1>7, <1>8, StartGroups DEF Next

(* The maps of groups agree, for any number of children, groups at a time, failures *)
(* and crashes: no child is in two groups, and no group is left with all of its     *)
(* members done and nobody to wake the Lead, unless something failed.               *)
THEOREM GroupsAgreeCorrect == Spec => []GroupsAgree
<1>1. Init => GroupInv
  BY FS_EmptySet DEF Init, GroupInv, NoGroup
<1>2. TypeOK /\ GroupInv /\ [Next]_vars => GroupInv'
  BY NextGroups
<1>3. ASSUME GroupInv
      PROVE  GroupsAgree
  <2>1. ASSUME NEW c \in Children
        PROVE  Cardinality(GroupsOf(c)) <= 1
    <3>1. CASE GroupsOf(c) = {}
      BY <3>1, FS_EmptySet
    <3>2. CASE GroupsOf(c) # {}
      <4>1. PICK g : g \in GroupsOf(c)
        BY <3>2
      <4>2. GroupsOf(c) = {g}
        BY <1>3, <4>1 DEF GroupsOf, GroupInv
      <4> QED BY <4>2, FS_Singleton
    <3> QED BY <3>1, <3>2
  <2> QED BY <1>3, <2>1 DEF GroupInv, GroupsAgree
<1> QED
  BY <1>1, <1>2, <1>3, TypeCorrect, PTL DEF Spec
=============================================================================
