-------------------------- MODULE MCKanbanWorkflow --------------------------
EXTENDS KanbanWorkflow

(* Lanes of two steps, but for the last column. *)
TwoThenOne == [k \in Column |-> IF k = LastColumn THEN 1 ELSE 2]

OneEach == [k \in Column |-> 1]
=============================================================================
