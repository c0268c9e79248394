------------------------ MODULE MCKanbanSessionQueue ------------------------
(* Values for checking KanbanSessionQueue: cards, calls and drains are       *)
(* interchangeable.                                                          *)
EXTENDS KanbanSessionQueue, TLC

Interchangeable ==
  Permutations(Card) \union Permutations(Call) \union Permutations(Drain)
=============================================================================
