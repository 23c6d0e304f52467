----------------------------- MODULE MCSessions -----------------------------
(* Two branches and two session names.  A behaviour has one of a few       *)
(* budgets: each lets in the combination of faults its line names.         *)
EXTENDS Sessions, TLC
CONSTANTS none, trunk, feat, x, y, t1, t2

MCNames == <<x, y>>

B(types, verbs, frees, drops, rounds, undos, redos, kills, gits) ==
  [types |-> types, verbs |-> verbs, frees |-> frees, drops |-> drops, rounds |-> rounds, undos |-> undos,
   redos |-> redos, kills |-> kills, gits |-> gits, steps |-> 2]

MCBudgets ==
  {B(1, 4, 0, 0, 1, 1, 1, 0, 0),   \* a session resolved in two rounds, undone and redone
   B(1, 3, 1, 1, 1, 1, 1, 0, 0),   \* abandons and releases, undone and redone
   B(1, 3, 0, 1, 0, 0, 0, 1, 0),   \* a kill
   B(1, 2, 0, 1, 0, 1, 1, 1, 0),   \* a kill among undos
   B(1, 3, 0, 1, 0, 0, 0, 0, 1),   \* git's own moves
   B(1, 2, 0, 1, 0, 0, 0, 1, 1),   \* git's moves and a kill
   B(1, 3, 0, 0, 0, 1, 1, 0, 1),   \* git's moves, undone and redone
   B(1, 2, 0, 1, 0, 1, 1, 0, 1),   \* git's moves and an abandon, undone and redone
   B(2, 5, 0, 0, 0, 0, 0, 0, 0)}   \* a held branch gone back to and typed on

=============================================================================
