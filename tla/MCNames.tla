------------------------------ MODULE MCNames ------------------------------
(* A branch the repository starts on, a name fufu made up and a name to    *)
(* give.  A behaviour has one of a few budgets.                            *)
EXTENDS Names, TLC
CONSTANTS none, main, petname, name

B(types, verbs, undos, kills, gits) ==
  [types |-> types, verbs |-> verbs, undos |-> undos, kills |-> kills, gits |-> gits]

MCBudgets ==
  {B(2, 4, 0, 0, 1), B(2, 4, 2, 0, 0), B(1, 3, 2, 0, 1), B(1, 3, 1, 1, 0), B(2, 3, 0, 1, 0)}
=============================================================================
