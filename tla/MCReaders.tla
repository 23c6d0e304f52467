------------------------------ MODULE MCReaders ------------------------------
(* A behaviour has one of a few budgets.                                   *)
EXTENDS Readers, TLC

B(appends, moves, trims, rebuilds, ticks, kills) ==
  [appends |-> appends, moves |-> moves, trims |-> trims,
   rebuilds |-> rebuilds, ticks |-> ticks, kills |-> kills]

MCBudgets == {B(3, 2, 0, 1, 2, 1), B(2, 1, 1, 1, 3, 1), B(2, 0, 2, 1, 3, 0), B(4, 2, 0, 0, 4, 0)}
=============================================================================
