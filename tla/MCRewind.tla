------------------------------ MODULE MCRewind ------------------------------
(***************************************************************************)
(* One worktree with two branches.  One history moves in every way between *)
(* the user's own commands; in the other, git and the editor act while a   *)
(* verb runs.                                                              *)
(***************************************************************************)
EXTENDS Rewind, TLC

CONSTANTS main, topic

Symmetric == Permutations({main, topic})

MCStories ==
  {[landings |-> Landings, interfere |-> FALSE, moves |-> 2],
   [landings |-> {"undo", "redo"}, interfere |-> TRUE, moves |-> 4]}
=============================================================================
