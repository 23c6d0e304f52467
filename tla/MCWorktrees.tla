---------------------------- MODULE MCWorktrees ----------------------------
(***************************************************************************)
(* The main worktree and one linked worktree, over two or three branches.  *)
(* One history commits and switches in both; one runs undo and retention   *)
(* in both; one runs them in the main worktree alone; the others add and   *)
(* remove the linked one, with and without undo, redo and retention; where *)
(* redo is asked for it stands at first or is yet to be added.             *)
(***************************************************************************)
EXTENDS Worktrees, TLC

CONSTANTS w1, w2, main, side, topic

Story(up, branches, verbs, ops, commits, changes, passes, kills) ==
  [live |-> up, branches |-> branches, verbs |-> verbs, ops |-> ops, commits |-> commits,
   edits |-> changes, trims |-> passes, crashes |-> kills]

Everything == {main, side, topic}

(* Stories name main and side together or not at all.                      *)
Symmetric == Permutations({main, side})

MCStories ==
  {Story({w1, w2}, Everything, {}, 5, 2, 0, 0, 0),
   Story({w1, w2}, Everything, {"undo", "trim"}, 4, 2, 0, 1, 1),
   Story({w1}, {main, side}, {"undo", "trim"}, 5, 2, 0, 2, 0),
   Story({w1}, {main, side}, {"worktree"}, 5, 2, 1, 0, 1),
   Story({w1}, {main, side}, {"worktree", "undo"}, 6, 1, 1, 0, 0),
   Story({w1}, {main, side}, {"worktree", "undo", "redo"}, 5, 1, 1, 0, 0),
   Story({w1, w2}, {main, side}, {"worktree", "undo", "redo"}, 6, 1, 1, 0, 0),
   Story({w1}, {main, side}, {"worktree", "undo", "trim"}, 5, 1, 1, 1, 0)}
=============================================================================
