------------------------------ MODULE MCOpLog ------------------------------
(***************************************************************************)
(* Two processes in worktree w1 and one in w2.  w1 works on a branch of    *)
(* its own and may be detached; w2 is detached, so both write the one      *)
(* pointer refs/fufu/snap/@detached.                                       *)
(***************************************************************************)
EXTENDS OpLog, TLC

CONSTANTS p1, p2, p3, w1, w2, main, detached

MCHome == (p1 :> w1) @@ (p2 :> w1) @@ (p3 :> w2)
MCWork == (w1 :> {main, detached}) @@ (w2 :> {detached})
=============================================================================
