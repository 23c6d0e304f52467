----------------------------- MODULE UndoStack -----------------------------
(***************************************************************************)
(* What undo and redo promise together: the log stands at one operation    *)
(* and offers a stack of operations to go forward to.                      *)
(***************************************************************************)
EXTENDS Naturals, Sequences

VARIABLES
  at,        \* the operation the log stands at
  made,      \* operations ever made
  forward    \* where redo goes, the next one first

Init == at = 0 /\ made = 0 /\ forward = << >>

(* New work: whatever was undone is no longer ahead.                       *)
Work == made' > made /\ at' = made' /\ forward' = << >>

Undo ==
  /\ at' < at
  /\ forward' = <<at>> \o forward
  /\ UNCHANGED made

Redo ==
  /\ forward # << >>
  /\ at' = Head(forward)
  /\ forward' = Tail(forward)
  /\ UNCHANGED made

Next == Work \/ Undo \/ Redo

Spec == Init /\ [][Next]_<<at, made, forward>>
=============================================================================
