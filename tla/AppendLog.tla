----------------------------- MODULE AppendLog -----------------------------
(***************************************************************************)
(* What an operation log promises its readers: one append-only list of     *)
(* operations per worktree.  An operation is written first and put on a    *)
(* list after; one that loses its race is on none.  Appends to different   *)
(* worktrees are independent, an operation is on at most one list, once,   *)
(* and nothing on a list moves or disappears.                              *)
(***************************************************************************)
EXTENDS Naturals, Sequences

CONSTANT Chains

VARIABLES
  written,  \* the operations written so far are 1, 2, ..., written
  log       \* [Chains -> Seq(1..written)], oldest first

OnSomeLog(id) == \E c \in Chains : \E i \in 1..Len(log[c]) : log[c][i] = id

Init == written = 0 /\ log = [c \in Chains |-> << >>]

Write == written' = written + 1 /\ UNCHANGED log

Push(c, id) ==
  /\ ~OnSomeLog(id)
  /\ log' = [log EXCEPT ![c] = Append(@, id)]
  /\ UNCHANGED written

Next ==
  \/ Write
  \/ \E c \in Chains, id \in 1..written : Push(c, id)

Spec == Init /\ [][Next]_<<written, log>>
=============================================================================
