------------------------------- MODULE Rewind -------------------------------
(***************************************************************************)
(* One worktree and its operation log: captures, a commit, the git commands*)
(* of the user, and the moves along the log, ff undo, ff redo and          *)
(* ff op restore (ff-core/src/undo.rs, over ops/verb.rs, ops/append.rs,    *)
(* ops/walk.rs and close.rs).                                              *)
(*                                                                         *)
(* A commit is a number and stands for its own tree; the tree of the       *)
(* working directory is a number too, equal to a commit's when the tree is *)
(* clean.  Index, metadata files and open commits are left out.  Appends   *)
(* are single steps here: module OpLog shows the lock makes them so.  Fufu *)
(* runs one verb at a time, in the steps a crash can come between.         *)
(***************************************************************************)
EXTENDS Naturals, Sequences, SequencesExt, FiniteSetsExt

CONSTANTS
  Branches,      \* local branches, all born at the root commit
  Sessions,      \* session tags a capture may carry
  Stories,       \* [landings, interfere, moves]: a subset of Landings, whether
                 \* git and the editor also act while a verb runs, and the
                 \* bound on moves along the log
  MaxWork,       \* bound: edits and git commands in a behaviour
  MaxOps,        \* bound: operations on the log before a new verb starts
  MaxCrashes     \* bound: crashes

ASSUME BranchesAssumption == Branches # {}

Landings == {"undo", "redo", "restore"}
ASSUME StoriesAssumption ==
  Stories \subseteq [landings : SUBSET Landings, interfere : BOOLEAN, moves : Nat]

None == 0
Root == 1        \* the commit every branch starts at

VARIABLES
  tips,      \* [Branches -> commit]   refs/heads/*
  head,      \* the branch HEAD is on
  disk,      \* the tree in the working directory
  fresh,     \* the next unused tree
  store,     \* operations written, an operation's id is its index
  opsRef,    \* the chain's tip
  snapRef,   \* [Branches -> id]  the branch pointers
  reflog,    \* the ops ref's reflog: [old, new, line], oldest first
  pc,        \* where the running verb stands
  story,     \* the history this behaviour is of
  plan,      \* what the newest move or commit decided when it started
  work, moves, crashes

world == <<tips, head, disk>>
log == <<store, opsRef, snapRef, reflog>>
bounds == <<story, work, moves, crashes>>
vars == <<tips, head, disk, fresh, store, opsRef, snapRef, reflog, pc, plan,
          story, work, moves, crashes>>

-----------------------------------------------------------------------------
(***************************************************************************)
(* The log as a value: appends and walks.                                  *)
(***************************************************************************)

Log == [store |-> store, tip |-> opsRef, snap |-> snapRef, reflog |-> reflog]

SetLog(L) ==
  /\ store' = L.store
  /\ opsRef' = L.tip
  /\ snapRef' = L.snap
  /\ reflog' = L.reflog

(* commit_op: the operation names the tip and the pointer it replaces, and *)
(* states an open commit when the tree it leaves is not its HEAD's.        *)
Push(L, op) ==
  LET id == Len(L.store) + 1
      linked == [op EXCEPT !.prev = L.tip, !.onBranch = L.snap[op.branch]]
  IN [store |-> Append(L.store, linked), tip |-> id,
      snap |-> [L.snap EXCEPT ![op.branch] = id],
      reflog |-> Append(L.reflog, [old |-> L.tip, new |-> id, line |-> "work"])]

(* fufu-prev, newest first.                                                *)
ChainIn(st, id) ==
  LET chain[i \in 0..Len(st)] == IF i = None THEN << >> ELSE <<i>> \o chain[st[i].prev]
  IN chain[id]
Chain(id) == ChainIn(store, id)

Table(L) == [tips |-> L.store[L.tip].tips, head |-> L.store[L.tip].head]
Observed == [tips |-> tips, head |-> head]

Draft(kind, session, table, tree, headAfter) ==
  [kind |-> kind, branch |-> head, session |-> session, open |-> tree # headAfter,
   tips |-> table.tips, head |-> table.head, tree |-> tree, prev |-> None, onBranch |-> None]

(* verb.rs reconcile: an empty log gets its floor, the "init" note over    *)
(* HEAD's tree; a table that disagrees with the refs gets one foreign      *)
(* operation over the working tree; agreement writes nothing.              *)
Reconcile(L) ==
  IF L.tip = None THEN Push(L, Draft("note", "none", Observed, tips[head], tips[head]))
  ELSE IF Table(L) = Observed THEN L
  ELSE Push(L, Draft("foreign", "none", Observed, disk, tips[head]))

(* Faulty: compare with the tip of the log, whatever branch it ran on.     *)
CaptureIsNoOpOnTip(L) == L.tip # None /\ disk = L.store[L.tip].tree

(* append.rs capture_with: deduplicated against the newest operation of    *)
(* the branch, not of the log; a dirty tree whose operation states no open *)
(* commit is appended once more.                                           *)
CaptureIsNoOp(L) ==
  IF L.snap[head] = None THEN disk = tips[head]
  ELSE LET prev == L.store[L.snap[head]]
       IN disk = prev.tree /\ (prev.open \/ disk = tips[head])

(* A capture inherits its predecessor's table; it observes no ref.         *)
CaptureTable(L) == Table(L)

(* A first capture lays the floor; one that would say nothing new is not   *)
(* written.                                                                *)
Capture(L, session) ==
  IF CaptureIsNoOp(L) THEN L
  ELSE LET M == IF L.tip = None THEN Reconcile(L) ELSE L
       IN Push(M, Draft("capture", session, CaptureTable(M), disk, tips[head]))

(* begin_verb: reconcile, then capture.                                    *)
Preamble == Capture(Reconcile(Log), "none")

(* The state a verb starts from: what its branch's newest operation        *)
(* recorded.                                                               *)
PreTree(L) == IF L.snap[head] = None THEN tips[head] ELSE L.store[L.snap[head]].tree

-----------------------------------------------------------------------------
(***************************************************************************)
(* Choosing where to land.                                                 *)
(***************************************************************************)

Ops(L) == ChainIn(L.store, L.tip)

(* run_at: adjacent captures of one session, or one other operation; ops   *)
(* is a walk, i a position in it, the result the run's last position.      *)
RunEnd(L, ops, i) ==
  LET grouped(j) == \A k \in i..j :
        /\ L.store[ops[k]].kind = "capture"
        /\ L.store[ops[k]].session = L.store[ops[i]].session
  IN Max({i} \cup {j \in i..Len(ops) : grouped(j)})

(* choose, OneRun: past the newest run that is not a note; None at the     *)
(* floor.                                                                  *)
OneRun(L) ==
  LET ops == Ops(L)
      undoable == {i \in DOMAIN ops : L.store[ops[i]].kind # "note"}
  IN IF undoable = {} THEN None
     ELSE LET last == RunEnd(L, ops, Min(undoable))
          IN IF last = Len(ops) THEN None ELSE ops[last + 1]

(* Faulty: a redo line consumes nothing.                                   *)
ReadLineNewest(tip, s, entry) ==
  IF s.over \/ entry.line = "work" THEN [s EXCEPT !.over = TRUE]
  ELSE IF entry.line = "redo" THEN s
  ELSE [s EXCEPT !.path = Append(@, entry.old)]

(* forward_scan, its loop: a redo line consumes one undo line; work ends   *)
(* the path, and so does where it stands already.                          *)
ReadLine(tip, s, entry) ==
  IF s.over \/ entry.line = "work" THEN [s EXCEPT !.over = TRUE]
  ELSE IF entry.line = "redo" THEN [s EXCEPT !.consumed = @ + 1]
  ELSE IF s.consumed > 0 THEN [s EXCEPT !.consumed = @ - 1]
  ELSE IF entry.old \in ToSet(s.path) \/ (s.path = << >> /\ entry.old = tip)
    THEN [s EXCEPT !.over = TRUE]
  ELSE [s EXCEPT !.path = Append(@, entry.old)]

(* forward_scan: the reflog from its newest line back.                     *)
Scanned(L) ==
  LET n == Len(L.reflog)
      scan[k \in 0..n] ==
        IF k = 0 THEN [path |-> << >>, consumed |-> 0, over |-> FALSE]
        ELSE ReadLine(L.tip, scan[k - 1], L.reflog[n + 1 - k])
  IN scan
ForwardPath(L) == Scanned(L)[Len(L.reflog)].path

LandingsOf(L, how) ==
  CASE how = "undo" -> {OneRun(L)} \ {None}
    [] how = "redo" -> {p \in ToSet(ForwardPath(L)) : p = ForwardPath(L)[1]}
    [] how = "restore" -> DOMAIN L.store

(* split: what the move leaves and what it enters, newest first: each walk *)
(* down to where they meet.                                                *)
Only(these, those) ==
  LET shared == {k \in DOMAIN these : these[k] \in ToSet(those)}
  IN SubSeq(these, 1, Min(shared \cup {Len(these) + 1}) - 1)
Back(L, target) == Only(Ops(L), ChainIn(L.store, target))
Fwd(L, target) == Only(ChainIn(L.store, target), Ops(L))

(* Where on a walk the operations on a branch are.                         *)
On(st, ops, b) == {k \in DOMAIN ops : st[ops[k]].branch = b}

(* Faulty: the predecessor of the newest operation left.                   *)
PointersAfterNewest(L, back, fwd) ==
  [b \in Branches |->
     LET left == On(L.store, back, b)
         entered == On(L.store, fwd, b)
     IN IF entered # {} THEN fwd[Min(entered)]
        ELSE IF left # {} THEN L.store[back[Min(left)]].onBranch
        ELSE L.snap[b]]

(* move_pointer: leaving resets a branch to the predecessor of the oldest  *)
(* operation left on it, entering sets it to the newest entered.           *)
PointersAfter(L, back, fwd) ==
  [b \in Branches |->
     LET left == On(L.store, back, b)
         entered == On(L.store, fwd, b)
     IN IF entered # {} THEN fwd[Min(entered)]
        ELSE IF left # {} THEN L.store[back[Max(left)]].onBranch
        ELSE L.snap[b]]

-----------------------------------------------------------------------------
(***************************************************************************)
(* Git and the editor.                                                     *)
(***************************************************************************)

NoPlan == [how |-> "none", branch |-> head, tip |-> None, target |-> None,
           back |-> << >>, fwd |-> << >>, from |-> None, seen |-> Observed]

Outside ==
  /\ work < MaxWork
  /\ pc = "idle" \/ story.interfere
  /\ work' = work + 1
  /\ UNCHANGED <<log, pc, plan, story, moves, crashes>>

Edit ==
  /\ Outside
  /\ disk' = fresh
  /\ fresh' = fresh + 1
  /\ UNCHANGED <<tips, head>>

GitCommit ==
  /\ Outside
  /\ disk # tips[head]
  /\ tips' = [tips EXCEPT ![head] = disk]
  /\ UNCHANGED <<head, disk, fresh>>

(* git switch, from a clean tree.                                          *)
GitSwitch(b) ==
  /\ Outside
  /\ b # head
  /\ disk = tips[head]
  /\ head' = b
  /\ disk' = tips[b]
  /\ UNCHANGED <<tips, fresh>>

(* git reset --soft on the branch HEAD is on, git branch -f on another.    *)
GitMove(b, commit) ==
  /\ Outside
  /\ commit # tips[b]
  /\ tips' = [tips EXCEPT ![b] = commit]
  /\ UNCHANGED <<head, disk, fresh>>

-----------------------------------------------------------------------------
(***************************************************************************)
(* fufu.                                                                   *)
(***************************************************************************)

(* A hook's capture, or bare ff's: it does not reconcile.                  *)
HookCapture(session) ==
  /\ pc = "idle"
  /\ Len(store) < MaxOps
  /\ ~CaptureIsNoOp(Log)
  /\ SetLog(Capture(Log, session))
  /\ UNCHANGED <<world, fresh, pc, plan, bounds>>

(* ff commit, up to the message hooks; a clean tree has nothing to commit. *)
StartCommit ==
  /\ pc = "idle"
  /\ Len(store) < MaxOps
  /\ SetLog(Preamble)
  /\ IF disk = tips[head] THEN pc' = "idle" /\ plan' = NoPlan
     ELSE /\ pc' = "hooks"
          /\ plan' = [NoPlan EXCEPT !.how = "commit", !.tip = tips[head], !.target = disk]
  /\ UNCHANGED <<world, fresh, bounds>>

(* The write-ahead record: the refs as they stand now, moved as planned.   *)
RecordCommit ==
  LET planned == [tips |-> [tips EXCEPT ![plan.branch] = plan.target], head |-> head]
      op == [Draft("op", "none", planned, plan.target, plan.target) EXCEPT !.branch = plan.branch]
  IN /\ pc = "hooks"
     /\ SetLog(Push(Log, op))
     /\ pc' = "land"
     /\ UNCHANGED <<world, fresh, plan, bounds>>

(* advance_branch: a compare-and-swap on the commit the close read.        *)
LandCommit ==
  /\ pc = "land"
  /\ IF tips[plan.branch] = plan.tip
     THEN tips' = [tips EXCEPT ![plan.branch] = plan.target]
     ELSE UNCHANGED tips
  /\ pc' = "idle"
  /\ UNCHANGED <<head, disk, fresh, log, plan, bounds>>

(* rewind, up to its first write: preamble, landing, the two halves of the *)
(* move, the refs as observed.  No landing: refused.                       *)
StartMove(how) ==
  LET L == Preamble
  IN /\ pc = "idle"
     /\ how \in story.landings
     /\ moves < story.moves
     /\ Len(store) < MaxOps
     /\ SetLog(L)
     /\ moves' = moves + 1
     /\ \/ /\ LandingsOf(L, how) = {}
           /\ pc' = "idle"
           /\ plan' = NoPlan
        \/ \E target \in LandingsOf(L, how) :
             /\ pc' = "refs"
             /\ plan' = [how |-> how, branch |-> head, tip |-> L.tip,
                         target |-> target, back |-> Back(L, target), fwd |-> Fwd(L, target),
                         from |-> PreTree(L), seen |-> Observed]
     /\ UNCHANGED <<world, fresh, story, work, crashes>>

Landed == store[plan.target]

RefsToMove == {b \in Branches : plan.seen.tips[b] # Landed.tips[b]}

Contended == \E b \in RefsToMove : tips[b] # plan.seen.tips[b]

(* 3. The refs, one transaction checked against the refs observed.         *)
MoveRefs ==
  /\ pc = "refs"
  /\ pc' = IF Contended THEN "idle" ELSE "head"
  /\ tips' = IF Contended THEN tips
             ELSE [b \in Branches |-> IF b \in RefsToMove THEN Landed.tips[b] ELSE tips[b]]
  /\ UNCHANGED <<head, disk, fresh, log, plan, bounds>>

(* 4. HEAD, if it was elsewhere when the move was planned.                 *)
MoveHead ==
  /\ pc = "head"
  /\ pc' = "tree"
  /\ head' = IF plan.seen.head # Landed.head THEN Landed.head ELSE head
  /\ UNCHANGED <<tips, disk, fresh, log, plan, bounds>>

(* 5. The working tree, from the state the preamble recorded.              *)
MoveTree ==
  /\ pc = "tree"
  /\ pc' = "pointer"
  /\ disk' = IF plan.from = Landed.tree THEN disk ELSE Landed.tree
  /\ UNCHANGED <<tips, head, fresh, log, plan, bounds>>

(* 8. The chain and the branch pointers, one transaction.  The line says   *)
(* redo when nothing was left behind; standing still writes none.          *)
MovePointer ==
  LET line == IF plan.back = << >> THEN "redo" ELSE "undo"
  IN /\ pc = "pointer"
     /\ pc' = "idle"
     /\ opsRef' = plan.target
     /\ snapRef' = PointersAfter(Log, plan.back, plan.fwd)
     /\ reflog' = IF plan.target = plan.tip THEN reflog
                  ELSE Append(reflog, [old |-> plan.tip, new |-> plan.target, line |-> line])
     /\ UNCHANGED <<world, fresh, store, plan, bounds>>

(* The process is killed between two steps.                                *)
Crash ==
  /\ pc # "idle"
  /\ crashes < MaxCrashes
  /\ crashes' = crashes + 1
  /\ pc' = "idle"
  /\ UNCHANGED <<world, fresh, log, plan, story, work, moves>>

Init ==
  /\ tips = [b \in Branches |-> Root]
  /\ head \in Branches
  /\ disk = Root
  /\ fresh = Root + 1
  /\ store = << >> /\ opsRef = None /\ snapRef = [b \in Branches |-> None] /\ reflog = << >>
  /\ pc = "idle"
  /\ plan = NoPlan
  /\ story \in Stories
  /\ work = 0 /\ moves = 0 /\ crashes = 0

Next ==
  \/ Edit \/ GitCommit
  \/ \E b \in Branches : GitSwitch(b)
  \/ \E b \in Branches, commit \in {Root} \cup {tips[c] : c \in Branches} : GitMove(b, commit)
  \/ \E session \in Sessions : HookCapture(session)
  \/ StartCommit \/ RecordCommit \/ LandCommit
  \/ \E how \in Landings : StartMove(how)
  \/ MoveRefs \/ MoveHead \/ MoveTree \/ MovePointer
  \/ Crash

Spec == Init /\ [][Next]_vars

-----------------------------------------------------------------------------
(***************************************************************************)
(* Properties.                                                             *)
(***************************************************************************)

(* However the log was moved, also when a crash cut a move short, the      *)
(* pointer of each branch names the newest operation on it on the chain,   *)
(* or nothing when the chain has none (move_pointer's two loops).          *)
PointerFollowsLog ==
  \A b \in Branches :
    LET ops == Chain(opsRef)
        onIt == On(store, ops, b)
    IN snapRef[b] = IF onIt = {} THEN None ELSE ops[Min(onIt)]

(* When the pointer is about to move, refs, HEAD and working tree are all  *)
(* what the landing recorded, although three steps moved them (rewind,     *)
(* "landing on operation X restores the complete state X recorded").       *)
LandsWhole ==
  pc = "pointer" /\ ~story.interfere =>
    /\ Observed = [tips |-> Landed.tips, head |-> Landed.head]
    /\ disk = Landed.tree

(* Where undo and redo are the only moves, what redo offers is a stack of  *)
(* the places undone from: an undo pushes the operation it leaves, a redo  *)
(* pops, work empties it (forward_scan, which has only the reflog to read).*)
Restores == "restore" \in story.landings
Stack == INSTANCE UndoStack WITH
  at <- IF Restores THEN None ELSE opsRef,
  made <- IF Restores THEN 0 ELSE Len(store),
  forward <- IF Restores THEN << >> ELSE ForwardPath(Log)
RedoIsAStack == Stack!Spec
=============================================================================
