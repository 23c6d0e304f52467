----------------------------- MODULE Worktrees -----------------------------
(***************************************************************************)
(* Several worktrees of one repository: each has an operation log of its   *)
(* own, all share the branches, the branch pointers and the store; a       *)
(* linked worktree is added and removed by a verb that undo reverses       *)
(* (ff-core/src/linked.rs, linked/add.rs, linked/remove.rs, ops/record.rs, *)
(* ops/verb.rs, ops/append.rs, undo.rs, trim.rs).                          *)
(*                                                                         *)
(* A verb is one step here: OpLog has the steps of an append, Rewind those *)
(* of a move.  Trim is not: it rewrites its chain and the pointers one ref *)
(* at a time.  A worktree is its path and its id at once, a commit is a    *)
(* number, the files are the commit they were checked out from and the     *)
(* newest edit on top of it.  Tags and the stash are left out.             *)
(***************************************************************************)
EXTENDS Naturals, Sequences, SequencesExt, FiniteSetsExt

CONSTANTS
  Trees,         \* the worktrees there can be
  Main,          \* the main one: never removed
  Branches,      \* the branches there can be
  Stories        \* what a history may do: see StoriesAssumption

VerbsKnown == {"undo", "redo", "trim", "worktree"}
ASSUME MainAssumption == Main \in Trees
ASSUME BranchesAssumption == "log" \notin Branches   \* the chain's own ref
ASSUME StoriesAssumption ==
  \A s \in Stories :
    /\ s.live \subseteq Trees /\ Main \in s.live   \* the worktrees there are
    /\ s.branches \subseteq Branches               \* the branches there are
    /\ s.verbs \subseteq VerbsKnown                \* the verbs that are run
    /\ s.ops \in Nat       \* bound: operations written before a verb starts
    /\ s.commits \in Nat   \* bound: commits made
    /\ s.edits \in Nat     \* bound: edits made
    /\ s.trims \in Nat     \* bound: retention passes
    /\ s.crashes \in Nat   \* bound: crashes

None == 0
Root == 1

VARIABLES
  story,     \* the history's member of Stories
  tips,      \* [Branches -> commit or None]   refs/heads/*, None once deleted
  live,      \* the worktrees that stand
  at,        \* [Trees -> Branches]  where HEAD stands, or stood
  files,     \* [Trees -> files]  what the worktree holds, or held
  made,      \* the newest commit
  edits,     \* the newest edit
  store,     \* operations written, an operation's id is its index
  opsRef,    \* [Trees -> id]  refs/fufu/wt/<id>/ops: outlives the worktree
  snap,      \* [Branches -> id]  refs/fufu/snap/<branch>, shared
  ahead,     \* [Trees -> ids]  the reflog of opsRef: the tips undo left
  trash,     \* [Trees -> id]  refs/fufu/wt/<id>/trash/@ops
  pass,      \* [Trees -> retention pass]
  trims, crashes

vars == <<story, tips, live, at, files, made, edits, store, opsRef, snap, ahead, trash, pass,
          trims, crashes>>

Log == [store |-> store, ops |-> opsRef, snap |-> snap, ahead |-> ahead]
SetLog(L) == store' = L.store /\ opsRef' = L.ops /\ snap' = L.snap /\ ahead' = L.ahead
UNCHANGED_Log == UNCHANGED <<store, opsRef, snap, ahead>>

World == [tips |-> tips, live |-> live, at |-> at, files |-> files]
SetWorld(W) == tips' = W.tips /\ live' = W.live /\ at' = W.at /\ files' = W.files
UNCHANGED_World == UNCHANGED <<tips, live, at, files>>

CleanAt(commit) == [commit |-> commit, edit |-> None]

(* fufu-prev, newest first.                                                *)
ChainIn(st, id) ==
  LET chain[i \in 0..Len(st)] == IF i = None THEN << >> ELSE <<i>> \o chain[st[i].prev]
  IN chain[id]

-----------------------------------------------------------------------------
(***************************************************************************)
(* Who owns what.                                                          *)
(***************************************************************************)

(* linked::held_branches: the branches the other worktrees stand on.       *)
Held(W, w) == {W.at[v] : v \in W.live \ {w}}

(* observe_refs: a branch another worktree holds is not seen.              *)
Observe(W, w) == [b \in Branches |-> IF b \in Held(W, w) THEN None ELSE W.tips[b]]

(* carrying_held: the last value known of a branch that is hidden.         *)
CarryingHeld(W, w, table, prior) ==
  [b \in Branches |-> IF b \in Held(W, w) /\ table[b] = None THEN prior[b] ELSE table[b]]

-----------------------------------------------------------------------------
(***************************************************************************)
(* Writing operations.                                                     *)
(***************************************************************************)

(* held is history: what the worktree had, read by no code.                *)
NoEffect == [do |-> "none", tree |-> Main, branch |-> None,
             capture |-> None, held |-> CleanAt(None)]

(* What a verb that leaves the world as W says of it.                      *)
Draft(W, w, kind, table) ==
  [kind |-> kind, branch |-> W.at[w], head |-> W.at[w], table |-> table, files |-> W.files[w],
   effect |-> NoEffect]

(* commit_op: the branch is the one the verb leaves the worktree on, and   *)
(* what undo had left behind is no longer ahead.                           *)
Push(L, W, w, draft) ==
  LET id == Len(L.store) + 1
      prev == L.ops[w]
      table == IF prev = None THEN draft.table
               ELSE CarryingHeld(W, w, draft.table, L.store[prev].table)
      op == [kind |-> draft.kind, branch |-> draft.branch, head |-> draft.head, table |-> table,
             files |-> draft.files, effect |-> draft.effect,
             prev |-> prev, onBranch |-> L.snap[draft.branch], born |-> id]
  IN [store |-> Append(L.store, op), ops |-> [L.ops EXCEPT ![w] = id],
      snap |-> [L.snap EXCEPT ![draft.branch] = id], ahead |-> [L.ahead EXCEPT ![w] = << >>]]

(* reconcile: the floor, which claims no more than HEAD's tree; a foreign  *)
(* operation; or nothing.                                                  *)
Reconciled(L, W, w) ==
  IF L.ops[w] = None
  THEN Push(L, W, w, [Draft(W, w, "note", Observe(W, w)) EXCEPT
                        !.files = CleanAt(W.tips[W.at[w]])])
  ELSE LET last == L.store[L.ops[w]]
           seen == CarryingHeld(W, w, Observe(W, w), last.table)
       IN IF last.head = W.at[w] /\ last.table = seen THEN L
          ELSE Push(L, W, w, Draft(W, w, "foreign", seen))

(* capture_with finds nothing to say: compared with the newest operation   *)
(* on the branch, whichever worktree wrote it.                             *)
NothingNew(L, W, w) ==
  LET prior == L.snap[W.at[w]]
  IN W.files[w] = IF prior = None THEN CleanAt(W.tips[W.at[w]]) ELSE L.store[prior].files

(* capture_with: the log as it was last seen, the files as they are.       *)
Captured(L, W, w) ==
  LET M == IF L.ops[w] = None THEN Reconciled(L, W, w) ELSE L
      last == M.store[M.ops[w]]
  IN IF NothingNew(L, W, w) THEN L
     ELSE Push(M, W, w, [Draft(W, w, "capture", last.table) EXCEPT !.head = last.head])

(* begin_verb.                                                             *)
Preamble(w) == Captured(Reconciled(Log, World, w), World, w)

-----------------------------------------------------------------------------
(***************************************************************************)
(* Git in a worktree: it does not check out a branch twice.                *)
(***************************************************************************)

Clean(w) == files[w] = CleanAt(tips[at[w]])

Edit(w) ==
  /\ w \in live
  /\ edits < story.edits
  /\ edits' = edits + 1
  /\ files' = [files EXCEPT ![w].edit = edits']
  /\ UNCHANGED_Log
  /\ UNCHANGED <<story, tips, live, at, made, trash, pass, trims, crashes>>

(* The commit git or fufu makes of what the worktree holds.                *)
AfterCommit(w) ==
  [World EXCEPT !.tips[at[w]] = made + 1, !.files[w] = CleanAt(made + 1)]

GitCommit(w) ==
  /\ w \in live
  /\ made < story.commits
  /\ made' = made + 1
  /\ SetWorld(AfterCommit(w))
  /\ UNCHANGED_Log
  /\ UNCHANGED <<story, edits, trash, pass, trims, crashes>>

GitSwitch(w, b) ==
  /\ w \in live /\ Clean(w)
  /\ b \notin Held(World, w) \cup {at[w]}
  /\ tips[b] # None
  /\ SetWorld([World EXCEPT !.at[w] = b, !.files[w] = CleanAt(tips[b])])
  /\ UNCHANGED_Log
  /\ UNCHANGED <<story, made, edits, trash, pass, trims, crashes>>

-----------------------------------------------------------------------------
(***************************************************************************)
(* fufu's verbs in a worktree.                                             *)
(***************************************************************************)

(* What a pass writes again is replayed oldest first: lines and new are    *)
(* sets of operations.                                                     *)
Idle == [step |-> "none", lines |-> {}, new |-> {}, todo |-> {},
         seen |-> [b \in Branches |-> None], ref |-> "log", expected |-> None]

(* A chain's lock is free: no retention pass is rewriting it.              *)
Unlocked(w) == pass[w].step \in {"none", "note"}
Free(w) == w \in live /\ Len(store) < story.ops /\ Unlocked(w)

Commit(w) ==
  LET W == AfterCommit(w)
  IN /\ Free(w)
     /\ made < story.commits
     /\ made' = made + 1
     /\ SetWorld(W)
     /\ SetLog(Push(Preamble(w), W, w, Draft(W, w, "op", Observe(W, w))))
     /\ UNCHANGED <<story, edits, trash, pass, trims, crashes>>

(* Faulty: fufu moves HEAD where git would refuse to.                      *)
MayOpenAny(w, b) == b # at[w] /\ tips[b] # None

(* guard_other_worktrees.                                                  *)
MayOpen(w, b) == b # at[w] /\ tips[b] # None /\ b \notin Held(World, w)

(* ff switch: recorded on its destination.  Parking is Sessions' subject:  *)
(* here the worktree is clean.                                             *)
Switch(w, b) ==
  LET W == [World EXCEPT !.at[w] = b, !.files[w] = CleanAt(tips[b])]
  IN /\ Free(w) /\ Clean(w)
     /\ MayOpen(w, b)
     /\ SetWorld(W)
     /\ SetLog(Push(Preamble(w), W, w, Draft(W, w, "op", Observe(W, w))))
     /\ UNCHANGED <<story, made, edits, trash, pass, trims, crashes>>
-----------------------------------------------------------------------------
(***************************************************************************)
(* Linked worktrees.  MW is a log and a world.                             *)
(***************************************************************************)

Both(L, W) == [log |-> L, world |-> W]

(* destination_free: nothing stands at the worktree's path.                *)
Occupied(W, v) == v \in W.live

(* materialize, under the id and the path it is given: HEAD on the branch, *)
(* the files as asked.                                                     *)
Stood(W, v, b, held) ==
  [W EXCEPT !.live = @ \cup {v}, !.at[v] = b, !.files[v] = held]

(* teardown: the checkout and the administrative directory go, the log     *)
(* stays.                                                                  *)
TornDown(W, v) == [W EXCEPT !.live = @ \ {v}]

(* Faulty: torn down before it was captured.                               *)
RetiredUncaptured(MW, v) ==
  IF v \notin MW.world.live THEN MW ELSE Both(MW.log, TornDown(MW.world, v))

(* linked::retire, and what ff worktree remove does: the files are put in  *)
(* the worktree's own log before they go.                                  *)
Retired(MW, v) ==
  IF v \notin MW.world.live THEN MW
  ELSE Both(Captured(MW.log, MW.world, v), TornDown(MW.world, v))

(* linked::revive: the capture the effect names, else the log's tip, else  *)
(* the branch; an occupied path or a branch that is gone leaves it away.   *)
Revived(MW, v, b, capture) ==
  LET L == MW.log
      W == MW.world
      held == IF capture # None THEN L.store[capture].files
              ELSE IF L.ops[v] # None THEN L.store[L.ops[v]].files
              ELSE CleanAt(W.tips[b])
  IN IF Occupied(W, v) \/ W.tips[b] = None THEN MW ELSE Both(L, Stood(W, v, b, held))

(* start: a branch as it stands, or a new one at HEAD's commit.            *)
StartsAt(w, b) == IF tips[b] = None THEN tips[at[w]] ELSE tips[b]

(* create: a branch no other worktree than the one it is run in stands on, *)
(* and a path nothing stands at.                                           *)
MayStand(w, v, b) == ~Occupied(World, v) /\ b \notin Held(World, w)

(* ff worktree add, from w: the worktree first, then its floor, then the   *)
(* operation that says so.  Killed before the last, it is a worktree like  *)
(* one of git's.                                                           *)
AddWorktree(w, v, b, killed) ==
  LET L == Preamble(w)
      start == StartsAt(w, b)
      W == Stood([World EXCEPT !.tips[b] = start], v, b, CleanAt(start))
      floor == Reconciled(L, W, v)
      effect == [do |-> "add", tree |-> v, branch |-> b, capture |-> None,
                 held |-> CleanAt(None)]
  IN /\ "worktree" \in story.verbs
     /\ Free(w) /\ Unlocked(v)
     /\ MayStand(w, v, b)
     /\ tips[at[w]] # None
     /\ killed => crashes < story.crashes
     /\ SetWorld(W)
     /\ SetLog(IF killed THEN floor
               ELSE Push(floor, W, w, [Draft(W, w, "op", Observe(W, w)) EXCEPT !.effect = effect]))
     /\ crashes' = IF killed THEN crashes + 1 ELSE crashes
     /\ UNCHANGED <<story, made, edits, trash, pass, trims>>

(* ff worktree remove, from w: captured, recorded, then torn down; the     *)
(* branch it held is recorded as this worktree's.  Killed before the last, *)
(* it still stands.                                                        *)
RemoveWorktree(w, v, killed) ==
  LET gone == Retired(Both(Preamble(w), World), v)
      L == gone.log
      effect == [do |-> "remove", tree |-> v, branch |-> at[v], capture |-> L.snap[at[v]],
                 held |-> files[v]]
      planned == [Observe(World, w) EXCEPT ![at[v]] = tips[at[v]]]
  IN /\ "worktree" \in story.verbs
     /\ Free(w) /\ Unlocked(v)
     /\ v \in live \ {w, Main}
     /\ killed => crashes < story.crashes
     /\ SetWorld(IF killed THEN World ELSE gone.world)
     /\ SetLog(Push(L, World, w, [Draft(World, w, "op", planned) EXCEPT !.effect = effect]))
     /\ crashes' = IF killed THEN crashes + 1 ELSE crashes
     /\ UNCHANGED <<story, made, edits, trash, pass, trims>>

-----------------------------------------------------------------------------
(***************************************************************************)
(* Undo and redo.                                                          *)
(***************************************************************************)

(* choose: past the newest run that is not a note, captures grouped.       *)
RunEnd(L, ops) ==
  LET first == Min({i \in DOMAIN ops : L.store[ops[i]].kind # "note"})
  IN Max({first} \cup {j \in first..Len(ops) :
                         \A k \in first..j : L.store[ops[k]].kind = "capture"})

(* apply_worktree_effects, one operation: entering replays its effect,     *)
(* leaving inverts it.                                                     *)
AfterEffect(MW, op, entered) ==
  IF op.effect.do = "none" THEN MW
  ELSE IF entered = (op.effect.do = "add")
  THEN Revived(MW, op.effect.tree, op.effect.branch, op.effect.capture)
  ELSE Retired(MW, op.effect.tree)

AfterAll(MW, ops, entered) ==
  LET after[n \in 0..Len(ops)] ==
        IF n = 0 THEN MW ELSE AfterEffect(after[n - 1], ops[n], entered)
  IN after[Len(ops)]

(* What is left newest first, then what is entered oldest first.           *)
AfterEffects(L, W, back, fwd) ==
  LET left == [n \in 1..Len(back) |-> L.store[back[n]]]
      entered == [n \in 1..Len(fwd) |-> L.store[fwd[Len(fwd) + 1 - n]]]
  IN AfterAll(AfterAll(Both(L, W), left, FALSE), entered, TRUE)

(* A worktree to be retired that is being written to refuses the move.     *)
NoneBusy(L, ids) ==
  \A n \in DOMAIN ids :
    LET effect == L.store[ids[n]].effect
    IN effect.do # "none" /\ effect.tree \in live => Unlocked(effect.tree)

(* Faulty: a branch handed back to a revived worktree is still moved.      *)
MovableBefore(w, W) == Branches \ Held(World, w)

(* rewind: a branch another worktree held before the worktree effects, or  *)
(* holds after them, is left out of the move.                              *)
Movable(w, W) == Branches \ (Held(World, w) \cup Held(W, w))

(* Faulty: a branch's pointer stays where it is.                           *)
PointersAfterNone(L, back, fwd) == L.snap

(* move_pointer: leaving resets a branch to the predecessor of the oldest  *)
(* operation left on it, entering sets it to the newest entered.           *)
On(st, ids, b) == {n \in DOMAIN ids : st[ids[n]].branch = b}
PointersAfter(L, back, fwd) ==
  [b \in Branches |->
     LET left == On(L.store, back, b)
         entered == On(L.store, fwd, b)
     IN IF entered # {} THEN fwd[Min(entered)]
        ELSE IF left # {} THEN L.store[back[Max(left)]].onBranch
        ELSE L.snap[b]]

(* rewind: worktree effects, refs as the landing's table has them (one it  *)
(* does not know is deleted), HEAD without a guard, files, pointers.       *)
Rewind(w, L, target, back, fwd, undone) ==
  LET MW == AfterEffects(L, World, back, fwd)
      W == MW.world
      op == L.store[target]
  IN /\ NoneBusy(L, back \o fwd)
     /\ SetWorld([W EXCEPT !.tips = [b \in Branches |->
                                      IF b \in Movable(w, W) THEN op.table[b] ELSE tips[b]],
                           !.at[w] = op.head, !.files[w] = op.files])
     /\ SetLog([MW.log EXCEPT !.ops[w] = target, !.snap = PointersAfter(MW.log, back, fwd),
                              !.ahead[w] = undone])
     /\ UNCHANGED <<story, made, edits, trash, pass, trims, crashes>>

Undo(w) ==
  LET L == Preamble(w)
      ops == ChainIn(L.store, L.ops[w])
      last == RunEnd(L, ops)
  IN /\ "undo" \in story.verbs
     /\ Free(w)
     /\ \E i \in DOMAIN ops : L.store[ops[i]].kind # "note"
     /\ last < Len(ops)
     /\ Rewind(w, L, ops[last + 1], SubSeq(ops, 1, last), << >>, Append(L.ahead[w], L.ops[w]))

(* split: what a walk has before it meets the other.                       *)
Only(these, those) ==
  LET shared == {n \in DOMAIN these : these[n] \in ToSet(those)}
  IN SubSeq(these, 1, Min(shared \cup {Len(these) + 1}) - 1)

(* forward_target: the newest undo not yet reversed; work in between       *)
(* leaves none.                                                            *)
Redo(w) ==
  LET L == Preamble(w)
      target == Last(L.ahead[w])
      ops == ChainIn(L.store, L.ops[w])
  IN /\ "redo" \in story.verbs
     /\ Free(w)
     /\ L.ahead[w] # << >>
     /\ Rewind(w, L, target, << >>,
               Only(ChainIn(L.store, target), ops),
               Front(L.ahead[w]))
-----------------------------------------------------------------------------
(***************************************************************************)
(* Retention: trash first, then the chain and the pointers are deleted and *)
(* replayed.                                                               *)
(***************************************************************************)

Chain(w) == ChainIn(store, opsRef[w])
BranchesOn(ids) == {store[ids[n]].branch : n \in DOMAIN ids}

(* The survivors written again, oldest first: links between them follow,   *)
(* links to anything else are cut.                                         *)
Relinked(ids) ==
  LET image(old) == IF old \in ToSet(ids) THEN Len(store) + (CHOOSE n \in DOMAIN ids : ids[n] = old)
                     ELSE None
  IN [n \in DOMAIN ids |->
        [store[ids[n]] EXCEPT !.prev = IF n = 1 THEN None ELSE Len(store) + n - 1,
                              !.onBranch = image(store[ids[n]].onBranch)]]

(* Faulty: the pre-trim tip is not kept.                                   *)
TrashedNever(w) == trash

Trashed(w) == [trash EXCEPT ![w] = opsRef[w]]

(* The pointers of the branches this chain has operations on.              *)
PointersToReplay(w) == {b \in BranchesOn(Chain(w)) : snap[b] # None}

(* Everything up to the first ref deleted: lock, walk, keep the newest,    *)
(* trash, rebuild.  The log of a worktree that is gone is swept by a pass  *)
(* run in another.                                                         *)
StartTrim(w, kept) ==
  LET ids == Reverse(SubSeq(Chain(w), 1, kept))
  IN /\ "trim" \in story.verbs
     /\ Len(store) < story.ops /\ pass[w] = Idle
     /\ trims < story.trims
     /\ kept < Len(Chain(w))
     /\ trims' = trims + 1
     /\ trash' = Trashed(w)
     /\ store' = store \o Relinked(ids)
     /\ pass' = [pass EXCEPT ![w] =
          [step |-> "drop", ref |-> "log", lines |-> {}, todo |-> PointersToReplay(w),
           new |-> {Len(store) + n : n \in DOMAIN ids}, seen |-> snap, expected |-> None]]
     /\ UNCHANGED_World
     /\ UNCHANGED <<story, made, edits, opsRef, snap, ahead, crashes>>

(* delete_ref, the chain's ref: its reflog goes with it.                   *)
DropLog(w) ==
  /\ pass[w].step = "drop"
  /\ opsRef' = [opsRef EXCEPT ![w] = None]
  /\ pass' = [pass EXCEPT ![w].step = "replay", ![w].lines = pass[w].new]
  /\ ahead' = [ahead EXCEPT ![w] = << >>]
  /\ UNCHANGED_World
  /\ UNCHANGED <<story, made, edits, store, snap, trash, trims, crashes>>

(* delete_ref, one pointer: refused if it moved since the pass read it,    *)
(* and the pass ends there.  A branch with no survivor loses its pointer.  *)
DropPointer(w, b) ==
  LET lines == {i \in pass[w].new : store[i].branch = b}
  IN /\ pass[w].step = "replay"
     /\ pass[w].lines = {}
     /\ b \in pass[w].todo
     /\ IF snap[b] # pass[w].seen[b]
        THEN /\ pass' = [pass EXCEPT ![w] = Idle]
             /\ UNCHANGED snap
        ELSE /\ snap' = [snap EXCEPT ![b] = None]
             /\ pass' = [pass EXCEPT ![w].todo = @ \ {b}, ![w].ref = b, ![w].lines = lines,
                                      ![w].expected = None]
     /\ UNCHANGED_World
     /\ UNCHANGED <<story, made, edits, store, opsRef, ahead, trash, trims, crashes>>

(* replay_ref: one line, one transaction, expecting the line before it; a  *)
(* pointer another worktree moved meanwhile ends the pass.                 *)
ReplayLine(w) ==
  LET p == pass[w]
      id == Min(p.lines)
      taken == p.ref # "log" /\ snap[p.ref] # p.expected
  IN /\ p.step = "replay" /\ p.lines # {}
     /\ IF taken
        THEN /\ pass' = [pass EXCEPT ![w] = Idle]
             /\ UNCHANGED <<opsRef, snap>>
        ELSE /\ pass' = [pass EXCEPT ![w].lines = @ \ {id}, ![w].expected = id]
             /\ opsRef' = IF p.ref = "log" THEN [opsRef EXCEPT ![w] = id] ELSE opsRef
             /\ snap' = IF p.ref = "log" THEN snap ELSE [snap EXCEPT ![p.ref] = id]
     /\ UNCHANGED_World
     /\ UNCHANGED <<story, made, edits, store, ahead, trash, trims, crashes>>

(* orphan_chains: a log whose worktree is gone.                            *)
Orphan(w) == w \notin live

(* The lock is released; a pass of a worktree's own log that rebuilt       *)
(* something leaves a note.                                                *)
ReleaseLock(w) ==
  /\ pass[w].step = "replay" /\ pass[w].lines = {} /\ pass[w].todo = {}
  /\ pass' = [pass EXCEPT ![w] =
       IF pass[w].new = {} \/ Orphan(w) THEN Idle ELSE [Idle EXCEPT !.step = "note"]]
  /\ UNCHANGED_Log /\ UNCHANGED_World
  /\ UNCHANGED <<story, made, edits, trash, trims, crashes>>

AppendNote(w) ==
  /\ pass[w].step = "note"
  /\ pass' = [pass EXCEPT ![w] = Idle]
  /\ SetLog(Push(Log, World, w, Draft(World, w, "note", Observe(World, w))))
  /\ UNCHANGED_World
  /\ UNCHANGED <<story, made, edits, trash, trims, crashes>>

(* The pass is killed; its lock is cleared.                                *)
Crash(w) ==
  /\ crashes < story.crashes
  /\ pass[w].step # "none"
  /\ crashes' = crashes + 1
  /\ pass' = [pass EXCEPT ![w] = Idle]
  /\ UNCHANGED_Log /\ UNCHANGED_World
  /\ UNCHANGED <<story, made, edits, trash, trims>>

-----------------------------------------------------------------------------
Init ==
  /\ story \in Stories
  /\ tips = [b \in Branches |-> IF b \in story.branches THEN Root ELSE None]
  /\ live = story.live
  /\ at \in [Trees -> story.branches]
  /\ \A v, w \in Trees : v # w => at[v] # at[w]
  /\ files = [w \in Trees |-> CleanAt(Root)]
  /\ made = Root /\ edits = 0
  /\ store = << >>
  /\ opsRef = [w \in Trees |-> None]
  /\ snap = [b \in Branches |-> None]
  /\ ahead = [w \in Trees |-> << >>]
  /\ trash = [w \in Trees |-> None]
  /\ pass = [w \in Trees |-> Idle]
  /\ trims = 0 /\ crashes = 0

Next == \E w \in Trees :
  \/ Edit(w)
  \/ GitCommit(w)
  \/ \E b \in Branches : GitSwitch(w, b)
  \/ Commit(w)
  \/ \E b \in Branches : Switch(w, b)
  \/ \E v \in Trees, b \in Branches, killed \in BOOLEAN : AddWorktree(w, v, b, killed)
  \/ \E v \in Trees, killed \in BOOLEAN : RemoveWorktree(w, v, killed)
  \/ Undo(w)
  \/ Redo(w)
  \/ \E kept \in 0..story.ops : StartTrim(w, kept)
  \/ DropLog(w)
  \/ \E b \in Branches : DropPointer(w, b)
  \/ ReplayLine(w)
  \/ ReleaseLock(w)
  \/ AppendNote(w)
  \/ Crash(w)

Spec == Init /\ [][Next]_vars

-----------------------------------------------------------------------------
(***************************************************************************)
(* Properties.                                                             *)
(***************************************************************************)

Resting == \A w \in Trees : Unlocked(w)
Says(verb) == verb \in story.verbs
Alone == story.live = {Main} /\ ~Says("worktree")
Settled == Alone /\ crashes = 0
OnlyGrows == story.verbs \subseteq {"worktree"}

(* A branch comes to be open in a second worktree by two doors only: an    *)
(* add, run in the worktree that stands on it, of its own branch, since    *)
(* create asks about the others alone; and a move along a log, which sets  *)
(* HEAD and puts worktrees back without asking.  Neither a switch, nor an  *)
(* add from elsewhere, nor git opens it again, whatever was killed         *)
(* (guard_other_worktrees, create).                                        *)
Doubled == {b \in Branches : \E v, w \in live : v # w /\ at[v] = b /\ at[w] = b}
Adds(w, b) == \E v \in Trees, killed \in BOOLEAN : AddWorktree(w, v, b, killed)
OpenedByItsHolder ==
  [][\A b \in Doubled' \ Doubled :
       \E w \in live : Undo(w) \/ Redo(w) \/ (at[w] = b /\ Adds(w, b))]_vars

(* Between verbs the shared pointer of a branch names the newest operation *)
(* on it that any worktree's log has, a removed one's included (commit_op, *)
(* move_pointer, trim_chain).  Two worktrees that undo or trim break it,   *)
(* and so does a pass that is killed half-way through its pointers.        *)
PointerNewest ==
  Resting /\ (Settled \/ OnlyGrows) =>
    \A b \in Branches :
      LET onIt == {i \in UNION {ToSet(Chain(w)) : w \in Trees} : store[i].branch = b}
      IN IF onIt = {} THEN snap[b] = None
         ELSE snap[b] \in onIt /\ \A i \in onIt : store[i].born <= store[snap[b]].born

(* A move along one worktree's log never moves a branch out from under     *)
(* another worktree, one that the move itself puts back or takes away      *)
(* included (rewind's filters on held branches, before and after the       *)
(* worktree effects).                                                      *)
HeldBranchesStay ==
  [][\A w \in Trees : Undo(w) \/ Redo(w) =>
       \A v \in Trees \ {w}, b \in Branches :
         (v \in live /\ at[v] = b) \/ (v \in live' /\ at'[v] = b) => tips'[b] = tips[b]]_vars

(* What a worktree held when it went is in an operation, whichever verb    *)
(* took it: capture before courage (remove_worktree, retire).  Not always  *)
(* one of its own log: a capture finds nothing new in an operation undo    *)
(* has left, when another worktree's move put the shared pointer there.    *)
WorkIsStored ==
  trims = 0 =>
    \A w \in Trees \ live : files[w].edit # None =>
      \E i \in DOMAIN store : store[i].files = files[w]
RemovedWorkStays == [][WorkIsStored']_vars

(* Undoing a removal that named a capture puts the worktree back with the  *)
(* files the removal took, whatever its branch, its log and its id have    *)
(* been through in between (capture_with, revive).                         *)
Reverses(i, w) == \E v \in live :
  /\ i \in ToSet(Chain(v)) /\ i > opsRef'[v]
  /\ store[i].effect.do = "remove" /\ store[i].effect.tree = w
BackAsItWas ==
  [][\A w \in live' \ live, i \in DOMAIN store :
       Reverses(i, w) /\ store[i].effect.capture # None
         => files'[w] = store[i].effect.held]_vars

(* The work of a removed worktree is never gone: it is on the log as long  *)
(* as nothing is trimmed, and an undo of the removal brings it back.       *)
RemovedWorkIsKept == RemovedWorkStays /\ BackAsItWas

(* Nothing but the cutoff takes an operation out of reach: what is on a    *)
(* chain or in its trash stays on one of them whatever step a pass is      *)
(* killed at, and a new pass replaces only the trash of the one before     *)
(* ("trash first", trim_chain).                                            *)
Born(ids) == {store[i].born : i \in ToSet(ids)}
Kept(w) == Born(Chain(w)) \cup Born(ChainIn(store, trash[w]))
RetentionIsRecoverable ==
  [][\A w \in Trees : pass'[w] # pass[w] =>
       (IF trash'[w] = trash[w] THEN Kept(w) ELSE Born(Chain(w))) \subseteq Kept(w)']_vars
=============================================================================
