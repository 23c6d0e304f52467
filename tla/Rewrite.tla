------------------------------- MODULE Rewrite -------------------------------
(***************************************************************************)
(* The rewrite engine (ff-core/src/rewrite/replay.rs, chain.rs,            *)
(* markers.rs, and the plan of a move in absorb.rs).  A rewrite changes    *)
(* one commit and replays what stands on it: `Replay' writes the result    *)
(* or refuses, `Chain' runs the same merges and lets conflicts stand as    *)
(* marked text, and `Attribute' gives each answer a reader typed over the  *)
(* marks to the step that asked.                                           *)
(*                                                                         *)
(* A commit is the record of what it holds, as a sha is: two commits that  *)
(* hold the same are one.  A file has one region.  Its text is <<v>>, or   *)
(* the block <<k, ours, theirs>> step k left there; a block with a block   *)
(* in it is a tangle.  Authors, signatures and file modes are left out.    *)
(* A message is a commit's name; a reword changes it.                      *)
(***************************************************************************)
EXTENDS Naturals, Sequences, SequencesExt, FiniteSets, FiniteSetsExt, Functions

CONSTANTS
  Paths,         \* files
  Texts,         \* what a file can hold
  Gone,          \* it does not exist
  NoTree         \* no tree

ASSUME GoneIsAText == Gone \in Texts

Trees == [Paths -> {<<v>> : v \in Texts}]
EmptyTree == [p \in Paths |-> <<Gone>>]

-----------------------------------------------------------------------------
(***************************************************************************)
(* Text, and the merge of trees.                                           *)
(***************************************************************************)

IsBlock(text) == Len(text) = 3
Opened(text) == IsBlock(text)

(* markers.rs blocks: a nested opener is a tangle, and none of its blocks  *)
(* is found.                                                               *)
Tangled(text) == IsBlock(text) /\ (IsBlock(text[2]) \/ IsBlock(text[3]))
Blocks(text) == IF IsBlock(text) /\ ~Tangled(text) THEN {text} ELSE {}
StepOf(block) == block[1]

(* The three-way merge of a file: the side that moved, or a conflict.      *)
(* Between a change and a deletion no text can be marked: the change is    *)
(* left standing.                                                          *)
Clashes(base, ours, theirs) == ours # theirs /\ base # ours /\ base # theirs
MergeText(base, ours, theirs, k) ==
  CASE base = ours \/ ours = theirs -> theirs
    [] base = theirs -> ours
    [] ours = <<Gone>> -> theirs
    [] theirs = <<Gone>> -> ours
    [] OTHER -> <<k, ours, theirs>>

Merged(base, ours, theirs, k) ==
  [tree |-> [p \in Paths |-> MergeText(base[p], ours[p], theirs[p], k)],
   paths |-> {p \in Paths : Clashes(base[p], ours[p], theirs[p])}]

(* The paths `selectors' names are taken from other; none names them all.  *)
Filtered(base, other, selectors) ==
  IF selectors = {} THEN other
  ELSE [p \in Paths |-> IF p \in selectors THEN other[p] ELSE base[p]]

Changed(base, other) == {p \in Paths : base[p] # other[p]}

-----------------------------------------------------------------------------
(***************************************************************************)
(* Commits.                                                                *)
(***************************************************************************)

RECURSIVE Ancestry(_)
Ancestry(c) == {c} \cup UNION {Ancestry(p) : p \in Range(c.parents)}

OneOf(S) == CHOOSE c \in S : TRUE

(* merge_base: the common ancestor with the others beneath it, or none.    *)
MergeBases(a, b) ==
  LET both == Ancestry(a) \cap Ancestry(b)
  IN {c \in both : both \subseteq Ancestry(c)}

(* Parents without repeats, and without those beneath another.             *)
Simplified(parents) ==
  LET distinct == FoldLeft(LAMBDA kept, p : IF Contains(kept, p) THEN kept ELSE Append(kept, p),
                           <<>>, parents)
  IN SelectSeq(distinct,
       LAMBDA p : \A q \in Range(distinct) \ {p} : p \notin Ancestry(q))

(* The tree the parents of a commit make between them, or where their      *)
(* merge stopped.                                                          *)
RECURSIVE MergeIn(_, _, _, _)
MergeIn(first, rest, ours, k) ==
  IF rest = <<>> THEN [tree |-> ours, paths |-> {}]
  ELSE LET base == MergeBases(first, Head(rest))
           m == Merged(OneOf(base).tree, ours, Head(rest).tree, k)
       IN CASE base = {} -> [tree |-> first.tree, paths |-> {}]
            [] m.paths # {} -> m
            [] OTHER -> MergeIn(first, Tail(rest), m.tree, k)

Remerged(parents, k) ==
  IF parents = <<>> THEN [tree |-> EmptyTree, paths |-> {}]
  ELSE MergeIn(parents[1], Tail(parents), parents[1].tree, k)

-----------------------------------------------------------------------------
(***************************************************************************)
(* Changes, and what they reach.                                           *)
(***************************************************************************)

Reword(text) == [kind |-> "message", text |-> text]
Retree(tree) == [kind |-> "tree", tree |-> tree]
OntoOf(onto) == [kind |-> "onto", onto |-> onto]
MoveOf(tree, lifted, into) == [kind |-> "move", tree |-> tree, lifted |-> lifted, into |-> into]
MergeOf(other) == [kind |-> "merge", other |-> other]

NoInto == [id |-> NoTree, tree |-> NoTree, paths |-> {}]
IsInto(change, id) == change.kind = "move" /\ change.into.id = id
Hands(change) == change.kind \in {"tree", "move"}

(* order_range: below before above, the last parent first.                 *)
RECURSIVE Visit(_, _, _)
Visit(done, c, range) ==
  IF c \notin range \/ Contains(done, c) THEN done
  ELSE Append(FoldLeft(LAMBDA d, p : Visit(d, p, range), done, Reverse(c.parents)), c)

Beneath(cs) == UNION {Ancestry(c) : c \in cs}
InRange(target, tip) == Ancestry(tip) \ Beneath(Range(target.parents))

(* superseded_by: the newest commit of the base with the change id.        *)
Twins(c, onto, boundary) ==
  {b \in Ancestry(onto) \ Beneath(boundary) : c.id # 0 /\ b.id = c.id}
Newest(cs) == CHOOSE c \in cs : \A d \in cs : c \in Ancestry(d) => c = d

(* range_of: the commits in order, those the change reaches, those of them *)
(* the base already holds, and the parents outside the range it holds.     *)
RangeOf(target, tip, change) ==
  LET range == InRange(target, tip)
      ordered == Visit(<<>>, tip, range)
      affected == {c \in range : target \in Ancestry(c)}
      boundary == Range(target.parents)
      entering == UNION {{c.parents[i] : i \in {j \in DOMAIN c.parents : c # target \/ j # 1}}
                         : c \in affected} \ affected
      twin(c) == Twins(c, change.onto, boundary)
  IN [ordered |-> SelectSeq(ordered, LAMBDA c : c \in affected),
      superseded |-> IF change.kind = "onto" THEN {c \in affected : twin(c) # {}} ELSE {},
      outside |-> IF change.kind = "onto"
                  THEN [c \in {d \in entering : twin(d) # {}} |-> Newest(twin(c))]
                  ELSE <<>>]

(* The parents a commit is written on.                                     *)
Remapped(c, target, change, map, outside) ==
  LET of(p) == IF p \in DOMAIN map THEN map[p]
               ELSE IF p \in DOMAIN outside THEN outside[p] ELSE p
      through == [i \in DOMAIN c.parents |-> of(c.parents[i])]
      onto == IF c = target /\ change.kind = "onto"
              THEN <<change.onto>> \o SubSeq(through, 2, Len(through)) ELSE through
  IN IF change.kind = "message" THEN onto ELSE Simplified(onto)

(* their_of: a commit of a move is replayed without what moved.            *)
TheirOf(change, c, base) ==
  CASE change.kind = "move" /\ c \in DOMAIN change.lifted -> change.lifted[c]
    [] IsInto(change, c) -> Filtered(c.tree, base, change.into.paths)
    [] OTHER -> c.tree

-----------------------------------------------------------------------------
(***************************************************************************)
(* A step: a commit's own change laid over what its new parents give it.   *)
(***************************************************************************)

Intact(text, blocks) == ~Tangled(text) /\ blocks \subseteq Blocks(text)

(* What a commit's own change is measured from: the tree its parents make. *)
OldBase(c, k) == Remerged(c.parents, k).tree

(* At a merge, a block an earlier step left on one of the parents stands,  *)
(* the earliest first, whatever the merge of the parents made of it.       *)
Winner(parents, p) ==
  LET marked == {i \in DOMAIN parents : Blocks(parents[i].tree[p]) # {}}
      step(i) == StepOf(parents[i].tree[p])
  IN parents[CHOOSE i \in marked : \A j \in marked :
               step(i) < step(j) \/ (step(i) = step(j) /\ i <= j)]

Deferred(parents, carried) ==
  {p \in carried : Len(parents) >= 2 /\ \E i \in DOMAIN parents : Blocks(parents[i].tree[p]) # {}}
TakenOver(parents, made, deferred) ==
  {p \in deferred : ~Intact(made[p], Blocks(Winner(parents, p).tree[p]))}
FoldOf(parents, made, taken) ==
  [p \in Paths |-> IF p \in taken THEN Winner(parents, p).tree[p] ELSE made[p]]

(* A conflict stands as the fold left it where a block was there already.  *)
Laid(own, fold, left, deferred, k) ==
  LET earlier(p) == {b \in Blocks(fold[p]) : StepOf(b) # k}
      again == (own.paths \cap left) \cup {p \in deferred : ~Intact(own.tree[p], earlier(p))}
      tree == [p \in Paths |-> IF p \in again THEN fold[p] ELSE own.tree[p]]
  IN [tree |-> tree, fold |-> fold,
      paths |-> {p \in own.paths : p \in deferred => \E b \in Blocks(tree[p]) : StepOf(b) = k}
                \cup {p \in left : Opened(tree[p])}]

LaidOver(c, change, base, fold, left, deferred, k) ==
  Laid(Merged(base, fold, TheirOf(change, c, base), k), fold, left, deferred, k)
StepOver(c, parents, change, k, made, deferred, taken) ==
  LaidOver(c, change, OldBase(c, k), FoldOf(parents, made.tree, taken), made.paths \ taken, deferred, k)
StepTree(c, parents, change, k, carried) ==
  LET made == Remerged(parents, k)
      deferred == Deferred(parents, carried)
  IN StepOver(c, parents, change, k, made, deferred, TakenOver(parents, made.tree, deferred))

(* A path a conflicted fold marked.                                        *)
MarkedPaths(before, after) == {p \in Changed(before, after) : Blocks(after[p]) # {}}

-----------------------------------------------------------------------------
(***************************************************************************)
(* The replay.                                                             *)
(***************************************************************************)

(* The name the target of a reword takes.                                  *)
NameOf(c, target, change) ==
  IF c = target /\ change.kind = "message" THEN change.text ELSE c.name

(* One commit of the replay: refused, dropped onto its parent, or written. *)
WithInto(step, c, change) ==
  [tree |-> IF IsInto(change, c) THEN Filtered(step.tree, change.into.tree, change.into.paths)
            ELSE step.tree,
   paths |-> step.paths]
ReplayTree(c, target, change, parents, k, trees) ==
  CASE change.kind = "message" -> [tree |-> c.tree, paths |-> {}]
    [] change.kind # "message" /\ c \in DOMAIN trees -> [tree |-> trees[c], paths |-> {}]
    [] Hands(change) /\ c = target /\ c \notin DOMAIN trees -> [tree |-> change.tree, paths |-> {}]
    [] OTHER -> WithInto(StepTree(c, parents, change, k, {}), c, change)

Onto(map, c, d) == [x \in DOMAIN map \cup {c} |-> IF x = c THEN d ELSE map[x]]
Dropped(acc, c, parent, why) ==
  [acc EXCEPT !.map = Onto(@, c, parent), !.dropped = @ \cup {[commit |-> c, why |-> why]}]
Replayed(acc, c, target, change, range, parents, step) ==
  LET new == [name |-> NameOf(c, target, change), parents |-> parents, tree |-> step.tree, id |-> c.id]
  IN CASE acc.refused -> acc
       [] c \in range.superseded /\ Len(parents) = 1 -> Dropped(acc, c, parents[1], "superseded")
       [] step.paths # {} -> [acc EXCEPT !.refused = TRUE]
       [] change.kind # "message" /\ Len(parents) = 1 /\ step.tree = parents[1].tree ->
            [Dropped(acc, c, parents[1], "empty") EXCEPT !.written = @ + 1]
       [] OTHER -> [acc EXCEPT !.map = Onto(@, c, new), !.written = @ + 1]
ReplayOn(acc, c, target, change, range, trees, parents) ==
  Replayed(acc, c, target, change, range, parents,
           ReplayTree(c, target, change, parents, acc.written + 1, trees))
ReplayStep(acc, c, target, change, range, trees) ==
  ReplayOn(acc, c, target, change, range, trees, Remapped(c, target, change, acc.map, range.outside))

Nothing == [map |-> <<>>, dropped |-> {}, written |-> 0, refused |-> FALSE]

Replay(target, tip, change, trees) ==
  LET range == RangeOf(target, tip, change)
  IN FoldLeft(LAMBDA acc, c : ReplayStep(acc, c, target, change, range, trees),
              Nothing, range.ordered)

-----------------------------------------------------------------------------
(***************************************************************************)
(* The chain.                                                              *)
(***************************************************************************)

(* apply_resolutions: an answer to a block that is not there is stale.     *)
Stale(tree, k, answers) == \E r \in answers : r.step = k /\ tree[r.path] # r.block
Answered(tree, k, answers) ==
  [p \in Paths |-> IF \E r \in answers : r.step = k /\ r.path = p
                   THEN (CHOOSE r \in answers : r.step = k /\ r.path = p).with ELSE tree[p]]

(* A block that comes from below must have come through untouched.         *)
Drifted(text, fold, k) == \E b \in Blocks(text) : StepOf(b) # k /\ b \notin Blocks(fold)

ChainInto(step, c, change) ==
  IF IsInto(change, c)
  THEN [tree |-> Filtered(step.tree, change.into.tree, change.into.paths),
        fold |-> step.fold,
        paths |-> step.paths \cup MarkedPaths(c.tree, change.into.tree)]
  ELSE step
ChainTree(c, target, change, parents, k, reported) ==
  CASE change.kind = "message" -> [tree |-> c.tree, fold |-> c.tree, paths |-> {}]
    [] Hands(change) /\ c = target ->
         [tree |-> change.tree, fold |-> change.tree, paths |-> MarkedPaths(c.tree, change.tree)]
    [] OTHER -> ChainInto(StepTree(c, parents, change, k, reported), c, change)

Simulated(acc, c, parents, step, tree, reported) ==
  LET sim == [name |-> c.name, parents |-> parents, tree |-> tree, id |-> c.id]
  IN [acc EXCEPT !.steps = Append(@, [old |-> c, tree |-> tree, paths |-> step.paths]),
                 !.sim = Onto(@, c, sim), !.reported = reported, !.tree = tree]
Chained(acc, c, range, parents, step, k, answers) ==
  LET reported == acc.reported \cup step.paths
  IN CASE acc.tangled \/ acc.stale -> acc
       [] c \in range.superseded /\ Len(parents) = 1 -> [acc EXCEPT !.sim = Onto(@, c, parents[1])]
       [] \E p \in reported : Tangled(step.tree[p]) \/ Drifted(step.tree[p], step.fold[p], k) ->
            [acc EXCEPT !.tangled = TRUE]
       [] Stale(step.tree, k, answers) -> [acc EXCEPT !.stale = TRUE]
       [] OTHER -> Simulated(acc, c, parents, step, Answered(step.tree, k, answers), reported)
ChainOn(acc, c, target, change, range, answers, parents, k) ==
  Chained(acc, c, range, parents, ChainTree(c, target, change, parents, k, acc.reported), k, answers)
ChainStep(acc, c, target, change, range, answers) ==
  ChainOn(acc, c, target, change, range, answers,
          Remapped(c, target, change, acc.sim, range.outside), Len(acc.steps) + 1)

MergeChain(tip, other, answers) ==
  LET base == OneOf(MergeBases(tip, other))
      m == IF base = other THEN [tree |-> tip.tree, paths |-> {}]
           ELSE Merged(base.tree, tip.tree, other.tree, 1)
      tree == Answered(m.tree, 1, answers)
  IN [steps |-> <<[old |-> other, tree |-> tree, paths |-> m.paths]>>, sim |-> <<>>,
      reported |-> m.paths, tree |-> tree, tangled |-> FALSE, stale |-> Stale(m.tree, 1, answers)]

Chain(target, tip, change, answers) ==
  LET range == RangeOf(target, tip, change)
      start == [steps |-> <<>>, sim |-> <<>>, reported |-> {}, tangled |-> FALSE, stale |-> FALSE,
                tree |-> CASE change.kind = "onto" -> change.onto.tree
                           [] Hands(change) -> change.tree
                           [] OTHER -> EmptyTree]
  IN IF change.kind = "merge" THEN MergeChain(tip, change.other, answers)
     ELSE FoldLeft(LAMBDA acc, c : ChainStep(acc, c, target, change, range, answers),
                   start, range.ordered)

(* Faulty: only the top of the stack is looked at.                         *)
ConflictsLast(chain) == chain.steps # <<>> /\ Last(chain.steps).paths # {}

(* conflict: the first step that leaves something to a reader.             *)
Conflicts(chain) == \E i \in DOMAIN chain.steps : chain.steps[i].paths # {}

Asked(chain) == UNION {chain.steps[i].paths : i \in DOMAIN chain.steps}

(* Faulty: a chain that stopped has a last step too.                       *)
LastStepAlways(chain) == Len(chain.steps)

TypedOver(resolved, marked) == {p \in marked : ~Opened(resolved[p])}

(* Each block the reader left, and an answer for each one typed over.  The *)
(* last step of a whole chain takes the reader's tree, and needs none.  A  *)
(* marked file that was deleted is an edit outside every region.           *)
LastStep(chain) == IF chain.tangled THEN 0 ELSE Len(chain.steps)
Deleted(chain, resolved, p) == resolved[p] = <<Gone>> /\ chain.tree[p] # <<Gone>>
Attribute(chain, resolved) ==
  LET marked == {p \in Asked(chain) : Blocks(chain.tree[p]) # {} /\ ~Deleted(chain, resolved, p)}
      typed == TypedOver(resolved, marked)
  IN [unresolved |-> marked \ typed,
      answers |-> {[step |-> StepOf(chain.tree[p]), path |-> p, block |-> chain.tree[p],
                    with |-> resolved[p]]
                   : p \in {q \in typed : StepOf(chain.tree[q]) # LastStep(chain)}},
      outside |-> {p \in Changed(chain.tree, resolved) : p \notin marked}]

-----------------------------------------------------------------------------
(***************************************************************************)
(* The plan of a move (absorb.rs).  An end of it is a commit, or the open  *)
(* change, whose parent is the tip.                                        *)
(***************************************************************************)

RECURSIVE FirstParents(_)
FirstParents(c) == IF c.parents = <<>> THEN <<c>> ELSE <<c>> \o FirstParents(c.parents[1])

(* The open change stands on the tip.                                      *)
OpenChange(tip, tree) == [name |-> "@", parents |-> <<tip>>, tree |-> tree, id |-> 0]
Depth(tip, end) ==
  IF end.name = "@" THEN 0
  ELSE CHOOSE d \in DOMAIN FirstParents(tip) : FirstParents(tip)[d] = end
UnderTree(end) == IF end.parents = <<>> THEN EmptyTree ELSE end.parents[1].tree

(* resolve_run: one run of sources; only the target may stand in it.       *)
IsRun(tip, from, into) ==
  /\ from # {}
  /\ LET ds == {Depth(tip, e) : e \in from}
     IN \A d \in Min(ds)..Max(ds) : d \in ds \/ d = Depth(tip, into)

(* A source without what moves out of it.                                  *)
Lifted(end, paths) == Filtered(end.tree, UnderTree(end), paths)

(* Content above the target is folded in up front, by a merge when they    *)
(* are not neighbours.                                                     *)
Folded(under, target, above, paths, k) ==
  LET theirs == Filtered(under, above, paths)
  IN IF target = under THEN [tree |-> theirs, paths |-> {}]
     ELSE Merged(under, target, theirs, k)

(* Run: the ends of it, the deepest commit that is written anew, and the   *)
(* sources that stand above the target.                                    *)
Lowest(tip, from) == CHOOSE e \in from : \A f \in from : Depth(tip, f) <= Depth(tip, e)
Highest(tip, from) == CHOOSE e \in from : \A f \in from : Depth(tip, e) <= Depth(tip, f)
Bottom(tip, from, into) == Lowest(tip, from \cup {into})
AboveTarget(tip, from, into) == {e \in from : Depth(tip, e) < Depth(tip, into)}

PlanMove(tip, from, into, paths) ==
  LET depth(e) == Depth(tip, e)
      lo == Lowest(tip, from)
      hi == Highest(tip, from)
      closed == {e \in from : e.name # "@"}
      above == AboveTarget(tip, from, into)
      under == Lowest(tip, above)
      below == depth(into) > depth(lo)
      bottom == Bottom(tip, from, into)
      k == depth(bottom) - depth(into) + 1
      lifted(es) == [e \in es |-> Lifted(e, paths)]
      down == Folded(UnderTree(lo), into.tree, hi.tree, paths, 1)
      up == IF above = {} THEN [tree |-> into.tree, paths |-> {}]
            ELSE Folded(UnderTree(under), into.tree, hi.tree, paths, k)
  IN IF below
     THEN [target |-> bottom, clash |-> down.paths # {},
           change |-> MoveOf(down.tree, lifted(closed), NoInto)]
     ELSE [target |-> bottom, clash |-> into.name # "@" /\ up.paths # {},
           change |-> MoveOf(Lifted(lo, paths), lifted(closed \ {lo}),
             IF into.name = "@" THEN NoInto ELSE [id |-> into, tree |-> up.tree, paths |-> paths])]

(* moved_files: what the filter leaves of what the sources brought.        *)
MovedFiles(from, paths) ==
  UNION {Changed(UnderTree(e), Filtered(UnderTree(e), e.tree, paths)) : e \in from}
=============================================================================
