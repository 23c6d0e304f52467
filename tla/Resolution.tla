----------------------------- MODULE Resolution -----------------------------
(***************************************************************************)
(* One rewrite from its plan to its landing: the verdict a verb asks for,  *)
(* the replay where it is clean, and where it is not the rounds in which   *)
(* a reader answers what each step left marked (ff-core/src/rewrite,       *)
(* absorb.rs, merge.rs, and the rounds of done.rs).  A hold names the base *)
(* and is replanned where the base stands by then.  Refs, the log and      *)
(* metadata are left to Sessions.                                          *)
(***************************************************************************)
EXTENDS Rewrite

CONSTANTS
  Stacks,        \* for each kind of rewrite the branches it is tried on: their
                 \*   commits, the newest first along first parents
  Bases,         \* tips of the branch they are rewritten onto
  Later,         \* where that branch may stand once it has moved
  Overtaken,     \* the tips whose base moves while they are held
  Contents,      \* what each file is given to hold
  Habits         \* what a reader does beside answering: "outside", "deletes"

VARIABLES
  tip, target, change,    \* the rewrite
  onto,                   \* the tip of the base
  ends,                   \* the ends of a move, and whether its folds conflict
  phase,         \* "asked", "held", "session", "landed" or "refused"
  answers,       \* Resolve.resolutions
  given,         \* Resolve.from: the tree the reader was given, or NoTree
  work,          \* what the reader made of it, or NoTree
  plan           \* what the replay made

rewrite == <<tip, target, change, onto, ends>>
vars == <<rewrite, phase, answers, given, work, plan>>

-----------------------------------------------------------------------------
(***************************************************************************)
(* The rewrites of a stack.                                                *)
(***************************************************************************)

Line(s) == Range(s)
Edited(tree) == UNION {{[tree EXCEPT ![p] = <<v>>] : v \in Contents[p]} : p \in Paths} \ {tree}

(* Faulty: a branch beneath its target is merged like any other.           *)
RelationOfTwo(one, other) == IF other \in Ancestry(one) THEN "already in" ELSE "diverged"

(* merge.rs standing, restack.rs measure_range: up to date before beneath. *)
Relation(one, other) ==
  CASE other \in Ancestry(one) -> "already in"
    [] one \in Ancestry(other) /\ one # other -> "beneath"
    [] OTHER -> "diverged"

(* floor_first: where the first-parent line leaves the base.               *)
Floor(branch, base) ==
  Last(SelectSeq(FirstParents(branch), LAMBDA c : c \notin Ancestry(base)))

(* replan_restack, merge::replan: what the rewrite is against a base.      *)
TargetOf(kind, branch, base) == IF kind = "merge" THEN branch ELSE Floor(branch, base)
ChangeOf(kind, base) == IF kind = "merge" THEN MergeOf(base) ELSE OntoOf(base)

(* A branch that was started at the tip.                                   *)
Grown(s) == {[name |-> "d", parents |-> <<s[1]>>, tree |-> t, id |-> 0] : t \in Edited(s[1].tree)}

IsRestack(s) ==
  onto \in Bases /\ target = TargetOf("onto", s[1], onto) /\ change = ChangeOf("onto", onto)
IsEdit(s) == onto = Last(s) /\ target \in Line(s) /\ \E t \in Edited(target.tree) : change = Retree(t)
IsMerge(s) ==
  /\ onto \in Bases \cup Line(s) \cup Grown(s)
  /\ target = TargetOf("merge", s[1], onto) /\ change = ChangeOf("merge", onto)
IsReword(s) == onto = Last(s) /\ target \in Line(s) /\ change = Reword("reworded")

(* resolve_ends: one run of the branch, whose target is not its source.    *)
AreEnds(from, into) == into \notin from /\ IsRun(tip, from, into)

(* move_with: a fold that conflicts is held; here it is a marked tree.     *)
IsMove(s) ==
  \E open \in {OpenChange(tip, t) : t \in Edited(tip.tree)} :
  \E from \in SUBSET (Line(s) \cup {open}), into \in Line(s) \cup {open},
     paths \in {{}} \cup {{p} : p \in Paths} :
    /\ onto = Last(s)
    /\ AreEnds(from, into)
    /\ MovedFiles(from, paths) # {}
    /\ LET m == PlanMove(tip, from, into, paths)
       IN /\ target = m.target /\ change = m.change
          /\ ends = [from |-> from, into |-> into, paths |-> paths, clash |-> m.clash]

NoEnds == [from |-> {}, into |-> NoTree, paths |-> {}, clash |-> FALSE]

Init ==
  /\ phase = "asked" /\ answers = {} /\ given = NoTree /\ work = NoTree /\ plan = Nothing
  /\ \E kind \in DOMAIN Stacks : \E s \in Stacks[kind] :
       /\ tip = s[1]
       /\ \/ kind = "onto" /\ IsRestack(s) /\ ends = NoEnds
          \/ kind = "tree" /\ IsEdit(s) /\ ends = NoEnds
          \/ kind = "move" /\ IsMove(s)
          \/ kind = "merge" /\ IsMerge(s) /\ ends = NoEnds
          \/ kind = "message" /\ IsReword(s) /\ ends = NoEnds

-----------------------------------------------------------------------------
(***************************************************************************)
(* The verb.                                                               *)
(***************************************************************************)

Based == change.kind \in {"onto", "merge"}
Standing == IF Based THEN Relation(tip, onto) ELSE "diverged"

Shown == Chain(target, tip, change, answers)
ShownStep(chain) == chain.steps[Len(chain.steps)].old

(* The tip of the branch alone is written anew.                            *)
Moved(commit) == [Nothing EXCEPT !.map = [c \in {tip} |-> commit]]

(* merge::commit: the branch's tip first.                                  *)
MergeOn(tree) == [name |-> "merge", parents |-> <<tip, onto>>, tree |-> tree, id |-> 0]

(* land_resolution: with the tree of its one step.                         *)
MergeWritten(trees) == Moved(MergeOn(trees[onto]))

(* plan_with.                                                              *)
Written(trees) ==
  IF change.kind = "merge" THEN MergeWritten(trees) ELSE Replay(target, tip, change, trees)

MergedTree == [c \in {onto} |-> Shown.tree]
Land(trees) ==
  /\ plan' = Written(trees)
  /\ phase' = IF plan'.refused THEN "refused" ELSE "landed"

(* A rewrite that is clean is written at once, any other held.  What is in *)
(* already is refused.                                                     *)
Rewrites ==
  /\ phase = "asked"
  /\ change.kind # "merge" /\ Standing = "diverged" /\ ~ends.clash /\ ~Conflicts(Shown)
  /\ Land(<<>>)
  /\ UNCHANGED <<rewrite, answers, given, work>>

Merges ==
  /\ phase = "asked"
  /\ change.kind = "merge" /\ Standing = "diverged" /\ ~Conflicts(Shown)
  /\ Land(MergedTree)
  /\ UNCHANGED <<rewrite, answers, given, work>>

(* A branch beneath its target moves there, and no commit is written.      *)
FastForwards ==
  /\ phase = "asked"
  /\ Standing = "beneath"
  /\ plan' = Moved(onto)
  /\ phase' = "landed"
  /\ UNCHANGED <<rewrite, answers, given, work>>

Holds ==
  /\ phase = "asked"
  /\ Standing = "diverged" /\ (ends.clash \/ Conflicts(Shown))
  /\ phase' = "held"
  /\ UNCHANGED <<rewrite, answers, given, work, plan>>

(* The base moves: another clone pushed, or another worktree rewrote it.   *)
(* The hold names the ref, so the rewrite is another one from here on.  A  *)
(* base that takes the whole branch in expires the hold, and is left out.  *)
Moves ==
  /\ phase \in {"held", "session"}
  /\ Based /\ onto \in Bases /\ tip \in Overtaken
  /\ onto' \in Later \cup (Ancestry(tip) \ {tip})
  /\ target' = TargetOf(change.kind, tip, onto') /\ change' = ChangeOf(change.kind, onto')
  /\ UNCHANGED <<tip, ends, phase, answers, given, work, plan>>

Opens ==
  /\ Conflicts(Shown)
  /\ phase' = "session" /\ given' = Shown.tree
  /\ UNCHANGED <<rewrite, answers, work, plan>>

Releases ==
  /\ ~Conflicts(Shown)
  /\ phase' = "asked"
  /\ UNCHANGED <<rewrite, answers, given, work, plan>>

(* ff resolve shows the chain, or lets go of a hold that is moot.  A merge *)
(* that is clean by now lands here; any other waits for its own verb.      *)
Resolves == phase = "held" /\ change.kind # "merge" /\ (Opens \/ Releases)
ResolvesMerge ==
  /\ phase = "held" /\ change.kind = "merge"
  /\ \/ Opens
     \/ Standing = "already in" /\ Releases
     \/ Standing = "diverged" /\ ~Conflicts(Shown) /\ Land(MergedTree)
        /\ UNCHANGED <<rewrite, answers, given, work>>

(* merge_door: the base is taken in, and the hold rides the session.       *)
Door == phase = "asked" /\ change.kind = "merge" /\ Standing = "diverged" /\ Opens

(* ff resolve --abandon, ff done --abandon: the session is left, the hold  *)
(* dropped or kept.                                                        *)
Abandons ==
  /\ phase = "session"
  /\ phase' \in {"held", "asked"}
  /\ answers' = {} /\ given' = NoTree
  /\ UNCHANGED <<rewrite, work, plan>>

-----------------------------------------------------------------------------
(***************************************************************************)
(* ff done on a resolution session.                                        *)
(***************************************************************************)

(* The first step the reader was not shown that still carries marks.       *)
Carrying(step) == \E p \in step.paths : Opened(step.tree[p])
Unshown(chain, shown) == {i \in DOMAIN chain.steps : chain.steps[i].old # shown /\ Carrying(chain.steps[i])}
NextConflict(chain, shown) ==
  CASE Unshown(chain, shown) # {} -> Min(Unshown(chain, shown))
    [] Unshown(chain, shown) = {} /\ chain.tangled -> Len(chain.steps) + 1
    [] OTHER -> 0

(* What a reader can have made of the tree.                                *)
Typed(chain, p) ==
  IF Blocks(chain.tree[p]) # {}
  THEN {<<v>> : v \in IF "deletes" \in Habits THEN Contents[p] \cup {Gone} ELSE Contents[p] \ {Gone}} \cup {chain.tree[p]}
  ELSE IF "outside" \in Habits THEN {<<v>> : v \in Contents[p]} \cup {chain.tree[p]}
       ELSE {chain.tree[p]}
Readings(chain) ==
  {t \in [Paths -> UNION {Typed(chain, p) : p \in Paths}] : \A p \in Paths : t[p] \in Typed(chain, p)}

Kept(all, next) == {r \in all : r.step < next}

(* roll_round: the answers below the next conflict are kept.               *)
Roll(all, next) ==
  /\ answers' = Kept(all, next)
  /\ given' = Chain(target, tip, change, Kept(all, next)).tree
  /\ UNCHANGED <<rewrite, phase, work, plan>>

(* Faulty: what the chain made of the shown step lands.                    *)
DecidedByChain(landed, shown, resolved) ==
  [c \in {landed.steps[i].old : i \in DOMAIN landed.steps} |->
     landed.steps[CHOOSE i \in DOMAIN landed.steps : landed.steps[i].old = c].tree]

(* Every step has the tree the chain gave it; the one shown, the reader's. *)
DecidedTrees(landed, shown, resolved) ==
  [c \in {landed.steps[i].old : i \in DOMAIN landed.steps} \cup {shown} |->
     IF c = shown THEN resolved
     ELSE landed.steps[CHOOSE i \in DOMAIN landed.steps : landed.steps[i].old = c].tree]

(* Faulty: an answer is not compared with its question.                    *)
UnmovedAlways(chain) == ~chain.stale

(* held/moved: the conflicts given are still the repository's.             *)
Unmoved(chain) == ~chain.stale /\ chain.tree = given

(* land_decided, or another round.                                         *)
Ends(resolved, shown, all, landed, next) ==
  IF next # 0 THEN Roll(all, next)
  ELSE /\ Land(DecidedTrees(landed, shown, resolved))
       /\ work' = resolved
       /\ UNCHANGED <<rewrite, answers, given>>
Lands(resolved, shown, all, landed) == Ends(resolved, shown, all, landed, NextConflict(landed, shown))
Reads(resolved, chain, read) ==
  /\ Unmoved(chain)
  /\ read.unresolved = {}
  /\ LET all == answers \cup read.answers
     IN Lands(resolved, ShownStep(chain), all, Chain(target, tip, change, all))
Finishes(resolved, chain) == Reads(resolved, chain, Attribute(chain, resolved))
Done(resolved) == phase = "session" /\ Finishes(resolved, Shown)

Next ==
  \/ Rewrites \/ Merges \/ FastForwards \/ Holds
  \/ Resolves \/ ResolvesMerge \/ Door \/ Abandons \/ Moves
  \/ \E resolved \in Readings(Shown) : Done(resolved)
Spec == Init /\ [][Next]_vars

-----------------------------------------------------------------------------
(***************************************************************************)
(* Properties.                                                             *)
(***************************************************************************)

Commits == DOMAIN plan.map
NewTip == plan.map[tip]
Landed == phase = "landed"
Fixed == Landed /\ work # NoTree
Swept == Beneath({NewTip})

(* What the dry run in memory calls clean the replay writes, and what it   *)
(* calls a conflict the replay would have refused: absorb.rs "after a      *)
(* clean pre-flight `plan` cannot conflict".                               *)
VerdictIsTheReplays ==
  /\ phase # "refused"
  /\ phase = "session" /\ change.kind = "onto" /\ ~Shown.stale /\ Conflicts(Shown) => Written(<<>>).refused

(* No commit a resolution writes carries a marker.                         *)
NoMarkersLand ==
  Fixed => \A c \in Commits : \A p \in Paths : ~Opened(plan.map[c].tree[p])

(* Where the reader was shown the whole stack, the tip is what they left.  *)
WorkLands == Fixed /\ ~Shown.tangled => NewTip.tree = work

(* What a resolution writes is what the reader left: the tip is their tree *)
(* where they were shown all of it, and no commit carries a marker         *)
(* (done.rs finish_resolution, land_decided).                              *)
LandsAsDecided == NoMarkersLand /\ WorkLands

(* A restack or a merge brings the branch's version of a file the base     *)
(* left alone, and the base's as it stands by then of one the branch did,  *)
(* whatever was answered in the others; a move inside the stack leaves the *)
(* tip as it was, but for what comes out of a merge.  Said of files no two *)
(* commits wrote the same text to, none the base supersedes wrote, and a   *)
(* reader left as given.                                                   *)
Before(c) == Remerged(c.parents, 0).tree
Old == RangeOf(target, tip, change)
Above == IF Based THEN Ancestry(tip) \ Ancestry(onto) ELSE InRange(target, tip)
Boundary == IF Based THEN MergeBases(tip, onto) ELSE Range(target.parents)
Base == Ancestry(onto) \ Ancestry(IF Based THEN tip ELSE onto)
Wrote(c, p) == c.tree[p] # Before(c)[p]
Fresh(p) ==
  /\ \A c, d \in Above \cup Base \cup Boundary \cup ends.from :
       Wrote(c, p) /\ c.tree[p] = d.tree[p] => c = d \/ (~Wrote(d, p) /\ c \in Ancestry(d))
  /\ \A c \in Old.superseded : ~Wrote(c, p)
Left(p) == work # NoTree => work[p] = given[p]
Untouched(cs, p) == \A c \in cs : ~Wrote(c, p)
Selected(p) == ends.paths = {} \/ p \in ends.paths
Plain(p) ==
  /\ Selected(p) => ends.into.name # "@"
  /\ \A e \in ends.from : Len(e.parents) = 1
Expected(p) ==
  LET open == {e \in ends.from : e.name = "@"}
  IN IF Selected(p) /\ open # {} THEN OneOf(open).tree[p] ELSE tip.tree[p]
ContentKept ==
  Landed => \A p \in Paths : Fresh(p) /\ Left(p) =>
    /\ Based /\ Untouched(Base, p) => NewTip.tree[p] = tip.tree[p]
    /\ Based /\ Untouched(Above, p) => NewTip.tree[p] = onto.tree[p]
    /\ work = NoTree /\ change.kind = "move" /\ Plain(p) => NewTip.tree[p] = Expected(p)
    /\ work = NoTree /\ change.kind = "message" => NewTip.tree[p] = tip.tree[p]

(* What lands has the branch's base beneath it and nothing of what was     *)
(* rewritten, and a merge has two sides: "A merge commit with one real     *)
(* side is the mess the verb exists to avoid making" (merge.rs).  The      *)
(* latter of a reader who was given a mark: a change on one side and a     *)
(* deletion on the other leave none, and the base may have gone beneath.   *)
Marked(tree) == \E p \in Paths : Opened(tree[p])
StandsWhole ==
  Landed =>
    /\ Based => onto \in Swept
    /\ change.kind # "merge" =>
         \A c \in Ancestry(tip) : c \in Commits /\ plan.map[c] # c => c \notin Swept
    /\ change.kind = "merge" /\ NewTip # onto /\ (work # NoTree => Marked(given)) =>
         \A i, j \in 1..2 : i # j => NewTip.parents[i] \notin Ancestry(NewTip.parents[j])

(* Whatever a reader makes of the marks, ff done lands or goes on: it      *)
(* keeps every answer it had and has one more.  A move into a commit above *)
(* its sources, and a deleted file, are left out.                          *)
Grows(all, next) == next # 0 => answers \subseteq Kept(all, next) /\ answers # Kept(all, next)
CountsFrom(chain, read) ==
  LET all == answers \cup read.answers
  IN read.unresolved = {} => Grows(all, NextConflict(Chain(target, tip, change, all), ShownStep(chain)))
Counts(t) == CountsFrom(Shown, Attribute(Shown, t))
Up == change.kind = "move" /\ change.into # NoInto
EveryRoundCounts ==
  phase = "session" /\ ~Up /\ Unmoved(Shown) => \A t \in Readings(Shown) : Counts(t)
=============================================================================
