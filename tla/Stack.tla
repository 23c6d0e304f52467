-------------------------------- MODULE Stack --------------------------------
(***************************************************************************)
(* Branches that sit on branches, and what moving one does to the rest     *)
(* (ff-core/src/cascade.rs, restack.rs, fold.rs, prune.rs, and the ends of *)
(* describe.rs and absorb.rs).  A branch is a straight line of commits; a  *)
(* commit is named by what it holds and by the line beneath it, as a sha   *)
(* is, and every line stands on one root no rewrite reaches.  A commit     *)
(* writes one path, and replaying it is the three-way merge of that path;  *)
(* module Rewrite is the whole engine.  A resolution session is one step   *)
(* here, module Sessions says how it goes.  Merge commits, open changes,   *)
(* commits without a change id and bases on a remote are left out, and with*)
(* them the policies of `fufu.pull' but two: replay, and stay.             *)
(***************************************************************************)
EXTENDS Naturals, Sequences, SequencesExt, FiniteSets, FiniteSetsExt, Functions

CONSTANTS
  None,
  Branches,    \* local branch names
  Trunk,       \* the one that sits on nothing
  Paths,       \* files
  Starts,      \* what a behaviour starts from: [repo, other, made, left, spare],
               \* the values of w, other and made, and the budgets of what may
               \* happen
  MaxCommits   \* bound on changes made, those the branches start with included

ASSUME TrunkIsABranch == Trunk \in Branches /\ None \notin Branches
ASSUME BranchesAssumption == IsFiniteSet(Branches)

VARIABLES
  w,       \* [head, line, parent, held, stays, old]: the refs, the branches'
           \* metadata, the branches `fufu.pull' leaves standing, and the commits
           \* the operation log says were rewritten or dropped
  been,    \* [Branches -> set of lines]  each branch's reflog
  pushed,  \* [Branches -> line or None]  where its shared copy last stood
  other,   \* the branch another worktree stands on, or None
  made,    \* change ids given out
  before,  \* w as the newest operation would be undone to, or None
  left     \* [verbs, hops, undos]  bounds verbs, switches and pushes, undos

vars == <<w, been, pushed, other, made, before, left>>

(* f where it says something, and g elsewhere.                             *)
Over(f, g) == [x \in DOMAIN f \cup DOMAIN g |-> IF x \in DOMAIN f THEN f[x] ELSE g[x]]

-----------------------------------------------------------------------------
(***************************************************************************)
(* Lines.                                                                  *)
(***************************************************************************)

Commit(id, path) == [id |-> id, path |-> path, text |-> 0, name |-> 0]

Below(line, k) == SubSeq(line, 1, k)
Ids(line) == {line[k].id : k \in DOMAIN line}

(* A commit has a change id, and no line of a repository that fufu finds    *)
(* has one twice.                                                           *)
Commits == [id : Nat \ {0}, path : Paths, text : Nat, name : Nat]
IsLine(l) ==
  /\ l \in Seq(Commits)
  /\ \A j, k \in DOMAIN l : l[j].id = l[k].id => j = k

ASSUME NoneIsNoLine == ~IsLine(None)

(* A commit is known by the line that ends in it.                           *)
Above(line, k) == {Below(line, j) : j \in (k + 1)..Len(line)}

(* merge_bases: how far two lines are one.                                 *)
Meet(l, m) ==
  Max({k \in 0..Min({Len(l), Len(m)}) : Below(l, k) = Below(m, k)})
Within(l, m) == IsPrefix(l, m)

(* What a path holds: who wrote it last, and what.                         *)
NoText == <<0, 0>>
Text(line, path) ==
  LET by == {k \in DOMAIN line : line[k].path = path}
  IN IF by = {} THEN NoText ELSE <<line[Max(by)].id, line[Max(by)].text>>

-----------------------------------------------------------------------------
(***************************************************************************)
(* The replay of what `old' holds above its first `from' commits.          *)
(***************************************************************************)

(* Faulty: a change the base holds is replayed again.                      *)
SupersededNever(old, from, onto, id) == FALSE

(* A change the new base holds above where the range left it.              *)
Superseded(old, from, onto, id) ==
  id \in Ids(SubSeq(onto, Meet(Below(old, from), onto) + 1, Len(onto)))

(* `answered' is the replay of a resolution, whose reader writes a new text*)
(* wherever two sides disagree.                                            *)
ReplayOne(old, from, onto, answered, acc, k) ==
  LET c == old[k]
      base == Text(Below(old, k - 1), c.path)
      ours == Text(acc.line, c.path)
      asks == base # ours
  IN IF Superseded(old, from, onto, c.id) \/ ours = <<c.id, c.text>> THEN acc
     ELSE IF ~asks THEN [acc EXCEPT !.line = Append(@, c)]
     ELSE IF answered THEN [acc EXCEPT !.line = Append(@, [c EXCEPT !.text = @ + 1]), !.clean = FALSE]
     ELSE [acc EXCEPT !.clean = FALSE]

Replay(old, from, onto, answered) ==
  LET upTo[k \in 0..(Len(old) - from)] ==
        IF k = 0 THEN [line |-> onto, clean |-> TRUE]
        ELSE ReplayOne(old, from, onto, answered, upTo[k - 1], from + k)
  IN upTo[Len(old) - from]

-----------------------------------------------------------------------------
(***************************************************************************)
(* The stack, and the cascade above a branch that moved.                   *)
(***************************************************************************)

Live(r) == {b \in Branches : r.line[b] # None}

(* base_for: the recorded parent while it leads anywhere, else trunk.      *)
Base(r, b) ==
  IF r.parent[b] \in Live(r) \ {b} THEN r.parent[b]
  ELSE IF b # Trunk /\ Trunk \in Live(r) THEN Trunk ELSE None
Children(r, b) == {c \in Live(r) : Base(r, c) = b}

(* What the base held and what it holds now are both its own.              *)
Boundary(tip, old, new) == Max({Meet(tip, old), Meet(tip, new)})

Skipped(r, b) == b = other \/ r.held[b] # None
NothingOfItsOwn(tip, old, new) == Within(tip, new) \/ Within(new, tip) \/ Within(tip, old)
Followed(tip, old, new) == Replay(tip, Boundary(tip, old, new), new, FALSE)

(* One rank of the walk: the children of the branches the last rank moved. *)
(* `rebuilt' is the replay of each that follows: it moves, or it is held.  *)
BaseWas(r, c) == r.line[Base(r, c)]
BaseIs(r, plan, c) == plan.front[Base(r, c)]
Asked(r, plan) == (UNION {Children(r, b) : b \in DOMAIN plan.front}) \ plan.visited
MustFollow(r, plan, asked) ==
  {c \in asked : /\ ~Skipped(r, c)
                 /\ ~NothingOfItsOwn(r.line[c], BaseWas(r, c), BaseIs(r, plan, c))
                 /\ c \notin r.stays}
Rebuilt(r, plan, follow) ==
  [c \in follow |-> Followed(r.line[c], BaseWas(r, c), BaseIs(r, plan, c))]
RankOf(r, plan, asked, rebuilt) ==
  LET clean == {c \in DOMAIN rebuilt : rebuilt[c].clean}
      front == [c \in clean |-> rebuilt[c].line]
  IN [front |-> front,
      visited |-> plan.visited \cup asked,
      moved |-> Over(front, plan.moved),
      old |-> plan.old \cup UNION {Above(r.line[c], Boundary(r.line[c], BaseWas(r, c), BaseIs(r, plan, c))) : c \in clean},
      holds |-> Over([c \in DOMAIN rebuilt \ clean |-> Base(r, c)], plan.holds)]
Rank(r, plan) ==
  LET asked == Asked(r, plan)
  IN RankOf(r, plan, asked, Rebuilt(r, plan, MustFollow(r, plan, asked)))

NoMoves == [b \in {} |-> None]
Started(root, new) ==
  [front |-> [b \in {root} |-> new], visited |-> {root}, moved |-> NoMoves, old |-> {}, holds |-> NoMoves]

(* Faulty: only the children follow.                                       *)
CascadeChildren(r, root, new) ==
  IF new = r.line[root] THEN Started(root, new) ELSE Rank(r, Started(root, new))

Cascade(r, root, new) ==
  LET ranks[k \in 0..Cardinality(Branches)] ==
        IF k = 0 THEN Started(root, new) ELSE Rank(r, ranks[k - 1])
  IN IF new = r.line[root] THEN Started(root, new) ELSE ranks[Cardinality(Branches)]

(* The repository once `root' stands on `new' and the cascade has landed.  *)
LandedOn(r, root, new, plan) ==
  [r EXCEPT !.line = Over(plan.moved, [@ EXCEPT ![root] = new]),
            !.old = @ \cup plan.old,
            !.held = Over(plan.holds, @)]
Landed(r, root, new) == LandedOn(r, root, new, Cascade(r, root, new))

-----------------------------------------------------------------------------
(***************************************************************************)
(* Verbs.  Each is one operation, and the newest can be undone.            *)
(***************************************************************************)

Logged(r) ==
  [b \in Branches |->
     IF r.line[b] = None THEN {}
     ELSE IF w.line[b] = None THEN {r.line[b]}
     ELSE been[b] \cup {r.line[b]}]

Spend(what) == left[what] > 0 /\ left' = [left EXCEPT ![what] = @ - 1]

Verb(r) ==
  /\ Spend("verbs")
  /\ w' = r
  /\ been' = Logged(r)
  /\ before' = w
  /\ UNCHANGED <<pushed, other>>

Switch(b) ==
  /\ b \in Live(w) \ {w.head, other}
  /\ Spend("hops")
  /\ w' = [w EXCEPT !.head = b]
  /\ before' = w
  /\ UNCHANGED <<been, pushed, other, made>>

(* ff commit: a commit on HEAD's branch, and nothing above it moves.       *)
Close(path) ==
  /\ made < MaxCommits
  /\ made' = made + 1
  /\ Verb([w EXCEPT !.line[w.head] = Append(@, Commit(made', path))])

(* ff describe <rev> and ff absorb: commit k of HEAD's line is written     *)
(* anew, every head inside the rewritten range is carried, and the branches*)
(* above HEAD's follow.  An absorb that conflicts holds and moves nothing. *)
RewriteTo(k, done, after) ==
  LET line == w.line[w.head]
      carried == {b \in Live(w) : Within(w.line[b], line) /\ Len(w.line[b]) >= k}
      moved == [b \in carried |-> Below(done.line, Len(w.line[b]))]
  IN /\ \A b \in carried \ {w.head} : after.line[b] = w.line[b]
     /\ Verb([after EXCEPT !.line = Over(moved, @), !.old = @ \cup Above(line, k - 1)])
RewriteOf(k, done) == done.clean /\ RewriteTo(k, done, Landed(w, w.head, done.line))
Rewrite(k, rewritten) ==
  LET line == w.line[w.head]
  IN RewriteOf(k, Replay(line, k, Append(Below(line, k - 1), rewritten), FALSE)) /\ UNCHANGED made

Reword(k) == Rewrite(k, [w.line[w.head][k] EXCEPT !.name = @ + 1])
Amend(k) == Rewrite(k, [w.line[w.head][k] EXCEPT !.text = @ + 1])

-----------------------------------------------------------------------------
(***************************************************************************)
(* ff restack.                                                             *)
(***************************************************************************)

(* Faulty: the branch's own reflog is asked.                               *)
ForkedFromItself(b, base) == Max({Meet(w.line[b], l) : l \in {w.line[base]} \cup (been[b] \ {w.line[b]})})

(* range_boundary: where a branch forked from anywhere its base has stood.  *)
ForkedFrom(tip, onto, stood) == Max({Meet(tip, l) : l \in {onto} \cup (stood \ {tip})})
Forked(b, base) == ForkedFrom(w.line[b], w.line[base], been[base])
Ahead(b, base) == SubSeq(w.line[b], Forked(b, base) + 1, Len(w.line[b]))

Replaced(b, base) == IF Within(w.line[b], w.line[base]) \/ Within(w.line[base], w.line[b]) THEN {}
                     ELSE Above(w.line[b], Forked(b, base))

UpToDate(b, base) == Within(w.line[base], w.line[b])
FastForward(b, base) == Within(w.line[b], w.line[base]) /\ ~UpToDate(b, base)
Replayed(b, base, answered) == Replay(w.line[b], Forked(b, base), w.line[base], answered)

(* before_rewrite and landing_on: the hold a restack leaves standing.      *)
HoldAfter(b, base, aimed) == IF aimed \/ w.held[b] = base THEN None ELSE w.held[b]
Reaimed(b, base, aimed) == IF aimed THEN base ELSE w.parent[b]

Restacked(b, base, aimed, new) ==
  Landed([w EXCEPT !.parent[b] = Reaimed(b, base, aimed),
                   !.held[b] = HoldAfter(b, base, aimed),
                   !.old = @ \cup Replaced(b, base)], b, new)

(* The restack of b onto base, `aimed' when --onto named it: only the      *)
(* parent is written, or the ref moves up its base, or the branch's own    *)
(* commits are replayed, or a replay that conflicts is held.               *)
Reaim(b, base, aimed) ==
  /\ UpToDate(b, base)
  /\ aimed /\ w.parent[b] # base
  /\ Verb(Restacked(b, base, aimed, w.line[b]))

MoveUp(b, base, aimed) ==
  /\ FastForward(b, base)
  /\ Verb(Restacked(b, base, aimed, w.line[base]))

Parted(b, base) == ~UpToDate(b, base) /\ ~FastForward(b, base) /\ Ahead(b, base) # <<>>

ReplayOnto(b, base, aimed) ==
  /\ Parted(b, base)
  /\ Replayed(b, base, FALSE).clean
  /\ Verb(Restacked(b, base, aimed, Replayed(b, base, FALSE).line))

HoldOnto(b, base, aimed) ==
  /\ Parted(b, base)
  /\ ~Replayed(b, base, FALSE).clean
  /\ w.held[b] = None \/ (aimed /\ w.held[b] # base)
  /\ Verb([w EXCEPT !.held[b] = base])

RestackOnto(b, base, aimed) ==
  /\ b \in Live(w) \ {other}
  /\ base \in Live(w) \ {b}
  /\ \/ Reaim(b, base, aimed)
     \/ MoveUp(b, base, aimed)
     \/ ReplayOnto(b, base, aimed)
     \/ HoldOnto(b, base, aimed)
  /\ UNCHANGED made

Restack(b) == RestackOnto(b, Base(w, b), FALSE)
RestackAimed(b, base) == RestackOnto(b, base, TRUE)

(* ff resolve and the ff done that ends it: the replay is planned anew, and*)
(* lands with the reader's answers, or there is nothing left to ask and the*)
(* hold is let go, which is no operation; what an undo makes of that is    *)
(* module Sessions'.                                                       *)
Resolve(b) ==
  LET base == w.held[b]
  IN /\ b \in Live(w) \ {other}
     /\ base \in Live(w)
     /\ Ahead(b, base) # <<>>
     /\ \/ /\ ~Replayed(b, base, FALSE).clean
           /\ Verb(Restacked(b, base, TRUE, Replayed(b, base, TRUE).line))
           /\ UNCHANGED made
        \/ /\ Replayed(b, base, FALSE).clean
           /\ w' = [w EXCEPT !.held[b] = None]
           /\ before' = None
           /\ UNCHANGED <<been, pushed, other, made, left>>

-----------------------------------------------------------------------------
(***************************************************************************)
(* ff fold and ff branch --prune.                                          *)
(***************************************************************************)

(* What restack would make of the source on the target, or nothing.        *)
FoldsTo(source, target) ==
  IF UpToDate(source, target) THEN <<w.line[source]>>
  ELSE IF FastForward(source, target) THEN <<w.line[target]>>
  ELSE IF Ahead(source, target) = <<>> \/ ~Replayed(source, target, FALSE).clean THEN <<>>
  ELSE <<Replayed(source, target, FALSE).line>>

(* A hold the cascade records against the source is recorded against the   *)
(* target instead.                                                         *)
Retargeted(r, source, target) ==
  [r EXCEPT !.held = [b \in Branches |-> IF @[b] = source /\ w.held[b] # source
                                         THEN target ELSE @[b]],
            !.parent = [b \in Branches |-> IF b \in Children(w, source) THEN target ELSE @[b]]]

Deleted(r, gone) ==
  [r EXCEPT !.line = [b \in Branches |-> IF b \in gone THEN None ELSE @[b]],
            !.parent = [b \in Branches |-> IF b \in gone THEN None ELSE @[b]],
            !.held = [b \in Branches |-> IF b \in gone THEN None ELSE @[b]]]

Folded(source, target, onto) ==
  [Retargeted(Landed([w EXCEPT !.held[source] = None, !.old = @ \cup Replaced(source, target)],
                     source, onto), source, target)
     EXCEPT !.line[target] = onto]

MayFold(source, target) ==
  /\ source # Trunk
  /\ target \in Live(w) \ {source}
  /\ FoldsTo(source, target) # <<>>
  /\ UNCHANGED made

Fold(target) ==
  /\ MayFold(w.head, target)
  /\ target # other
  /\ Verb([Deleted(Folded(w.head, target, FoldsTo(w.head, target)[1]), {w.head})
             EXCEPT !.head = target])

FoldStay(target) ==
  /\ MayFold(w.head, target)
  /\ Verb([Folded(w.head, target, FoldsTo(w.head, target)[1]) EXCEPT !.parent[w.head] = target])

(* ff push: the shared copy stands where the branch does.                  *)
Push(b) ==
  /\ b \in Live(w) \ {Trunk}
  /\ pushed[b] # w.line[b]
  /\ Spend("hops")
  /\ pushed' = [pushed EXCEPT ![b] = w.line[b]]
  /\ UNCHANGED <<w, been, other, made, before>>

(* Of the branches whose shared copy is gone, the ones to delete: `record' *)
(* is where the copy last stood.                                           *)
Prunable(gone, record) ==
  {b \in gone : b \notin {w.head, other} /\ w.held[b] = None /\ Within(w.line[b], record[b])}

(* surviving_parent: the first recorded parent that is not going too.      *)
Survivor(gone, b) ==
  FoldLeft(LAMBDA at, k : IF at \in gone THEN w.parent[at] ELSE at,
           b, [k \in 1..Cardinality(Branches) |-> k])
SurvivingParent(gone, b) == IF Survivor(gone, b) \in gone THEN None ELSE Survivor(gone, b)

(* The parents once they are gone: what stood on one stands on what it     *)
(* stood on.                                                               *)
Parents(deletes) ==
  LET above == (UNION {Children(w, b) : b \in deletes}) \ deletes
  IN [b \in Branches |-> IF b \in above THEN SurvivingParent(deletes, Base(w, b)) ELSE w.parent[b]]

Prune(gone, record) ==
  LET deletes == Prunable(gone, record)
  IN /\ deletes # {}
     /\ Verb(Deleted([w EXCEPT !.parent = Parents(deletes)], deletes))
     /\ UNCHANGED made

(* ff undo of the newest operation.  A reflog keeps what it is taken off,  *)
(* and a branch another worktree stands on stays where it is.              *)
Undo ==
  LET back == IF other = None THEN before ELSE [before EXCEPT !.line[other] = w.line[other]]
  IN /\ before # None
     /\ Spend("undos")
     /\ w' = back
     /\ been' = Logged(back)
     /\ before' = None
     /\ UNCHANGED <<pushed, other, made>>

-----------------------------------------------------------------------------

(* A repository: its HEAD is on a branch.                                  *)
IsRepo(r) ==
  /\ DOMAIN r = {"head", "line", "parent", "held", "stays", "old"}
  /\ \A f \in {"line", "parent", "held"} : DOMAIN r[f] = Branches
  /\ \A b \in Live(r) : IsLine(r.line[b])
  /\ r.head \in Live(r)

ASSUME StartsAssumption ==
  \A start \in Starts :
    /\ start.made \in Nat /\ start.left \in [{"verbs", "hops", "undos"} -> Nat]
    /\ IsRepo(start.repo) /\ start.repo.head # start.other
    /\ \A b \in Live(start.repo) : \A id \in Ids(start.repo.line[b]) : id <= start.made

InitFrom(start) ==
  /\ w = start.repo /\ other = start.other /\ left = start.left
  /\ been = [b \in Branches |-> {w.line[b]} \ {None}]
  /\ pushed = [b \in Branches |-> None]
  /\ made = start.made
  /\ before = None

Typed ==
  \/ \E b \in Branches : Switch(b)
  \/ \E path \in Paths : Close(path)
  \/ \E k \in DOMAIN w.line[w.head] : Reword(k)
  \/ \E k \in DOMAIN w.line[w.head] : Amend(k)
  \/ \E b \in Branches : Restack(b)
  \/ \E b, base \in Branches : RestackAimed(b, base)
  \/ \E b \in Branches : Resolve(b)
  \/ \E target \in Branches : Fold(target)
  \/ \E target \in Branches : FoldStay(target)
  \/ Undo

-----------------------------------------------------------------------------
(***************************************************************************)
(* Properties.                                                             *)
(***************************************************************************)

Moved(b) == w.line[b] # None /\ w'.line[b] # None /\ w'.line[b] # w.line[b]
IsVerb == left'.verbs # left.verbs

(* However branches are rewritten, restacked, folded and undone beneath one*)
(* another, none ends up holding a change twice: the copy of its base's    *)
(* commits a branch was left with is shed when it is moved                 *)
(* (rewrite/replay.rs superseded_by, cascade.rs and restack.rs boundaries).*)
NoChangeTwice ==
  \A b \in Live(w) : Cardinality(Ids(w.line[b])) = Len(w.line[b])

(* What a move takes off a branch is in the history of the base it was     *)
(* moved onto: a replay drops a change only because the base has held it   *)
(* (restack.rs range_boundary, cascade.rs plan_over).                      *)
TakesOnlyTheBases ==
  [][\A b \in Branches : Moved(b) /\ IsVerb =>
       \A id \in Ids(w.line[b]) \ Ids(w'.line[b]) :
         \E l \in been'[Base(w', b)] : l # None /\ id \in Ids(l)]_vars

(* A branch c that stood on the tip of its base is on the tip again once   *)
(* the base was replayed, wherever in the stack the replay began, unless   *)
(* another worktree stands on c, c holds a rewrite, or c had nothing of its*)
(* own.                                                                    *)
Follows(c) ==
  LET base == Base(w, c)
      now == Base(w', c)
  IN c \in Live(w) \cap Live(w') /\ base # None /\ now # None =>
       \/ base \notin Live(w') /\ w'.head = w.head  \* pruned
       \/ w'.parent[c] = c                         \* its base folded into it
       \/ ~Within(w.line[base], w.line[c])
       \/ Within(w.line[base], w'.line[now])
       \/ Within(w'.line[now], w'.line[c])
       \/ c = other \/ c \in w.stays \/ w'.held[c] # None \/ w.line[c] = w.line[base]

(* Of every base but one a rewrite of HEAD's branch carries: the branches  *)
(* on that one are left where they stood.                                  *)
Carried(b) == b \notin {None, w.head} /\ Within(w.line[b], w.line[w.head])
BranchesFollow ==
  [][IsVerb => \A c \in Branches : Carried(Base(w, c)) \/ Follows(c)]_vars

=============================================================================
