-------------------------------- MODULE Names --------------------------------
(***************************************************************************)
(* What is kept under a branch's name, and what becomes of it when branches*)
(* are named, renamed, claimed by a commit, deleted and undone             *)
(* (ff-core/src/branch.rs, branchmeta.rs, open.rs, close.rs, switch.rs     *)
(* mint_branch, snapshot/config.rs and the rewind of undo.rs).             *)
(*                                                                         *)
(* A branch is its commits, oldest first, each the work it closed and its  *)
(* change id, and the number of the mint it came from, which a rename      *)
(* keeps.  A verb reads, appends one operation, then writes, one write at a*)
(* time, and may be killed between any two.  One worktree; an open change  *)
(* is a piece of work and is closed whole; a move of an open change to     *)
(* another tip never conflicts (module Sessions has those), and legacy     *)
(* stash entries are left out.                                             *)
(***************************************************************************)
EXTENDS Naturals, Sequences, SequencesExt, FiniteSetsExt

CONSTANTS
  None,
  Names,        \* the names branches may have
  First,        \* the branch the repository starts on
  Anonymous,    \* the names fufu made up, which a commit -b claims
  Budgets       \* bound: how often a behaviour does each thing, a set of
                \* records [types, verbs, undos, kills, gits]

ASSUME NamesAssumption == First \in Names /\ Anonymous \subseteq Names /\ None \notin Names

VARIABLES
  w,         \* the repository: [head, wt, ref, open, meta, upstream, point, trash]
  log,       \* operations, oldest first; the first is the floor
  at,        \* the operation the log stands on
  fresh,     \* the next token: a mint, a piece of work, a change id or an operation
  typedOn,   \* [work |-> the mints it was typed on and copied to]
  last,      \* how the last verb ended: [verb, from, to, end]
  astray,    \* what went wrong so far, as Strays and GitDeletes name it
  left       \* the budget

vars == <<w, log, at, fresh, typedOn, last, astray, left>>

Absent == [line |-> 0, has |-> << >>]
Is(n) == w.ref[n] # Absent

Put(f, b, v) == [f |-> f, b |-> b, v |-> v]
Set(f, v) == [f |-> f, b |-> None, v |-> v]
Write(s, x) == IF x.b = None THEN [s EXCEPT ![x.f] = x.v] ELSE [s EXCEPT ![x.f][x.b] = x.v]

(* The repository after the first n writes of do.                          *)
Written(s, do, n) ==
  LET after[i \in 0 .. Len(do)] == IF i = 0 THEN s ELSE Write(after[i - 1], do[i]) IN after[n]

-----------------------------------------------------------------------------
(***************************************************************************)
(* The preamble and the log.                                               *)
(***************************************************************************)

(* A verb begun: the repository, the log and the next token.               *)
L == [w |-> w, log |-> log, at |-> at, fresh |-> fresh]

(* open.rs plan: a dirty tree with an id is an open commit.                *)
OpenOf(tree, id) == IF tree = None \/ id = None THEN None ELSE [work |-> tree, id |-> id]

(* append.rs commit_op: the operation, the branch's pointer and the open   *)
(* commit of the branch it leaves you on.  A dirty tree without an id mints*)
(* one; turn is what the record says of a branch's id.                     *)
Push(l, d) ==
  LET own == d.turn # None /\ d.turn.b = d.on
      minted == l.fresh + 1
      mints == d.tree # None /\ ~own /\ l.w.meta[d.on] = None
      id == IF own THEN d.turn.new ELSE IF mints THEN minted ELSE l.w.meta[d.on]
      open == OpenOf(d.tree, id)
      was == l.w.point[d.on]
      now == [op |-> l.fresh, tree |-> d.tree, open |-> open,
              root |-> IF was = None THEN l.fresh ELSE was.root]
  IN [w |-> [l.w EXCEPT !.open[d.on] = open, !.point[d.on] = now,
                        !.meta[d.on] = IF mints THEN minted ELSE @],
      log |-> Append(SubSeq(l.log, 1, l.at), [d EXCEPT !.was = was]),
      at |-> l.at + 1,
      fresh |-> l.fresh + 2]

Draft(kind, on, ref, head, tree) ==
  [kind |-> kind, on |-> on, ref |-> ref, head |-> head, tree |-> tree, turn |-> None, moved |-> None,
   off |-> None, was |-> None]

Reconciled(l) ==
  IF l.log[l.at].ref = l.w.ref /\ l.log[l.at].head = l.w.head THEN l
  ELSE Push(l, Draft("foreign", l.w.head, l.w.ref, l.w.head, l.w.wt))

(* append.rs capture_with: nothing when the branch's newest operation has  *)
(* the tree; a clean tree then loses an open commit it still has.          *)
Captured(l) ==
  LET b == l.w.head
      point == l.w.point[b]
      known == IF point = None THEN l.w.wt = None
               ELSE point.tree = l.w.wt /\ (l.w.wt = None \/ point.open # None)
  IN IF ~known THEN Push(l, Draft("capture", b, l.log[l.at].ref, l.log[l.at].head, l.w.wt))
     ELSE IF l.w.wt = None THEN [l EXCEPT !.w.open[b] = None]
     ELSE l

Begun == Captured(Reconciled(L))

-----------------------------------------------------------------------------
(***************************************************************************)
(* The verbs: what each records and the writes that follow, in order.      *)
(***************************************************************************)

Plan(from, to, refused, d, do) == [from |-> from, to |-> to, refused |-> refused, d |-> d, do |-> do]

Free(s) == {n \in Names : s.ref[n] = Absent}

(* refs.rs create_ref_with_log: the old pointer's reflog is replayed from  *)
(* its first line, and a name that holds something else is refused.        *)
PointerFree(s, old, new) ==
  s.point[old] = None \/ s.point[new] = None \/ s.point[new].op = s.point[old].root

(* branch.rs rename, its eight steps.                                      *)
RenameStarts(s, old, new) ==
  <<Put("ref", new, s.ref[old])>>
  \o (IF s.head = old THEN <<Set("head", new)>> ELSE << >>)

(* branchmeta.rs rename.                                                   *)
MetaClearedFirst(s, old, new) == <<Put("meta", old, None), Put("meta", new, s.meta[old])>>
MetaMoves(s, old, new) == <<Put("meta", new, s.meta[old]), Put("meta", old, None)>>

RenameEnds(s, old, new) ==
  (IF s.point[old] = None THEN << >> ELSE <<Put("point", new, s.point[old]), Put("point", old, None)>>)
  \o (IF s.open[old] = None THEN << >> ELSE <<Put("open", new, s.open[old]), Put("open", old, None)>>)
  \o MetaMoves(s, old, new)
  \o (IF s.upstream[old] = None THEN << >>
      ELSE <<Set("upstream", [s.upstream EXCEPT ![new] = s.upstream[old], ![old] = None])>>)
  \o <<Put("ref", old, Absent)>>

Collides(s, old, new) == ~PointerFree(s, old, new)
RenameSteps(s, old, new) ==
  RenameStarts(s, old, new) \o (IF Collides(s, old, new) THEN << >> ELSE RenameEnds(s, old, new))

(* branch.rs rename_current: recorded on the name it takes away.           *)
RenamePlan(l, old, new) ==
  LET d == [Draft("rename", old, [l.w.ref EXCEPT ![new] = l.w.ref[old], ![old] = Absent], new, l.w.wt)
              EXCEPT !.off = old]
      s == Push(l, d).w
  IN Plan(old, new, Collides(s, old, new), d, RenameSteps(s, old, new))

RenamePlans(l) == {RenamePlan(l, l.w.head, n) : n \in Free(l.w)}

(* The id is consumed where the close lands and where it was read.         *)
ConsumesOne(from, to) == <<Put("meta", to, None)>>
Consumes(from, to) ==
  IF from = to THEN <<Put("meta", to, None)>> ELSE <<Put("meta", to, None), Put("meta", from, None)>>

(* close.rs close: onto the branch, onto the name that claims it, or onto a*)
(* fresh one; a change that has no id yet gets one here.                   *)
ClosePlan(l, from, to) ==
  LET here == from = to
      claim == ~here /\ from \in Anonymous
      id == IF l.w.meta[from] = None THEN l.fresh + 1 ELSE l.w.meta[from]
      landed == [l.w.ref[from] EXCEPT !.has = Append(@, [id |-> id, work |-> l.w.wt])]
      refs == IF claim THEN [l.w.ref EXCEPT ![from] = Absent] ELSE l.w.ref
      d == [Draft("close", IF claim THEN from ELSE to, [refs EXCEPT ![to] = landed], to, None)
              EXCEPT !.turn = [b |-> from, old |-> l.w.meta[from], new |-> None], !.off = from]
      s == [Push(l, d).w EXCEPT !.open[from] = None]
      axis == CASE here -> << >>
                [] claim -> RenameSteps(s, from, to)
                [] OTHER -> <<Put("ref", to, l.w.ref[from]), Set("head", to)>>
      ends == <<Put("ref", to, landed), Set("wt", None)>> \o Consumes(from, to)
      refused == claim /\ Collides(s, from, to)
  IN Plan(from, to, refused, d,
          (IF here THEN << >> ELSE <<Put("open", from, None)>>)
          \o axis \o (IF refused THEN << >> ELSE ends))

ClosePlans(l) ==
  IF l.w.wt = None THEN {} ELSE {ClosePlan(l, l.w.head, n) : n \in Free(l.w) \cup {l.w.head}}

(* switch.rs park_of: a dirty tree is left only when its open commit stands*)
(* for it.                                                                 *)
ParkStands(s) == s.wt = None \/ (s.open[s.head] # None /\ s.open[s.head].work = s.wt)

(* switch.rs continue_on: the work of the branch left is its open commit;  *)
(* the one of the branch arrived at comes back.                            *)
SwitchPlan(l, to) ==
  LET work == IF l.w.open[to] = None THEN None ELSE l.w.open[to].work
  IN Plan(l.w.head, to, FALSE, [Draft("switch", to, l.w.ref, to, work) EXCEPT !.off = l.w.head],
          <<Set("head", to), Set("wt", None), Set("wt", work)>>)

SwitchPlans(l) ==
  IF ParkStands(l.w) THEN {SwitchPlan(l, n) : n \in Names \ (Free(l.w) \cup {l.w.head})} ELSE {}

(* switch.rs clear_stale_open.                                             *)
Unstale(s, n) == IF s.ref[n] = Absent THEN [s EXCEPT !.open[n] = None] ELSE s

(* switch.rs mint_and_switch, mint_branch: the metadata is written new.    *)
StartPlan(l, n, at_) ==
  LET branch == [line |-> l.fresh, has |-> l.w.ref[at_].has]
      d == Draft("start", n, [l.w.ref EXCEPT ![n] = branch], n, None)
  IN Plan(l.w.head, n, FALSE, [d EXCEPT !.off = l.w.head],
          <<Put("ref", n, branch), Put("meta", n, None), Set("head", n), Set("wt", None)>>)

StartPlans(l, n) ==
  {StartPlan(l, n, m) : m \in {m \in {First} : n \in Free(l.w) /\ m \notin Free(l.w) /\ ParkStands(l.w)}}

(* resolve_fork_point: trunk, or @, whose open change is copied along.     *)
ForksAt(l, copies) ==
  {m \in Names \ Free(l.w) : m = IF copies THEN l.w.head ELSE First}
     \cap {m \in Names : copies => l.w.wt # None /\ ParkStands(l.w)}

(* branch.rs create: HEAD stays.  A copy of the open change wears its id,  *)
(* and its operation is recorded on the name it is copied to.              *)
CreatePlan(l, n, at_, copies) ==
  LET branch == [line |-> l.fresh, has |-> l.w.ref[at_].has]
      id == IF copies THEN l.w.meta[l.w.head] ELSE None
      d == Draft("create", IF copies THEN n ELSE l.w.head,
                 [l.w.ref EXCEPT ![n] = branch], l.w.head, l.w.wt)
  IN Plan(l.w.head, n, FALSE,
          [d EXCEPT !.turn = IF copies THEN [b |-> n, old |-> None, new |-> id] ELSE None],
          <<Put("ref", n, branch), Put("meta", n, id)>>)

CreatePlans(l, n, copies) ==
  {CreatePlan(l, n, m, copies) : m \in {m \in ForksAt(l, copies) : n \in Free(l.w)}}

(* branch.rs delete, plan_delete, DeletePlan::apply.                       *)
DeletePlan(l, n) ==
  LET point == l.w.point[n]
      d == Draft("delete", l.w.head, [l.w.ref EXCEPT ![n] = Absent], l.w.head, l.w.wt)
  IN Plan(n, n, FALSE, [d EXCEPT !.moved = IF point = None THEN None ELSE [b |-> n, point |-> point]],
          (IF point = None THEN << >> ELSE <<Put("trash", n, point), Put("point", n, None)>>)
          \o <<Put("open", n, None), Put("ref", n, Absent), Put("meta", n, None)>>)

DeletePlans(l) == {DeletePlan(l, n) : n \in Names \ (Free(l.w) \cup {l.w.head})}

-----------------------------------------------------------------------------
(***************************************************************************)
(* ff undo: one operation back.                                            *)
(***************************************************************************)

(* A pointer put back: its reflog goes on, or starts here.                 *)
Placed(s, b, point) ==
  IF point = None THEN None
  ELSE [point EXCEPT !.root = IF s.point[b] = None THEN point.op ELSE s.point[b].root]

(* undo.rs apply_metadata: a branch's file as the operation found it.      *)
Turned(s, turn) == IF turn = None THEN s ELSE [s EXCEPT !.meta[turn.b] = turn.old]
Restored(s, op) ==
  LET t == Turned(s, op.turn)
  IN IF op.moved = None THEN t
     ELSE [t EXCEPT !.point[op.moved.b] = Placed(t, op.moved.b, op.moved.point),
                    !.trash[op.moved.b] = IF @ = op.moved.point THEN None ELSE @]

(* open.rs sync: the open commit of the branch's newest operation.         *)
SyncedAnyway(s, n) == OpenOf(IF s.point[n] = None THEN None ELSE s.point[n].tree, s.meta[n])
Synced(s, n) ==
  IF s.ref[n] = Absent \/ s.point[n] = None THEN None ELSE OpenOf(s.point[n].tree, s.meta[n])

(* undo.rs rewind: refs, HEAD, the tree, the metadata, the pointers, then  *)
(* the open commits of the branches the move touched.                      *)
Rewound(l) ==
  LET op == l.log[l.at]
      to == l.log[l.at - 1]
      moved == [l.w EXCEPT !.ref = to.ref, !.head = to.head, !.wt = to.tree]
      back == Restored(moved, op)
      pointed == [back EXCEPT !.point[op.on] = Placed(back, op.on, op.was)]
      touched == ({to.head, op.on, op.off, op.head} \cap Names)
      opens == [n \in Names |-> IF n \in touched THEN Synced(pointed, n) ELSE pointed.open[n]]
  IN [l EXCEPT !.w = [pointed EXCEPT !.open = opens], !.at = l.at - 1]

-----------------------------------------------------------------------------
(***************************************************************************)
(* The actions.                                                            *)
(***************************************************************************)

Take(l) == w' = l.w /\ log' = l.log /\ at' = l.at /\ fresh' = l.fresh

(* What went wrong: "stopped", a verb killed or refused between its        *)
(* operation and its end; "heir", a branch made or brought back under a    *)
(* name that still has a pointer; "back", an undo after that.              *)
Heirs(s) == {n \in Names : w.ref[n] = Absent /\ s.ref[n] # Absent /\ w.point[n] # None}
Strays(s, ended, undo) ==
  {x \in {"stopped"} : ~ended} \cup {x \in {"heir"} : Heirs(s) # {}}
    \cup {x \in {"back"} : undo /\ "heir" \in astray}

(* A verb's operation and its writes; one that names, closes or deletes may*)
(* be killed between them.                                                 *)
Run(l, verb, plans) ==
  /\ left.verbs > 0
  /\ \E p \in plans : \E n \in 0 .. Len(p.do) :
       LET killed == n < Len(p.do)
           begun == Push(l, p.d)
           done == [begun EXCEPT !.w = Written(@, p.do, n)]
       IN /\ killed => left.kills > 0 /\ verb \in {"rename", "close", "delete"}
          /\ Take(done)
          /\ last' = [verb |-> verb, from |-> p.from, to |-> p.to,
                      end |-> CASE killed -> "killed" [] ~killed /\ p.refused -> "refused" [] OTHER -> "done"]
          /\ astray' = astray \cup Strays(done.w, ~killed /\ ~p.refused, FALSE)
          /\ left' = [left EXCEPT !.verbs = @ - 1, !.kills = IF killed THEN @ - 1 ELSE @]

OnBranch == Is(w.head)

Named(verb, plans) == Run(Begun, verb, plans) /\ UNCHANGED typedOn

Rename == OnBranch /\ Named("rename", RenamePlans(Begun))
Close == OnBranch /\ Named("close", ClosePlans(Begun))
Switch == Named("switch", SwitchPlans(Begun))
Delete == Named("delete", DeletePlans(Begun))

(* A verb that mints a branch under a name.                                *)
Minting(n) == [Begun EXCEPT !.w = Unstale(@, n)]
Minted(l) == [l EXCEPT !.fresh = @ + 1]

Start(n) ==
  /\ Run(Minted(Minting(n)), "start", StartPlans(Minting(n), n))
  /\ UNCHANGED typedOn

Create(n, copies) ==
  LET l == Minting(n)
  IN /\ OnBranch
     /\ Run(Minted(l), "create", CreatePlans(l, n, copies))
     /\ typedOn' = IF copies THEN [typedOn EXCEPT ![l.w.wt] = @ \cup {l.fresh}] ELSE typedOn

Ended(verb) == [verb |-> verb, from |-> None, to |-> None, end |-> "done"]

(* push.rs: the first push sets the upstream.                              *)
Share ==
  /\ left.verbs > 0 /\ OnBranch /\ w.upstream[w.head] = None
  /\ Take([Begun EXCEPT !.w.upstream[w.head] = w.ref[w.head].line])
  /\ last' = Ended("push")
  /\ left' = [left EXCEPT !.verbs = @ - 1]
  /\ UNCHANGED <<typedOn, astray>>

Undo ==
  /\ left.undos > 0 /\ Begun.at > 1
  /\ Take(Rewound(Begun))
  /\ last' = Ended("undo")
  /\ left' = [left EXCEPT !.undos = @ - 1]
  /\ astray' = astray \cup Strays(w', TRUE, TRUE)
  /\ UNCHANGED typedOn

(* ff status, and every verb that is refused.                              *)
Status ==
  /\ Take(Begun)
  /\ last' = Ended("status")
  /\ UNCHANGED <<typedOn, astray, left>>

(* The reader types on a clean tree.                                       *)
Type ==
  /\ left.types > 0 /\ w.wt = None /\ OnBranch
  /\ w' = [w EXCEPT !.wt = fresh]
  /\ typedOn' = typedOn @@ (fresh :> {w.ref[w.head].line})
  /\ fresh' = fresh + 1
  /\ last' = Ended("type")
  /\ left' = [left EXCEPT !.types = @ - 1]
  /\ UNCHANGED <<log, at, astray>>

(* git branch -D, which leaves everything fufu keeps under the name:       *)
(* "copy", the open change of a copy with the id it shares.                *)
GitDeletes(n) ==
  /\ left.gits > 0 /\ n # w.head /\ Is(n)
  /\ w' = [w EXCEPT !.ref[n] = Absent]
  /\ last' = Ended("git")
  /\ left' = [left EXCEPT !.gits = @ - 1]
  /\ astray' = astray \cup {x \in {"copy"} : w.open[n] # None /\ Cardinality(typedOn[w.open[n].work]) > 1}
  /\ UNCHANGED <<log, at, fresh, typedOn>>

Init ==
  LET ref == [n \in Names |-> IF n = First THEN [line |-> 1, has |-> << >>] ELSE Absent]
      nothing == [n \in Names |-> None]
      floor == [op |-> 1, tree |-> None, open |-> None, root |-> 1]
  IN /\ w = [head |-> First, wt |-> None, ref |-> ref, open |-> nothing, meta |-> nothing, upstream |-> nothing,
             point |-> [nothing EXCEPT ![First] = floor], trash |-> nothing]
     /\ log = <<Draft("note", First, ref, First, None)>>
     /\ at = 1 /\ fresh = 2
     /\ typedOn = << >>
     /\ last = Ended("status") /\ astray = {}
     /\ left \in Budgets

Next ==
  \/ Rename \/ Close \/ Switch \/ Delete \/ Share \/ Undo \/ Status \/ Type
  \/ \E n \in Names : Start(n) \/ Create(n, FALSE) \/ Create(n, TRUE) \/ GitDeletes(n)

Spec == Init /\ [][Next]_vars

-----------------------------------------------------------------------------
(***************************************************************************)
(* Properties.                                                             *)
(***************************************************************************)

(* The work that is in the tree, on a branch that is one of these names, or*)
(* parked on or closed onto one of them.                                   *)
HeldBy(s, of, work) ==
  \/ s.head \in of /\ s.wt = work
  \/ \E m \in of : s.open[m] # None /\ s.open[m].work = work
  \/ \E m \in of : \E i \in DOMAIN s.ref[m].has : s.ref[m].has[i].work = work

(* The change that is open on a branch: on the one underfoot, the tree.    *)
OpenWork(s, n) ==
  IF n = s.head THEN s.wt ELSE IF s.open[n] = None THEN None ELSE s.open[n].work

(* What branch n of s had is in t, under a name the branch has there.      *)
Kept(s, t, n) ==
  LET of == {m \in Names : t.ref[m].line = s.ref[n].line}
  IN /\ of # {}
     /\ s.meta[n] # None =>
          \E m \in of : \/ t.meta[m] = s.meta[n]
                       \/ \E i \in DOMAIN t.ref[m].has : t.ref[m].has[i].id = s.meta[n]
     /\ s.upstream[n] # None => \E m \in of : t.upstream[m] = s.upstream[n]
     /\ OpenWork(s, n) # None => HeldBy(t, of, OpenWork(s, n))

Takes == {"undo", "git"}

(* A rename, a claim, a close, and any other verb that is no undo, leaves  *)
(* every branch but one it deletes under a name, wherever it stops, and    *)
(* under a name of it the id of its open change, that change, open or      *)
(* closed, and its upstream: branch.rs, "both names, never neither".       *)
NeverNeither ==
  [][last'.verb \notin Takes =>
       \A n \in Names \ Free(Begun.w) :
         Kept(Begun.w, w', n) \/ (last'.verb = "delete" /\ last'.from = n)]_vars

(* Once a verb has begun, a branch holds only the work that was typed on   *)
(* it, or copied to it, whatever branch had its name before, however that  *)
(* one went (open.rs clear and sync, switch.rs clear_stale_open), as long  *)
(* as no verb stopped half-way and nothing was undone after a branch came  *)
(* to a name that still had a pointer.                                     *)
NoHandMeDowns ==
  LET s == Begun.w
  IN astray \cap {"stopped", "back"} = {} =>
       /\ \A n \in Names \ Free(s) : s.open[n] # None => s.ref[n].line \in typedOn[s.open[n].work]
       /\ s.wt # None /\ s.head \notin Free(s) => s.ref[s.head].line \in typedOn[s.wt]

(* No two commits wear one change id but copies of one change (close.rs    *)
(* consumes the id), with the same two exceptions and a third: git deleted *)
(* a copy and left its id under the name.                                  *)
NoIdTwice ==
  astray \cap {"stopped", "back", "copy"} = {} =>
    /\ \A n \in Names : IsInjective(w.ref[n].has)
    /\ \A n, m \in Names : \A c \in ToSet(w.ref[n].has), d \in ToSet(w.ref[m].has) : c.id = d.id => c = d

=============================================================================
