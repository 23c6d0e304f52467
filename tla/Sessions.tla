------------------------------ MODULE Sessions ------------------------------
(***************************************************************************)
(* One worktree whose branches are rewritten, edited and resolved: holds,  *)
(* the sessions ff edit and ff resolve open, the work parked on each branch*)
(* left, and what ff undo and ff redo make of it all (ff-core/src/held.rs, *)
(* resolve.rs, done.rs, edit.rs, park.rs, switch.rs, open.rs and the       *)
(* rewind of undo.rs).                                                     *)
(*                                                                         *)
(* A tree is the set of changes in it, "marks" standing for the conflict   *)
(* markers a chain left.  Whether a merge conflicts is a choice wherever   *)
(* both sides changed; module Rewrite says what a merge gives.  A verb     *)
(* plans from what it reads, appends one operation, then writes, one write *)
(* at a time, and may be killed between any two.  Legacy stash entries,    *)
(* change ids, cascades and other worktrees are left out.                  *)
(***************************************************************************)
EXTENDS Naturals, Sequences, SequencesExt, FiniteSetsExt

CONSTANTS
  None,
  Work,         \* the changes a person types
  Trunk, Feat,  \* the two branches
  Names,        \* a sequence: the names sessions are given, in order
  Budgets       \* bound: how often a behaviour does each thing, a set of
                \* records [types, verbs, steps, frees, drops, rounds, undos, redos,
                \* kills, gits], steps being the switches of mints

Sessions == ToSet(Names)
Branches == {Trunk, Feat} \cup Sessions
Marks == "marks"
Kinds == {"restack", "absorb", "done", "arrive"}

ASSUME NamesAssumption == None \notin Branches /\ Sessions \cap {Trunk, Feat} = {}

VARIABLES
  w,         \* the repository: [head, wt, tip, open, held, resolving, session]
  log,       \* operations, oldest first; the first is the floor
  at,        \* the operation the log stands on
  top,       \* [Branches -> [tree, open]]  each branch's newest operation
  redo,      \* the undos a redo would reverse, the newest last
  next,      \* the session a verb has minted and still has to switch to
  fresh,     \* the next commit
  minted,    \* session names given out
  astray,    \* what moved past the log: "killed", "deleted", "released"
  left       \* the budget

vars == <<w, log, at, top, redo, next, fresh, minted, astray, left>>

-----------------------------------------------------------------------------
(***************************************************************************)
(* Commits, open commits and arrivals.                                     *)
(***************************************************************************)

(* A commit is named by its place and by the rewrite that last wrote it.   *)
Commit(n, has, parent) ==
  [id |-> <<n, 0>>, has |-> has, first |-> parent.id, anc |-> parent.anc \cup {parent.id}]

Line(c) == c.anc \cup {c.id}
Within(tip, id) == id \in Line(tip)

Root == [id |-> <<0, 0>>, has |-> {}, first |-> <<0, 0>>, anc |-> {}]
Fork == Commit(1, {}, Root)
Low == Commit(2, {"low"}, Fork)

(* What stands under an unborn HEAD is the empty tree.                     *)
Under(tip) == IF tip = None THEN Root ELSE tip

(* open.rs plan: the open commit of a tree over a tip, None on a clean one.*)
OpenOf(tree, tip) ==
  IF tree = Under(tip).has THEN None
  ELSE [tree |-> tree, parent |-> Under(tip).id, base |-> Under(tip).has]

Theirs(o, target) == (target.has \ (o.base \ o.tree)) \cup (o.tree \ o.base)

Arrival(what, o) == [what |-> what, open |-> o]

(* park.rs replay: resumed on the tip it was parked on; elsewhere merged,  *)
(* which may conflict, and has landed when the merge adds nothing.         *)
Arrivals(o, target) ==
  IF o = None THEN {Arrival("none", None)}
  ELSE IF o.parent = target.id THEN {Arrival("resume", o)}
  ELSE LET merged == Theirs(o, target)
       IN IF merged = target.has THEN {Arrival("landed", o)}
          ELSE {Arrival("replay", OpenOf(merged, target))}
               \cup {Arrival("hold", o) : c \in {c \in {o.base} : c # target.has}}

EndTree(arr, target) ==
  IF arr.what \in {"resume", "replay"} THEN arr.open.tree ELSE target.has

(* held.rs Held: at is where the rewrite stopped, a commit of its range or *)
(* the open change over it.                                                *)
Hold(kind, branch) ==
  [kind |-> kind, on |-> branch, at |-> "commit", open |-> None, into |-> <<0, 0>>]
HeldArrival(branch, arr) == [Hold("arrive", branch) EXCEPT !.open = arr.open]

-----------------------------------------------------------------------------
(***************************************************************************)
(* Writes, transitions and the log.                                        *)
(***************************************************************************)

Put(f, b, v) == [f |-> f, b |-> b, v |-> v]
Set(f, v) == [f |-> f, b |-> None, v |-> v]
Turn(f, b, old, new) == [f |-> f, b |-> b, old |-> old, new |-> new]

(* One write of a verb: to the repository, or the log's pointers at once.  *)
Write(l, x) ==
  CASE x.f = "log" -> [l EXCEPT !.at = x.v.at, !.top = x.v.top, !.redo = x.v.redo]
    [] x.f # "log" /\ x.b = None -> [l EXCEPT !.w[x.f] = x.v]
    [] OTHER -> [l EXCEPT !.w[x.f][x.b] = x.v]

L == [w |-> w, log |-> log, at |-> at, top |-> top, redo |-> redo]

Draft(kind, branch, tips, head, tree, turns, headTurn) ==
  [kind |-> kind, branch |-> branch, tips |-> tips, head |-> head, tree |-> tree,
   turns |-> turns, headTurn |-> headTurn]

(* append.rs commit_op: the operation, the branch's pointer and the open   *)
(* commit of the branch it leaves you on, one transaction.                 *)
Push(l, d) ==
  LET open == OpenOf(d.tree, d.tips[d.branch])
      op == d @@ [was |-> l.top[d.branch], states |-> [tree |-> d.tree, open |-> open], pre |-> l.w]
  IN [w |-> [l.w EXCEPT !.open[d.branch] = open],
      log |-> Append(SubSeq(l.log, 1, l.at), op), at |-> l.at + 1,
      top |-> [l.top EXCEPT ![d.branch] = op.states],
      redo |-> << >>]

(* verb.rs reconcile: refs that are not what the log left make one foreign *)
(* operation.                                                              *)
Reconciled(l) ==
  IF l.log[l.at].tips = l.w.tip /\ l.log[l.at].head = l.w.head THEN l
  ELSE Push(l, Draft("foreign", l.w.head, l.w.tip, l.w.head, l.w.wt, << >>, None))

(* append.rs capture_with: nothing when the branch's newest operation says *)
(* it; a clean tree then loses an open commit it still has.                *)
Captured(l) ==
  LET b == l.w.head
      clean == l.w.wt = Under(l.w.tip[b]).has
      known == IF l.top[b] = None THEN clean
               ELSE l.top[b].tree = l.w.wt /\ (clean \/ l.top[b].open # None)
  IN IF ~known
     THEN Push(l, Draft("capture", b, l.log[l.at].tips, l.log[l.at].head, l.w.wt, << >>, None))
     ELSE IF clean THEN [l EXCEPT !.w.open[b] = None]
     ELSE l

Begun == Captured(Reconciled(L))

-----------------------------------------------------------------------------
(***************************************************************************)
(* What holds and sessions say.                                            *)
(***************************************************************************)

(* held.rs session_of: both halves must name each other.                   *)
SessionOf(s, b) ==
  IF s.session[b] = None THEN None
  ELSE LET onto == s.session[b].onto
       IN IF s.resolving[onto] # None /\ s.resolving[onto].session = b THEN onto ELSE None

(* held.rs before_rewrite, for a verb that keeps the base: a hold that     *)
(* carries content refuses, and so does an open resolution.                *)
MayRewrite(s, b) ==
  /\ s.resolving[b] = None
  /\ s.held[b] = None \/ s.held[b].kind = "restack"

(* held.rs replan_at: the question a hold asks still has an answer; open   *)
(* is the tree the change is read from.                                    *)
Replans(s, hold, open) ==
  CASE hold.kind = "restack" -> s.tip[hold.on] # None /\ ~Within(s.tip[hold.on], s.tip[Trunk].id)
    [] hold.kind = "absorb" -> Within(s.tip[hold.on], hold.into) /\ open # s.tip[hold.on].has
    [] hold.kind = "done" ->
         /\ s.session[hold.on] # None
         /\ s.tip[hold.on] # None
         /\ s.tip[s.session[hold.on].onto] # None
         /\ Within(s.tip[s.session[hold.on].onto], s.session[hold.on].at.id)
    [] hold.kind = "arrive" -> FALSE

(* The branch whose commits the rewrite of a hold replays.                 *)
Lands(s, hold) == IF hold.kind = "done" THEN s.session[hold.on].onto ELSE hold.on

(* The commits it replays, and the commit it puts them on.                 *)
RangeOf(s, hold) ==
  LET tip == s.tip[Lands(s, hold)]
  IN CASE hold.kind = "restack" -> Line(tip) \ Line(s.tip[Trunk])
       [] hold.kind = "absorb" -> {i \in Line(tip) : i[1] >= hold.into[1]}
       [] hold.kind = "done" -> Line(tip) \ s.session[hold.on].at.anc

(* The tree of the chain, before its marks; the same until one of its      *)
(* inputs moves.                                                           *)
ChainTree(s, hold, open) ==
  CASE hold.kind = "restack" -> s.tip[hold.on].has \cup s.tip[Trunk].has
    [] hold.kind = "absorb" -> open
    [] hold.kind = "done" -> s.tip[Lands(s, hold)].has \cup open

From(s, hold, open) ==
  <<s.tip[Lands(s, hold)].id, s.tip[Trunk].id, ChainTree(s, hold, open)>>

(* replay.rs plan_with: the range rewritten, every branch on a commit of it*)
(* carried along, but for a restack, which leaves the others where they    *)
(* stand; land is the tree of the tip.                                     *)
Rewritten(s, hold, land, e) ==
  LET old == s.tip[Lands(s, hold)]
      range == RangeOf(s, hold)
      anew(i) == IF i \in range THEN <<i[1], e>> ELSE i
      under == IF hold.kind = "restack" THEN Line(s.tip[Trunk]) ELSE {}
      of(c) == [id |-> anew(c.id),
                has |-> IF c.id = old.id THEN land ELSE c.has,
                first |-> IF hold.kind = "restack" /\ c.first \notin range THEN s.tip[Trunk].id
                          ELSE anew(c.first),
                anc |-> {anew(i) : i \in c.anc} \cup under]
      moves(b) == /\ s.tip[b] # None /\ s.tip[b].id \in range
                  /\ hold.kind = "restack" => b = hold.on
  IN [b \in Branches |-> IF moves(b) THEN of(s.tip[b]) ELSE s.tip[b]]

-----------------------------------------------------------------------------
(***************************************************************************)
(* The verbs: what each plans from the state it reads.  A plan is an       *)
(* operation to append, the writes that follow it, and the session still to*)
(* be switched to.                                                         *)
(***************************************************************************)

Plan(d, do, then) == [d |-> d, do |-> do, then |-> then]

(* A plan without an operation of its own.                                 *)
Unlogged(do) == Plan(None, do, None)

(* switch.rs park_of: a dirty tree is left only when its open commit stands*)
ParkStands(s) ==
  LET tip == Under(s.tip[s.head])
      o == s.open[s.head]
  IN s.wt = tip.has \/ (o # None /\ o.tree = s.wt /\ o.parent = tip.id)

(* park.rs fold_into: a held arrival takes the place of the hold standing, *)
(* on the transition the verb already makes for the branch if it makes one.*)
WithArrival(s, turns, b, arr) ==
  LET same == {i \in DOMAIN turns : turns[i].f = "held" /\ turns[i].b = b}
      hold == HeldArrival(b, arr)
  IN IF arr.what # "hold" THEN turns
     ELSE IF same # {} THEN [i \in DOMAIN turns |->
                               IF i \in same THEN [turns[i] EXCEPT !.new = hold] ELSE turns[i]]
     ELSE Append(turns, Turn("held", b, s.held[b], hold))

(* Faulty: the hold is in the operation only.                              *)
ArriveUnheld(b, arr) ==
  IF arr.what \in {"resume", "replay"} THEN <<Set("wt", arr.open.tree)>> ELSE << >>

(* park.rs execute_arrival, over the tree the verb left.                   *)
Arrive(b, arr) ==
  CASE arr.what \in {"resume", "replay"} -> <<Set("wt", arr.open.tree)>>
    [] arr.what = "hold" -> <<Put("held", b, HeldArrival(b, arr))>>
    [] OTHER -> << >>

(* switch.rs continue_on.                                                  *)
SwitchPlans(s, to) ==
  IF to = s.head \/ s.tip[to] = None \/ ~ParkStands(s) THEN {}
  ELSE {Plan(Draft("op", to, s.tip, to, EndTree(arr, s.tip[to]),
                   WithArrival(s, << >>, to, arr), <<s.head, to>>),
             <<Set("head", to), Set("wt", s.tip[to].has)>> \o Arrive(to, arr), None) :
          arr \in Arrivals(s.open[to], s.tip[to])}

(* close.rs: the open change becomes a commit; never on a session branch.  *)
CommitPlans(s) ==
  LET b == s.head
      tips == [s.tip EXCEPT ![b] = Commit(fresh, s.wt, s.tip[b])]
  IN IF s.tip[b] = None \/ s.session[b] # None \/ s.wt = s.tip[b].has THEN {}
     ELSE {Plan(Draft("op", b, tips, b, s.wt, << >>, None), <<Set("tip", tips)>>, None)}

(* edit.rs mint_session, then the switch to it.                            *)
MintPlan(s, name, commit, session, turns) ==
  LET tips == [s.tip EXCEPT ![name] = commit]
      turn == Turn("session", name, None, session)
  IN Plan(Draft("op", s.head, tips, s.head, s.wt, <<turn>> \o turns, None),
          <<Set("tip", tips), Put("session", name, session)>>
            \o [i \in DOMAIN turns |-> Put(turns[i].f, turns[i].b, turns[i].new)],
          name)

NamesLeft == minted < Len(Names)

Name == Names[minted + 1]

(* ff edit, of the tip or of the commit below: never inside a session.     *)
EditPlans(s) ==
  LET b == s.head
  IN IF ~NamesLeft \/ s.tip[b] = None \/ s.session[b] # None THEN {}
     ELSE {MintPlan(s, Name, c, [onto |-> b, at |-> c], << >>) :
             c \in {c \in {s.tip[b], Low} : Within(s.tip[b], c.id)}}

(* held.rs record: the hold in the log, on HEAD's chain, then in its file. *)
HoldPlan(s, b, hold) ==
  Plan(Draft("op", s.head, s.tip, s.head, s.wt, <<Turn("held", b, s.held[b], hold)>>, None),
       <<Put("held", b, hold)>>, None)

(* before_rewrite and landing_on: what a rewrite that lands leaves of the  *)
(* hold standing, a restack landing its own hold.                          *)
Standing(s, b, kind) == IF kind = "restack" THEN None ELSE s.held[b]

(* refuse_if_held: one hold per branch, asked where one would be recorded. *)
MayHold(s, b) == s.held[b] = None

(* Where a rewrite may stop: a restack at the open change it carries too.  *)
Stops(s, hold) ==
  {hold} \cup {[h EXCEPT !.at = "open"] :
              h \in {h \in {hold} : h.kind = "restack" /\ s.wt # s.tip[s.head].has}}

(* ff restack of HEAD's branch onto the trunk, and ff absorb of the open   *)
(* change into the commit below the tip: landed, or held when no hold      *)
(* stands.                                                                 *)
RewritePlans(s, hold) ==
  LET b == s.head
      land == ChainTree(s, hold, s.wt)
      tips == Rewritten(s, hold, land, fresh)
      wt == IF hold.kind = "restack" THEN s.wt \cup land ELSE s.wt
      stays == Standing(s, b, hold.kind)
      turns == IF stays = s.held[b] THEN << >> ELSE <<Turn("held", b, s.held[b], stays)>>
  IN IF s.tip[b] = None \/ b \in Sessions \/ ~MayRewrite(s, b) \/ ~Replans(s, hold, s.wt) THEN {}
     ELSE {Plan(Draft("op", b, tips, b, wt, turns, None),
                <<Set("tip", tips)>> \o [i \in DOMAIN turns |-> Put("held", b, stays)]
                  \o <<Set("wt", wt)>>, None)}
          \cup {HoldPlan(s, b, stop) : stop \in {stop \in Stops(s, hold) : MayHold(s, b)}}

Restack(s) == Hold("restack", s.head)
Absorb(s) ==
  [Hold("absorb", s.head) EXCEPT
     !.into = CHOOSE i \in Line(Under(s.tip[s.head])) \cup {<<2, 0>>} : i[1] = 2]

(* held.rs Resolve: the question as it stands, what the reader is given and*)
(* the one input no ref has.                                               *)
ResolveOf(s, hold) ==
  [hold |-> hold, session |-> Name, open |-> s.wt, rounds |-> 0, from |-> From(s, hold, s.wt)]

(* resolve.rs open_session: the chain, marks and all, as one commit over   *)
(* the branch's tip, on a session branch.                                  *)
ResolvePlans(s) ==
  LET b == s.head
      hold == s.held[b]
      marker == Commit(fresh, {Marks} \cup ChainTree(s, hold, s.wt), s.tip[b])
  IN IF hold = None \/ s.tip[b] = None \/ s.resolving[b] # None THEN {}
     ELSE IF SessionOf(s, b) # None \/ ~NamesLeft \/ ~Replans(s, hold, s.wt) THEN {}
     ELSE {MintPlan(s, Name, marker, [onto |-> b, at |-> marker],
                    <<Turn("resolving", b, None, ResolveOf(s, hold))>>)}

(* resolve.rs resolve: the question conflicts no longer, the hold is let go*)
(* without an operation; never a restack's held at the open change, which  *)
(* lands where its commits go through.                                     *)
ReleasePlans(s) ==
  LET b == s.head
  IN IF s.held[b] = None \/ s.tip[b] = None \/ s.resolving[b] # None THEN {}
     ELSE IF SessionOf(s, b) # None \/ ~Replans(s, s.held[b], s.wt) \/ s.held[b].at = "open" THEN {}
     ELSE {Unlogged(<<Put("held", b, None)>>)}

(* resolve.rs land_open_change: a restack held at the open change, whose   *)
(* commits go through now, lands in place, the marks in the open change.   *)
CarryPlans(s) ==
  LET b == s.head
      hold == s.held[b]
      land == ChainTree(s, hold, s.wt)
      tips == Rewritten(s, hold, land, fresh)
      carry(tree) == Plan(Draft("op", b, tips, b, tree, <<Turn("held", b, hold, None)>>, None),
                          <<Set("tip", tips), Put("held", b, None), Set("wt", tree)>>, None)
  IN IF hold = None \/ s.tip[b] = None \/ s.resolving[b] # None \/ SessionOf(s, b) # None THEN {}
     ELSE IF hold.at # "open" \/ ~Replans(s, hold, s.wt) THEN {}
     ELSE {carry(s.wt \cup land)}
          \cup {carry(s.wt \cup land \cup {Marks}) : c \in {c \in {s.wt} : c # s.tip[b].has}}

(* resolve.rs lay_arrival: only over a clean tree; the change, clean or    *)
(* marked, becomes the open change.                                        *)
LayPlans(s) ==
  LET b == s.head
      hold == s.held[b]
      laid == Theirs(hold.open, s.tip[b])
      lay(tree) == Plan(Draft("op", b, s.tip, b, tree, <<Turn("held", b, hold, None)>>, None),
                        <<Set("wt", tree), Put("held", b, None)>>, None)
  IN IF hold = None \/ s.tip[b] = None \/ s.resolving[b] # None \/ SessionOf(s, b) # None THEN {}
     ELSE IF hold.kind # "arrive" \/ s.wt # s.tip[b].has THEN {}
     ELSE {lay(laid)} \cup {lay(laid \cup {Marks}) : c \in {c \in {hold.open.base} : c # s.tip[b].has}}

(* The way home from session e to branch to: HEAD first, then the refs in  *)
(* one transaction, the tree, the parked change; early, mid and late are   *)
(* the records the verb at hand clears between them.                       *)
Cleared(f, b) == Put(f, b, None)
Ended(s, f, b) == Turn(f, b, s[f][b], None)

HomePlans(s, e, to, tips, turns, early, mid, late) ==
  {Plan(Draft("op", to, tips, to, EndTree(arr, tips[to]),
              WithArrival(s, <<Ended(s, "session", e)>> \o turns, to, arr), <<e, to>>),
        <<Set("head", to), Set("tip", tips)>> \o early \o <<Set("wt", tips[to].has)>>
          \o mid \o Arrive(to, arr) \o late, None) :
     arr \in Arrivals(s.open[to], tips[to])}

(* Faulty: the session is left in its branch's file.                       *)
ClosedOpen(e) == <<Cleared("open", e)>>
Closed(e) == <<Cleared("open", e), Cleared("session", e)>>

(* done.rs session_guards: an edit underfoot, the branch as it was minted, *)
(* and a branch to land on that no resolution or content hold closes.      *)
Landable(s) ==
  LET e == s.head
  IN /\ s.session[e] # None /\ s.tip[e] # None
     /\ SessionOf(s, e) = None /\ s.resolving[e] = None
     /\ Replans(s, Hold("done", e), s.wt)
     /\ s.tip[e].first = s.session[e].at.first
     /\ MayRewrite(s, s.session[e].onto)

(* plan_landing: nothing is rewritten when nothing changed.                *)
Landing(s) ==
  LET hold == Hold("done", s.head)
  IN IF s.wt = s.session[s.head].at.has THEN s.tip ELSE Rewritten(s, hold, ChainTree(s, hold, s.wt), fresh)

(* done_with, of an edit: landed on the branch it was opened from; held    *)
(* when a replay above the edited commit conflicts and no hold stands.     *)
DonePlans(s) ==
  LET e == s.head
      onto == s.session[e].onto
      above == Landing(s) # s.tip /\ s.tip[onto].id # s.session[e].at.id
  IN IF ~Landable(s) THEN {}
     ELSE HomePlans(s, e, onto, [Landing(s) EXCEPT ![e] = None], << >>, Closed(e), << >>, << >>)
          \cup {HoldPlan(s, e, Hold("done", e)) : c \in {c \in {e} : MayHold(s, c) /\ above}}

(* done_with of an edit, --abandon: the session goes, its open change left *)
(* where the log pins it.                                                  *)
DropEditPlans(s) ==
  LET e == s.head
      onto == s.session[e].onto
  IN IF s.session[e] = None \/ s.tip[e] = None \/ SessionOf(s, e) # None \/ s.resolving[e] # None THEN {}
     ELSE IF s.tip[onto] = None \/ ~ParkStands(s) THEN {}
     ELSE HomePlans(s, e, onto, [s.tip EXCEPT ![e] = None], << >>, Closed(e), << >>, << >>)

(* finish_resolution's guards: the question is still the one the reader was*)
(* given, and no mark is left.                                             *)
Fixed(s) ==
  LET b == SessionOf(s, s.head)
      r == s.resolving[b]
  IN /\ b # None
     /\ s.tip[s.head] # None
     /\ s.tip[b] # None
     /\ Replans(s, r.hold, r.open)
     /\ From(s, r.hold, r.open) = r.from
     /\ Marks \notin s.wt

(* done.rs roll_round: the next conflict, over the branch's own tip; what  *)
(* was typed is kept only where it fell in a mark a step keeps.            *)
RollPlans(s) ==
  LET e == s.head
      b == SessionOf(s, e)
      r == s.resolving[b]
      marker(kept) == Commit(fresh, {Marks} \cup ChainTree(s, r.hold, r.open) \cup kept, s.tip[b])
      roll(m) ==
        LET tips == [s.tip EXCEPT ![e] = m]
            sess == [onto |-> b, at |-> m]
            round == [r EXCEPT !.rounds = @ + 1]
        IN Plan(Draft("op", e, tips, e, m.has,
                      <<Turn("session", e, s.session[e], sess), Turn("resolving", b, r, round)>>, None),
                <<Set("tip", tips), Put("session", e, sess), Put("resolving", b, round),
                  Set("wt", m.has), Put("open", e, None)>>, None)
  IN IF Fixed(s) THEN {roll(marker(kept)) : kept \in {{}, s.wt}} ELSE {}

(* land_decided and held.rs Return: the fix is the tip of the rewrite.  An *)
(* edit lands with its own session, a move spends the change it moved.     *)
FinishPlans(s) ==
  LET e == s.head
      b == SessionOf(s, e)
      r == s.resolving[b]
      to == Lands(s, r.hold)
      nested == r.hold.kind = "done"
      tips == [Rewritten(s, r.hold, s.wt, fresh) EXCEPT
                 ![e] = None, ![b] = IF nested THEN None ELSE @]
      edit == IF nested THEN <<Ended(s, "session", b)>> ELSE << >>
      turns == edit \o <<Turn("held", b, r.hold, None), Ended(s, "resolving", b)>>
      spent == IF r.hold.kind = "restack" THEN << >> ELSE <<Cleared("open", b)>>
      home == IF r.hold.kind = "absorb" THEN [s EXCEPT !.open[to] = None] ELSE s
  IN IF ~Fixed(s) THEN {}
     ELSE IF nested /\ s.tip[b].first # s.session[b].at.first THEN {}
     ELSE HomePlans(home, e, to, tips, turns, IF nested THEN Closed(b) ELSE << >>,
                    <<Cleared("held", b), Cleared("resolving", b)>>, spent \o Closed(e))

(* resolve.rs abandon_hold, from the session: with the hold, or (ff done   *)
(* --abandon) without it.                                                  *)
ClosePlans(s, keep) ==
  LET e == s.head
      b == SessionOf(s, e)
      hold == IF keep THEN << >> ELSE <<Ended(s, "held", b)>>
      drop == IF keep THEN << >> ELSE <<Cleared("held", b)>>
  IN IF b = None \/ s.tip[e] = None \/ s.tip[b] = None THEN {}
     ELSE HomePlans(s, e, b, [s.tip EXCEPT ![e] = None], hold \o <<Ended(s, "resolving", b)>>,
                    Closed(e) \o drop \o <<Cleared("resolving", b)>>, << >>, << >>)

(* Faulty: an open resolution is refused before --abandon is looked at.    *)
DroppableIdle(s, b) == s.held[b] # None /\ s.resolving[b] = None
Droppable(s, b) == s.held[b] # None \/ s.resolving[b] # None

(* The same from the branch the hold stands on: the session goes wherever  *)
(* it is, and the tree stays as it is.                                     *)
DropHoldPlans(s) ==
  LET b == s.head
      r == s.resolving[b]
      gone == {e \in Sessions : r # None /\ r.session = e /\ s.tip[e] # None}
      tips == [e \in Branches |-> IF e \in gone THEN None ELSE s.tip[e]]
      was == {e \in gone : s.session[e] # None}
      turns == SetToSeq({Turn("session", e, s.session[e], None) : e \in was})
                 \o <<Turn("held", b, s.held[b], None), Turn("resolving", b, r, None)>>
  IN IF SessionOf(s, b) # None \/ s.tip[b] = None \/ ~Droppable(s, b) THEN {}
     ELSE {Plan(Draft("op", b, tips, b, s.wt, turns, None),
                <<Set("tip", tips)>> \o SetToSeq({Put("open", e, None) : e \in gone})
                  \o SetToSeq({Put("session", e, None) : e \in gone})
                  \o <<Put("held", b, None), Put("resolving", b, None)>>, None)}

-----------------------------------------------------------------------------
(***************************************************************************)
(* Undo and redo.                                                          *)
(***************************************************************************)

(* Faulty: a change that lags its tip is written anew over it.             *)
SyncedFresh(newest, b, tip) ==
  IF newest = None \/ (newest.open = None /\ b \notin Sessions) THEN None ELSE OpenOf(newest.tree, tip)

(* open.rs sync: the change of the branch's newest operation over its tip; *)
(* a change that lags a tip moved under it is kept as the operation has it.*)
(* Where that operation stated no change the branch wears no change id, and*)
(* gets none, unless it is a session's, whose id is its commit's.          *)
Synced(newest, b, tip) ==
  IF newest = None \/ (newest.open = None /\ b \notin Sessions) THEN None
  ELSE LET open == OpenOf(newest.tree, tip)
       IN IF open # None /\ newest.open # None /\ newest.open.parent # open.parent
          THEN newest.open ELSE open

(* undo.rs replay_order: what a move over the operations lo+1 .. hi writes *)
(* to the branches' metadata and pointers.                                 *)
Turned(l, lo, hi, back) ==
  LET ops == SubSeq(l.log, lo + 1, hi)
  IN IF back
     THEN FlattenSeq([i \in DOMAIN ops |->
            LET op == ops[Len(ops) + 1 - i]
            IN [j \in DOMAIN op.turns |-> Put(op.turns[j].f, op.turns[j].b, op.turns[j].old)]])
     ELSE FlattenSeq([i \in DOMAIN ops |->
            [j \in DOMAIN ops[i].turns |-> Put(ops[i].turns[j].f, ops[i].turns[j].b, ops[i].turns[j].new)]])

Pointers(l, lo, hi, back) ==
  [b \in Branches |->
     LET mine == {i \in lo + 1 .. hi : l.log[i].branch = b}
     IN IF mine = {} THEN l.top[b]
        ELSE IF back THEN l.log[Min(mine)].was ELSE l.log[Max(mine)].states]

(* undo.rs rewind, from where the log stands to the operation target.      *)
MovePlan(l, target, stack) ==
  LET back == target < l.at
      lo == IF back THEN target ELSE l.at
      hi == IF back THEN l.at ELSE target
      to == l.log[target]
      tops == Pointers(l, lo, hi, back)
      ops == {l.log[i] : i \in lo + 1 .. hi}
      touched == {to.head} \cup {op.branch : op \in ops}
                   \cup UNION {ToSet(op.headTurn) : op \in {op \in ops : op.headTurn # None}}
      open(b) == IF b # to.head /\ to.tips[b] = None THEN None ELSE Synced(tops[b], b, to.tips[b])
  IN Unlogged(
          <<Set("tip", to.tips), Set("head", to.head), Set("wt", to.tree)>>
            \o Turned(l, lo, hi, back)
            \o <<Set("log", [at |-> target, top |-> tops, redo |-> stack])>>
            \o [i \in 1 .. Cardinality(touched) |->
                  LET b == SetToSeq(touched)[i] IN Put("open", b, open(b))])

(* The oldest operation of the run the log stands on: adjacent captures are*)
(* one run.                                                                *)
RunStart(l) ==
  Min({i \in 1 .. l.at : \A j \in i .. l.at : i = l.at \/ l.log[j].kind = "capture"})

UndoPlans(l) ==
  LET run == RunStart(l)
  IN IF run = 1 THEN {}
     ELSE {MovePlan(l, run - 1, Append(l.redo, [to |-> l.at, w |-> l.w]))}

RedoPlans(l) == IF l.redo = << >> THEN {} ELSE {MovePlan(l, Last(l.redo).to, Front(l.redo))}

-----------------------------------------------------------------------------
(***************************************************************************)
(* The specification.                                                      *)
(***************************************************************************)

Take(l) == w' = l.w /\ log' = l.log /\ at' = l.at /\ top' = l.top /\ redo' = l.redo

(* A verb runs one of its plans after the preamble: the operation, then its*)
(* writes in order, all of them or, killed, the first few.                 *)
Run(plans, cost) ==
  /\ left[cost] > 0
  /\ \E p \in plans : \E n \in 0 .. Len(p.do) :
       LET killed == n < Len(p.do)
           begun == IF p.d = None THEN Begun ELSE Push(Begun, p.d)
       IN /\ killed => left.kills > 0
          /\ Take(FoldLeft(Write, begun, SubSeq(p.do, 1, n)))
          /\ next' = IF killed THEN None ELSE p.then
          /\ minted' = IF p.then = None THEN minted ELSE minted + 1
          /\ astray' = astray \cup {x \in {"killed"} : killed}
                              \cup {x \in {"released"} : cost = "frees"}
          /\ left' = IF killed THEN [left EXCEPT ![cost] = @ - 1, !.kills = @ - 1]
                     ELSE [left EXCEPT ![cost] = @ - 1]
  /\ fresh' = fresh + 1

Switch == next = None /\ \E b \in Branches : Run(SwitchPlans(Begun.w, b), "verbs")
CommitChange == next = None /\ Run(CommitPlans(Begun.w), "verbs")
Edit == next = None /\ Run(EditPlans(Begun.w), "verbs")
RestackBranch == next = None /\ Run(RewritePlans(Begun.w, Restack(Begun.w)), "verbs")
AbsorbChange == next = None /\ Run(RewritePlans(Begun.w, Absorb(Begun.w)), "verbs")
Resolve == next = None /\ Run(ResolvePlans(Begun.w), "verbs")
Carry == next = None /\ Run(CarryPlans(Begun.w), "verbs")
Release == next = None /\ Run(ReleasePlans(Begun.w), "frees")
Lay == next = None /\ Run(LayPlans(Begun.w), "verbs")
Done == next = None /\ Run(DonePlans(Begun.w), "verbs")
Finish == next = None /\ Run(FinishPlans(Begun.w), "verbs")
Roll == next = None /\ Run(RollPlans(Begun.w), "rounds")
DropEdit == next = None /\ Run(DropEditPlans(Begun.w), "drops")
Close == next = None /\ \E keep \in BOOLEAN : Run(ClosePlans(Begun.w, keep), "drops")
DropHold == next = None /\ Run(DropHoldPlans(Begun.w), "drops")
Undo == next = None /\ Run(UndoPlans(Begun), "undos")
Redo == next = None /\ Run(RedoPlans(Begun), "redos")

(* The switch a mint ends in, on a preamble of its own.                    *)
Continue ==
  /\ next # None
  /\ \/ SwitchPlans(Begun.w, next) # {} /\ Run(SwitchPlans(Begun.w, next), "steps")
     \/ /\ SwitchPlans(Begun.w, next) = {}
        /\ Take(Begun)
        /\ next' = None
        /\ UNCHANGED <<fresh, minted, astray, left>>

(* Any verb that is refused, and ff status: the preamble alone.            *)
Observe ==
  /\ next = None
  /\ Take(Begun)
  /\ UNCHANGED <<next, fresh, minted, astray, left>>

Type(t) ==
  /\ next = None /\ left.types > 0
  /\ t \notin w.wt
  /\ w' = [w EXCEPT !.wt = @ \cup {t}]
  /\ left' = [left EXCEPT !.types = @ - 1]
  /\ UNCHANGED <<log, at, top, redo, next, fresh, minted, astray>>

(* The reader fixes every mark.                                            *)
Fix ==
  /\ next = None
  /\ Marks \in w.wt
  /\ w' = [w EXCEPT !.wt = @ \ {Marks}]
  /\ UNCHANGED <<log, at, top, redo, next, fresh, minted, astray, left>>

(* Git, past fufu: a branch that is not HEAD's gains a commit, or a session*)
(* branch is deleted.                                                      *)
GitCommits(b, change) ==
  /\ next = None /\ left.gits > 0
  /\ b # w.head /\ w.tip[b] # None /\ change \notin w.tip[b].has
  /\ w' = [w EXCEPT !.tip[b] = Commit(fresh, @.has \cup {change}, @)]
  /\ fresh' = fresh + 1
  /\ left' = [left EXCEPT !.gits = @ - 1]
  /\ UNCHANGED <<log, at, top, redo, next, minted, astray>>

GitDeletes(b) ==
  /\ next = None /\ left.gits > 0
  /\ b # w.head /\ w.tip[b] # None
  /\ w' = [w EXCEPT !.tip[b] = None]
  /\ astray' = astray \cup {"deleted"}
  /\ left' = [left EXCEPT !.gits = @ - 1]
  /\ UNCHANGED <<log, at, top, redo, next, fresh, minted>>

Init ==
  /\ w = [head |-> Feat, wt |-> {"low", "tip"},
          tip |-> [b \in Branches |-> CASE b = Trunk -> Commit(5, {"up"}, Fork)
                                        [] b = Feat -> Commit(3, {"low", "tip"}, Low)
                                        [] OTHER -> None],
          open |-> [b \in Branches |-> None], held |-> [b \in Branches |-> None],
          resolving |-> [b \in Branches |-> None], session |-> [b \in Branches |-> None]]
  /\ log = <<Draft("note", Feat, w.tip, Feat, w.wt, << >>, None)>>
  /\ at = 1
  /\ top = [b \in Branches |-> None]
  /\ redo = << >>
  /\ next = None /\ fresh = 6 /\ minted = 0 /\ astray = {}
  /\ left \in Budgets

Next ==
  \/ Switch \/ CommitChange \/ Edit \/ RestackBranch \/ AbsorbChange \/ Resolve \/ Carry \/ Release \/ Lay
  \/ Done \/ Finish \/ Roll \/ DropEdit \/ Close \/ DropHold \/ Undo \/ Redo
  \/ Continue \/ Observe \/ Fix
  \/ \E t \in Work : Type(t)
  \/ \E b \in {Trunk, Feat}, change \in {"git", "more"} : GitCommits(b, change)
  \/ \E b \in Sessions : GitDeletes(b)

Spec == Init /\ [][Next]_vars

-----------------------------------------------------------------------------
(***************************************************************************)
(* Properties.                                                             *)
(***************************************************************************)

(* At rest, as long as no verb was killed and git deleted nothing, a branch *)
(* under resolution names a session branch that names it back, a session   *)
(* stands on a branch that exists, and what a session is opened from does.  *)
HalvesAgree ==
  next = None /\ astray \subseteq {"released"} =>
    /\ \A b \in Branches : w.resolving[b] # None =>
         /\ w.tip[w.resolving[b].session] # None
         /\ SessionOf(w, w.resolving[b].session) = b
         /\ w.held[b] # None \/ astray # {}
    /\ \A e \in Branches : w.session[e] # None => w.tip[e] # None /\ w.tip[w.session[e].onto] # None

(* Git deleted the branch the session underfoot was opened from.           *)
Orphaned(s, e) == s.session[e] # None /\ s.tip[s.session[e].onto] = None

(* Whatever was killed or deleted, once the change in the tree is stated a *)
(* branch with a hold, a resolution or a session on it has a verb that     *)
(* abandons it.  The one case left out is a session whose branch git       *)
(* deleted: ff done --abandon and ff resolve --abandon both refuse there,  *)
(* looking for the branch to go home to, and what is promised is that the  *)
(* reader can still switch away.                                           *)
NoDeadEnd ==
  LET s == Begun.w
      b == s.head
      stuck == s.tip[b] # None /\ (s.held[b] # None \/ s.resolving[b] # None \/ s.session[b] # None)
  IN next = None /\ stuck /\ ParkStands(s) =>
       IF Orphaned(s, b) THEN \E to \in Branches : SwitchPlans(s, to) # {}
       ELSE DropEditPlans(s) # {} \/ DropHoldPlans(s) # {} \/ ClosePlans(s, FALSE) # {}

(* What can be reached without the log: the tree, the branches, the open   *)
(* changes and those held.                                                 *)
Live(s) ==
  s.wt \cup UNION {IF s.tip[b] = None THEN {} ELSE s.tip[b].has : b \in Branches}
       \cup UNION {IF s.open[b] = None THEN {} ELSE s.open[b].tree : b \in Branches}
       \cup UNION {IF s.held[b] = None \/ s.held[b].open = None THEN {} ELSE s.held[b].open.tree :
                     b \in Branches}

(* The change an arrival held, which the next arrival to hold replaces.    *)
Replaced(s, t) ==
  UNION {s.held[b].open.tree :
    b \in {b \in Branches : /\ s.held[b] # None /\ s.held[b].kind = "arrive"
                             /\ t.held[b] # None /\ t.held[b].kind = "arrive"
                             /\ t.held[b].open # s.held[b].open}}

(* The change parked on the branch whose move or edit a resolution lands,  *)
(* which the landing takes for the change it was resolved from (held.rs    *)
(* Spent); it is more than that when the reader went back and typed.       *)
Spent(s, t) ==
  UNION {s.open[b].tree :
    b \in {b \in Branches : /\ s.open[b] # None /\ s.resolving[b] # None /\ t.resolving[b] = None
                             /\ s.resolving[b].hold.kind \in {"absorb", "done"}}}

(* What every operation the log has says the tree was.                     *)
Logged(ops) == UNION {ops[i].tree : i \in DOMAIN ops}

(* The steps that may leave work in the log only: an abandon, an undo, a   *)
(* redo, and a round of a resolution, whose new marks are written over the *)
(* fix.                                                                    *)
Drops ==
  \/ left'.drops < left.drops \/ left'.rounds < left.rounds
  \/ left'.undos < left.undos \/ left'.redos < left.redos

(* As long as no verb was killed, work a person typed stays where it can be*)
(* reached without the log, but for those steps, for an arrival that holds *)
(* over a held arrival, and for what was parked on a branch under          *)
(* resolution when the resolution landed; and after all of those an        *)
(* operation of the log has it.  Git's own moves are git's.                *)
NothingLost ==
  [][left'.gits = left.gits /\ "killed" \notin astray' =>
       /\ Live(w) \cap Work \subseteq Live(w') \cup Logged(log')
       /\ Drops \/ (Live(w) \cap Work) \ (Replaced(w, w') \cup Spent(w, w')) \subseteq Live(w')]_vars

(* The same repository, but for what is parked on the sessions left behind. *)
Same(s, t) ==
  /\ [s EXCEPT !.open = t.open] = t
  /\ \A b \in {Trunk, Feat, t.head} : s.open[b] = t.open[b]

Undid == left'.undos < left.undos /\ left'.kills = left.kills /\ log'[at' + 1].kind = "op"

UndoIsExact == [][Undid /\ astray = {} => Same(w', log'[at' + 1].pre)]_vars

RedoIsExact ==
  [][left'.redos < left.redos /\ left'.kills = left.kills /\ astray = {}
     => Same(w', Last(redo).w)]_vars

(* ff undo of an operation puts back the repository that verb read, and ff *)
(* redo the one the undo left (undo.rs rewind, resync_open_commits).       *)
MovesAreExact == UndoIsExact /\ RedoIsExact

=============================================================================
