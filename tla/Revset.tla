-------------------------------- MODULE Revset --------------------------------
(***************************************************************************)
(* Revision sets, the language every verb that takes a revision reads      *)
(* (ff-core/src/revset): the scanner (lex.rs), the parser (parse.rs), what *)
(* a name denotes (resolve.rs, ops/mod.rs), and the two evaluators, over   *)
(* commits (eval.rs, func.rs, range.rs) and over operations (opspace.rs).  *)
(*                                                                         *)
(* A behaviour writes one expression, one operator at a time, against one  *)
(* repository.  A character is a symbol: "::" and ".." are one each, and a *)
(* name is one.  Commits and operations are numbers, the open change is    *)
(* 0, and a commit's parents are in order.  A refusal is Refused, whichever*)
(* it is.                                                                  *)
(***************************************************************************)
EXTENDS Naturals, Sequences, SequencesExt, FiniteSets, FiniteSetsExt, Functions

CONSTANTS
  Repos,      \* repositories: [par, time, sha, change] of each commit, [refs,
              \* remotes, head], [open] the open change's id, [says] the commits a
              \* pattern matches, [op, tip] the operations, [sha, prev, time, base,
              \* kind] each, and the log's tip
  Leaves,     \* the names an expression is written with: sequences of symbols
  Functions,  \* the functions of a set it calls
  Predicates, \* and those of a pattern
  MaxSize     \* bound: how many names and operators it has

VARIABLES
  repo,
  tree        \* the expression

vars == <<repo, tree>>

None == [op |-> "none"]
Refused == [op |-> "refused"]
Node(op, x, y) == [op |-> op, x |-> x, y |-> y]
Leaf(text) == [op |-> "rev", text |-> text]

RECURSIVE Size(_)
Size(t) == IF t.op \in {"none", "rev"} THEN 1 ELSE 1 + Size(t.x) + (IF t.y = None THEN 0 ELSE Size(t.y))

-----------------------------------------------------------------------------
(***************************************************************************)
(* lex.rs.                                                                 *)
(***************************************************************************)

Marks == {"&", "|", "(", ")", "~", "::", ".."}
Digits == [d \in {"0", "1", "2", "3"} |-> CASE d = "0" -> 0 [] d = "1" -> 1 [] d = "2" -> 2 [] d = "3" -> 3]

(* The first place from i on that is not one of these.                     *)
Past(src, i, symbols) == Min({j \in i .. Len(src) + 1 : j = Len(src) + 1 \/ src[j] \notin symbols})
Until(src, i, symbols) == Min({j \in i .. Len(src) + 1 : j = Len(src) + 1 \/ src[j] \in symbols})

(* scan_suffix: whether the cursor is on a suffix.                         *)
OnSuffix(src, i) == i <= Len(src) /\ src[i] \in {"^", "~"}

(* scan_base, and then every suffix.                                       *)
RECURSIVE PastSuffixes(_, _)
PastSuffixes(src, i) == IF OnSuffix(src, i) THEN PastSuffixes(src, Past(src, i + 1, DOMAIN Digits)) ELSE i
PastRevision(src, i) == PastSuffixes(src, Until(src, i, Marks \cup {" ", "^"}))

RECURSIVE Scan(_, _)
Scan(src, i) ==
  IF i > Len(src) THEN << >>
  ELSE IF src[i] = " " THEN Scan(src, i + 1)
  ELSE IF src[i] \in Marks THEN <<[kind |-> src[i]]>> \o Scan(src, i + 1)
  ELSE LET j == PastRevision(src, i)
       IN <<[kind |-> "rev", text |-> SubSeq(src, i, j - 1)]>> \o Scan(src, j)

Lex(src) == Scan(src, 1)

-----------------------------------------------------------------------------
(***************************************************************************)
(* parse.rs.  What a step reads ends `at' a token; at 0 it is refused.     *)
(***************************************************************************)

Peek(toks, i) == IF i \in DOMAIN toks THEN toks[i].kind ELSE "end"

(* Faulty: complement is tighter than ancestry.                            *)
BindsLoosely == [ancestry |-> 30, complement |-> 40, intersection |-> 20, union |-> 10]
Binds == [ancestry |-> 40, complement |-> 30, intersection |-> 20, union |-> 10]

Power(k) == CASE k \in {"::", ".."} -> Binds.ancestry
              [] k = "&" -> Binds.intersection
              [] k = "|" -> Binds.union
              [] OTHER -> 0
StartsOperand(toks, i) == Peek(toks, i) \in {"rev", "(", "~", "::", ".."}

RECURSIVE Expr(_, _, _), Rest(_, _, _, _)

(* set: an operand beside the expression, with no operator, is refused.    *)
SetAt(toks, i) ==
  LET e == Expr(toks, i, 0)
  IN IF Peek(toks, e.at) \in {"~", "rev", "("} THEN [at |-> 0, tree |-> Refused] ELSE e

Closed(toks, e, made) == [at |-> IF Peek(toks, e.at) = ")" THEN e.at + 1 ELSE 0, tree |-> made]

Prefix(toks, i) ==
  CASE Peek(toks, i) = "rev" /\ Peek(toks, i + 1) = "(" /\ Len(toks[i].text) = 1 ->
         LET e == SetAt(toks, i + 2) IN Closed(toks, e, Node(toks[i].text[1], e.tree, None))
    [] Peek(toks, i) = "rev" /\ ~(Peek(toks, i + 1) = "(" /\ Len(toks[i].text) = 1) ->
         [at |-> i + 1, tree |-> Leaf(toks[i].text)]
    [] Peek(toks, i) = "(" -> LET e == SetAt(toks, i + 1) IN Closed(toks, e, e.tree)
    [] Peek(toks, i) = "~" ->
         LET e == Expr(toks, i + 1, Binds.complement) IN [at |-> e.at, tree |-> Node("~", e.tree, None)]
    [] Peek(toks, i) \in {"::", ".."} ->
         LET e == Expr(toks, i + 1, Binds.ancestry) IN [at |-> e.at, tree |-> Node(Peek(toks, i), None, e.tree)]
    [] OTHER -> [at |-> 0, tree |-> Refused]

Rest(toks, i, power, lhs) ==
  LET k == Peek(toks, i)
      e == Expr(toks, i + 1, Power(k) + 1)
  IN IF Power(k) = 0 \/ Power(k) < power THEN [at |-> i, tree |-> lhs]
     ELSE IF k \in {"::", ".."} /\ ~StartsOperand(toks, i + 1) THEN Rest(toks, i + 1, power, Node(k, lhs, None))
     ELSE Rest(toks, e.at, power, Node(k, lhs, e.tree))

Expr(toks, i, power) == LET p == Prefix(toks, i) IN Rest(toks, p.at, power, p.tree)

Parse(src) ==
  LET toks == Lex(src)
      e == SetAt(toks, 1)
  IN IF e.at = Len(toks) + 1 THEN e.tree ELSE Refused

-----------------------------------------------------------------------------
(***************************************************************************)
(* resolve.rs: what a name denotes.  A parent that a commit has not, and a *)
(* name nothing answers to, or two things do, is Nobody.                   *)
(***************************************************************************)

Nobody == 1000

Par(c) == ToSet(repo.par[c])
RECURSIVE Anc(_)
Anc(cs) == IF cs = {} THEN {} ELSE cs \cup Anc(UNION {Par(c) : c \in cs})

UniverseTips == Range(repo.refs) \cup Range(repo.remotes) \cup {repo.head}
Universe == Anc(UniverseTips)

(* split: a name and its suffixes, each a mark and how often or which.     *)
SuffixesOf(text) ==
  [k \in 1 .. Cardinality({i \in DOMAIN text : text[i] \in {"^", "~"}}) |->
     LET i == CHOOSE i \in DOMAIN text :
                text[i] \in {"^", "~"} /\ Cardinality({j \in 1 .. i : text[j] \in {"^", "~"}}) = k
     IN [mark |-> text[i],
         n |-> IF i < Len(text) /\ text[i + 1] \in DOMAIN Digits THEN Digits[text[i + 1]] ELSE 1]]

(* git's own suffixes from a commit: the n-th parent, n first parents.     *)
NthParent(c, n) == IF n = 0 THEN c ELSE IF n <= Len(repo.par[c]) THEN repo.par[c][n] ELSE Nobody
Step(c, s) ==
  IF c = Nobody THEN Nobody
  ELSE IF s.mark = "^" THEN NthParent(c, s.n)
  ELSE LET at[n \in 0 .. s.n] == IF n = 0 THEN c ELSE IF at[n - 1] = Nobody THEN Nobody ELSE NthParent(at[n - 1], 1)
       IN at[s.n]
Steps(c, suffixes) == FoldLeft(Step, c, suffixes)

(* open_steps: the first step lands on HEAD, and what is left goes on.     *)
AfterFirst(s) == IF s.mark = "^" \/ s.n = 1 THEN << >> ELSE <<[mark |-> "~", n |-> s.n - 1]>>

OpenSteps(suffixes) ==
  LET stepping == {k \in DOMAIN suffixes : suffixes[k].n # 0}
      first == Min(stepping)
  IN IF stepping = {} THEN 0
     ELSE IF suffixes[first].mark = "^" /\ suffixes[first].n > 1 THEN Nobody
     ELSE Steps(repo.head, AfterFirst(suffixes[first]) \o SubSeq(suffixes, first + 1, Len(suffixes)))

(* change_named: what is local first, the remotes when nothing there is.   *)
Wearing(id, tips) == {c \in Anc(tips) : repo.change[c] = id}
ChangeNamed(id) ==
  LET local == Wearing(id, Range(repo.refs) \cup {repo.head})
  IN IF local # {} THEN local ELSE Wearing(id, Range(repo.remotes))

(* canonicalize: every reading, and none of them wins.                     *)
Readings(base) ==
  {r \in {IF base \in DOMAIN repo.refs THEN {repo.refs[base]}
          ELSE IF base \in DOMAIN repo.remotes THEN {repo.remotes[base]} ELSE {},
          {c \in DOMAIN repo.par : repo.sha[c] = base},
          ChangeNamed(base)} : r # {}}

(* leaf: a commit, the open change, or Nobody.                             *)
Denotes(text) ==
  IF text[1] \in {"@", repo.open}
  THEN IF text[1] = "@" \/ Readings(text[1]) = {} THEN OpenSteps(SuffixesOf(text)) ELSE Nobody
  ELSE IF text[1] = "HEAD" THEN Steps(repo.head, SuffixesOf(text))
  ELSE IF Cardinality(Readings(text[1])) = 1 /\ \A r \in Readings(text[1]) : Cardinality(r) = 1
       THEN Steps(CHOOSE c \in UNION Readings(text[1]) : TRUE, SuffixesOf(text))
  ELSE Nobody

-----------------------------------------------------------------------------
(***************************************************************************)
(* eval.rs: a plan, and what it yields.                                    *)
(***************************************************************************)

Walk(tips, hidden) == [plan |-> "ancestors", tips |-> tips, hidden |-> hidden]
Everything == [plan |-> "everything"]
Nothing == [plan |-> "nothing"]
UniversePlan == Walk(Everything, Nothing)
Filter(keep, probe, want) == [plan |-> "filter", keep |-> keep, probe |-> probe, want |-> want]

RECURSIVE Cost(_)
Cost(p) ==
  CASE p.plan \in {"set", "base"} -> 0
    [] p.plan = "latest" -> 1
    [] p.plan = "ancestors" -> 2
    [] p.plan = "filter" -> Cost(p.keep)
    [] p.plan = "union" -> Max({Cost(p.left), Cost(p.right)})
    [] OTHER -> 3

(* Faulty: the complement of any set is what it does not reach.            *)
FoldsAny(t) == t.op = "::" /\ t.y # None
(* ancestors_of: ::b written as itself.                                    *)
Folds(t) == t.op = "::" /\ t.x = None

RECURSIVE OpsOf(_)    \* opspace.rs members, below

RECURSIVE PlanOf(_)
PlanOf(t) ==
  CASE t.op = "rev" -> [plan |-> "set", members |-> <<Denotes(t.text)>>]
    [] t.op = "|" -> [plan |-> "union", left |-> PlanOf(t.x), right |-> PlanOf(t.y)]
    [] t.op = "~" -> IF Folds(t.x) THEN Walk(Everything, PlanOf(t.x.y))
                     ELSE Filter(UniversePlan, PlanOf(t.x), FALSE)
    [] t.op = "&" ->
         LET folded == {<<w, c>> \in {<<t.x, t.y>>, <<t.y, t.x>>} : c.op = "~" /\ Folds(c.x)}
             pair == IF <<t.x, t.y>> \in folded THEN <<t.x, t.y>> ELSE <<t.y, t.x>>
             walked == PlanOf(pair[1])
             below == PlanOf(pair[2].x.y)
             left == PlanOf(t.x)
             right == PlanOf(t.y)
         IN IF folded # {}
            THEN IF walked.plan = "ancestors" /\ walked.hidden = Nothing
                 THEN Walk(walked.tips, below)
                 ELSE Filter(walked, Walk(below, Nothing), FALSE)
            ELSE IF Cost(left) < Cost(right) THEN Filter(right, left, TRUE) ELSE Filter(left, right, TRUE)
    [] t.op \in {"::", ".."} /\ t.x = None -> Walk(PlanOf(t.y), Nothing)
    [] t.op = "::" /\ t.x # None ->
         [plan |-> "descend", seeds |-> PlanOf(t.x), ceiling |-> IF t.y = None THEN Everything ELSE PlanOf(t.y)]
    [] t.op = ".." /\ t.x # None -> Walk(IF t.y = None THEN Everything ELSE PlanOf(t.y), PlanOf(t.x))
    [] t.op = "latest" -> [plan |-> "latest", of |-> PlanOf(t.x)]
    [] t.op \in {"heads", "roots"} -> [plan |-> "extremes", of |-> PlanOf(t.x), heads |-> t.op = "heads"]
    [] t.op = "description" -> [plan |-> "scan"]
    [] t.op = "base" -> [plan |-> "base", ops |-> OpsOf(t.x)]

TimeOf(m) == IF m = 0 THEN 1000 ELSE repo.time[m]
NewestFirst(S) == SetToSortSeq(S, LAMBDA a, b : TimeOf(a) > TimeOf(b) \/ (TimeOf(a) = TimeOf(b) /\ a > b))

(* gix's walk: of what is queued the newest goes first, and queues its     *)
(* parents; below `since' nothing is queued.                               *)
RECURSIVE Emit(_, _, _)
Emit(queued, seen, since) ==
  IF queued = {} THEN << >>
  ELSE LET c == Head(NewestFirst(queued))
           more == {p \in Par(c) \ seen : repo.time[p] >= since}
       IN <<c>> \o Emit((queued \ {c}) \cup more, seen \cup more, since)
Emitted(tips, since) == Emit(tips, tips, since)

(* walk_from: a tip is not taken to be above what is hidden.               *)
Checked(c, tips, hidden) == c \in tips => c \notin Anc(hidden)

(* with_hidden: a tip of the time of a hidden one may be yielded though it *)
(* lies below it.                                                          *)
Painted(c, tips, hidden) ==
  c \in Anc(hidden) /\ ~(c \in tips /\ \E h \in hidden : repo.time[h] = repo.time[c])
WalkFrom(tips, hidden) ==
  SelectSeq(Emitted(tips, 0), LAMBDA c : ~Painted(c, tips, hidden) /\ Checked(c, tips, hidden))

Commits(members) == ToSet(members) \ {0}
WithOpen(members, out) == IF 0 \in ToSet(members) THEN <<0>> \o out ELSE out

RECURSIVE Run(_)

(* tip_ids: the open change is walked from HEAD.                           *)
TipIds(p) ==
  CASE p = Everything -> UniverseTips
    [] p = Nothing -> {}
    [] OTHER -> Commits(Run(p)) \cup (IF 0 \in ToSet(Run(p)) THEN {repo.head} ELSE {})

(* Descend: one pass up the order the graph was emitted in.                *)
Reached(order, seeds) ==
  FoldLeft(LAMBDA got, c : IF c \in seeds \/ Par(c) \cap got # {} THEN got \cup {c} ELSE got, {}, Reverse(order))

(* extremes: what a member is above, or below, in one pass.                *)
Flagged(order, members, heads) ==
  IF heads
  THEN FoldLeft(LAMBDA got, c : IF c \in members \cup got THEN got \cup (Par(c) \cap ToSet(order)) ELSE got, {}, order)
  ELSE FoldLeft(LAMBDA got, c : IF Par(c) \cap (members \cup got) \cap ToSet(order) # {} THEN got \cup {c} ELSE got,
                {}, Reverse(order))

SinceOldest(members) == Min({repo.time[c] : c \in members})

Extremes(members, heads) ==
  LET ids == Commits(members)
      order == IF ids = {} THEN << >> ELSE Emitted(ids, SinceOldest(ids))
      flagged == Flagged(order, ids, heads)
      out == SelectSeq(order, LAMBDA c : c \in ids \ flagged)
  IN IF ~heads /\ repo.head \in (ids \cup flagged) \cap ToSet(order) THEN out ELSE WithOpen(members, out)

(* Merge, of two sides that are each newest first.                         *)
RECURSIVE Merged(_, _, _, _)
Merged(left, right, seen, time) ==
  IF left = << >> /\ right = << >> THEN << >>
  ELSE LET takeLeft == right = << >> \/ (left # << >> /\ time[left[1]] >= time[right[1]])
           m == IF takeLeft THEN left[1] ELSE right[1]
           rest == Merged(IF takeLeft THEN Tail(left) ELSE left, IF takeLeft THEN right ELSE Tail(right),
                          seen \cup {m}, time)
       IN IF m \in seen THEN rest ELSE <<m>> \o rest

Run(p) ==
  CASE p.plan = "set" -> p.members
    [] p.plan = "base" -> NewestFirst({repo.op[o].base : o \in ToSet(p.ops)} \ {Nobody})
    [] p.plan = "ancestors" ->
         WithOpen(IF p.tips = Everything THEN << >> ELSE Run(p.tips), WalkFrom(TipIds(p.tips), TipIds(p.hidden)))
    [] p.plan = "descend" ->
         LET seeds == Run(p.seeds)
             order == Emitted(TipIds(p.ceiling), 0)
         IN WithOpen(seeds, SelectSeq(order, LAMBDA c : c \in Reached(order, Commits(seeds))))
    [] p.plan = "union" -> Merged(Run(p.left), Run(p.right), {}, [m \in {0} \cup DOMAIN repo.time |-> TimeOf(m)])
    [] p.plan = "filter" ->
         LET probe == ToSet(Run(p.probe)) IN SelectSeq(Run(p.keep), LAMBDA m : (m \in probe) = p.want)
    [] p.plan = "latest" -> LET of == Run(p.of) IN SubSeq(of, 1, Min({1, Len(of)}))
    [] p.plan = "extremes" -> Extremes(Run(p.of), p.heads)
    [] p.plan = "scan" -> SelectSeq(WalkFrom(UniverseTips, {}), LAMBDA c : c \in repo.says)

Childless(ids) == {c \in ids : \A d \in ids : c \notin Par(d)}

(* Revset::range: the root and the head of a set that is one range.        *)
RangeOf(members) ==
  LET ids == Commits(members)
      open == 0 \in ToSet(members)
      heads == IF open THEN (Childless(ids) \ {repo.head}) \cup {0} ELSE Childless(ids)
      roots == {c \in ids : Par(c) \cap ids = {}} \cup (IF open /\ ids = {} THEN {0} ELSE {})
  IN IF Cardinality(heads) # 1 \/ Cardinality(roots) # 1 \/ (open /\ ids # {} /\ repo.head \notin ids)
     THEN Refused
     ELSE [root |-> CHOOSE c \in roots : TRUE, head |-> CHOOSE c \in heads : TRUE]

-----------------------------------------------------------------------------
(***************************************************************************)
(* opspace.rs, and ops/mod.rs resolve: the same over a chain.              *)
(***************************************************************************)

OpDenotes(text) ==
  LET base == IF text[1] = "@" THEN {repo.tip} ELSE {o \in DOMAIN repo.op : repo.op[o].sha = text[1]}
      suffixes == SuffixesOf(text)
      back(o, s) == IF o = Nobody \/ (s.mark = "^" /\ s.n # 1) THEN Nobody
                    ELSE LET at[n \in 0 .. s.n] ==
                               IF n = 0 THEN o ELSE IF at[n - 1] = Nobody THEN Nobody ELSE repo.op[at[n - 1]].prev
                         IN at[s.n]
  IN IF Cardinality(base) = 1 THEN FoldLeft(back, CHOOSE o \in base : TRUE, suffixes) ELSE Nobody

(* chain: the log from an operation backwards.                             *)
RECURSIVE Back(_)
Back(o) == IF o = Nobody THEN << >> ELSE <<o>> \o Back(repo.op[o].prev)

(* take_while: up to the first that is hidden.                             *)
Before(chain, stop) ==
  SubSeq(chain, 1, Min({k - 1 : k \in {k \in DOMAIN chain : chain[k] \in stop}} \cup {Len(chain)}))
(* Down to the last that is wanted, or to the end when one is not there.   *)
DownTo(chain, wanted) ==
  IF wanted = {} THEN << >>
  ELSE IF wanted \subseteq ToSet(chain) THEN SubSeq(chain, 1, Max({k \in DOMAIN chain : chain[k] \in wanted}))
  ELSE chain

FirstOf(ops) == IF ops = << >> THEN Nobody ELSE ops[1]
Only(ops, some) == SelectSeq(ops, LAMBDA o : o \in ToSet(some))

(* plan_of and run.                                                        *)
OpsOf(t) ==
  CASE t.op = "rev" -> <<OpDenotes(t.text)>>
    [] t.op = "|" -> Merged(OpsOf(t.x), OpsOf(t.y), {}, [o \in DOMAIN repo.op |-> repo.op[o].time])
    [] t.op = "&" -> Only(OpsOf(t.x), OpsOf(t.y))
    [] t.op = "~" -> LET out == ToSet(OpsOf(t.x)) IN SelectSeq(Back(repo.tip), LAMBDA o : o \notin out)
    [] t.op \in {"::", ".."} /\ t.x = None -> Back(FirstOf(OpsOf(t.y)))
    [] t.op = "::" /\ t.x # None ->
         LET down == DownTo(Back(repo.tip), ToSet(OpsOf(t.x)))
         IN IF t.y = None THEN down ELSE Only(Back(FirstOf(OpsOf(t.y))), down)
    [] t.op = ".." /\ t.x # None ->
         Before(Back(IF t.y = None THEN repo.tip ELSE FirstOf(OpsOf(t.y))), ToSet(OpsOf(t.x)))
    [] t.op \in {"latest", "heads"} -> LET of == OpsOf(t.x) IN SubSeq(of, 1, Min({1, Len(of)}))
    [] t.op = "roots" -> LET of == OpsOf(t.x) IN SubSeq(of, Max({1, Len(of)}), Len(of))
    [] t.op = "kind" -> SelectSeq(Back(repo.tip), LAMBDA o : repo.op[o].kind = "op")

-----------------------------------------------------------------------------
(***************************************************************************)
(* An expression is written.                                               *)
(***************************************************************************)

Unary == {Node("~", tree, None)} \cup {Node(op, None, tree) : op \in {"::", ".."}}
         \cup {Node(op, tree, None) : op \in {"::", ".."} \cup Functions}
Binary(t) == {Node(op, tree, t) : op \in {"&", "|", "::", ".."}} \cup {Node(op, t, tree) : op \in {"&", "|", "::", ".."}}
Operands == {Leaf(l) : l \in Leaves}
            \cup UNION {{Node("~", Leaf(l), None), Node("::", None, Leaf(l)),
                         Node("~", Node("::", None, Leaf(l)), None)} : l \in Leaves}
            \cup {Node(op, Leaf(CHOOSE l \in Leaves : TRUE), None) : op \in Predicates}

Apply == \E t \in Unary : Size(t) <= MaxSize /\ tree' = t /\ UNCHANGED repo
Combine == \E o \in Operands : \E t \in Binary(o) : Size(t) <= MaxSize /\ tree' = t /\ UNCHANGED repo

Init == repo \in Repos /\ tree \in {Leaf(l) : l \in Leaves}
Next == Apply \/ Combine
Spec == Init /\ [][Next]_vars

-----------------------------------------------------------------------------
(***************************************************************************)
(* What an expression means, said without a plan: docs/reference/          *)
(* revisions.md, the exceptions it lists for the open change included.     *)
(***************************************************************************)

(* A text with as few parentheses as the precedence asks for.              *)
Tightness(t) == CASE t.op \in {"::", ".."} -> 40 [] t.op = "~" -> 30 [] t.op = "&" -> 20 [] t.op = "|" -> 10 [] OTHER -> 50

RECURSIVE Written(_, _), Operand(_, _, _)
Operand(t, least, gap) ==
  IF t = None THEN << >>
  ELSE IF Tightness(t) >= least THEN Written(t, gap) ELSE <<"(">> \o gap \o Written(t, gap) \o gap \o <<")">>
Written(t, gap) ==
  CASE t.op = "rev" -> t.text
    [] t.op = "~" -> <<"~">> \o gap \o Operand(t.x, 30, gap)
    [] t.op \in {"::", ".."} -> Operand(t.x, 41, gap) \o gap \o <<t.op>> \o gap \o Operand(t.y, 41, gap)
    [] t.op \in {"&", "|"} ->
         Operand(t.x, Tightness(t), gap) \o gap \o <<t.op>> \o gap \o Operand(t.y, Tightness(t) + 1, gap)
    [] OTHER -> <<t.op, "(">> \o gap \o Written(t.x, gap) \o gap \o <<")">>

(* Every name of it denotes, and every function is one of the space's.     *)
RECURSIVE Means(_), OpMeans(_)
Means(t) ==
  CASE t.op = "none" -> TRUE
    [] t.op = "rev" -> Denotes(t.text) # Nobody
    [] t.op = "base" -> OpMeans(t.x)
    [] t.op \in Predicates -> t.op = "description"
    [] OTHER -> Means(t.x) /\ Means(t.y)
OpMeans(t) ==
  CASE t.op = "none" -> TRUE
    [] t.op = "rev" -> OpDenotes(t.text) # Nobody
    [] t.op = "base" -> FALSE
    [] t.op \in Predicates -> t.op = "kind"
    [] OTHER -> OpMeans(t.x) /\ OpMeans(t.y)

RECURSIVE Uses(_, _)
Uses(t, ops) == t.op \in ops \/ (t.op \notin {"none", "rev"} /\ (Uses(t.x, ops) \/ Uses(t.y, ops)))

(* The open change is a commit on top of HEAD.                             *)
Below(S) == Anc((S \ {0}) \cup (IF 0 \in S THEN {repo.head} ELSE {})) \cup (S \cap {0})
(* A name, stepped from one parent at a time.                              *)
ParentsOf(m) == IF m = 0 THEN <<repo.head>> ELSE repo.par[m]
RECURSIVE Stepped(_, _)
Stepped(m, suffixes) ==
  IF suffixes = << >> THEN m
  ELSE LET s == Head(suffixes)
           left == IF s.n > 1 THEN <<[s EXCEPT !.n = s.n - 1]>> ELSE << >>
       IN IF s.n = 0 THEN Stepped(m, Tail(suffixes))
          ELSE IF s.mark = "^" THEN Stepped(ParentsOf(m)[s.n], Tail(suffixes))
          ELSE Stepped(ParentsOf(m)[1], left \o Tail(suffixes))
Named(text) == Stepped(Denotes(<<text[1]>>), SuffixesOf(text))

RECURSIVE Chosen(_), OpsChosen(_)
OpBelow(S) == UNION {ToSet(Back(o)) : o \in S}
Live == OpBelow({repo.tip})
OpsChosen(t) ==
  CASE t.op = "rev" -> {OpDenotes(t.text)}
    [] t.op = "|" -> OpsChosen(t.x) \cup OpsChosen(t.y)
    [] t.op = "&" -> OpsChosen(t.x) \cap OpsChosen(t.y)
    [] t.op = "~" -> Live \ OpsChosen(t.x)
    [] t.op \in {"::", ".."} ->
         LET above == IF t.y = None THEN Live ELSE OpBelow(OpsChosen(t.y))
         IN IF t.x = None THEN above
            ELSE IF t.op = ".." THEN above \ OpBelow(OpsChosen(t.x))
            ELSE {o \in above : OpBelow({o}) \cap OpsChosen(t.x) # {}}
    [] t.op \in {"latest", "heads"} -> {o \in OpsChosen(t.x) : OpsChosen(t.x) \subseteq OpBelow({o})}
    [] t.op = "roots" -> {o \in OpsChosen(t.x) : \A p \in OpsChosen(t.x) : o \in OpBelow({p})}
    [] t.op = "kind" -> {o \in Live : repo.op[o].kind = "op"}

Chosen(t) ==
  CASE t.op = "rev" -> {Named(t.text)}
    [] t.op = "|" -> Chosen(t.x) \cup Chosen(t.y)
    [] t.op = "&" -> Chosen(t.x) \cap Chosen(t.y)
    [] t.op = "~" -> Universe \ Chosen(t.x)
    [] t.op \in {"::", ".."} ->
         LET above == IF t.y = None THEN Universe ELSE Below(Chosen(t.y))
         IN IF t.x = None THEN above
            ELSE IF t.op = ".." THEN above \ (Below(Chosen(t.x)) \ {0})
            ELSE {c \in above \ {0} : Below({c}) \cap Chosen(t.x) # {}} \cup (Chosen(t.x) \cap {0})
    [] t.op = "latest" -> {m \in Chosen(t.x) : \A n \in Chosen(t.x) : TimeOf(n) <= TimeOf(m)}
    [] t.op = "heads" -> {m \in Chosen(t.x) : \A n \in Chosen(t.x) \ {0, m} : m \notin Below({n})}
    [] t.op = "roots" ->
         LET ids == Chosen(t.x) \ {0}
         IN {m \in ids : \A n \in ids \ {m} : n \notin Below({m})}
            \cup (IF repo.head \in Below(ids) /\ Below({repo.head}) \cap ids # {} THEN {} ELSE Chosen(t.x) \cap {0})
    [] t.op = "base" -> {repo.op[o].base : o \in OpsChosen(t.x)} \ {Nobody}
    [] t.op = "description" -> Universe \cap repo.says

(* Every operation an expression names is on the live log, and no range of *)
(* it hides what is newer than where it starts.                            *)
Newest(S) == {o \in S : S \subseteq OpBelow({o})}
RECURSIVE HidesOlder(_)
HidesOlder(t) ==
  CASE t.op = "none" \/ t.op \in Predicates -> TRUE
    [] t.op = "rev" -> OpDenotes(t.text) \in Live
    [] OTHER ->
         /\ HidesOlder(t.x) /\ HidesOlder(t.y)
         /\ t.op = ".." /\ t.x # None /\ t.y # None => Newest(OpsChosen(t.x)) \subseteq OpBelow(OpsChosen(t.y))
RECURSIVE BasesInOrder(_)
BasesInOrder(t) ==
  CASE t.op \in {"none", "rev"} -> TRUE
    [] t.op = "base" -> HidesOlder(t.x)
    [] OTHER -> BasesInOrder(t.x) /\ BasesInOrder(t.y)

-----------------------------------------------------------------------------
(***************************************************************************)
(* Properties.                                                             *)
(***************************************************************************)

(* An expression is read back as it was written, with the parentheses the  *)
(* precedence makes needless left out and with or without spaces: a ~ or a *)
(* ^ that belongs to a name is never taken for an operator, nor one for    *)
(* the other (lex.rs scan_revision, parse.rs expr).                        *)
ParsedAsWritten == Parse(Written(tree, << >>)) = tree /\ Parse(Written(tree, <<" ">>)) = tree

Ordered(out) == \A i, j \in DOMAIN out : i < j => out[i] # out[j] /\ TimeOf(out[i]) >= TimeOf(out[j])
Ticking == \A c \in DOMAIN repo.par : \A p \in Par(c) : repo.time[p] < repo.time[c]

(* Commits of one second order a forward walk and the extremes by chance,  *)
(* as the documentation says, so there each is newer than its parents.     *)
CommitsAnswer ==
  Means(tree) /\ BasesInOrder(tree) /\ (Ticking \/ ~Uses(tree, {"::", "heads", "roots", "latest", "base"}))
    => LET out == Run(PlanOf(tree)) IN ToSet(out) = Chosen(tree) /\ Ordered(out)

(* A set read as one range has no gap: what ff diff measures from the root *)
(* to the head is the whole of the set and nothing else, where no merge    *)
(* offers two ways between them (range.rs).                                *)
RangeAnswers ==
  Means(tree) /\ Ticking
    => LET members == ToSet(Run(PlanOf(tree)))
           range == RangeOf(Run(PlanOf(tree)))
       IN range # Refused =>
            /\ \A m \in members : m \in Below({range.head}) /\ range.root \in Below({m})
            /\ (\A c \in DOMAIN repo.par : Len(repo.par[c]) <= 1)
                 => members = {m \in Below({range.head}) : range.root \in Below({m})}

(* Over operations too, the plan of a chain yields the set, where a range  *)
(* hides nothing newer than what it starts from and every operation it     *)
(* names is on the live log (opspace.rs).                                  *)
OpsAnswer ==
  OpMeans(tree) /\ HidesOlder(tree)
    => ToSet(OpsOf(tree)) = OpsChosen(tree) /\ IsInjective(OpsOf(tree))

(* Whatever plan an expression is folded into, over commits or over        *)
(* operations, it yields the set it denotes, each member once and the      *)
(* newest first (eval.rs plan_of, run; opspace.rs plan_of, run), and the   *)
(* range a command takes it for is that set (range.rs).                    *)
AnswerIsTheSet == CommitsAnswer /\ RangeAnswers /\ OpsAnswer

=============================================================================
