-------------------------- MODULE SharedCopyProofs --------------------------
(***************************************************************************)
(* A push takes nothing unknown off the shared copy, for every set of      *)
(* changes and every bound.                                                *)
(***************************************************************************)
EXTENDS SharedCopy, Walks, FiniteSetTheorems

(* What the steps of a run carry is known, or will be when the branch      *)
(* moves: the facts that make the seen record and the lease mean what they *)
(* say (seen.rs, accounted.rs, published.rs).                              *)
Known == had \cup told
RefsKnown ==
  /\ Line(tip) \subseteq had /\ Line(published) \subseteq had /\ Line(seen) \subseteq Known
  /\ Accounted(log) \subseteq had
PushKnown ==
  /\ push.step = "read" => Line(push.seen) \subseteq Known
  /\ push.step = "planned" => Line(push.tracking) \subseteq Known
  /\ push.step \notin {"idle", "read"} => Line(push.to) \subseteq had
PullKnown ==
  /\ pull.step \in {"read", "fetched"} => Line(pull.tip) \subseteq had
  /\ pull.step \in {"planned", "logged"} =>
       /\ pull.answer \in {"moves", "held"} /\ pull.old \subseteq had
       /\ pull.answer = "moves" /\ pull.onto = pull.after => Line(pull.after) \subseteq Line(pull.to)
  /\ pull.step = "moved" /\ pull.answer # "held" /\ pull.onto = pull.after
       => Line(pull.after) \subseteq had
IInv == TypeOK /\ RefsKnown /\ PushKnown /\ PullKnown

-----------------------------------------------------------------------------
(* Lines.                                                                  *)
LEMMA LineOf ==
  ASSUME NEW t \in Tips
  PROVE  Line(t) = {SubSeq(t, 1, i) : i \in 1..Len(t)} /\ t # NoTip
  BY NoTipAssumption DEF Line, Tips, Commits

LEMMA LineType ==
  ASSUME NEW t \in Refs
  PROVE  Line(t) \subseteq Tips
<1>1. CASE t = NoTip
  BY <1>1 DEF Line
<1>2. CASE t \in Tips
  <2>1. \A i \in 1..Len(t) : SubSeq(t, 1, i) \in Tips
    BY <1>2, SubSeqProperties, LenProperties DEF Tips
  <2>2. Line(t) = {SubSeq(t, 1, i) : i \in 1..Len(t)}
    BY <1>2, LineOf
  <2> QED
    BY <2>1, <2>2
<1> QED
  BY <1>1, <1>2 DEF Refs

LEMMA LinePrefix ==
  ASSUME NEW s \in Tips, NEW t \in Tips, IsPrefix(s, t)
  PROVE  Line(s) \subseteq Line(t)
<1>1. Len(s) \in Nat /\ Len(t) \in Nat /\ Len(s) <= Len(t)
  BY LenProperties DEF IsPrefix, Tips
<1>2. ASSUME NEW i \in 1..Len(s) PROVE SubSeq(s, 1, i) = SubSeq(t, 1, i)
  BY SMT DEF IsPrefix, Tips
<1>3. ASSUME NEW i \in 1..Len(s) PROVE i \in 1..Len(t)
  BY <1>1
<1> QED
  BY <1>2, <1>3, LineOf

LEMMA LineConcat ==
  ASSUME NEW s \in Tips, NEW t \in Tips
  PROVE  s \o t \in Tips /\ Line(s) \subseteq Line(s \o t)
<1>1. s \o t \in Tips /\ Len(s \o t) = Len(s) + Len(t) /\ Len(s) \in Nat /\ Len(t) \in Nat
  BY ConcatProperties, LenProperties DEF Tips
<1>2. ASSUME NEW i \in 1..Len(s) PROVE SubSeq(s \o t, 1, i) = SubSeq(s, 1, i) /\ i \in 1..Len(s \o t)
  BY <1>1, SMT DEF Tips
<1>3. /\ Line(s) = {SubSeq(s, 1, i) : i \in 1..Len(s)}
      /\ Line(s \o t) = {SubSeq(s \o t, 1, i) : i \in 1..Len(s \o t)}
  BY <1>1, LineOf
<1>4. Line(s) \subseteq Line(s \o t)
  BY <1>2, <1>3, Zenon
<1> QED
  BY <1>1, <1>4

LEMMA InOrderType ==
  ASSUME NEW s \in Tips, NEW I \in SUBSET (1..Len(s)), NEW r \in InOrder(s, I)
  PROVE  r \in Tips
<1>1. Cardinality(I) \in Nat
  <2>1. Len(s) \in Nat
    BY LenProperties DEF Tips
  <2>2. IsFiniteSet(1..Len(s))
    BY <2>1, FS_Interval
  <2> QED
    BY <2>2, FS_Subset, FS_CardinalityType
<1>2. PICK p \in [1..Cardinality(I) -> I] : r = [k \in 1..Cardinality(I) |-> s[p[k]]]
  BY DEF InOrder
<1>3. \A i \in I : s[i] \in Commits
  BY ElementOfSeq DEF Tips
<1>4. r \in [1..Cardinality(I) -> Commits]
  BY <1>2, <1>3
<1> QED
  BY <1>1, <1>4, SeqDef DEF Tips

-----------------------------------------------------------------------------
(* The log.                                                                *)
LEMMA LogAppend ==
  ASSUME NEW L \in Seq(Ops), NEW op \in Ops
  PROVE  /\ Append(L, op) \in Seq(Ops) /\ Append(L, op) # << >>
         /\ Accounted(Append(L, op)) \subseteq Accounted(L) \cup op.old
<1>1. /\ Append(L, op) \in Seq(Ops) /\ Len(Append(L, op)) = Len(L) + 1 /\ Len(L) \in Nat
      /\ \A i \in 1..Len(L) : Append(L, op)[i] = L[i]
      /\ Append(L, op)[Len(L) + 1] = op
  BY AppendProperties, LenProperties
<1>2. DOMAIN Append(L, op) = 1..Len(L) + 1 /\ DOMAIN L = 1..Len(L)
  BY <1>1, LenProperties
<1>3. ASSUME NEW i \in DOMAIN Append(L, op)
      PROVE  Append(L, op)[i].old \subseteq Accounted(L) \cup op.old
  <2>1. CASE i = Len(L) + 1
    BY <1>1, <2>1
  <2>2. CASE i \in DOMAIN L
    BY <1>1, <1>2, <2>2 DEF Accounted
  <2> QED
    BY <1>1, <1>2, <2>1, <2>2
<1>4. Accounted(Append(L, op)) \subseteq Accounted(L) \cup op.old
  BY <1>3 DEF Accounted
<1>5. Append(L, op) # << >>
  BY <1>1, EmptySeq
<1> QED
  BY <1>1, <1>4, <1>5

LEMMA LogFront ==
  ASSUME NEW L \in Seq(Ops), Len(L) > 1
  PROVE  /\ Front(L) \in Seq(Ops) /\ Front(L) # << >>
         /\ Last(Front(L)) \in Ops /\ Last(L) \in Ops
         /\ Accounted(Front(L)) \subseteq Accounted(L)
<1>1. Len(L) \in Nat /\ Len(L) - 1 \in 1..Len(L) /\ DOMAIN L = 1..Len(L)
  BY LenProperties
<1>2. /\ Front(L) \in Seq(Ops) /\ Len(Front(L)) = Len(L) - 1
      /\ \A i \in 1..Len(L) - 1 : Front(L)[i] = L[i]
  BY <1>1, SubSeqProperties DEF Front
<1>3. Last(Front(L)) \in Ops /\ Last(L) \in Ops /\ Front(L) # << >>
  BY <1>1, <1>2, ElementOfSeq, EmptySeq DEF Last
<1>4. DOMAIN Front(L) = 1..Len(L) - 1
  BY <1>2, LenProperties
<1>5. Accounted(Front(L)) \subseteq Accounted(L)
  <2>1. \A i \in DOMAIN Front(L) : i \in DOMAIN L /\ Front(L)[i].old = L[i].old
    BY <1>1, <1>2, <1>4
  <2> QED
    BY <2>1 DEF Accounted
<1> QED
  BY <1>2, <1>3, <1>5

LEMMA OpType ==
  ASSUME NEW t \in Tips, NEW o \in SUBSET Tips, held \in BOOLEAN
  PROVE  Operation(t, o) \in Ops /\ Operation(t, o).old = o
  BY DEF Operation, Ops

LEMMA ReconciledType ==
  ASSUME TypeOK
  PROVE  /\ Reconciled \in Seq(Ops) /\ Reconciled # << >>
         /\ Accounted(Reconciled) \subseteq Accounted(log)
<1>1. Operation(tip, {}) \in Ops /\ Operation(tip, {}).old = {}
  BY OpType DEF TypeOK
<1>2. log \in Seq(Ops) /\ log # << >>
  BY DEF TypeOK
<1>3. CASE Last(log).to = tip
  BY <1>2, <1>3 DEF Reconciled
<1>4. CASE Last(log).to # tip
  BY <1>1, <1>2, <1>4, LogAppend DEF Reconciled
<1> QED
  BY <1>3, <1>4

(* What a verb writes stays typed, and accounts for no more than it names. *)
LEMMA RecordType ==
  ASSUME TypeOK, NEW t \in Tips, NEW o \in SUBSET Tips, Record(Operation(t, o))
  PROVE  log' \in Seq(Ops) /\ log' # << >> /\ Accounted(log') \subseteq Accounted(log) \cup o
<1>1. Operation(t, o) \in Ops /\ Operation(t, o).old = o
  BY OpType DEF TypeOK
<1> QED
  BY <1>1, ReconciledType, LogAppend DEF Record

-----------------------------------------------------------------------------
(* The plans of a pull.                                                    *)
Plans == [answer : {"error", "level", "moves", "held"}, to : Tips, old : SUBSET Tips]

LEMMA StaysType ==
  ASSUME NEW a \in {"error", "level", "held"}, NEW t \in Tips, NEW plan \in Stays(a, t)
  PROVE  plan \in Plans /\ plan.answer = a /\ plan.to = t /\ plan.old = {}
  BY DEF Stays, Plan, Plans

LEMMA MovedType ==
  ASSUME NEW t \in Tips, NEW to \in Tips, NEW o \in SUBSET Tips, NEW plan \in Moved(t, to, o)
  PROVE  /\ plan \in Plans /\ plan.answer \in {"moves", "held"} /\ plan.old \subseteq o
         /\ plan.answer = "moves" => plan.to = to
  BY DEF Moved, Stays, Plan, Plans

(* A restack leaves everything of its base beneath the branch, and rewrites*)
(* only what the branch holds.                                             *)
LEMMA RestackKnown ==
  ASSUME NEW t \in Tips, NEW base \in Tips, NEW positions,
         NEW plan \in Restack(t, base, positions)
  PROVE  /\ plan \in Plans /\ plan.old \subseteq Line(t)
         /\ plan.answer = "level" => Line(base) \subseteq Line(t)
         /\ plan.answer = "moves" => Line(base) \subseteq Line(plan.to)
<1> DEFINE bound == Boundary(t, base, positions)
           own == {i \in 1..Len(t) : i > bound}
           kept == {i \in own : ~Dropped(t[i], t, base)}
           old == Line(t) \ Line(SubSeq(t, 1, bound))
<1>1. kept \in SUBSET (1..Len(t)) /\ old \in SUBSET Line(t) /\ Line(t) \subseteq Tips
  BY LineType DEF Refs
<1>2. plan \in IF IsPrefix(base, t) THEN Stays("level", t)
               ELSE IF IsPrefix(t, base) THEN Moved(t, base, {})
               ELSE IF own = {} THEN Stays("error", t)
               ELSE IF \E i \in kept : Collides(t[i], base) THEN Stays("held", t)
               ELSE UNION {Moved(t, base \o rest, old) : rest \in InOrder(t, kept)}
  BY DEF Restack
<1> HIDE DEF bound, own, kept, old
<1>3. CASE IsPrefix(base, t)
  <2>1. plan \in Stays("level", t)
    BY <1>2, <1>3
  <2> QED
    BY <1>3, <2>1, StaysType, LinePrefix
<1>4. CASE ~IsPrefix(base, t) /\ IsPrefix(t, base)
  <2>1. plan \in Moved(t, base, {})
    BY <1>2, <1>4
  <2> QED
    BY <2>1, MovedType
<1>5. CASE plan \in Stays("error", t) \/ plan \in Stays("held", t)
  BY <1>5, StaysType
<1>6. CASE plan \in UNION {Moved(t, base \o rest, old) : rest \in InOrder(t, kept)}
  <2>1. PICK rest \in InOrder(t, kept) : plan \in Moved(t, base \o rest, old)
    BY <1>6
  <2>2. rest \in Tips
    BY <1>1, <2>1, InOrderType
  <2>3. base \o rest \in Tips /\ Line(base) \subseteq Line(base \o rest)
    BY <2>2, LineConcat
  <2>4. old \in SUBSET Tips
    BY <1>1
  <2>5. /\ plan \in Plans /\ plan.answer \in {"moves", "held"} /\ plan.old \subseteq old
        /\ plan.answer = "moves" => plan.to = base \o rest
    BY <2>1, <2>3, <2>4, MovedType
  <2> QED
    BY <1>1, <2>3, <2>5
<1> QED
  BY <1>2, <1>3, <1>4, <1>5, <1>6

(* A pull that answers "level" has been at a tip that was once its own, or *)
(* at one the tracking ref has since left.                                 *)
PlanKnown(plan) ==
  /\ plan \in Plans /\ plan.old \subseteq had
  /\ plan.answer = "level" /\ tracking = pull.after => Line(pull.after) \subseteq had
  /\ plan.answer = "moves" /\ tracking = pull.after => Line(pull.after) \subseteq Line(plan.to)

LEMMA KeptBack ==
  ASSUME IInv, NEW t \in Tips, Line(t) \subseteq had, Yours(t) \/ Undone(t)
  PROVE  Line(pull.after) \subseteq had
<1>1. CASE Undone(t)
  BY <1>1 DEF Undone, IInv, RefsKnown
<1>2. CASE Yours(t)
  <2>1. Accounted(Reconciled) \subseteq had
    BY ReconciledType DEF IInv, RefsKnown
  <2>2. Line(pull.after) \ Line(t) \subseteq Accounted(Reconciled)
    BY <1>2 DEF Yours, Beyond
  <2> QED
    BY <2>1, <2>2
<1> QED
  BY <1>1, <1>2

LEMMA LevelKnown ==
  ASSUME IInv, Line(pull.after) \subseteq had, NEW plan \in Stays("level", tip)
  PROVE  PlanKnown(plan)
<1>1. plan \in Plans /\ plan.answer = "level" /\ plan.old = {}
  BY StaysType DEF IInv, TypeOK
<1> QED
  BY <1>1 DEF PlanKnown

LEMMA ErrorKnown ==
  ASSUME IInv, NEW plan \in Stays("error", tip)
  PROVE  PlanKnown(plan)
<1>1. plan \in Plans /\ plan.answer = "error" /\ plan.old = {}
  BY StaysType DEF IInv, TypeOK
<1> QED
  BY <1>1 DEF PlanKnown

LEMMA ReplayKnown ==
  ASSUME IInv, tracking # NoTip, NEW plan \in Restack(tip, tracking, stood)
  PROVE  PlanKnown(plan)
<1>1. tip \in Tips /\ tracking \in Tips /\ Line(tip) \subseteq had
  BY DEF IInv, TypeOK, RefsKnown, Refs
<1>2. /\ plan \in Plans /\ plan.old \subseteq Line(tip)
      /\ plan.answer = "level" => Line(tracking) \subseteq Line(tip)
      /\ plan.answer = "moves" => Line(tracking) \subseteq Line(plan.to)
  BY <1>1, RestackKnown
<1> QED
  BY <1>1, <1>2 DEF PlanKnown

LEMMA HereKnown ==
  ASSUME IInv, pull.step = "fetched", NEW plan \in AxisHere
  PROVE  PlanKnown(plan)
<1>1. CASE plan \in Stays("error", tip)
  BY <1>1, ErrorKnown
<1>2. CASE (Yours(pull.tip) \/ Undone(pull.tip)) /\ plan \in Stays("level", tip)
  <2>1. pull.tip \in Tips /\ Line(pull.tip) \subseteq had
    BY DEF IInv, TypeOK, PullKnown
  <2> QED
    BY <1>2, <2>1, KeptBack, LevelKnown
<1>3. CASE tracking # NoTip /\ plan \in Restack(tip, tracking, stood)
  BY <1>3, ReplayKnown
<1> QED
  BY <1>1, <1>2, <1>3 DEF AxisHere

LEMMA ThereKnown ==
  ASSUME IInv, pull.step = "fetched", NEW plan \in AxisThere
  PROVE  PlanKnown(plan)
<1>1. tip \in Tips /\ Line(tip) \subseteq had /\ pull.after \in Refs
  BY DEF IInv, TypeOK, RefsKnown, PullRuns
<1>2. CASE plan \in Stays("error", tip)
  BY <1>2, ErrorKnown
<1>3. CASE pull.after # NoTip /\ IsPrefix(pull.after, tip) /\ plan \in Stays("level", tip)
  <2>1. Line(pull.after) \subseteq had
    BY <1>1, <1>3, LinePrefix DEF Refs
  <2> QED
    BY <1>3, <2>1, LevelKnown
<1>4. CASE (Yours(tip) \/ Undone(tip)) /\ plan \in Stays("level", tip)
  BY <1>1, <1>4, KeptBack, LevelKnown
<1>5. CASE pull.after # NoTip /\ plan \in {Plan("moves", pull.after, {})}
  BY <1>1, <1>5 DEF Plan, PlanKnown, Plans, Refs
<1>6. CASE tracking # NoTip /\ plan \in Restack(tip, tracking, stood)
  BY <1>6, ReplayKnown
<1> QED
  BY <1>2, <1>3, <1>4, <1>5, <1>6 DEF AxisThere

-----------------------------------------------------------------------------
(* The steps.  Work on the branch.                                         *)

(* A step of the branch alone, recorded or undone, keeps the invariant when*)
(* the log it leaves accounts only for what was on the branch.             *)
LEMMA BranchStep ==
  ASSUME IInv, NEW t \in Tips, SetTip(t), Local,
         log' \in Seq(Ops), log' # << >>, Accounted(log') \subseteq had, held' \in BOOLEAN
  PROVE  IInv'
<1>1. tip' = t /\ had' = had \cup Line(t) /\ told' = told
  BY DEF SetTip, Local
<1>2. UNCHANGED <<shared, tracking, stood, seen, published, push, pull>>
  BY DEF Local
<1>3. TypeOK'
  BY <1>1, <1>2 DEF IInv, TypeOK
<1>4. RefsKnown'
  BY <1>1, <1>2 DEF IInv, RefsKnown, Known
<1>5. PushKnown'
  BY <1>1, <1>2 DEF IInv, PushKnown, Known
<1>6. PullKnown'
  BY <1>1, <1>2 DEF IInv, PullKnown
<1> QED
  BY <1>3, <1>4, <1>5, <1>6 DEF IInv

LEMMA CommitStep == IInv /\ Commit => IInv'
<1> SUFFICES ASSUME IInv, Commit PROVE IInv'
  OBVIOUS
<1> DEFINE t(c) == Append(tip, [change |-> c, text |-> "first"])
<1>1. PICK c \in Changes : Record(Operation(t(c), {})) /\ SetTip(t(c)) /\ Local /\ held' = held
  BY DEF Commit
<1>2. t(c) \in Tips
  <2>1. tip \in Seq(Commits) /\ [change |-> c, text |-> "first"] \in Commits
    BY DEF IInv, TypeOK, Tips, Commits
  <2> QED
    BY <2>1, AppendProperties DEF Tips
<1> HIDE DEF t
<1>3. log' \in Seq(Ops) /\ log' # << >> /\ Accounted(log') \subseteq Accounted(log) \cup {}
  BY <1>1, <1>2, RecordType DEF IInv
<1>4. Accounted(log') \subseteq had /\ held' \in BOOLEAN
  BY <1>1, <1>3 DEF IInv, RefsKnown, TypeOK
<1> QED
  BY <1>1, <1>2, <1>3, <1>4, BranchStep

LEMMA RewriteStep == IInv /\ Rewrite => IInv'
<1> SUFFICES ASSUME IInv, Rewrite PROVE IInv'
  OBVIOUS
<1> DEFINE t(i) == [tip EXCEPT ![i].text = "ours"]
           o(i) == Line(tip) \ Line(SubSeq(tip, 1, i - 1))
<1>1. PICK i \in 1..Len(tip) :
        Record(Operation(t(i), o(i))) /\ SetTip(t(i)) /\ Local /\ held' = held
  BY DEF Rewrite
<1>2. tip \in Seq(Commits) /\ tip \in Tips
  BY DEF IInv, TypeOK, Tips
<1>3. t(i) \in Tips
  <2>0. tip[i] \in Commits
    BY <1>2, ElementOfSeq
  <2>1. [tip[i] EXCEPT !.text = "ours"] \in Commits
    BY <2>0 DEF Commits
  <2>2. t(i) = [tip EXCEPT ![i] = [tip[i] EXCEPT !.text = "ours"]]
    OBVIOUS
  <2> QED
    BY <1>2, <2>1, <2>2, ExceptSeq DEF Tips
<1>4. o(i) \in SUBSET Tips /\ o(i) \subseteq Line(tip)
  BY <1>2, LineType DEF Refs
<1> HIDE DEF t, o
<1>5. log' \in Seq(Ops) /\ log' # << >> /\ Accounted(log') \subseteq Accounted(log) \cup o(i)
  BY <1>1, <1>3, <1>4, RecordType DEF IInv
<1>6. Accounted(log') \subseteq had /\ held' \in BOOLEAN
  BY <1>1, <1>4, <1>5 DEF IInv, RefsKnown, TypeOK
<1> QED
  BY <1>1, <1>3, <1>5, <1>6, BranchStep

LEMMA UndoStep == IInv /\ Undo => IInv'
<1> SUFFICES ASSUME IInv, Undo PROVE IInv'
  OBVIOUS
<1> DEFINE L == Reconciled
<1>1. /\ Len(L) > 1 /\ SetTip(Last(Front(L)).to) /\ Local
      /\ held' = Last(L).held /\ log' = Front(L)
  BY DEF Undo
<1>2. L \in Seq(Ops) /\ Accounted(L) \subseteq had
  BY ReconciledType DEF IInv, RefsKnown
<1> HIDE DEF L
<1>3. /\ log' \in Seq(Ops) /\ log' # << >> /\ Accounted(log') \subseteq had
      /\ Last(Front(L)) \in Ops /\ Last(L) \in Ops
  BY <1>1, <1>2, LogFront
<1>4. Last(Front(L)).to \in Tips /\ held' \in BOOLEAN
  BY <1>1, <1>3 DEF Ops
<1> QED
  BY <1>1, <1>3, <1>4, BranchStep

LEMMA AbandonStep == IInv /\ Abandon => IInv'
<1> SUFFICES ASSUME IInv, Abandon PROVE IInv'
  OBVIOUS
<1>1. tip \in Tips /\ Line(tip) \subseteq had
  BY DEF IInv, TypeOK, RefsKnown
<1>2. Record(Operation(tip, {})) /\ SetTip(tip) /\ Local /\ held' = FALSE
  BY <1>1 DEF Abandon, SetTip
<1>3. log' \in Seq(Ops) /\ log' # << >> /\ Accounted(log') \subseteq Accounted(log) \cup {}
  BY <1>1, <1>2, RecordType DEF IInv
<1>4. Accounted(log') \subseteq had
  BY <1>3 DEF IInv, RefsKnown
<1> QED
  BY <1>1, <1>2, <1>3, <1>4, BranchStep

(* The wire, and everybody else.                                           *)
LEMMA FetchStep == IInv /\ Fetch => IInv'
<1> SUFFICES ASSUME IInv, Fetch PROVE IInv'
  OBVIOUS
<1> USE DEF Fetch, IInv, FetchRefs, ghosts
<1>1. TypeOK'
  BY DEF TypeOK, Refs
<1>2. RefsKnown'
  BY DEF RefsKnown, Known
<1>3. PushKnown'
  BY DEF PushKnown, Known
<1>4. PullKnown'
  BY DEF PullKnown
<1> QED
  BY <1>1, <1>2, <1>3, <1>4

LEMMA OthersStep == IInv /\ Others => IInv'
<1> SUFFICES ASSUME IInv, Others PROVE IInv'
  OBVIOUS
<1>1. UNCHANGED <<tracking, stood, tip, seen, published, log, held, push, pull, had, told>>
  BY DEF Others, refs
<1>2. shared' \in Refs
  <2>1. shared \in Refs
    BY DEF IInv, TypeOK
  <2>2. ASSUME NEW c \in Changes, shared # NoTip,
               shared' = Append(shared, [change |-> c, text |-> "first"])
        PROVE  shared' \in Refs
    <3>1. shared \in Seq(Commits) /\ [change |-> c, text |-> "first"] \in Commits
      BY <2>1, <2>2 DEF Refs, Tips, Commits
    <3> QED
      BY <2>2, <3>1, AppendProperties DEF Refs, Tips
  <2>3. CASE shared \notin {NoTip, << >>} /\ shared' = Front(shared)
    <3>1. shared \in Seq(Commits) /\ shared # << >>
      BY <2>1, <2>3 DEF Refs, Tips
    <3>2. Len(shared) - 1 \in 0..Len(shared)
      BY <3>1, EmptySeq, LenProperties
    <3> QED
      BY <2>3, <3>1, <3>2, SubSeqProperties DEF Front, Refs, Tips
  <2>4. CASE shared \notin {NoTip, << >>} /\ shared' = [shared EXCEPT ![Len(shared)].text = "theirs"]
    <3>1. shared \in Seq(Commits) /\ shared # << >>
      BY <2>1, <2>4 DEF Refs, Tips
    <3>2. Len(shared) \in 1..Len(shared)
      BY <3>1, EmptySeq, LenProperties
    <3>3. shared[Len(shared)] \in Commits
      BY <3>1, <3>2, ElementOfSeq
    <3>4. [shared[Len(shared)] EXCEPT !.text = "theirs"] \in Commits
      BY <3>3 DEF Commits
    <3>5. shared' = [shared EXCEPT ![Len(shared)] = [shared[Len(shared)] EXCEPT !.text = "theirs"]]
      BY <2>4
    <3> QED
      BY <3>1, <3>2, <3>4, <3>5, ExceptSeq DEF Refs, Tips
  <2>5. CASE shared' \in {<< >>, NoTip}
    BY <2>5, EmptySeq DEF Refs, Tips
  <2> QED
    BY <2>2, <2>3, <2>4, <2>5 DEF Others
<1>3. TypeOK'
  BY <1>1, <1>2 DEF IInv, TypeOK
<1>4. RefsKnown' /\ PushKnown' /\ PullKnown'
  BY <1>1 DEF IInv, RefsKnown, PushKnown, PullKnown, Known
<1> QED
  BY <1>3, <1>4 DEF IInv

-----------------------------------------------------------------------------
(* A push.                                                                 *)
LEMMA RefTypes == NoTip \in Refs /\ Tips \subseteq Refs
  BY DEF Refs

LEMMA IdleType ==
  /\ IdlePush \in PushRuns /\ IdlePush.step = "idle"
  /\ IdlePull \in PullRuns /\ IdlePull.step = "idle"
  BY RefTypes DEF IdlePush, IdlePull, PushRuns, PullRuns

LEMMA PushReadStep == IInv /\ PushRead => IInv'
<1> SUFFICES ASSUME IInv, PushRead PROVE IInv'
  OBVIOUS
<1>1. push' \in PushRuns /\ push'.step = "read" /\ push'.seen = seen
  BY IdleType, RefTypes DEF PushRead, IInv, TypeOK, IdlePush, PushRuns, refs, ghosts
<1>2. UNCHANGED <<shared, tracking, stood, tip, seen, published, log, held, pull, had, told>>
  BY DEF PushRead, IdlePush, PushRuns, refs, ghosts
<1>3. TypeOK'
  BY <1>1, <1>2, RefTypes DEF IInv, TypeOK
<1>4. RefsKnown'
  BY <1>1, <1>2 DEF IInv, RefsKnown, PushKnown, PullKnown, Known
<1>5. PushKnown'
  BY <1>1, <1>2 DEF IInv, RefsKnown, PushKnown, Known
<1>6. PullKnown'
  BY <1>1, <1>2 DEF IInv, RefsKnown, PullKnown
<1> QED
  BY <1>3, <1>4, <1>5, <1>6 DEF IInv

LEMMA PushPlanStep == IInv /\ PushPlan => IInv'
<1> SUFFICES ASSUME IInv, PushPlan PROVE IInv'
  OBVIOUS
<1>1. log' \in Seq(Ops) /\ log' # << >> /\ Accounted(log') \subseteq had
  BY ReconciledType DEF IInv, RefsKnown, PushPlan
<1>2. UNCHANGED <<shared, tracking, stood, tip, seen, published, held, pull, had, told>>
  BY DEF PushPlan, Pushing
<1>3. /\ push' \in PushRuns
      /\ \/ push'.step = "idle"
         \/ /\ push.step = "read" /\ Vouched(tip)
            /\ push'.step = "planned" /\ push'.to = tip /\ push'.tracking = push.tracking
  BY IdleType, RefTypes DEF PushPlan, IInv, TypeOK, PushRuns
<1>4. TypeOK'
  BY <1>1, <1>2, <1>3 DEF IInv, TypeOK
<1>5. RefsKnown' /\ PullKnown'
  BY <1>1, <1>2 DEF IInv, RefsKnown, PullKnown, Known
<1>6. Vouched(tip) /\ push.step = "read" => Line(push.tracking) \subseteq Known
  <2>1. tip \in Tips /\ push.tracking \in Refs /\ Line(tip) \subseteq had
    BY DEF IInv, TypeOK, RefsKnown, PushRuns
  <2>2. CASE push.tracking = NoTip
    BY <2>2 DEF Line
  <2>3. CASE push.tracking # NoTip /\ IsPrefix(push.tracking, tip)
    BY <2>1, <2>3, LinePrefix DEF Refs, Known
  <2>4. CASE push.seen = push.tracking
    BY <2>4 DEF IInv, PushKnown
  <2> QED
    BY <2>2, <2>3, <2>4 DEF Vouched
<1>7. PushKnown'
  BY <1>2, <1>3, <1>6 DEF IInv, RefsKnown, PushKnown, Known
<1> QED
  BY <1>4, <1>5, <1>7 DEF IInv

LEMMA PushSendStep == IInv /\ PushSend => IInv'
<1> SUFFICES ASSUME IInv, PushSend PROVE IInv'
  OBVIOUS
<1>1. /\ push' \in PushRuns /\ push.step = "planned"
      /\ push'.step = "idle" \/ (push'.step = "sent" /\ push'.to = push.to)
      /\ {shared', tracking'} \subseteq Refs /\ stood' \subseteq Tips
  <2>1. push \in PushRuns /\ tip \in Tips /\ {shared, tracking} \subseteq Refs /\ stood \subseteq Tips
    BY DEF IInv, TypeOK
  <2>2. CASE push' = IdlePush /\ UNCHANGED <<shared, tracking, stood>>
    BY <2>1, <2>2, IdleType DEF PushSend
  <2>3. CASE /\ shared' = tip /\ tracking' = tip /\ stood' = stood \cup {tip}
             /\ push' = [IdlePush EXCEPT !.step = "sent", !.to = push.to]
    <3>1. push.to \in Refs
      BY <2>1 DEF PushRuns
    <3>2. push' \in PushRuns /\ push'.step = "sent" /\ push'.to = push.to
      BY <2>3, <3>1, IdleType DEF PushRuns, IdlePush
    <3> QED
      BY <2>1, <2>3, <3>2, RefTypes DEF PushSend
  <2> QED
    BY <2>2, <2>3 DEF PushSend
<1>2. UNCHANGED <<tip, seen, published, log, held, pull, had, told>>
  BY DEF PushSend, IdlePush, PushRuns
<1>3. TypeOK'
  BY <1>1, <1>2, RefTypes DEF IInv, TypeOK
<1>4. RefsKnown'
  BY <1>1, <1>2 DEF IInv, RefsKnown, PushKnown, PullKnown, Known
<1>5. PushKnown'
  BY <1>1, <1>2 DEF IInv, RefsKnown, PushKnown, Known
<1>6. PullKnown'
  BY <1>1, <1>2 DEF IInv, RefsKnown, PullKnown
<1> QED
  BY <1>3, <1>4, <1>5, <1>6 DEF IInv

LEMMA PushMarkStep == IInv /\ PushMark => IInv'
<1> SUFFICES ASSUME IInv, PushMark PROVE IInv'
  OBVIOUS
<1>1. /\ push' \in PushRuns /\ push.step = "sent" /\ push'.step = "published"
      /\ push'.to = push.to /\ published' = push.to
  BY IdleType, RefTypes DEF PushMark, IInv, TypeOK, Pushing, PushRuns
<1>2. UNCHANGED <<shared, tracking, stood, tip, seen, log, held, pull, had, told>>
  BY DEF PushMark, Pushing, PushRuns
<1>3. TypeOK'
  BY <1>1, <1>2, RefTypes DEF IInv, TypeOK
<1>4. RefsKnown'
  BY <1>1, <1>2 DEF IInv, RefsKnown, PushKnown, PullKnown, Known
<1>5. PushKnown'
  BY <1>1, <1>2 DEF IInv, RefsKnown, PushKnown, Known
<1>6. PullKnown'
  BY <1>1, <1>2 DEF IInv, RefsKnown, PullKnown
<1> QED
  BY <1>3, <1>4, <1>5, <1>6 DEF IInv

LEMMA PushSeenStep == IInv /\ PushSeen => IInv'
<1> SUFFICES ASSUME IInv, PushSeen PROVE IInv'
  OBVIOUS
<1>1. /\ push' \in PushRuns /\ push.step = "published" /\ push'.step = "idle"
      /\ seen' = push.to
  BY IdleType, RefTypes DEF PushSeen, IInv, TypeOK, Pushing
<1>2. UNCHANGED <<shared, tracking, stood, tip, published, log, held, pull, had, told>>
  BY DEF PushSeen, Pushing
<1>3. TypeOK'
  BY <1>1, <1>2, RefTypes DEF IInv, TypeOK
<1>4. RefsKnown'
  BY <1>1, <1>2 DEF IInv, RefsKnown, PushKnown, PullKnown, Known
<1>5. PushKnown'
  BY <1>1, <1>2 DEF IInv, RefsKnown, PushKnown, Known
<1>6. PullKnown'
  BY <1>1, <1>2 DEF IInv, RefsKnown, PullKnown
<1> QED
  BY <1>3, <1>4, <1>5, <1>6 DEF IInv

-----------------------------------------------------------------------------
(* A pull.                                                                 *)

LEMMA PullReadStep == IInv /\ PullRead => IInv'
<1> SUFFICES ASSUME IInv, PullRead PROVE IInv'
  OBVIOUS
<1>1. pull' \in PullRuns /\ pull'.step = "read" /\ pull'.tip = tip
  BY IdleType, RefTypes DEF PullRead, IInv, TypeOK, IdlePull, PullRuns, Pulling
<1>2. UNCHANGED <<shared, tracking, stood, tip, seen, published, log, held, push, had, told>>
  BY DEF PullRead, IdlePull, PullRuns, Pulling
<1>3. TypeOK'
  BY <1>1, <1>2, RefTypes DEF IInv, TypeOK
<1>4. RefsKnown'
  BY <1>1, <1>2 DEF IInv, RefsKnown, PushKnown, PullKnown, Known
<1>5. PushKnown'
  BY <1>1, <1>2 DEF IInv, RefsKnown, PushKnown, Known
<1>6. PullKnown'
  BY <1>1, <1>2 DEF IInv, RefsKnown, PullKnown
<1> QED
  BY <1>3, <1>4, <1>5, <1>6 DEF IInv

LEMMA PullFetchStep == IInv /\ PullFetch => IInv'
<1> SUFFICES ASSUME IInv, PullFetch PROVE IInv'
  OBVIOUS
<1>1. /\ pull' \in PullRuns /\ pull.step = "read" /\ pull'.step = "fetched" /\ pull'.tip = pull.tip
      /\ tracking' \in Refs /\ stood' \subseteq Tips
  <2>1. /\ tracking \in Refs /\ shared \in Refs /\ stood \subseteq Tips /\ pull \in PullRuns
        /\ pull.step = "read"
    BY DEF PullFetch, IInv, TypeOK
  <2>2. tracking' \in Refs /\ stood' \subseteq Tips
    BY <2>1 DEF PullFetch, FetchRefs, Refs
  <2>3. PICK got \in BOOLEAN, at \in Refs :
          pull' = [pull EXCEPT !.step = "fetched", !.fetched = got, !.after = at]
    <3>1. pull' = [pull EXCEPT !.step = "fetched", !.fetched = TRUE, !.after = shared]
          \/ pull' = [pull EXCEPT !.step = "fetched", !.after = tracking]
      BY DEF PullFetch
    <3>2. [pull EXCEPT !.step = "fetched", !.after = tracking]
            = [pull EXCEPT !.step = "fetched", !.fetched = pull.fetched, !.after = tracking]
          /\ pull.fetched \in BOOLEAN
      BY ONLY <2>1 DEF PullRuns
    <3> QED
      BY ONLY <2>1, <3>1, <3>2
  <2>4. pull' \in PullRuns /\ pull'.step = "fetched" /\ pull'.tip = pull.tip
    BY ONLY <2>1, <2>3 DEF PullRuns
  <2> QED
    BY <2>1, <2>2, <2>4
<1>2. UNCHANGED <<shared, tip, seen, published, log, held, push, had, told>>
  BY DEF PullFetch, FetchRefs, Pulling, PullRuns, Refs
<1>3. TypeOK'
  BY <1>1, <1>2, RefTypes DEF IInv, TypeOK
<1>4. RefsKnown'
  BY <1>1, <1>2 DEF IInv, RefsKnown, PushKnown, PullKnown, Known
<1>5. PushKnown'
  BY <1>1, <1>2 DEF IInv, RefsKnown, PushKnown, Known
<1>6. PullKnown'
  BY <1>1, <1>2 DEF IInv, RefsKnown, PullKnown
<1> QED
  BY <1>3, <1>4, <1>5, <1>6 DEF IInv

LEMMA PullPlanStep == IInv /\ PullPlan => IInv'
<1> SUFFICES ASSUME IInv, PullPlan PROVE IInv'
  OBVIOUS
<1>1. log' \in Seq(Ops) /\ log' # << >> /\ Accounted(log') \subseteq had
  BY ReconciledType DEF IInv, RefsKnown, PullPlan
<1>2. UNCHANGED <<shared, tracking, stood, tip, seen, published, held, push, had, told>>
  BY DEF PullPlan, Pulling
<1>3. PICK plan \in AxisHere \cup AxisThere :
        pull' = IF plan.answer = "error" \/ (plan.answer = "held" /\ held) THEN IdlePull
                ELSE [IdlePull EXCEPT
                        !.step = IF plan.answer = "level" THEN "moved" ELSE "planned",
                        !.before = pull.before, !.after = pull.after, !.answer = plan.answer,
                        !.onto = tracking, !.positions = stood,
                        !.from = tip, !.to = plan.to, !.old = plan.old]
  BY DEF PullPlan
<1>4. PlanKnown(plan)
  BY <1>3, HereKnown, ThereKnown DEF PullPlan
<1>5. CASE plan.answer = "error" \/ (plan.answer = "held" /\ held)
  BY <1>1, <1>2, <1>3, <1>5, IdleType DEF IInv, TypeOK, RefsKnown, PushKnown, PullKnown, Known
<1>6. CASE ~(plan.answer = "error" \/ (plan.answer = "held" /\ held))
  <2>1. /\ pull' = [IdlePull EXCEPT
                      !.step = IF plan.answer = "level" THEN "moved" ELSE "planned",
                      !.before = pull.before, !.after = pull.after, !.answer = plan.answer,
                      !.onto = tracking, !.positions = stood,
                      !.from = tip, !.to = plan.to, !.old = plan.old]
        /\ plan.answer \in {"level", "moves", "held"} /\ plan.to \in Tips /\ plan.old \in SUBSET Tips
    BY <1>3, <1>4, <1>6 DEF PlanKnown, Plans
  <2>2. /\ pull.before \in Refs /\ pull.after \in Refs /\ tracking \in Refs /\ tip \in Refs
        /\ plan.to \in Refs /\ stood \in SUBSET Tips
    BY <2>1, RefTypes DEF IInv, TypeOK, PullRuns
  <2>3. /\ pull'.step = (IF plan.answer = "level" THEN "moved" ELSE "planned")
        /\ pull'.answer = plan.answer /\ pull'.onto = tracking /\ pull'.after = pull.after
        /\ pull'.to = plan.to /\ pull'.old = plan.old
    BY <2>1 DEF IdlePull
  <2> DEFINE step == IF plan.answer = "level" THEN "moved" ELSE "planned"
  <2> HIDE DEF step
  <2>30. /\ IdlePull \in PullRuns /\ plan.answer \in {"none", "level", "moves", "held"}
         /\ plan.old \in SUBSET Tips
    BY <2>1, IdleType
  <2>4. pull' \in PullRuns
    <3>1. step \in {"moved", "planned"}
      BY DEF step
    <3>2. pull' = [IdlePull EXCEPT
                     !.step = step,
                     !.before = pull.before, !.after = pull.after, !.answer = plan.answer,
                     !.onto = tracking, !.positions = stood,
                     !.from = tip, !.to = plan.to, !.old = plan.old]
      BY <2>1 DEF step
    <3> QED
      BY ONLY <2>2, <2>30, <3>1, <3>2 DEF PullRuns
  <2>5. TypeOK'
    BY <1>1, <1>2, <2>1, <2>3, <2>4 DEF IInv, TypeOK
  <2>6. RefsKnown' /\ PushKnown'
    BY <1>1, <1>2 DEF IInv, RefsKnown, PushKnown, Known
  <2>7. PullKnown'
    BY <1>2, <1>4, <2>1, <2>3 DEF PlanKnown, PullKnown
  <2> QED
    BY <2>5, <2>6, <2>7 DEF IInv
<1> QED
  BY <1>5, <1>6

LEMMA PullWriteStep == IInv /\ PullWrite => IInv'
<1> SUFFICES ASSUME IInv, PullWrite PROVE IInv'
  OBVIOUS
<1> DEFINE t == IF pull.answer = "held" THEN tip ELSE pull.to
<1>1. /\ pull \in PullRuns /\ pull.step = "planned" /\ t \in Tips
      /\ pull.old \in SUBSET Tips /\ pull.old \subseteq had
  BY DEF IInv, TypeOK, PullKnown, PullWrite, PullRuns
<1>2. log' = Append(log, Operation(t, pull.old)) /\ pull' = [pull EXCEPT !.step = "logged"]
  BY DEF PullWrite
<1> HIDE DEF t
<1>3. Operation(t, pull.old) \in Ops /\ Operation(t, pull.old).old = pull.old
  BY <1>1, OpType DEF IInv, TypeOK
<1>4. log' \in Seq(Ops) /\ log' # << >> /\ Accounted(log') \subseteq Accounted(log) \cup pull.old
  BY <1>2, <1>3, LogAppend DEF IInv, TypeOK
<1>5. UNCHANGED <<shared, tracking, stood, tip, seen, published, held, push, had, told>>
  BY DEF PullWrite, Pulling
<1>6. /\ pull' \in PullRuns /\ pull'.step = "logged" /\ pull'.answer = pull.answer
      /\ pull'.onto = pull.onto /\ pull'.after = pull.after /\ pull'.to = pull.to
      /\ pull'.old = pull.old
  BY <1>1, <1>2 DEF PullRuns
<1>7. TypeOK'
  BY <1>1, <1>4, <1>5, <1>6 DEF IInv, TypeOK
<1>8. RefsKnown' /\ PushKnown'
  BY <1>1, <1>4, <1>5 DEF IInv, RefsKnown, PushKnown, Known
<1>9. PullKnown'
  BY <1>1, <1>5, <1>6 DEF IInv, PullKnown
<1> QED
  BY <1>7, <1>8, <1>9 DEF IInv

LEMMA PullMoveStep == IInv /\ PullMove => IInv'
<1> SUFFICES ASSUME IInv, PullMove PROVE IInv'
  OBVIOUS
<1>1. UNCHANGED <<shared, tracking, stood, seen, published, log, push, told>>
  BY DEF PullMove, Pulling
<1>2. /\ pull.step = "logged" /\ pull' \in PullRuns /\ pull'.step = "moved"
      /\ pull'.answer = pull.answer /\ pull'.onto = pull.onto /\ pull'.after = pull.after
  BY DEF PullMove, PullRuns, IInv, TypeOK
<1>3. CASE pull.answer = "held"
  <2>1. held' = TRUE /\ UNCHANGED <<tip, had>>
    BY <1>3 DEF PullMove
  <2> QED
    BY <1>1, <1>2, <1>3, <2>1 DEF IInv, TypeOK, RefsKnown, PushKnown, PullKnown, Known
<1>4. CASE pull.answer # "held"
  <2>1. tip' = pull.to /\ had' = had \cup Line(pull.to) /\ held' = held
    BY <1>4 DEF PullMove, SetTip
  <2>2. pull.to \in Tips /\ pull.answer = "moves"
    BY <1>2, <1>4 DEF IInv, TypeOK, PullKnown
  <2>3. TypeOK'
    BY <1>1, <1>2, <2>1, <2>2 DEF IInv, TypeOK
  <2>4. RefsKnown' /\ PushKnown'
    BY <1>1, <2>1 DEF IInv, RefsKnown, PushKnown, Known
  <2>5. PullKnown'
    BY <1>1, <1>2, <2>1, <2>2 DEF IInv, PullKnown
  <2> QED
    BY <2>3, <2>4, <2>5 DEF IInv
<1> QED
  BY <1>3, <1>4

LEMMA PullSeenStep == IInv /\ PullSeen => IInv'
<1> SUFFICES ASSUME IInv, PullSeen PROVE IInv'
  OBVIOUS
<1>1. UNCHANGED <<shared, tracking, stood, tip, published, log, held, push, had>>
  BY DEF PullSeen, Pulling
<1>2. /\ pull.step = "moved" /\ seen' = pull.after
      /\ told' = told \cup (IF pull.answer = "held" \/ pull.onto # pull.after
                             THEN Line(pull.after) ELSE {})
  BY DEF PullSeen
<1>3. pull.after \in Refs /\ pull' \in PullRuns /\ pull'.step = "idle"
  BY IdleType DEF PullSeen, IInv, TypeOK, PullRuns
<1>4. TypeOK'
  BY <1>1, <1>2, <1>3 DEF IInv, TypeOK
<1>5. Line(pull.after) \subseteq had \cup told'
  BY <1>2 DEF IInv, PullKnown
<1>6. RefsKnown' /\ PushKnown'
  BY <1>1, <1>2, <1>5 DEF IInv, RefsKnown, PushKnown, Known
<1>7. PullKnown'
  BY <1>3 DEF PullKnown
<1> QED
  BY <1>4, <1>6, <1>7 DEF IInv

LEMMA EndStep == IInv /\ (PullContended \/ Crash) => IInv'
<1> SUFFICES ASSUME IInv, PullContended \/ Crash PROVE IInv'
  OBVIOUS
<1>1. UNCHANGED <<shared, tracking, stood, tip, seen, published, log, held, had, told>>
  BY DEF PullContended, Pulling, Crash, refs, ghosts
<1>2. push' \in {push, IdlePush} /\ pull' \in {pull, IdlePull}
  BY DEF PullContended, Pulling, Crash
<1>3. TypeOK'
  BY <1>1, <1>2, IdleType DEF IInv, TypeOK
<1>4. RefsKnown'
  BY <1>1 DEF IInv, RefsKnown, Known
<1>5. PushKnown'
  BY <1>1, <1>2, IdleType DEF IInv, PushKnown, Known
<1>6. PullKnown'
  BY <1>1, <1>2, IdleType DEF IInv, PullKnown
<1> QED
  BY <1>3, <1>4, <1>5, <1>6 DEF IInv

-----------------------------------------------------------------------------
LEMMA InitKnown == Init => IInv
<1> SUFFICES ASSUME Init PROVE IInv
  OBVIOUS
<1>1. << >> \in Tips /\ Line(<< >>) = {} /\ Line(NoTip) = {}
  <2>1. << >> \in Tips /\ Len(<< >>) = 0
    BY EmptySeq DEF Tips
  <2>2. 1..Len(<< >>) = {}
    BY <2>1
  <2> QED
    BY <2>1, <2>2, LineOf DEF Line
<1>2. log \in Seq(Ops) /\ log # << >> /\ Accounted(log) = {}
  <2> DEFINE op == [to |-> << >>, old |-> {}, held |-> FALSE]
  <2>1. op \in Ops /\ log = <<op>> /\ op.old = {}
    BY <1>1 DEF Init, Ops
  <2> HIDE DEF op
  <2>2. log \in Seq(Ops) /\ Len(log) = 1 /\ log[1] = op
    BY <2>1
  <2>3. DOMAIN log = {1}
    BY <2>2, LenProperties
  <2> QED
    BY <2>1, <2>2, <2>3, EmptySeq DEF Accounted
<1>3. TypeOK
  BY <1>1, <1>2, IdleType, RefTypes DEF Init, TypeOK
<1>4. RefsKnown
  BY <1>1, <1>2 DEF Init, RefsKnown
<1>5. PushKnown /\ PullKnown
  BY IdleType DEF Init, PushKnown, PullKnown
<1> QED
  BY <1>3, <1>4, <1>5 DEF IInv

LEMMA NextKnown == IInv /\ [Next]_vars => IInv'
<1> SUFFICES ASSUME IInv, [Next]_vars PROVE IInv'
  OBVIOUS
<1>1. CASE UNCHANGED vars
  BY <1>1 DEF vars, refs, ghosts, IInv, TypeOK, RefsKnown, PushKnown, PullKnown, Known
<1>2. CASE Commit \/ Rewrite \/ Undo \/ Abandon
  BY <1>2, CommitStep, RewriteStep, UndoStep, AbandonStep
<1>3. CASE Fetch \/ Others
  BY <1>3, FetchStep, OthersStep
<1>4. CASE PushRead \/ PushPlan \/ PushSend \/ PushMark \/ PushSeen
  BY <1>4, PushReadStep, PushPlanStep, PushSendStep, PushMarkStep, PushSeenStep
<1>5. CASE PullRead \/ PullFetch \/ PullPlan \/ PullWrite \/ PullMove \/ PullSeen
  BY <1>5, PullReadStep, PullFetchStep, PullPlanStep, PullWriteStep, PullMoveStep, PullSeenStep
<1>6. CASE PullContended \/ Crash
  BY <1>6, EndStep
<1> QED
  BY <1>1, <1>2, <1>3, <1>4, <1>5, <1>6 DEF Next

LEMMA AlwaysKnown == Spec => []IInv
  BY InitKnown, NextKnown, PTL DEF Spec

(* Refs, log and runs of both verbs keep their shape whatever interleaves. *)
THEOREM SharedCopyTypes == Spec => []TypeOK
<1>1. IInv => TypeOK
  BY DEF IInv
<1> QED
  BY <1>1, AlwaysKnown, PTL

(* Whatever the interleaving of pushes, pulls, fetches, undos, crashes and *)
(* other people's pushes, a push removes from the shared copy only commits *)
(* that were on this branch, or that a pull had marked as seen (refuse,    *)
(* push.rs).                                                               *)
THEOREM SharedCopySafety == Spec => TakesOffOnlyKnown
<1>1. IInv /\ [Next]_vars =>
        [Sends => Line(shared) \ Line(shared') \subseteq had \cup told]_vars
  <2> SUFFICES ASSUME IInv, Next, Sends
               PROVE  Line(shared) \ Line(shared') \subseteq had \cup told
    BY DEF Sends, vars
  <2>1. push.step = "planned" /\ push'.step = "sent"
    BY DEF Sends
  <2>2. PushSend
    BY <2>1, IdleType
       DEF Next, Commit, Rewrite, Undo, Abandon, Local, Fetch, Others, PushRead, PushPlan, PushMark,
           PushSeen, PullRead, PullFetch, PullPlan, PullWrite, PullMove, PullContended, PullSeen,
           Pulling, Crash, IdlePush
  <2>3. shared \in {push.tracking, tip} /\ shared' = tip
    BY <2>1, <2>2, IdleType DEF PushSend
  <2> QED
    BY <2>1, <2>3 DEF IInv, PushKnown, Known
<1>2. [][IInv /\ [Next]_vars]_vars => TakesOffOnlyKnown
  BY <1>1, PTL DEF TakesOffOnlyKnown
<1> QED
  BY <1>2, AlwaysKnown, PTL DEF Spec

-----------------------------------------------------------------------------
(***************************************************************************)
(* A pull takes back nothing that was undone: while the copy stands where  *)
(* our recorded push left it, the copy, the tracking ref and the published *)
(* pointer are one line.                                                   *)
(***************************************************************************)
OwnCopy == ownLeft => published \in Tips /\ shared = published /\ tracking = published

LEMMA NextOwn == IInv /\ OwnCopy /\ [Next]_vars => OwnCopy'
<1> SUFFICES ASSUME IInv, OwnCopy, [Next]_vars PROVE OwnCopy'
  OBVIOUS
<1>1. CASE UNCHANGED <<shared, tracking, published, ownLeft>>
  BY <1>1 DEF OwnCopy
<1>2. CASE Commit \/ Rewrite \/ Undo \/ Abandon \/ UNCHANGED vars
  BY <1>1, <1>2 DEF Commit, Rewrite, Undo, Abandon, Local, vars, refs, ghosts
<1>3. CASE Others \/ (PushSend /\ shared \in {push.tracking, tip})
  BY <1>3 DEF Others, PushSend, OwnCopy
<1>4. CASE PushMark
  <2>1. push.to \in Tips /\ UNCHANGED <<shared, tracking>>
    BY <1>4 DEF IInv, TypeOK, PushMark
  <2> QED
    BY <1>4, <2>1 DEF PushMark, OwnCopy
<1>5. CASE Fetch \/ PullFetch
  <2>1. UNCHANGED <<shared, published, ownLeft>> /\ tracking' \in {shared, tracking}
    BY <1>5 DEF Fetch, PullFetch, FetchRefs, Pulling, ghosts
  <2> QED
    BY <2>1 DEF OwnCopy
<1>6. CASE PushRead \/ PushPlan \/ (PushSend /\ shared \notin {push.tracking, tip}) \/ PushSeen
  BY <1>1, <1>6 DEF PushRead, PushPlan, PushSend, PushSeen, Pushing, refs, ghosts
<1>7. CASE PullRead \/ PullPlan \/ PullWrite \/ PullMove \/ PullContended \/ PullSeen \/ Crash
  BY <1>1, <1>7 DEF PullRead, PullPlan, PullWrite, PullMove, PullContended, PullSeen, Pulling,
                    Crash, refs, ghosts
<1> QED
  BY <1>2, <1>3, <1>4, <1>5, <1>6, <1>7 DEF Next

(* A line whose commits are all on another is where that one began.        *)
LEMMA LineWithin ==
  ASSUME NEW s \in Tips, NEW t \in Tips, Line(s) \subseteq Line(t)
  PROVE  IsPrefix(s, t)
<1>1. Len(s) \in Nat /\ Len(t) \in Nat
  BY LenProperties DEF Tips
<1>2. Line(s) = {SubSeq(s, 1, i) : i \in 1..Len(s)} /\ Line(t) = {SubSeq(t, 1, i) : i \in 1..Len(t)}
  BY LineOf
<1>3. CASE Len(s) = 0
  <2>1. SubSeq(s, 1, 0) = << >> /\ SubSeq(t, 1, 0) = << >>
    BY SMT DEF Tips
  <2> QED
    BY <1>1, <1>3, <2>1 DEF IsPrefix
<1>4. CASE Len(s) # 0
  <2>1. Len(s) \in 1..Len(s)
    BY <1>1, <1>4
  <2>2. PICK i \in 1..Len(t) : SubSeq(s, 1, Len(s)) = SubSeq(t, 1, i)
    BY <1>2, <2>1
  <2>3. Len(SubSeq(s, 1, Len(s))) = Len(s) /\ Len(SubSeq(t, 1, i)) = i
    BY <1>1, SMT DEF Tips
  <2>4. i = Len(s)
    BY <2>2, <2>3
  <2> QED
    BY <1>1, <2>2, <2>4 DEF IsPrefix
<1> QED
  BY <1>3, <1>4

(* Where nothing arrived and the copy is the published pointer's, a branch *)
(* nobody moved in between is left where it is, on either road.            *)
LEMMA StaysPut ==
  ASSUME IInv, pull.step = "fetched", tip = pull.tip,
         pull.after \in Tips, tracking = pull.after, pull.before = pull.after, published = pull.after,
         NEW plan \in AxisHere \cup AxisThere
  PROVE  plan.answer \in {"level", "error"}
<1>1. tip \in Tips /\ tracking # NoTip /\ pull.after # NoTip /\ ~Arrived
  BY LineOf DEF IInv, TypeOK, Arrived
<1>2. Beyond(tip) # {} => Undone(tip)
  BY <1>1 DEF Undone
<1>3. Beyond(tip) = {} => IsPrefix(pull.after, tip)
  BY <1>1, LineWithin DEF Beyond
<1>4. CASE plan \in Stays("level", tip) \cup Stays("error", tip)
  BY <1>1, <1>4, StaysType
<1>5. CASE plan \in AxisHere
  <2>1. CASE Beyond(tip) # {}
    BY <1>1, <1>2, <1>4, <1>5, <2>1 DEF AxisHere
  <2>2. CASE Beyond(tip) = {}
    BY <1>1, <1>3, <1>4, <1>5, <2>2 DEF AxisHere, Restack
  <2> QED
    BY <2>1, <2>2
<1>6. CASE plan \in AxisThere
  <2>1. CASE Beyond(tip) # {}
    BY <1>1, <1>2, <1>4, <1>6, <2>1 DEF AxisThere
  <2>2. CASE Beyond(tip) = {}
    BY <1>1, <1>3, <1>4, <1>6, <2>2 DEF AxisThere
  <2> QED
    BY <2>1, <2>2
<1> QED
  BY <1>5, <1>6

(* Only the plan of a pull decides.                                        *)
LEMMA DecidesAtPlan ==
  ASSUME IInv, Next, Decides
  PROVE  PullPlan
<1>1. pull.step = "fetched" /\ pull'.step = "planned" /\ pull' # pull /\ pull' # IdlePull
  BY IdleType DEF Decides
<1>2. ~(Commit \/ Rewrite \/ Undo \/ Abandon \/ Fetch \/ Others)
  BY <1>1 DEF Commit, Rewrite, Undo, Abandon, Local, Fetch, Others
<1>3. ~(PushRead \/ PushPlan \/ PushSend \/ PushMark \/ PushSeen)
  BY <1>1 DEF PushRead, PushPlan, PushSend, PushMark, PushSeen, Pushing
<1>4. ~(PullRead \/ PullFetch \/ PullWrite \/ PullMove \/ PullContended \/ PullSeen \/ Crash)
  BY <1>1 DEF PullRead, PullFetch, PullWrite, PullMove, PullContended, PullSeen, Crash
<1> QED
  BY <1>2, <1>3, <1>4 DEF Next

(* Whatever was undone, rewritten or fetched before it: a pull that finds  *)
(* the copy where our recorded push left it, and branch and tracking ref   *)
(* where it first read them, leaves the branch there (Yours and Undone,    *)
(* pull.rs).                                                               *)
THEOREM PullTakesNothingBack == Spec => TakesNothingBack
<1>1. Init => OwnCopy
  BY DEF Init, OwnCopy
<1>2. Spec => []OwnCopy
  BY <1>1, NextOwn, AlwaysKnown, PTL DEF Spec
<1>3. IInv /\ OwnCopy /\ [Next]_vars =>
        [Decides /\ ownLeft /\ NothingArrived => tip # pull.tip]_vars
  <2> SUFFICES ASSUME IInv, OwnCopy, Next, Decides, ownLeft, NothingArrived, tip = pull.tip
               PROVE  FALSE
    BY DEF Decides, vars
  <2>1. PullPlan /\ pull.step = "fetched" /\ pull'.step = "planned"
    BY DecidesAtPlan DEF Decides
  <2>2. PICK plan \in AxisHere \cup AxisThere :
          pull' = IF plan.answer = "error" \/ (plan.answer = "held" /\ held) THEN IdlePull
                  ELSE [IdlePull EXCEPT
                          !.step = IF plan.answer = "level" THEN "moved" ELSE "planned",
                          !.before = pull.before, !.after = pull.after, !.answer = plan.answer,
                          !.onto = tracking, !.positions = stood,
                          !.from = tip, !.to = plan.to, !.old = plan.old]
    BY <2>1 DEF PullPlan
  <2>3. plan.answer \in {"level", "error"}
    BY <2>1, StaysPut DEF OwnCopy, NothingArrived
  <2>4. pull'.step \in {"idle", "moved"}
    BY <2>2, <2>3, IdleType DEF IdlePull
  <2> QED
    BY <2>1, <2>4
<1>4. [][IInv /\ OwnCopy /\ [Next]_vars]_vars => TakesNothingBack
  BY <1>3, PTL DEF TakesNothingBack
<1> QED
  BY <1>2, <1>4, AlwaysKnown, PTL DEF Spec

-----------------------------------------------------------------------------
(***************************************************************************)
(* A pull loses no change.  First the replay.                              *)
(***************************************************************************)

LEMMA GreatestIs ==
  ASSUME NEW n \in Nat, NEW T, T \subseteq 0..n, T # {}
  PROVE  Max(T) \in T
<1>1. \E m \in T : \A k \in T : k <= m
  BY GreatestNumber
<1>2. \E m \in T : \A k \in T : m >= k
  <2>1. PICK m \in T : \A k \in T : k <= m
    BY <1>1
  <2>2. \A k \in T : m >= k
    BY <2>1
  <2> QED
    BY <2>2
<1> QED
  BY <1>2 DEF Max

LEMMA LineAt ==
  ASSUME NEW s \in Tips, NEW t \in Tips, NEW i \in 0..Len(s), IsPrefix(SubSeq(s, 1, i), t)
  PROVE  i <= Len(t) /\ \A j \in 1..i : SubSeq(s, 1, j) \in Line(t) /\ s[j] = t[j]
<1>1. Len(s) \in Nat /\ Len(t) \in Nat
  BY LenProperties DEF Tips
<1>2. SubSeq(s, 1, i) \in Seq(Commits) /\ Len(SubSeq(s, 1, i)) = i
  BY <1>1, SMT DEF Tips
<1>3. i <= Len(t) /\ SubSeq(SubSeq(s, 1, i), 1, i) = SubSeq(t, 1, i)
  BY <1>2 DEF IsPrefix
<1>4. SubSeq(s, 1, i) = SubSeq(t, 1, i)
  <2>1. SubSeq(SubSeq(s, 1, i), 1, i) = SubSeq(s, 1, i)
    BY <1>1, SMT DEF Tips
  <2> QED
    BY <1>3, <2>1
<1>5. ASSUME NEW j \in 1..i PROVE SubSeq(s, 1, j) \in Line(t) /\ s[j] = t[j]
  <2>1. SubSeq(SubSeq(s, 1, i), 1, j) = SubSeq(s, 1, j) /\ SubSeq(s, 1, i)[j] = s[j]
    BY <1>1, SMT DEF Tips
  <2>2. SubSeq(SubSeq(t, 1, i), 1, j) = SubSeq(t, 1, j) /\ SubSeq(t, 1, i)[j] = t[j]
    BY <1>1, <1>3, SMT DEF Tips
  <2>3. SubSeq(s, 1, j) = SubSeq(t, 1, j) /\ s[j] = t[j]
    BY <1>4, <2>1, <2>2
  <2>4. j \in 1..Len(t)
    BY <1>1, <1>3
  <2> QED
    BY <2>3, <2>4, LineOf
<1> QED
  BY <1>3, <1>5

LEMMA ForkIs ==
  ASSUME NEW s \in Tips, NEW t \in Tips
  PROVE  Fork(s, t) \in 0..Len(s) /\ IsPrefix(SubSeq(s, 1, Fork(s, t)), t)
<1> DEFINE T == {i \in 0..Len(s) : IsPrefix(SubSeq(s, 1, i), t)}
<1>1. Len(s) \in Nat /\ Len(t) \in Nat
  BY LenProperties DEF Tips
<1>2. 0 \in T
  <2>1. SubSeq(s, 1, 0) = << >> /\ SubSeq(t, 1, 0) = << >> /\ SubSeq(<< >>, 1, 0) = << >>
    BY SMT DEF Tips
  <2>2. Len(<< >>) = 0
    BY EmptySeq
  <2>3. IsPrefix(SubSeq(s, 1, 0), t)
    BY <1>1, <2>1, <2>2 DEF IsPrefix
  <2> QED
    BY <1>1, <2>3
<1>3. T \subseteq 0..Len(s) /\ T # {}
  BY <1>2
<1>4. Fork(s, t) = Max(T)
  BY DEF Fork
<1> HIDE DEF T
<1>5. Max(T) \in T
  BY <1>1, <1>3, GreatestIs
<1> QED
  BY <1>4, <1>5 DEF T

LEMMA BoundaryIs ==
  ASSUME NEW t \in Tips, NEW base \in Tips, NEW positions \in SUBSET Tips
  PROVE  \E p \in {base} \cup positions :
           /\ Boundary(t, base, positions) \in 0..Len(t)
           /\ IsPrefix(SubSeq(t, 1, Boundary(t, base, positions)), p)
<1> DEFINE P == {base} \cup (positions \ {t})
           T == {Fork(t, p) : p \in P}
<1>1. Len(t) \in Nat
  BY LenProperties DEF Tips
<1>2. \A p \in P : Fork(t, p) \in 0..Len(t) /\ IsPrefix(SubSeq(t, 1, Fork(t, p)), p)
  BY ForkIs
<1>3. T \subseteq 0..Len(t) /\ T # {}
  BY <1>2
<1>4. Boundary(t, base, positions) = Max(T)
  BY DEF Boundary
<1>5. Max(T) \in T
  <2> HIDE DEF T
  <2> QED
    BY <1>1, <1>3, GreatestIs
<1>6. PICK p \in P : Max(T) = Fork(t, p)
  BY <1>5
<1> QED
  BY <1>2, <1>4, <1>6

(* What is put in order is all there.                                      *)
LEMMA InOrderAll ==
  ASSUME NEW s \in Tips, NEW I \in SUBSET (1..Len(s)), NEW r \in InOrder(s, I), NEW i \in I
  PROVE  r \in Tips /\ \E k \in 1..Len(r) : r[k] = s[i]
<1> DEFINE n == Cardinality(I)
<1>1. IsFiniteSet(I) /\ n \in Nat
  <2>1. Len(s) \in Nat
    BY LenProperties DEF Tips
  <2>2. IsFiniteSet(1..Len(s))
    BY <2>1, FS_Interval
  <2> QED
    BY <2>2, FS_Subset, FS_CardinalityType
<1>2. PICK p \in [1..n -> I] :
        /\ \A j, k \in 1..n : j < k => p[j] < p[k]
        /\ r = [k \in 1..n |-> s[p[k]]]
  BY DEF InOrder
<1>3. \A k \in 1..n : p[k] \in I /\ p[k] \in Nat
  <2>1. I \subseteq Nat
    BY LenProperties DEF Tips
  <2> HIDE DEF n
  <2> QED
    BY <1>2, <2>1
<1> HIDE DEF n
<1>4. ASSUME NEW j \in 1..n, NEW k \in 1..n, p[j] = p[k] PROVE j = k
  <2>1. ~(j < k) /\ ~(k < j)
    BY <1>2, <1>3, <1>4
  <2> QED
    BY <1>1, <2>1
<1>5. p \in Injection(1..n, I)
  BY <1>2, <1>4 DEF Injection, IsInjective
<1>6. Cardinality(1..n) = n
  <2>1. 1 \in Int /\ n \in Int
    BY <1>1
  <2> QED
    BY <1>1, <2>1, FS_Interval
<1>7. p \in Surjection(1..n, I)
  BY <1>1, <1>5, <1>6, FS_Injection DEF n
<1>8. PICK k \in 1..n : p[k] = i
  BY <1>7 DEF Surjection
<1>9. r \in Tips
  BY InOrderType
<1>10. Len(r) = n
  <2>1. DOMAIN r = 1..n
    BY <1>2
  <2>2. DOMAIN r = 1..Len(r) /\ Len(r) \in Nat
    BY <1>9, LenProperties DEF Tips
  <2> QED
    BY <1>1, <2>1, <2>2
<1>11. r[k] = s[i]
  BY <1>2, <1>8
<1> QED
  BY <1>8, <1>9, <1>10, <1>11

(* Each change of a line is on another, or its commit on a line of P.      *)
Keeps(from, to, P) ==
  \A i \in 1..Len(from) :
    \/ \E p \in P : SubSeq(from, 1, i) \in Line(p)
    \/ \E j \in 1..Len(to) : to[j].change = from[i].change

LEMMA KeepsOnto ==
  ASSUME NEW from \in Tips, NEW to \in Tips, IsPrefix(from, to), NEW P
  PROVE  Keeps(from, to, P)
<1>1. Len(from) \in Nat /\ Len(to) \in Nat /\ Len(from) <= Len(to)
  BY LenProperties DEF IsPrefix, Tips
<1>2. ASSUME NEW i \in 1..Len(from) PROVE i \in 1..Len(to) /\ from[i] = to[i]
  <2>1. SubSeq(from, 1, Len(from))[i] = from[i] /\ SubSeq(to, 1, Len(from))[i] = to[i]
    BY <1>1, SMT DEF Tips
  <2> QED
    BY <1>1, <2>1 DEF IsPrefix
<1>3. ASSUME NEW i \in 1..Len(from) PROVE \E j \in 1..Len(to) : to[j].change = from[i].change
  <2>1. to[i].change = from[i].change /\ i \in 1..Len(to)
    BY <1>2
  <2> QED
    BY <2>1
<1> QED
  BY <1>3 DEF Keeps

(* A commit of the branch is beneath where the branch's own begin, on the  *)
(* base, replayed onto it, or dropped for what is there.                   *)
LEMMA ReplayKeeps ==
  ASSUME NEW t \in Tips, NEW base \in Tips, NEW positions \in SUBSET Tips,
         NEW kept \in SUBSET (1..Len(t)),
         \A i \in 1..Len(t) :
           i > Boundary(t, base, positions) => i \in kept \/ Dropped(t[i], t, base),
         NEW rest \in InOrder(t, kept)
  PROVE  Keeps(t, base \o rest, positions)
<1> DEFINE bound == Boundary(t, base, positions)
           to == base \o rest
<1>1. rest \in Tips /\ to \in Tips /\ Len(t) \in Nat /\ Len(base) \in Nat /\ Len(rest) \in Nat
  BY InOrderType, LineConcat, LenProperties DEF Tips
<1>2. /\ Len(to) = Len(base) + Len(rest)
      /\ \A j \in 1..Len(base) : to[j] = base[j]
      /\ \A k \in 1..Len(rest) : to[Len(base) + k] = rest[k]
  BY <1>1, SMT DEF Tips
<1>3. ASSUME NEW c, NEW j \in 1..Len(base), base[j].change = c
      PROVE  \E l \in 1..Len(to) : to[l].change = c
  <2>1. j \in 1..Len(to) /\ to[j].change = c
    BY <1>1, <1>2, <1>3
  <2> QED
    BY <2>1
<1>4. PICK p \in {base} \cup positions : bound \in 0..Len(t) /\ IsPrefix(SubSeq(t, 1, bound), p)
  BY BoundaryIs
<1> HIDE DEF to, bound
<1>5. p \in Tips /\ bound <= Len(p)
      /\ \A j \in 1..bound : SubSeq(t, 1, j) \in Line(p) /\ t[j] = p[j]
  BY <1>4, LineAt
<1>6. ASSUME NEW i \in 1..Len(t)
      PROVE  \/ \E q \in positions : SubSeq(t, 1, i) \in Line(q)
             \/ \E j \in 1..Len(to) : to[j].change = t[i].change
  <2>1. CASE i \in 1..bound /\ p \in positions
    BY <1>5, <2>1
  <2>2. CASE i \in 1..bound /\ p = base
    <3>1. i \in 1..Len(base) /\ base[i].change = t[i].change
      BY <1>1, <1>4, <1>5, <2>2
    <3> QED
      BY <1>3, <3>1
  <2>3. CASE i > bound /\ i \in kept
    <3>1. PICK k \in 1..Len(rest) : rest[k] = t[i]
      BY <2>3, InOrderAll
    <3>2. to[Len(base) + k].change = t[i].change
      BY <1>2, <3>1
    <3>3. Len(base) + k \in 1..Len(to)
      BY <1>1, <1>2
    <3> QED
      BY <3>2, <3>3
  <2>4. CASE i > bound /\ Dropped(t[i], t, base)
    <3>1. Fork(t, base) \in Nat
      BY <1>1, ForkIs
    <3>2. PICK j \in 1..Len(base) : base[j].change = t[i].change
      BY <1>1, <2>4, <3>1 DEF Dropped, Superseded, Empty
    <3> QED
      BY <1>3, <3>2
  <2>5. i \in 1..bound \/ i > bound
    BY <1>1, <1>4
  <2> QED
    BY <1>4, <2>1, <2>2, <2>3, <2>4, <2>5 DEF bound
<1> QED
  BY <1>6 DEF Keeps, to

LEMMA RestackKeeps ==
  ASSUME NEW t \in Tips, NEW base \in Tips, NEW positions \in SUBSET Tips,
         NEW plan \in Restack(t, base, positions), plan.answer = "moves"
  PROVE  Keeps(t, plan.to, positions)
<1> DEFINE bound == Boundary(t, base, positions)
           own == {i \in 1..Len(t) : i > bound}
           kept == {i \in own : ~Dropped(t[i], t, base)}
           old == Line(t) \ Line(SubSeq(t, 1, bound))
<1>1. /\ kept \in SUBSET (1..Len(t)) /\ old \in SUBSET Line(t) /\ Line(t) \subseteq Tips
      /\ \A i \in 1..Len(t) : i > bound => i \in kept \/ Dropped(t[i], t, base)
  BY LineType DEF Refs
<1>2. plan \in IF IsPrefix(base, t) THEN Stays("level", t)
               ELSE IF IsPrefix(t, base) THEN Moved(t, base, {})
               ELSE IF own = {} THEN Stays("error", t)
               ELSE IF \E i \in kept : Collides(t[i], base) THEN Stays("held", t)
               ELSE UNION {Moved(t, base \o rest, old) : rest \in InOrder(t, kept)}
  BY DEF Restack
<1>3. CASE plan \in Stays("level", t) \cup Stays("error", t) \cup Stays("held", t)
  BY <1>3, StaysType
<1> HIDE DEF own, kept, old
<1>4. CASE IsPrefix(t, base) /\ plan \in Moved(t, base, {})
  <2>1. plan.to = base
    BY <1>4, MovedType
  <2> QED
    BY <1>4, <2>1, KeepsOnto
<1>5. CASE plan \in UNION {Moved(t, base \o rest, old) : rest \in InOrder(t, kept)}
  <2>1. PICK rest \in InOrder(t, kept) : plan \in Moved(t, base \o rest, old)
    BY <1>5
  <2>2. rest \in Tips /\ base \o rest \in Tips /\ old \in SUBSET Tips
    BY <1>1, <2>1, InOrderType, LineConcat
  <2>3. plan.to = base \o rest
    BY <2>1, <2>2, MovedType
  <2> QED
    BY <1>1, <2>1, <2>3, ReplayKeeps
<1> QED
  BY <1>2, <1>3, <1>4, <1>5

(* Then the run.  Until its transaction, what a pull moves the branch from *)
(* and to keeps each change, or finds its commit on a line the plan read.  *)
PullKeeps ==
  pull.step \in {"planned", "logged"} /\ pull.answer = "moves" =>
    pull.from \in Tips /\ Keeps(pull.from, pull.to, pull.positions \cup {pull.before})

LEMMA MoreKeeps ==
  ASSUME NEW from, NEW to, NEW P, NEW Q, P \subseteq Q, Keeps(from, to, P)
  PROVE  Keeps(from, to, Q)
  BY DEF Keeps

LEMMA AxisKeeps ==
  ASSUME IInv, pull.step = "fetched", NEW plan \in AxisHere \cup AxisThere, plan.answer = "moves"
  PROVE  Keeps(tip, plan.to, stood \cup {pull.before})
<1>1. tip \in Tips /\ stood \in SUBSET Tips /\ {tracking, pull.after} \subseteq Refs
  BY DEF IInv, TypeOK, PullRuns
<1>2. CASE plan \in Stays("level", tip) \cup Stays("error", tip)
  BY <1>1, <1>2, StaysType
<1>3. CASE tracking # NoTip /\ plan \in Restack(tip, tracking, stood)
  <2>1. Keeps(tip, plan.to, stood)
    BY <1>1, <1>3, RestackKeeps DEF Refs
  <2> QED
    BY <2>1, MoreKeeps
<1>4. CASE /\ pull.after # NoTip /\ plan \in {Plan("moves", pull.after, {})}
           /\ pull.before = tip \/ IsPrefix(tip, pull.after)
  <2>1. plan.to = pull.after /\ pull.after \in Tips
    BY <1>1, <1>4 DEF Plan, Refs
  <2>2. CASE pull.before = tip
    <3>1. \A i \in 1..Len(tip) : SubSeq(tip, 1, i) \in Line(pull.before)
      BY <1>1, <2>2, LineOf
    <3> QED
      BY <3>1 DEF Keeps
  <2>3. CASE IsPrefix(tip, pull.after)
    BY <1>1, <2>1, <2>3, KeepsOnto
  <2> QED
    BY <1>4, <2>2, <2>3
<1>5. CASE plan \in AxisHere
  BY <1>2, <1>3, <1>5 DEF AxisHere
<1>6. CASE plan \in AxisThere
  BY <1>2, <1>3, <1>4, <1>6 DEF AxisThere
<1> QED
  BY <1>5, <1>6

LEMMA PlanKeeps == IInv /\ PullPlan => PullKeeps'
<1> SUFFICES ASSUME IInv, PullPlan, pull'.step \in {"planned", "logged"}, pull'.answer = "moves"
             PROVE  /\ pull'.from \in Tips
                    /\ Keeps(pull'.from, pull'.to, pull'.positions \cup {pull'.before})
  BY DEF PullKeeps
<1>1. PICK plan \in AxisHere \cup AxisThere :
        pull' = IF plan.answer = "error" \/ (plan.answer = "held" /\ held) THEN IdlePull
                ELSE [IdlePull EXCEPT
                        !.step = IF plan.answer = "level" THEN "moved" ELSE "planned",
                        !.before = pull.before, !.after = pull.after, !.answer = plan.answer,
                        !.onto = tracking, !.positions = stood,
                        !.from = tip, !.to = plan.to, !.old = plan.old]
  BY DEF PullPlan
<1>2. pull' = [IdlePull EXCEPT
                 !.step = IF plan.answer = "level" THEN "moved" ELSE "planned",
                 !.before = pull.before, !.after = pull.after, !.answer = plan.answer,
                 !.onto = tracking, !.positions = stood,
                 !.from = tip, !.to = plan.to, !.old = plan.old]
  BY <1>1, IdleType
<1>3. /\ pull'.answer = plan.answer /\ pull'.from = tip /\ pull'.to = plan.to
      /\ pull'.positions = stood /\ pull'.before = pull.before
  BY <1>2 DEF IdlePull
<1>4. Keeps(tip, plan.to, stood \cup {pull.before})
  BY <1>3, AxisKeeps DEF PullPlan
<1> QED
  BY <1>3, <1>4 DEF IInv, TypeOK

(* No step but the plan sets a pull going, and none changes what it holds. *)
LEMMA PullCarried ==
  ASSUME IInv, [Next]_vars, ~PullPlan
  PROVE  \/ pull'.step \notin {"planned", "logged"}
         \/ /\ pull.step \in {"planned", "logged"} /\ pull'.answer = pull.answer
            /\ pull'.from = pull.from /\ pull'.to = pull.to
            /\ pull'.positions = pull.positions /\ pull'.before = pull.before
<1>1. CASE pull' = pull \/ pull' = IdlePull
  BY <1>1, IdleType
<1>2. CASE Commit \/ Rewrite \/ Undo \/ Abandon \/ Fetch \/ Others \/ UNCHANGED vars
  BY <1>1, <1>2 DEF Commit, Rewrite, Undo, Abandon, Local, Fetch, Others, vars
<1>3. CASE PushRead \/ PushPlan \/ PushSend \/ PushMark \/ PushSeen
  BY <1>1, <1>3 DEF PushRead, PushPlan, PushSend, PushMark, PushSeen, Pushing
<1>4. CASE PullContended \/ PullSeen \/ Crash
  BY <1>1, <1>4 DEF PullContended, PullSeen, Crash
<1>5. pull \in PullRuns
  BY DEF IInv, TypeOK
<1>6. CASE PullRead
  BY <1>6 DEF PullRead, IdlePull
<1>7. CASE PullFetch
  BY <1>5, <1>7 DEF PullFetch, PullRuns
<1>8. CASE PullWrite
  BY <1>5, <1>8 DEF PullWrite, PullRuns
<1>9. CASE PullMove
  BY <1>5, <1>9 DEF PullMove, PullRuns
<1> QED
  BY <1>2, <1>3, <1>4, <1>6, <1>7, <1>8, <1>9 DEF Next

LEMMA NextKeeps == IInv /\ PullKeeps /\ [Next]_vars => PullKeeps'
<1> SUFFICES ASSUME IInv, PullKeeps, [Next]_vars PROVE PullKeeps'
  OBVIOUS
<1>1. CASE PullPlan
  BY <1>1, PlanKeeps
<1>2. CASE ~PullPlan
  BY <1>2, PullCarried DEF PullKeeps
<1> QED
  BY <1>1, <1>2

(* Only the transaction of a pull moves.                                   *)
LEMMA MovesAtMove ==
  ASSUME IInv, Next, Moves
  PROVE  PullMove
<1>1. /\ pull.step = "logged" /\ pull'.step = "moved" /\ pull.answer # "held"
      /\ pull' # pull /\ pull' # IdlePull
  BY IdleType DEF Moves
<1>2. ~(Commit \/ Rewrite \/ Undo \/ Abandon \/ Fetch \/ Others)
  BY <1>1 DEF Commit, Rewrite, Undo, Abandon, Local, Fetch, Others
<1>3. ~(PushRead \/ PushPlan \/ PushSend \/ PushMark \/ PushSeen)
  BY <1>1 DEF PushRead, PushPlan, PushSend, PushMark, PushSeen, Pushing
<1>4. ~(PullRead \/ PullFetch \/ PullPlan \/ PullWrite \/ PullContended \/ PullSeen \/ Crash)
  BY <1>1 DEF PullRead, PullFetch, PullPlan, PullWrite, PullContended, PullSeen, Crash
<1> QED
  BY <1>2, <1>3, <1>4 DEF Next

(* However many changes, and whatever else moves the branch, the copy or   *)
(* the tracking ref in between: a pull that moves the branch leaves each   *)
(* change on it, or had its commit on a line the shared copy has had       *)
(* (replay, range_boundary, Run::commit).                                  *)
THEOREM PullLosesNothing == Spec => PullKeepsChanges
<1>1. Init => PullKeeps
  BY IdleType DEF Init, PullKeeps
<1>2. Spec => []PullKeeps
  BY <1>1, NextKeeps, AlwaysKnown, PTL DEF Spec
<1>3. IInv /\ PullKeeps /\ [Next]_vars =>
        [Moves => \A i \in 1..Len(tip) :
           SubSeq(tip, 1, i) \in OnceShared
             \/ \E j \in 1..Len(tip') : tip'[j].change = tip[i].change]_vars
  <2> SUFFICES ASSUME IInv, PullKeeps, Next, Moves, NEW i \in 1..Len(tip)
               PROVE  SubSeq(tip, 1, i) \in OnceShared
                        \/ \E j \in 1..Len(tip') : tip'[j].change = tip[i].change
    BY DEF Moves, vars
  <2>1. PullMove /\ pull.step = "logged" /\ pull.answer = "moves"
    BY MovesAtMove DEF Moves, IInv, PullKnown
  <2>2. tip = pull.from /\ tip' = pull.to
    BY <2>1 DEF PullMove, StandsWhereFound, SetTip
  <2>3. Keeps(tip, pull.to, pull.positions \cup {pull.before})
    BY <2>1, <2>2 DEF PullKeeps
  <2> QED
    BY <2>2, <2>3 DEF Keeps, OnceShared
<1>4. [][IInv /\ PullKeeps /\ [Next]_vars]_vars => PullKeepsChanges
  BY <1>3, PTL DEF PullKeepsChanges
<1> QED
  BY <1>2, <1>4, AlwaysKnown, PTL DEF Spec
=============================================================================
