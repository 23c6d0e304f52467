----------------------------- MODULE SharedCopy -----------------------------
(***************************************************************************)
(* One branch of one repository and its copy on the remote: ff push, ff    *)
(* pull, the fetch lane, and everybody else who can move the copy          *)
(* (ff-core/src/push.rs, pull.rs, seen.rs, published.rs, accounted.rs,     *)
(* restack.rs, ff-cli/src/net.rs, cmd/push.rs, cmd/pull.rs).               *)
(*                                                                         *)
(* A tip is the line of commits above a root everybody has.  A commit is   *)
(* the line that ends in it, as a sha names all that is beneath it.        *)
(* Merges, the base axis, trees and files are left out; the push's note    *)
(* on the log is too, no rule reads it.                                    *)
(***************************************************************************)
EXTENDS Naturals, Sequences, SequencesExt, FiniteSets, FiniteSetsExt

CONSTANTS
  Changes,       \* pieces of work
  Tagged,        \* those whose commits carry a change-id header
  NoTip,         \* no such ref
  MaxOps,        \* bound: operations on the log, the clone's included
  MaxOutside,    \* bound: moves of the copy by others, and crashes
  MaxVerbs       \* bound: pushes and pulls

ASSUME TaggedAssumption == Tagged \subseteq Changes
ASSUME NoTipAssumption == NoTip \notin Seq([change : Changes, text : {"first", "ours", "theirs"}])

VARIABLES
  shared,        \* the branch on the remote
  tracking,      \* refs/remotes/<remote>/<branch>
  stood,         \* where its reflog says it has stood
  tip,           \* refs/heads/<branch>
  seen,          \* refs/fufu/seen/<branch>
  published,     \* refs/fufu/published/<branch>
  log,           \* the operations on the branch, oldest first
  held,          \* a rewrite is held on the branch
  push, pull,    \* a run of each verb
  used,          \* work begun by anybody
  had, told,     \* ghosts: commits once on this branch; commits a pull marked as
                 \*   seen and did not take in, being held, or planned on a
                 \*   tracking ref that had moved again
  ownLeft,       \* ghost: the copy stands where a recorded push left it
  outside, verbs

refs == <<tracking, stood, tip, seen, published, log, held>>
ghosts == <<used, had, told, ownLeft>>
counts == <<outside, verbs>>
vars == <<shared, refs, push, pull, ghosts, counts>>

Commits == [change : Changes, text : {"first", "ours", "theirs"}]
Tips == Seq(Commits)

-----------------------------------------------------------------------------
(***************************************************************************)
(* Lines of commits.                                                       *)
(***************************************************************************)

(* The commits of a line.                                                  *)
Line(t) == IF t = NoTip THEN {} ELSE {SubSeq(t, 1, i) : i \in 1..Len(t)}

(* merge_bases_many: where two lines part.                                 *)
Fork(s, t) == Max({i \in 0..Len(s) : IsPrefix(SubSeq(s, 1, i), t)})

(* range_boundary: below here a branch's commits are its base's, which     *)
(* once stood on them.                                                     *)
Boundary(t, base, positions) ==
  Max({Fork(t, p) : p \in {base} \cup (positions \ {t})})

(* replay: the base already holds the commit, by change id whatever it     *)
(* says there now, or the replay leaves nothing.                           *)
Superseded(c, t, base) ==
  c.change \in Tagged /\ \E j \in Fork(t, base) + 1..Len(base) : base[j].change = c.change
Empty(c, base) == \E j \in 1..Len(base) : base[j] = c
Collides(c, base) == \E j \in 1..Len(base) : base[j].change = c.change /\ base[j] # c

Dropped(c, t, base) == Superseded(c, t, base) \/ Empty(c, base)

(* The commits of s at the places I, in their order: one sequence, given   *)
(* as the set of it.                                                       *)
InOrder(s, I) ==
  {[k \in 1..Cardinality(I) |-> s[p[k]]] :
     p \in {q \in [1..Cardinality(I) -> I] : \A j, k \in 1..Cardinality(I) : j < k => q[j] < q[k]}}

(* The ways an axis can come out: where the branch goes, and the commits   *)
(* rewritten or dropped on the way.  A replay that could land may meet a   *)
(* conflict yet, with the open change if with nothing else.                *)
Plan(answer, to, old) == [answer |-> answer, to |-> to, old |-> old]
Stays(answer, t) == {Plan(answer, t, {})}
Moved(t, to, old) == {Plan("moves", to, old)} \cup Stays("held", t)

(* plan_restack.                                                           *)
Restack(t, base, positions) ==
  LET bound == Boundary(t, base, positions)
      own == {i \in 1..Len(t) : i > bound}
      kept == {i \in own : ~Dropped(t[i], t, base)}
  IN IF IsPrefix(base, t) THEN Stays("level", t)
     ELSE IF IsPrefix(t, base) THEN Moved(t, base, {})
     ELSE IF own = {} THEN Stays("error", t)
     ELSE IF \E i \in kept : Collides(t[i], base) THEN Stays("held", t)
     ELSE UNION {Moved(t, base \o rest, Line(t) \ Line(SubSeq(t, 1, bound))) : rest \in InOrder(t, kept)}

-----------------------------------------------------------------------------
(***************************************************************************)
(* The log, as far as this branch goes.                                    *)
(***************************************************************************)

(* An operation: where it left the branch, the commits it rewrote or       *)
(* dropped, and the hold it found.                                         *)
Operation(to, old) == [to |-> to, old |-> old, held |-> held]

(* reconcile: a ref that is not where the log has it is recorded as moved  *)
(* from outside before a verb does anything.                               *)
Reconciled == IF Last(log).to = tip THEN log ELSE Append(log, Operation(tip, {}))

(* accounted_for: named as the old side of a rewrite, or dropped.          *)
Accounted(L) == UNION {L[i].old : i \in DOMAIN L}

Record(op) ==
  /\ Len(Reconciled) < MaxOps
  /\ log' = Append(Reconciled, op)

SetTip(t) == tip' = t /\ had' = had \cup Line(t)

IdlePush == [step |-> "idle", tracking |-> NoTip, seen |-> NoTip, to |-> NoTip]
IdlePull ==
  [step |-> "idle", before |-> NoTip, tip |-> NoTip, fetched |-> FALSE, after |-> NoTip,
   answer |-> "none", onto |-> NoTip, positions |-> {}, from |-> NoTip, to |-> NoTip, old |-> {}]

(* A clone: ff clone marks the tip it checks out as seen.                  *)
Init ==
  /\ shared = << >> /\ tracking = << >> /\ stood = {<< >>} /\ tip = << >> /\ seen = << >>
  /\ published = NoTip /\ held = FALSE
  /\ log = <<[to |-> << >>, old |-> {}, held |-> FALSE]>>
  /\ push = IdlePush /\ pull = IdlePull
  /\ used = {} /\ had = {} /\ told = {} /\ ownLeft = FALSE
  /\ outside = 0 /\ verbs = 0

-----------------------------------------------------------------------------
(***************************************************************************)
(* Work on the branch, from any terminal.                                  *)
(***************************************************************************)

Local == UNCHANGED <<shared, tracking, stood, seen, published, push, pull, told, ownLeft, counts>>

(* close: a commit on top.                                                 *)
Commit ==
  \E c \in Changes \ used :
    LET t == Append(tip, [change |-> c, text |-> "first"])
    IN /\ Record(Operation(t, {}))
       /\ SetTip(t)
       /\ used' = used \cup {c}
       /\ Local /\ UNCHANGED held

(* describe, absorb, done: a commit of the branch is rewritten in place,   *)
(* and all above it with it.                                               *)
Rewrite ==
  \E i \in 1..Len(tip) :
    /\ tip[i].text # "ours"
    /\ LET t == [tip EXCEPT ![i].text = "ours"]
       IN /\ Record(Operation(t, Line(tip) \ Line(SubSeq(tip, 1, i - 1))))
          /\ SetTip(t)
    /\ Local /\ UNCHANGED <<held, used>>

(* undo: back to where the operation before the newest left the branch;    *)
(* what the newest accounted for leaves the log with it.                   *)
Undo ==
  LET L == Reconciled
  IN /\ Len(L) > 1
     /\ SetTip(Last(Front(L)).to)
     /\ held' = Last(L).held
     /\ log' = Front(L)
     /\ Local /\ UNCHANGED used

(* resolve --abandon: the hold goes, the branch stays.                     *)
Abandon ==
  /\ held
  /\ Record(Operation(tip, {}))
  /\ held' = FALSE
  /\ Local /\ UNCHANGED <<tip, had, used>>

-----------------------------------------------------------------------------
(***************************************************************************)
(* The wire.                                                               *)
(***************************************************************************)

(* A fetch leaves the tracking ref at the copy; a prune takes the ref and  *)
(* its reflog away.                                                        *)
FetchRefs ==
  /\ tracking' = shared
  /\ stood' = IF shared = NoTip THEN {} ELSE stood \cup {shared}

(* maybe_fetch, ff git fetch, pull --dry-run: no report, so no seen record.*)
Fetch ==
  /\ tracking # shared
  /\ FetchRefs
  /\ UNCHANGED <<shared, tip, seen, published, log, held, push, pull, ghosts, counts>>

(* Everybody else: work on top of the copy, its newest commit amended or   *)
(* dropped, the copy deleted or put back.                                  *)
Others ==
  /\ outside < MaxOutside
  /\ outside' = outside + 1
  /\ ownLeft' = FALSE
  /\ \/ \E c \in Changes \ used :
          /\ shared # NoTip
          /\ shared' = Append(shared, [change |-> c, text |-> "first"])
          /\ used' = used \cup {c}
     \/ /\ shared \notin {NoTip, << >>}
        /\ \/ shared' = Front(shared)
           \/ /\ Last(shared).text # "theirs"
              /\ shared' = [shared EXCEPT ![Len(shared)].text = "theirs"]
        /\ UNCHANGED used
     \/ shared' = (IF shared = NoTip THEN << >> ELSE NoTip) /\ UNCHANGED used
  /\ UNCHANGED <<refs, push, pull, had, told, verbs>>

-----------------------------------------------------------------------------
(***************************************************************************)
(* ff push.                                                                *)
(***************************************************************************)

Pushing == UNCHANGED <<stood, tip, held, pull, used, had, told, counts>>

(* preflight_branch: the facts, read once.                                 *)
PushRead ==
  /\ push.step = "idle" /\ verbs < MaxVerbs
  /\ push' = [IdlePush EXCEPT !.step = "read", !.tracking = tracking, !.seen = seen]
  /\ verbs' = verbs + 1
  /\ UNCHANGED <<shared, refs, pull, ghosts, outside>>

(* Faulty: the lease is left to guard by itself.                           *)
VouchedAlways(t) == TRUE

(* refuse: whether the tracking tip is one the lease can vouch for.        *)
Vouched(t) ==
  \/ push.tracking = NoTip
  \/ push.seen = push.tracking
  \/ IsPrefix(push.tracking, t)

(* begin, plan: the capture, then blocked, up to date, refused or planned. *)
PushPlan ==
  /\ push.step = "read"
  /\ Len(Reconciled) <= MaxOps
  /\ log' = Reconciled
  /\ push' = IF ~held /\ push.tracking # tip /\ Vouched(tip)
               THEN [push EXCEPT !.step = "planned", !.to = tip] ELSE IdlePush
  /\ Pushing /\ UNCHANGED <<shared, tracking, seen, published, ownLeft>>

(* net::push: git sends what the branch is by now, under the lease of the  *)
(* plan, and moves the tracking ref.                                       *)
PushSend ==
  /\ push.step = "planned"
  /\ IF shared \in {push.tracking, tip}
       THEN /\ shared' = tip /\ tracking' = tip /\ stood' = stood \cup {tip}
            /\ push' = [IdlePush EXCEPT !.step = "sent", !.to = push.to]
            /\ ownLeft' = FALSE
       ELSE push' = IdlePush /\ UNCHANGED <<shared, tracking, stood, ownLeft>>
  /\ UNCHANGED <<tip, seen, published, log, held, pull, used, had, told, counts>>

(* record: the published pointer, then the seen record, both at the tip    *)
(* that was planned.                                                       *)
PushMark ==
  /\ push.step = "sent"
  /\ published' = push.to
  /\ ownLeft' = (shared = push.to /\ tracking = push.to)
  /\ push' = [push EXCEPT !.step = "published"]
  /\ Pushing /\ UNCHANGED <<shared, tracking, seen, log>>

PushSeen ==
  /\ push.step = "published"
  /\ seen' = push.to
  /\ push' = IdlePush
  /\ Pushing /\ UNCHANGED <<shared, tracking, published, log, ownLeft>>

-----------------------------------------------------------------------------
(***************************************************************************)
(* ff pull: the remote axis of the branch, underfoot (here) or not.        *)
(***************************************************************************)

Pulling == UNCHANGED <<shared, published, push, used, ownLeft, outside>>

(* preflight, read_branches: the first reading.                            *)
PullRead ==
  /\ pull.step = "idle" /\ verbs < MaxVerbs
  /\ pull' = [IdlePull EXCEPT !.step = "read", !.before = tracking, !.tip = tip]
  /\ verbs' = verbs + 1
  /\ Pulling /\ UNCHANGED <<tracking, stood, tip, seen, log, held, had, told>>

(* net::fetch, or --no-fetch, and the second reading.                      *)
PullFetch ==
  /\ pull.step = "read"
  /\ \/ /\ FetchRefs
        /\ pull' = [pull EXCEPT !.step = "fetched", !.fetched = TRUE, !.after = shared]
     \/ /\ pull' = [pull EXCEPT !.step = "fetched", !.after = tracking]
        /\ UNCHANGED <<tracking, stood>>
  /\ Pulling /\ UNCHANGED <<tip, seen, log, held, had, told, verbs>>

Arrived == pull.fetched /\ pull.after # pull.before
Beyond(t) == Line(pull.after) \ Line(t)

(* Divergence this run did not bring, of commits the log accounts for.     *)
Yours(t) ==
  /\ ~Arrived
  /\ ~IsPrefix(pull.after, t) /\ ~IsPrefix(t, pull.after)
  /\ Beyond(t) \subseteq Accounted(Reconciled)

(* Faulty: divergence is all that is looked at.                            *)
UndoneNever(t) == FALSE

(* The copy stands where the last push left it.                            *)
Undone(t) == ~Arrived /\ Beyond(t) # {} /\ published = pull.after

(* pull: the branch underfoot, asked of the tip the first reading saw and  *)
(* planned on the tip there is.                                            *)
AxisHere ==
  IF pull.after = NoTip THEN Stays("error", tip)
  ELSE IF Yours(pull.tip) \/ Undone(pull.tip) THEN Stays("level", tip)
  ELSE IF tracking = NoTip THEN Stays("error", tip)
  ELSE Restack(tip, tracking, stood)

(* other_remote_axis: any other branch.                                    *)
AxisThere ==
  IF ~pull.fetched \/ pull.after = NoTip \/ held THEN Stays("error", tip)
  ELSE IF IsPrefix(pull.after, tip) \/ Undone(tip) THEN Stays("level", tip)
  ELSE IF (pull.before = tip /\ Arrived) \/ IsPrefix(tip, pull.after)
    THEN {Plan("moves", pull.after, {})}
  ELSE IF Yours(tip) THEN Stays("level", tip)
  ELSE IF tracking = NoTip THEN Stays("error", tip)
  ELSE Restack(tip, tracking, stood)

(* pull: the capture and the plan.  A second hold on a branch is refused.  *)
PullPlan ==
  /\ pull.step = "fetched"
  /\ Len(Reconciled) <= MaxOps
  /\ log' = Reconciled
  /\ \E plan \in AxisHere \cup AxisThere :
       pull' = IF plan.answer = "error" \/ (plan.answer = "held" /\ held) THEN IdlePull
               ELSE [IdlePull EXCEPT
                       !.step = IF plan.answer = "level" THEN "moved" ELSE "planned",
                       !.before = pull.before, !.after = pull.after, !.answer = plan.answer,
                       !.onto = tracking, !.positions = stood,
                       !.from = tip, !.to = plan.to, !.old = plan.old]
  /\ Pulling /\ UNCHANGED <<tracking, stood, tip, seen, held, had, told, verbs>>

(* Run::commit: the record, ahead of the refs.                             *)
PullWrite ==
  /\ pull.step = "planned"
  /\ Len(log) < MaxOps
  /\ log' = Append(log, Operation(IF pull.answer = "held" THEN tip ELSE pull.to, pull.old))
  /\ pull' = [pull EXCEPT !.step = "logged"]
  /\ Pulling /\ UNCHANGED <<tracking, stood, tip, seen, held, had, told, verbs>>

(* Faulty: the transaction expects nothing.                                *)
StandsAnywhere == TRUE

(* The ref transaction: each ref is expected where the run found it.       *)
StandsWhereFound == tip = pull.from

(* Run::commit: the refs in one transaction, then the holds.               *)
PullMove ==
  /\ pull.step = "logged"
  /\ IF pull.answer = "held"
       THEN held' = TRUE /\ UNCHANGED <<tip, had>>
       ELSE StandsWhereFound /\ SetTip(pull.to) /\ UNCHANGED held
  /\ pull' = [pull EXCEPT !.step = "moved"]
  /\ Pulling /\ UNCHANGED <<tracking, stood, seen, log, told, verbs>>

PullContended ==
  /\ pull.step = "logged" /\ pull.answer # "held" /\ ~StandsWhereFound
  /\ pull' = IdlePull
  /\ Pulling /\ UNCHANGED <<tracking, stood, tip, seen, log, held, had, told, verbs>>

(* pull: the seen record, last and whatever the axis answered.             *)
PullSeen ==
  /\ pull.step = "moved"
  /\ seen' = pull.after
  /\ told' = told \cup (IF pull.answer = "held" \/ pull.onto # pull.after
                          THEN Line(pull.after) ELSE {})
  /\ pull' = IdlePull
  /\ Pulling /\ UNCHANGED <<tracking, stood, tip, log, held, had, verbs>>

(* A verb killed between two steps.                                        *)
Crash ==
  /\ outside < MaxOutside
  /\ outside' = outside + 1
  /\ \/ push.step # "idle" /\ push' = IdlePush /\ UNCHANGED pull
     \/ pull.step # "idle" /\ pull' = IdlePull /\ UNCHANGED push
  /\ UNCHANGED <<shared, refs, ghosts, verbs>>

Next ==
  \/ Commit \/ Rewrite \/ Undo \/ Abandon
  \/ Fetch \/ Others
  \/ PushRead \/ PushPlan \/ PushSend \/ PushMark \/ PushSeen
  \/ PullRead \/ PullFetch \/ PullPlan \/ PullWrite \/ PullMove \/ PullContended \/ PullSeen
  \/ Crash

Spec == Init /\ [][Next]_vars

-----------------------------------------------------------------------------
(***************************************************************************)
(* Properties.                                                             *)
(***************************************************************************)

(* Every ref is a line or nothing, the branch and the log always there;    *)
(* a run knows at each step what the steps after it use (push, pull).      *)
Refs == Tips \cup {NoTip}
Ops == [to : Tips, old : SUBSET Tips, held : BOOLEAN]
PushRuns ==
  [step : {"idle", "read", "planned", "sent", "published"}, tracking : Refs, seen : Refs, to : Refs]
PullRuns ==
  [step : {"idle", "read", "fetched", "planned", "logged", "moved"},
   before : Refs, tip : Refs, fetched : BOOLEAN, after : Refs,
   answer : {"none", "level", "moves", "held"}, onto : Refs, positions : SUBSET Tips,
   from : Refs, to : Refs, old : SUBSET Tips]
TypeOK ==
  /\ tip \in Tips /\ {shared, tracking, seen, published} \subseteq Refs
  /\ stood \subseteq Tips /\ held \in BOOLEAN
  /\ log \in Seq(Ops) /\ log # << >>
  /\ push \in PushRuns /\ pull \in PullRuns
  /\ push.step \notin {"idle", "read"} => push.to \in Tips
  /\ pull.step \in {"read", "fetched"} => pull.tip \in Tips
  /\ pull.step \in {"planned", "logged"} => pull.to \in Tips

(* What a push takes off the shared copy had either been on this branch or *)
(* was what a pull marked without taking it in: the lease is only as wide  *)
(* as what somebody has seen (refuse, push.rs; seen.rs).                   *)
Sends == push.step = "planned" /\ push'.step = "sent"
TakesOffOnlyKnown ==
  [][Sends => Line(shared) \ Line(shared') \subseteq had \cup told]_vars

(* While the copy stands where our last recorded push left it, and branch  *)
(* and tracking ref where the pull first found them, the pull leaves the   *)
(* branch there, whatever was undone or rewritten before it (Yours and     *)
(* Undone, pull.rs).                                                       *)
Decides == pull.step = "fetched" /\ pull'.step = "planned"
NothingArrived == pull.before = tracking /\ pull.after = tracking
TakesNothingBack == [][Decides /\ ownLeft /\ NothingArrived => tip # pull.tip]_vars

(* A pull that moves the branch loses no change of it: each is still on    *)
(* the branch, or its commit had been on the shared copy, by what the plan *)
(* read, and was dropped there (replay, range_boundary, the compare-and-   *)
(* swap of Run::commit).                                                   *)
Moves == pull.step = "logged" /\ pull'.step = "moved" /\ pull.answer # "held"
OnceShared == UNION {Line(p) : p \in pull.positions \cup {pull.before}}
PullKeepsChanges ==
  [][Moves => \A i \in 1..Len(tip) :
       SubSeq(tip, 1, i) \in OnceShared \/ \E j \in 1..Len(tip') : tip'[j].change = tip[i].change]_vars
=============================================================================
