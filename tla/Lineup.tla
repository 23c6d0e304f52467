-------------------------------- MODULE Lineup --------------------------------
(***************************************************************************)
(* ff pull over a stack (ff-core/src/pull.rs, overlay.rs, pullpolicy.rs,   *)
(* the planning half of restack.rs, futures.rs).  Each branch answers to   *)
(* its shared copy and to its base.  A run takes the copies in first, for  *)
(* every branch it visits, then the bases, parents first; every step is    *)
(* planned on what the steps before it have planned, and the whole is      *)
(* written once.  Module Stack has the branches, the replay and the cascade*)
(* and the verbs that move them, module SharedCopy the interleavings of one*)
(* branch's pull, push and lease: here fetch, pull and push are one step.  *)
(* One remote; tags, sessions, open changes, unrelated histories and       *)
(* `--resolve' are left out.                                               *)
(***************************************************************************)
EXTENDS Stack

CONSTANT NameOrder   \* [Branches -> Nat]  where the ref namespace lists a branch

ASSUME NameOrderAssumption ==
  /\ NameOrder \in [Branches -> Nat]
  /\ \A b, c \in Branches : NameOrder[b] = NameOrder[c] => b = c

VARIABLES
  copy,      \* [Branches -> line or None]  the branch on the remote
  tracking,  \* [Branches -> line or None]  refs/remotes/origin/<branch>
  stood,     \* [Branches -> set of lines]  the tracking ref's reflog
  seen,      \* [Branches -> line or None]  the copy's tip a report last showed
  spare,     \* [others, pulls]  bounds what others do to the copies, and pulls
  lined      \* what the newest step fetched and pulled, {} when it did not

remote == <<copy, tracking, stood, seen>>
allVars == <<vars, remote, spare, lined>>

-----------------------------------------------------------------------------
(***************************************************************************)
(* The branches a run visits.                                              *)
(***************************************************************************)

(* The local bases beneath a branch, itself included.                      *)
OneBeneath(r, found) == found \cup ({Base(r, c) : c \in found} \ {None})
Beneath(r, b) ==
  LET found[k \in 0..Cardinality(Branches)] ==
        IF k = 0 THEN {b} ELSE OneBeneath(r, found[k - 1])
  IN found[Cardinality(Branches)]

(* choose: what a run visits is the branch underfoot, the ones named, or   *)
(* all of them, each with what is beneath it.                              *)
Chosen(seeds) == UNION {Beneath(w, b) : b \in seeds}
Scopes == {Chosen(seeds) : seeds \in (SUBSET Live(w)) \ {{}}}

(* base_order: a branch comes after the one it stands on.  Of what is left *)
(* to visit, the branch with the fewest beneath it is next.                *)
BaseOrder(todo) ==
  CHOOSE b \in todo : \A c \in todo : Cardinality(Beneath(w, b)) <= Cardinality(Beneath(w, c))

-----------------------------------------------------------------------------
(***************************************************************************)
(* The plan.  `run' is what is planned so far: `r' the repository, `read'  *)
(* the branches whose copy was read, `failed' whether it stopped, which    *)
(* leaves everything as it was.  `at' is what the fetch made of the        *)
(* tracking refs, `at.fetched' whether there was one.                      *)
(***************************************************************************)

At(fetched) ==
  [fetched |-> fetched,
   after |-> IF fetched THEN copy ELSE tracking,
   stood |-> IF fetched THEN [b \in Branches |-> IF copy[b] = None THEN {}
                                                 ELSE stood[b] \cup {copy[b]}]
             ELSE stood]

Arrived(at, b) == at.after[b] # tracking[b]
Beyond(at, b, tip) == Above(at.after[b], Meet(tip, at.after[b]))

(* Faulty: the log is not asked what it has rewritten.                     *)
YoursNever(at, b, tip) == FALSE

(* Divergence this run did not bring, of commits the log accounts for.     *)
Yours(at, b, tip) ==
  /\ ~Arrived(at, b)
  /\ ~Within(at.after[b], tip) /\ ~Within(tip, at.after[b])
  /\ Beyond(at, b, tip) \subseteq w.old

(* The copy stands where this branch was last pushed.                      *)
Undone(at, b, tip) ==
  ~Arrived(at, b) /\ Beyond(at, b, tip) # {} /\ pushed[b] = at.after[b]

(* Run::new.                                                               *)
Unplanned == [r |-> w, read |-> {}, failed |-> FALSE]
Stopped(run) == [run EXCEPT !.failed = TRUE]

(* A hold asked of a branch that has one stops the run.                    *)
Holds(run, b, onto) ==
  IF run.r.held[b] # None THEN Stopped(run)
  ELSE [run EXCEPT !.r.held[b] = onto]

(* plan_restack and Run::fold: `onto' names what `line' is the tip of, b   *)
(* itself for its shared copy, and `stands' is where that has stood.  A    *)
(* hold that stood before is left as it was, and a branch that has nothing *)
(* to replay and is not on `line' stops the run.                           *)
Restacks(run, b, onto, line, stands) ==
  LET tip == run.r.line[b]
      from == ForkedFrom(tip, line, stands)
      done == Replay(tip, from, line, FALSE)
      lands(r, new) == [run EXCEPT !.r = Landed(r, b, new)]
  IN IF Within(line, tip) THEN run
     ELSE IF Within(tip, line) THEN lands(run.r, line)
     ELSE IF from = Len(tip) THEN Stopped(run)
     ELSE IF done.clean THEN lands([run.r EXCEPT !.old = @ \cup Above(tip, from)], done.line)
     ELSE Holds(run, b, onto)

(* The remote axis of the branch underfoot.                                *)
RemoteHere(run, b, at) ==
  LET tip == run.r.line[b]
  IN IF Yours(at, b, tip) \/ Undone(at, b, tip) THEN run
     ELSE Restacks(run, b, b, at.after[b], at.stood[b])

(* other_remote_axis: a branch that stood where its copy stood follows it  *)
(* wherever it went, and nothing above it is asked to follow.              *)
Mirrors(at, b, tip) == tracking[b] = tip /\ Arrived(at, b)
RemoteThere(run, b, at) ==
  LET tip == run.r.line[b]
  IN IF Within(at.after[b], tip) \/ Undone(at, b, tip) THEN run
     ELSE IF Mirrors(at, b, tip) \/ Within(tip, at.after[b]) THEN
       [run EXCEPT !.r.line[b] = at.after[b]]
     ELSE IF Yours(at, b, tip) THEN run
     ELSE Restacks(run, b, b, at.after[b], at.stood[b])

(* A copy that is there is read and its tip shown, but not that of a branch*)
(* checked out elsewhere or held by then, nor without a fetch any but that *)
(* of the branch underfoot.                                                *)
Reads(run, b, at) ==
  /\ at.after[b] # None
  /\ b = w.head \/ (at.fetched /\ b # other /\ run.r.held[b] = None)
Marked(run, b) == [run EXCEPT !.read = @ \cup {b}]

RemoteAxis(run, b, at) ==
  IF run.failed \/ ~Reads(run, b, at) THEN run
  ELSE IF b = w.head THEN RemoteHere(Marked(run, b), b, at)
  ELSE RemoteThere(Marked(run, b), b, at)

(* A hold this run planned.                                                *)
HeldNow(run, b) == run.r.held[b] # w.held[b]

(* refused_before_planning: `fufu.pull' leaves a branch standing that is   *)
(* behind its base, and moves one that is beneath it.                      *)
LeftStanding(r, b, base) ==
  b \in r.stays /\ ~Within(r.line[base], r.line[b]) /\ ~Within(r.line[b], r.line[base])

(* current_base_axis, other_base_axis.  A branch held or checked out       *)
(* elsewhere when the remote phase came to it has no base axis; the branch *)
(* underfoot has one under a hold of an earlier run.                       *)
BaseAxis(run, b, parents) ==
  LET base == Base([run.r EXCEPT !.parent = parents], b)
  IN IF \/ run.failed \/ base = None \/ b = other
        \/ run.r.held[b] # None /\ (b # w.head \/ HeldNow(run, b))
        \/ LeftStanding(run.r, b, base)
     THEN run
     ELSE Restacks(run, b, base, run.r.line[base], been[base])

(* Where a copy that is gone last stood, as far as fufu knows.             *)
Record == [b \in Branches |-> IF seen[b] # None THEN seen[b] ELSE pushed[b]]
Vanished(at) == {b \in Live(w) \ {Trunk} : at.after[b] = None /\ Record[b] # None}

(* Run::commit: the deletes, the parents, and then the holds.  The stack   *)
(* was read as it stood, so a branch the run deletes may have been carried,*)
(* or held, before it goes.                                                *)
Written(run, deletes, parents) ==
  IF run.failed THEN w
  ELSE [Deleted([run.r EXCEPT !.parent = parents], deletes) EXCEPT !.held = run.r.held]

Outcome(run, deletes, parents) ==
  [failed |-> run.failed, read |-> run.read, r |-> Written(run, deletes, parents)]

(* pull, the remote phase: the branch underfoot, and then the others, as   *)
(* the ref namespace lists them.                                           *)
FirstNamed(todo) == CHOOSE b \in todo : \A c \in todo : NameOrder[b] <= NameOrder[c]
HereFirst(todo) == IF w.head \in todo THEN w.head ELSE FirstNamed(todo)
TakeCopy(step, at) ==
  LET turn == HereFirst(step.todo)
  IN [run |-> RemoteAxis(step.run, turn, at), todo |-> step.todo \ {turn}]
Copies(visited, at) ==
  LET steps[k \in 0..Cardinality(visited)] ==
        IF k = 0 THEN [run |-> Unplanned, todo |-> visited] ELSE TakeCopy(steps[k - 1], at)
  IN steps[Cardinality(visited)].run

(* The base phase.                                                         *)
FollowBase(step, parents) ==
  LET turn == BaseOrder(step.todo)
  IN [run |-> BaseAxis(step.run, turn, parents), todo |-> step.todo \ {turn}]
Bases(visited, parents, copies) ==
  LET steps[k \in 0..Cardinality(visited)] ==
        IF k = 0 THEN [run |-> copies, todo |-> visited] ELSE FollowBase(steps[k - 1], parents)
  IN steps[Cardinality(visited)].run

(* pull: what a run over `scope' makes of the repository.                  *)
Planned(scope, fetched, prune) ==
  LET at == At(fetched)
      deletes == IF prune THEN Prunable(Vanished(at), Record) ELSE {}
      parents == IF prune THEN Parents(deletes) ELSE w.parent
      visited == scope \ deletes
  IN Outcome(Bases(visited, parents, Copies(visited, at)), deletes, parents)

-----------------------------------------------------------------------------
(***************************************************************************)
(* Actions.                                                                *)
(***************************************************************************)

SpendSpare(what) == spare[what] > 0 /\ spare' = [spare EXCEPT ![what] = @ - 1]

Fetched(at) == tracking' = at.after /\ stood' = at.stood

(* ff git fetch, the fetch lane, an editor's.                              *)
Fetch ==
  /\ tracking # copy
  /\ Fetched(At(TRUE))
  /\ UNCHANGED <<vars, copy, seen, spare, lined>>

(* The seen record, whatever each axis answered.                           *)
Shown(plan, at) ==
  [b \in Branches |-> IF ~plan.failed /\ b \in plan.read THEN at.after[b] ELSE seen[b]]

(* ff pull.  A run with nothing to write is no operation.                  *)
Carries(scope, fetched, plan) ==
  /\ seen' = Shown(plan, At(fetched))
  /\ lined' = IF fetched /\ ~plan.failed THEN scope ELSE {}
  /\ w' = plan.r
  /\ IF plan.r = w THEN UNCHANGED <<been, before>>
     ELSE been' = Logged(plan.r) /\ before' = w
Pull(scope, fetched, prune) ==
  /\ SpendSpare("pulls")
  /\ Fetched(At(fetched))
  /\ Carries(scope, fetched, Planned(scope, fetched, prune))
  /\ UNCHANGED <<copy, pushed, other, made, left>>

(* ff push of a branch, taken by the remote: the lease is the tracking ref.*)
Send(b) ==
  /\ Push(b)
  /\ w.held[b] = None
  /\ copy[b] = tracking[b] /\ tracking[b] # w.line[b]
  /\ copy' = [copy EXCEPT ![b] = w.line[b]]
  /\ tracking' = [tracking EXCEPT ![b] = w.line[b]]
  /\ stood' = [stood EXCEPT ![b] = @ \cup {w.line[b]}]
  /\ seen' = [seen EXCEPT ![b] = w.line[b]]
  /\ lined' = {}
  /\ UNCHANGED spare

(* Everybody else: a commit on a copy, one of its own written anew, or the *)
(* copy deleted as a merged one is.                                        *)
Others(b) ==
  /\ copy[b] # None
  /\ SpendSpare("others")
  /\ \/ \E path \in Paths :
          /\ made < MaxCommits
          /\ made' = made + 1
          /\ copy' = [copy EXCEPT ![b] = Append(@, Commit(made', path))]
     \/ \E k \in DOMAIN copy[b] :
          /\ k > 1 /\ copy[b][k].text < 1
          /\ copy' = [copy EXCEPT ![b][k].text = @ + 1]
          /\ UNCHANGED made
     \/ b # Trunk /\ copy' = [copy EXCEPT ![b] = None] /\ UNCHANGED made
  /\ lined' = {}
  /\ UNCHANGED <<w, been, pushed, other, before, left, tracking, stood, seen>>

(* ff branch --prune.                                                      *)
PruneGone == Prune(Vanished(At(FALSE)), Record)

Here ==
  /\ Typed \/ PruneGone
  /\ lined' = {}
  /\ UNCHANGED <<remote, spare>>

LineupInit ==
  /\ \E start \in Starts : InitFrom(start) /\ spare = start.spare
  /\ copy = w.line /\ tracking = copy /\ seen = copy
  /\ stood = been
  /\ lined = {}

LineupNext ==
  \/ Here
  \/ Fetch
  \/ \E b \in Branches : Others(b)
  \/ \E b \in Branches : Send(b)
  \/ \E scope \in Scopes, fetched, prune \in BOOLEAN :
       (prune => Vanished(At(fetched)) # {}) /\ Pull(scope, fetched, prune)

LineupSpec == LineupInit /\ [][LineupNext]_allVars

-----------------------------------------------------------------------------
(***************************************************************************)
(* Properties.                                                             *)
(***************************************************************************)

(* A parent aimed in a loop has no branch to begin at.                     *)
Rooted(b) == \E root \in Beneath(w, b) : Base(w, root) = None

(* Every divergence is one pull tells apart: a copy that neither the log   *)
(* nor a push of ours accounts for is taken for somebody's work.           *)
Recognized(b) ==
  \/ tracking[b] \in {None, pushed[b]}
  \/ Within(tracking[b], w.line[b]) \/ Within(w.line[b], tracking[b])
  \/ Above(tracking[b], Meet(w.line[b], tracking[b])) \subseteq w.old

(* Pulled again with nothing having moved meanwhile, every branch a pull   *)
(* visited stays where the first pull left it; but a hold of the branch    *)
(* underfoot is tried again, over what its base has stood on, and the      *)
(* cascade that placed it asked only what the base had left.               *)
PullRests ==
  /\ lined # {} /\ tracking = copy
  /\ w.held[w.head] = None
  /\ \A b \in lined \cap Live(w) : Recognized(b) /\ Rooted(b)
  => Planned(lined \cap Live(w), TRUE, FALSE).r.line = w.line

(* After a pull every branch it visited stands on its base.                *)
StandsOnBase ==
  \A b \in lined \cap Live(w) :
    \/ b = other \/ b \in w.stays \/ w.held[b] # None \/ Base(w, b) = None \/ ~Rooted(b)
    \/ Within(w.line[Base(w, b)], w.line[b])

(* A pull settles: every branch it visited stands on its base and stays    *)
(* there (pull.rs, the two axes of a run).                                 *)
PullSettles == PullRests /\ StandsOnBase

(* What a pull takes off a branch has been held by the branch's own copy,  *)
(* or by a branch beneath it or the copy of one, as it stood or stands.    *)
IsPull == spare'.pulls # spare.pulls
Under(b) == (Beneath(w, b) \cup Beneath(w', b)) \ {b}
PullTakesOnlyTheTaken ==
  [][\A b \in Branches : IsPull /\ Moved(b) =>
       \A id \in Ids(w.line[b]) \ Ids(w'.line[b]) :
         \E l \in stood'[b] \cup UNION {been'[c] \cup stood'[c] : c \in Under(b)} : id \in Ids(l)]_allVars

(* Work is dropped only where it stands already: a verb takes a change off *)
(* a branch only if its base has held it, and a pull only if its own copy  *)
(* has, or a branch beneath it or the copy of one                          *)
(* (restack.rs range_boundary, cascade.rs plan_over, pull.rs fold).        *)
TakesOnlyTheTaken == TakesOnlyTheBases /\ PullTakesOnlyTheTaken

=============================================================================
