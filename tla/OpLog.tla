------------------------------- MODULE OpLog -------------------------------
(***************************************************************************)
(* The write path of the operation log: several fufu processes appending   *)
(* to per-worktree chains (ff-core/src/ops/append.rs, ops/lock.rs).        *)
(*                                                                         *)
(* A chain is refs/fufu/wt/<id>/ops with its reflog; the operations are    *)
(* immutable commits in the object store; every append also moves the      *)
(* pointer refs/fufu/snap/<branch> of the branch it runs on.  A chain has  *)
(* a lock file of its own.  The reference transaction below it is the one  *)
(* ops/lock.rs describes: it reads a reference before it locks it, so its  *)
(* MustExistAndMatch compares against a value that may be stale.           *)
(*                                                                         *)
(* Trees, open commits and ref tables are abstracted: an operation's table *)
(* is named by the operation that planned it.                              *)
(***************************************************************************)
EXTENDS Naturals, Sequences, FiniteSets

CONSTANTS
  Procs,        \* fufu processes
  Chains,       \* worktrees, one chain each
  Branches,     \* names that carry a branch pointer, "@detached" included
  Home,         \* [Procs -> Chains]: the worktree a process runs in
  Work,         \* [Chains -> SUBSET Branches]: what a worktree is opened on
  Free, Stale,  \* an unheld lock file; one left behind by a killed process
  MaxAttempts,  \* append.rs MAX_ATTEMPTS
  MaxPlans,     \* bound: appends attempted in a behaviour
  MaxCrashes    \* bound: processes killed in a behaviour

ASSUME ProcsAssumption == Free \notin Procs /\ Stale \notin Procs /\ Free # Stale
ASSUME HomeAssumption == Home \in [Procs -> Chains]
ASSUME WorkAssumption == Work \in [Chains -> (SUBSET Branches) \ {{}}]
ASSUME BoundsAssumption == /\ MaxAttempts \in Nat \ {0}
                           /\ MaxPlans \in Nat
                           /\ MaxCrashes \in Nat

None == 0       \* a reference that does not exist; operations are 1, 2, ...

Kinds == {"capture", "verb"}

VARIABLES
  store,    \* the operations written so far; an operation's id is its index
  opsRef,   \* [Chains -> id]    refs/fufu/wt/<id>/ops
  snapRef,  \* [Branches -> id]  refs/fufu/snap/<branch>
  reflog,   \* [Chains -> Seq(id)]  the ops ref's reflog, oldest first
  lock,     \* [Chains -> Procs or Free or Stale]  fufu/oplog-<id>.lock
  pc,       \* [Procs -> step]
  draft,    \* [Procs -> Draft]  the OpDraft being appended
  link,     \* [Procs -> record] the refs as read under the lock
  saw,      \* [Procs -> record] the refs as the transaction read them
  mine,     \* [Procs -> id]     the operation just written
  outcome,  \* [Procs -> result of the last append]
  plans, crashes

vars == <<store, opsRef, snapRef, reflog, lock, pc, draft, link, saw, mine,
          outcome, plans, crashes>>

Op == [kind : Kinds, chain : Chains, branch : Branches, prev : Nat,
       onBranch : Nat, prevVerb : Nat, table : Nat, planned : Nat]
Draft == [kind : Kinds, branch : Branches, planned : Nat, tries : Nat]

(* The steps a process holds the chain's lock in, and those that also hold *)
(* the reference locks of the transaction.                                 *)
Critical == {"locked", "linked", "prepared", "staged", "moved", "lost"}
Steps == {"idle", "ready"} \cup Critical
Outcomes == {"none", "committed", "contended"}

(* The table an operation is planned against, or carries: a verb's own, a  *)
(* capture's predecessor's.                                                *)
TableAt(id) == IF id = None THEN None ELSE store[id].table

(* The newest verb at or below an operation: append.rs verb_link.          *)
VerbLink(id) ==
  IF id = None THEN None
  ELSE IF store[id].kind = "capture" THEN store[id].prevVerb ELSE id

InCritical(p) == pc[p] \in Critical
RefsNow(p) == [ops |-> opsRef[Home[p]], branch |-> snapRef[draft[p].branch]]

-----------------------------------------------------------------------------
Init ==
  /\ store = << >>
  /\ opsRef = [c \in Chains |-> None]
  /\ snapRef = [b \in Branches |-> None]
  /\ reflog = [c \in Chains |-> << >>]
  /\ lock = [c \in Chains |-> Free]
  /\ pc = [p \in Procs |-> "idle"]
  /\ draft = [p \in Procs |-> [kind |-> "capture", planned |-> None, tries |-> 0,
                              branch |-> CHOOSE b \in Work[Home[p]] : TRUE]]
  /\ link = [p \in Procs |-> [ops |-> None, branch |-> None]]
  /\ saw = [p \in Procs |-> [ops |-> None, branch |-> None]]
  /\ mine = [p \in Procs |-> None]
  /\ outcome = [p \in Procs |-> "none"]
  /\ plans = 0
  /\ crashes = 0

-----------------------------------------------------------------------------
(***************************************************************************)
(* One append, step by step.                                               *)
(***************************************************************************)

Goto(p, step) == pc' = [pc EXCEPT ![p] = step]

(* The caller has assembled its draft and calls commit_op.  A verb planned *)
(* its ref table against the log it found; a capture never runs on an      *)
(* empty log, because capture_with reconciles first and that lays the      *)
(* "init" note.                                                            *)
Plan(p, kind, b) ==
  /\ pc[p] = "idle"
  /\ plans < MaxPlans
  /\ kind = "capture" => opsRef[Home[p]] # None
  /\ draft' = [draft EXCEPT ![p] = [kind |-> kind, branch |-> b, tries |-> 1,
                                   planned |-> TableAt(opsRef[Home[p]])]]
  /\ plans' = plans + 1
  /\ Goto(p, "ready")
  /\ UNCHANGED <<store, opsRef, snapRef, reflog, lock, link, saw, mine, outcome, crashes>>

(* Faulty: trust the compare-and-swap of the transaction to exclude.       *)
MayEnterUnlocked(p) == TRUE

MayEnter(p) == lock[Home[p]] = Free

Acquire(p) ==
  /\ pc[p] = "ready"
  /\ MayEnter(p)
  /\ lock' = [lock EXCEPT ![Home[p]] = p]
  /\ Goto(p, "locked")
  /\ UNCHANGED <<store, opsRef, snapRef, reflog, draft, link, saw, mine, outcome,
                 plans, crashes>>

(* Faulty: a verb waits for the lock as long as it takes.                  *)
MayGiveUpNever(p) == lock[Home[p]] # Free /\ draft[p].kind = "capture"

MayGiveUp(p) == lock[Home[p]] # Free

(* The lock file exists.  A capture gives up at once, a verb after         *)
(* VERB_WAIT; until it does, it simply takes no step.                      *)
GiveUp(p) ==
  /\ pc[p] = "ready"
  /\ MayGiveUp(p)
  /\ outcome' = [outcome EXCEPT ![p] = "contended"]
  /\ Goto(p, "idle")
  /\ UNCHANGED <<store, opsRef, snapRef, reflog, lock, draft, link, saw, mine, plans, crashes>>

(* Faulty: a capture carries the table it found before it had the lock.    *)
TableOfUnlocked(p) ==
  IF draft[p].kind = "verb" THEN Len(store) + 1 ELSE draft[p].planned

(* A capture names its predecessor's table, a verb its own.                *)
TableOf(p) ==
  IF draft[p].kind = "verb" THEN Len(store) + 1 ELSE TableAt(opsRef[Home[p]])

(* Read the tip and the branch pointer and write the operation commit that *)
(* names them.                                                             *)
LinkOp(p) ==
  LET d == draft[p]
      now == RefsNow(p)
  IN /\ pc[p] = "locked"
     /\ link' = [link EXCEPT ![p] = now]
     /\ store' = Append(store, [kind |-> d.kind, chain |-> Home[p], branch |-> d.branch,
                                prev |-> now.ops, onBranch |-> now.branch,
                                prevVerb |-> VerbLink(now.ops), table |-> TableOf(p),
                                planned |-> d.planned])
     /\ mine' = [mine EXCEPT ![p] = Len(store) + 1]
     /\ Goto(p, "linked")
     /\ UNCHANGED <<opsRef, snapRef, reflog, lock, draft, saw, outcome, plans, crashes>>

(* gix prepare, first half: read the references' present values.           *)
Prepare(p) ==
  /\ pc[p] = "linked"
  /\ saw' = [saw EXCEPT ![p] = RefsNow(p)]
  /\ Goto(p, "prepared")
  /\ UNCHANGED <<store, opsRef, snapRef, reflog, lock, draft, link, mine, outcome,
                 plans, crashes>>

(* Whether another process's transaction holds one of p's references.      *)
RefsHeld(p) ==
  \E q \in Procs \ {p} :
     /\ pc[q] = "staged"
     /\ Home[q] = Home[p] \/ draft[q].branch = draft[p].branch

(* gix prepare, second half: lock the references and compare what was read *)
(* before with what the caller expects.                                    *)
Stage(p) ==
  /\ pc[p] = "prepared"
  /\ Goto(p, IF RefsHeld(p) \/ saw[p] # link[p] THEN "lost" ELSE "staged")
  /\ UNCHANGED <<store, opsRef, snapRef, reflog, lock, draft, link, saw, mine, outcome,
                 plans, crashes>>

PointersAfter(p) == [snapRef EXCEPT ![draft[p].branch] = mine[p]]

(* The transaction commits: both references and the reflog move.           *)
Apply(p) ==
  /\ pc[p] = "staged"
  /\ opsRef' = [opsRef EXCEPT ![Home[p]] = mine[p]]
  /\ snapRef' = PointersAfter(p)
  /\ reflog' = [reflog EXCEPT ![Home[p]] = Append(@, mine[p])]
  /\ Goto(p, "moved")
  /\ UNCHANGED <<store, lock, draft, link, saw, mine, outcome, plans, crashes>>

Unlock(p) == lock' = [lock EXCEPT ![Home[p]] = Free]

Return(p) ==
  /\ pc[p] = "moved"
  /\ Unlock(p)
  /\ outcome' = [outcome EXCEPT ![p] = "committed"]
  /\ Goto(p, "idle")
  /\ UNCHANGED <<store, opsRef, snapRef, reflog, draft, link, saw, mine, plans, crashes>>

(* append.rs retryable: the tip did not move, or a capture moved it.       *)
Retryable(p) ==
  LET tip == opsRef[Home[p]]
  IN tip = link[p].ops \/ (tip # None /\ store[tip].kind = "capture")

MayRetry(p) ==
  draft[p].kind = "verb" /\ draft[p].tries < MaxAttempts /\ Retryable(p)

(* The transaction was contended: the guard drops and a verb goes round.   *)
Retry(p) ==
  /\ pc[p] = "lost"
  /\ MayRetry(p)
  /\ draft' = [draft EXCEPT ![p].tries = @ + 1]
  /\ Unlock(p)
  /\ Goto(p, "ready")
  /\ UNCHANGED <<store, opsRef, snapRef, reflog, link, saw, mine, outcome, plans, crashes>>

Refuse(p) ==
  /\ pc[p] = "lost"
  /\ ~MayRetry(p)
  /\ Unlock(p)
  /\ outcome' = [outcome EXCEPT ![p] = "contended"]
  /\ Goto(p, "idle")
  /\ UNCHANGED <<store, opsRef, snapRef, reflog, draft, link, saw, mine, plans, crashes>>

(* The process is killed.  The lock file goes with it or stays behind.     *)
Crash(p) ==
  /\ pc[p] # "idle"
  /\ crashes < MaxCrashes
  /\ crashes' = crashes + 1
  /\ IF InCritical(p)
       THEN \E left \in {Free, Stale} : lock' = [lock EXCEPT ![Home[p]] = left]
       ELSE UNCHANGED lock
  /\ outcome' = [outcome EXCEPT ![p] = "none"]
  /\ Goto(p, "idle")
  /\ UNCHANGED <<store, opsRef, snapRef, reflog, draft, link, saw, mine, plans>>

LooksStale(c) == lock[c] = Stale

(* The user removes a stale lock file.                                     *)
Unstick(c) ==
  /\ LooksStale(c)
  /\ lock' = [lock EXCEPT ![c] = Free]
  /\ UNCHANGED <<store, opsRef, snapRef, reflog, pc, draft, link, saw, mine, outcome,
                 plans, crashes>>

(* Nothing is left to plan within the bound.                               *)
Quiet ==
  /\ plans = MaxPlans
  /\ \A p \in Procs : pc[p] = "idle"
  /\ UNCHANGED vars

Step(p) ==
  \/ Acquire(p) \/ GiveUp(p) \/ LinkOp(p) \/ Prepare(p) \/ Stage(p) \/ Apply(p)
  \/ Return(p) \/ Retry(p) \/ Refuse(p)

Next ==
  \/ \E p \in Procs : \/ \E kind \in Kinds, b \in Work[Home[p]] : Plan(p, kind, b)
                      \/ Step(p)
                      \/ Crash(p)
  \/ \E c \in Chains : Unstick(c)
  \/ Quiet

Spec == Init /\ [][Next]_vars

(* A running process is scheduled: no call to commit_op blocks for ever,   *)
(* a verb's wait included, which ends at VERB_WAIT.                        *)
FairSpec == Spec /\ \A p \in Procs : WF_vars(Step(p))

-----------------------------------------------------------------------------
(***************************************************************************)
(* Correctness.                                                            *)
(***************************************************************************)

(* The references in range: none, or an operation of the store.             *)
Ids == 0..Len(store)

(* Every variable has its type; a verb makes at most MaxAttempts attempts  *)
(* and a capture one (append.rs, commit_op).                               *)
TypeOK ==
  /\ store \in Seq(Op)
  /\ opsRef \in [Chains -> Ids]
  /\ snapRef \in [Branches -> Ids]
  /\ reflog \in [Chains -> Seq(1..Len(store))]
  /\ lock \in [Chains -> Procs \cup {Free, Stale}]
  /\ pc \in [Procs -> Steps]
  /\ draft \in [Procs -> Draft]
  /\ \A p \in Procs : /\ draft[p].branch \in Work[Home[p]]
                      /\ draft[p].tries <= (IF draft[p].kind = "verb" THEN MaxAttempts ELSE 1)
  /\ link \in [Procs -> [ops : Ids, branch : Ids]]
  /\ saw \in [Procs -> [ops : Ids, branch : Ids]]
  /\ mine \in [Procs -> Ids]
  /\ outcome \in [Procs -> Outcomes]
  /\ plans \in Nat
  /\ crashes \in Nat

(* The log is its own reflog: the tip is the newest operation the ref ever *)
(* took, and each operation names the one the ref held before it.  This is *)
(* what a lost append breaks (ops/lock.rs: the loser "vanished from the    *)
(* log while staying in the reflog").                                      *)
LogIsReflog ==
  \A c \in Chains :
     /\ opsRef[c] = IF reflog[c] = << >> THEN None ELSE reflog[c][Len(reflog[c])]
     /\ \A i \in 1..Len(reflog[c]) :
           store[reflog[c][i]].prev = IF i = 1 THEN None ELSE reflog[c][i - 1]

(* A branch only one worktree is ever opened on.                           *)
Exclusive(b, c) == b \in Work[c] /\ \A d \in Chains \ {c} : b \notin Work[d]

OnBranch(c, b) == {i \in 1..Len(reflog[c]) : store[reflog[c][i]].branch = b}

(* The pointer of a branch names the newest operation of the log that ran  *)
(* on it, and never lags one (append.rs: "the pointer can never name an op *)
(* the log has not got, or lag one it has").                               *)
PointerIsNewest ==
  \A c \in Chains, b \in Branches :
     Exclusive(b, c) =>
        IF OnBranch(c, b) = {} THEN snapRef[b] = None
        ELSE \E i \in OnBranch(c, b) : /\ snapRef[b] = reflog[c][i]
                                      /\ \A j \in OnBranch(c, b) : j <= i

(* Every operation of the log carries the ref table of the newest verb at  *)
(* or below it: a capture that observed refs, or inherited a stale table,  *)
(* would erase a move from the log for good (append.rs, "A capture names   *)
(* its predecessor's table verbatim").                                     *)
TableIsNewestVerbs ==
  \A c \in Chains : \A i \in 1..Len(reflog[c]) :
     LET verbs == {j \in 1..i : store[reflog[c][j]].kind = "verb"}
     IN IF verbs = {} THEN store[reflog[c][i]].table = None
        ELSE \E j \in verbs : /\ \A k \in verbs : k <= j
                             /\ store[reflog[c][i]].table = reflog[c][j]

(* An operation's verb link names the newest verb strictly below it, so    *)
(* the walk that shows verbs alone misses none (append.rs, verb_link).     *)
VerbLinksMissNone ==
  \A c \in Chains : \A i \in 1..Len(reflog[c]) :
     LET below == {j \in 1..(i - 1) : store[reflog[c][j]].kind = "verb"}
         named == store[reflog[c][i]].prevVerb
     IN IF below = {} THEN named = None
        ELSE \E j \in below : (\A k \in below : k <= j) /\ named = reflog[c][j]

(* A log is whole: it is its own reflog, and what is read beside it - the  *)
(* branch pointers, the table each operation carries, the links from verb  *)
(* to verb - says what the log itself says (append.rs commit_op).          *)
LogIsWhole ==
  LogIsReflog /\ PointerIsNewest /\ TableIsNewestVerbs /\ VerbLinksMissNone

(* The tip only ever moves to an operation that names the tip it replaces. *)
NoAppendLost ==
  [][\A c \in Chains :
        opsRef'[c] # opsRef[c] => store'[opsRef'[c]].prev = opsRef[c]]_vars

(* commit_op always answers: no wait on the lock, on a reference or on a   *)
(* retry goes on for ever, a stale lock file included.                     *)
EveryCallReturns == \A p \in Procs : pc[p] # "idle" ~> pc[p] = "idle"

(* The operations an append put on a chain, newest last, as the walk over  *)
(* fufu-prev finds them.                                                   *)
Walk(tip) ==
  LET path[i \in Ids] == IF i = None THEN << >> ELSE Append(path[store[i].prev], i)
  IN path[tip]

Abstract == INSTANCE AppendLog WITH written <- Len(store),
                                    log <- [c \in Chains |-> Walk(opsRef[c])]

(* What the log promises its readers: it grows by one operation at a time  *)
(* at its end, and nothing on it moves or disappears.                      *)
ImplementsAppendLog == Abstract!Spec

=============================================================================
